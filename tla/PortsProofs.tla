----------------------------- MODULE PortsProofs -----------------------------
(***************************************************************************)
(* ffn-portd and what it hosts, and the switch daemon behind it, for every *)
(* set of ports, groups, members, threads, engines, clients and revisions  *)
(* and every lease and wait.                                               *)
(***************************************************************************)
EXTENDS PortTable, LacpEngine, SwitchDaemon, PacketOwner, AggregateOwner, FiniteSetTheorems, TLAPS

----------------------------------------------------------------------------
(* The port table.                                                         *)

\* A daemon that is down holds nothing; this is what lets a restart load any
\* table that was saved.
TabInv ==
  /\ TabTypeOK /\ OneOwner /\ LeaseWhole
  /\ ~tabUp => \A p \in TabPort : member[p] = None

\* A table that wants nothing, and no waiting, are well formed.
LEMMA TabEmpty ==
  /\ TabOff \in [TabPort -> Mode]
  /\ [p \in TabPort |-> 0] \in [TabPort -> 0..Retry]
  /\ [p \in TabPort |-> None] \in [TabPort -> TabGroup \cup {None}]
  BY TabAssumption DEF TabOff, Mode

LEMMA TabInitInv == TabInit => TabInv
  <1>1. TabInit => TabTypeOK
    BY TabEmpty, TabAssumption DEF TabInit, TabTypeOK
  <1>2. TabInit => TabInv
    BY <1>1, TabAssumption DEF TabInit, TabInv, OneOwner, LeaseWhole
  <1>. QED  BY <1>2

LEMMA TabTypeStep ==
  ASSUME TabInv, [TabNext]_tabVars PROVE TabTypeOK'
  <1>. USE TabAssumption DEF TabInv, TabTypeOK, links, tabHeld
  <1>1. CASE \E row \in Rows : TabTable(row)
    BY <1>1 DEF TabTable, TabSave
  <1>2. CASE \E p \in TabPort : Attach(p)
    BY <1>2 DEF Attach, TabSave, Mode
  <1>3. CASE \E p \in TabPort : Detach(p)
    BY <1>3 DEF Detach, TabSave, Mode
  <1>4. CASE \E p \in TabPort : TabFault(p)
    BY <1>4 DEF TabFault
  <1>5. CASE \E g \in TabGroup : LeaseBegin(g)
    BY <1>5 DEF LeaseBegin
  <1>6. CASE \E g \in TabGroup : LeaseFails(g)
    BY <1>6 DEF LeaseFails
  <1>7. CASE \E seq \in 1..MaxSeq, s \in {{}, TabPort} : Links(seq, s)
    BY <1>7 DEF Links
  <1>8. CASE TabPass
    BY <1>8 DEF TabPass, CarrierNow
  <1>9. CASE TabCrash
    BY <1>9, TabEmpty DEF TabCrash
  <1>10. CASE TabRestart
    BY <1>10, TabEmpty DEF TabRestart
  <1>11. CASE UNCHANGED tabVars
    BY <1>11 DEF tabVars
  <1>. QED
    BY <1>1, <1>2, <1>3, <1>4, <1>5, <1>6, <1>7, <1>8, <1>9, <1>10, <1>11 DEF TabNext

\* No order of table, attach request, lease and pass gives a port two owners.
LEMMA TabOwnerStep ==
  ASSUME TabInv, [TabNext]_tabVars
  PROVE  /\ OneOwner' /\ LeaseWhole'
         /\ (~tabUp => \A p \in TabPort : member[p] = None)'
  <1>. USE TabAssumption DEF TabInv, OneOwner, LeaseWhole, links, tabHeld
  <1>1. CASE \E row \in Rows : TabTable(row)
    BY <1>1 DEF TabTable, TabRefused, TabTypeOK
  <1>2. CASE \E p \in TabPort : Attach(p)
    BY <1>2 DEF Attach, TabTypeOK
  <1>3. CASE \E p \in TabPort : Detach(p)
    BY <1>3 DEF Detach, TabTypeOK
  <1>4. CASE \E p \in TabPort : TabFault(p)
    BY <1>4 DEF TabFault
  <1>5. CASE \E g \in TabGroup : LeaseBegin(g)
    BY <1>5 DEF LeaseBegin, MayJoin, TabTypeOK, Mode
  <1>6. CASE \E g \in TabGroup : LeaseFails(g)
    BY <1>6 DEF LeaseFails
  <1>7. CASE \E seq \in 1..MaxSeq, s \in {{}, TabPort} : Links(seq, s)
    BY <1>7 DEF Links
  <1>8. CASE TabPass
    BY <1>8 DEF TabPass, TabTypeOK
  <1>9. CASE TabCrash
    BY <1>9 DEF TabCrash
  <1>10. CASE TabRestart
    BY <1>10 DEF TabRestart
  <1>11. CASE UNCHANGED tabVars
    BY <1>11 DEF tabVars
  <1>. QED
    BY <1>1, <1>2, <1>3, <1>4, <1>5, <1>6, <1>7, <1>8, <1>9, <1>10, <1>11 DEF TabNext

\* TabSafe: a port has one owner and a lease all its members, whichever of
\* table, attach request, lease, pass and restart comes first.
THEOREM PortTableSafe == TabSpec => []TabSafe
  <1>1. TabInv /\ [TabNext]_tabVars => TabInv'
    BY TabTypeStep, TabOwnerStep DEF TabInv
  <1>2. TabInv => TabSafe
    BY DEF TabInv, TabSafe
  <1>. QED
    BY TabInitInv, <1>1, <1>2, PTL DEF TabSpec

----------------------------------------------------------------------------
(* LACP.                                                                   *)

\* The best of finitely many under a total order.
LEMMA BestExists ==
  ASSUME NEW S, IsFiniteSet(S), S # {}, NEW R,
         \A x, y \in S : <<x, y>> \in R \/ <<y, x>> \in R,
         \A x, y, z \in S : <<x, y>> \in R /\ <<y, z>> \in R => <<x, z>> \in R
  PROVE  \E b \in S : \A c \in S : <<b, c>> \in R
  <1>. DEFINE Bad == {A \in SUBSET S : A # {} /\ ~\E b \in A : \A c \in A : <<b, c>> \in R}
  <1>1. SUFFICES ASSUME Bad # {} PROVE FALSE
    <2>1. S \notin Bad => \E b \in S : \A c \in S : <<b, c>> \in R
      OBVIOUS
    <2>. QED  BY <2>1
  <1>2. PICK A \in Bad : \A B \in Bad : <<B, A>> \notin StrictSubsetOrdering(S)
    <2>1. IsWellFoundedOn(StrictSubsetOrdering(S), SUBSET S)
      BY FS_StrictSubsetOrderingWellFounded, FS_FiniteSubsetsOfFinite
    <2>2. Bad \subseteq SUBSET S
      OBVIOUS
    <2>. HIDE DEF Bad
    <2>. QED  BY <1>1, <2>1, <2>2, WFMin
  <1>3. PICK x \in A : TRUE
    OBVIOUS
  <1>4. A \ {x} \notin Bad
    <2>1. <<A \ {x}, A>> \in StrictSubsetOrdering(S)
      BY <1>3 DEF StrictSubsetOrdering
    <2>. QED  BY <1>2, <2>1
  <1>5. CASE A = {x}
    BY <1>5
  <1>6. CASE A # {x}
    <2>1. PICK y \in A \ {x} : \A c \in A \ {x} : <<y, c>> \in R
      <3>1. A \ {x} \in SUBSET S /\ A \ {x} # {}
        BY <1>3, <1>6
      <3>. QED  BY <1>4, <3>1
    <2>2. CASE <<x, y>> \in R
      <3>1. \A c \in A : <<x, c>> \in R
        BY <2>1, <2>2, <1>3
      <3>. QED  BY <3>1, <1>3
    <2>3. CASE <<y, x>> \in R
      <3>1. \A c \in A : <<y, c>> \in R
        BY <2>1, <2>3
      <3>. QED  BY <3>1, <2>1
    <2>. QED  BY <2>2, <2>3, <2>1, <1>3
  <1>. QED  BY <1>5, <1>6

LacpPeer == [sys : {d.sys : d \in Pdu}, port : Nat, agg : BOOLEAN, sync : BOOLEAN, coll : BOOLEAN,
             match : BOOLEAN, act : BOOLEAN]
LacpMember ==
  [link : BOOLEAN, speed : LacpSpeed \cup {0}, lease : 0..LeaseMax,
   rx : {"disabled", "expired", "current", "defaulted"}, deadline : 0..(RxDeadline + Grace),
   peer : LacpPeer \cup {None}, matched : BOOLEAN, selected : BOOLEAN, since : 0..Wait,
   sync : BOOLEAN, dirty : BOOLEAN, due : BOOLEAN]

LacpTyped ==
  /\ m \in [Member -> LacpMember] /\ steady \in [Member -> 0..Wait]
  /\ lacpFault \in BOOLEAN /\ known \in BOOLEAN /\ active \in BOOLEAN
  /\ gates \in [collect : SUBSET Member, distribute : SUBSET Member]
  /\ lacpHw \in [collect : SUBSET Member, distribute : SUBSET Member]
  /\ bucket = None \/ bucket[2] \in LacpSpeed

\* A link that is up has a speed.
LinkHasSpeed(ms) == \A p \in Member : ms[p].link => ms[p].speed \in LacpSpeed

\* Selection is what the last tick made of the members: a member is selected
\* only in the bucket, live, and synchronised only after its wait.
SelectionTrue ==
  \A p \in Member :
    /\ m[p].selected => /\ bucket # None /\ p \in InBucket(m, bucket)
                        /\ m[p].link /\ m[p].lease > 0
    /\ m[p].sync => m[p].selected /\ m[p].since = 0

\* What is left of a member's wait makes up for what it has not stood yet.
WaitAccounted == \A p \in Member : m[p].selected => steady[p] + m[p].since >= Wait

\* The gates that are known are the ones the members call for, and closed
\* after a fault.
GatesKnown ==
  /\ known => lacpHw = gates /\ gates = IF lacpFault THEN LacpClosed ELSE Desired(m)
  /\ ~known => lacpFault
  /\ gates.distribute \subseteq gates.collect

LacpInv == LacpTyped /\ LinkHasSpeed(m) /\ SelectionTrue /\ WaitAccounted /\ GatesKnown

\* The receive machine keeps a member well formed; one that stays current has a
\* link and a fresh observation.
LEMMA AgedMember ==
  ASSUME NEW s \in LacpMember
  PROVE  /\ Aged(s) \in LacpMember
         /\ Aged(s).selected = s.selected /\ Aged(s).since = s.since /\ Aged(s).speed = s.speed
         /\ Aged(s).link => s.link
         /\ Aged(s).lease = s.lease
         /\ Current(Aged(s)) => Aged(s).link /\ s.lease > 0
  <1>1. Aged(s) \in LacpMember
    <2>1. Gone(s) \in LacpMember
      BY DEF Gone, LacpMember
    <2>2. [s EXCEPT !.rx = "defaulted", !.peer = None, !.matched = FALSE, !.dirty = TRUE] \in LacpMember
      BY DEF LacpMember
    <2>3. (IF s.peer = None THEN None ELSE [s.peer EXCEPT !.sync = FALSE]) \in LacpPeer \cup {None}
      BY DEF LacpMember, LacpPeer
    <2>4. \A w \in LacpPeer \cup {None} :
            [s EXCEPT !.rx = "expired", !.matched = FALSE, !.deadline = Grace, !.dirty = TRUE,
                      !.peer = w] \in LacpMember
      <3>1. Grace \in 0..(RxDeadline + Grace)
        BY LacpAssumption
      <3>. QED  BY <3>1 DEF LacpMember
    <2>. QED  BY <2>1, <2>2, <2>3, <2>4 DEF Aged
  <1>2. /\ Aged(s).selected = s.selected /\ Aged(s).since = s.since /\ Aged(s).speed = s.speed
        /\ Aged(s).link => s.link
        /\ Aged(s).lease = s.lease
    BY DEF Aged, Gone, LacpMember
  <1>3. Current(Aged(s)) => Aged(s).link /\ s.lease > 0
    BY LacpAssumption DEF Aged, Gone, LacpMember, Current
  <1>. QED  BY <1>1, <1>2, <1>3

\* Selection touches nothing a candidate is judged by.
LEMMA SelectedMember ==
  ASSUME NEW s \in LacpMember, NEW sel \in BOOLEAN, lacpFault \in BOOLEAN
  PROVE  /\ Selected(s, sel) \in LacpMember
         /\ Selected(s, sel).selected = sel
         /\ Selected(s, sel).rx = s.rx /\ Selected(s, sel).peer = s.peer
         /\ Selected(s, sel).speed = s.speed /\ Selected(s, sel).lease = s.lease
         /\ Selected(s, sel).link = s.link
         /\ Selected(s, sel).sync => sel /\ Selected(s, sel).since = 0
         /\ sel => Selected(s, sel).since = IF s.selected THEN s.since ELSE Wait
  <1>. DEFINE since == IF sel /\ ~s.selected THEN Wait ELSE s.since
              sync == sel /\ since = 0 /\ ~lacpFault
              n == [s EXCEPT !.selected = sel, !.since = IF sel THEN since ELSE 0, !.sync = sync,
                             !.dirty = @ \/ (sync # s.sync)]
  <1>1. Selected(s, sel) = n
    BY DEF Selected
  <1>2. since \in 0..Wait /\ 0 \in 0..Wait /\ sync \in BOOLEAN /\ (s.dirty \/ (sync # s.sync)) \in BOOLEAN
    BY LacpAssumption DEF LacpMember
  <1>3. n \in LacpMember
    <2>. HIDE DEF since, sync
    <2>. QED  BY <1>2 DEF LacpMember
  <1>4. /\ n.selected = sel /\ n.rx = s.rx /\ n.peer = s.peer /\ n.speed = s.speed
        /\ n.lease = s.lease /\ n.link = s.link
    BY DEF LacpMember
  <1>5. /\ n.sync => sel /\ n.since = 0
        /\ sel => n.since = IF s.selected THEN s.since ELSE Wait
    BY DEF LacpMember
  <1>. QED  BY <1>1, <1>3, <1>4, <1>5

LEMMA SameBucket ==
  ASSUME NEW ms, NEW ns,
         \A p \in Member : ms[p].rx = ns[p].rx /\ ms[p].peer = ns[p].peer /\ ms[p].speed = ns[p].speed
  PROVE  /\ Candidates(ms) = Candidates(ns)
         /\ \A b : InBucket(ms, b) = InBucket(ns, b)
  <1>1. \A p \in Member : Current(ms[p]) <=> Current(ns[p])
    BY DEF Current
  <1>2. \A p \in Member : Twins(ms, p) = Twins(ns, p)
    BY <1>1 DEF Twins
  <1>3. Candidates(ms) = Candidates(ns)
    BY <1>1, <1>2 DEF Candidates
  <1>4. \A b : InBucket(ms, b) = InBucket(ns, b)
    BY <1>3 DEF InBucket, KeyOf, Candidates
  <1>. QED  BY <1>3, <1>4

\* A bucket, when one is taken, is the key of a candidate: the best exists.
LEMMA BucketIsKey ==
  ASSUME NEW ms \in [Member -> LacpMember]
  PROVE  Bucket(ms) = None \/ Bucket(ms) = bucket \/ Bucket(ms) \in Keys(ms)
  <1>1. SUFFICES ASSUME Keys(ms) # {}
                 PROVE  \E b \in Keys(ms) : \A c \in Keys(ms) : Better(ms, b, c)
    BY DEF Bucket
  <1>2. IsFiniteSet(Keys(ms)) /\ \A b : InBucket(ms, b) \subseteq Member
    <2>1. IsFiniteSet(Candidates(ms)) /\ \A b : InBucket(ms, b) \subseteq Member
      BY LacpAssumption, FS_Subset DEF Candidates, InBucket
    <2>2. [p \in Candidates(ms) |-> KeyOf(ms[p])] \in Surjection(Candidates(ms), Keys(ms))
      BY DEF Keys, Surjection
    <2>. QED  BY <2>1, <2>2, FS_Surjection
  <1>3. \A b : Cardinality(InBucket(ms, b)) \in Nat
    BY <1>2, LacpAssumption, FS_Subset, FS_CardinalityType
  <1>4. \A b \in Keys(ms) : b[1] \in Nat /\ b[2] \in Nat
    <2>1. \A s \in LacpMember : s.peer # None => s.peer.sys \in Nat /\ s.speed \in Nat
      <3>1. {d.sys : d \in Pdu} \subseteq Nat
        BY LacpAssumption DEF LacpWord
      <3>. QED  BY <3>1, LacpAssumption DEF LacpMember, LacpPeer
    <2>2. \A p \in Candidates(ms) : ms[p] \in LacpMember /\ ms[p].peer # None
      BY DEF Candidates, Current
    <2>. QED  BY <2>1, <2>2 DEF Keys, KeyOf
  <1>5. \A b \in Keys(ms) : Weight(ms, b) \in Nat
    BY <1>3, <1>4 DEF Weight
  <1>6. \A b, c \in Keys(ms) : b[1] = c[1] /\ b[2] = c[2] => b = c
    BY DEF Keys, KeyOf
  <1>. DEFINE R == {bc \in Keys(ms) \X Keys(ms) : Better(ms, bc[1], bc[2])}
  <1>7. \A b, c \in Keys(ms) : <<b, c>> \in R <=> Better(ms, b, c)
    OBVIOUS
  <1>8. \A b, c \in Keys(ms) : Better(ms, b, c) \/ Better(ms, c, b)
    BY <1>4, <1>5 DEF Better
  <1>9. \A b, c, d \in Keys(ms) : Better(ms, b, c) /\ Better(ms, c, d) => Better(ms, b, d)
    BY <1>4, <1>5 DEF Better
  <1>. HIDE DEF R
  <1>10. \E b \in Keys(ms) : \A c \in Keys(ms) : <<b, c>> \in R
    BY <1>1, <1>2, <1>7, <1>8, <1>9, BestExists
  <1>. QED  BY <1>7, <1>10

\* A tick makes the invariant of whatever members an entry point leaves it, as
\* long as links have speeds and the waits are accounted for.
LEMMA TickStep ==
  ASSUME LacpInv, NEW ms0 \in [Member -> LacpMember], LinkHasSpeed(ms0),
         steady' \in [Member -> 0..Wait],
         \A p \in Member : ms0[p].selected => steady'[p] + ms0[p].since >= Wait,
         LacpTick(ms0)
  PROVE  LacpInv'
  <1>. DEFINE ms == [p \in Member |-> Aged(ms0[p])]
              b == Bucket(ms)
              sel(p) == b # None /\ p \in InBucket(ms, b)
  <1>1. /\ m' = [p \in Member |-> Selected(ms[p], sel(p))]
        /\ bucket' = b /\ LacpApply(Desired(m'))
    BY DEF LacpTick
  <1>2. ms \in [Member -> LacpMember]
    BY AgedMember
  <1>3. \A p \in Member :
          /\ m'[p] \in LacpMember /\ m'[p].selected = sel(p)
          /\ m'[p].rx = ms[p].rx /\ m'[p].peer = ms[p].peer /\ m'[p].speed = ms[p].speed
          /\ m'[p].lease = ms[p].lease /\ m'[p].link = ms[p].link
          /\ m'[p].sync => sel(p) /\ m'[p].since = 0
          /\ sel(p) => m'[p].since = IF ms[p].selected THEN ms[p].since ELSE Wait
    <2>. SUFFICES ASSUME NEW p \in Member
                  PROVE  /\ m'[p] \in LacpMember /\ m'[p].selected = sel(p)
                         /\ m'[p].rx = ms[p].rx /\ m'[p].peer = ms[p].peer /\ m'[p].speed = ms[p].speed
                         /\ m'[p].lease = ms[p].lease /\ m'[p].link = ms[p].link
                         /\ m'[p].sync => sel(p) /\ m'[p].since = 0
                         /\ sel(p) => m'[p].since = IF ms[p].selected THEN ms[p].since ELSE Wait
      OBVIOUS
    <2>1. ms[p] \in LacpMember /\ sel(p) \in BOOLEAN /\ m'[p] = Selected(ms[p], sel(p))
      BY <1>1, <1>2
    <2>2. lacpFault \in BOOLEAN
      BY DEF LacpInv, LacpTyped
    <2>. HIDE DEF sel, ms
    <2>. QED  BY <2>1, <2>2, SelectedMember
  <1>4. \A p \in Member : /\ ms[p].selected = ms0[p].selected /\ ms[p].since = ms0[p].since
                          /\ ms[p].speed = ms0[p].speed /\ (ms[p].link => ms0[p].link)
                          /\ Current(ms[p]) => ms[p].link /\ ms[p].lease > 0
    BY AgedMember
  <1>. HIDE DEF ms, b
  <1>5. InBucket(ms, b) = InBucket(m', b)
    <2>1. \A p \in Member : ms[p].rx = m'[p].rx /\ ms[p].peer = m'[p].peer /\ ms[p].speed = m'[p].speed
      BY <1>3
    <2>. QED  BY <2>1, SameBucket
  <1>6. LinkHasSpeed(m')
    BY <1>3, <1>4 DEF LinkHasSpeed
  <1>7. SelectionTrue'
    <2>1. \A p \in Member : sel(p) => ms[p].link /\ ms[p].lease > 0
      BY <1>4 DEF InBucket, Candidates
    <2>2. \A p \in Member :
            /\ m'[p].selected => /\ bucket' # None /\ p \in InBucket(m', bucket')
                                 /\ m'[p].link /\ m'[p].lease > 0
            /\ m'[p].sync => m'[p].selected /\ m'[p].since = 0
      BY <1>1, <1>3, <1>5, <2>1
    <2>. QED  BY <2>2 DEF SelectionTrue, InBucket, Candidates, Twins, Current, KeyOf
  <1>8. WaitAccounted'
    <2>. SUFFICES ASSUME NEW p \in Member, m'[p].selected
                  PROVE  steady'[p] + m'[p].since >= Wait
      BY DEF WaitAccounted
    <2>1. steady'[p] \in 0..Wait /\ m'[p].since = IF ms0[p].selected THEN ms0[p].since ELSE Wait
      BY <1>3, <1>4
    <2>2. ms0[p].selected => steady'[p] + ms0[p].since >= Wait
      OBVIOUS
    <2>. QED  BY <2>1, <2>2, LacpAssumption
  <1>9. bucket' = None \/ bucket'[2] \in LacpSpeed
    <2>1. CASE b \in Keys(ms)
      <3>1. PICK p \in Candidates(ms) : b = KeyOf(ms[p])
        BY <2>1 DEF Keys
      <3>2. p \in Member /\ ms[p].link
        BY <1>4 DEF Candidates
      <3>3. ms[p].speed \in LacpSpeed
        BY <3>2, <1>4 DEF LinkHasSpeed
      <3>. QED  BY <3>1, <3>3, <1>1 DEF KeyOf
    <2>2. CASE b \in {None, bucket}
      BY <2>2, <1>1 DEF LacpInv, LacpTyped
    <2>. QED  BY <2>1, <2>2, <1>2, BucketIsKey DEF b
  <1>10. m' \in [Member -> LacpMember]
    BY <1>1, <1>3
  <1>11. Desired(m') \in [collect : SUBSET Member, distribute : SUBSET Member]
         /\ Desired(m').distribute \subseteq Desired(m').collect
    BY DEF Desired
  <1>13. active' \in BOOLEAN
    BY DEF LacpTick, LacpInv, LacpTyped
  <1>12. GatesKnown' /\ lacpFault' \in BOOLEAN /\ known' \in BOOLEAN
         /\ gates' \in [collect : SUBSET Member, distribute : SUBSET Member]
         /\ lacpHw' \in [collect : SUBSET Member, distribute : SUBSET Member]
    <2>. DEFINE D == Desired(m')
    <2>1. /\ known' => lacpHw' = gates' /\ gates' = IF lacpFault' THEN LacpClosed ELSE D
          /\ ~known' => lacpFault'
          /\ gates'.distribute \subseteq gates'.collect
          /\ lacpFault' \in BOOLEAN /\ known' \in BOOLEAN
          /\ gates' \in [collect : SUBSET Member, distribute : SUBSET Member]
          /\ lacpHw' \in [collect : SUBSET Member, distribute : SUBSET Member]
      <3>1. LacpApply(D) /\ LacpTyped /\ GatesKnown
        BY <1>1 DEF LacpInv
      <3>2. D \in [collect : SUBSET Member, distribute : SUBSET Member]
            /\ D.distribute \subseteq D.collect
        BY <1>11
      <3>. HIDE DEF D
      <3>3. CASE lacpFault \/ (known /\ gates = D)
        BY <3>1, <3>3 DEF LacpApply, LacpTyped, GatesKnown
      <3>4. CASE ~(lacpFault \/ (known /\ gates = D))
        <4>1. LacpClosed \in [collect : SUBSET Member, distribute : SUBSET Member]
              /\ LacpClosed.distribute \subseteq LacpClosed.collect
          BY DEF LacpClosed
        <4>2. \/ gates' = D /\ lacpHw' = D /\ known' = TRUE /\ lacpFault' = FALSE
              \/ lacpFault' = TRUE /\ known' = TRUE /\ gates' = LacpClosed /\ lacpHw' = LacpClosed
              \/ lacpFault' = TRUE /\ known' = FALSE /\ lacpHw' \in {lacpHw, D} /\ gates' = gates
          BY <3>1, <3>4 DEF LacpApply, LacpTyped
        <4>. QED  BY <3>1, <3>2, <4>1, <4>2 DEF LacpTyped, GatesKnown
      <3>. QED  BY <3>3, <3>4
    <2>. QED  BY <2>1 DEF GatesKnown, Desired, Collectable
  <1>. QED
    BY <1>6, <1>7, <1>8, <1>9, <1>10, <1>12, <1>13 DEF LacpInv, LacpTyped, LinkHasSpeed

LEMMA LacpInitInv == LacpInit => LacpInv
  <1>. SUFFICES ASSUME LacpInit PROVE LacpInv
    OBVIOUS
  <1>1. Down \in LacpMember /\ 0 \in 0..Wait
    BY LacpAssumption DEF Down, LacpMember
  <1>2. LacpTyped
    BY <1>1 DEF LacpInit, LacpTyped, LacpClosed
  <1>3. \A p \in Member : ~m[p].selected /\ ~m[p].sync /\ ~m[p].link
    BY DEF LacpInit, Down
  <1>4. Desired(m) = LacpClosed
    BY <1>3 DEF Desired, Collectable, LacpClosed
  <1>. QED
    BY <1>2, <1>3, <1>4 DEF LacpInv, LinkHasSpeed, SelectionTrue, WaitAccounted, GatesKnown,
       LacpInit, LacpClosed

\* LacpAdvance: a unit of time passes.
LEMMA AdvanceStep == ASSUME LacpInv, LacpAdvance PROVE LacpInv'
  <1>. DEFINE ms0 == [p \in Member |->
                        [m[p] EXCEPT !.lease = Minus(@), !.deadline = Minus(@),
                                     !.since = Minus(@), !.due = TRUE]]
  <1>1. \A n \in Nat : Minus(n) \in Nat /\ Minus(n) <= n /\ Minus(n) + 1 >= n
    BY DEF Minus
  <1>2. \A p \in Member :
          /\ ms0[p] \in LacpMember /\ ms0[p].link = m[p].link /\ ms0[p].speed = m[p].speed
          /\ ms0[p].selected = m[p].selected /\ ms0[p].since = Minus(m[p].since)
    <2>. SUFFICES ASSUME NEW p \in Member
                  PROVE  /\ ms0[p] \in LacpMember /\ ms0[p].link = m[p].link /\ ms0[p].speed = m[p].speed
                         /\ ms0[p].selected = m[p].selected /\ ms0[p].since = Minus(m[p].since)
      OBVIOUS
    <2>1. m[p] \in LacpMember
      BY DEF LacpInv, LacpTyped
    <2>2. /\ Minus(m[p].lease) \in 0..LeaseMax /\ Minus(m[p].deadline) \in 0..(RxDeadline + Grace)
          /\ Minus(m[p].since) \in 0..Wait
      BY <2>1, <1>1, LacpAssumption DEF LacpMember
    <2>. QED  BY <2>1, <2>2 DEF LacpMember
  <1>3. LinkHasSpeed(ms0)
    BY <1>2 DEF LacpInv, LinkHasSpeed
  <1>4. steady' \in [Member -> 0..Wait]
    <2>1. \A p \in Member : steady[p] \in 0..Wait
      BY DEF LacpInv, LacpTyped
    <2>2. steady' = [p \in Member |-> IF steady[p] < Wait THEN steady[p] + 1 ELSE Wait]
      BY DEF LacpAdvance
    <2>. QED  BY <2>1, <2>2, LacpAssumption
  <1>5. \A p \in Member : ms0[p].selected => steady'[p] + ms0[p].since >= Wait
    <2>. SUFFICES ASSUME NEW p \in Member, m[p].selected
                  PROVE  steady'[p] + Minus(m[p].since) >= Wait
      BY <1>2
    <2>1. m[p].since \in 0..Wait /\ steady[p] \in 0..Wait /\ steady[p] + m[p].since >= Wait
      BY DEF LacpInv, LacpTyped, LacpMember, WaitAccounted
    <2>2. steady'[p] = IF steady[p] < Wait THEN steady[p] + 1 ELSE Wait
      BY DEF LacpAdvance
    <2>. QED  BY <2>1, <2>2, LacpAssumption DEF Minus
  <1>6. ms0 \in [Member -> LacpMember] /\ LacpTick(ms0)
    BY <1>2 DEF LacpAdvance
  <1>. HIDE DEF ms0
  <1>. QED  BY <1>3, <1>4, <1>5, <1>6, TickStep

\* ffn_lacp_link: the observation of the carrier and the speed.
LEMMA LinkStep ==
  ASSUME LacpInv, NEW p \in Member, NEW up \in BOOLEAN, NEW speed \in LacpSpeed \cup {0},
         up => speed \in LacpSpeed, Link(p, up, speed)
  PROVE  LacpInv'
  <1>. DEFINE s == m[p]
              forgotten == [s EXCEPT !.peer = None, !.matched = FALSE, !.selected = FALSE, !.sync = FALSE,
                                     !.rx = IF up THEN "expired" ELSE "disabled", !.deadline = Grace,
                                     !.dirty = TRUE]
              n == IF s.link = up /\ s.speed = speed THEN s ELSE forgotten
              seen == [n EXCEPT !.link = up, !.speed = speed, !.lease = LeaseMax]
              ms0 == [m EXCEPT ![p] = seen]
  <1>1. m \in [Member -> LacpMember] /\ steady \in [Member -> 0..Wait] /\ s \in LacpMember
    BY DEF LacpInv, LacpTyped
  <1>2. Grace \in 0..(RxDeadline + Grace) /\ LeaseMax \in 0..LeaseMax /\ 0 \in 0..Wait
    BY LacpAssumption
  <1>3. forgotten \in LacpMember /\ ~forgotten.selected
    BY <1>1, <1>2 DEF LacpMember
  <1>4. n \in LacpMember /\ (n = s \/ ~n.selected)
    BY <1>1, <1>3
  <1>. HIDE DEF forgotten, n
  <1>5. /\ seen \in LacpMember /\ seen.selected = n.selected /\ seen.since = n.since
        /\ seen.link => seen.speed \in LacpSpeed
    BY <1>2, <1>4 DEF LacpMember
  <1>. HIDE DEF seen
  <1>6. ms0 \in [Member -> LacpMember] /\ LinkHasSpeed(ms0)
    BY <1>1, <1>5 DEF LacpInv, LinkHasSpeed
  <1>7. LacpTick(ms0) /\ steady' = IF n = s THEN steady ELSE Restarted(p)
    BY DEF Link, ms0, seen, n, forgotten
  <1>8. steady' \in [Member -> 0..Wait]
    BY <1>1, <1>2, <1>7 DEF Restarted
  <1>9. \A q \in Member : ms0[q].selected => steady'[q] + ms0[q].since >= Wait
    <2>. SUFFICES ASSUME NEW q \in Member, ms0[q].selected
                  PROVE  steady'[q] + ms0[q].since >= Wait
      OBVIOUS
    <2>1. m[q].selected => steady[q] + m[q].since >= Wait
      BY DEF LacpInv, WaitAccounted
    <2>2. CASE q # p
      BY <1>1, <1>7, <2>1, <2>2 DEF Restarted
    <2>3. CASE q = p
      BY <1>1, <1>4, <1>5, <1>7, <2>1, <2>3
    <2>. QED  BY <2>2, <2>3
  <1>. HIDE DEF ms0
  <1>. QED  BY <1>6, <1>7, <1>8, <1>9, TickStep

\* ffn_lacp_receive: a partner's word, the same identity or another.
LEMMA ReceiveStep ==
  ASSUME LacpInv, NEW p \in Member, NEW pdu \in Pdu, LacpReceive(p, pdu)
  PROVE  LacpInv'
  <1>. DEFINE s == m[p]
              n == IF SameIdentity(s, pdu) THEN s ELSE [s EXCEPT !.selected = FALSE, !.sync = FALSE]
              ms0 == [m EXCEPT ![p] = Heard(s, pdu)]
  <1>1. m \in [Member -> LacpMember] /\ steady \in [Member -> 0..Wait] /\ s \in LacpMember
    BY DEF LacpInv, LacpTyped
  <1>2. n \in LacpMember /\ (n = s \/ ~n.selected) /\ n.link = s.link /\ n.speed = s.speed
    BY <1>1 DEF LacpMember
  <1>3. /\ Heard(s, pdu) \in LacpMember /\ Heard(s, pdu).selected = n.selected
        /\ Heard(s, pdu).since = n.since
        /\ Heard(s, pdu).link = s.link /\ Heard(s, pdu).speed = s.speed
    <2>. DEFINE h == [n EXCEPT !.dirty = @ \/ s.peer # pdu, !.peer = pdu, !.matched = pdu.match /\ (pdu.act \/ active),
                               !.rx = "current", !.deadline = RxDeadline]
    <2>1. Heard(s, pdu) = h
      BY DEF Heard
    <2>2. pdu \in LacpPeer /\ (pdu.match /\ (pdu.act \/ active)) \in BOOLEAN /\ RxDeadline \in 0..(RxDeadline + Grace)
      BY LacpAssumption DEF LacpPeer, LacpWord
    <2>. HIDE DEF n, s
    <2>3. h \in LacpMember /\ h.selected = n.selected /\ h.since = n.since /\ h.link = n.link /\ h.speed = n.speed
      BY <1>2, <2>2 DEF LacpMember
    <2>. QED  BY <2>1, <2>3, <1>2
  <1>4. ms0 \in [Member -> LacpMember] /\ LinkHasSpeed(ms0)
    BY <1>1, <1>3 DEF LacpInv, LinkHasSpeed
  <1>5. /\ LacpTick(ms0)
        /\ steady' = IF SameIdentity(s, pdu) /\ s.rx = "current" THEN steady ELSE Restarted(p)
    BY DEF LacpReceive
  <1>6. steady' \in [Member -> 0..Wait]
    BY <1>1, <1>5, LacpAssumption DEF Restarted
  <1>7. s.selected => s.rx = "current"
    BY DEF LacpInv, SelectionTrue, InBucket, Candidates, Current
  <1>8. \A q \in Member : ms0[q].selected => steady'[q] + ms0[q].since >= Wait
    <2>. SUFFICES ASSUME NEW q \in Member, ms0[q].selected
                  PROVE  steady'[q] + ms0[q].since >= Wait
      OBVIOUS
    <2>1. m[q].selected => steady[q] + m[q].since >= Wait
      BY DEF LacpInv, WaitAccounted
    <2>2. CASE q # p
      BY <1>1, <1>5, <2>1, <2>2 DEF Restarted
    <2>3. CASE q = p
      <3>1. n.selected /\ n = s /\ SameIdentity(s, pdu)
        BY <1>1, <1>2, <1>3, <2>3 DEF LacpMember
      <3>. QED  BY <1>1, <1>3, <1>5, <1>7, <2>1, <2>3, <3>1
    <2>. QED  BY <2>2, <2>3
  <1>. HIDE DEF ms0
  <1>. QED  BY <1>4, <1>5, <1>6, <1>8, TickStep

\* ffn_lacp_transmit clears one flag, which nothing is judged by.
LEMMA TransmitStep ==
  ASSUME LacpInv, NEW p \in Member, Transmit(p)
  PROVE  LacpInv'
  <1>1. m' \in [Member -> LacpMember]
    <2>1. [m[p] EXCEPT !.dirty = FALSE, !.due = FALSE] \in LacpMember
      <3>1. m[p] \in LacpMember
        BY DEF LacpInv, LacpTyped
      <3>. QED  BY <3>1 DEF LacpMember
    <2>. QED  BY <2>1 DEF Transmit, LacpInv, LacpTyped
  <1>2. \A q \in Member :
          /\ m'[q].rx = m[q].rx /\ m'[q].peer = m[q].peer /\ m'[q].speed = m[q].speed
          /\ m'[q].selected = m[q].selected /\ m'[q].sync = m[q].sync /\ m'[q].since = m[q].since
          /\ m'[q].link = m[q].link /\ m'[q].lease = m[q].lease /\ m'[q].matched = m[q].matched
    BY DEF Transmit, LacpInv, LacpTyped, LacpMember
  <1>3. \A b : InBucket(m, b) = InBucket(m', b)
    <2>1. \A q \in Member : m[q].rx = m'[q].rx /\ m[q].peer = m'[q].peer /\ m[q].speed = m'[q].speed
      BY <1>2
    <2>. QED  BY <2>1, SameBucket
  <1>4. Desired(m') = Desired(m)
    <2>1. {q \in Member : Collectable(m'[q])} = {q \in Member : Collectable(m[q])}
      BY <1>2 DEF Collectable
    <2>2. {q \in {r \in Member : Collectable(m'[r])} : m'[q].peer.coll} =
          {q \in {r \in Member : Collectable(m[r])} : m[q].peer.coll}
      BY <1>2, <2>1
    <2>. QED  BY <2>1, <2>2 DEF Desired
  <1>5. UNCHANGED <<active, bucket, lacpFault, known, gates, lacpHw, steady>>
    BY DEF Transmit
  <1>6. LacpTyped' /\ LinkHasSpeed(m')
    BY <1>1, <1>2, <1>5 DEF LacpInv, LacpTyped, LinkHasSpeed
  <1>7. SelectionTrue'
    <2>1. \A q \in Member :
            /\ m'[q].selected => /\ bucket' # None /\ q \in InBucket(m', bucket')
                                 /\ m'[q].link /\ m'[q].lease > 0
            /\ m'[q].sync => m'[q].selected /\ m'[q].since = 0
      BY <1>2, <1>3, <1>5 DEF LacpInv, SelectionTrue
    <2>. QED  BY <2>1 DEF SelectionTrue, InBucket, Candidates, Twins, Current, KeyOf
  <1>8. WaitAccounted'
    BY <1>2, <1>5 DEF LacpInv, WaitAccounted
  <1>9. GatesKnown'
    <2>1. /\ known' => lacpHw' = gates' /\ gates' = IF lacpFault' THEN LacpClosed ELSE Desired(m')
          /\ ~known' => lacpFault'
          /\ gates'.distribute \subseteq gates'.collect
      BY <1>4, <1>5 DEF LacpInv, GatesKnown
    <2>. QED  BY <2>1 DEF GatesKnown, Desired, Collectable
  <1>. QED
    BY <1>6, <1>7, <1>8, <1>9 DEF LacpInv, LinkHasSpeed

\* ffn_lacp_abort: every gate is withdrawn, whatever the driver answers.
LEMMA AbortStep ==
  ASSUME LacpInv, Abort
  PROVE  LacpInv'
  <1>1. \A p \in Member : LET n == [Gone(m[p]) EXCEPT !.sync = FALSE, !.selected = FALSE]
                          IN n \in LacpMember /\ ~n.sync /\ ~n.selected /\ ~n.link
    <2>1. \A s \in LacpMember : LET n == [Gone(s) EXCEPT !.sync = FALSE, !.selected = FALSE]
                                IN n \in LacpMember /\ ~n.sync /\ ~n.selected /\ ~n.link
      BY DEF Gone, LacpMember
    <2>. QED  BY <2>1 DEF LacpInv, LacpTyped
  <1>2. /\ m' \in [Member -> LacpMember]
        /\ \A p \in Member : ~m'[p].sync /\ ~m'[p].selected /\ ~m'[p].link
    BY <1>1 DEF Abort
  <1>3. steady' \in [Member -> 0..Wait] /\ bucket' = bucket /\ active' = active /\ lacpFault' = TRUE /\ LacpWithdraw
    <2>1. 0 \in 0..Wait
      BY LacpAssumption
    <2>. QED  BY <2>1 DEF Abort
  <1>4. LacpTyped'
    <2>1. LacpClosed \in [collect : SUBSET Member, distribute : SUBSET Member]
      BY DEF LacpClosed
    <2>2. LacpTyped
      BY DEF LacpInv
    <2>3. /\ known' \in BOOLEAN
          /\ gates' \in [collect : SUBSET Member, distribute : SUBSET Member]
          /\ lacpHw' \in [collect : SUBSET Member, distribute : SUBSET Member]
      BY <1>3, <2>1, <2>2 DEF LacpTyped, LacpWithdraw
    <2>. QED  BY <1>2, <1>3, <2>2, <2>3 DEF LacpTyped
  <1>5. GatesKnown'
    BY <1>3 DEF LacpInv, GatesKnown, LacpWithdraw, LacpClosed
  <1>. QED
    BY <1>2, <1>4, <1>5 DEF LacpInv, LinkHasSpeed, SelectionTrue, WaitAccounted

LEMMA LacpStep == LacpInv /\ [LacpNext]_lacpVars => LacpInv'
  <1>. SUFFICES ASSUME LacpInv, [LacpNext]_lacpVars PROVE LacpInv'
    OBVIOUS
  <1>1. CASE \E p \in Member, s \in LacpSpeed : Link(p, TRUE, s)
    BY <1>1, LinkStep
  <1>2. CASE \E p \in Member : Link(p, FALSE, 0)
    BY <1>2, LinkStep
  <1>3. CASE \E p \in Member, pdu \in Pdu : LacpReceive(p, pdu)
    BY <1>3, ReceiveStep
  <1>4. CASE \E p \in Member : Transmit(p)
    BY <1>4, TransmitStep
  <1>5. CASE UNCHANGED lacpVars
    BY <1>5 DEF LacpInv, lacpVars, LacpTyped, LinkHasSpeed, SelectionTrue, WaitAccounted, GatesKnown,
       InBucket, Candidates, Twins, Current, KeyOf, Desired, Collectable
  <1>. QED
    BY <1>1, <1>2, <1>3, <1>4, <1>5, AdvanceStep, AbortStep DEF LacpNext

\* Two members that distribute are in one bucket, and a partner port seen twice
\* makes no candidate.
LEMMA LacpOneAggregator == LacpInv => OneAggregator
  <1>. SUFFICES ASSUME LacpInv, NEW p \in lacpHw.distribute, NEW q \in lacpHw.distribute, known, p # q
                PROVE  KeyOf(m[p]) = KeyOf(m[q]) /\ m[p].peer.port # m[q].peer.port
    BY DEF OneAggregator
  <1>1. gates = Desired(m) /\ p \in Desired(m).distribute /\ q \in Desired(m).distribute
    BY DEF LacpInv, GatesKnown, LacpClosed
  <1>2. p \in Member /\ q \in Member /\ m[p].sync /\ m[q].sync
    BY <1>1 DEF Desired, Collectable
  <1>3. p \in InBucket(m, bucket) /\ q \in InBucket(m, bucket)
    BY <1>2 DEF LacpInv, SelectionTrue
  <1>4. KeyOf(m[p]) = KeyOf(m[q]) /\ p \in Candidates(m) /\ q \in Candidates(m)
    BY <1>3 DEF InBucket
  <1>5. m[p].peer.sys = m[q].peer.sys /\ Current(m[p]) /\ Current(m[q]) /\ Cardinality(Twins(m, p)) = 1
    BY <1>4 DEF KeyOf, Candidates
  <1>6. PICK x : Twins(m, p) = {x}
    <2>1. IsFiniteSet(Twins(m, p))
      BY LacpAssumption, FS_Subset DEF Twins
    <2>. QED  BY <1>5, <2>1, FS_Singleton
  <1>7. m[p].peer.port = m[q].peer.port => p \in Twins(m, p) /\ q \in Twins(m, p)
    BY <1>2, <1>5 DEF Twins
  <1>. QED  BY <1>4, <1>6, <1>7

LEMMA LacpMinLinks == LacpInv => MinLinksHeld
  <1>1. Cardinality({}) = 0
    BY FS_EmptySet
  <1>2. Desired(m).distribute = {} \/ Cardinality(Desired(m).distribute) >= MinLinks
    BY DEF Desired
  <1>3. LacpClosed.distribute = {}
    BY DEF LacpClosed
  <1>. QED
    BY <1>1, <1>2, <1>3 DEF LacpInv, GatesKnown, MinLinksHeld

LEMMA LacpSettled == LacpInv => SettledFirst
  <1>. SUFFICES ASSUME LacpInv, NEW p \in lacpHw.collect, known
                PROVE  steady[p] >= Wait /\ m[p].lease > 0
    BY DEF SettledFirst
  <1>1. p \in Member /\ m[p].sync
    BY DEF LacpInv, GatesKnown, LacpClosed, Desired, Collectable
  <1>2. m[p].selected /\ m[p].since = 0 /\ m[p].lease > 0
    BY <1>1 DEF LacpInv, SelectionTrue
  <1>3. steady[p] \in 0..Wait /\ steady[p] + 0 >= Wait
    BY <1>1, <1>2 DEF LacpInv, WaitAccounted, LacpTyped
  <1>. QED  BY <1>2, <1>3, LacpAssumption

LEMMA LacpTypes == LacpInv => LacpTypeOK
  <1>. SUFFICES ASSUME LacpInv PROVE LacpTypeOK
    OBVIOUS
  <1>1. ASSUME NEW p \in Member
        PROVE  /\ m[p].rx \in {"disabled", "expired", "current", "defaulted"}
               /\ m[p].lease \in 0..LeaseMax /\ m[p].deadline \in 0..(RxDeadline + Grace)
               /\ m[p].since \in 0..Wait /\ m[p].speed \in LacpSpeed \cup {0}
               /\ m[p].peer = None \/ m[p].peer.sys \in {d.sys : d \in Pdu}
               /\ m[p].sync => m[p].selected
               /\ m[p].due \in BOOLEAN
    <2>1. m[p] \in LacpMember
      BY DEF LacpInv, LacpTyped
    <2>2. m[p].sync => m[p].selected
      BY DEF LacpInv, SelectionTrue
    <2>. QED  BY <2>1, <2>2 DEF LacpMember, LacpPeer
  <1>. QED
    BY <1>1 DEF LacpTypeOK, LacpInv, LacpTyped, GatesKnown

LEMMA LacpInvariance == LacpSpec => []LacpInv
  BY LacpInitInv, LacpStep, PTL DEF LacpSpec

\* LacpSafe: members that distribute share one partner system and speed over
\* distinct partner ports, are enough, and have stood the aggregation wait.
THEOREM LacpEngineSafe == LacpSpec => []LacpSafe
  <1>1. LacpInv => LacpSafe
    BY LacpTypes, LacpOneAggregator, LacpMinLinks, LacpSettled DEF LacpSafe
  <1>. QED
    BY LacpInvariance, <1>1, PTL

\* FaultCloses: once a fault is latched no gate opens again.
THEOREM LacpFaultCloses == LacpSpec => FaultCloses
  <1>. DEFINE Shut == lacpFault => /\ lacpHw'.collect \subseteq lacpHw.collect
                                   /\ lacpHw'.distribute \subseteq lacpHw.distribute
                                   /\ lacpFault'
  <1>1. LacpInv /\ [LacpNext]_lacpVars => [Shut]_lacpVars
    <2>. SUFFICES ASSUME LacpInv, LacpNext, lacpFault PROVE Shut
      OBVIOUS
    <2>1. CASE UNCHANGED <<lacpFault, lacpHw>>
      BY <2>1
    <2>2. CASE Abort
      <3>1. LacpClosed.collect = {} /\ LacpClosed.distribute = {}
        BY DEF LacpClosed
      <3>. QED  BY <2>2, <3>1 DEF Abort, LacpWithdraw
    <2>3. CASE ~Abort
      <3>1. \A ms : LacpTick(ms) => UNCHANGED <<lacpFault, lacpHw>>
        BY DEF LacpTick, LacpApply
      <3>. QED  BY <2>1, <2>3, <3>1 DEF LacpNext, LacpAdvance, Link, LacpReceive, Transmit
    <2>. QED  BY <2>2, <2>3
  <1>. HIDE DEF Shut
  <1>2. LacpSpec => [][Shut]_lacpVars
    BY LacpInvariance, <1>1, PTL DEF LacpSpec
  <1>. QED  BY <1>2 DEF Shut, FaultCloses

-----------------------------------------------------------------------------
(* The switch daemon.                                                      *)

BcmOps == {"on", "off", "sync", "create", "destroy"}
BcmTrunk == {None} \cup {BcmMembers[c] : c \in Client}
BcmClient == [pc : {"idle", "check", "wait", "read", "think"}, op : BcmOps \cup {None},
              at : Nat, arg : BcmSpeed \cup {None}]
BcmPort == [on : BOOLEAN, speed : BcmSpeed]
BcmAnswer == [who : Client, rv : BOOLEAN, port : BcmPort]
BcmAsked == [who : Client, do : {"on", "off", "create", "destroy", "get", "set"},
             arg : BcmSpeed \cup {None} \cup BcmTrunk]
BcmCommand == {ask \in BcmAsked : /\ ask.do = "set" => ask.arg \in BcmSpeed
                                  /\ ask.do = "create" => ask.arg \in BcmTrunk}

BcmTyped ==
  /\ chipState \in {"init", "ready", "dead"}
  /\ chipLock \in Client \cup {"init", None}
  /\ cl \in [Client -> BcmClient]
  /\ input \in Seq(BcmCommand)
  /\ buf \in Seq(BcmAnswer)
  /\ copper \in BcmPort
  /\ trunk \in BcmTrunk
  /\ bcmHeld \in [Client -> BcmTrunk]
  /\ crossed \in [any : BOOLEAN, ready : BOOLEAN]

(* The reader of the pty holds the lock, and only it.                      *)
BcmReader == \A c \in Client : cl[c].pc = "read" <=> chipLock = c

(* A client at work has an operation, and waits for a lock only after init.*)
BcmWorking ==
  /\ chipState = "init" => chipLock = "init"
  /\ \A c \in Client : cl[c].pc # "idle" => cl[c].op \in BcmOps /\ cl[c].arg \in BcmSpeed

(* Until the session is given up the pty holds one command, or one answer, *)
(* of the client with the lock, and nothing when no client has it.         *)
BcmPending(c) ==
  \/ input = <<Command(c)>> /\ buf = <<>>
  \/ /\ input = <<>> /\ Len(buf) = 1 /\ buf[1].who = c
     /\ cl[c].op = "create" /\ buf[1].rv => trunk = BcmMembers[c]
BcmOne ==
  chipState # "dead" =>
    /\ chipLock \notin Client => input = <<>> /\ buf = <<>>
    /\ \A c \in Client : chipLock = c => BcmPending(c)

BcmHolds ==
  chipState # "dead" =>
    \A c \in Client :
      /\ bcmHeld[c] # None => bcmHeld[c] = BcmMembers[c] /\ trunk = BcmMembers[c]
      /\ cl[c].pc # "idle" /\ cl[c].op = "destroy" => bcmHeld[c] = None

BcmInv ==
  /\ BcmTyped /\ BcmReader /\ BcmWorking /\ BcmOne /\ BcmHolds
  /\ OwnAnswerWhileReady

LEMMA BcmIdleTyped == ASSUME 0 \in Nat PROVE BcmIdle \in BcmClient
  BY DEF BcmIdle, BcmClient

(* Every command a client at work may write is one bcm.user knows.         *)
LEMMA CommandTyped ==
  ASSUME NEW c \in Client, cl[c] \in BcmClient, cl[c].op \in BcmOps, cl[c].arg \in BcmSpeed
  PROVE  Command(c) \in BcmCommand
<1>1. BcmMembers[c] \in BcmTrunk
  BY DEF BcmTrunk
<1>2. Command(c) \in BcmAsked
  BY <1>1 DEF Command, BcmAsked, BcmOps
<1>3. Command(c).do = "set" => Command(c).arg \in BcmSpeed
  BY DEF Command, BcmOps
<1>4. Command(c).do = "create" => Command(c).arg \in BcmTrunk
  BY <1>1 DEF Command, BcmOps
<1> QED BY <1>2, <1>3, <1>4 DEF BcmCommand

LEMMA BcmInvInit == BcmInit => BcmInv
<1> SUFFICES ASSUME BcmInit PROVE BcmInv
  OBVIOUS
<1>1. (CHOOSE s \in BcmSpeed : TRUE) \in BcmSpeed
  BY BcmAssumption
<1>2. BcmTyped
  <2>1. cl \in [Client -> BcmClient] /\ bcmHeld \in [Client -> BcmTrunk] /\ trunk \in BcmTrunk
    BY BcmIdleTyped DEF BcmInit, BcmTrunk
  <2>2. copper \in BcmPort
    BY <1>1 DEF BcmInit, BcmPort
  <2>3. input \in Seq(BcmCommand) /\ buf \in Seq(BcmAnswer)
    BY DEF BcmInit
  <2> QED BY <2>1, <2>2, <2>3 DEF BcmInit, BcmTyped
<1>3. \A c \in Client : cl[c].pc = "idle" /\ bcmHeld[c] = None /\ c # "init"
  BY BcmAssumption DEF BcmInit, BcmIdle
<1> QED BY <1>2, <1>3, BcmAssumption DEF BcmInit, BcmInv, BcmReader, BcmWorking, BcmOne, BcmHolds, OwnAnswerWhileReady

LEMMA RequestStep == ASSUME BcmInv, NEW c \in Client, Request(c) PROVE BcmInv'
<1> USE DEF BcmInv
<1>1. PICK op \in BcmOffers[c], v \in BcmSpeed :
        /\ cl' = [cl EXCEPT ![c] = [pc |-> "check", op |-> op, at |-> 1, arg |-> v]]
        /\ bcmHeld' = IF op = "destroy" THEN [bcmHeld EXCEPT ![c] = None] ELSE bcmHeld
  BY DEF Request
<1>2. op \in BcmOps
  BY BcmAssumption DEF BcmOps
<1>3. [pc |-> "check", op |-> op, at |-> 1, arg |-> v] \in BcmClient
  BY <1>2 DEF BcmClient
<1>4. BcmTyped'
  BY <1>1, <1>3 DEF Request, BcmTyped, chip, BcmTrunk
<1>5. \A d \in Client : d # c => cl'[d] = cl[d] /\ bcmHeld'[d] = bcmHeld[d]
  BY <1>1 DEF BcmTyped
<1>6. /\ cl'[c].pc = "check" /\ cl'[c].op = op /\ cl'[c].arg = v
      /\ op = "destroy" => bcmHeld'[c] = None
      /\ op # "destroy" => bcmHeld'[c] = bcmHeld[c]
      /\ cl[c].pc = "idle"
  BY <1>1 DEF BcmTyped, Request
<1>7. chipLock # c
  BY <1>6 DEF BcmReader
<1>8. \A d \in Client : d # c => Command(d)' = Command(d)
  BY <1>5 DEF Command
<1>9. BcmReader' /\ BcmWorking'
  BY <1>2, <1>5, <1>6, <1>7 DEF BcmReader, BcmWorking, Request
<1>10. BcmOne'
  BY <1>5, <1>7, <1>8 DEF BcmOne, BcmPending, Request, chip
<1>11. BcmHolds'
  BY <1>5, <1>6 DEF BcmHolds, Request, chip
<1> QED BY <1>4, <1>9, <1>10, <1>11 DEF OwnAnswerWhileReady, Request

(* Steps that move one client and leave the pty alone.                     *)
LEMMA BcmClientMoves ==
  ASSUME BcmInv, NEW c \in Client, NEW r \in BcmClient,
         cl' = [cl EXCEPT ![c] = r], cl[c].pc \in {"check", "wait"},
         r = BcmIdle \/ (r.pc \in {"check", "wait"} /\ r.op = cl[c].op /\ r.arg = cl[c].arg),
         UNCHANGED <<chipState, chipLock, input, buf, chip, admin, bcmHeld, crossed>>
  PROVE  BcmInv'
<1> USE DEF BcmInv
<1>1. BcmTyped'
  BY DEF BcmTyped, chip
<1>2. \A d \in Client : d # c => cl'[d] = cl[d]
  BY DEF BcmTyped
<1>3. cl'[c] = r /\ r.pc # "read" /\ chipLock # c
  BY DEF BcmTyped, BcmReader, BcmIdle
<1>4. \A d \in Client : d # c => Command(d)' = Command(d)
  BY <1>2 DEF Command
<1>5. BcmReader' /\ BcmWorking'
  BY <1>2, <1>3 DEF BcmReader, BcmWorking, BcmIdle
<1>6. BcmOne'
  BY <1>2, <1>3, <1>4 DEF BcmOne, BcmPending, chip
<1>7. BcmHolds'
  BY <1>2, <1>3 DEF BcmHolds, chip, BcmIdle
<1> QED BY <1>1, <1>5, <1>6, <1>7 DEF OwnAnswerWhileReady

LEMMA BcmCheckStep == ASSUME BcmInv, NEW c \in Client, BcmCheck(c) PROVE BcmInv'
<1>1. cl[c] \in BcmClient
  BY DEF BcmInv, BcmTyped
<1>2. CASE chipState = "ready"
  <2> DEFINE r == [cl[c] EXCEPT !.pc = "wait"]
  <2>1. r \in BcmClient /\ r.pc = "wait" /\ r.op = cl[c].op /\ r.arg = cl[c].arg
    BY <1>1 DEF BcmClient
  <2>2. cl' = [cl EXCEPT ![c] = r]
    BY <1>2 DEF BcmCheck
  <2> HIDE DEF r
  <2> QED BY <2>1, <2>2, BcmClientMoves DEF BcmCheck
<1>3. CASE chipState # "ready"
  BY <1>3, BcmIdleTyped, BcmClientMoves DEF BcmCheck, Reply
<1> QED BY <1>2, <1>3

LEMMA BcmBusyStep == ASSUME BcmInv, NEW c \in Client, BcmBusy(c) PROVE BcmInv'
  BY BcmIdleTyped, BcmClientMoves DEF BcmBusy, Reply

LEMMA BcmWriteStep == ASSUME BcmInv, NEW c \in Client, BcmWrite(c) PROVE BcmInv'
<1> USE DEF BcmInv
<1> DEFINE r == [cl[c] EXCEPT !.pc = "read"]
<1>1. cl[c] \in BcmClient /\ cl[c].op \in BcmOps /\ cl[c].arg \in BcmSpeed
  BY DEF BcmTyped, BcmWorking, BcmWrite
<1>2. r \in BcmClient /\ r.pc = "read" /\ r.op = cl[c].op /\ r.arg = cl[c].arg /\ r.at = cl[c].at
  BY <1>1 DEF BcmClient
<1>3. cl' = [cl EXCEPT ![c] = r] /\ cl[c].pc = "wait" /\ chipLock = None /\ chipLock' = c
  BY DEF BcmWrite
<1> HIDE DEF r
<1>4. Command(c) \in BcmCommand
  BY <1>1, CommandTyped
<1>5. BcmTyped'
  <2>1. input' \in Seq(BcmCommand)
    BY <1>4 DEF BcmTyped, BcmWrite
  <2>2. cl' \in [Client -> BcmClient]
    BY <1>2, <1>3 DEF BcmTyped
  <2> QED BY <2>1, <2>2 DEF BcmTyped, BcmWrite, chip
<1>6. \A d \in Client : d # c => cl'[d] = cl[d]
  BY <1>3 DEF BcmTyped
<1>7. cl'[c] = r
  BY <1>3 DEF BcmTyped
<1>8. Command(c)' = Command(c)
  BY <1>2, <1>7 DEF Command
<1>9. BcmReader'
  BY <1>2, <1>3, <1>6, <1>7, BcmAssumption DEF BcmReader
<1>10. BcmWorking'
  BY <1>1, <1>2, <1>3, <1>6, <1>7, BcmAssumption DEF BcmWorking, BcmWrite
<1>11. BcmOne'
  <2> SUFFICES ASSUME chipState # "dead" PROVE BcmPending(c)'
    BY <1>3 DEF BcmOne, BcmWrite
  <2>1. input = <<>> /\ buf = <<>>
    BY <1>3, BcmAssumption DEF BcmOne
  <2>2. input' = <<Command(c)>> /\ buf' = <<>>
    BY <2>1 DEF BcmWrite
  <2> QED BY <2>2, <1>8 DEF BcmPending
<1>12. BcmHolds'
  BY <1>2, <1>3, <1>6, <1>7 DEF BcmHolds, BcmWrite, chip
<1> QED BY <1>5, <1>9, <1>10, <1>11, <1>12 DEF OwnAnswerWhileReady, BcmWrite

LEMMA BcmTimeoutStep == ASSUME BcmInv, NEW c \in Client, Timeout(c) PROVE BcmInv'
<1> USE DEF BcmInv
<1>1. cl' = [cl EXCEPT ![c] = BcmIdle] /\ chipState' = "dead" /\ chipLock' = None /\ chipLock = c
  BY DEF Timeout, GiveUp, Reply, BcmReader
<1>2. BcmTyped'
  BY <1>1, BcmIdleTyped DEF BcmTyped, Timeout, chip
<1>3. \A d \in Client : cl'[d] = IF d = c THEN BcmIdle ELSE cl[d]
  BY <1>1 DEF BcmTyped
<1>4. BcmReader' /\ BcmWorking' /\ BcmOne' /\ BcmHolds'
  BY <1>1, <1>3, BcmAssumption DEF BcmReader, BcmWorking, BcmOne, BcmHolds, BcmIdle
<1> QED BY <1>2, <1>4 DEF OwnAnswerWhileReady, Timeout

LEMMA InitEndsStep == ASSUME BcmInv, InitEnds PROVE BcmInv'
<1> USE DEF BcmInv
<1>1. BcmTyped'
  BY DEF BcmTyped, InitEnds, chip
<1>2. input = <<>> /\ buf = <<>> /\ chipLock = "init"
  BY BcmAssumption DEF InitEnds, BcmWorking, BcmOne
<1>3. BcmReader' /\ BcmWorking' /\ BcmOne'
  BY <1>2, BcmAssumption DEF BcmReader, BcmWorking, BcmOne, InitEnds
<1>4. BcmHolds'
  BY DEF BcmHolds, InitEnds, chip
<1> QED BY <1>1, <1>3, <1>4 DEF OwnAnswerWhileReady, InitEnds

(* Read takes the one answer there is.                                     *)
LEMMA BcmReadStep == ASSUME BcmInv, NEW c \in Client, Read(c) PROVE BcmInv'
<1> USE DEF BcmInv
<1> DEFINE own == Len(buf) = 1 /\ buf[1].who = c
           ans == buf[Len(buf)]
           r == cl[c]
           more == [cl EXCEPT ![c].pc = "check", ![c].at = @ + 1]
           sought == [on |-> TRUE, speed |-> r.arg]
           again == r.op = "sync" /\ ans.rv /\ ((r.at = 1 /\ ans.port.on /\ ans.port # sought) \/ r.at = 2)
           next == [r EXCEPT !.pc = "check", !.at = @ + 1]
<1>1. /\ crossed' = [any |-> crossed.any \/ ~own, ready |-> crossed.ready \/ (~own /\ chipState = "ready")]
      /\ cl' = IF again THEN more ELSE [cl EXCEPT ![c] = BcmIdle]
      /\ bcmHeld' = IF r.op = "create" /\ ans.rv THEN [bcmHeld EXCEPT ![c] = BcmMembers[c]] ELSE bcmHeld
  BY DEF Read
<1>2. r \in BcmClient /\ r.op \in BcmOps /\ r.arg \in BcmSpeed /\ chipLock = c
  BY DEF BcmTyped, BcmWorking, BcmReader, Read
<1> HIDE DEF again
<1>3. next \in BcmClient /\ next.pc = "check" /\ next.op = r.op /\ next.arg = r.arg
  <2>1. r.at + 1 \in Nat
    BY <1>2 DEF BcmClient
  <2> QED BY <1>2, <2>1 DEF BcmClient
<1>4. more = [cl EXCEPT ![c] = next]
  BY <1>2 DEF BcmTyped, BcmClient
<1> DEFINE to == IF again THEN next ELSE BcmIdle
<1>5. cl' = [cl EXCEPT ![c] = to]
  BY <1>1, <1>4
<1>6. to \in BcmClient
  BY <1>3, BcmIdleTyped
<1>7. to.pc \in {"check", "idle"} /\ (to.pc # "idle" => to.op = r.op /\ to.arg = r.arg)
  BY <1>3 DEF BcmIdle
<1> HIDE DEF to
<1>8. BcmMembers[c] \in BcmTrunk
  BY DEF BcmTrunk
<1>9. crossed' \in [any : BOOLEAN, ready : BOOLEAN]
  BY <1>1 DEF BcmTyped
<1>10. bcmHeld' \in [Client -> BcmTrunk]
  BY <1>1, <1>8 DEF BcmTyped
<1>11. BcmTyped'
  <2>1. cl' \in [Client -> BcmClient]
    BY <1>5, <1>6 DEF BcmTyped
  <2>2. chipLock' = None /\ buf' = <<>> /\ UNCHANGED <<chipState, input, copper, trunk>>
    BY DEF Read, chip
  <2> QED BY <1>9, <1>10, <2>1, <2>2 DEF BcmTyped
<1>12. \A d \in Client : cl'[d] = IF d = c THEN to ELSE cl[d]
  BY <1>5 DEF BcmTyped
<1>13. BcmReader' /\ BcmWorking'
  <2>1. chipLock' = None /\ chipState' = chipState
    BY DEF Read
  <2>2. chipState # "init"
    BY <1>2, BcmAssumption DEF BcmWorking
  <2> QED BY <1>2, <1>7, <1>12, <2>1, <2>2, BcmAssumption DEF BcmReader, BcmWorking
<1>14. chipState # "dead" => input = <<>> /\ own /\ (r.op = "create" /\ ans.rv => trunk = BcmMembers[c])
  BY <1>2 DEF BcmOne, BcmPending, Read
<1>15. BcmOne'
  BY <1>14, BcmAssumption DEF BcmOne, Read
<1>16. BcmHolds'
  <2> SUFFICES ASSUME chipState # "dead", NEW d \in Client
               PROVE  /\ bcmHeld'[d] # None => bcmHeld'[d] = BcmMembers[d] /\ trunk = BcmMembers[d]
                      /\ cl'[d].pc # "idle" /\ cl'[d].op = "destroy" => bcmHeld'[d] = None
    BY DEF BcmHolds, Read, chip
  <2>1. /\ bcmHeld[d] # None => bcmHeld[d] = BcmMembers[d] /\ trunk = BcmMembers[d]
        /\ cl[d].pc # "idle" /\ cl[d].op = "destroy" => bcmHeld[d] = None
    BY DEF BcmHolds
  <2>2. CASE d # c
    BY <2>1, <2>2, <1>1, <1>12 DEF BcmTyped
  <2>3. CASE d = c /\ r.op = "create" /\ ans.rv
    <3>1. bcmHeld'[c] = BcmMembers[c] /\ trunk = BcmMembers[c]
      BY <2>3, <1>1, <1>14 DEF BcmTyped
    <3>2. cl'[c].pc # "idle" => cl'[c].op = "create"
      BY <1>7, <1>12, <2>3
    <3> QED BY <3>1, <3>2, <2>3
  <2>4. CASE d = c /\ ~(r.op = "create" /\ ans.rv)
    <3>1. bcmHeld' = bcmHeld
      BY <2>4, <1>1
    <3>2. cl'[c].pc # "idle" => cl'[c].op = r.op /\ r.pc # "idle"
      BY <1>7, <1>12 DEF Read
    <3> QED BY <3>1, <3>2, <2>1, <2>4
  <2> QED BY <2>2, <2>3, <2>4
<1>17. OwnAnswerWhileReady'
  BY <1>1, <1>14 DEF OwnAnswerWhileReady
<1> QED BY <1>11, <1>13, <1>15, <1>16, <1>17

LEMMA ExecuteStep == ASSUME BcmInv, Execute PROVE BcmInv'
<1> USE DEF BcmInv
<1> DEFINE cmd == Head(input)
<1>1. cmd \in BcmCommand /\ Tail(input) \in Seq(BcmCommand)
  BY DEF BcmTyped, Execute
<1>2. /\ cmd \in BcmAsked
      /\ cmd.do = "set" => cmd.arg \in BcmSpeed
      /\ cmd.do = "create" => cmd.arg \in BcmTrunk
  BY <1>1 DEF BcmCommand
<1>3. \E rv \in BOOLEAN :
        /\ buf' = Append(buf, [who |-> cmd.who, rv |-> rv, port |-> copper'])
        /\ copper' \in BcmPort
        /\ \/ UNCHANGED trunk
           \/ cmd.do = "create" /\ trunk = None /\ trunk' = cmd.arg
           \/ cmd.do = "destroy" /\ trunk = cmd.arg /\ trunk' = None
        /\ cmd.do = "create" => (rv <=> trunk' = cmd.arg)
  <2>0. copper \in BcmPort
    BY DEF BcmTyped
  <2>1. CASE cmd.do \in {"on", "off"}
    <3>1. copper' = [copper EXCEPT !.on = (cmd.do = "on")]
          /\ UNCHANGED trunk /\ Answer(cmd, TRUE)
      BY <2>1 DEF Execute
    <3>2. copper' \in BcmPort
      BY <2>0, <3>1 DEF BcmPort
    <3> QED BY <2>1, <3>1, <3>2 DEF Answer
  <2>2. CASE cmd.do = "get"
    BY <2>0, <2>2 DEF Execute, Answer, chip
  <2>3. CASE cmd.do = "set"
    <3>1. PICK s \in {copper.speed, cmd.arg} :
             copper' = [on |-> TRUE, speed |-> s] /\ Answer(cmd, s = cmd.arg)
      BY <2>3 DEF Execute
    <3>2. copper' \in BcmPort
      BY <1>2, <2>0, <2>3, <3>1 DEF BcmPort
    <3>3. UNCHANGED trunk
      BY <2>3 DEF Execute
    <3>4. (s = cmd.arg) \in BOOLEAN
      OBVIOUS
    <3> QED BY <2>3, <3>1, <3>2, <3>3, <3>4 DEF Answer
  <2>4. CASE cmd.do = "create"
    <3>1. PICK ok \in BOOLEAN :
             /\ trunk' = IF MayCreate(cmd.arg) /\ ok THEN cmd.arg ELSE trunk
             /\ UNCHANGED copper
             /\ Answer(cmd, trunk' = cmd.arg)
      BY <2>4 DEF Execute
    <3>2. (trunk' = cmd.arg) \in BOOLEAN
      OBVIOUS
    <3> QED BY <2>0, <2>4, <3>1, <3>2 DEF Answer, MayCreate
  <2>5. CASE cmd.do = "destroy"
    <3>1. /\ trunk' = IF MayDestroy(cmd.arg) THEN None ELSE trunk
          /\ UNCHANGED copper /\ Answer(cmd, trunk' = None)
      BY <2>5 DEF Execute
    <3>2. (trunk' = None) \in BOOLEAN
      OBVIOUS
    <3> QED BY <2>0, <2>5, <3>1, <3>2 DEF Answer, MayDestroy
  <2> QED BY <1>2, <2>1, <2>2, <2>3, <2>4, <2>5 DEF BcmAsked
<1>4. PICK rv \in BOOLEAN :
        /\ buf' = Append(buf, [who |-> cmd.who, rv |-> rv, port |-> copper'])
        /\ copper' \in BcmPort
        /\ \/ UNCHANGED trunk
           \/ cmd.do = "create" /\ trunk = None /\ trunk' = cmd.arg
           \/ cmd.do = "destroy" /\ trunk = cmd.arg /\ trunk' = None
        /\ cmd.do = "create" => (rv <=> trunk' = cmd.arg)
  BY <1>3
<1> DEFINE says == [who |-> cmd.who, rv |-> rv, port |-> copper']
<1>5. says \in BcmAnswer
  BY <1>2, <1>4 DEF BcmAnswer, BcmAsked
<1>6. input # <<>> /\ chipState # "init" /\ input' = Tail(input)
      /\ UNCHANGED <<chipState, chipLock, cl, admin, bcmHeld, crossed>>
  BY DEF Execute
<1>7. chipState # "dead" =>
        \E c \in Client : chipLock = c /\ cmd = Command(c) /\ input' = <<>> /\ buf = <<>>
  <2> SUFFICES ASSUME chipState # "dead"
               PROVE  \E c \in Client : chipLock = c /\ cmd = Command(c) /\ input' = <<>> /\ buf = <<>>
    OBVIOUS
  <2>1. chipLock \in Client
    BY <1>6 DEF BcmOne
  <2>2. input = <<Command(chipLock)>> /\ buf = <<>>
    BY <1>6, <2>1 DEF BcmOne, BcmPending
  <2> QED BY <1>6, <2>1, <2>2
<1>8. trunk' \in BcmTrunk
  BY <1>2, <1>4 DEF BcmTyped, BcmTrunk
<1>9. BcmTyped'
  <2>1. buf' \in Seq(BcmAnswer)
    BY <1>4, <1>5 DEF BcmTyped
  <2> QED BY <1>1, <1>4, <1>6, <1>8, <2>1 DEF BcmTyped
<1>10. BcmReader' /\ BcmWorking'
  BY <1>6 DEF BcmReader, BcmWorking
<1>11. BcmOne'
  <2> SUFFICES ASSUME chipState # "dead" PROVE BcmOne'
    BY <1>6 DEF BcmOne
  <2>1. PICK c \in Client : chipLock = c /\ cmd = Command(c) /\ input' = <<>> /\ buf = <<>>
    BY <1>7
  <2>2. buf' = <<says>>
    BY <1>4, <2>1
  <2>3. says.who = c /\ says.rv = rv
    BY <2>1 DEF Command
  <2>4. cl[c].op = "create" => cmd.do = "create" /\ cmd.arg = BcmMembers[c]
    BY <2>1 DEF Command
  <2>5. BcmPending(c)'
    BY <1>4, <1>6, <2>1, <2>2, <2>3, <2>4 DEF BcmPending
  <2> QED BY <1>6, <2>1, <2>5 DEF BcmOne
<1>12. BcmHolds'
  <2> SUFFICES ASSUME chipState # "dead", NEW d \in Client, bcmHeld[d] # None
               PROVE  trunk' = trunk
    BY <1>6 DEF BcmHolds
  <2>1. PICK c \in Client : chipLock = c /\ cmd = Command(c)
    BY <1>7
  <2>2. bcmHeld[d] = BcmMembers[d] /\ trunk = BcmMembers[d] /\ trunk # None
    BY DEF BcmHolds
  <2>3. CASE cmd.do = "destroy" /\ trunk = cmd.arg
    <3>1. cl[c].op = "destroy" /\ cl[c].pc # "idle" /\ cmd.arg = BcmMembers[c]
      BY <2>1, <2>3 DEF Command, BcmReader, BcmWorking, BcmOps
    <3>2. c = d
      BY <2>2, <2>3, <3>1, BcmAssumption
    <3> QED BY <3>1, <3>2 DEF BcmHolds
  <2> QED BY <1>4, <2>2, <2>3
<1> QED BY <1>6, <1>9, <1>10, <1>11, <1>12 DEF OwnAnswerWhileReady

(***************************************************************************)
(* The pty carries one conversation at a time, so an answer is the answer  *)
(* to the command last written and a trunk is held until it is destroyed.  *)
(***************************************************************************)
THEOREM BcmInvariance == BcmSpec => []BcmInv
<1>1. ASSUME BcmInv, [BcmNext]_bcmVars PROVE BcmInv'
  <2> USE <1>1
  <2>1. CASE UNCHANGED bcmVars
    BY <2>1 DEF bcmVars, BcmInv, BcmTyped, BcmReader, BcmWorking, BcmOne, BcmPending, BcmHolds,
                OwnAnswerWhileReady, Command
  <2>2. CASE InitEnds
    BY <2>2, InitEndsStep
  <2>3. CASE Execute
    BY <2>3, ExecuteStep
  <2>4. ASSUME NEW c \in Client, Request(c) \/ ClientStep(c) PROVE BcmInv'
    BY <2>4, RequestStep, BcmCheckStep, BcmBusyStep, BcmWriteStep, BcmReadStep, BcmTimeoutStep DEF ClientStep
  <2> QED BY <2>1, <2>2, <2>3, <2>4 DEF BcmNext
<1> QED BY <1>1, BcmInvInit, PTL DEF BcmSpec

(* A client of the switch daemon gets the answer to its own command while  *)
(* the session is in use, and a trunk acknowledged to it stays as it asked *)
(* whatever the other clients create, destroy, retry or abandon.           *)
THEOREM SwitchDaemonSafe == BcmSpec => []BcmSafe
<1>1. BcmInv => BcmSafe
  <2> SUFFICES ASSUME BcmInv PROVE BcmSafe
    OBVIOUS
  <2>1. \A c \in Client : cl[c] \in BcmClient
    BY DEF BcmInv, BcmTyped
  <2>2. BcmTypeOK
    BY <2>1 DEF BcmInv, BcmTyped, BcmReader, BcmTypeOK, BcmClient, BcmPort
  <2>3. TrunkHeld
    BY DEF BcmInv, BcmHolds, TrunkHeld
  <2> QED BY <2>2, <2>3 DEF BcmSafe, BcmInv
<1> QED BY <1>1, BcmInvariance, PTL

-----------------------------------------------------------------------------
(* The packet owner.                                                       *)

(* No thread is inside a burst and none can get there: each is parked at   *)
(* the barrier, or is ending, and the barrier lets nobody through but to   *)
(* end.                                                                    *)
PktStill ==
  /\ request \/ stopped
  /\ \A w \in Worker : pktPc[w] \in {"none", "parked", "ending", "gone"}

(* What a thread says of itself is true, and an ending one was told to.    *)
PktHonest ==
  \A w \in Worker : /\ paused[w] <=> pktPc[w] \in {"parked", "gone"}
                    /\ pktPc[w] \in {"ending", "gone"} => stopped
                    /\ loop = "start" => pktPc[w] = "none"

(* Before its close an owner stops only by a fault, which the loop sees.   *)
PktStops ==
  /\ stopped => pktFault \/ loop \in {"closing", "closed"}
  /\ loop \in {"closing", "closed"} => stopped
  /\ loop \in {"starting", "pausing"} => request

PktBarrier == loop \in {"tick", "paused", "resume"} => PktStill

(* The engine in use is the policy's own; a single port's scan is another  *)
(* one only behind the barrier, until it is reconfigured or for good.      *)
PktScan ==
  /\ alive = {handle} \ {None}
  /\ loop = "start" => scan = None
  /\ ~aggregate /\ scan \notin {handle, None} => PktStill /\ (loop = "paused" \/ stopped)

PktInv ==
  /\ PktTypeOK /\ aggregate \in BOOLEAN
  /\ PktHonest /\ PktStops /\ PktBarrier /\ PktScan

LEMMA PktInvInit == PktInit => PktInv
<1> SUFFICES ASSUME PktInit PROVE PktInv
  OBVIOUS
<1>1. PktTypeOK
  <2>1. PktLease \in 0..PktLease
    BY PktAssumption
  <2> QED BY <2>1 DEF PktInit, PktTypeOK
<1>2. PktHonest /\ PktStops /\ PktBarrier
  BY DEF PktInit, PktHonest, PktStops, PktBarrier
<1>3. PktScan
  BY DEF PktInit, PktScan
<1> QED BY <1>1, <1>2, <1>3 DEF PktInv, PktInit

(* A thread's step keeps what the loop relies on, and a still owner still. *)
LEMMA WorkerKeepsStill ==
  ASSUME PktInv, NEW w \in Worker, WorkerStep(w)
  PROVE  /\ PktStill => PktStill'
         /\ UNCHANGED <<request, scan, handle, listed, alive, loop, aggregate>>
         /\ stopped => stopped'
         /\ stopped' => stopped \/ pktFault'
         /\ pktFault => pktFault'
<1> USE DEF PktInv
<1>1. CASE Top(w)
  <2>1. CASE Park(w)
    BY <1>1, <2>1 DEF Top, Park, PktTypeOK, PktStill, WorkerStep, barrier, engines
  <2>2. CASE PktPass(w)
    BY <1>1, <2>2 DEF Top, PktPass, Expired, PktTypeOK, PktStill, WorkerStep, barrier, engines
  <2> QED BY <1>1, <2>1, <2>2 DEF Top
<1>2. CASE PktPoll(w)
  BY <1>2 DEF PktPoll, PktStill, WorkerStep, barrier, engines
<1>3. CASE PktBurst(w)
  BY <1>3 DEF PktBurst, PktStill, WorkerStep, barrier, engines
<1>4. CASE PktFail(w)
  BY <1>4 DEF PktFail, PktStill, WorkerStep, barrier, engines
<1>5. CASE PktEnd(w)
  BY <1>5 DEF PktEnd, PktTypeOK, PktStill, WorkerStep, barrier, engines
<1> QED BY <1>1, <1>2, <1>3, <1>4, <1>5 DEF WorkerStep

(* The type and the honesty of the threads.                                *)
LEMMA WorkerTyped ==
  ASSUME PktInv, NEW w \in Worker, WorkerStep(w)
  PROVE  PktTypeOK' /\ PktHonest'
<1> USE DEF PktInv
<1>1. CASE Top(w)
  <2>1. CASE Park(w)
    BY <1>1, <2>1 DEF Top, Park, PktTypeOK, PktHonest, WorkerStep, barrier, engines
  <2>2. CASE PktPass(w)
    <3>1. PktTypeOK'
      BY <1>1, <2>2 DEF Top, PktPass, Expired, PktTypeOK, WorkerStep, engines
    <3>2. PktHonest'
      BY <1>1, <2>2 DEF Top, PktPass, PktTypeOK, PktHonest
    <3> QED BY <3>1, <3>2
  <2> QED BY <1>1, <2>1, <2>2 DEF Top
<1>2. CASE PktPoll(w)
  BY <1>2 DEF PktPoll, PktTypeOK, PktHonest, WorkerStep, barrier, engines
<1>3. CASE PktBurst(w)
  BY <1>3 DEF PktBurst, PktTypeOK, PktHonest, WorkerStep, barrier, engines
<1>4. CASE PktFail(w)
  BY <1>4 DEF PktFail, PktTypeOK, PktHonest, WorkerStep, barrier, engines
<1>5. CASE PktEnd(w)
  BY <1>5 DEF PktEnd, PktTypeOK, PktHonest, WorkerStep, barrier, engines
<1> QED BY <1>1, <1>2, <1>3, <1>4, <1>5 DEF WorkerStep

LEMMA WorkerStepKeeps == ASSUME PktInv, NEW w \in Worker, WorkerStep(w) PROVE PktInv'
<1>1. PktStops' /\ PktBarrier' /\ PktScan'
  BY WorkerKeepsStill DEF PktInv, PktStops, PktBarrier, PktScan
<1> QED BY <1>1, WorkerTyped, WorkerKeepsStill DEF PktInv

(* Steps of the loop that leave the threads and what they read alone.      *)
LEMMA LoopMoves ==
  ASSUME PktInv, aggregate' = aggregate, UNCHANGED <<pktPc, paused, pktFault, pktAge, scan, handle, listed, alive>>,
         wake' \in [Worker -> BOOLEAN], request' \in BOOLEAN, stopped' \in BOOLEAN,
         request => request', stopped => stopped',
         loop' \in {"idle", "tick", "pausing", "paused", "resume", "failed", "closing", "hung"},
         stopped' => pktFault \/ loop' = "closing",
         loop' = "closing" => stopped',
         loop' = "pausing" => request',
         loop' \in {"tick", "paused", "resume"} => PktStill',
         loop = "paused" => stopped'
  PROVE  PktInv'
<1> USE DEF PktInv
<1>1. PktTypeOK'
  BY DEF PktTypeOK
<1>2. PktHonest' /\ PktStops' /\ PktBarrier'
  BY DEF PktHonest, PktStops, PktBarrier
<1>3. PktStill => PktStill'
  BY DEF PktStill
<1>4. PktScan'
  BY <1>3 DEF PktScan
<1> QED BY <1>1, <1>2, <1>4

LEMMA PktStartStep == ASSUME PktInv, PktStart, aggregate' = aggregate PROVE PktInv'
<1> USE DEF PktInv
<1>1. PICK made \in SUBSET Worker :
        /\ pktPc' = [w \in Worker |-> IF w \in made THEN "top" ELSE "none"]
        /\ pktFault' = (made # Worker) /\ stopped' = (made # Worker)
        /\ loop' = IF made = Worker THEN "starting" ELSE "failed"
  BY DEF PktStart
<1>2. PktTypeOK'
  BY <1>1 DEF PktStart, PktTypeOK, engines
<1>3. PktHonest'
  <2>1. \A w \in Worker : ~paused[w]
    BY DEF PktHonest, PktStart
  <2> QED BY <1>1, <2>1 DEF PktStart, PktHonest
<1>4. PktStops' /\ PktBarrier' /\ PktScan'
  BY <1>1 DEF PktStart, PktStops, PktBarrier, PktScan, engines
<1> QED BY <1>2, <1>3, <1>4

(* inspection_tick: the engine changes, for a single port behind the       *)
(* barrier.                                                                *)
LEMMA InspectionStep == ASSUME PktInv, InspectionTick, aggregate' = aggregate PROVE PktInv'
<1> USE DEF PktInv
<1>1. /\ loop' = IF aggregate THEN "sync" ELSE "paused"
      /\ loop = IF aggregate THEN "idle" ELSE "tick"
      /\ UNCHANGED <<pktPc, paused, wake, request, stopped, pktFault, pktAge, scan>>
  BY DEF InspectionTick, barrier
<1>2. /\ handle' \in Engine \cup {None} /\ listed' \in BOOLEAN /\ alive' \subseteq Engine
      /\ alive' = {handle'} \ {None}
  <2>1. CASE UNCHANGED <<handle, listed, alive>>
    BY <2>1 DEF PktTypeOK, PktScan
  <2>2. CASE \E new \in (Engine \ alive) \cup {None}, ports \in BOOLEAN :
               /\ handle' = new /\ listed' = ports
               /\ alive' = (alive \ {handle}) \cup ({new} \ {None})
    BY <2>2 DEF PktTypeOK, PktScan
  <2> QED BY <2>1, <2>2 DEF InspectionTick
<1>3. PktTypeOK'
  BY <1>1, <1>2 DEF PktTypeOK
<1>4. PktStill' <=> PktStill
  BY <1>1 DEF PktStill
<1>5. PktHonest' /\ PktStops' /\ PktBarrier'
  BY <1>1, <1>4 DEF PktHonest, PktStops, PktBarrier
<1>6. PktScan'
  BY <1>1, <1>2, <1>4 DEF PktScan, PktBarrier
<1> QED BY <1>3, <1>5, <1>6

LEMMA PauseStep == ASSUME PktInv, PktPause, aggregate' = aggregate PROVE PktInv'
<1>1. loop = IF aggregate THEN "sync" ELSE "idle"
  BY DEF PktPause, PauseFrom
<1>2. /\ request' = TRUE /\ wake' \in [Worker -> BOOLEAN]
      /\ loop' = IF pktFault THEN "failed" ELSE "pausing"
      /\ UNCHANGED <<pktPc, paused, stopped, pktFault, pktAge, scan, handle, listed, alive>>
  BY DEF PktPause, engines
<1>3. stopped => pktFault
  BY <1>1 DEF PktInv, PktStops
<1>4. stopped' \in BOOLEAN
  BY <1>2 DEF PktInv, PktTypeOK
<1> QED BY <1>1, <1>2, <1>3, <1>4, LoopMoves

(* The barrier has closed: what every thread said was true.                *)
LEMMA PausedStep == ASSUME PktInv, Paused, aggregate' = aggregate PROVE PktInv'
<1> USE DEF PktInv
<1>1. /\ loop \in {"starting", "pausing"} /\ (AllPaused \/ stopped)
      /\ UNCHANGED <<pktPc, paused, wake, request, stopped, pktFault, pktAge, scan, handle, listed, alive>>
  BY DEF Paused, barrier, engines
<1>2. /\ pktFault => loop' = "failed"
      /\ ~pktFault /\ loop = "starting" => loop' = "idle"
      /\ ~pktFault /\ loop = "pausing" => loop' = IF aggregate THEN "paused" ELSE "tick"
  BY DEF Paused, PktTypeOK
<1>3. stopped => pktFault
  BY <1>1 DEF PktStops
<1>4. ~pktFault => PktStill'
  BY <1>1, <1>3 DEF AllPaused, Started, PktHonest, PktStill, PktStops
<1>5. wake' \in [Worker -> BOOLEAN] /\ request' \in BOOLEAN /\ stopped' \in BOOLEAN /\ pktFault \in BOOLEAN
  BY <1>1 DEF PktTypeOK
<1> QED BY <1>1, <1>2, <1>3, <1>4, <1>5, LoopMoves

LEMMA NothingStep == ASSUME PktInv, NothingToPush, aggregate' = aggregate PROVE PktInv'
<1>1. /\ loop = "sync" /\ loop' = IF pktFault THEN "failed" ELSE "idle"
      /\ UNCHANGED <<pktPc, paused, wake, request, stopped, pktFault, pktAge, scan, handle, listed, alive>>
  BY DEF NothingToPush, barrier, engines
<1>2. wake' \in [Worker -> BOOLEAN] /\ request' \in BOOLEAN /\ stopped' \in BOOLEAN /\ (stopped => pktFault)
  BY <1>1 DEF PktInv, PktTypeOK, PktStops
<1> QED BY <1>1, <1>2, LoopMoves

LEMMA ConfigureStep == ASSUME PktInv, Configure, aggregate' = aggregate PROVE PktInv'
<1> USE DEF PktInv
<1> DEFINE free == request /\ AllPaused /\ (aggregate => ~stopped)
<1>1. /\ loop = "paused"
      /\ scan' = IF free THEN Wanted ELSE scan
      /\ loop' = IF free THEN "resume" ELSE "failed"
      /\ UNCHANGED <<pktPc, paused, wake, request, stopped, pktFault, pktAge, handle, listed, alive>>
  BY DEF Configure, barrier
<1>2. Wanted \in {handle, None}
  BY DEF Wanted
<1>3. PktTypeOK'
  BY <1>1, <1>2 DEF PktTypeOK
<1>4. PktStill /\ PktStill'
  BY <1>1 DEF PktBarrier, PktStill
<1>5. ~free /\ ~aggregate => stopped
  BY <1>4 DEF PktStill, PktHonest, AllPaused, Started, PktTypeOK
<1>6. PktHonest' /\ PktStops' /\ PktBarrier'
  BY <1>1, <1>4 DEF PktHonest, PktStops, PktBarrier
<1>7. PktScan'
  BY <1>1, <1>2, <1>4, <1>5 DEF PktScan
<1> QED BY <1>3, <1>6, <1>7

LEMMA ResumeStep == ASSUME PktInv, PktResume, aggregate' = aggregate PROVE PktInv'
<1> USE DEF PktInv
<1>1. /\ loop = "resume"
      /\ UNCHANGED <<pktPc, paused, wake, stopped, pktFault, scan, handle, listed, alive>>
  BY DEF PktResume, engines
<1>2. CASE stopped
  <2>1. loop' = "failed" /\ UNCHANGED <<request, pktAge>>
    BY <1>2 DEF PktResume
  <2>2. stopped => pktFault
    BY <1>1 DEF PktStops
  <2>3. wake' \in [Worker -> BOOLEAN] /\ request' \in BOOLEAN /\ stopped' \in BOOLEAN
    BY <1>1, <2>1 DEF PktTypeOK
  <2> QED BY <1>1, <1>2, <2>1, <2>2, <2>3, LoopMoves
<1>3. CASE ~stopped
  <2>1. loop' = "idle" /\ request' = FALSE /\ pktAge' = 0
    BY <1>3 DEF PktResume
  <2>2. 0 \in 0..PktLease
    BY PktAssumption
  <2>3. PktTypeOK'
    BY <1>1, <2>1, <2>2 DEF PktTypeOK
  <2>4. ~aggregate => scan \in {handle, None}
    BY <1>1, <1>3 DEF PktScan
  <2>5. PktHonest' /\ PktStops' /\ PktBarrier' /\ PktScan'
    BY <1>1, <1>3, <2>1, <2>4 DEF PktHonest, PktStops, PktBarrier, PktScan
  <2> QED BY <2>3, <2>5
<1> QED BY <1>2, <1>3

LEMMA CloseStep == ASSUME PktInv, Close PROVE PktInv'
<1>1. /\ stopped' = TRUE /\ loop' = "closing" /\ loop \in {"idle", "failed"}
      /\ UNCHANGED <<pktPc, paused, wake, request, pktFault, pktAge, scan, handle, listed, alive, aggregate>>
  BY DEF Close, engines
<1>2. wake' \in [Worker -> BOOLEAN] /\ request' \in BOOLEAN
  BY <1>1 DEF PktInv, PktTypeOK
<1> QED BY <1>1, <1>2, LoopMoves

LEMMA HangStep == ASSUME PktInv, PktHang PROVE PktInv'
<1>1. /\ loop' = "hung" /\ loop = "idle"
      /\ UNCHANGED <<pktPc, paused, wake, request, stopped, pktFault, pktAge, scan, handle, listed, alive, aggregate>>
  BY DEF PktHang, engines, barrier
<1>2. wake' \in [Worker -> BOOLEAN] /\ request' \in BOOLEAN /\ stopped' \in BOOLEAN /\ (stopped => pktFault)
  BY <1>1 DEF PktInv, PktTypeOK, PktStops
<1> QED BY <1>1, <1>2, LoopMoves

LEMMA ClosedStep == ASSUME PktInv, PktClosed, aggregate' = aggregate PROVE PktInv'
<1> USE DEF PktInv
<1>1. /\ loop = "closing" /\ \A w \in Worker : pktPc[w] \in {"none", "gone"}
      /\ alive' = alive \ {handle} /\ handle' = None /\ loop' = "closed"
      /\ UNCHANGED <<pktPc, paused, wake, request, stopped, pktFault, pktAge, scan, listed>>
  BY DEF PktClosed, barrier, Started
<1>2. PktTypeOK' /\ PktHonest' /\ PktStops' /\ PktBarrier'
  BY <1>1 DEF PktTypeOK, PktHonest, PktStops, PktBarrier
<1>3. PktStill' /\ stopped'
  BY <1>1 DEF PktStill, PktStops
<1>4. PktScan'
  BY <1>1, <1>3 DEF PktScan
<1> QED BY <1>2, <1>4

LEMMA ClockStep == ASSUME PktInv, Clock PROVE PktInv'
<1> USE DEF PktInv
<1>1. UNCHANGED <<pktPc, paused, wake, request, stopped, pktFault, scan, handle, listed, alive, loop, aggregate>>
  BY DEF Clock, barrier, engines
<1>2. pktAge' \in 0..PktLease
  BY PktAssumption DEF Clock, PktTypeOK
<1>3. PktTypeOK'
  BY <1>1, <1>2 DEF PktTypeOK
<1> QED BY <1>1, <1>3 DEF PktHonest, PktStops, PktBarrier, PktScan, PktStill

LEMMA PktStep == ASSUME PktInv, [PktNext]_pktVars PROVE PktInv'
<1>1. CASE UNCHANGED pktVars
  BY <1>1 DEF pktVars, PktInv, PktTypeOK, PktHonest, PktStops, PktBarrier, PktScan, PktStill
<1>2. CASE LoopStep
  BY <1>2, PktStartStep, InspectionStep, PauseStep, NothingStep, PausedStep, ConfigureStep, ResumeStep,
     ClosedStep, CloseStep DEF LoopStep
<1>3. ASSUME NEW w \in Worker, WorkerStep(w) PROVE PktInv'
  BY <1>3, WorkerStepKeeps
<1> QED BY <1>1, <1>2, <1>3, CloseStep, HangStep, ClockStep DEF PktNext

(***************************************************************************)
(* The barrier of the packet owner: what its threads report is what they   *)
(* do, and an engine is replaced only while none of them can scan.         *)
(***************************************************************************)
THEOREM PktInvariance == PktSpec => []PktInv
  BY PktInvInit, PktStep, PTL DEF PktSpec

(* A port's threads never scan with an engine that was destroyed, whatever *)
(* faults, stops, silences and policy reloads meet.                        *)
THEOREM PacketOwnerSafe == PktSpec => []PktSafe
<1>1. PktInv => PktSafe
  BY DEF PktInv, PktSafe, PortEngineAlive, EngineAlive, PktScan, PktStill
<1> QED BY <1>1, PktInvariance, PTL

(* What the threads read during a burst never changes under it, in either  *)
(* kind of owner: the gate, the bindings and the engine's address are      *)
(* written behind the barrier alone.                                       *)
THEOREM PacketConfigQuiet == PktSpec => ConfigQuiet
<1>1. ASSUME PktInv, [PktNext]_pktVars
      PROVE  [scan' # scan => \A w \in Worker : pktPc[w] # "burst" /\ pktPc'[w] # "burst"]_pktVars
  <2> SUFFICES ASSUME PktNext, scan' # scan
               PROVE  \A w \in Worker : pktPc[w] # "burst" /\ pktPc'[w] # "burst"
    BY <1>1 DEF pktVars
  <2>1. Configure
    <3>1. \A w \in Worker : ~WorkerStep(w)
      BY <1>1, WorkerKeepsStill
    <3> QED BY <3>1 DEF PktNext, LoopStep, PktStart, InspectionTick, PktPause, NothingToPush, Paused, PktResume,
                        PktClosed, Close, PktHang, Clock, engines
  <2>2. PktStill /\ pktPc' = pktPc
    BY <1>1, <2>1 DEF Configure, PktInv, PktBarrier
  <2> QED BY <2>2 DEF PktStill
<1> QED BY <1>1, PktInvariance, PTL DEF PktSpec, ConfigQuiet

-----------------------------------------------------------------------------
(* The owner of an aggregate.                                              *)

OwnRevs == Revision \cup {None}
OwnGroup == [stage : {"free", "validating", "setup", "running"},
             applied : OwnRevs, tried : OwnRevs, asked : OwnRevs, gen : OwnRevs,
             err : BOOLEAN, silent : 0..OwnLease, ready : BOOLEAN]
OwnWork == [rev : OwnRevs, at : {"none", "start", "mid", "ok", "failed"}]
OwnHook == [env : OwnRevs, gen : OwnRevs, at : {"none", "read", "locked"}]
OwnLeaseFile == [gen : OwnRevs, own : BOOLEAN]

OwnTyped ==
  /\ portd \in {"run", "hung", "down"}
  /\ group \in OwnGroup /\ netHelper \in OwnWork /\ hook \in OwnHook
  /\ intent \in OwnRevs /\ dhcp \in OwnRevs
  /\ lease \in OwnLeaseFile /\ pending \in {"none", "own", "foreign"}
  /\ tap \in {"none", "part", "full"} /\ mine \in BOOLEAN
  /\ net \in Nets \cup {None}

(* Who has what: an owner with a stage lives in a living daemon and keeps  *)
(* the journal; helpers, client and hook are those of a running owner.     *)
OwnStages ==
  /\ group.stage # "free" => portd # "down" /\ intent = group.gen /\ group.applied \in Revision
  /\ group.stage # "running" => netHelper = NoWork /\ dhcp = None /\ hook = NoHook /\ ~group.ready
  /\ group.stage = "running" => tap = "full" /\ mine
  /\ netHelper.at # "none" => netHelper.rev \in Revision

(* What a setup finds and leaves.  The lease file may be there already,    *)
(* but then it is a predecessor's: the token of this owner is new.         *)
OwnSetup ==
  /\ group.stage = "validating" => ~mine
  /\ group.stage \in {"validating", "setup"} => ~lease.own
  /\ group.stage = "setup" /\ mine /\ tap = "full" => net = NetOf[group.applied]

(* The owner's lease, and the one about to be written, are of this         *)
(* generation.                                                             *)
OwnLeases ==
  /\ lease.own => lease.gen = group.gen
  /\ hook.at = "locked" => hook.env = group.gen

(* With no update under way or failed the network is the applied one; one  *)
(* that ended well has installed its own and has taken the lease away.     *)
OwnNetwork ==
  group.stage = "running" =>
    /\ netHelper = NoWork /\ ~group.err => net = NetOf[group.applied] /\ OwnLeases
    /\ netHelper.at = "ok" => net = NetOf[netHelper.rev] /\ OwnLeases
    /\ netHelper.at = "mid" => hook.at # "locked"
    /\ netHelper.at = "none" => netHelper = NoWork
    /\ group.ready => netHelper = NoWork /\ ~group.err

OwnInv == OwnTyped /\ OwnStages /\ OwnSetup /\ OwnNetwork

LEMMA OwnConstants ==
  /\ NoOwner \in OwnGroup /\ NoWork \in OwnWork /\ NoHook \in OwnHook
  /\ NoOwner.stage = "free" /\ ~NoOwner.ready /\ NoWork.at = "none" /\ NoHook.at = "none"
  /\ NoLease \in OwnLeaseFile /\ ~NoLease.own
<1>1. 0 \in 0..OwnLease
  BY OwnAssumption
<1> QED BY <1>1 DEF NoOwner, NoWork, NoHook, NoLease, OwnGroup, OwnWork, OwnHook, OwnLeaseFile, OwnRevs

LEMMA OwnInvInit == OwnInit => OwnInv
  BY OwnConstants DEF OwnInit, OwnInv, OwnTyped, OwnStages, OwnSetup, OwnNetwork, OwnRevs

LEMMA OwnBeginStep == ASSUME OwnInv, NEW r \in Revision, OwnBegin(r) PROVE OwnInv'
<1> USE DEF OwnInv
<1> DEFINE o == [NoOwner EXCEPT !.stage = "validating", !.applied = r, !.tried = r, !.gen = r]
<1>1. o \in OwnGroup /\ o.stage = "validating" /\ o.gen = r /\ o.applied = r /\ ~o.ready
  BY OwnConstants DEF OwnGroup, OwnRevs, NoOwner
<1>2. /\ group' = o /\ intent' = r /\ mine' = FALSE /\ portd = "run" /\ group.stage = "free"
      /\ lease' = [lease EXCEPT !.own = FALSE] /\ pending' \in {"none", "foreign"}
      /\ UNCHANGED <<portd, tap, net, netHelper, dhcp, hook>>
  BY DEF OwnBegin
<1> HIDE DEF o
<1>5. lease' \in OwnLeaseFile /\ ~lease'.own
  BY <1>2 DEF OwnTyped, OwnLeaseFile
<1>3. OwnTyped'
  BY <1>1, <1>2, <1>5 DEF OwnTyped, OwnRevs
<1>4. OwnStages' /\ OwnSetup' /\ OwnNetwork'
  BY <1>1, <1>2, <1>5 DEF OwnStages, OwnSetup, OwnNetwork
<1> QED BY <1>3, <1>4

LEMMA ValidatedStep == ASSUME OwnInv, Validated PROVE OwnInv'
<1> USE DEF OwnInv
<1> DEFINE o == [group EXCEPT !.stage = "setup"]
<1>1. group \in OwnGroup
  BY DEF OwnTyped
<1>2. o \in OwnGroup /\ o.stage = "setup" /\ o.gen = group.gen /\ o.applied = group.applied /\ o.ready = group.ready
  BY <1>1 DEF OwnGroup
<1>3. /\ group' = o /\ group.stage = "validating"
      /\ UNCHANGED <<portd, intent, tap, mine, net, netHelper, dhcp, hook, lease, pending>>
  BY DEF Validated, kernel, runFiles
<1> HIDE DEF o
<1>4. OwnTyped'
  BY <1>2, <1>3 DEF OwnTyped
<1>5. OwnStages' /\ OwnSetup' /\ OwnNetwork'
  BY <1>2, <1>3 DEF OwnStages, OwnSetup, OwnNetwork
<1> QED BY <1>4, <1>5

LEMMA SetupStep == ASSUME OwnInv, SetupCreates \/ SetupEnds PROVE OwnInv'
<1> USE DEF OwnInv
<1>1. CASE SetupCreates
  <2>1. /\ group.stage = "setup" /\ tap = "none" /\ tap' = "part" /\ mine' = TRUE
        /\ UNCHANGED <<portd, group, intent, net, netHelper, dhcp, hook, lease, pending>>
    BY <1>1 DEF SetupCreates, runFiles
  <2> QED BY <2>1 DEF OwnTyped, OwnStages, OwnSetup, OwnNetwork
<1>2. CASE SetupEnds
  <2>1. /\ group.stage = "setup" /\ tap = "part" /\ mine
        /\ tap' = "full" /\ net' = NetOf[group.applied]
        /\ UNCHANGED <<portd, group, intent, mine, netHelper, dhcp, hook, lease, pending>>
    BY <1>2 DEF SetupEnds, runFiles
  <2>2. NetOf[group.applied] \in Nets
    BY <2>1, OwnAssumption DEF OwnStages
  <2> QED BY <2>1, <2>2 DEF OwnTyped, OwnStages, OwnSetup, OwnNetwork
<1> QED BY <1>1, <1>2

LEMMA OwnOpenStep == ASSUME OwnInv, OwnOpen PROVE OwnInv'
<1> USE DEF OwnInv
<1> DEFINE o == [group EXCEPT !.stage = "running"]
<1>1. group \in OwnGroup
  BY DEF OwnTyped
<1>2. /\ o \in OwnGroup /\ o.stage = "running" /\ o.gen = group.gen /\ o.applied = group.applied
      /\ o.ready = group.ready
  BY <1>1 DEF OwnGroup
<1>3. /\ group' = o /\ group.stage = "setup" /\ tap = "full" /\ mine
      /\ UNCHANGED <<portd, intent, tap, mine, net, netHelper, dhcp, hook, lease, pending>>
  BY DEF OwnOpen, kernel, runFiles
<1> HIDE DEF o
<1>4. OwnTyped'
  BY <1>2, <1>3 DEF OwnTyped
<1>5. netHelper = NoWork /\ hook = NoHook /\ ~group.ready /\ ~lease.own /\ net = NetOf[group.applied]
  BY <1>3 DEF OwnStages, OwnSetup
<1>6. OwnStages' /\ OwnSetup' /\ OwnNetwork'
  BY <1>2, <1>3, <1>5, OwnConstants DEF OwnStages, OwnSetup, OwnNetwork, OwnLeases
<1> QED BY <1>4, <1>6

(* Whoever cleans up leaves nobody behind who owned anything, however far  *)
(* the removals came.                                                      *)
LEMMA OwnGone ==
  ASSUME OwnInv, group' = NoOwner, netHelper' = NoWork, dhcp' = None, hook' = NoHook,
         portd' \in {"run", "hung", "down"},
         tap' \in {"none", "part", "full"}, mine' \in BOOLEAN, net' \in Nets \cup {None},
         intent' \in OwnRevs, lease' \in OwnLeaseFile, pending' \in {"none", "own", "foreign"}
  PROVE  OwnInv'
<1>1. None \in OwnRevs
  BY DEF OwnRevs
<1>2. OwnTyped'
  BY <1>1, OwnConstants DEF OwnTyped
<1>3. OwnStages' /\ OwnSetup' /\ OwnNetwork'
  BY OwnConstants DEF OwnStages, OwnSetup, OwnNetwork
<1> QED BY <1>2, <1>3 DEF OwnInv

LEMMA LinkGoesTyped ==
  ASSUME OwnTyped, NEW k, LinkGoes(k)
  PROVE  tap' \in {"none", "part", "full"} /\ mine' \in BOOLEAN /\ net' \in Nets \cup {None}
<1>1. tap' \in {"none", "part", "full"} /\ mine' \in BOOLEAN
  BY DEF OwnTyped, LinkGoes
<1>2. net' \in Nets \cup {None}
  BY DEF OwnTyped, LinkGoes
<1> QED BY <1>1, <1>2

LEMMA TeardownTyped ==
  ASSUME OwnTyped, NEW k, Teardown(k)
  PROVE  /\ tap' \in {"none", "part", "full"} /\ mine' \in BOOLEAN /\ net' \in Nets \cup {None}
         /\ intent' \in OwnRevs /\ lease' \in OwnLeaseFile /\ pending' \in {"none", "own", "foreign"}
<1>1. intent' \in OwnRevs /\ lease' \in OwnLeaseFile /\ pending' \in {"none", "own", "foreign"}
  BY OwnConstants DEF OwnTyped, Teardown, IntentGoes, OwnRevs
<1> QED BY <1>1, LinkGoesTyped DEF Teardown

LEMMA ShutdownStep == ASSUME OwnInv, Shutdown, portd' = portd PROVE OwnInv'
<1>1. OwnTyped /\ portd' \in {"run", "hung", "down"}
  BY DEF OwnInv, OwnTyped
<1>2. lease' \in OwnLeaseFile /\ pending' \in {"none", "own", "foreign"}
  BY OwnConstants DEF Shutdown
<1>3. CASE group.stage = "running"
  <2>1. PICK k \in Removals : LinkGoes(k) /\ IntentGoes(k)
    BY <1>3 DEF Shutdown
  <2>2. intent' \in OwnRevs
    BY <1>1, <2>1 DEF OwnTyped, IntentGoes, OwnRevs
  <2> QED BY <1>1, <1>2, <2>1, <2>2, LinkGoesTyped, OwnGone DEF Shutdown
<1>4. CASE group.stage # "running"
  <2>1. UNCHANGED <<tap, mine, net>> /\ intent' = None
    BY <1>4 DEF Shutdown, kernel
  <2>2. /\ tap' \in {"none", "part", "full"} /\ mine' \in BOOLEAN
        /\ net' \in Nets \cup {None} /\ intent' \in OwnRevs
    BY <1>1, <2>1 DEF OwnTyped, OwnRevs
  <2> QED BY <1>1, <1>2, <2>2, OwnGone DEF Shutdown
<1> QED BY <1>3, <1>4

LEMMA SetupFailsStep == ASSUME OwnInv, SetupFails PROVE OwnInv'
<1>1. OwnTyped /\ netHelper = NoWork /\ dhcp = None /\ hook = NoHook
  BY DEF SetupFails, OwnInv, OwnStages
<1>2. /\ group' = NoOwner /\ intent' = None /\ lease' = NoLease /\ pending' = "none"
      /\ UNCHANGED <<portd, netHelper, dhcp, hook>>
  BY DEF SetupFails
<1>3. /\ portd' \in {"run", "hung", "down"} /\ intent' \in OwnRevs
      /\ lease' \in OwnLeaseFile /\ pending' \in {"none", "own", "foreign"}
  BY <1>1, <1>2, OwnConstants DEF OwnTyped, OwnRevs
<1>4. tap' \in {"none", "part", "full"} /\ mine' \in BOOLEAN /\ net' \in Nets \cup {None}
  <2>1. CASE mine
    BY <1>1, <2>1, LinkGoesTyped DEF SetupFails
  <2>2. CASE ~mine
    BY <1>1, <2>2 DEF SetupFails, kernel, OwnTyped
  <2> QED BY <2>1, <2>2
<1> QED BY <1>1, <1>2, <1>3, <1>4, OwnGone

LEMMA ObserveStep == ASSUME OwnInv, NEW r \in OwnRevs, Observe(r) PROVE OwnInv'
<1> USE DEF OwnInv
<1> DEFINE o == [group EXCEPT !.silent = 0, !.asked = IF r = None THEN @ ELSE r]
<1>1. group \in OwnGroup /\ 0 \in 0..OwnLease
  BY OwnAssumption DEF OwnTyped
<1>2. /\ o \in OwnGroup /\ o.stage = group.stage /\ o.gen = group.gen /\ o.applied = group.applied
      /\ o.ready = group.ready /\ o.err = group.err
  BY <1>1 DEF OwnGroup
<1>3. /\ group' = o /\ UNCHANGED <<portd, intent, tap, mine, net, netHelper, dhcp, hook, lease, pending>>
  BY DEF Observe, kernel, runFiles
<1> HIDE DEF o
<1>4. OwnTyped'
  BY <1>2, <1>3 DEF OwnTyped
<1>5. OwnStages' /\ OwnSetup' /\ OwnNetwork'
  BY <1>2, <1>3 DEF OwnStages, OwnSetup, OwnNetwork, OwnLeases
<1> QED BY <1>4, <1>5

(* The workers of an update and the DHCP hook.                             *)
LEMMA WorkerRunsStep == ASSUME OwnInv, WorkerRuns PROVE OwnInv'
<1> USE DEF OwnInv
<1>1. netHelper \in OwnWork /\ netHelper.at = "start" /\ hook.at # "locked" /\ group.stage = "running"
  BY OwnConstants DEF WorkerRuns, OwnTyped, OwnStages
<1>2. UNCHANGED <<portd, group, intent, tap, mine, dhcp, hook, lease>>
  BY DEF WorkerRuns
<1>3. PICK at \in {"mid", "failed"} :
         /\ netHelper' = [netHelper EXCEPT !.at = at] /\ (net' = net \/ net' = None)
         /\ pending' \in {pending, "own"}
  BY DEF WorkerRuns
<1>4. netHelper' \in OwnWork /\ netHelper'.rev = netHelper.rev /\ netHelper'.at = at
  BY <1>1, <1>3 DEF OwnWork
<1>5. OwnTyped'
  BY <1>2, <1>3, <1>4 DEF OwnTyped
<1>6. OwnStages' /\ OwnSetup' /\ OwnNetwork'
  BY <1>1, <1>2, <1>4, OwnConstants DEF OwnStages, OwnSetup, OwnNetwork
<1> QED BY <1>5, <1>6

LEMMA WorkerEndsStep == ASSUME OwnInv, WorkerEnds PROVE OwnInv'
<1> USE DEF OwnInv
<1>1. netHelper \in OwnWork /\ netHelper.at = "mid" /\ group.stage = "running" /\ netHelper.rev \in Revision
  BY OwnConstants DEF WorkerEnds, OwnTyped, OwnStages
<1>2. UNCHANGED <<portd, group, intent, tap, mine, dhcp, hook>>
  BY DEF WorkerEnds
<1>3. hook.at # "locked"
  BY <1>1 DEF OwnNetwork
<1>4. CASE /\ net' = NetOf[netHelper.rev] /\ lease' = NoLease /\ pending' = "none"
           /\ netHelper' = [netHelper EXCEPT !.at = "ok"]
  <2>1. netHelper' \in OwnWork /\ netHelper'.rev = netHelper.rev /\ netHelper'.at = "ok"
    BY <1>1, <1>4 DEF OwnWork
  <2>2. net' \in Nets
    BY <1>1, <1>4, OwnAssumption
  <2>3. OwnTyped'
    BY <1>2, <1>4, <2>1, <2>2, OwnConstants DEF OwnTyped
  <2>4. OwnStages' /\ OwnSetup' /\ OwnNetwork'
    BY <1>1, <1>2, <1>3, <1>4, <2>1, OwnConstants DEF OwnStages, OwnSetup, OwnNetwork, OwnLeases
  <2> QED BY <2>3, <2>4
<1>5. CASE /\ lease' \in {lease, NoLease} /\ UNCHANGED <<net, pending>>
           /\ netHelper' = [netHelper EXCEPT !.at = "failed"]
  <2>1. netHelper' \in OwnWork /\ netHelper'.rev = netHelper.rev /\ netHelper'.at = "failed"
    BY <1>1, <1>5 DEF OwnWork
  <2>2. OwnTyped'
    BY <1>2, <1>5, <2>1, OwnConstants DEF OwnTyped
  <2>3. OwnStages' /\ OwnSetup' /\ OwnNetwork'
    BY <1>1, <1>2, <1>5, <2>1, OwnConstants DEF OwnStages, OwnSetup, OwnNetwork
  <2> QED BY <2>2, <2>3
<1> QED BY <1>4, <1>5 DEF WorkerEnds

LEMMA HookStep == ASSUME OwnInv, HookReads \/ HookLocks \/ HookEnds PROVE OwnInv'
<1> USE DEF OwnInv
<1>1. CASE HookReads
  <2>1. /\ hook' = [env |-> dhcp, gen |-> intent, at |-> "read"] /\ dhcp # None
        /\ UNCHANGED <<portd, group, intent, tap, mine, net, netHelper, dhcp, lease, pending>>
    BY <1>1 DEF HookReads, kernel, runFiles
  <2>2. hook' \in OwnHook /\ hook'.at = "read"
    BY <2>1 DEF OwnHook, OwnTyped
  <2>3. OwnTyped' /\ OwnSetup'
    BY <2>1, <2>2 DEF OwnTyped, OwnSetup
  <2> QED BY <2>1, <2>2, <2>3 DEF OwnStages, OwnNetwork, OwnLeases
<1>2. CASE HookLocks
  <2>1. /\ hook.at = "read" /\ netHelper.at # "mid" /\ hook \in OwnHook
        /\ UNCHANGED <<portd, group, intent, tap, mine, net, netHelper, dhcp, lease, pending>>
    BY <1>2 DEF HookLocks, kernel, runFiles, OwnTyped
  <2>2. group.stage = "running" /\ intent = group.gen
    BY <2>1, OwnConstants DEF OwnStages
  <2>3. /\ hook' \in OwnHook
        /\ hook'.at = "locked" => hook'.env = intent
    BY <1>2, <2>1, OwnConstants DEF HookLocks, OwnHook
  <2>4. OwnTyped' /\ OwnSetup'
    BY <2>1, <2>3 DEF OwnTyped, OwnSetup
  <2> QED BY <2>1, <2>2, <2>3, <2>4 DEF OwnStages, OwnNetwork, OwnLeases
<1>3. CASE HookEnds
  <2> DEFINE l == [gen |-> hook.env, own |-> TRUE]
  <2>1. /\ hook.at = "locked" /\ lease' \in {lease, l} /\ hook' = NoHook /\ hook \in OwnHook
        /\ UNCHANGED <<portd, group, intent, tap, mine, net, netHelper, dhcp, pending>>
    BY <1>3 DEF HookEnds, kernel, OwnTyped
  <2>2. group.stage = "running" /\ tap = "full"
    BY <2>1, OwnConstants DEF OwnStages
  <2>3. l \in OwnLeaseFile /\ l.own /\ l.gen = hook.env
    BY <2>1 DEF OwnHook, OwnLeaseFile
  <2> HIDE DEF l
  <2>4. OwnTyped' /\ OwnSetup'
    BY <2>1, <2>2, <2>3, OwnConstants DEF OwnTyped, OwnSetup
  <2>5. OwnLeases => OwnLeases'
    BY <2>1, <2>3, OwnConstants DEF OwnLeases
  <2> QED BY <2>1, <2>2, <2>4, <2>5, OwnConstants DEF OwnStages, OwnNetwork
<1> QED BY <1>1, <1>2, <1>3

LEMMA OwnDaemonStep == ASSUME OwnInv, OwnHang \/ OwnCrash \/ OwnRestart \/ OwnSweep PROVE OwnInv'
<1>1. CASE OwnHang
  BY <1>1 DEF OwnHang, kernel, runFiles, OwnInv, OwnTyped, OwnStages, OwnSetup, OwnNetwork, OwnLeases
<1>2. CASE OwnCrash
  BY <1>2, OwnGone DEF OwnCrash, Killed, kernel, runFiles, OwnInv, OwnTyped
<1>3. ASSUME portd' \in {"run", "hung", "down"}, group.stage = "free" \/ portd = "down",
             UNCHANGED <<group, netHelper, dhcp, hook>>,
             UNCHANGED <<kernel, intent, runFiles>> \/ \E k \in Removals : Teardown(k)
      PROVE  OwnInv'
  <2>1. group.stage = "free" /\ netHelper = NoWork /\ dhcp = None /\ hook = NoHook /\ ~group.ready
    BY <1>3 DEF OwnInv, OwnStages
  <2>2. /\ tap' \in {"none", "part", "full"} /\ mine' \in BOOLEAN /\ net' \in Nets \cup {None}
        /\ intent' \in OwnRevs /\ lease' \in OwnLeaseFile /\ pending' \in {"none", "own", "foreign"}
    <3>1. CASE UNCHANGED <<kernel, intent, runFiles>>
      BY <3>1 DEF kernel, runFiles, OwnInv, OwnTyped
    <3>2. CASE \E k \in Removals : Teardown(k)
      BY <3>2, TeardownTyped DEF OwnInv
    <3> QED BY <1>3, <3>1, <3>2
  <2>3. OwnTyped'
    BY <1>3, <2>2 DEF OwnInv, OwnTyped
  <2>4. OwnStages' /\ OwnSetup' /\ OwnNetwork'
    BY <1>3, <2>1, OwnConstants DEF OwnStages, OwnSetup, OwnNetwork
  <2> QED BY <2>3, <2>4 DEF OwnInv
<1>4. CASE OwnRestart
  BY <1>3, <1>4 DEF OwnRestart
<1>5. CASE OwnSweep
  <2>1. portd \in {"run", "hung", "down"} /\ OwnTyped
    BY DEF OwnInv, OwnTyped
  <2>2. CASE LockFree /\ (\E k \in Removals : Teardown(k)) /\ UNCHANGED <<portd, group, netHelper, dhcp, hook>>
    BY <1>3, <2>1, <2>2 DEF LockFree
  <2>3. CASE OwnStale /\ Killed /\ \E k \in Removals : Teardown(k)
    BY <2>1, <2>3, TeardownTyped, OwnGone DEF Killed
  <2> QED BY <1>5, <2>2, <2>3 DEF OwnSweep
<1> QED BY <1>1, <1>2, <1>3, <1>4, <1>5

(* What a tick makes of an owner's record: the reply it read, and the      *)
(* configuration it went on to.                                            *)
LEMMA FinishedOwner ==
  ASSUME OwnInv, group.stage = "running"
  PROVE  LET f == Finished(group) IN
         /\ f \in OwnGroup /\ f.stage = "running" /\ f.gen = group.gen
         /\ f.applied \in Revision /\ f.silent = group.silent
         /\ ~WorkerBusy /\ ~f.err => net = NetOf[f.applied] /\ OwnLeases
<1> USE DEF OwnInv
<1>1. group \in OwnGroup /\ netHelper \in OwnWork /\ group.applied \in Revision
  BY DEF OwnTyped, OwnStages
<1>2. CASE netHelper.at = "ok"
  <2> DEFINE f == [group EXCEPT !.applied = netHelper.rev, !.err = FALSE]
  <2>1. Finished(group) = f
    BY <1>2 DEF Finished
  <2>2. netHelper.rev \in Revision
    BY <1>2 DEF OwnStages
  <2>3. /\ f \in OwnGroup /\ f.stage = "running" /\ f.gen = group.gen /\ f.applied = netHelper.rev
        /\ f.silent = group.silent
    BY <1>1, <2>2 DEF OwnGroup, OwnRevs
  <2>4. net = NetOf[netHelper.rev] /\ OwnLeases
    BY <1>2 DEF OwnNetwork
  <2> HIDE DEF f
  <2> QED BY <2>1, <2>2, <2>3, <2>4
<1>3. CASE netHelper.at = "failed"
  <2> DEFINE f == [group EXCEPT !.err = TRUE]
  <2>1. Finished(group) = f
    BY <1>3 DEF Finished
  <2>2. /\ f \in OwnGroup /\ f.stage = "running" /\ f.gen = group.gen /\ f.applied = group.applied
        /\ f.silent = group.silent /\ f.err
    BY <1>1 DEF OwnGroup
  <2> HIDE DEF f
  <2> QED BY <1>1, <2>1, <2>2
<1>4. CASE netHelper.at \notin {"ok", "failed"}
  <2>1. Finished(group) = group
    BY <1>4 DEF Finished
  <2>2. ~WorkerBusy => netHelper = NoWork
    BY <1>1, <1>4 DEF OwnNetwork, WorkerBusy, OwnWork
  <2>3. ~WorkerBusy /\ ~group.err => net = NetOf[group.applied] /\ OwnLeases
    BY <2>2 DEF OwnNetwork
  <2> QED BY <1>1, <2>1, <2>3
<1> QED BY <1>2, <1>3, <1>4

LEMMA ConfiguredOwner ==
  ASSUME NEW f \in OwnGroup, f.stage = "running", f.applied \in Revision
  PROVE  LET c == Configured(f) IN
         /\ c \in OwnGroup /\ c.stage = "running" /\ c.applied \in Revision /\ c.silent = f.silent
         /\ OwnFresh(f) /\ ~Same(f) => c.asked # None /\ c.applied = f.applied /\ c.asked = f.asked
         /\ ~OwnFresh(f) => c = f
         /\ OwnFresh(f) /\ Same(f) => c.gen = f.gen /\ c.applied = f.asked /\ ~c.err /\ NetOf[f.asked] = NetOf[f.applied]
<1>1. CASE ~OwnFresh(f)
  <2>1. Configured(f) = f
    BY <1>1 DEF Configured
  <2> QED BY <1>1, <2>1 DEF OwnRevs
<1>2. CASE OwnFresh(f) /\ Same(f)
  <2> DEFINE c == [f EXCEPT !.tried = f.asked, !.applied = f.asked, !.err = FALSE]
  <2>1. Configured(f) = c
    BY <1>2 DEF Configured
  <2>2. /\ c \in OwnGroup /\ c.stage = "running" /\ c.silent = f.silent /\ c.gen = f.gen
        /\ c.applied = f.asked /\ ~c.err
    BY DEF OwnGroup
  <2>3. NetOf[f.asked] = NetOf[f.applied] /\ f.asked \in Revision
    BY <1>2 DEF Same, OwnFresh, OwnGroup, OwnRevs
  <2> HIDE DEF c
  <2> QED BY <1>2, <2>1, <2>2, <2>3
<1>3. CASE OwnFresh(f) /\ ~Same(f)
  <2> DEFINE c == [f EXCEPT !.tried = f.asked, !.err = FALSE, !.gen = f.asked]
  <2>1. Configured(f) = c
    BY <1>3 DEF Configured
  <2>2. /\ c \in OwnGroup /\ c.stage = "running" /\ c.silent = f.silent
        /\ c.applied = f.applied /\ c.asked = f.asked
    BY DEF OwnGroup
  <2>3. f.asked # None /\ f.applied \in OwnRevs
    BY <1>3 DEF OwnFresh, OwnRevs
  <2> HIDE DEF c
  <2> QED BY <1>3, <2>1, <2>2, <2>3
<1> QED BY <1>1, <1>2, <1>3

LEMMA OwnTickStep == ASSUME OwnInv, NEW exited \in BOOLEAN, OwnTick(exited) PROVE OwnInv'
<1> USE DEF OwnInv
<1> DEFINE f == Finished(group)
           starts == OwnFresh(f) /\ ~Same(f)
           c == Configured(f)
           w == IF starts THEN [rev |-> c.asked, at |-> "start"]
                ELSE IF WorkerBusy THEN netHelper ELSE NoWork
           live == IF starts THEN None ELSE dhcp
           lost == exited /\ live # None
           rdy == NetworkCurrent(c, w) /\ ~lost
           o == [c EXCEPT !.silent = @ + 1, !.err = @ \/ lost, !.ready = rdy]
<1>1. /\ Running /\ group.silent < OwnLease
      /\ netHelper' = w /\ intent' = c.gen
      /\ dhcp' = IF live = None /\ NetworkCurrent(c, w) /\ c.applied \in Dhcp THEN c.gen ELSE live
      /\ hook' \in {hook} \cup (IF starts THEN {NoHook} ELSE {})
      /\ group' = o
      /\ UNCHANGED <<portd, tap, mine, net, lease, pending>>
  BY DEF OwnTick, kernel, runFiles
<1>2. group.stage = "running" /\ portd = "run" /\ tap = "full" /\ mine
  BY <1>1 DEF Running, OwnStages
<1>3. /\ f \in OwnGroup /\ f.stage = "running" /\ f.gen = group.gen
      /\ f.applied \in Revision /\ f.silent = group.silent
      /\ ~WorkerBusy /\ ~f.err => net = NetOf[f.applied] /\ OwnLeases
  BY <1>2, FinishedOwner
<1> HIDE DEF f
<1>4. /\ c \in OwnGroup /\ c.stage = "running" /\ c.applied \in Revision /\ c.silent = f.silent
      /\ starts => c.asked # None /\ c.applied = f.applied /\ c.asked = f.asked
      /\ ~OwnFresh(f) => c = f
      /\ OwnFresh(f) /\ Same(f) => c.gen = f.gen /\ c.applied = f.asked /\ ~c.err /\ NetOf[f.asked] = NetOf[f.applied]
  BY <1>3, ConfiguredOwner
<1> HIDE DEF c
<1>5. c.asked \in OwnRevs /\ c.gen \in OwnRevs /\ c.err \in BOOLEAN /\ c.silent + 1 \in 0..OwnLease
  BY <1>1, <1>3, <1>4, OwnAssumption DEF OwnGroup, OwnTyped
<1>6. rdy \in BOOLEAN /\ (c.err \/ lost) \in BOOLEAN
  BY DEF NetworkCurrent
<1>7. o \in OwnGroup /\ o.stage = "running" /\ o.gen = c.gen /\ o.applied = c.applied
      /\ o.ready = rdy /\ o.err = (c.err \/ lost)
  BY <1>4, <1>5, <1>6 DEF OwnGroup
<1>8. w \in OwnWork /\ (w.at # "none" => w.rev \in Revision)
  <2>1. CASE starts
    <3>1. c.asked \in Revision
      BY <1>4, <1>5, <2>1 DEF OwnRevs
    <3> QED BY <2>1, <3>1 DEF OwnWork, OwnRevs
  <2>2. CASE ~starts
    BY <2>2, OwnConstants DEF OwnTyped, OwnStages
  <2> QED BY <2>1, <2>2
<1>9. w.at \in {"start", "mid"} \/ w = NoWork
  BY OwnConstants DEF WorkerBusy
<1>10. w = NoWork => ~starts /\ ~WorkerBusy
  BY OwnConstants DEF WorkerBusy, NoWork
<1>11. hook' \in OwnHook /\ (hook'.at = "locked" => hook' = hook)
  BY <1>1, OwnConstants DEF OwnTyped
<1>12. dhcp' \in OwnRevs
  BY <1>1, <1>5 DEF OwnTyped, OwnRevs
<1>13. OwnTyped'
  BY <1>1, <1>5, <1>7, <1>8, <1>11, <1>12 DEF OwnTyped
<1>14. OwnStages'
  BY <1>1, <1>2, <1>4, <1>7, <1>8 DEF OwnStages
<1>15. OwnSetup'
  BY <1>1, <1>7 DEF OwnSetup
<1>16. rdy => w = NoWork /\ ~o.err
  BY <1>7 DEF NetworkCurrent
<1>17. w = NoWork /\ ~o.err => /\ net = NetOf[c.applied] /\ c.gen = group.gen
                             /\ (lease.own => lease.gen = group.gen)
                             /\ (hook.at = "locked" => hook.env = group.gen)
  <2> SUFFICES ASSUME w = NoWork, ~o.err
               PROVE  net = NetOf[c.applied] /\ c.gen = group.gen /\ OwnLeases
    BY DEF OwnLeases
  <2>1. ~starts /\ ~WorkerBusy /\ ~c.err
    BY <1>7, <1>10
  <2>2. CASE ~OwnFresh(f)
    BY <1>3, <1>4, <2>1, <2>2
  <2>3. CASE OwnFresh(f) /\ Same(f)
    <3>1. ~f.err
      BY <2>3 DEF Same
    <3> QED BY <1>3, <1>4, <2>1, <2>3, <3>1
  <2> QED BY <2>1, <2>2, <2>3
<1>18. w.at = "mid" => hook'.at # "locked"
  <2>1. w.at = "mid" => netHelper.at = "mid"
    BY OwnConstants
  <2> QED BY <1>2, <1>11, <2>1 DEF OwnNetwork
<1> HIDE DEF w, o, rdy, starts
<1>19. OwnNetwork'
  <2>1. w.at # "ok" /\ (w.at = "none" => w = NoWork)
    BY <1>9, OwnConstants
  <2>2. w = NoWork /\ ~o.err => net' = NetOf[group'.applied] /\ OwnLeases'
    BY <1>1, <1>7, <1>11, <1>17 DEF OwnLeases
  <2> QED BY <1>1, <1>7, <1>16, <1>18, <2>1, <2>2 DEF OwnNetwork
<1> QED BY <1>13, <1>14, <1>15, <1>19

LEMMA OwnStep == ASSUME OwnInv, [OwnNext]_ownVars PROVE OwnInv'
<1>1. CASE UNCHANGED ownVars
  BY <1>1 DEF ownVars, OwnInv, OwnTyped, OwnStages, OwnSetup, OwnNetwork, OwnLeases
<1>2. ASSUME NEW r \in Revision, OwnBegin(r) PROVE OwnInv'
  BY <1>2, OwnBeginStep
<1>3. CASE Validated \/ SetupCreates \/ SetupEnds \/ SetupFails \/ OwnOpen
  BY <1>3, ValidatedStep, SetupStep, SetupFailsStep, OwnOpenStep
<1>4. CASE OwnFail \/ OwnExpire
  BY <1>4, ShutdownStep DEF OwnFail, OwnExpire
<1>5. ASSUME NEW r \in Revision \cup {None}, Observe(r) PROVE OwnInv'
  BY <1>5, ObserveStep DEF OwnRevs
<1>6. ASSUME NEW exited \in BOOLEAN, OwnTick(exited) PROVE OwnInv'
  BY <1>6, OwnTickStep
<1>7. CASE WorkerRuns \/ WorkerEnds
  BY <1>7, WorkerRunsStep, WorkerEndsStep
<1>8. CASE HookReads \/ HookLocks \/ HookEnds
  BY <1>8, HookStep
<1>9. CASE OwnHang \/ OwnCrash \/ OwnRestart \/ OwnSweep
  BY <1>9, OwnDaemonStep
<1> QED BY <1>1, <1>2, <1>3, <1>4, <1>5, <1>6, <1>7, <1>8, <1>9 DEF OwnNext

(***************************************************************************)
(* The owner of an aggregate: what it holds, what its setup found, and     *)
(* when the installed network and the lease are those of the revision it   *)
(* says is applied.                                                        *)
(***************************************************************************)
THEOREM OwnInvariance == OwnSpec => []OwnInv
  BY OwnInvInit, OwnStep, PTL DEF OwnSpec

(* An aggregate that is ready delivers over the interface its applied      *)
(* revision describes; a lease it accepts as its own is that client's; and *)
(* a running owner keeps the interface and the journal.  For every number  *)
(* of revisions, every failure of an update, a hook or the daemon, and     *)
(* every point at which a teardown may stop.                               *)
THEOREM AggregateOwnerSafe == OwnSpec => []OwnSafe
<1>1. ASSUME OwnInv PROVE OwnSafe
  <2> USE <1>1 DEF OwnInv
  <2>1. OwnTypeOK
    BY DEF OwnTyped, OwnTypeOK, OwnGroup, OwnWork, OwnHook, OwnLeaseFile, OwnRevs
  <2>2. OwnerHoldsAll
    BY DEF OwnStages, OwnerHoldsAll
  <2>3. group.ready => /\ group.stage = "running" /\ netHelper = NoWork
                       /\ net = NetOf[group.applied] /\ OwnLeases
    BY DEF OwnStages, OwnNetwork
  <2>4. DeliversApplied
    BY <2>3, OwnConstants DEF DeliversApplied, OwnStages, WorkerBusy
  <2>5. LeaseOfCurrent
    BY <2>3 DEF LeaseOfCurrent, OwnLeases
  <2> QED BY <2>1, <2>2, <2>4, <2>5 DEF OwnSafe
<1> QED BY <1>1, OwnInvariance, PTL
=============================================================================
