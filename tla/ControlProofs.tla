---------------------------- MODULE ControlProofs ----------------------------
(***************************************************************************)
(* What controls the platform from above, for every set of sessions,       *)
(* revisions, plans, indices, failures and stops, and every number of      *)
(* jobs, deaths, reboots, boot scripts and starts: the admission of flows  *)
(* to the FE100 (Fe100Admission); the restart of the processors            *)
(* (PlaneRestart) and their boot from the host (CpBoot), two resets that   *)
(* must not meet another owner's work.                                     *)
(***************************************************************************)
EXTENDS Fe100Admission, PlaneRestart, CpBoot, FfnLemmas, FiniteSetTheorems, TLAPS

-----------------------------------------------------------------------------
(* The admission stack.  A method is an operator from a state to the set   *)
(* of its outcomes, so that each has a lemma that says how it may end: its   *)
(* statement is what a caller relies on, its proof the composition of the    *)
(* statements of the methods it calls.                                      *)

\* The policy on record and in memory: active only with the bindings' digest.
AdmBound(o) ==
  /\ o.state.phase = "active" => o.state.att # None
  /\ o.saved.phase = "active" => o.saved.att # None

\* A row of session s leads to a next hop and that to a source MAC, both s's own.
AdmLeads(hop, smac, s, row) ==
  LET h == hop[row.hop]
  IN  h # None /\ h.key = <<s, row.rev>> /\ smac[h.smac] = [key |-> h.key, plan |-> h.plan]

\* An entry in the table has a row, and the row leads to its own next hop.
AdmWired(o) == \A s \in o.flows : o.rows[s] # None /\ AdmLeads(o.hop, o.smac, s, o.rows[s])

\* A row and what is known of its path are of one revision.
AdmAgree(o) == \A s \in AdmSid : o.rows[s] # None /\ o.dependencies[s] # None => o.dependencies[s].rev = o.rows[s].rev

\* Unless recovery is due, only sessions with a row are known to use a path.
AdmIndexed(o) == ~o.recovery => \A s \in AdmSid : o.dependencies[s] # None => o.rows[s] # None

\* While the policy is active, every row is of its revision and attachment.
AdmCurrent(o) ==
  o.activated /\ o.state.phase = "active" =>
    \A s \in AdmSid : o.rows[s] # None => o.rows[s].rev = o.state.rev /\ o.rows[s].att = o.state.att

\* What holds between any two writes of a method.
AdmPlain(o) ==
  o \in AdmOwner /\ AdmBound(o) /\ AdmWired(o) /\ AdmAgree(o) /\ AdmCurrent(o)

\* What holds between any two methods, at a failure or a stop included.
AdmGood(o) == AdmPlain(o) /\ AdmIndexed(o)

\* A synchronized producer leases every session that has a row.
AdmLeased(o) == o.producer => \A s \in AdmSid : o.rows[s] # None => s \in o.leases

\* Admission is enabled by a synchronized producer only.
AdmDriven(o) == o.activated => o.producer

\* How a method ends.
AdmEnds == {"ok", "raise", "stop"}

\* From o to p nothing came to the table, the journals or the leases.
AdmShrunk(o, p) ==
  /\ p.flows \subseteq o.flows /\ p.leases \subseteq o.leases
  /\ \A s \in AdmSid : p.rows[s] = None \/ p.rows[s] = o.rows[s]
  /\ \A s \in AdmSid : p.dependencies[s] = None \/ p.dependencies[s] = o.dependencies[s]
  /\ \A k \in AdmKey : o.paths[k] = None => p.paths[k] = None
  /\ p.activated => o.activated
  /\ p.producer => o.producer

\* What the policy owner and the session owner leave alone.
AdmLocal(o, p) ==
  /\ p.paths = o.paths /\ p.hop = o.hop /\ p.smac = o.smac
  /\ p.leases = o.leases /\ p.producer = o.producer

\* Nothing was added from o to p, and what lifecycle holds at rest still holds.
AdmKept(o, p) ==
  /\ AdmShrunk(o, p)
  /\ AdmLeased(o) => AdmLeased(p)
  /\ AdmDriven(o) => AdmDriven(p)

\* The inductive invariant of the admission stack.
AdmInv ==
  /\ AdmGood(admOwner)
  /\ admOwner.up => AdmLeased(admOwner) /\ AdmDriven(admOwner)
  /\ admLast \in [call : AdmCalls, sid : AdmSid \cup {None}, end : {"ok", "raise", "stop"}]
  /\ admLast.end = "raise" /\ admLast.call # "replace" => ~AdmissionEnabled(admOwner)
  /\ CloseAcknowledged

-----------------------------------------------------------------------------
\* ---- loops ----

\* The outcomes whose states are in St.
AdmOuts(St) == [o : St, end : AdmEnds]

\* What a loop yields after the elements of D, by what a step yields.
AdmLoop(g, o, S, f) ==
  f = [D \in SUBSET S |->
         IF D = {} THEN Ok(o)
         ELSE UNION {UNION {IF r.end = "ok" THEN g[<<r.o, x>>] ELSE {r} : r \in f[D \ {x}]} : x \in D}]

\* What the loop did for a set follows from what it did for each smaller one.
LEMMA AdmLoopInducts ==
  ASSUME NEW S, IsFiniteSet(S), NEW f, NEW J, f[{}] \subseteq J[{}],
         \A D \in SUBSET S : D # {} /\ (\A x \in D : f[D \ {x}] \subseteq J[D \ {x}]) => f[D] \subseteq J[D]
  PROVE  \A D \in SUBSET S : f[D] \subseteq J[D]
<1> DEFINE N == Cardinality(S)
           T == {n \in 0 .. N : \A D \in SUBSET S : Cardinality(D) = n => f[D] \subseteq J[D]}
<1>1. N \in Nat /\ \A D \in SUBSET S : IsFiniteSet(D) /\ Cardinality(D) \in 0 .. N
  <2>1. N \in Nat
    BY FS_CardinalityType
  <2>2. ASSUME NEW D \in SUBSET S PROVE IsFiniteSet(D) /\ Cardinality(D) \in 0 .. N
    <3>1. IsFiniteSet(D) /\ Cardinality(D) <= N
      BY FS_Subset, FS_CardinalityType
    <3>2. Cardinality(D) \in Nat
      BY <3>1, FS_CardinalityType
    <3> QED BY <2>1, <3>1, <3>2
  <2> QED BY <2>1, <2>2
<1>2. 0 \in T
  <2> SUFFICES ASSUME NEW D \in SUBSET S, Cardinality(D) = 0 PROVE f[D] \subseteq J[D]
    BY <1>1
  <2>1. D = {}
    BY <1>1, FS_EmptySet
  <2> QED BY <2>1
<1>3. ASSUME NEW n \in Nat, n \in T, n < N PROVE n + 1 \in T
  <2> SUFFICES ASSUME NEW D \in SUBSET S, Cardinality(D) = n + 1 PROVE f[D] \subseteq J[D]
    BY <1>1, <1>3
  <2>1. D # {}
    <3>1. Cardinality({}) = 0
      BY ONLY FS_EmptySet
    <3> QED BY <3>1
  <2>2. ASSUME NEW x \in D PROVE f[D \ {x}] \subseteq J[D \ {x}]
    <3>1. Cardinality(D \ {x}) = n
      <4>1. Cardinality(D) = n + 1 /\ IsFiniteSet(D) /\ x \in D
        BY <1>1
      <4>2. Cardinality(D \ {x}) = Cardinality(D) - 1
        BY ONLY <4>1, FS_RemoveElement
      <4> QED BY <4>1, <4>2
    <3> QED BY <1>3, <3>1
  <2> QED BY <2>1, <2>2
<1>4. \A n \in 0 .. N : n \in T
  <2> HIDE DEF T, N
  <2> QED BY <1>1, <1>2, <1>3, Inducts
<1> QED BY <1>1, <1>4

\* The recursive function that Each defines exists for a finite set: built one
\* cardinality at a time.
LEMMA AdmLoopExists ==
  ASSUME NEW S, IsFiniteSet(S), NEW St, NEW o \in St, NEW g \in [St \X S -> SUBSET AdmOuts(St)]
  PROVE  \E f \in [SUBSET S -> SUBSET AdmOuts(St)] : AdmLoop(g, o, S, f)
<1> DEFINE N == Cardinality(S)
           V == SUBSET AdmOuts(St)
           Upto(n) == {D \in SUBSET S : Cardinality(D) <= n}
           B(f, D) == IF D = {} THEN Ok(o)
                      ELSE UNION {UNION {IF r.end = "ok" THEN g[<<r.o, x>>] ELSE {r} : r \in f[D \ {x}]} : x \in D}
           Is(n) == \E f \in [Upto(n) -> V] : \A D \in Upto(n) : f[D] = B(f, D)
           T == {n \in 0 .. N : Is(n)}
<1>1. N \in Nat /\ \A D \in SUBSET S : IsFiniteSet(D) /\ Cardinality(D) \in 0 .. N
  <2>1. N \in Nat
    BY FS_CardinalityType
  <2>2. ASSUME NEW D \in SUBSET S PROVE IsFiniteSet(D) /\ Cardinality(D) \in 0 .. N
    <3>1. IsFiniteSet(D) /\ Cardinality(D) <= N
      BY FS_Subset, FS_CardinalityType
    <3>2. Cardinality(D) \in Nat
      BY <3>1, FS_CardinalityType
    <3> QED BY <2>1, <3>1, <3>2
  <2> QED BY <2>1, <2>2
<1>2. \A D \in SUBSET S, x \in S : x \in D => D # {} /\ Cardinality(D \ {x}) = Cardinality(D) - 1
  BY <1>1, FS_RemoveElement
<1>3. Ok(o) \in V
  BY DEF Ok, AdmOut, AdmOuts, AdmEnds

\* What a level yields is made of outcomes when the one below is.
<1>4. ASSUME NEW f, NEW D \in SUBSET S, \A x \in D : f[D \ {x}] \in V PROVE B(f, D) \in V
  <2>1. CASE D = {}
    BY <1>3, <2>1
  <2>2. CASE D # {}
    <3>1. ASSUME NEW x \in D, NEW r \in f[D \ {x}]
          PROVE  (IF r.end = "ok" THEN g[<<r.o, x>>] ELSE {r}) \subseteq AdmOuts(St)
      <4>1. r \in AdmOuts(St)
        BY <1>4
      <4>2. r.o \in St
        BY <4>1 DEF AdmOuts
      <4>3. g[<<r.o, x>>] \subseteq AdmOuts(St)
        BY <4>2
      <4> QED BY <4>1, <4>3
    <3>2. B(f, D) = UNION {UNION {IF r.end = "ok" THEN g[<<r.o, x>>] ELSE {r} : r \in f[D \ {x}]} : x \in D}
      BY <2>2
    <3>3. B(f, D) \subseteq AdmOuts(St)
      <4> SUFFICES ASSUME NEW q \in B(f, D) PROVE q \in AdmOuts(St)
        OBVIOUS
      <4> HIDE DEF B
      <4>1. PICK x \in D : q \in UNION {IF r.end = "ok" THEN g[<<r.o, x>>] ELSE {r} : r \in f[D \ {x}]}
        BY <3>2
      <4>2. PICK r \in f[D \ {x}] : q \in (IF r.end = "ok" THEN g[<<r.o, x>>] ELSE {r})
        BY <4>1
      <4> QED BY <3>1, <4>2
    <3> QED BY <3>3
  <2> QED BY <2>1, <2>2
<1>5. \A h1, h2 : \A D \in SUBSET S : (\A x \in D : h1[D \ {x}] = h2[D \ {x}]) => B(h1, D) = B(h2, D)
  <2> SUFFICES ASSUME NEW h1, NEW h2, NEW D \in SUBSET S, \A x \in D : h1[D \ {x}] = h2[D \ {x}]
               PROVE  B(h1, D) = B(h2, D)
    OBVIOUS
  <2> DEFINE E(w, x) == UNION {IF r.end = "ok" THEN g[<<r.o, x>>] ELSE {r} : r \in w[D \ {x}]}
  <2>1. \A x \in D : E(h1, x) = E(h2, x)
    OBVIOUS
  <2>2. UNION {E(h1, x) : x \in D} = UNION {E(h2, x) : x \in D}
    <3> HIDE DEF E
    <3> QED BY <2>1
  <2> QED BY <2>2
<1>6. 0 \in T
  <2> DEFINE f == [D \in Upto(0) |-> Ok(o)]
  <2>1. ASSUME NEW D \in Upto(0) PROVE D = {}
    <3>1. IsFiniteSet(D) /\ Cardinality(D) = 0
      BY <1>1
    <3> QED BY <3>1, FS_EmptySet
  <2>2. f \in [Upto(0) -> V] /\ \A D \in Upto(0) : f[D] = B(f, D)
    BY <1>3, <2>1
  <2>3. Is(0)
    <3> HIDE DEF f, B, V, Upto
    <3> QED BY <2>2
  <2> HIDE DEF Is
  <2> QED BY <1>1, <2>3
<1>7. ASSUME NEW n \in Nat, n \in T, n < N PROVE n + 1 \in T
  <2>1. PICK f \in [Upto(n) -> V] : \A D \in Upto(n) : f[D] = B(f, D)
    BY <1>7
  <2> HIDE DEF B
  <2> DEFINE w == [D \in Upto(n + 1) |-> IF D \in Upto(n) THEN f[D] ELSE B(f, D)]
  <2>2. \A D \in Upto(n + 1) : \A x \in D : D \ {x} \in Upto(n) /\ D \ {x} \in Upto(n + 1) /\ D \in SUBSET S
    <3> SUFFICES ASSUME NEW D \in SUBSET S, Cardinality(D) <= n + 1, NEW x \in D
                 PROVE  D \ {x} \in SUBSET S /\ Cardinality(D \ {x}) <= n /\ Cardinality(D \ {x}) <= n + 1
      OBVIOUS
    <3>1. Cardinality(D) \in Nat /\ Cardinality(D \ {x}) = Cardinality(D) - 1
      BY <1>1, <1>2
    <3> QED BY <3>1, <1>7
  <2>3. \A D \in Upto(n + 1) : \A x \in D : f[D \ {x}] \in V /\ w[D \ {x}] = f[D \ {x}]
    <3> HIDE DEF V, Upto
    <3> QED BY <2>1, <2>2
  <2>4. \A D \in Upto(n + 1) : D \in SUBSET S /\ B(w, D) = B(f, D) /\ B(f, D) \in V
    <3> SUFFICES ASSUME NEW D \in Upto(n + 1)
                 PROVE  D \in SUBSET S /\ B(w, D) = B(f, D) /\ B(f, D) \in V
      OBVIOUS
    <3>1. D \in SUBSET S
      OBVIOUS
    <3>2. \A x \in D : f[D \ {x}] \in V /\ w[D \ {x}] = f[D \ {x}]
      BY <2>3
    <3> HIDE DEF w, V, Upto
    <3> QED BY <3>1, <3>2, <1>4, <1>5
  <2>5. w \in [Upto(n + 1) -> V]
    <3> HIDE DEF V, Upto
    <3> QED BY <2>1, <2>4
  <2>6. \A D \in Upto(n + 1) : w[D] = B(w, D)
    <3> HIDE DEF V, Upto
    <3> QED BY <2>1, <2>4
  <2>7. Is(n + 1)
    <3> HIDE DEF w, V, Upto
    <3> QED BY <2>5, <2>6
  <2> HIDE DEF Is
  <2> QED BY <1>1, <1>7, <2>7
<1>8. N \in T
  <2> HIDE DEF T, N
  <2>1. \A n \in 0 .. N : n \in T
    BY <1>1, <1>6, <1>7, Inducts
  <2> QED BY <1>1, <2>1
<1>9. PICK f \in [Upto(N) -> V] : \A D \in Upto(N) : f[D] = B(f, D)
  BY <1>8
<1>10. Upto(N) = SUBSET S
  BY <1>1
<1>11. f = [D \in SUBSET S |-> B(f, D)]
  <2> HIDE DEF B, V, Upto
  <2>1. f \in [SUBSET S -> V] /\ \A D \in SUBSET S : f[D] = B(f, D)
    BY <1>9, <1>10
  <2>2. f = [D \in SUBSET S |-> f[D]]
    BY <2>1
  <2> QED BY <2>1, <2>2
<1> QED BY <1>9, <1>10, <1>11 DEF AdmLoop

-----------------------------------------------------------------------------
\* ---- the assignments that only take away ----

\* A method may leave everything as it is.
LEMMA AdmShrunkSelf == ASSUME NEW o PROVE AdmShrunk(o, o) /\ AdmLocal(o, o) /\ AdmKept(o, o)
BY DEF AdmShrunk, AdmKept, AdmLocal

\* Nothing grows in two steps of which neither adds anything.
LEMMA AdmShrunkOn ==
  ASSUME NEW o, NEW p, NEW q, AdmShrunk(o, p), AdmShrunk(p, q)
  PROVE  AdmShrunk(o, q)
BY DEF AdmShrunk

\* Two steps that keep what lifecycle holds at rest keep it together.
LEMMA AdmKeptOn ==
  ASSUME NEW o, NEW p, NEW q, AdmKept(o, p), AdmKept(p, q)
  PROVE  AdmKept(o, q)
BY AdmShrunkOn DEF AdmKept

\* A fault is counted, nothing else.
LEMMA AdmFaultedIs ==
  ASSUME NEW o \in AdmOwner, o.faults < AdmMaxFaults
  PROVE  /\ Faulted(o) \in AdmOwner
         /\ AdmPlain(o) => AdmPlain(Faulted(o))
         /\ AdmIndexed(o) => AdmIndexed(Faulted(o))
         /\ AdmShrunk(o, Faulted(o)) /\ AdmLocal(o, Faulted(o)) /\ AdmKept(o, Faulted(o))
         /\ Faulted(o).recovery = o.recovery /\ Faulted(o).activated = o.activated
         /\ Faulted(o).rows = o.rows /\ Faulted(o).dependencies = o.dependencies
         /\ Faulted(o).state = o.state
<1>1. Faulted(o) \in AdmOwner
  BY AdmBoundAssumption DEF Faulted, AdmOwner
<1>2. /\ Faulted(o).flows = o.flows /\ Faulted(o).smac = o.smac /\ Faulted(o).hop = o.hop
      /\ Faulted(o).rows = o.rows /\ Faulted(o).paths = o.paths /\ Faulted(o).saved = o.saved
      /\ Faulted(o).state = o.state /\ Faulted(o).activated = o.activated
      /\ Faulted(o).dependencies = o.dependencies /\ Faulted(o).recovery = o.recovery
      /\ Faulted(o).producer = o.producer /\ Faulted(o).leases = o.leases
  BY DEF Faulted, AdmOwner
<1> DEFINE p == Faulted(o)
<1> HIDE DEF p
<1>3. /\ p.flows = o.flows /\ p.smac = o.smac /\ p.hop = o.hop /\ p.rows = o.rows /\ p.paths = o.paths
      /\ p.saved = o.saved /\ p.state = o.state /\ p.activated = o.activated
      /\ p.dependencies = o.dependencies /\ p.recovery = o.recovery
      /\ p.producer = o.producer /\ p.leases = o.leases
  BY <1>2 DEF p
<1>4. p \in AdmOwner
  BY <1>1 DEF p
<1>5. AdmPlain(o) => AdmPlain(p)
  <2>1. AdmWired(o) => AdmWired(p)
    BY <1>3 DEF AdmWired
  <2>2. AdmBound(o) => AdmBound(p)
    BY <1>3 DEF AdmBound
  <2>3. AdmAgree(o) => AdmAgree(p)
    BY <1>3 DEF AdmAgree
  <2>4. AdmCurrent(o) => AdmCurrent(p)
    BY <1>3 DEF AdmCurrent
  <2> QED BY <1>4, <2>1, <2>2, <2>3, <2>4 DEF AdmPlain
<1>6. AdmIndexed(o) => AdmIndexed(p)
  BY <1>3 DEF AdmIndexed
<1>7. AdmShrunk(o, p) /\ AdmLocal(o, p)
  BY <1>3 DEF AdmShrunk, AdmLocal
<1>8. AdmKept(o, p)
  BY <1>3, <1>7 DEF AdmKept, AdmLeased, AdmDriven
<1> QED BY <1>3, <1>4, <1>5, <1>6, <1>7, <1>8 DEF p

\* SessionManager forgets a session and its entry.
LEMMA AdmWithoutRowIs ==
  ASSUME NEW o, AdmPlain(o), NEW s \in AdmSid
  PROVE  /\ AdmPlain(WithoutRow(o, s)) /\ AdmLocal(o, WithoutRow(o, s)) /\ AdmKept(o, WithoutRow(o, s))
         /\ WithoutRow(o, s).rows[s] = None /\ WithoutRow(o, s).recovery = o.recovery
         /\ WithoutRow(o, s).dependencies = o.dependencies
         /\ \A x \in AdmSid : x # s => WithoutRow(o, s).rows[x] = o.rows[x]
<1> DEFINE p == WithoutRow(o, s)
<1>1. o \in AdmOwner
  BY DEF AdmPlain
<1>2. p \in AdmOwner
  BY <1>1 DEF WithoutRow, AdmOwner
<1>3. /\ p.flows = o.flows \ {s} /\ p.smac = o.smac /\ p.hop = o.hop
      /\ p.rows = [o.rows EXCEPT ![s] = None] /\ p.paths = o.paths /\ p.saved = o.saved
      /\ p.state = o.state /\ p.activated = o.activated
      /\ p.dependencies = o.dependencies /\ p.recovery = o.recovery
      /\ p.producer = o.producer /\ p.leases = o.leases
  BY <1>1 DEF WithoutRow, AdmOwner
<1>4. o.rows \in [AdmSid -> AdmRow \cup {None}] /\ o.flows \subseteq AdmSid
  BY <1>1 DEF AdmOwner
<1>5. p.rows[s] = None /\ \A x \in AdmSid : x # s => p.rows[x] = o.rows[x]
  BY <1>3, <1>4
<1> HIDE DEF p
<1>6. AdmWired(p)
  BY <1>3, <1>4, <1>5 DEF AdmWired, AdmPlain
<1>7. AdmPlain(p)
  BY <1>2, <1>3, <1>5, <1>6 DEF AdmPlain, AdmBound, AdmAgree, AdmCurrent
<1>8. AdmLocal(o, p) /\ AdmKept(o, p)
  BY <1>3, <1>5 DEF AdmLocal, AdmKept, AdmShrunk, AdmLeased, AdmDriven
<1> QED BY <1>3, <1>5, <1>7, <1>8 DEF p

\* A state that differs from o in nothing its table rests on.
LEMMA AdmLess ==
  ASSUME NEW o, AdmPlain(o), NEW p \in AdmOwner,
         p.flows \subseteq o.flows, p.rows = o.rows, p.hop = o.hop, p.smac = o.smac,
         p.state = o.state, p.saved = o.saved, p.activated => o.activated,
         \A s \in AdmSid : p.dependencies[s] = None \/ p.dependencies[s] = o.dependencies[s]
  PROVE  AdmPlain(p)
<1>1. AdmWired(p)
  BY DEF AdmPlain, AdmWired
<1>2. AdmBound(p)
  BY DEF AdmPlain, AdmBound
<1>3. AdmAgree(p)
  BY DEF AdmPlain, AdmAgree
<1>4. AdmCurrent(p)
  BY DEF AdmPlain, AdmCurrent
<1> QED BY <1>1, <1>2, <1>3, <1>4 DEF AdmPlain

\* The elementary changes of the policy owner and of the session owner.

\* SessionManager demands recovery.
LEMMA AdmSuspectIs ==
  ASSUME NEW o, AdmPlain(o)
  PROVE  LET p == Suspect(o)
         IN  /\ AdmPlain(p) /\ p.faults = o.faults
             /\ AdmLocal(o, p)
             /\ AdmKept(o, p)
             /\ AdmGood(p)
             /\ p.recovery = TRUE
             /\ p.rows = o.rows
<1> DEFINE p == Suspect(o)
<1>1. o \in AdmOwner
  BY DEF AdmPlain
<1>2. p \in AdmOwner
  BY <1>1 DEF AdmOwner, Suspect
<1>3. /\ p.flows = o.flows
      /\ p.smac = o.smac
      /\ p.hop = o.hop
      /\ p.rows = o.rows
      /\ p.paths = o.paths
      /\ p.saved = o.saved
      /\ p.state = o.state
      /\ p.activated = o.activated
      /\ p.dependencies = o.dependencies
      /\ p.pathRecovery = o.pathRecovery
      /\ p.producer = o.producer
      /\ p.leases = o.leases
      /\ p.faults = o.faults
      /\ p.recovery = TRUE
  BY <1>1 DEF AdmOwner, Suspect
<1> HIDE DEF p
<1>4. AdmPlain(p)
  BY <1>2, <1>3, AdmLess
<1>5. AdmLocal(o, p) /\ AdmKept(o, p)
  BY <1>1, <1>3 DEF AdmLocal, AdmKept, AdmShrunk, AdmLeased, AdmDriven, AdmOwner
<1> QED BY <1>3, <1>4, <1>5 DEF AdmGood, AdmIndexed, p

\* An entry leaves the table before its row does.
LEMMA AdmWithoutFlowIs ==
  ASSUME NEW o, AdmPlain(o), NEW s
  PROVE  LET p == WithoutFlow(o, s)
         IN  /\ AdmPlain(p) /\ p.faults = o.faults
             /\ AdmLocal(o, p)
             /\ AdmKept(o, p)
             /\ p.recovery = o.recovery
             /\ p.rows = o.rows
             /\ AdmIndexed(o) => AdmGood(p)
<1> DEFINE p == WithoutFlow(o, s)
<1>1. o \in AdmOwner
  BY DEF AdmPlain
<1>2. p \in AdmOwner
  BY <1>1 DEF AdmOwner, WithoutFlow
<1>3. /\ p.smac = o.smac
      /\ p.hop = o.hop
      /\ p.rows = o.rows
      /\ p.paths = o.paths
      /\ p.saved = o.saved
      /\ p.state = o.state
      /\ p.activated = o.activated
      /\ p.dependencies = o.dependencies
      /\ p.recovery = o.recovery
      /\ p.pathRecovery = o.pathRecovery
      /\ p.producer = o.producer
      /\ p.leases = o.leases
      /\ p.faults = o.faults
      /\ p.flows = o.flows \ {s}
  BY <1>1 DEF AdmOwner, WithoutFlow
<1> HIDE DEF p
<1>4. AdmPlain(p)
  BY <1>2, <1>3, AdmLess
<1>5. AdmLocal(o, p) /\ AdmKept(o, p)
  BY <1>1, <1>3 DEF AdmLocal, AdmKept, AdmShrunk, AdmLeased, AdmDriven, AdmOwner
<1> QED BY <1>3, <1>4, <1>5 DEF AdmGood, AdmIndexed, p

\* PolicyOwner disables admission.
LEMMA AdmDeactivateIs ==
  ASSUME NEW o, AdmPlain(o)
  PROVE  LET p == Deactivate(o)
         IN  /\ AdmPlain(p) /\ p.faults = o.faults
             /\ AdmLocal(o, p)
             /\ AdmKept(o, p)
             /\ p.activated = FALSE
             /\ p.rows = o.rows
             /\ p.state = o.state
             /\ p.recovery = o.recovery
             /\ p.dependencies = o.dependencies
             /\ AdmIndexed(o) => AdmGood(p)
<1> DEFINE p == Deactivate(o)
<1>1. o \in AdmOwner
  BY DEF AdmPlain
<1>2. p \in AdmOwner
  BY <1>1 DEF AdmOwner, Deactivate
<1>3. /\ p.flows = o.flows
      /\ p.smac = o.smac
      /\ p.hop = o.hop
      /\ p.rows = o.rows
      /\ p.paths = o.paths
      /\ p.saved = o.saved
      /\ p.state = o.state
      /\ p.dependencies = o.dependencies
      /\ p.recovery = o.recovery
      /\ p.pathRecovery = o.pathRecovery
      /\ p.producer = o.producer
      /\ p.leases = o.leases
      /\ p.faults = o.faults
      /\ p.activated = FALSE
  BY <1>1 DEF AdmOwner, Deactivate
<1> HIDE DEF p
<1>4. AdmPlain(p)
  BY <1>2, <1>3, AdmLess
<1>5. AdmLocal(o, p) /\ AdmKept(o, p)
  BY <1>1, <1>3 DEF AdmLocal, AdmKept, AdmShrunk, AdmLeased, AdmDriven, AdmOwner
<1> QED BY <1>3, <1>4, <1>5 DEF AdmGood, AdmIndexed, p

\* PolicyOwner forgets which path every session uses.
LEMMA AdmClearedIs ==
  ASSUME NEW o, AdmPlain(o)
  PROVE  LET p == ClearDependencies(o)
         IN  /\ AdmPlain(p) /\ p.faults = o.faults
             /\ AdmLocal(o, p)
             /\ AdmKept(o, p)
             /\ AdmGood(p)
             /\ p.rows = o.rows
             /\ p.state = o.state
             /\ p.recovery = o.recovery
             /\ p.activated = o.activated
             /\ p.dependencies = [s \in AdmSid |-> None]
<1> DEFINE p == ClearDependencies(o)
<1>1. o \in AdmOwner
  BY DEF AdmPlain
<1>2. p \in AdmOwner
  BY <1>1 DEF AdmOwner, ClearDependencies
<1>3. /\ p.flows = o.flows
      /\ p.smac = o.smac
      /\ p.hop = o.hop
      /\ p.rows = o.rows
      /\ p.paths = o.paths
      /\ p.saved = o.saved
      /\ p.state = o.state
      /\ p.activated = o.activated
      /\ p.recovery = o.recovery
      /\ p.pathRecovery = o.pathRecovery
      /\ p.producer = o.producer
      /\ p.leases = o.leases
      /\ p.faults = o.faults
      /\ p.dependencies = [s \in AdmSid |-> None]
  BY <1>1 DEF AdmOwner, ClearDependencies
<1> HIDE DEF p
<1>4. AdmPlain(p)
  BY <1>2, <1>3, AdmLess
<1>5. AdmLocal(o, p) /\ AdmKept(o, p)
  BY <1>1, <1>3 DEF AdmLocal, AdmKept, AdmShrunk, AdmLeased, AdmDriven, AdmOwner
<1> QED BY <1>3, <1>4, <1>5 DEF AdmGood, AdmIndexed, p

\* PolicyOwner forgets the path of a session that is gone.
LEMMA AdmPrunedIs ==
  ASSUME NEW o, AdmPlain(o)
  PROVE  LET p == Prune(o)
         IN  /\ AdmPlain(p) /\ p.faults = o.faults
             /\ AdmLocal(o, p)
             /\ AdmKept(o, p)
             /\ AdmGood(p)
             /\ p.rows = o.rows
             /\ p.state = o.state
             /\ p.recovery = o.recovery
             /\ p.activated = o.activated
<1> DEFINE p == Prune(o)
<1>1. o \in AdmOwner
  BY DEF AdmPlain
<1>2. p \in AdmOwner
  BY <1>1 DEF AdmOwner, Prune
<1>3. /\ p.flows = o.flows
      /\ p.smac = o.smac
      /\ p.hop = o.hop
      /\ p.rows = o.rows
      /\ p.paths = o.paths
      /\ p.saved = o.saved
      /\ p.state = o.state
      /\ p.activated = o.activated
      /\ p.recovery = o.recovery
      /\ p.pathRecovery = o.pathRecovery
      /\ p.producer = o.producer
      /\ p.leases = o.leases
      /\ p.faults = o.faults
      /\ p.dependencies = [s \in AdmSid |-> IF o.rows[s] = None THEN None ELSE o.dependencies[s]]
  BY <1>1 DEF AdmOwner, Prune
<1> HIDE DEF p
<1>4. AdmPlain(p)
  BY <1>2, <1>3, AdmLess
<1>5. AdmLocal(o, p) /\ AdmKept(o, p)
  BY <1>1, <1>3 DEF AdmLocal, AdmKept, AdmShrunk, AdmLeased, AdmDriven, AdmOwner
<1> QED BY <1>3, <1>4, <1>5 DEF AdmGood, AdmIndexed, p

\* PolicyOwner forgets the path of one session.
LEMMA AdmForgetIs ==
  ASSUME NEW o, AdmPlain(o), NEW s \in AdmSid
  PROVE  LET p == [o EXCEPT !.dependencies[s] = None]
         IN  /\ AdmPlain(p) /\ p.faults = o.faults
             /\ AdmLocal(o, p)
             /\ AdmKept(o, p)
             /\ p.rows = o.rows
             /\ p.recovery = o.recovery
             /\ p.dependencies[s] = None
             /\ (~o.recovery => \A x \in AdmSid : x # s /\ o.dependencies[x] # None => o.rows[x] # None) => AdmGood(p)
<1> DEFINE p == [o EXCEPT !.dependencies[s] = None]
<1>1. o \in AdmOwner
  BY DEF AdmPlain
<1>2. p \in AdmOwner
  BY <1>1 DEF AdmOwner
<1>3. /\ p.flows = o.flows
      /\ p.smac = o.smac
      /\ p.hop = o.hop
      /\ p.rows = o.rows
      /\ p.paths = o.paths
      /\ p.saved = o.saved
      /\ p.state = o.state
      /\ p.activated = o.activated
      /\ p.recovery = o.recovery
      /\ p.pathRecovery = o.pathRecovery
      /\ p.producer = o.producer
      /\ p.leases = o.leases
      /\ p.faults = o.faults
      /\ p.dependencies = [o.dependencies EXCEPT ![s] = None]
  BY <1>1 DEF AdmOwner
<1> HIDE DEF p
<1>6. p.dependencies[s] = None /\ \A x \in AdmSid : x # s => p.dependencies[x] = o.dependencies[x]
  <2>1. DOMAIN o.dependencies = AdmSid
    BY <1>1 DEF AdmOwner
  <2> QED BY <1>3, <2>1
<1>4. AdmPlain(p)
  <2>1. \A x \in AdmSid : p.dependencies[x] = None \/ p.dependencies[x] = o.dependencies[x]
    BY <1>6
  <2> QED BY <1>2, <1>3, <2>1, AdmLess
<1>5. AdmLocal(o, p) /\ AdmKept(o, p)
  BY <1>1, <1>3, <1>6 DEF AdmLocal, AdmKept, AdmShrunk, AdmLeased, AdmDriven, AdmOwner
<1> QED BY <1>3, <1>4, <1>5, <1>6 DEF AdmGood, AdmIndexed, p

\* SessionManager has recovered.
LEMMA AdmRecoveredIs ==
  ASSUME NEW o, AdmPlain(o)
  PROVE  LET p == [o EXCEPT !.recovery = FALSE]
         IN  /\ AdmPlain(p) /\ p.faults = o.faults
             /\ AdmLocal(o, p)
             /\ AdmKept(o, p)
             /\ p.rows = o.rows
             /\ p.recovery = FALSE
             /\ p.activated = o.activated
             /\ p.state = o.state
<1> DEFINE p == [o EXCEPT !.recovery = FALSE]
<1>1. o \in AdmOwner
  BY DEF AdmPlain
<1>2. p \in AdmOwner
  BY <1>1 DEF AdmOwner
<1>3. /\ p.flows = o.flows
      /\ p.smac = o.smac
      /\ p.hop = o.hop
      /\ p.rows = o.rows
      /\ p.paths = o.paths
      /\ p.saved = o.saved
      /\ p.state = o.state
      /\ p.activated = o.activated
      /\ p.dependencies = o.dependencies
      /\ p.pathRecovery = o.pathRecovery
      /\ p.producer = o.producer
      /\ p.leases = o.leases
      /\ p.faults = o.faults
      /\ p.recovery = FALSE
  BY <1>1 DEF AdmOwner
<1> HIDE DEF p
<1>4. AdmPlain(p)
  BY <1>2, <1>3, AdmLess
<1>5. AdmLocal(o, p) /\ AdmKept(o, p)
  BY <1>1, <1>3 DEF AdmLocal, AdmKept, AdmShrunk, AdmLeased, AdmDriven, AdmOwner
<1> QED BY <1>3, <1>4, <1>5 DEF AdmGood, AdmIndexed, p

-----------------------------------------------------------------------------
\* ---- removal and recovery ----

\* Two steps of the policy owner leave paths and leases alone.
LEMMA AdmLocalSteps ==
  ASSUME NEW o, NEW p, NEW q, AdmLocal(o, p), AdmLocal(p, q)
  PROVE  AdmLocal(o, q)
BY DEF AdmLocal

\* A faulted outcome keeps what the state it left had.
LEMMA AdmFaultOut ==
  ASSUME NEW o, NEW R, NEW r \in AdmFault(o, R)
  PROVE  o.faults < AdmMaxFaults /\ r \in R
BY DEF AdmFault

\* However the removal of a session ends: done, or due for recovery.
LEMMA AdmRemoveOut ==
  ASSUME NEW o, AdmPlain(o), NEW s \in AdmSid, NEW r \in AdmRemove(o, s)
  PROVE  /\ AdmPlain(r.o) /\ AdmLocal(o, r.o) /\ AdmKept(o, r.o) /\ r \in AdmOuts(AdmOwner)
         /\ r.end = "ok" => /\ r.o.rows[s] = None /\ r.o.recovery = o.recovery
                            /\ r.o.dependencies = o.dependencies
                            /\ \A x \in AdmSid : x # s => r.o.rows[x] = o.rows[x]
         /\ r.end # "ok" => (AdmIndexed(o) => AdmIndexed(r.o))
         /\ o.recovery => r.o.recovery
<1>1. CASE r = AdmOut(WithoutRow(o, s), "ok")
  <2>1. r.o = WithoutRow(o, s) /\ r.end = "ok" /\ r = [o |-> r.o, end |-> r.end]
    BY <1>1 DEF AdmOut
  <2>2. r.o \in AdmOwner
    BY <2>1, AdmWithoutRowIs DEF AdmPlain
  <2>3. r \in AdmOuts(AdmOwner)
    BY <2>1, <2>2 DEF AdmOuts, AdmEnds
  <2> QED BY <2>1, <2>3, AdmWithoutRowIs
<1>2. CASE \E p \in {o, WithoutFlow(o, s)} : o.faults < AdmMaxFaults /\ r \in {AdmFail(Suspect(p)), AdmStop(p)}
  <2>1. PICK p \in {o, WithoutFlow(o, s)} : o.faults < AdmMaxFaults /\ r \in {AdmFail(Suspect(p)), AdmStop(p)}
    BY <1>2
  <2>2. /\ AdmPlain(p) /\ AdmLocal(o, p) /\ AdmKept(o, p) /\ p.faults = o.faults /\ p.recovery = o.recovery
        /\ AdmIndexed(o) => AdmIndexed(p)
    BY AdmWithoutFlowIs, AdmShrunkSelf DEF AdmGood
  <2>3. PICK q \in {p, Suspect(p)} : r.o = Faulted(q) /\ r.end # "ok" /\ r.end \in AdmEnds /\ r = [o |-> r.o, end |-> r.end]
    BY <2>1 DEF AdmFail, AdmStop, AdmOut, AdmEnds
  <2>4. /\ AdmPlain(q) /\ AdmLocal(p, q) /\ AdmKept(p, q) /\ q.faults = p.faults
        /\ AdmIndexed(p) => AdmIndexed(q)
        /\ p.recovery => q.recovery
    BY <2>2, AdmSuspectIs, AdmShrunkSelf DEF AdmGood
  <2>5. q \in AdmOwner /\ q.faults < AdmMaxFaults
    BY <2>1, <2>2, <2>4 DEF AdmPlain
  <2>6. /\ AdmPlain(r.o) /\ AdmLocal(q, r.o) /\ AdmKept(q, r.o) /\ r.o.recovery = q.recovery
        /\ AdmIndexed(q) => AdmIndexed(r.o)
    BY <2>3, <2>4, <2>5, AdmFaultedIs
  <2>7. AdmLocal(o, r.o) /\ AdmKept(o, r.o)
    BY <2>2, <2>4, <2>6, AdmLocalSteps, AdmKeptOn
  <2>8. r \in AdmOuts(AdmOwner)
    BY <2>3, <2>6 DEF AdmOuts, AdmPlain
  <2> QED BY <2>2, <2>3, <2>4, <2>6, <2>7, <2>8
<1>3. r \in Ok(WithoutRow(o, s)) \/ r \in AdmFault(o, UNION {{AdmFail(Suspect(p)), AdmStop(p)} : p \in {o, WithoutFlow(o, s)}})
  BY DEF AdmRemove
<1> QED BY <1>1, <1>2, <1>3, AdmFaultOut DEF Ok

\* What the sessions' recovery goes through.
AdmRecovering(o) == {p \in AdmOwner : AdmPlain(p) /\ p.recovery /\ AdmLocal(o, p) /\ AdmKept(o, p)}

\* A recovery that completes leaves no row and demands no other one.
LEMMA AdmRecoverOut ==
  ASSUME NEW o, AdmPlain(o), NEW r \in AdmRecover(o)
  PROVE  /\ AdmPlain(r.o) /\ AdmLocal(o, r.o) /\ AdmKept(o, r.o) /\ r \in AdmOuts(AdmOwner)
         /\ r.end = "ok" => ~r.o.recovery /\ \A s \in AdmSid : r.o.rows[s] = None
         /\ r.end # "ok" => AdmGood(r.o)
<1> DEFINE S == AdmHeld(o.rows)
           St == AdmRecovering(o)
           b == Suspect(o)
           After(f, D, x) == UNION {IF q.end = "ok" THEN AdmRemove(q.o, x) ELSE {q} : q \in f[D \ {x}]}
           Is(f) == f = [D \in SUBSET S |-> IF D = {} THEN Ok(b) ELSE UNION {After(f, D, x) : x \in D}]
           J == [D \in SUBSET S |-> {q \in AdmOuts(St) : q.end = "ok" => \A x \in D : q.o.rows[x] = None}]
           F == CHOOSE f : Is(f)
<1>1. S \subseteq AdmSid /\ IsFiniteSet(S) /\ DOMAIN o.rows = AdmSid
  <2>1. o.rows \in [AdmSid -> AdmRow \cup {None}]
    BY DEF AdmPlain, AdmOwner
  <2> QED BY <2>1, AdmFiniteAssumption, FS_Subset DEF AdmHeld
<1>2. b \in St
  BY AdmSuspectIs DEF AdmRecovering, AdmPlain
<1>3. ASSUME NEW p \in St, NEW x \in S, NEW q \in AdmRemove(p, x)
      PROVE  /\ q \in AdmOuts(St)
             /\ q.end = "ok" => q.o.rows[x] = None /\ \A y \in AdmSid : p.rows[y] = None => q.o.rows[y] = None
  <2>1. AdmPlain(p) /\ p.recovery /\ AdmLocal(o, p) /\ AdmKept(o, p) /\ x \in AdmSid
    BY <1>1 DEF AdmRecovering
  <2>2. /\ AdmPlain(q.o) /\ AdmLocal(p, q.o) /\ AdmKept(p, q.o) /\ q \in AdmOuts(AdmOwner) /\ q.o.recovery
        /\ q.end = "ok" => q.o.rows[x] = None
    BY <2>1, AdmRemoveOut
  <2>3. AdmLocal(o, q.o) /\ AdmKept(o, q.o)
    BY <2>1, <2>2, AdmLocalSteps, AdmKeptOn
  <2>4. q \in AdmOuts(St)
    BY <2>2, <2>3 DEF AdmOuts, AdmRecovering
  <2> QED BY <2>2, <2>4 DEF AdmKept, AdmShrunk
<1> HIDE DEF St, b
<1>4. \E f : Is(f)
  <2> DEFINE g == [a \in St \X S |-> AdmRemove(a[1], a[2])]
  <2>1. g \in [St \X S -> SUBSET AdmOuts(St)] /\ \A p \in St, x \in S : g[<<p, x>>] = AdmRemove(p, x)
    <3> HIDE DEF S
    <3> QED BY <1>3
  <2>2. PICK f \in [SUBSET S -> SUBSET AdmOuts(St)] : AdmLoop(g, b, S, f)
    <3> HIDE DEF S, g
    <3> QED BY <1>1, <1>2, <2>1, AdmLoopExists
  <2> HIDE DEF g
  <2> DEFINE U(D, x) == UNION {IF q.end = "ok" THEN g[<<q.o, x>>] ELSE {q} : q \in f[D \ {x}]}
  <2>3. ASSUME NEW D \in SUBSET S, NEW x \in D PROVE U(D, x) = After(f, D, x)
    <3>1. \A q \in f[D \ {x}] : q.o \in St
      BY <2>2 DEF AdmOuts
    <3>2. x \in S
      OBVIOUS
    <3>3. \A q \in f[D \ {x}] : (IF q.end = "ok" THEN g[<<q.o, x>>] ELSE {q}) = (IF q.end = "ok" THEN AdmRemove(q.o, x) ELSE {q})
      <4> HIDE DEF S
      <4> QED BY <2>1, <3>1, <3>2
    <3> HIDE DEF S
    <3> QED BY <3>3
  <2>4. f = [D \in SUBSET S |-> IF D = {} THEN Ok(b) ELSE UNION {U(D, x) : x \in D}]
    BY <2>2 DEF AdmLoop
  <2>5. \A D \in SUBSET S : UNION {U(D, x) : x \in D} = UNION {After(f, D, x) : x \in D}
    <3> HIDE DEF U, S, After
    <3> QED BY <2>3
  <2>6. Is(f)
    <3> HIDE DEF U, S, After
    <3> QED BY <2>4, <2>5
  <2> HIDE DEF Is
  <2> QED BY <2>6
<1>5. Is(F)
  <2> HIDE DEF Is
  <2> QED BY <1>4
<1>6. F = [D \in SUBSET S |-> IF D = {} THEN Ok(b) ELSE UNION {After(F, D, x) : x \in D}]
  <2> HIDE DEF F
  <2> QED BY <1>5
<1>7. Each(b, S, AdmRemove) = F[S]
  BY DEF Each, Then
<1> HIDE DEF F
<1>8. F[{}] \subseteq J[{}]
  BY <1>2, <1>6 DEF Ok, AdmOut, AdmOuts, AdmEnds
<1>9. ASSUME NEW D \in SUBSET S, D # {}, \A x \in D : F[D \ {x}] \subseteq J[D \ {x}]
      PROVE  F[D] \subseteq J[D]
  <2> SUFFICES ASSUME NEW q \in F[D] PROVE q \in AdmOuts(St) /\ (q.end = "ok" => \A y \in D : q.o.rows[y] = None)
    OBVIOUS
  <2>1. PICK x \in D : q \in After(F, D, x)
    <3> HIDE DEF After, S
    <3>1. F[D] = UNION {After(F, D, x) : x \in D}
      BY <1>6, <1>9
    <3> QED BY <3>1
  <2>2. PICK e \in F[D \ {x}] : q \in (IF e.end = "ok" THEN AdmRemove(e.o, x) ELSE {e})
    BY <2>1
  <2>3. e \in AdmOuts(St) /\ (e.end = "ok" => \A y \in D \ {x} : e.o.rows[y] = None)
    BY <1>9
  <2>4. e.o \in St
    BY <2>3 DEF AdmOuts
  <2>5. CASE e.end = "ok"
    <3> HIDE DEF S
    <3> QED BY <1>1, <1>3, <2>2, <2>3, <2>4, <2>5
  <2>6. CASE e.end # "ok"
    BY <2>2, <2>3, <2>6
  <2> QED BY <2>5, <2>6
<1>10. F[S] \subseteq J[S]
  <2> HIDE DEF S, J
  <2> QED BY <1>1, <1>8, <1>9, AdmLoopInducts
<1>11. PICK q \in F[S] : r \in (IF q.end = "ok" THEN Ok([q.o EXCEPT !.recovery = FALSE]) ELSE {q})
  BY <1>7 DEF AdmRecover, Then, b
<1>12. q \in AdmOuts(St) /\ (q.end = "ok" => \A x \in S : q.o.rows[x] = None)
  BY <1>10, <1>11
<1>13. /\ AdmPlain(q.o) /\ q.o.recovery /\ AdmLocal(o, q.o) /\ AdmKept(o, q.o) /\ q.o \in AdmOwner
  BY <1>12 DEF AdmOuts, AdmRecovering, St
<1>14. CASE q.end = "ok"
  <2> DEFINE w == [q.o EXCEPT !.recovery = FALSE]
  <2>1. r = [o |-> w, end |-> "ok"]
    BY <1>11, <1>14 DEF Ok, AdmOut
  <2>2. AdmPlain(w) /\ AdmLocal(q.o, w) /\ AdmKept(q.o, w) /\ ~w.recovery /\ w.rows = q.o.rows
    BY <1>13, AdmRecoveredIs
  <2>3. \A x \in AdmSid : q.o.rows[x] = None
    BY <1>1, <1>12, <1>13, <1>14 DEF AdmHeld, AdmKept, AdmShrunk
  <2> HIDE DEF w
  <2>4. w \in AdmOwner
    BY <2>2 DEF AdmPlain
  <2>5. r.o = w /\ r.end = "ok" /\ r \in AdmOuts(AdmOwner)
    BY <2>1, <2>4 DEF AdmOuts, AdmEnds
  <2> QED BY <1>13, <2>2, <2>3, <2>5, AdmLocalSteps, AdmKeptOn
<1>15. CASE q.end # "ok"
  <2>1. r = q
    BY <1>11, <1>15
  <2> QED BY <1>12, <1>13, <1>15, <2>1 DEF AdmOuts, AdmGood, AdmIndexed
<1> QED BY <1>14, <1>15

-----------------------------------------------------------------------------
\* ---- the policy owner: what takes away ----

\* An outcome from o of a method of the whole stack, of the policy owner's.
AdmSound(o, r) == r \in AdmOuts(AdmOwner) /\ AdmGood(r.o) /\ AdmKept(o, r.o)

\* An outcome from o of a method of the policy owner.
AdmStep(o, r) == AdmSound(o, r) /\ AdmLocal(o, r.o)

\* No session, and no recovery due.
AdmEmpty(o) == ~o.recovery /\ \A s \in AdmSid : o.rows[s] = None

\* A sound method after a sound method.
LEMMA AdmSoundOn ==
  ASSUME NEW o, NEW q, NEW r, AdmSound(o, q), AdmSound(q.o, r)
  PROVE  AdmSound(o, r)
BY AdmKeptOn DEF AdmSound

\* One method of the policy owner after another.
LEMMA AdmStepOn ==
  ASSUME NEW o, NEW q, NEW r, AdmStep(o, q), AdmStep(q.o, r)
  PROVE  AdmStep(o, r)
BY AdmSoundOn, AdmLocalSteps DEF AdmStep

\* Returning or raising with the state as it is.
LEMMA AdmSelf ==
  ASSUME NEW o, AdmGood(o), NEW r, r \in Ok(o) \/ r \in AdmRaise(o)
  PROVE  AdmStep(o, r) /\ r.o = o /\ (r \in Ok(o) => r.end = "ok") /\ (r \in AdmRaise(o) => r.end = "raise")
<1>1. r.o = o /\ r = [o |-> r.o, end |-> r.end] /\ r.end \in AdmEnds
      /\ (r \in Ok(o) => r.end = "ok") /\ (r \in AdmRaise(o) => r.end = "raise")
  BY DEF Ok, AdmRaise, AdmOut, AdmEnds
<1>2. r \in AdmOuts(AdmOwner)
  BY <1>1 DEF AdmOuts, AdmGood, AdmPlain
<1> QED BY <1>1, <1>2, AdmShrunkSelf DEF AdmStep, AdmSound

\* An outcome that continues with w, where w is what a step leads to.
LEMMA AdmOkOf ==
  ASSUME NEW w, AdmGood(w), NEW r, NEW e, r = AdmOut(w, e), e \in AdmEnds
  PROVE  r.o = w /\ r.end = e /\ r \in AdmOuts(AdmOwner)
BY DEF AdmOut, AdmOuts, AdmGood, AdmPlain

\* The policy is saved, or blocked in memory when the save fails.
LEMMA AdmPersistOut ==
  ASSUME NEW o, AdmPlain(o), NEW new \in Policy, new.phase = "active" => new.att # None,
         ~o.activated \/ \A s \in AdmSid : o.rows[s] = None,
         NEW r \in Persist(o, new)
  PROVE  /\ AdmPlain(r.o) /\ AdmLocal(o, r.o) /\ AdmKept(o, r.o) /\ r \in AdmOuts(AdmOwner)
         /\ r.o.rows = o.rows /\ r.o.dependencies = o.dependencies /\ r.o.recovery = o.recovery
         /\ r.o.activated = o.activated
         /\ r.end = "ok" => r.o.state = new
<1>1. o \in AdmOwner
  BY DEF AdmPlain
<1>2. CASE r \in Ok([o EXCEPT !.saved = new, !.state = new])
  <2> DEFINE p == [o EXCEPT !.saved = new, !.state = new]
  <2>1. r.o = p /\ r = [o |-> p, end |-> "ok"]
    BY <1>2 DEF Ok, AdmOut
  <2>2. p \in AdmOwner
    BY <1>1 DEF AdmOwner
  <2>3. /\ p.flows = o.flows /\ p.smac = o.smac /\ p.hop = o.hop /\ p.rows = o.rows /\ p.paths = o.paths
        /\ p.saved = new /\ p.state = new /\ p.activated = o.activated /\ p.dependencies = o.dependencies
        /\ p.recovery = o.recovery /\ p.producer = o.producer /\ p.leases = o.leases
    BY <1>1 DEF AdmOwner
  <2> HIDE DEF p
  <2>4. AdmBound(p) /\ AdmWired(p) /\ AdmAgree(p) /\ AdmCurrent(p)
    BY <2>3 DEF AdmPlain, AdmBound, AdmWired, AdmAgree, AdmCurrent
  <2>5. AdmLocal(o, p) /\ AdmKept(o, p)
    BY <2>3 DEF AdmLocal, AdmKept, AdmShrunk, AdmLeased, AdmDriven
  <2>6. r \in AdmOuts(AdmOwner)
    BY <2>1, <2>2 DEF AdmOuts, AdmEnds
  <2> QED BY <2>1, <2>2, <2>3, <2>4, <2>5, <2>6 DEF AdmPlain
<1>3. CASE r \in AdmFault(o, {AdmFail([o EXCEPT !.state.phase = "blocked"]), AdmStop(o)})
  <2> DEFINE w == [o EXCEPT !.state.phase = "blocked"]
  <2>0. o.faults < AdmMaxFaults /\ r \in {AdmFail(w), AdmStop(o)}
    BY <1>3, AdmFaultOut
  <2>1. w \in AdmOwner /\ w.state = [o.state EXCEPT !.phase = "blocked"] /\ o.state \in Policy
    BY <1>1 DEF AdmOwner, Policy
  <2>2. /\ w.flows = o.flows /\ w.smac = o.smac /\ w.hop = o.hop /\ w.rows = o.rows /\ w.paths = o.paths
        /\ w.saved = o.saved /\ w.activated = o.activated /\ w.dependencies = o.dependencies
        /\ w.recovery = o.recovery /\ w.producer = o.producer /\ w.leases = o.leases /\ w.faults = o.faults
    BY <1>1 DEF AdmOwner
  <2> HIDE DEF w
  <2>3. w.state.phase = "blocked"
    BY <2>1 DEF Policy
  <2>4. AdmPlain(w)
    <3>1. AdmBound(w) /\ AdmCurrent(w)
      BY <2>2, <2>3 DEF AdmPlain, AdmBound, AdmCurrent
    <3>2. AdmWired(w) /\ AdmAgree(w)
      BY <2>2 DEF AdmPlain, AdmWired, AdmAgree
    <3> QED BY <2>1, <3>1, <3>2 DEF AdmPlain
  <2>5. AdmLocal(o, w) /\ AdmKept(o, w)
    BY <2>2 DEF AdmLocal, AdmKept, AdmShrunk, AdmLeased, AdmDriven
  <2>6. PICK q \in {o, w} : r.o = Faulted(q) /\ r.end # "ok" /\ r.end \in AdmEnds /\ r = [o |-> r.o, end |-> r.end]
    BY <2>0 DEF AdmFail, AdmStop, AdmOut, AdmEnds
  <2>7. /\ AdmPlain(q) /\ AdmLocal(o, q) /\ AdmKept(o, q) /\ q \in AdmOwner /\ q.faults < AdmMaxFaults
        /\ q.rows = o.rows /\ q.dependencies = o.dependencies /\ q.recovery = o.recovery /\ q.activated = o.activated
    BY <2>0, <2>2, <2>4, <2>5, <2>1, <1>1, AdmShrunkSelf
  <2>8. /\ AdmPlain(r.o) /\ AdmLocal(q, r.o) /\ AdmKept(q, r.o) /\ r.o.recovery = q.recovery /\ r.o.activated = q.activated
        /\ r.o.rows = q.rows /\ r.o.dependencies = q.dependencies
    BY <2>6, <2>7, AdmFaultedIs
  <2>9. r \in AdmOuts(AdmOwner)
    BY <2>6, <2>8 DEF AdmOuts, AdmPlain
  <2> QED BY <2>6, <2>7, <2>8, <2>9, AdmLocalSteps, AdmKeptOn
<1> QED BY <1>2, <1>3 DEF Persist

\* A drain that completes leaves no session.
LEMMA AdmDrainAsOut ==
  ASSUME NEW o, AdmGood(o), NEW new \in Policy, new.phase # "active", ~o.activated,
         NEW r \in DrainAs(o, new)
  PROVE  AdmStep(o, r) /\ (r.end = "ok" => AdmEmpty(r.o))
<1>0. AdmPlain(o)
  BY DEF AdmGood
<1>1. PICK a \in Then(Persist(o, new), AdmRecover) :
        r \in (IF a.end = "ok" THEN Persist(ClearDependencies(a.o), [a.o.state EXCEPT !.phase = "blocked"]) ELSE {a})
  BY DEF DrainAs, Then
<1>2. PICK b \in Persist(o, new) : a \in (IF b.end = "ok" THEN AdmRecover(b.o) ELSE {b})
  BY <1>1 DEF Then
<1>3. /\ AdmPlain(b.o) /\ AdmLocal(o, b.o) /\ AdmKept(o, b.o) /\ b \in AdmOuts(AdmOwner)
      /\ b.o.rows = o.rows /\ b.o.dependencies = o.dependencies /\ b.o.recovery = o.recovery
      /\ b.o.activated = o.activated
  BY <1>0, AdmPersistOut
<1>4. CASE b.end # "ok"
  <2>1. r = b
    BY <1>1, <1>2, <1>4
  <2> QED BY <1>3, <1>4, <2>1 DEF AdmStep, AdmSound, AdmGood, AdmIndexed
<1>5. CASE b.end = "ok"
  <2>1. /\ AdmPlain(a.o) /\ AdmLocal(b.o, a.o) /\ AdmKept(b.o, a.o) /\ a \in AdmOuts(AdmOwner)
        /\ a.end = "ok" => ~a.o.recovery /\ \A s \in AdmSid : a.o.rows[s] = None
        /\ a.end # "ok" => AdmGood(a.o)
    BY <1>2, <1>3, <1>5, AdmRecoverOut
  <2>2. AdmLocal(o, a.o) /\ AdmKept(o, a.o)
    BY <1>3, <2>1, AdmLocalSteps, AdmKeptOn
  <2>3. CASE a.end # "ok"
    BY <1>1, <2>1, <2>2, <2>3 DEF AdmStep, AdmSound
  <2>4. CASE a.end = "ok"
    <3> DEFINE c == ClearDependencies(a.o)
               end == [a.o.state EXCEPT !.phase = "blocked"]
    <3>1. /\ AdmPlain(c) /\ AdmLocal(a.o, c) /\ AdmKept(a.o, c) /\ AdmGood(c) /\ c.rows = a.o.rows
          /\ c.recovery = a.o.recovery
          /\ c.dependencies = [s \in AdmSid |-> None]
      BY <2>1, AdmClearedIs
    <3>2. end \in Policy /\ end.phase = "blocked"
      BY <2>1 DEF AdmPlain, AdmOwner, Policy
    <3>3. r \in Persist(c, end)
      BY <1>1, <2>4
    <3> HIDE DEF c, end
    <3>4. \A s \in AdmSid : c.rows[s] = None
      BY <2>1, <2>4, <3>1
    <3>5. /\ AdmPlain(r.o) /\ AdmLocal(c, r.o) /\ AdmKept(c, r.o) /\ r \in AdmOuts(AdmOwner)
          /\ r.o.rows = c.rows /\ r.o.dependencies = c.dependencies /\ r.o.recovery = c.recovery
      BY <3>1, <3>2, <3>3, <3>4, AdmPersistOut
    <3>6. AdmLocal(o, r.o) /\ AdmKept(o, r.o)
      BY <2>2, <3>1, <3>5, AdmLocalSteps, AdmKeptOn
    <3>7. AdmGood(r.o) /\ AdmEmpty(r.o)
      BY <2>1, <2>4, <3>1, <3>4, <3>5 DEF AdmGood, AdmIndexed, AdmEmpty
    <3> QED BY <3>5, <3>6, <3>7 DEF AdmStep, AdmSound
  <2> QED BY <2>3, <2>4
<1> QED BY <1>4, <1>5

\* A withdrawal that completes leaves no session.
LEMMA AdmWithdrawOut ==
  ASSUME NEW o, AdmGood(o), ~o.activated, NEW r \in AdmWithdraw(o)
  PROVE  AdmStep(o, r) /\ (r.end = "ok" => AdmEmpty(r.o))
<1> DEFINE new == [o.state EXCEPT !.phase = "draining", !.att = None]
<1>0. o \in AdmOwner /\ o.state \in Policy /\ DOMAIN o.rows = AdmSid /\ o.recovery \in BOOLEAN
  BY DEF AdmGood, AdmPlain, AdmOwner
<1>1. new \in Policy /\ new.phase # "active"
  BY <1>0 DEF Policy
<1>2. CASE r \in DrainAs(o, new)
  <2> HIDE DEF new
  <2> QED BY <1>1, <1>2, AdmDrainAsOut
<1>3. CASE r \in Ok(o) /\ AdmHeld(o.rows) = {} /\ ~o.recovery
  BY <1>0, <1>3, AdmSelf DEF AdmEmpty, AdmHeld
<1> QED BY <1>2, <1>3 DEF AdmWithdraw

\* PolicyOwner.reconcile: with admission disabled it leaves no session.
LEMMA AdmReconcileOut ==
  ASSUME NEW o, AdmGood(o), NEW r \in Reconcile(o)
  PROVE  AdmStep(o, r) /\ (r.end = "ok" /\ ~o.activated => AdmEmpty(r.o) /\ ~r.o.activated)
<1>1. o \in AdmOwner /\ AdmPlain(o)
  BY DEF AdmGood, AdmPlain
<1>2. /\ AdmGood(Prune(o)) /\ AdmLocal(o, Prune(o)) /\ AdmKept(o, Prune(o))
  BY <1>1, AdmPrunedIs
<1>3. CASE r \in Ok(Prune(o)) /\ o.activated
  <2>1. r.o = Prune(o) /\ AdmStep(Prune(o), r)
    BY <1>2, <1>3, AdmSelf
  <2> QED BY <1>2, <1>3, <2>1 DEF AdmStep, AdmSound
<1>4. CASE \E p \in {o, Prune(o)} : r \in AdmWithdraw(Deactivate(p))
  <2>1. PICK p \in {o, Prune(o)} : r \in AdmWithdraw(Deactivate(p))
    BY <1>4
  <2>2. AdmGood(p) /\ AdmLocal(o, p) /\ AdmKept(o, p)
    BY <1>2, AdmShrunkSelf
  <2> DEFINE d == Deactivate(p)
  <2>3. AdmGood(d) /\ AdmLocal(p, d) /\ AdmKept(p, d) /\ d.activated = FALSE
    BY <2>2, AdmDeactivateIs DEF AdmGood
  <2> HIDE DEF d
  <2>4. AdmStep(d, r) /\ (r.end = "ok" => AdmEmpty(r.o))
    BY <2>1, <2>3, AdmWithdrawOut DEF d
  <2>5. AdmLocal(o, r.o) /\ AdmKept(o, r.o)
    BY <2>2, <2>3, <2>4, AdmLocalSteps, AdmKeptOn DEF AdmStep, AdmSound
  <2> QED BY <2>3, <2>4, <2>5 DEF AdmStep, AdmSound, AdmKept, AdmShrunk
<1> QED BY <1>3, <1>4 DEF Reconcile

\* A revocation that completes has removed the session, then its dependency.
LEMMA AdmPolicyRevokeOut ==
  ASSUME NEW o, AdmGood(o), NEW s \in AdmSid, NEW r \in PolicyRevoke(o, s)
  PROVE  AdmStep(o, r) /\ (r.end = "ok" => r.o.rows[s] = None /\ r.o.dependencies[s] = None)
<1>1. PICK a \in If(o.rows[s] # None, LAMBDA p : AdmRemove(p, s), o) :
        r \in (IF a.end = "ok" THEN Ok([a.o EXCEPT !.dependencies[s] = None]) ELSE {a})
  BY DEF PolicyRevoke, Then
<1>2. /\ AdmPlain(a.o) /\ AdmLocal(o, a.o) /\ AdmKept(o, a.o) /\ a \in AdmOuts(AdmOwner)
      /\ a.end = "ok" => /\ a.o.rows[s] = None /\ a.o.recovery = o.recovery
                         /\ a.o.dependencies = o.dependencies
                         /\ \A x \in AdmSid : x # s => a.o.rows[x] = o.rows[x]
      /\ a.end # "ok" => AdmGood(a.o)
  <2>1. CASE o.rows[s] # None
    <3>1. a \in AdmRemove(o, s)
      BY <1>1, <2>1 DEF If
    <3> QED BY <3>1, AdmRemoveOut DEF AdmGood
  <2>2. CASE o.rows[s] = None
    <3>1. a \in Ok(o)
      BY <1>1, <2>2 DEF If
    <3> QED BY <3>1, <2>2, AdmSelf DEF AdmGood, AdmStep, AdmSound
  <2> QED BY <2>1, <2>2
<1>3. CASE a.end # "ok"
  BY <1>1, <1>2, <1>3 DEF AdmStep, AdmSound
<1>4. CASE a.end = "ok"
  <2> DEFINE p == [a.o EXCEPT !.dependencies[s] = None]
  <2>1. r.o = p /\ r = [o |-> p, end |-> "ok"]
    BY <1>1, <1>4 DEF Ok, AdmOut
  <2>2. ~a.o.recovery => \A x \in AdmSid : x # s /\ a.o.dependencies[x] # None => a.o.rows[x] # None
    BY <1>2, <1>4 DEF AdmGood, AdmIndexed
  <2>3. AdmGood(p) /\ AdmLocal(a.o, p) /\ AdmKept(a.o, p) /\ p.rows = a.o.rows /\ p.dependencies[s] = None
    BY <1>2, <2>2, AdmForgetIs
  <2> HIDE DEF p
  <2>4. r \in AdmOuts(AdmOwner)
    BY <2>1, <2>3 DEF AdmOuts, AdmEnds, AdmGood, AdmPlain
  <2>5. AdmLocal(o, p) /\ AdmKept(o, p)
    BY <1>2, <2>3, AdmLocalSteps, AdmKeptOn
  <2> QED BY <1>2, <1>4, <2>1, <2>3, <2>4, <2>5 DEF AdmStep, AdmSound
<1> QED BY <1>3, <1>4

\* No session uses path k any more.
AdmDrained(o, k) == o.rows[k[1]] # None => o.rows[k[1]].rev # k[2]

\* PathSessions.drain: no session uses the path once it returns.
LEMMA AdmDrainOut ==
  ASSUME NEW o, AdmGood(o), NEW k \in AdmKey, NEW r \in Drain(o, k)
  PROVE  AdmStep(o, r) /\ (r.end = "ok" => AdmDrained(r.o, k))
<1> DEFINE s == k[1]
           Unindexed(p) == p.recovery \/ AdmHeld(p.rows) \ AdmHeld(p.dependencies) # {}
           Mine(p) == p.dependencies[s] # None /\ p.dependencies[s].rev = k[2]
           R1 == If(Unindexed(o), LAMBDA p : Reconcile(Deactivate(p)), o)
           R2 == Then(R1, LAMBDA p : If(Mine(p), LAMBDA q : PolicyRevoke(q, s), p))
<1>0. s \in AdmSid
  BY DEF AdmKey
<1>1. PICK b \in R2 :
        r \in (IF b.end = "ok" THEN (IF b.o.recovery \/ Mine(b.o) THEN AdmRaise(b.o) ELSE Ok(b.o)) ELSE {b})
  BY DEF Drain, Then
<1>2. PICK a \in R1 : b \in (IF a.end = "ok" THEN If(Mine(a.o), LAMBDA q : PolicyRevoke(q, s), a.o) ELSE {a})
  BY <1>1 DEF Then
<1>3. AdmStep(o, a) /\ (a.end = "ok" => ~Unindexed(a.o) \/ AdmEmpty(a.o))
  <2>1. CASE Unindexed(o)
    <3> DEFINE d == Deactivate(o)
    <3>1. AdmGood(d) /\ AdmLocal(o, d) /\ AdmKept(o, d) /\ d.activated = FALSE
      BY AdmDeactivateIs DEF AdmGood
    <3>2. a \in Reconcile(d)
      BY <1>2, <2>1 DEF If
    <3> HIDE DEF d
    <3>3. AdmStep(d, a) /\ (a.end = "ok" => AdmEmpty(a.o))
      BY <3>1, <3>2, AdmReconcileOut
    <3>4. AdmLocal(o, a.o) /\ AdmKept(o, a.o)
      BY <3>1, <3>3, AdmLocalSteps, AdmKeptOn DEF AdmStep, AdmSound
    <3> QED BY <3>3, <3>4 DEF AdmStep, AdmSound
  <2>2. CASE ~Unindexed(o)
    <3>1. a \in Ok(o)
      BY <1>2, <2>2 DEF If
    <3> QED BY <2>2, <3>1, AdmSelf
  <2> QED BY <2>1, <2>2

\* What is not indexed is drained.
<1>4. a.end = "ok" /\ ~Mine(a.o) => AdmDrained(a.o, k)
  <2>1. AdmGood(a.o) /\ DOMAIN a.o.rows = AdmSid /\ DOMAIN a.o.dependencies = AdmSid
    BY <1>3 DEF AdmStep, AdmSound, AdmGood, AdmPlain, AdmOwner
  <2>2. CASE AdmEmpty(a.o)
    BY <1>0, <2>2 DEF AdmEmpty, AdmDrained
  <2>3. CASE ~Unindexed(a.o)
    BY <1>0, <2>1, <2>3 DEF AdmDrained, AdmHeld, AdmGood, AdmPlain, AdmAgree
  <2> QED BY <1>3, <2>2, <2>3
<1>5. CASE a.end # "ok"
  <2>1. b = a
    BY <1>2, <1>5
  <2>2. r = a
    BY <1>1, <1>5, <2>1
  <2> QED BY <1>3, <1>5, <2>2
<1>6. CASE a.end = "ok" /\ ~Mine(a.o)
  <2>1. b \in Ok(a.o)
    BY <1>2, <1>6 DEF If
  <2>2. b.o = a.o /\ b.end = "ok" /\ AdmGood(a.o)
    BY <1>3, <2>1, AdmSelf DEF AdmStep, AdmSound
  <2>3. r \in Ok(a.o) \/ r \in AdmRaise(a.o)
    BY <1>1, <2>2
  <2>4. AdmStep(a.o, r) /\ r.o = a.o
    BY <2>2, <2>3, AdmSelf
  <2> QED BY <1>3, <1>4, <1>6, <2>4, AdmStepOn
<1>7. CASE a.end = "ok" /\ Mine(a.o)
  <2>1. b \in PolicyRevoke(a.o, s)
    BY <1>2, <1>7 DEF If
  <2>2. AdmStep(a.o, b) /\ (b.end = "ok" => b.o.rows[s] = None)
    BY <1>0, <1>3, <2>1, AdmPolicyRevokeOut DEF AdmStep, AdmSound
  <2>3. AdmStep(o, b) /\ AdmGood(b.o)
    BY <1>3, <2>2, AdmStepOn DEF AdmStep, AdmSound
  <2>4. CASE b.end # "ok"
    BY <1>1, <2>3, <2>4
  <2>5. CASE b.end = "ok"
    <3>1. r \in Ok(b.o) \/ r \in AdmRaise(b.o)
      BY <1>1, <2>5
    <3>2. AdmStep(b.o, r) /\ r.o = b.o
      BY <2>3, <3>1, AdmSelf
    <3> QED BY <2>2, <2>3, <2>5, <3>2, AdmStepOn DEF AdmDrained
  <2> QED BY <2>4, <2>5
<1> QED BY <1>5, <1>6, <1>7

-----------------------------------------------------------------------------
\* ---- paths and their entries: what takes away ----

\* A write, or a transaction, that leads to a state a method may be in.
LEMMA AdmWriteOut ==
  ASSUME NEW o, AdmGood(o), NEW new, AdmGood(new), AdmKept(o, new), new.faults = o.faults, new.rows = o.rows,
         NEW r, r \in AdmWrite(o, new) \/ r \in AdmCommit(o, new)
  PROVE  AdmSound(o, r) /\ r.o.rows = o.rows /\ (r.end = "ok" => r.o = new)
<1>1. CASE r \in Ok(new)
  BY <1>1, AdmSelf DEF AdmStep, AdmSound
<1>2. CASE r \in AdmFault(o, {AdmFail(o), AdmFail(new), AdmStop(o), AdmStop(new)})
  <2>1. o.faults < AdmMaxFaults /\ r \in {AdmFail(o), AdmFail(new), AdmStop(o), AdmStop(new)}
    BY <1>2, AdmFaultOut
  <2>2. PICK q \in {o, new} : r.o = Faulted(q) /\ r.end # "ok" /\ r.end \in AdmEnds /\ r = [o |-> r.o, end |-> r.end]
    BY <2>1 DEF AdmFail, AdmStop, AdmOut, AdmEnds
  <2>3. AdmGood(q) /\ AdmKept(o, q) /\ q.faults < AdmMaxFaults /\ q \in AdmOwner /\ q.rows = o.rows
    BY <2>1, AdmShrunkSelf DEF AdmGood, AdmPlain
  <2>4. AdmGood(r.o) /\ AdmKept(q, r.o) /\ r.o.rows = q.rows
    BY <2>2, <2>3, AdmFaultedIs DEF AdmGood
  <2>5. r \in AdmOuts(AdmOwner)
    BY <2>2, <2>4 DEF AdmOuts, AdmGood, AdmPlain
  <2> QED BY <2>2, <2>3, <2>4, <2>5, AdmKeptOn DEF AdmSound
<1>3. r \in AdmCommit(o, new) => r \in Ok(new) \/ r \in AdmFault(o, {AdmFail(o), AdmFail(new), AdmStop(o), AdmStop(new)})
  BY DEF AdmCommit, AdmFault
<1> QED BY <1>1, <1>2, <1>3 DEF AdmWrite

\* Path k goes through another state of its record, or is forgotten.
LEMMA AdmPathIs ==
  ASSUME NEW o, AdmGood(o), NEW k \in AdmKey, o.paths[k] # None,
         NEW e \in Path \cup {None}
  PROVE  LET p == [o EXCEPT !.paths[k] = e]
         IN  /\ AdmGood(p) /\ AdmKept(o, p) /\ p.faults = o.faults /\ p.rows = o.rows
             /\ p.paths[k] = e /\ p.hop = o.hop /\ p.smac = o.smac
<1> DEFINE p == [o EXCEPT !.paths[k] = e]
<1>1. o \in AdmOwner
  BY DEF AdmGood, AdmPlain
<1>2. p \in AdmOwner
  BY <1>1 DEF AdmOwner
<1>3. /\ p.flows = o.flows /\ p.smac = o.smac /\ p.hop = o.hop /\ p.rows = o.rows
      /\ p.saved = o.saved /\ p.state = o.state /\ p.activated = o.activated /\ p.dependencies = o.dependencies
      /\ p.recovery = o.recovery /\ p.producer = o.producer /\ p.leases = o.leases /\ p.faults = o.faults
      /\ p.paths = [o.paths EXCEPT ![k] = e]
  BY <1>1 DEF AdmOwner
<1> HIDE DEF p
<1>4. p.paths[k] = e /\ \A x \in AdmKey : x # k => p.paths[x] = o.paths[x]
  <2>1. DOMAIN o.paths = AdmKey
    BY <1>1 DEF AdmOwner
  <2> QED BY <1>3, <2>1
<1>5. AdmPlain(p)
  BY <1>2, <1>3, AdmLess DEF AdmGood
<1>6. AdmKept(o, p)
  BY <1>3, <1>4 DEF AdmKept, AdmShrunk, AdmLeased, AdmDriven
<1> QED BY <1>3, <1>4, <1>5, <1>6 DEF AdmGood, AdmIndexed, p

\* A next hop goes once no session uses its path.
LEMMA AdmHopGone ==
  ASSUME NEW o, AdmGood(o), NEW k \in AdmKey, AdmDrained(o, k), NEW i \in Index,
         o.hop[i] # None, o.hop[i].key = k
  PROVE  LET p == [o EXCEPT !.hop[i] = None]
         IN  AdmGood(p) /\ AdmKept(o, p) /\ p.faults = o.faults /\ p.rows = o.rows /\ p.paths = o.paths
<1> DEFINE p == [o EXCEPT !.hop[i] = None]
<1>1. o \in AdmOwner
  BY DEF AdmGood, AdmPlain
<1>2. p \in AdmOwner
  BY <1>1 DEF AdmOwner
<1>3. /\ p.flows = o.flows /\ p.smac = o.smac /\ p.rows = o.rows /\ p.paths = o.paths
      /\ p.saved = o.saved /\ p.state = o.state /\ p.activated = o.activated /\ p.dependencies = o.dependencies
      /\ p.recovery = o.recovery /\ p.producer = o.producer /\ p.leases = o.leases /\ p.faults = o.faults
      /\ p.hop = [o.hop EXCEPT ![i] = None]
  BY <1>1 DEF AdmOwner
<1> HIDE DEF p
<1>4. \A x \in Index : x # i => p.hop[x] = o.hop[x]
  <2>1. DOMAIN o.hop = Index
    BY <1>1 DEF AdmOwner
  <2> QED BY <1>3, <2>1
<1>5. AdmWired(p)
  <2> SUFFICES ASSUME NEW x \in o.flows PROVE o.rows[x] # None /\ AdmLeads(p.hop, p.smac, x, o.rows[x])
    BY <1>3 DEF AdmWired
  <2>1. x \in AdmSid /\ o.rows[x] # None /\ AdmLeads(o.hop, o.smac, x, o.rows[x]) /\ o.rows[x] \in AdmRow
    BY <1>1 DEF AdmOwner, AdmGood, AdmPlain, AdmWired
  <2>2. o.rows[x].hop # i
    <3> SUFFICES ASSUME o.rows[x].hop = i PROVE FALSE
      OBVIOUS
    <3>1. <<x, o.rows[x].rev>> = k
      BY <2>1 DEF AdmLeads
    <3>2. k[1] = x /\ k[2] = o.rows[x].rev
      BY <3>1
    <3> QED BY <2>1, <3>2 DEF AdmDrained
  <2>3. o.rows[x].hop \in Index
    BY <2>1 DEF AdmRow
  <2> QED BY <1>3, <1>4, <2>1, <2>2, <2>3 DEF AdmLeads
<1>6. AdmBound(p) /\ AdmAgree(p) /\ AdmCurrent(p) /\ AdmIndexed(p)
  BY <1>3 DEF AdmGood, AdmPlain, AdmBound, AdmAgree, AdmCurrent, AdmIndexed
<1>7. AdmKept(o, p)
  BY <1>3 DEF AdmKept, AdmShrunk, AdmLeased, AdmDriven
<1> QED BY <1>2, <1>3, <1>5, <1>6, <1>7 DEF AdmGood, AdmPlain, p

\* So does a source MAC.
LEMMA AdmSmacGone ==
  ASSUME NEW o, AdmGood(o), NEW k \in AdmKey, AdmDrained(o, k), NEW i \in Index,
         o.smac[i] # None, o.smac[i].key = k
  PROVE  LET p == [o EXCEPT !.smac[i] = None]
         IN  AdmGood(p) /\ AdmKept(o, p) /\ p.faults = o.faults /\ p.rows = o.rows /\ p.paths = o.paths
<1> DEFINE p == [o EXCEPT !.smac[i] = None]
<1>1. o \in AdmOwner
  BY DEF AdmGood, AdmPlain
<1>2. p \in AdmOwner
  BY <1>1 DEF AdmOwner
<1>3. /\ p.flows = o.flows /\ p.hop = o.hop /\ p.rows = o.rows /\ p.paths = o.paths
      /\ p.saved = o.saved /\ p.state = o.state /\ p.activated = o.activated /\ p.dependencies = o.dependencies
      /\ p.recovery = o.recovery /\ p.producer = o.producer /\ p.leases = o.leases /\ p.faults = o.faults
      /\ p.smac = [o.smac EXCEPT ![i] = None]
  BY <1>1 DEF AdmOwner
<1> HIDE DEF p
<1>4. \A x \in Index : x # i => p.smac[x] = o.smac[x]
  <2>1. DOMAIN o.smac = Index
    BY <1>1 DEF AdmOwner
  <2> QED BY <1>3, <2>1
<1>5. AdmWired(p)
  <2> SUFFICES ASSUME NEW x \in o.flows PROVE o.rows[x] # None /\ AdmLeads(p.hop, p.smac, x, o.rows[x])
    BY <1>3 DEF AdmWired
  <2> DEFINE h == o.hop[o.rows[x].hop]
  <2>1. x \in AdmSid /\ o.rows[x] # None /\ o.rows[x] \in AdmRow
    BY <1>1 DEF AdmOwner, AdmGood, AdmPlain, AdmWired
  <2>2. h # None /\ h.key = <<x, o.rows[x].rev>> /\ o.smac[h.smac] = [key |-> h.key, plan |-> h.plan]
    BY DEF AdmGood, AdmPlain, AdmWired, AdmLeads
  <2>3. h.smac \in Index
    <3>1. o.rows[x].hop \in Index
      BY <2>1 DEF AdmRow
    <3>2. h \in Hop
      BY <1>1, <2>2, <3>1 DEF AdmOwner
    <3> QED BY <3>2 DEF Hop
  <2> HIDE DEF h
  <2>4. h.smac # i
    <3> SUFFICES ASSUME h.smac = i PROVE FALSE
      OBVIOUS
    <3>1. h.key = k
      BY <2>2
    <3>2. k[1] = x /\ k[2] = o.rows[x].rev
      BY <2>2, <3>1
    <3> QED BY <2>1, <3>2 DEF AdmDrained
  <2> QED BY <1>3, <1>4, <2>1, <2>2, <2>3, <2>4 DEF AdmLeads, h
<1>6. AdmBound(p) /\ AdmAgree(p) /\ AdmCurrent(p) /\ AdmIndexed(p)
  BY <1>3 DEF AdmGood, AdmPlain, AdmBound, AdmAgree, AdmCurrent, AdmIndexed
<1>7. AdmKept(o, p)
  BY <1>3 DEF AdmKept, AdmShrunk, AdmLeased, AdmDriven
<1> QED BY <1>2, <1>3, <1>5, <1>6, <1>7 DEF AdmGood, AdmPlain, p

\* PathOwner demands recovery.
LEMMA AdmPathSuspectOut ==
  ASSUME NEW o, AdmGood(o), NEW r \in Then(PathSuspect(o), AdmRaise)
  PROVE  AdmSound(o, r) /\ r.end = "raise"
<1> DEFINE p == [o EXCEPT !.pathRecovery = TRUE]
<1>1. o \in AdmOwner
  BY DEF AdmGood, AdmPlain
<1>2. p \in AdmOwner
  BY <1>1 DEF AdmOwner
<1>3. /\ p.flows = o.flows /\ p.hop = o.hop /\ p.smac = o.smac /\ p.rows = o.rows /\ p.paths = o.paths
      /\ p.saved = o.saved /\ p.state = o.state /\ p.activated = o.activated /\ p.dependencies = o.dependencies
      /\ p.recovery = o.recovery /\ p.producer = o.producer /\ p.leases = o.leases
  BY <1>1 DEF AdmOwner
<1>4. r.o = p /\ r.end = "raise" /\ r = [o |-> r.o, end |-> r.end]
  <2>1. PICK a \in PathSuspect(o) : r \in (IF a.end = "ok" THEN AdmRaise(a.o) ELSE {a})
    BY DEF Then
  <2>2. a = [o |-> p, end |-> "raise"]
    BY DEF PathSuspect, AdmRaise, AdmOut
  <2> HIDE DEF p
  <2> QED BY <2>1, <2>2
<1> HIDE DEF p
<1>5. AdmPlain(p)
  BY <1>2, <1>3, AdmLess DEF AdmGood
<1>6. AdmGood(p) /\ AdmKept(o, p)
  BY <1>3, <1>5 DEF AdmGood, AdmIndexed, AdmKept, AdmShrunk, AdmLeased, AdmDriven
<1>7. r \in AdmOuts(AdmOwner)
  BY <1>2, <1>4 DEF AdmOuts, AdmEnds
<1> QED BY <1>4, <1>6, <1>7 DEF AdmSound

\* PathOwner.release: a next hop goes after its flows, a source MAC after it.
LEMMA AdmReleaseOut ==
  ASSUME NEW o, AdmGood(o), NEW k \in AdmKey, NEW r \in AdmRelease(o, k)
  PROVE  AdmSound(o, r) /\ (r.end = "ok" => r.o.paths[k] = None)
<1> DEFINE path == o.paths[k]
           hop == [key |-> k, plan |-> path.plan, smac |-> path.smac]
           smac == [key |-> k, plan |-> path.plan]
           R1 == Drain(o, k)
           R2 == Then(R1, LAMBDA p : AdmCommit(p, [p EXCEPT !.paths[k].state = "removing"]))
           R3 == Then(R2, LAMBDA p : AdmDelete(p, hop, p.hop[path.hop], [p EXCEPT !.hop[path.hop] = None]))
           R4 == Then(R3, LAMBDA p : AdmDelete(p, smac, p.smac[path.smac], [p EXCEPT !.smac[path.smac] = None]))
           R5 == Then(R4, LAMBDA p : AdmCommit(p, [p EXCEPT !.paths[k] = None]))
<1>0. o \in AdmOwner /\ path \in Path \cup {None}
  BY DEF AdmGood, AdmPlain, AdmOwner
<1>1. CASE path = None
  <2>1. r \in Ok(o)
    BY <1>1 DEF AdmRelease
  <2> QED BY <1>1, <2>1, AdmSelf DEF AdmStep
<1>2. CASE path # None
  <2>0. path \in Path /\ path.hop \in Index /\ path.smac \in Index
    BY <1>0, <1>2 DEF Path
  <2>1. r \in Catch(R5, PathSuspect)
    BY <1>2 DEF AdmRelease
  <2>2. ASSUME NEW a \in R1
        PROVE  /\ AdmSound(o, a)
               /\ a.end = "ok" => AdmDrained(a.o, k) /\ a.o.paths[k] = path
    BY <2>2, AdmDrainOut DEF AdmStep, AdmLocal
  <2>3. ASSUME NEW b \in R2
        PROVE  /\ AdmSound(o, b)
               /\ b.end = "ok" => AdmDrained(b.o, k) /\ b.o.paths[k] # None
    <3>1. PICK a \in R1 : b \in (IF a.end = "ok" THEN AdmCommit(a.o, [a.o EXCEPT !.paths[k].state = "removing"]) ELSE {a})
      BY <2>3 DEF Then
    <3>2. CASE a.end # "ok"
      BY <2>2, <3>1, <3>2
    <3>3. CASE a.end = "ok"
      <4> DEFINE e == [a.o.paths[k] EXCEPT !.state = "removing"]
      <4>1. AdmGood(a.o) /\ a.o \in AdmOwner /\ AdmDrained(a.o, k) /\ a.o.paths[k] = path
        BY <2>2, <3>3 DEF AdmSound, AdmGood, AdmPlain
      <4>2. e \in Path /\ e # None
        BY <2>0, <4>1, NoneIsNoRecord DEF Path
      <4> DEFINE p == [a.o EXCEPT !.paths[k] = e]
      <4>3. b \in AdmCommit(a.o, p)
        BY <3>1, <3>3
      <4> HIDE DEF e
      <4>4. AdmGood(p) /\ AdmKept(a.o, p) /\ p.faults = a.o.faults /\ p.rows = a.o.rows /\ p.paths[k] = e
        BY <1>2, <4>1, <4>2, AdmPathIs
      <4> HIDE DEF p
      <4>5. AdmSound(a.o, b) /\ b.o.rows = a.o.rows /\ (b.end = "ok" => b.o = p)
        BY <4>1, <4>3, <4>4, AdmWriteOut
      <4> QED BY <2>2, <4>1, <4>2, <4>4, <4>5, AdmSoundOn DEF AdmDrained
    <3> QED BY <3>2, <3>3
  <2>4. ASSUME NEW c \in R3
        PROVE  /\ AdmSound(o, c)
               /\ c.end = "ok" => AdmDrained(c.o, k) /\ c.o.paths[k] # None
    <3> HIDE DEF R2
    <3>1. PICK b \in R2 : c \in (IF b.end = "ok" THEN AdmDelete(b.o, hop, b.o.hop[path.hop], [b.o EXCEPT !.hop[path.hop] = None]) ELSE {b})
      BY <2>4 DEF Then
    <3>2. CASE b.end # "ok"
      BY <2>3, <3>1, <3>2
    <3>3. CASE b.end = "ok"
      <4> DEFINE p == [b.o EXCEPT !.hop[path.hop] = None]
      <4>1. AdmGood(b.o) /\ AdmDrained(b.o, k) /\ b.o.paths[k] # None
        BY <2>3, <3>3 DEF AdmSound
      <4>2. CASE c \in Ok(b.o) \/ c \in AdmRaise(b.o)
        BY <2>3, <4>1, <4>2, AdmSelf, AdmSoundOn DEF AdmStep
      <4>3. CASE b.o.hop[path.hop] # None /\ b.o.hop[path.hop] = hop /\ c \in AdmWrite(b.o, p)
        <5>1. b.o.hop[path.hop].key = k
          BY <4>3
        <5>2. AdmGood(p) /\ AdmKept(b.o, p) /\ p.faults = b.o.faults /\ p.rows = b.o.rows /\ p.paths = b.o.paths
          BY <2>0, <4>1, <4>3, <5>1, AdmHopGone
        <5> HIDE DEF p, path
        <5>3. AdmSound(b.o, c) /\ c.o.rows = b.o.rows /\ (c.end = "ok" => c.o = p)
          BY <4>1, <4>3, <5>2, AdmWriteOut
        <5> QED BY <2>3, <4>1, <5>2, <5>3, AdmSoundOn DEF AdmDrained
      <4>4. c \in AdmDelete(b.o, hop, b.o.hop[path.hop], p)
        BY <3>1, <3>3
      <4> QED BY <4>2, <4>3, <4>4 DEF AdmDelete
    <3> QED BY <3>2, <3>3
  <2>5. ASSUME NEW d \in R4
        PROVE  /\ AdmSound(o, d)
               /\ d.end = "ok" => d.o.paths[k] # None
    <3> HIDE DEF R3
    <3>1. PICK c \in R3 : d \in (IF c.end = "ok" THEN AdmDelete(c.o, smac, c.o.smac[path.smac], [c.o EXCEPT !.smac[path.smac] = None]) ELSE {c})
      BY <2>5 DEF Then
    <3>2. CASE c.end # "ok"
      BY <2>4, <3>1, <3>2
    <3>3. CASE c.end = "ok"
      <4> DEFINE p == [c.o EXCEPT !.smac[path.smac] = None]
      <4>1. AdmGood(c.o) /\ AdmDrained(c.o, k) /\ c.o.paths[k] # None
        BY <2>4, <3>3 DEF AdmSound
      <4>2. CASE d \in Ok(c.o) \/ d \in AdmRaise(c.o)
        BY <2>4, <4>1, <4>2, AdmSelf, AdmSoundOn DEF AdmStep
      <4>3. CASE c.o.smac[path.smac] # None /\ c.o.smac[path.smac] = smac /\ d \in AdmWrite(c.o, p)
        <5>1. c.o.smac[path.smac].key = k
          BY <4>3
        <5>2. AdmGood(p) /\ AdmKept(c.o, p) /\ p.faults = c.o.faults /\ p.rows = c.o.rows /\ p.paths = c.o.paths
          BY <2>0, <4>1, <4>3, <5>1, AdmSmacGone
        <5> HIDE DEF p, path
        <5>3. AdmSound(c.o, d) /\ (d.end = "ok" => d.o = p)
          BY <4>1, <4>3, <5>2, AdmWriteOut
        <5> QED BY <2>4, <4>1, <5>2, <5>3, AdmSoundOn
      <4>4. d \in AdmDelete(c.o, smac, c.o.smac[path.smac], p)
        BY <3>1, <3>3
      <4> QED BY <4>2, <4>3, <4>4 DEF AdmDelete
    <3> QED BY <3>2, <3>3
  <2>6. ASSUME NEW e \in R5 PROVE AdmSound(o, e) /\ (e.end = "ok" => e.o.paths[k] = None)
    <3> HIDE DEF R4
    <3>1. PICK d \in R4 : e \in (IF d.end = "ok" THEN AdmCommit(d.o, [d.o EXCEPT !.paths[k] = None]) ELSE {d})
      BY <2>6 DEF Then
    <3>2. CASE d.end # "ok"
      BY <2>5, <3>1, <3>2
    <3>3. CASE d.end = "ok"
      <4> DEFINE p == [d.o EXCEPT !.paths[k] = None]
      <4>1. AdmGood(d.o) /\ d.o.paths[k] # None /\ e \in AdmCommit(d.o, p)
        BY <2>5, <3>1, <3>3 DEF AdmSound
      <4>2. AdmGood(p) /\ AdmKept(d.o, p) /\ p.faults = d.o.faults /\ p.rows = d.o.rows /\ p.paths[k] = None
        BY <4>1, AdmPathIs
      <4> HIDE DEF p
      <4>3. AdmSound(d.o, e) /\ (e.end = "ok" => e.o = p)
        BY <4>1, <4>2, AdmWriteOut
      <4> QED BY <2>5, <4>2, <4>3, AdmSoundOn
    <3> QED BY <3>2, <3>3
  <2> HIDE DEF R5
  <2>7. PICK e \in R5 : r \in (IF e.end = "raise" THEN Then(PathSuspect(e.o), AdmRaise) ELSE {e})
    BY <2>1 DEF Catch
  <2>8. AdmSound(o, e) /\ (e.end = "ok" => e.o.paths[k] = None) /\ AdmGood(e.o)
    BY <2>6 DEF AdmSound
  <2>9. CASE e.end = "raise"
    <3>1. AdmSound(e.o, r) /\ r.end = "raise"
      BY <2>7, <2>8, <2>9, AdmPathSuspectOut
    <3> QED BY <2>8, <3>1, AdmSoundOn
  <2>10. CASE e.end # "raise"
    BY <2>7, <2>8, <2>10
  <2> QED BY <2>9, <2>10
<1> QED BY <1>1, <1>2

\* A path that does not read back is released.
LEMMA AdmVerifyOut ==
  ASSUME NEW o, AdmGood(o), NEW k \in AdmKey, NEW r \in AdmVerify(o, k)
  PROVE  AdmSound(o, r)
BY AdmReleaseOut, AdmSelf DEF AdmVerify, AdmStep

\* The states a sound method may lead to.
AdmSounds(o) == {p \in AdmOwner : AdmGood(p) /\ AdmKept(o, p)}

\* The loop over the paths to verify, in any order.
LEMMA AdmVerifyAll ==
  ASSUME NEW o, AdmGood(o), NEW S, S \subseteq AdmKey, IsFiniteSet(S), NEW r \in Each(o, S, AdmVerify)
  PROVE  AdmSound(o, r)
<1> DEFINE St == AdmSounds(o)
           After(f, D, x) == UNION {IF q.end = "ok" THEN AdmVerify(q.o, x) ELSE {q} : q \in f[D \ {x}]}
           Is(f) == f = [D \in SUBSET S |-> IF D = {} THEN Ok(o) ELSE UNION {After(f, D, x) : x \in D}]
           J == [D \in SUBSET S |-> AdmOuts(St)]
           F == CHOOSE f : Is(f)
<1>1. o \in St
  BY AdmShrunkSelf DEF AdmSounds, AdmGood, AdmPlain
<1>2. ASSUME NEW p \in St, NEW x \in S, NEW q \in AdmVerify(p, x)
      PROVE  q \in AdmOuts(St)
  <2>1. AdmGood(p) /\ AdmKept(o, p)
    BY DEF AdmSounds
  <2>2. AdmSound(p, q)
    BY <2>1, AdmVerifyOut
  <2>3. q \in AdmOuts(St)
    BY <2>1, <2>2, AdmKeptOn DEF AdmSound, AdmOuts, AdmSounds
  <2> QED BY <2>2, <2>3 DEF AdmSound, AdmKept, AdmShrunk
<1> HIDE DEF St
<1>3. \E f : Is(f)
  <2> DEFINE g == [a \in St \X S |-> AdmVerify(a[1], a[2])]
  <2>1. g \in [St \X S -> SUBSET AdmOuts(St)] /\ \A p \in St, x \in S : g[<<p, x>>] = AdmVerify(p, x)
    BY <1>2
  <2>2. PICK f \in [SUBSET S -> SUBSET AdmOuts(St)] : AdmLoop(g, o, S, f)
    <3> HIDE DEF g
    <3> QED BY <1>1, <2>1, AdmLoopExists
  <2> HIDE DEF g
  <2> DEFINE U(D, x) == UNION {IF q.end = "ok" THEN g[<<q.o, x>>] ELSE {q} : q \in f[D \ {x}]}
  <2>3. ASSUME NEW D \in SUBSET S, NEW x \in D PROVE U(D, x) = After(f, D, x)
    <3>1. \A q \in f[D \ {x}] : q.o \in St
      BY <2>2 DEF AdmOuts
    <3>2. \A q \in f[D \ {x}] : (IF q.end = "ok" THEN g[<<q.o, x>>] ELSE {q}) = (IF q.end = "ok" THEN AdmVerify(q.o, x) ELSE {q})
      BY <2>1, <3>1
    <3> QED BY <3>2
  <2>4. f = [D \in SUBSET S |-> IF D = {} THEN Ok(o) ELSE UNION {U(D, x) : x \in D}]
    BY <2>2 DEF AdmLoop
  <2>5. \A D \in SUBSET S : UNION {U(D, x) : x \in D} = UNION {After(f, D, x) : x \in D}
    <3> HIDE DEF U, After
    <3> QED BY <2>3
  <2>6. Is(f)
    <3> HIDE DEF U, After
    <3> QED BY <2>4, <2>5
  <2> HIDE DEF Is
  <2> QED BY <2>6
<1>4. Is(F)
  <2> HIDE DEF Is
  <2> QED BY <1>3
<1>5. F = [D \in SUBSET S |-> IF D = {} THEN Ok(o) ELSE UNION {After(F, D, x) : x \in D}]
  <2> HIDE DEF F
  <2> QED BY <1>4
<1>6. Each(o, S, AdmVerify) = F[S]
  BY DEF Each, Then
<1> HIDE DEF F
<1>7. F[{}] \subseteq J[{}]
  BY <1>1, <1>5 DEF Ok, AdmOut, AdmOuts, AdmEnds
<1>8. ASSUME NEW D \in SUBSET S, D # {}, \A x \in D : F[D \ {x}] \subseteq J[D \ {x}]
      PROVE  F[D] \subseteq J[D]
  <2> SUFFICES ASSUME NEW q \in F[D] PROVE q \in AdmOuts(St)
    OBVIOUS
  <2>1. PICK x \in D : q \in After(F, D, x)
    <3> HIDE DEF After
    <3>1. F[D] = UNION {After(F, D, x) : x \in D}
      BY <1>5, <1>8
    <3> QED BY <3>1
  <2>2. PICK e \in F[D \ {x}] : q \in (IF e.end = "ok" THEN AdmVerify(e.o, x) ELSE {e})
    BY <2>1
  <2>3. e \in AdmOuts(St)
    BY <1>8
  <2>4. e.o \in St
    BY <2>3 DEF AdmOuts
  <2>5. CASE e.end = "ok"
    BY <1>2, <2>2, <2>3, <2>4, <2>5
  <2>6. CASE e.end # "ok"
    BY <2>2, <2>3, <2>6
  <2> QED BY <2>5, <2>6
<1>9. r \in J[S]
  <2>1. F[S] \subseteq J[S]
    <3> HIDE DEF J
    <3> QED BY <1>7, <1>8, AdmLoopInducts
  <2> QED BY <1>6, <2>1
<1>10. r \in AdmOuts(St)
  BY <1>9
<1> QED BY <1>10 DEF AdmOuts, AdmSounds, AdmSound, St

\* The loop over the paths to release, in any order.
LEMMA AdmReleaseAll ==
  ASSUME NEW o, AdmGood(o), NEW S, S \subseteq AdmKey, IsFiniteSet(S), NEW r \in Each(o, S, AdmRelease)
  PROVE  AdmSound(o, r) /\ (r.end = "ok" => \A x \in S : r.o.paths[x] = None)
<1> DEFINE St == AdmSounds(o)
           After(f, D, x) == UNION {IF q.end = "ok" THEN AdmRelease(q.o, x) ELSE {q} : q \in f[D \ {x}]}
           Is(f) == f = [D \in SUBSET S |-> IF D = {} THEN Ok(o) ELSE UNION {After(f, D, x) : x \in D}]
           J == [D \in SUBSET S |-> {q \in AdmOuts(St) : q.end = "ok" => \A x \in D : q.o.paths[x] = None}]
           F == CHOOSE f : Is(f)
<1>1. o \in St
  BY AdmShrunkSelf DEF AdmSounds, AdmGood, AdmPlain
<1>2. ASSUME NEW p \in St, NEW x \in S, NEW q \in AdmRelease(p, x)
      PROVE  /\ q \in AdmOuts(St)
             /\ q.end = "ok" => q.o.paths[x] = None /\ \A y \in S : p.paths[y] = None => q.o.paths[y] = None
  <2>1. AdmGood(p) /\ AdmKept(o, p)
    BY DEF AdmSounds
  <2>2. AdmSound(p, q) /\ (q.end = "ok" => q.o.paths[x] = None)
    BY <2>1, AdmReleaseOut
  <2>3. q \in AdmOuts(St)
    BY <2>1, <2>2, AdmKeptOn DEF AdmSound, AdmOuts, AdmSounds
  <2> QED BY <2>2, <2>3 DEF AdmSound, AdmKept, AdmShrunk
<1> HIDE DEF St
<1>3. \E f : Is(f)
  <2> DEFINE g == [a \in St \X S |-> AdmRelease(a[1], a[2])]
  <2>1. g \in [St \X S -> SUBSET AdmOuts(St)] /\ \A p \in St, x \in S : g[<<p, x>>] = AdmRelease(p, x)
    BY <1>2
  <2>2. PICK f \in [SUBSET S -> SUBSET AdmOuts(St)] : AdmLoop(g, o, S, f)
    <3> HIDE DEF g
    <3> QED BY <1>1, <2>1, AdmLoopExists
  <2> HIDE DEF g
  <2> DEFINE U(D, x) == UNION {IF q.end = "ok" THEN g[<<q.o, x>>] ELSE {q} : q \in f[D \ {x}]}
  <2>3. ASSUME NEW D \in SUBSET S, NEW x \in D PROVE U(D, x) = After(f, D, x)
    <3>1. \A q \in f[D \ {x}] : q.o \in St
      BY <2>2 DEF AdmOuts
    <3>2. \A q \in f[D \ {x}] : (IF q.end = "ok" THEN g[<<q.o, x>>] ELSE {q}) = (IF q.end = "ok" THEN AdmRelease(q.o, x) ELSE {q})
      BY <2>1, <3>1
    <3> QED BY <3>2
  <2>4. f = [D \in SUBSET S |-> IF D = {} THEN Ok(o) ELSE UNION {U(D, x) : x \in D}]
    BY <2>2 DEF AdmLoop
  <2>5. \A D \in SUBSET S : UNION {U(D, x) : x \in D} = UNION {After(f, D, x) : x \in D}
    <3> HIDE DEF U, After
    <3> QED BY <2>3
  <2>6. Is(f)
    <3> HIDE DEF U, After
    <3> QED BY <2>4, <2>5
  <2> HIDE DEF Is
  <2> QED BY <2>6
<1>4. Is(F)
  <2> HIDE DEF Is
  <2> QED BY <1>3
<1>5. F = [D \in SUBSET S |-> IF D = {} THEN Ok(o) ELSE UNION {After(F, D, x) : x \in D}]
  <2> HIDE DEF F
  <2> QED BY <1>4
<1>6. Each(o, S, AdmRelease) = F[S]
  BY DEF Each, Then
<1> HIDE DEF F
<1>7. F[{}] \subseteq J[{}]
  BY <1>1, <1>5 DEF Ok, AdmOut, AdmOuts, AdmEnds
<1>8. ASSUME NEW D \in SUBSET S, D # {}, \A x \in D : F[D \ {x}] \subseteq J[D \ {x}]
      PROVE  F[D] \subseteq J[D]
  <2> SUFFICES ASSUME NEW q \in F[D] PROVE q \in AdmOuts(St) /\ (q.end = "ok" => \A y \in D : q.o.paths[y] = None)
    OBVIOUS
  <2>1. PICK x \in D : q \in After(F, D, x)
    <3> HIDE DEF After
    <3>1. F[D] = UNION {After(F, D, x) : x \in D}
      BY <1>5, <1>8
    <3> QED BY <3>1
  <2>2. PICK e \in F[D \ {x}] : q \in (IF e.end = "ok" THEN AdmRelease(e.o, x) ELSE {e})
    BY <2>1
  <2>3. e \in AdmOuts(St) /\ (e.end = "ok" => \A y \in D \ {x} : e.o.paths[y] = None)
    BY <1>8
  <2>4. e.o \in St
    BY <2>3 DEF AdmOuts
  <2>5. CASE e.end = "ok"
    BY <1>2, <2>2, <2>3, <2>4, <2>5
  <2>6. CASE e.end # "ok"
    BY <2>2, <2>3, <2>6
  <2> QED BY <2>5, <2>6
<1>9. r \in J[S]
  <2>1. F[S] \subseteq J[S]
    <3> HIDE DEF J
    <3> QED BY <1>7, <1>8, AdmLoopInducts
  <2> QED BY <1>6, <2>1
<1>10. r \in AdmOuts(St) /\ (r.end = "ok" => \A x \in S : r.o.paths[x] = None)
  BY <1>9
<1> QED BY <1>10 DEF AdmOuts, AdmSounds, AdmSound, St

-----------------------------------------------------------------------------
\* ---- reconciliation ----

\* No session is journalled.
AdmNoRows(o) == \A s \in AdmSid : o.rows[s] = None

\* A path that is left was indexed by the session it belongs to.
AdmSwept(o, p) == \A k \in AdmKey : p.paths[k] # None => o.dependencies[k[1]] # None

\* There are finitely many path keys.
LEMMA AdmKeysFinite == IsFiniteSet(AdmKey) /\ \A S \in SUBSET AdmKey : IsFiniteSet(S)
<1>1. IsFiniteSet(AdmRev)
  BY AdmBoundAssumption, FS_Interval DEF AdmRev
<1>2. IsFiniteSet(AdmKey)
  BY <1>1, AdmFiniteAssumption, FS_Product DEF AdmKey
<1> QED BY <1>2, FS_Subset

\* Changes to what the session and policy owners do not look at.
LEMMA AdmSideIs ==
  ASSUME NEW o, AdmGood(o), NEW p \in AdmOwner,
         p.flows = o.flows, p.hop = o.hop, p.smac = o.smac, p.rows = o.rows, p.paths = o.paths,
         p.saved = o.saved, p.state = o.state, p.activated => o.activated, p.dependencies = o.dependencies,
         p.recovery = o.recovery, p.producer => o.producer, p.leases \subseteq o.leases,
         \A s \in o.leases \ p.leases : o.rows[s] = None,
         p.activated => (p.producer = o.producer)
  PROVE  AdmGood(p) /\ AdmKept(o, p)
<1>1. AdmPlain(p)
  BY AdmLess DEF AdmGood
<1>2. AdmKept(o, p)
  BY DEF AdmKept, AdmShrunk, AdmLeased, AdmDriven
<1> QED BY <1>1, <1>2 DEF AdmGood, AdmIndexed

\* PathOwner has recovered.
LEMMA AdmHealedIs ==
  ASSUME NEW o, AdmGood(o)
  PROVE  LET p == [o EXCEPT !.pathRecovery = FALSE]
         IN  AdmGood(p) /\ AdmKept(o, p) /\ p.paths = o.paths
<1> DEFINE p == [o EXCEPT !.pathRecovery = FALSE]
<1>1. o \in AdmOwner
  BY DEF AdmGood, AdmPlain
<1>2. p \in AdmOwner
  BY <1>1 DEF AdmOwner
<1>3. /\ p.flows = o.flows /\ p.hop = o.hop /\ p.smac = o.smac /\ p.rows = o.rows /\ p.paths = o.paths
      /\ p.saved = o.saved /\ p.state = o.state /\ p.activated = o.activated /\ p.dependencies = o.dependencies
      /\ p.recovery = o.recovery /\ p.producer = o.producer /\ p.leases = o.leases
  BY <1>1 DEF AdmOwner
<1> HIDE DEF p
<1>4. AdmGood(p) /\ AdmKept(o, p)
  BY <1>2, <1>3, AdmSideIs
<1> QED BY <1>3, <1>4 DEF p

\* The lifecycle drops its producer and admission with it.
LEMMA AdmDesyncIs ==
  ASSUME NEW o, AdmGood(o)
  PROVE  LET p == Desynchronise(o)
         IN  /\ AdmGood(p) /\ AdmKept(o, p) /\ p.dependencies = o.dependencies
             /\ p.activated = FALSE /\ p.producer = FALSE
<1> DEFINE p == Desynchronise(o)
<1>1. o \in AdmOwner
  BY DEF AdmGood, AdmPlain
<1>2. p \in AdmOwner
  BY <1>1 DEF AdmOwner, Desynchronise
<1>3. /\ p.flows = o.flows /\ p.hop = o.hop /\ p.smac = o.smac /\ p.rows = o.rows /\ p.paths = o.paths
      /\ p.saved = o.saved /\ p.state = o.state /\ p.activated = FALSE /\ p.dependencies = o.dependencies
      /\ p.recovery = o.recovery /\ p.producer = FALSE /\ p.leases = o.leases
  BY <1>1 DEF AdmOwner, Desynchronise
<1> HIDE DEF p
<1>4. AdmGood(p) /\ AdmKept(o, p)
  BY <1>2, <1>3, AdmSideIs
<1> QED BY <1>3, <1>4 DEF p

\* Leases of sessions that are gone are returned.
LEMMA AdmReturnedIs ==
  ASSUME NEW o, AdmGood(o), NEW L \in SUBSET o.leases, \A s \in o.leases \ L : o.rows[s] = None
  PROVE  LET p == [o EXCEPT !.leases = L]
         IN  /\ AdmGood(p) /\ AdmKept(o, p) /\ p.rows = o.rows /\ p.paths = o.paths
             /\ p.dependencies = o.dependencies /\ p.activated = o.activated /\ p.producer = o.producer
<1> DEFINE p == [o EXCEPT !.leases = L]
<1>1. o \in AdmOwner
  BY DEF AdmGood, AdmPlain
<1>2. p \in AdmOwner
  BY <1>1 DEF AdmOwner
<1>3. /\ p.flows = o.flows /\ p.hop = o.hop /\ p.smac = o.smac /\ p.rows = o.rows /\ p.paths = o.paths
      /\ p.saved = o.saved /\ p.state = o.state /\ p.activated = o.activated /\ p.dependencies = o.dependencies
      /\ p.recovery = o.recovery /\ p.producer = o.producer /\ p.leases = L
  BY <1>1 DEF AdmOwner
<1> HIDE DEF p
<1>4. AdmGood(p) /\ AdmKept(o, p)
  BY <1>2, <1>3, AdmSideIs
<1> QED BY <1>3, <1>4 DEF p

\* PathOwner.reconcile is sound.
LEMMA AdmPathReconcileOut ==
  ASSUME NEW o, AdmGood(o), NEW r \in PathReconcile(o)
  PROVE  AdmSound(o, r)
<1>1. PICK a \in Each(o, AdmHeld(o.paths), AdmVerify) :
        r \in (IF a.end = "ok" THEN Ok([a.o EXCEPT !.pathRecovery = FALSE]) ELSE {a})
  BY DEF PathReconcile, Then
<1>2. AdmHeld(o.paths) \subseteq AdmKey
  BY DEF AdmHeld, AdmGood, AdmPlain, AdmOwner
<1>3. AdmSound(o, a)
  BY <1>1, <1>2, AdmKeysFinite, AdmVerifyAll
<1>4. CASE a.end = "ok"
  <2> DEFINE p == [a.o EXCEPT !.pathRecovery = FALSE]
  <2>1. AdmGood(p) /\ AdmKept(a.o, p) /\ r \in Ok(p)
    BY <1>1, <1>3, <1>4, AdmHealedIs DEF AdmSound
  <2> HIDE DEF p
  <2>2. AdmSound(p, r) /\ r.o = p
    BY <2>1, AdmSelf DEF AdmStep
  <2> QED BY <1>3, <2>1, <2>2, AdmKeptOn DEF AdmSound
<1> QED BY <1>1, <1>3, <1>4

\* The sweep leaves only paths that an indexed session uses.
LEMMA AdmSweepOut ==
  ASSUME NEW o, AdmGood(o), NEW r \in AdmSweep(o)
  PROVE  AdmSound(o, r) /\ (r.end = "ok" => AdmSwept(o, r.o))
<1> DEFINE S == AdmHeld(o.paths) \ {<<s, o.dependencies[s].rev>> : s \in AdmHeld(o.dependencies)}
<1>1. DOMAIN o.paths = AdmKey /\ DOMAIN o.dependencies = AdmSid
  BY DEF AdmGood, AdmPlain, AdmOwner
<1>2. S \in SUBSET AdmKey
  BY <1>1 DEF AdmHeld
<1>3. r \in Each(o, S, AdmRelease)
  BY DEF AdmSweep
<1> HIDE DEF S
<1>4. AdmSound(o, r) /\ (r.end = "ok" => \A k \in S : r.o.paths[k] = None)
  BY <1>2, <1>3, AdmKeysFinite, AdmReleaseAll
<1>5. ASSUME r.end = "ok", NEW k \in AdmKey, r.o.paths[k] # None PROVE o.dependencies[k[1]] # None
  <2>1. o.paths[k] # None
    BY <1>4, <1>5 DEF AdmSound, AdmKept, AdmShrunk
  <2>2. k \notin S
    BY <1>4, <1>5
  <2>3. PICK s \in AdmHeld(o.dependencies) : k = <<s, o.dependencies[s].rev>>
    BY <1>1, <2>1, <2>2 DEF S, AdmHeld
  <2>4. k[1] = s
    BY <2>3
  <2> QED BY <2>3, <2>4 DEF AdmHeld
<1> QED BY <1>4, <1>5 DEF AdmSwept

\* PathSessions.reconcile: failing, it leaves admission disabled; completing
\* with admission disabled, it leaves no session.
LEMMA AdmBridgeReconcileOut ==
  ASSUME NEW o, AdmGood(o), NEW r \in BridgeReconcile(o)
  PROVE  /\ AdmSound(o, r)
         /\ r.end = "raise" => ~r.o.activated
         /\ r.end = "ok" => AdmSwept(o, r.o)
         /\ r.end = "ok" /\ ~o.activated => AdmNoRows(r.o)
<1> DEFINE d == IF o.pathRecovery THEN Deactivate(o) ELSE o
           R1 == Reconcile(d)
           R2 == Then(R1, PathReconcile)
           R3 == Then(R2, AdmSweep)
<1>1. /\ AdmGood(d) /\ AdmKept(o, d) /\ d.dependencies = o.dependencies /\ (d.activated => o.activated)
  BY AdmDeactivateIs, AdmShrunkSelf DEF AdmGood
<1>2. r \in Catch(R3, LAMBDA p : AdmRaise(Deactivate(p)))
  BY DEF BridgeReconcile
<1>3. ASSUME NEW a \in R1 PROVE AdmSound(d, a) /\ (a.end = "ok" /\ ~d.activated => AdmNoRows(a.o))
  <2> HIDE DEF d
  <2> QED BY <1>1, <1>3, AdmReconcileOut DEF AdmStep, AdmEmpty, AdmNoRows
<1> HIDE DEF d
<1>4. ASSUME NEW b \in R2 PROVE AdmSound(d, b) /\ (b.end = "ok" /\ ~d.activated => AdmNoRows(b.o))
  <2>1. PICK a \in R1 : b \in (IF a.end = "ok" THEN PathReconcile(a.o) ELSE {a})
    BY <1>4 DEF Then
  <2> HIDE DEF R1
  <2>2. CASE a.end = "ok"
    <3>1. AdmSound(a.o, b)
      BY <1>3, <2>1, <2>2, AdmPathReconcileOut DEF AdmSound
    <3> QED BY <1>3, <2>2, <3>1, AdmSoundOn DEF AdmSound, AdmKept, AdmShrunk, AdmNoRows
  <2> QED BY <1>3, <2>1, <2>2
<1> HIDE DEF R2
<1>5. ASSUME NEW c \in R3
      PROVE  AdmSound(d, c) /\ (c.end = "ok" => AdmSwept(d, c.o)) /\ (c.end = "ok" /\ ~d.activated => AdmNoRows(c.o))
  <2>1. PICK b \in R2 : c \in (IF b.end = "ok" THEN AdmSweep(b.o) ELSE {b})
    BY <1>5 DEF Then
  <2>2. CASE b.end = "ok"
    <3>1. AdmSound(b.o, c) /\ (c.end = "ok" => AdmSwept(b.o, c.o))
      BY <1>4, <2>1, <2>2, AdmSweepOut DEF AdmSound
    <3>2. AdmSwept(b.o, c.o) => AdmSwept(d, c.o)
      BY <1>4 DEF AdmSwept, AdmSound, AdmKept, AdmShrunk, AdmKey
    <3> QED BY <1>4, <2>2, <3>1, <3>2, AdmSoundOn DEF AdmSound, AdmKept, AdmShrunk, AdmNoRows
  <2> QED BY <1>4, <2>1, <2>2
<1> HIDE DEF R3
<1>6. PICK c \in R3 : r \in (IF c.end = "raise" THEN Then(AdmRaise(Deactivate(c.o)), AdmRaise) ELSE {c})
  BY <1>2 DEF Catch
<1>7. AdmSound(d, c) /\ AdmSound(o, c) /\ AdmGood(c.o)
  BY <1>1, <1>5, <1>6, AdmKeptOn DEF AdmSound
<1>8. CASE c.end # "raise"
  BY <1>1, <1>5, <1>6, <1>7, <1>8 DEF AdmSwept
<1>9. CASE c.end = "raise"
  <2> DEFINE p == Deactivate(c.o)
  <2>1. AdmGood(p) /\ AdmKept(c.o, p) /\ p.activated = FALSE
    BY <1>7, AdmDeactivateIs DEF AdmGood
  <2>2. PICK e \in AdmRaise(p) : r \in (IF e.end = "ok" THEN AdmRaise(e.o) ELSE {e})
    BY <1>6, <1>9 DEF Then
  <2> HIDE DEF p
  <2>3. AdmSound(p, e) /\ e.o = p /\ e.end = "raise"
    BY <2>1, <2>2, AdmSelf DEF AdmStep
  <2>4. r = e
    BY <2>2, <2>3
  <2> QED BY <1>7, <2>1, <2>3, <2>4, AdmKeptOn DEF AdmSound
<1> QED BY <1>8, <1>9

-----------------------------------------------------------------------------
\* ---- the lifecycle: what takes away ----

\* PathSessions.revoke removes the session before its path.
LEMMA AdmBridgeRevokeOut ==
  ASSUME NEW o, AdmGood(o), NEW s \in AdmSid, NEW r \in BridgeRevoke(o, s)
  PROVE  AdmSound(o, r) /\ (r.end = "ok" => r.o.rows[s] = None /\ r.o.dependencies[s] = None)
<1> DEFINE d == o.dependencies[s]
           R == Then(PolicyRevoke(o, s), LAMBDA p : IF d = None THEN Ok(p) ELSE AdmRelease(p, <<s, d.rev>>))
<1>1. d # None => <<s, d.rev>> \in AdmKey
  <2>1. d \in Dep \cup {None}
    BY DEF AdmGood, AdmPlain, AdmOwner
  <2> HIDE DEF d
  <2> QED BY <2>1 DEF Dep, AdmKey
<1>2. PICK b \in R : r \in (IF b.end = "raise" THEN Then(AdmRaise(Deactivate(b.o)), AdmRaise) ELSE {b})
  BY DEF BridgeRevoke, Catch
<1>3. PICK a \in PolicyRevoke(o, s) :
        b \in (IF a.end = "ok" THEN (IF d = None THEN Ok(a.o) ELSE AdmRelease(a.o, <<s, d.rev>>)) ELSE {a})
  BY <1>2 DEF Then
<1> HIDE DEF d, R
<1>4. AdmSound(o, a) /\ AdmGood(a.o) /\ (a.end = "ok" => a.o.rows[s] = None /\ a.o.dependencies[s] = None)
  BY <1>3, AdmPolicyRevokeOut DEF AdmStep, AdmSound
<1>5. AdmSound(o, b) /\ AdmGood(b.o) /\ (b.end = "ok" => b.o.rows[s] = None /\ b.o.dependencies[s] = None)
  <2>1. CASE a.end = "ok"
    <3>1. AdmSound(a.o, b)
      BY <1>1, <1>3, <1>4, <2>1, AdmReleaseOut, AdmSelf DEF AdmStep
    <3> QED BY <1>4, <2>1, <3>1, AdmSoundOn DEF AdmSound, AdmKept, AdmShrunk
  <2> QED BY <1>3, <1>4, <2>1
<1>6. CASE b.end # "raise"
  BY <1>2, <1>5, <1>6
<1>7. CASE b.end = "raise"
  <2> DEFINE p == Deactivate(b.o)
  <2>1. AdmGood(p) /\ AdmKept(b.o, p)
    BY <1>5, AdmDeactivateIs DEF AdmGood
  <2>2. PICK e \in AdmRaise(p) : r \in (IF e.end = "ok" THEN AdmRaise(e.o) ELSE {e})
    BY <1>2, <1>7 DEF Then
  <2> HIDE DEF p
  <2>3. AdmSound(p, e) /\ e.o = p /\ e.end = "raise"
    BY <2>1, <2>2, AdmSelf DEF AdmStep
  <2> QED BY <1>5, <2>1, <2>2, <2>3, AdmKeptOn DEF AdmSound
<1> QED BY <1>6, <1>7

\* A lease is returned once its session is gone.
LEMMA AdmRevokeLeaseOut ==
  ASSUME NEW o, AdmGood(o), NEW s \in AdmSid, NEW r \in RevokeLease(o, s)
  PROVE  AdmSound(o, r) /\ (r.end = "ok" => r.o.rows[s] = None /\ r.o.dependencies[s] = None)
<1>1. PICK a \in BridgeRevoke(o, s) : r \in (IF a.end = "ok" THEN Ok([a.o EXCEPT !.leases = @ \ {s}]) ELSE {a})
  BY DEF RevokeLease, Then
<1>2. AdmSound(o, a) /\ AdmGood(a.o) /\ (a.end = "ok" => a.o.rows[s] = None /\ a.o.dependencies[s] = None)
  BY <1>1, AdmBridgeRevokeOut DEF AdmSound
<1>3. CASE a.end = "ok"
  <2> DEFINE L == a.o.leases \ {s}
             p == [a.o EXCEPT !.leases = L]
  <2>1. L \in SUBSET a.o.leases /\ \A x \in a.o.leases \ L : a.o.rows[x] = None
    BY <1>2, <1>3
  <2>2. r \in Ok(p)
    BY <1>1, <1>3
  <2> HIDE DEF L
  <2>3. AdmGood(p) /\ AdmKept(a.o, p) /\ p.rows = a.o.rows /\ p.dependencies = a.o.dependencies
    BY <1>2, <2>1, AdmReturnedIs
  <2> HIDE DEF p
  <2>4. AdmSound(p, r) /\ r.o = p
    BY <2>2, <2>3, AdmSelf DEF AdmStep
  <2> QED BY <1>2, <1>3, <2>3, <2>4, AdmKeptOn DEF AdmSound
<1> QED BY <1>1, <1>2, <1>3

\* SessionLifecycle.fence: however it ends, admission is disabled and the
\* producer dropped; completing, it leaves no session.
LEMMA AdmFenceOut ==
  ASSUME NEW o, AdmGood(o), NEW r \in AdmFence(o)
  PROVE  /\ AdmSound(o, r) /\ ~r.o.activated /\ ~r.o.producer
         /\ r.end = "ok" => AdmNoRows(r.o) /\ AdmSwept(o, r.o)
<1> DEFINE d == Desynchronise(o)
<1>1. AdmGood(d) /\ AdmKept(o, d) /\ d.dependencies = o.dependencies /\ d.activated = FALSE /\ d.producer = FALSE
  BY AdmDesyncIs
<1>2. PICK a \in BridgeReconcile(d) : r \in (IF a.end = "ok" THEN Ok([a.o EXCEPT !.leases = {}]) ELSE {a})
  BY DEF AdmFence, Then
<1> HIDE DEF d
<1>3. /\ AdmSound(d, a) /\ AdmGood(a.o)
      /\ a.end = "ok" => AdmNoRows(a.o) /\ AdmSwept(o, a.o)
  BY <1>1, <1>2, AdmBridgeReconcileOut DEF AdmSound, AdmSwept
<1>4. AdmSound(o, a) /\ ~a.o.activated /\ ~a.o.producer
  BY <1>1, <1>3, AdmKeptOn DEF AdmSound, AdmKept, AdmShrunk, AdmGood, AdmPlain, AdmOwner
<1>5. CASE a.end = "ok"
  <2> DEFINE p == [a.o EXCEPT !.leases = {}]
  <2>1. a.o.leases \subseteq AdmSid
    BY <1>3 DEF AdmGood, AdmPlain, AdmOwner
  <2>2. AdmGood(p) /\ AdmKept(a.o, p) /\ p.rows = a.o.rows /\ p.paths = a.o.paths
        /\ p.activated = a.o.activated /\ p.producer = a.o.producer
    BY <1>3, <1>5, <2>1, AdmReturnedIs DEF AdmNoRows
  <2>3. r \in Ok(p)
    BY <1>2, <1>5
  <2> HIDE DEF p
  <2>4. AdmSound(p, r) /\ r.o = p
    BY <2>2, <2>3, AdmSelf DEF AdmStep
  <2> QED BY <1>3, <1>4, <1>5, <2>2, <2>4, AdmKeptOn DEF AdmSound, AdmNoRows, AdmSwept
<1> QED BY <1>2, <1>3, <1>4, <1>5

\* An except clause that fences and raises again.
LEMMA AdmCatchFence ==
  ASSUME NEW o, NEW R, NEW r \in Catch(R, AdmFence), \A a \in R : AdmGood(a.o)
  PROVE  \E a \in R : \/ a.end # "raise" /\ r = a
                      \/ AdmSound(a.o, r) /\ ~r.o.activated /\ ~r.o.producer /\ r.end # "ok"
<1>1. PICK a \in R : r \in (IF a.end = "raise" THEN Then(AdmFence(a.o), AdmRaise) ELSE {a})
  BY DEF Catch
<1>2. CASE a.end = "raise"
  <2>1. PICK b \in AdmFence(a.o) : r \in (IF b.end = "ok" THEN AdmRaise(b.o) ELSE {b})
    BY <1>1, <1>2 DEF Then
  <2>2. AdmSound(a.o, b) /\ ~b.o.activated /\ ~b.o.producer /\ AdmGood(b.o)
    BY <2>1, AdmFenceOut DEF AdmSound
  <2>3. CASE b.end = "ok"
    BY <2>1, <2>2, <2>3, AdmSelf, AdmSoundOn DEF AdmStep
  <2> QED BY <2>1, <2>2, <2>3
<1> QED BY <1>1, <1>2

\* The loop over the leases to revoke, in any order.
LEMMA AdmRevokeAll ==
  ASSUME NEW o, AdmGood(o), NEW S, S \subseteq AdmSid, IsFiniteSet(S), NEW r \in Each(o, S, RevokeLease)
  PROVE  AdmSound(o, r)
<1> DEFINE St == AdmSounds(o)
           After(f, D, x) == UNION {IF q.end = "ok" THEN RevokeLease(q.o, x) ELSE {q} : q \in f[D \ {x}]}
           Is(f) == f = [D \in SUBSET S |-> IF D = {} THEN Ok(o) ELSE UNION {After(f, D, x) : x \in D}]
           J == [D \in SUBSET S |-> AdmOuts(St)]
           F == CHOOSE f : Is(f)
<1>1. o \in St
  BY AdmShrunkSelf DEF AdmSounds, AdmGood, AdmPlain
<1>2. ASSUME NEW p \in St, NEW x \in S, NEW q \in RevokeLease(p, x)
      PROVE  q \in AdmOuts(St)
  <2>1. AdmGood(p) /\ AdmKept(o, p)
    BY DEF AdmSounds
  <2>2. AdmSound(p, q)
    BY <2>1, AdmRevokeLeaseOut
  <2>3. q \in AdmOuts(St)
    BY <2>1, <2>2, AdmKeptOn DEF AdmSound, AdmOuts, AdmSounds
  <2> QED BY <2>2, <2>3 DEF AdmSound, AdmKept, AdmShrunk
<1> HIDE DEF St
<1>3. \E f : Is(f)
  <2> DEFINE g == [a \in St \X S |-> RevokeLease(a[1], a[2])]
  <2>1. g \in [St \X S -> SUBSET AdmOuts(St)] /\ \A p \in St, x \in S : g[<<p, x>>] = RevokeLease(p, x)
    BY <1>2
  <2>2. PICK f \in [SUBSET S -> SUBSET AdmOuts(St)] : AdmLoop(g, o, S, f)
    <3> HIDE DEF g
    <3> QED BY <1>1, <2>1, AdmLoopExists
  <2> HIDE DEF g
  <2> DEFINE U(D, x) == UNION {IF q.end = "ok" THEN g[<<q.o, x>>] ELSE {q} : q \in f[D \ {x}]}
  <2>3. ASSUME NEW D \in SUBSET S, NEW x \in D PROVE U(D, x) = After(f, D, x)
    <3>1. \A q \in f[D \ {x}] : q.o \in St
      BY <2>2 DEF AdmOuts
    <3>2. \A q \in f[D \ {x}] : (IF q.end = "ok" THEN g[<<q.o, x>>] ELSE {q}) = (IF q.end = "ok" THEN RevokeLease(q.o, x) ELSE {q})
      BY <2>1, <3>1
    <3> QED BY <3>2
  <2>4. f = [D \in SUBSET S |-> IF D = {} THEN Ok(o) ELSE UNION {U(D, x) : x \in D}]
    BY <2>2 DEF AdmLoop
  <2>5. \A D \in SUBSET S : UNION {U(D, x) : x \in D} = UNION {After(f, D, x) : x \in D}
    <3> HIDE DEF U, After
    <3> QED BY <2>3
  <2>6. Is(f)
    <3> HIDE DEF U, After
    <3> QED BY <2>4, <2>5
  <2> HIDE DEF Is
  <2> QED BY <2>6
<1>4. Is(F)
  <2> HIDE DEF Is
  <2> QED BY <1>3
<1>5. F = [D \in SUBSET S |-> IF D = {} THEN Ok(o) ELSE UNION {After(F, D, x) : x \in D}]
  <2> HIDE DEF F
  <2> QED BY <1>4
<1>6. Each(o, S, RevokeLease) = F[S]
  BY DEF Each, Then
<1> HIDE DEF F
<1>7. F[{}] \subseteq J[{}]
  BY <1>1, <1>5 DEF Ok, AdmOut, AdmOuts, AdmEnds
<1>8. ASSUME NEW D \in SUBSET S, D # {}, \A x \in D : F[D \ {x}] \subseteq J[D \ {x}]
      PROVE  F[D] \subseteq J[D]
  <2> SUFFICES ASSUME NEW q \in F[D] PROVE q \in AdmOuts(St)
    OBVIOUS
  <2>1. PICK x \in D : q \in After(F, D, x)
    <3> HIDE DEF After
    <3>1. F[D] = UNION {After(F, D, x) : x \in D}
      BY <1>5, <1>8
    <3> QED BY <3>1
  <2>2. PICK e \in F[D \ {x}] : q \in (IF e.end = "ok" THEN RevokeLease(e.o, x) ELSE {e})
    BY <2>1
  <2>3. e \in AdmOuts(St)
    BY <1>8
  <2>4. e.o \in St
    BY <2>3 DEF AdmOuts
  <2>5. CASE e.end = "ok"
    BY <1>2, <2>2, <2>3, <2>4, <2>5
  <2>6. CASE e.end # "ok"
    BY <2>2, <2>3, <2>6
  <2> QED BY <2>5, <2>6
<1>9. r \in J[S]
  <2>1. F[S] \subseteq J[S]
    <3> HIDE DEF J
    <3> QED BY <1>7, <1>8, AdmLoopInducts
  <2> QED BY <1>6, <2>1
<1>10. r \in AdmOuts(St)
  BY <1>9
<1> QED BY <1>10 DEF AdmOuts, AdmSounds, AdmSound, St

\* A sound method keeps the paths swept.
LEMMA AdmSoundSwept ==
  ASSUME NEW o, NEW p, NEW r, AdmSwept(o, p), AdmSound(p, r)
  PROVE  AdmSwept(o, r.o)
BY DEF AdmSwept, AdmSound, AdmKept, AdmShrunk

\* What is swept by a later index is swept by an earlier one.
LEMMA AdmSweptLater ==
  ASSUME NEW o, NEW q, NEW p, AdmSwept(q, p), AdmKept(o, q)
  PROVE  AdmSwept(o, p)
BY DEF AdmSwept, AdmKept, AdmShrunk, AdmKey

\* Expired leases are revoked; a failure fences.
LEMMA AdmExpireOut ==
  ASSUME NEW o, AdmGood(o), NEW r \in AdmExpire(o)
  PROVE  AdmSound(o, r) /\ (r.end = "raise" => ~r.o.activated)
<1>1. PICK L \in SUBSET o.leases : r \in Catch(Each(o, L, RevokeLease), AdmFence)
  BY DEF AdmExpire
<1>2. L \subseteq AdmSid /\ IsFiniteSet(L)
  <2>1. L \subseteq AdmSid
    BY DEF AdmGood, AdmPlain, AdmOwner
  <2> QED BY <2>1, AdmFiniteAssumption, FS_Subset
<1> DEFINE R == Each(o, L, RevokeLease)
<1>3. \A a \in R : AdmSound(o, a) /\ AdmGood(a.o)
  BY <1>2, AdmRevokeAll DEF AdmSound
<1> HIDE DEF R
<1>4. PICK a \in R : \/ a.end # "raise" /\ r = a
                     \/ AdmSound(a.o, r) /\ ~r.o.activated /\ ~r.o.producer /\ r.end # "ok"
  BY <1>1, <1>3, AdmCatchFence DEF R
<1> QED BY <1>3, <1>4, AdmSoundOn

\* The check of the applied generation; a failure leaves admission disabled.
LEMMA AdmCheckGenerationOut ==
  ASSUME NEW o, AdmGood(o), NEW r \in CheckGeneration(o)
  PROVE  /\ AdmSound(o, r) /\ (r.end = "raise" => ~r.o.activated)
         /\ r.end = "ok" => AdmSwept(o, r.o)
<1> DEFINE T == Then(BridgeReconcile(o), LAMBDA p : MayRaise(p) \cup AdmFence(p))
           R == AdmRaise(o) \cup AdmFence(o) \cup T
<1>1. ASSUME NEW b \in T PROVE AdmSound(o, b) /\ (b.end = "ok" => AdmSwept(o, b.o))
  <2>1. PICK a \in BridgeReconcile(o) : b \in (IF a.end = "ok" THEN MayRaise(a.o) \cup AdmFence(a.o) ELSE {a})
    BY <1>1 DEF Then
  <2>2. AdmSound(o, a) /\ AdmGood(a.o) /\ (a.end = "ok" => AdmSwept(o, a.o))
    BY <2>1, AdmBridgeReconcileOut DEF AdmSound
  <2>3. CASE a.end = "ok"
    <3>1. AdmSound(a.o, b)
      BY <2>1, <2>2, <2>3, AdmSelf, AdmFenceOut DEF AdmStep, MayRaise
    <3> QED BY <2>2, <2>3, <3>1, AdmSoundOn, AdmSoundSwept
  <2> QED BY <2>1, <2>2, <2>3
<1> HIDE DEF T
<1>2. \A b \in R : AdmSound(o, b) /\ AdmGood(b.o) /\ (b.end = "ok" => AdmSwept(o, b.o))
  <2>1. \A b \in AdmRaise(o) : AdmSound(o, b) /\ b.end # "ok"
    BY AdmSelf DEF AdmStep
  <2>2. \A b \in AdmFence(o) : AdmSound(o, b) /\ (b.end = "ok" => AdmSwept(o, b.o))
    BY AdmFenceOut
  <2> QED BY <1>1, <2>1, <2>2 DEF AdmSound
<1>3. PICK b \in R : r \in (IF b.end = "raise" THEN Then(BridgeReconcile(Desynchronise(b.o)), AdmRaise) ELSE {b})
  BY DEF CheckGeneration, Catch, T
<1>4. CASE b.end # "raise"
  BY <1>2, <1>3, <1>4
<1>5. CASE b.end = "raise"
  <2> DEFINE d == Desynchronise(b.o)
  <2>1. AdmGood(d) /\ AdmKept(b.o, d) /\ d.activated = FALSE
    BY <1>2, AdmDesyncIs
  <2>2. PICK e \in BridgeReconcile(d) : r \in (IF e.end = "ok" THEN AdmRaise(e.o) ELSE {e})
    BY <1>3, <1>5 DEF Then
  <2> HIDE DEF d
  <2>3. AdmSound(d, e) /\ AdmGood(e.o)
    BY <2>1, <2>2, AdmBridgeReconcileOut DEF AdmSound
  <2>4. AdmSound(e.o, r) /\ r.end # "ok"
    BY <2>2, <2>3, AdmSelf, AdmShrunkSelf DEF AdmStep, AdmSound
  <2>5. AdmSound(d, r)
    BY <2>3, <2>4, AdmSoundOn
  <2> QED BY <1>2, <2>1, <2>4, <2>5, AdmKeptOn DEF AdmSound, AdmKept, AdmShrunk
<1> QED BY <1>4, <1>5

\* What the tick does once the generation is checked.
LEMMA AdmSettleOut ==
  ASSUME NEW o, AdmGood(o), NEW r \in Settle(o)
  PROVE  AdmSound(o, r) /\ (r.end = "raise" => ~r.o.activated)
BY AdmSelf, AdmExpireOut, AdmFenceOut DEF Settle, AdmStep

\* SessionLifecycle.tick: failing, it leaves admission disabled; completing, it
\* leaves only paths that an indexed session uses.
LEMMA AdmTickOut ==
  ASSUME NEW o, AdmGood(o), NEW r \in AdmTick(o)
  PROVE  /\ AdmSound(o, r) /\ (r.end = "raise" => ~r.o.activated)
         /\ r.end = "ok" => AdmSwept(o, r.o)
<1>1. CASE r \in Then(AdmFence(o), AdmRaise)
  <2>1. PICK a \in AdmFence(o) : r \in (IF a.end = "ok" THEN AdmRaise(a.o) ELSE {a})
    BY <1>1 DEF Then
  <2>2. AdmSound(o, a) /\ ~a.o.activated /\ AdmGood(a.o)
    BY <2>1, AdmFenceOut DEF AdmSound
  <2>3. AdmSound(a.o, r) /\ r.end # "ok"
    BY <2>1, <2>2, AdmSelf, AdmShrunkSelf DEF AdmStep, AdmSound
  <2> QED BY <2>2, <2>3, AdmSoundOn DEF AdmSound, AdmKept, AdmShrunk
<1>2. CASE r \in AdmFence(o)
  BY <1>2, AdmFenceOut
<1>3. CASE r \in Then(CheckGeneration(o), Settle)
  <2>1. PICK a \in CheckGeneration(o) : r \in (IF a.end = "ok" THEN Settle(a.o) ELSE {a})
    BY <1>3 DEF Then
  <2>2. AdmSound(o, a) /\ AdmGood(a.o) /\ (a.end = "raise" => ~a.o.activated) /\ (a.end = "ok" => AdmSwept(o, a.o))
    BY <2>1, AdmCheckGenerationOut DEF AdmSound
  <2>3. CASE a.end = "ok"
    <3>1. AdmSound(a.o, r) /\ (r.end = "raise" => ~r.o.activated)
      BY <2>1, <2>2, <2>3, AdmSettleOut
    <3> QED BY <2>2, <2>3, <3>1, AdmSoundOn, AdmSoundSwept
  <2> QED BY <2>1, <2>2, <2>3
<1>4. CASE r \in BridgeReconcile(o)
  BY <1>4, AdmBridgeReconcileOut
<1> QED BY <1>1, <1>2, <1>3, <1>4 DEF AdmTick

-----------------------------------------------------------------------------
\* ---- what admits a session ----

\* From o to p nothing grew but the row of session s.
AdmGrown(o, s, p) ==
  /\ p.leases = o.leases /\ p.producer = o.producer
  /\ p.activated => o.activated
  /\ \A x \in AdmSid : x # s => p.rows[x] = None \/ p.rows[x] = o.rows[x]

\* An outcome from o of a method that admits session s.
AdmAdmits(o, s, r) ==
  /\ r \in AdmOuts(AdmOwner) /\ AdmGood(r.o)
  /\ r.end = "ok" => AdmGrown(o, s, r.o)

\* What admits a session after what admitted it so far.
LEMMA AdmAdmitsOn ==
  ASSUME NEW o, NEW s, NEW q, NEW r, AdmAdmits(o, s, q), q.end = "ok", AdmAdmits(q.o, s, r)
  PROVE  AdmAdmits(o, s, r)
BY DEF AdmAdmits, AdmGrown

\* A method of the policy owner may be a part of an admission.
LEMMA AdmStepAdmits ==
  ASSUME NEW o, NEW s, NEW r, AdmStep(o, r)
  PROVE  AdmAdmits(o, s, r)
BY DEF AdmStep, AdmSound, AdmKept, AdmShrunk, AdmLocal, AdmAdmits, AdmGrown

\* A write, or a transaction, however it ends.
LEMMA AdmSetOut ==
  ASSUME NEW o, AdmGood(o), NEW new, AdmGood(new), new.faults = o.faults,
         NEW r, r \in AdmWrite(o, new) \/ r \in AdmCommit(o, new)
  PROVE  r \in AdmOuts(AdmOwner) /\ AdmGood(r.o) /\ (r.end = "ok" => r.o = new)
<1>1. CASE r \in Ok(new)
  BY <1>1, AdmSelf DEF AdmStep, AdmSound
<1>2. CASE r \in AdmFault(o, {AdmFail(o), AdmFail(new), AdmStop(o), AdmStop(new)})
  <2>1. o.faults < AdmMaxFaults /\ r \in {AdmFail(o), AdmFail(new), AdmStop(o), AdmStop(new)}
    BY <1>2, AdmFaultOut
  <2>2. PICK q \in {o, new} : r.o = Faulted(q) /\ r.end # "ok" /\ r.end \in AdmEnds /\ r = [o |-> r.o, end |-> r.end]
    BY <2>1 DEF AdmFail, AdmStop, AdmOut, AdmEnds
  <2>3. AdmGood(q) /\ q.faults < AdmMaxFaults /\ q \in AdmOwner
    BY <2>1 DEF AdmGood, AdmPlain
  <2>4. AdmGood(r.o)
    BY <2>2, <2>3, AdmFaultedIs DEF AdmGood
  <2> QED BY <2>2, <2>4 DEF AdmOuts, AdmGood, AdmPlain
<1>3. r \in AdmCommit(o, new) => r \in Ok(new) \/ r \in AdmFault(o, {AdmFail(o), AdmFail(new), AdmStop(o), AdmStop(new)})
  BY DEF AdmCommit, AdmFault
<1> QED BY <1>1, <1>2, <1>3 DEF AdmWrite

\* The intent, or a later state, of a path is recorded.
LEMMA AdmPathSet ==
  ASSUME NEW o, AdmGood(o), NEW k \in AdmKey, NEW e \in Path
  PROVE  LET p == [o EXCEPT !.paths[k] = e]
         IN  /\ AdmGood(p) /\ p.faults = o.faults /\ (\A s : AdmGrown(o, s, p))
             /\ p.paths = [o.paths EXCEPT ![k] = e] /\ p.hop = o.hop /\ p.smac = o.smac
<1> DEFINE p == [o EXCEPT !.paths[k] = e]
<1>1. o \in AdmOwner
  BY DEF AdmGood, AdmPlain
<1>2. p \in AdmOwner
  BY <1>1 DEF AdmOwner
<1>3. /\ p.flows = o.flows /\ p.smac = o.smac /\ p.hop = o.hop /\ p.rows = o.rows
      /\ p.saved = o.saved /\ p.state = o.state /\ p.activated = o.activated /\ p.dependencies = o.dependencies
      /\ p.recovery = o.recovery /\ p.producer = o.producer /\ p.leases = o.leases /\ p.faults = o.faults
      /\ p.paths = [o.paths EXCEPT ![k] = e]
  BY <1>1 DEF AdmOwner
<1> HIDE DEF p
<1>4. AdmPlain(p)
  BY <1>2, <1>3, AdmLess DEF AdmGood
<1>5. AdmGood(p) /\ \A s : AdmGrown(o, s, p)
  BY <1>3, <1>4 DEF AdmGood, AdmIndexed, AdmGrown
<1> QED BY <1>3, <1>5 DEF p

\* A source MAC is written where there was none.
LEMMA AdmSmacSet ==
  ASSUME NEW o, AdmGood(o), NEW i \in Index, o.smac[i] = None, NEW e \in Smac
  PROVE  LET p == [o EXCEPT !.smac[i] = e]
         IN  /\ AdmGood(p) /\ p.faults = o.faults /\ (\A s : AdmGrown(o, s, p))
             /\ p.paths = o.paths /\ p.hop = o.hop
<1> DEFINE p == [o EXCEPT !.smac[i] = e]
<1>1. o \in AdmOwner
  BY DEF AdmGood, AdmPlain
<1>2. p \in AdmOwner
  BY <1>1 DEF AdmOwner
<1>3. /\ p.flows = o.flows /\ p.hop = o.hop /\ p.rows = o.rows /\ p.paths = o.paths
      /\ p.saved = o.saved /\ p.state = o.state /\ p.activated = o.activated /\ p.dependencies = o.dependencies
      /\ p.recovery = o.recovery /\ p.producer = o.producer /\ p.leases = o.leases /\ p.faults = o.faults
      /\ p.smac = [o.smac EXCEPT ![i] = e]
  BY <1>1 DEF AdmOwner
<1> HIDE DEF p
<1>4. \A x \in Index : x # i => p.smac[x] = o.smac[x]
  <2>1. DOMAIN o.smac = Index
    BY <1>1 DEF AdmOwner
  <2> QED BY <1>3, <2>1
<1>5. AdmWired(p)
  <2> SUFFICES ASSUME NEW x \in o.flows PROVE o.rows[x] # None /\ AdmLeads(p.hop, p.smac, x, o.rows[x])
    BY <1>3 DEF AdmWired
  <2>1. x \in AdmSid /\ o.rows[x] # None /\ AdmLeads(o.hop, o.smac, x, o.rows[x]) /\ o.rows[x] \in AdmRow
    BY <1>1 DEF AdmOwner, AdmGood, AdmPlain, AdmWired
  <2> DEFINE h == o.hop[o.rows[x].hop]
  <2>2. o.rows[x].hop \in Index
    BY <2>1 DEF AdmRow
  <2>3. h \in Hop
    BY <1>1, <2>1, <2>2 DEF AdmOwner, AdmLeads
  <2>4. [key |-> h.key, plan |-> h.plan] \in Smac /\ h.smac \in Index
    BY <2>3 DEF Hop, Smac
  <2>5. o.smac[h.smac] # None
    BY <2>1, <2>4, NoneIsNoRecord DEF AdmLeads
  <2> QED BY <1>3, <1>4, <2>1, <2>4, <2>5 DEF AdmLeads
<1>6. AdmPlain(p)
  BY <1>2, <1>3, <1>5 DEF AdmGood, AdmPlain, AdmBound, AdmAgree, AdmCurrent
<1>7. AdmGood(p) /\ \A s : AdmGrown(o, s, p)
  BY <1>3, <1>6 DEF AdmGood, AdmIndexed, AdmGrown
<1> QED BY <1>3, <1>7 DEF p

\* A next hop is written where there was none.
LEMMA AdmHopSet ==
  ASSUME NEW o, AdmGood(o), NEW i \in Index, o.hop[i] = None, NEW e \in Hop
  PROVE  LET p == [o EXCEPT !.hop[i] = e]
         IN  /\ AdmGood(p) /\ p.faults = o.faults /\ (\A s : AdmGrown(o, s, p))
             /\ p.paths = o.paths /\ p.smac = o.smac
<1> DEFINE p == [o EXCEPT !.hop[i] = e]
<1>1. o \in AdmOwner
  BY DEF AdmGood, AdmPlain
<1>2. p \in AdmOwner
  BY <1>1 DEF AdmOwner
<1>3. /\ p.flows = o.flows /\ p.smac = o.smac /\ p.rows = o.rows /\ p.paths = o.paths
      /\ p.saved = o.saved /\ p.state = o.state /\ p.activated = o.activated /\ p.dependencies = o.dependencies
      /\ p.recovery = o.recovery /\ p.producer = o.producer /\ p.leases = o.leases /\ p.faults = o.faults
      /\ p.hop = [o.hop EXCEPT ![i] = e]
  BY <1>1 DEF AdmOwner
<1> HIDE DEF p
<1>4. \A x \in Index : x # i => p.hop[x] = o.hop[x]
  <2>1. DOMAIN o.hop = Index
    BY <1>1 DEF AdmOwner
  <2> QED BY <1>3, <2>1
<1>5. AdmWired(p)
  <2> SUFFICES ASSUME NEW x \in o.flows PROVE o.rows[x] # None /\ AdmLeads(p.hop, p.smac, x, o.rows[x])
    BY <1>3 DEF AdmWired
  <2>1. x \in AdmSid /\ o.rows[x] # None /\ AdmLeads(o.hop, o.smac, x, o.rows[x]) /\ o.rows[x] \in AdmRow
    BY <1>1 DEF AdmOwner, AdmGood, AdmPlain, AdmWired
  <2>2. o.rows[x].hop \in Index /\ o.rows[x].hop # i
    BY <2>1 DEF AdmRow, AdmLeads
  <2> QED BY <1>3, <1>4, <2>1, <2>2 DEF AdmLeads
<1>6. AdmPlain(p)
  BY <1>2, <1>3, <1>5 DEF AdmGood, AdmPlain, AdmBound, AdmAgree, AdmCurrent
<1>7. AdmGood(p) /\ \A s : AdmGrown(o, s, p)
  BY <1>3, <1>6 DEF AdmGood, AdmIndexed, AdmGrown
<1> QED BY <1>3, <1>7 DEF p

\* The row, with or without its entry in the table, of a session that had none.
LEMMA AdmRowIs ==
  ASSUME NEW o, AdmGood(o), ~o.recovery, NEW s \in AdmSid, o.rows[s] = None,
         NEW row \in AdmRow, row.rev = o.state.rev, row.att = o.state.att,
         AdmLeads(o.hop, o.smac, s, row),
         NEW p, p = WithRow(o, s, row) \/ p = WithFlow(o, s, row)
  PROVE  /\ AdmGood(p) /\ AdmGrown(o, s, p) /\ p.faults = o.faults
         /\ p.rows[s] = row
<1>1. o \in AdmOwner
  BY DEF AdmGood, AdmPlain
<1>2. p \in AdmOwner
  <2>1. WithRow(o, s, row) \in AdmOwner
    BY <1>1 DEF AdmOwner, WithRow
  <2>2. WithFlow(o, s, row) \in AdmOwner
    <3>1. [o.rows EXCEPT ![s] = row] \in [AdmSid -> AdmRow \cup {None}] /\ o.flows \cup {s} \in SUBSET AdmSid
      BY <1>1 DEF AdmOwner
    <3> QED BY <1>1, <3>1 DEF AdmOwner, WithFlow
  <2> QED BY <2>1, <2>2
<1>3. /\ p.hop = o.hop /\ p.smac = o.smac
      /\ p.saved = o.saved /\ p.state = o.state /\ p.activated = o.activated /\ p.dependencies = o.dependencies
      /\ p.recovery = o.recovery /\ p.producer = o.producer /\ p.leases = o.leases /\ p.faults = o.faults
      /\ p.rows = [o.rows EXCEPT ![s] = row] /\ p.flows \subseteq o.flows \cup {s}
  <2>1. CASE p = WithRow(o, s, row)
    BY <1>1, <2>1 DEF AdmOwner, WithRow
  <2>2. CASE p = WithFlow(o, s, row)
    BY <1>1, <2>2 DEF AdmOwner, WithFlow
  <2> QED BY <2>1, <2>2
<1>4. p.rows[s] = row /\ row # None /\ \A x \in AdmSid : x # s => p.rows[x] = o.rows[x]
  <2>1. DOMAIN o.rows = AdmSid
    BY <1>1 DEF AdmOwner
  <2> QED BY <1>3, <2>1, NoneIsNoRecord
<1>5. AdmWired(p)
  <2> SUFFICES ASSUME NEW x \in p.flows PROVE p.rows[x] # None /\ AdmLeads(p.hop, p.smac, x, p.rows[x])
    BY DEF AdmWired
  <2>1. CASE x = s
    BY <1>3, <1>4, <2>1
  <2>2. CASE x # s
    <3>1. x \in o.flows /\ x \in AdmSid
      BY <1>1, <1>3, <2>2 DEF AdmOwner
    <3> QED BY <1>3, <1>4, <2>2, <3>1 DEF AdmGood, AdmPlain, AdmWired
  <2> QED BY <2>1, <2>2
<1>6. AdmAgree(p)
  BY <1>3, <1>4 DEF AdmAgree, AdmGood, AdmPlain, AdmIndexed
<1>7. AdmCurrent(p) /\ AdmBound(p)
  BY <1>3, <1>4 DEF AdmGood, AdmPlain, AdmCurrent, AdmBound
<1>8. AdmIndexed(p)
  BY <1>3, <1>4 DEF AdmGood, AdmIndexed
<1> QED BY <1>2, <1>3, <1>4, <1>5, <1>6, <1>7, <1>8 DEF AdmGood, AdmPlain, AdmGrown

\* SessionManager.install: the row first, and recovery due if it fails.
LEMMA AdmInstallOut ==
  ASSUME NEW o, AdmGood(o), NEW s \in AdmSid,
         NEW row \in AdmRow, row.rev = o.state.rev, row.att = o.state.att,
         AdmLeads(o.hop, o.smac, s, row),
         NEW r \in Install(o, s, row)
  PROVE  AdmAdmits(o, s, r) /\ (r.end = "ok" => r.o.rows[s] = row)
<1>1. CASE r \in AdmRaise(o)
  BY <1>1, AdmSelf, AdmStepAdmits
<1>2. CASE ~(o.recovery \/ o.rows[s] # None) /\ r \in Ok(WithFlow(o, s, row))
  <2> DEFINE w == WithFlow(o, s, row)
  <2>1. AdmGood(w) /\ AdmGrown(o, s, w) /\ w.rows[s] = row
    BY <1>2, AdmRowIs
  <2> HIDE DEF w
  <2>2. AdmStep(w, r) /\ r.o = w
    BY <1>2, <2>1, AdmSelf DEF w
  <2> QED BY <2>1, <2>2 DEF AdmAdmits, AdmStep, AdmSound
<1>3. CASE /\ ~(o.recovery \/ o.rows[s] # None)
           /\ r \in AdmFault(o, {AdmFail(Suspect(o)), AdmStop(o)}
                        \cup UNION {{AdmFail(Suspect(p)), AdmStop(p)} :
                                         p \in {WithRow(o, s, row), WithFlow(o, s, row)}})
  <2>1. /\ o.faults < AdmMaxFaults
        /\ \E p \in {o, WithRow(o, s, row), WithFlow(o, s, row)} : r = AdmFail(Suspect(p)) \/ r = AdmStop(p)
    BY <1>3, AdmFaultOut
  <2>2. PICK p \in {o, WithRow(o, s, row), WithFlow(o, s, row)} : r = AdmFail(Suspect(p)) \/ r = AdmStop(p)
    BY <2>1
  <2>3. AdmGood(p) /\ p.faults = o.faults
    BY <1>3, <2>2, AdmRowIs
  <2>4. AdmGood(Suspect(p)) /\ Suspect(p).faults = o.faults
    BY <2>3, AdmSuspectIs DEF AdmGood
  <2>5. PICK q \in {p, Suspect(p)} : r.o = Faulted(q) /\ r.end # "ok" /\ r.end \in AdmEnds /\ r = [o |-> r.o, end |-> r.end]
    BY <2>2 DEF AdmFail, AdmStop, AdmOut, AdmEnds
  <2>6. AdmGood(q) /\ q.faults < AdmMaxFaults /\ q \in AdmOwner
    BY <2>1, <2>3, <2>4 DEF AdmGood, AdmPlain
  <2>7. AdmGood(r.o)
    BY <2>5, <2>6, AdmFaultedIs DEF AdmGood
  <2> QED BY <2>5, <2>7 DEF AdmAdmits, AdmOuts, AdmGood, AdmPlain
<1> QED BY <1>1, <1>2, <1>3 DEF Install

\* The pair leads to the next hop of a path that just read back ready.
LEMMA AdmProgramPairOut ==
  ASSUME NEW o, AdmGood(o), AdmissionEnabled(o), NEW s \in AdmSid, NEW d \in Dep,
         o.paths[<<s, d.rev>>].hop = d.hop,
         NEW r \in ProgramPair(o, s, d)
  PROVE  AdmAdmits(o, s, r) /\ (r.end = "ok" => r.o.rows[s] # None /\ r.o.rows[s].rev = d.rev)
<1>1. CASE r \in AdmRaise(o)
  BY <1>1, AdmSelf, AdmStepAdmits DEF AdmRaise, AdmOut
<1>2. CASE /\ d.rev = o.state.rev /\ PathReady(o, <<s, d.rev>>)
           /\ r \in Install(o, s, [rev |-> o.state.rev, hop |-> d.hop, att |-> o.state.att])
  <2> DEFINE row == [rev |-> o.state.rev, hop |-> d.hop, att |-> o.state.att]
             k == <<s, d.rev>>
             q == o.paths[k]
             h == [key |-> k, plan |-> q.plan, smac |-> q.smac]
  <2>1. o \in AdmOwner /\ d.rev \in AdmRev /\ d.hop \in Index
    BY DEF AdmGood, AdmPlain, Dep
  <2>2. k \in AdmKey
    BY <2>1 DEF AdmKey
  <2>3. /\ q # None /\ o.smac[q.smac] = [key |-> k, plan |-> q.plan] /\ o.hop[q.hop] = h
    BY <1>2 DEF PathReady
  <2>4. q \in Path
    BY <2>1, <2>2, <2>3 DEF AdmOwner
  <2>5. h \in Hop
    BY <2>2, <2>4 DEF Hop, Path
  <2>6. row \in AdmRow
    <3>1. o.state.att \in Bind
      BY <2>1 DEF AdmOwner, Policy, AdmissionEnabled, AdmGood, AdmPlain, AdmBound
    <3> QED BY <1>2, <2>1, <3>1 DEF AdmRow
  <2>7. AdmLeads(o.hop, o.smac, s, row)
    <3>1. o.hop[row.hop] = h /\ row.rev = d.rev
      BY <1>2, <2>3
    <3>2. h # None
      BY <2>5, NoneIsNoRecord
    <3> QED BY <2>3, <3>1, <3>2 DEF AdmLeads
  <2>8. row.rev = o.state.rev /\ row.att = o.state.att /\ row # None
    BY <2>6, NoneIsNoRecord
  <2>9. r \in Install(o, s, row)
    BY <1>2
  <2> HIDE DEF row, k, q, h
  <2> QED BY <1>2, <2>6, <2>7, <2>8, <2>9, AdmInstallOut
<1> QED BY <1>1, <1>2 DEF ProgramPair

\* The path of a session that has its row becomes known.
LEMMA AdmDependOut ==
  ASSUME NEW o, AdmGood(o), NEW s \in AdmSid, NEW d \in Dep, o.rows[s] # None, o.rows[s].rev = d.rev,
         NEW r \in Depend(o, s, d)
  PROVE  AdmAdmits(o, s, r)
<1> DEFINE p == [o EXCEPT !.dependencies[s] = d]
<1>1. o \in AdmOwner
  BY DEF AdmGood, AdmPlain
<1>2. p \in AdmOwner
  BY <1>1 DEF AdmOwner
<1>3. /\ p.flows = o.flows /\ p.smac = o.smac /\ p.hop = o.hop /\ p.rows = o.rows
      /\ p.saved = o.saved /\ p.state = o.state /\ p.activated = o.activated
      /\ p.recovery = o.recovery /\ p.producer = o.producer /\ p.leases = o.leases
      /\ p.dependencies = [o.dependencies EXCEPT ![s] = d]
  BY <1>1 DEF AdmOwner
<1>4. r.o = p /\ r = [o |-> p, end |-> "ok"]
  BY DEF Depend, Ok, AdmOut
<1> HIDE DEF p
<1>5. p.dependencies[s] = d /\ \A x \in AdmSid : x # s => p.dependencies[x] = o.dependencies[x]
  <2>1. DOMAIN o.dependencies = AdmSid
    BY <1>1 DEF AdmOwner
  <2> QED BY <1>3, <2>1
<1>6. AdmBound(p) /\ AdmWired(p) /\ AdmAgree(p) /\ AdmCurrent(p) /\ AdmIndexed(p)
  <2>1. AdmBound(p) /\ AdmWired(p) /\ AdmCurrent(p)
    BY <1>3 DEF AdmGood, AdmPlain, AdmBound, AdmWired, AdmCurrent
  <2>2. AdmAgree(p) /\ AdmIndexed(p)
    BY <1>3, <1>5 DEF AdmGood, AdmPlain, AdmAgree, AdmIndexed
  <2> QED BY <2>1, <2>2
<1>7. AdmGrown(o, s, p)
  BY <1>3 DEF AdmGrown
<1> QED BY <1>2, <1>4, <1>6, <1>7 DEF AdmAdmits, AdmOuts, AdmEnds, AdmGood, AdmPlain

\* The checks before and after the pair: an outcome that passes them is enabled.
LEMMA AdmCheckedOut ==
  ASSUME NEW o, NEW s, NEW R, \A a \in R : AdmAdmits(o, s, a),
         NEW r \in Then(Then(R, Reconcile), RequireEnabled)
  PROVE  /\ AdmAdmits(o, s, r)
         /\ r.end = "ok" => AdmissionEnabled(r.o) /\ \E a \in R : a.end = "ok" /\ r.o.paths = a.o.paths
<1>1. PICK b \in Then(R, Reconcile) : r \in (IF b.end = "ok" THEN RequireEnabled(b.o) ELSE {b})
  BY DEF Then
<1>2. PICK a \in R : b \in (IF a.end = "ok" THEN Reconcile(a.o) ELSE {a})
  BY <1>1 DEF Then
<1>3. AdmAdmits(o, s, a) /\ AdmGood(a.o)
  BY <1>2 DEF AdmAdmits
<1>4. CASE a.end # "ok"
  BY <1>1, <1>2, <1>3, <1>4
<1>5. CASE a.end = "ok"
  <2>1. AdmStep(a.o, b) /\ AdmGood(b.o) /\ b.o.paths = a.o.paths
    BY <1>2, <1>3, <1>5, AdmReconcileOut DEF AdmStep, AdmSound, AdmLocal
  <2>2. AdmAdmits(o, s, b)
    BY <1>3, <1>5, <2>1, AdmStepAdmits, AdmAdmitsOn
  <2>3. CASE b.end # "ok"
    BY <1>1, <2>2, <2>3
  <2>4. CASE b.end = "ok"
    <3>1. r \in RequireEnabled(b.o)
      BY <1>1, <2>4
    <3>2. AdmStep(b.o, r) /\ r.o = b.o /\ (r.end = "ok" => AdmissionEnabled(b.o))
      BY <2>1, <3>1, AdmSelf DEF RequireEnabled, AdmRaise, AdmOut
    <3>3. AdmAdmits(o, s, r)
      BY <2>2, <2>4, <3>2, AdmStepAdmits, AdmAdmitsOn
    <3> QED BY <1>5, <2>1, <3>2, <3>3
  <2> QED BY <2>3, <2>4
<1> QED BY <1>4, <1>5

\* PolicyOwner.admit_pair adds this one session at most.
LEMMA AdmAdmitPairOut ==
  ASSUME NEW o, AdmGood(o), NEW s \in AdmSid, NEW d \in Dep, o.paths[<<s, d.rev>>].hop = d.hop,
         NEW r \in AdmitPair(o, s, d)
  PROVE  AdmAdmits(o, s, r)
<1> DEFINE R1 == Then(Then(RequireEnabled(o), Reconcile), RequireEnabled)
           R2 == Then(R1, LAMBDA p : ProgramPair(p, s, d))
           R3 == Then(R2, LAMBDA p : Depend(p, s, d))
<1>1. r \in Then(Then(R3, Reconcile), RequireEnabled)
  BY DEF AdmitPair
<1>2. ASSUME NEW a \in R1 PROVE AdmAdmits(o, s, a) /\ (a.end = "ok" => AdmissionEnabled(a.o) /\ a.o.paths = o.paths)
  <2>1. \A b \in RequireEnabled(o) : AdmAdmits(o, s, b) /\ b.o.paths = o.paths
    BY AdmSelf, AdmStepAdmits DEF RequireEnabled
  <2> DEFINE E == RequireEnabled(o)
  <2>2. a \in Then(Then(E, Reconcile), RequireEnabled) /\ \A b \in E : AdmAdmits(o, s, b) /\ b.o.paths = o.paths
    BY <1>2, <2>1
  <2> HIDE DEF E
  <2> QED BY <2>2, AdmCheckedOut
<1> HIDE DEF R1
<1>3. ASSUME NEW b \in R2
      PROVE  AdmAdmits(o, s, b) /\ (b.end = "ok" => b.o.rows[s] # None /\ b.o.rows[s].rev = d.rev)
  <2>1. PICK a \in R1 : b \in (IF a.end = "ok" THEN ProgramPair(a.o, s, d) ELSE {a})
    BY <1>3 DEF Then
  <2>2. AdmAdmits(o, s, a) /\ AdmGood(a.o) /\ (a.end = "ok" => AdmissionEnabled(a.o) /\ a.o.paths = o.paths)
    BY <1>2, <2>1 DEF AdmAdmits
  <2>3. CASE a.end = "ok"
    <3>1. AdmAdmits(a.o, s, b) /\ (b.end = "ok" => b.o.rows[s] # None /\ b.o.rows[s].rev = d.rev)
      BY <2>1, <2>2, <2>3, AdmProgramPairOut
    <3> QED BY <2>2, <2>3, <3>1, AdmAdmitsOn
  <2> QED BY <2>1, <2>2, <2>3
<1> HIDE DEF R2
<1>4. ASSUME NEW c \in R3 PROVE AdmAdmits(o, s, c)
  <2>1. PICK b \in R2 : c \in (IF b.end = "ok" THEN Depend(b.o, s, d) ELSE {b})
    BY <1>4 DEF Then
  <2>2. AdmAdmits(o, s, b) /\ AdmGood(b.o)
    BY <1>3, <2>1 DEF AdmAdmits
  <2>3. CASE b.end = "ok"
    <3>1. AdmAdmits(b.o, s, c)
      BY <1>3, <2>1, <2>2, <2>3, AdmDependOut
    <3> QED BY <2>2, <2>3, <3>1, AdmAdmitsOn
  <2> QED BY <2>1, <2>2, <2>3
<1> HIDE DEF R3
<1> QED BY <1>1, <1>4, AdmCheckedOut

\* An except clause that only demands recovery of the paths.
LEMMA AdmCatchSuspect ==
  ASSUME NEW o, NEW s, NEW R, \A a \in R : AdmAdmits(o, s, a), NEW r \in Catch(R, PathSuspect)
  PROVE  AdmAdmits(o, s, r) /\ (r.end = "ok" => r \in R)
<1>1. PICK a \in R : r \in (IF a.end = "raise" THEN Then(PathSuspect(a.o), AdmRaise) ELSE {a})
  BY DEF Catch
<1>2. AdmAdmits(o, s, a) /\ AdmGood(a.o)
  BY <1>1 DEF AdmAdmits
<1>3. CASE a.end = "raise"
  BY <1>1, <1>2, <1>3, AdmPathSuspectOut DEF AdmAdmits, AdmSound
<1> QED BY <1>1, <1>2, <1>3

\* A write, or a check, after what was done so far.
LEMMA AdmThenMayRaise ==
  ASSUME NEW o, NEW s, NEW R, \A a \in R : AdmAdmits(o, s, a), NEW r \in Then(R, MayRaise)
  PROVE  AdmAdmits(o, s, r) /\ (r.end = "ok" => \E a \in R : a.end = "ok" /\ r.o = a.o)
<1>1. PICK a \in R : r \in (IF a.end = "ok" THEN MayRaise(a.o) ELSE {a})
  BY DEF Then
<1>2. AdmAdmits(o, s, a) /\ AdmGood(a.o)
  BY <1>1 DEF AdmAdmits
<1>3. CASE a.end = "ok"
  <2>1. AdmStep(a.o, r) /\ r.o = a.o
    BY <1>1, <1>2, <1>3, AdmSelf DEF MayRaise
  <2> QED BY <1>2, <1>3, <2>1, AdmStepAdmits, AdmAdmitsOn
<1> QED BY <1>1, <1>2, <1>3

\* PathOwner.acquire writes to free indices only, and completing leaves the path.
LEMMA AdmAcquireOut ==
  ASSUME NEW o, AdmGood(o), NEW s \in AdmSid, NEW rev \in AdmRev, NEW plan \in Plan,
         NEW r \in Acquire(o, <<s, rev>>, plan)
  PROVE  AdmAdmits(o, s, r) /\ (r.end = "ok" => r.o.paths[<<s, rev>>] # None)
<1> DEFINE k == <<s, rev>>
           i == CHOOSE x \in FreeSmac(o) : TRUE
           j == CHOOSE x \in FreeHop(o) : TRUE
           path == [state |-> "installing", plan |-> plan, smac |-> i, hop |-> j]
           se == [key |-> k, plan |-> plan]
           he == [key |-> k, plan |-> plan, smac |-> i]
           InsertSmac(p) == AdmWrite(p, [p EXCEPT !.smac[i] = se])
           InsertHop(p) == AdmWrite(p, [p EXCEPT !.hop[j] = he])
           Commissioned(p) == AdmCommit(p, [p EXCEPT !.paths[k].state = "ready"])
           I == AdmCommit(o, [o EXCEPT !.paths[k] = path])
           R0 == Catch(I, PathSuspect)
           R1(p) == Then(MayRaise(p), InsertSmac)
           R2(p) == Then(R1(p), MayRaise)
           R3(p) == Then(R2(p), InsertHop)
           R4(p) == Then(R3(p), LAMBDA q : Then(MayRaise(q), Commissioned))
           R5(p) == Then(R4(p), MayRaise)
<1>1. CASE r \in AdmRaise(o)
  BY <1>1, AdmSelf, AdmStepAdmits
<1>2. CASE /\ ~(o.pathRecovery \/ o.paths[k] # None \/ FreeSmac(o) = {} \/ FreeHop(o) = {})
           /\ r \in Then(R0, LAMBDA p : Catch(R5(p), PathSuspect))
  <2>1. i \in Index /\ j \in Index /\ o.smac[i] = None /\ o.hop[j] = None
    BY <1>2 DEF FreeSmac, FreeHop
  <2>2. k \in AdmKey
    BY DEF AdmKey
  <2>3. path \in Path /\ se \in Smac /\ he \in Hop
    BY <2>1, <2>2 DEF Path, Smac, Hop
  <2>4. path # None
    BY <2>3, NoneIsNoRecord
  <2>5. PICK a \in R0 : r \in (IF a.end = "ok" THEN Catch(R5(a.o), PathSuspect) ELSE {a})
    BY <1>2 DEF Then
  <2> HIDE DEF i, j, se, he, path, k, R0
  <2>6. ASSUME NEW b \in I
        PROVE  AdmAdmits(o, s, b) /\ (b.end = "ok" => b.o.paths[k] = path /\ b.o.smac[i] = None /\ b.o.hop[j] = None)
    <3> DEFINE p == [o EXCEPT !.paths[k] = path]
    <3>1. /\ AdmGood(p) /\ p.faults = o.faults /\ AdmGrown(o, s, p)
          /\ p.paths = [o.paths EXCEPT ![k] = path] /\ p.hop = o.hop /\ p.smac = o.smac
      BY <2>2, <2>3, AdmPathSet
    <3>2. p.paths[k] = path
      BY <2>2, <3>1 DEF AdmGood, AdmPlain, AdmOwner
    <3>3. b \in AdmCommit(o, p)
      BY <2>6
    <3> HIDE DEF p
    <3>4. b \in AdmOuts(AdmOwner) /\ AdmGood(b.o) /\ (b.end = "ok" => b.o = p)
      BY <3>1, <3>3, AdmSetOut
    <3> QED BY <2>1, <3>1, <3>2, <3>4 DEF AdmAdmits
  <2>7. AdmAdmits(o, s, a) /\ (a.end = "ok" => a.o.paths[k] = path /\ a.o.smac[i] = None /\ a.o.hop[j] = None)
    BY <2>5, <2>6, AdmCatchSuspect DEF R0
  <2>8. CASE a.end # "ok"
    BY <2>5, <2>7, <2>8
  <2>9. CASE a.end = "ok"
    <3> DEFINE p == a.o
    <3>1. AdmGood(p) /\ p.paths[k] = path /\ p.smac[i] = None /\ p.hop[j] = None
      BY <2>7, <2>9 DEF AdmAdmits
    <3>2. r \in Catch(R5(p), PathSuspect)
      BY <2>5, <2>9
    <3>3. ASSUME NEW b \in R1(p)
          PROVE  AdmAdmits(p, s, b) /\ (b.end = "ok" => b.o.paths[k] = path /\ b.o.hop[j] = None)
      <4>1. PICK c \in MayRaise(p) : b \in (IF c.end = "ok" THEN InsertSmac(c.o) ELSE {c})
        BY <3>3 DEF Then
      <4>2. AdmStep(p, c) /\ c.o = p
        BY <3>1, <4>1, AdmSelf DEF MayRaise
      <4>3. CASE c.end = "ok"
        <5> DEFINE w == [p EXCEPT !.smac[i] = se]
        <5>1. AdmGood(w) /\ w.faults = p.faults /\ AdmGrown(p, s, w) /\ w.paths = p.paths /\ w.hop = p.hop
          BY <2>1, <2>3, <3>1, AdmSmacSet
        <5>2. b \in AdmWrite(p, w)
          BY <4>1, <4>2, <4>3
        <5> HIDE DEF w
        <5>3. b \in AdmOuts(AdmOwner) /\ AdmGood(b.o) /\ (b.end = "ok" => b.o = w)
          BY <3>1, <5>1, <5>2, AdmSetOut
        <5> QED BY <3>1, <5>1, <5>3 DEF AdmAdmits
      <4> QED BY <4>1, <4>2, <4>3, AdmStepAdmits
    <3> HIDE DEF R1
    <3>4. ASSUME NEW b \in R2(p)
          PROVE  AdmAdmits(p, s, b) /\ (b.end = "ok" => b.o.paths[k] = path /\ b.o.hop[j] = None)
      BY <3>3, <3>4, AdmThenMayRaise
    <3> HIDE DEF R2
    <3>5. ASSUME NEW b \in R3(p)
          PROVE  AdmAdmits(p, s, b) /\ (b.end = "ok" => b.o.paths[k] = path)
      <4>1. PICK c \in R2(p) : b \in (IF c.end = "ok" THEN InsertHop(c.o) ELSE {c})
        BY <3>5 DEF Then
      <4>2. AdmAdmits(p, s, c) /\ AdmGood(c.o)
        BY <3>4, <4>1 DEF AdmAdmits
      <4>3. CASE c.end = "ok"
        <5> DEFINE x == c.o
                   w == [x EXCEPT !.hop[j] = he]
        <5>0. AdmGood(x) /\ x.hop[j] = None /\ x.paths[k] = path
          BY <3>4, <4>1, <4>2, <4>3
        <5>2. b \in AdmWrite(x, w)
          BY <4>1, <4>3
        <5> HIDE DEF x
        <5>1. AdmGood(w) /\ w.faults = x.faults /\ AdmGrown(x, s, w) /\ w.paths = x.paths
          BY <2>1, <2>3, <5>0, AdmHopSet
        <5> HIDE DEF w
        <5>3. b \in AdmOuts(AdmOwner) /\ AdmGood(b.o) /\ (b.end = "ok" => b.o = w)
          BY <5>0, <5>1, <5>2, AdmSetOut
        <5>4. AdmAdmits(x, s, b)
          BY <5>1, <5>3 DEF AdmAdmits
        <5> QED BY <4>2, <4>3, <5>0, <5>1, <5>3, <5>4, AdmAdmitsOn DEF x
      <4> QED BY <4>1, <4>2, <4>3
    <3> HIDE DEF R3
    <3>6. ASSUME NEW b \in R4(p)
          PROVE  AdmAdmits(p, s, b) /\ (b.end = "ok" => b.o.paths[k] # None)
      <4>1. PICK c \in R3(p) : b \in (IF c.end = "ok" THEN Then(MayRaise(c.o), Commissioned) ELSE {c})
        BY <3>6 DEF Then
      <4>2. AdmAdmits(p, s, c) /\ AdmGood(c.o)
        BY <3>5, <4>1 DEF AdmAdmits
      <4>3. CASE c.end = "ok"
        <5>1. PICK e \in MayRaise(c.o) : b \in (IF e.end = "ok" THEN Commissioned(e.o) ELSE {e})
          BY <4>1, <4>3 DEF Then
        <5>2. AdmStep(c.o, e) /\ e.o = c.o
          BY <4>2, <5>1, AdmSelf DEF MayRaise
        <5>3. CASE e.end # "ok"
          BY <4>2, <4>3, <5>1, <5>2, <5>3, AdmStepAdmits, AdmAdmitsOn
        <5>4. CASE e.end = "ok"
          <6> DEFINE x == c.o
                     done == [path EXCEPT !.state = "ready"]
                     w == [x EXCEPT !.paths[k] = done]
          <6>0. AdmGood(x) /\ x.paths[k] = path
            BY <3>5, <4>1, <4>2, <4>3
          <6>1. b \in AdmCommit(x, [x EXCEPT !.paths[k].state = "ready"])
            BY <5>1, <5>2, <5>4
          <6> HIDE DEF x
          <6>2. b \in AdmCommit(x, w)
            BY <6>0, <6>1
          <6>3. done \in Path
            BY <2>3 DEF Path
          <6> HIDE DEF done
          <6>4. /\ AdmGood(w) /\ w.faults = x.faults /\ AdmGrown(x, s, w)
                /\ w.paths = [x.paths EXCEPT ![k] = done]
            BY <2>2, <6>0, <6>3, AdmPathSet
          <6>5. w.paths[k] = done /\ done # None
            BY <2>2, <6>0, <6>3, <6>4, NoneIsNoRecord DEF AdmGood, AdmPlain, AdmOwner
          <6> HIDE DEF w
          <6>6. b \in AdmOuts(AdmOwner) /\ AdmGood(b.o) /\ (b.end = "ok" => b.o = w)
            BY <6>0, <6>2, <6>4, AdmSetOut
          <6>7. AdmAdmits(x, s, b)
            BY <6>4, <6>6 DEF AdmAdmits
          <6> QED BY <4>2, <4>3, <6>5, <6>6, <6>7, AdmAdmitsOn DEF x
        <5> QED BY <5>3, <5>4
      <4> QED BY <4>1, <4>2, <4>3
    <3> HIDE DEF R4
    <3>7. ASSUME NEW b \in R5(p)
          PROVE  AdmAdmits(p, s, b) /\ (b.end = "ok" => b.o.paths[k] # None)
      BY <3>6, <3>7, AdmThenMayRaise
    <3> HIDE DEF R5
    <3>8. AdmAdmits(p, s, r) /\ (r.end = "ok" => r.o.paths[k] # None)
      BY <3>2, <3>7, AdmCatchSuspect
    <3> QED BY <2>7, <2>9, <3>8, AdmAdmitsOn DEF k
  <2> QED BY <2>8, <2>9
<1>3. \/ r \in AdmRaise(o)
      \/ /\ ~(o.pathRecovery \/ o.paths[k] # None \/ FreeSmac(o) = {} \/ FreeHop(o) = {})
         /\ r \in Then(R0, LAMBDA p : Catch(R5(p), PathSuspect))
  BY DEF Acquire
<1> QED BY <1>1, <1>2, <1>3

\* A partial admission is drained, then its path released.
LEMMA AdmUndoOut ==
  ASSUME NEW o, AdmGood(o), NEW k \in AdmKey, NEW r \in Then(AdmUndo(o, k), AdmRaise)
  PROVE  r \in AdmOuts(AdmOwner) /\ AdmGood(r.o) /\ r.end # "ok"
<1>1. PICK a \in AdmUndo(o, k) : r \in (IF a.end = "ok" THEN AdmRaise(a.o) ELSE {a})
  BY DEF Then
<1>2. PICK b \in Reconcile(Deactivate(o)) : a \in (IF b.end = "ok" THEN AdmRelease(b.o, k) ELSE {b})
  BY <1>1 DEF AdmUndo, Then
<1> DEFINE d == Deactivate(o)
<1>3. AdmGood(d)
  BY AdmDeactivateIs DEF AdmGood
<1> HIDE DEF d
<1>4. b \in AdmOuts(AdmOwner) /\ AdmGood(b.o)
  BY <1>2, <1>3, AdmReconcileOut DEF AdmStep, AdmSound, d
<1>5. a \in AdmOuts(AdmOwner) /\ AdmGood(a.o)
  BY <1>2, <1>4, AdmReleaseOut DEF AdmSound
<1>6. CASE a.end = "ok"
  BY <1>1, <1>5, <1>6, AdmSelf DEF AdmStep, AdmSound, AdmRaise, AdmOut
<1> QED BY <1>1, <1>5, <1>6

\* A path is acquired and the pair admitted, or both are undone.
LEMMA AdmAcquireAndAdmitOut ==
  ASSUME NEW o, AdmGood(o), NEW s \in AdmSid, NEW rev \in AdmRev, NEW plan \in Plan,
         NEW r \in AcquireAndAdmit(o, s, rev, plan)
  PROVE  AdmAdmits(o, s, r)
<1> DEFINE k == <<s, rev>>
           D(p) == [rev |-> rev, plan |-> plan, hop |-> p.paths[k].hop]
           R == Then(Acquire(o, k, plan), LAMBDA p : AdmitPair(p, s, D(p)))
<1>0. k \in AdmKey
  BY DEF AdmKey
<1>1. r \in AdmRaise(o) \/ r \in Catch(R, LAMBDA p : AdmUndo(p, k))
  BY DEF AcquireAndAdmit
<1>2. ASSUME NEW b \in R PROVE AdmAdmits(o, s, b)
  <2>1. PICK a \in Acquire(o, k, plan) : b \in (IF a.end = "ok" THEN AdmitPair(a.o, s, D(a.o)) ELSE {a})
    BY <1>2 DEF Then
  <2>2. AdmAdmits(o, s, a) /\ AdmGood(a.o) /\ (a.end = "ok" => a.o.paths[k] # None)
    BY <2>1, AdmAcquireOut DEF AdmAdmits
  <2>3. CASE a.end = "ok"
    <3> DEFINE d == D(a.o)
    <3>1. a.o.paths[k] \in Path
      BY <1>0, <2>2, <2>3 DEF AdmGood, AdmPlain, AdmOwner
    <3>2. d \in Dep /\ d.rev = rev /\ d.hop = a.o.paths[k].hop
      BY <3>1 DEF Dep, Path
    <3>3. b \in AdmitPair(a.o, s, d)
      BY <2>1, <2>3
    <3>4. a.o.paths[<<s, d.rev>>].hop = d.hop
      BY <3>2
    <3> HIDE DEF d
    <3>5. AdmAdmits(a.o, s, b)
      BY <2>2, <3>2, <3>3, <3>4, AdmAdmitPairOut
    <3> QED BY <2>2, <2>3, <3>5, AdmAdmitsOn
  <2> QED BY <2>1, <2>2, <2>3
<1> HIDE DEF R
<1>3. CASE r \in AdmRaise(o)
  BY <1>3, AdmSelf, AdmStepAdmits
<1>4. CASE r \in Catch(R, LAMBDA p : AdmUndo(p, k))
  <2>1. PICK b \in R : r \in (IF b.end = "raise" THEN Then(AdmUndo(b.o, k), AdmRaise) ELSE {b})
    BY <1>4 DEF Catch
  <2>2. AdmAdmits(o, s, b) /\ AdmGood(b.o)
    BY <1>2, <2>1 DEF AdmAdmits
  <2>3. CASE b.end = "raise"
    BY <1>0, <2>1, <2>2, <2>3, AdmUndoOut DEF AdmAdmits
  <2> QED BY <2>1, <2>2, <2>3
<1> QED BY <1>1, <1>3, <1>4

\* PathSessions.admit adds this one session at most.
LEMMA AdmBridgeAdmitOut ==
  ASSUME NEW o, AdmGood(o), NEW s \in AdmSid, NEW rev \in AdmRev, NEW plan \in Plan,
         NEW r \in BridgeAdmit(o, s, rev, plan)
  PROVE  AdmAdmits(o, s, r)
<1> DEFINE R == Then(Reconcile(o), RequireEnabled)
<1>1. PICK b \in R : r \in (IF b.end = "ok" THEN AcquireAndAdmit(b.o, s, rev, plan) ELSE {b})
  BY DEF BridgeAdmit, Then
<1>2. PICK a \in Reconcile(o) : b \in (IF a.end = "ok" THEN RequireEnabled(a.o) ELSE {a})
  BY <1>1 DEF Then
<1> HIDE DEF R
<1>3. AdmStep(o, a) /\ AdmGood(a.o)
  BY <1>2, AdmReconcileOut DEF AdmStep, AdmSound
<1>4. AdmStep(o, b)
  <2>1. CASE a.end = "ok"
    <3>1. AdmStep(a.o, b)
      BY <1>2, <1>3, <2>1, AdmSelf DEF RequireEnabled
    <3> QED BY <1>3, <3>1, AdmStepOn
  <2> QED BY <1>2, <1>3, <2>1
<1>5. CASE b.end # "ok"
  BY <1>1, <1>4, <1>5, AdmStepAdmits
<1>6. CASE b.end = "ok"
  <2>1. AdmAdmits(b.o, s, r)
    BY <1>1, <1>4, <1>6, AdmAcquireAndAdmitOut DEF AdmStep, AdmSound
  <2> QED BY <1>4, <1>6, <2>1, AdmStepAdmits, AdmAdmitsOn
<1> QED BY <1>5, <1>6

\* An outcome from o of what a handler does: the leases cover the rows and the
\* producer drives the owner if they did before, as long as it does not fail.
AdmCovers(o, r) ==
  /\ r \in AdmOuts(AdmOwner) /\ AdmGood(r.o)
  /\ r.end = "ok" => (AdmLeased(o) => AdmLeased(r.o)) /\ (AdmDriven(o) => AdmDriven(r.o))

\* An open that completes has leased the session it admitted.
LEMMA AdmOpenOut ==
  ASSUME NEW o, AdmGood(o), NEW s \in AdmSid, NEW r \in AdmOpen(o, s)
  PROVE  AdmCovers(o, r)
<1> DEFINE B == UNION {BridgeAdmit(o, s, rev, plan) : rev \in AdmRev, plan \in Plan}
           R == Then(B, MayRaise)
<1>1. CASE r \in AdmRaise(o)
  BY <1>1, AdmSelf DEF AdmStep, AdmSound, AdmCovers
<1>2. CASE r \in Then(R, LAMBDA p : Ok([p EXCEPT !.leases = @ \cup {s}]))
  <2>1. \A a \in B : AdmAdmits(o, s, a)
    BY AdmBridgeAdmitOut
  <2> HIDE DEF B
  <2>2. PICK b \in R : r \in (IF b.end = "ok" THEN Ok([b.o EXCEPT !.leases = @ \cup {s}]) ELSE {b})
    BY <1>2 DEF Then
  <2>3. AdmAdmits(o, s, b)
    BY <2>1, <2>2, AdmThenMayRaise
  <2>4. CASE b.end # "ok"
    BY <2>2, <2>3, <2>4 DEF AdmAdmits, AdmCovers
  <2>5. CASE b.end = "ok"
    <3> DEFINE q == b.o
               p == [q EXCEPT !.leases = @ \cup {s}]
    <3>1. AdmGood(q) /\ q \in AdmOwner /\ AdmGrown(o, s, q)
      BY <2>3, <2>5 DEF AdmAdmits, AdmGood, AdmPlain
    <3>2. r = [o |-> p, end |-> "ok"] /\ r.o = p
      BY <2>2, <2>5 DEF Ok, AdmOut
    <3> HIDE DEF q
    <3>3. p \in AdmOwner
      <4>1. q.leases \cup {s} \in SUBSET AdmSid
        BY <3>1 DEF AdmOwner
      <4> QED BY <3>1, <4>1 DEF AdmOwner
    <3>4. /\ p.flows = q.flows /\ p.smac = q.smac /\ p.hop = q.hop /\ p.rows = q.rows
          /\ p.saved = q.saved /\ p.state = q.state /\ p.activated = q.activated
          /\ p.recovery = q.recovery /\ p.producer = q.producer /\ p.leases = q.leases \cup {s}
          /\ p.dependencies = q.dependencies
      BY <3>1 DEF AdmOwner
    <3> HIDE DEF p
    <3>5. AdmGood(p)
      <4>1. AdmPlain(p)
        BY <3>1, <3>3, <3>4, AdmLess DEF AdmGood
      <4> QED BY <3>1, <3>4, <4>1 DEF AdmGood, AdmIndexed
    <3>6. (AdmLeased(o) => AdmLeased(p)) /\ (AdmDriven(o) => AdmDriven(p))
      BY <3>1, <3>4 DEF AdmGrown, AdmLeased, AdmDriven
    <3>7. r \in AdmOuts(AdmOwner)
      BY <3>2, <3>3 DEF AdmOuts, AdmEnds
    <3> QED BY <3>2, <3>5, <3>6, <3>7 DEF AdmCovers
  <2> QED BY <2>4, <2>5
<1> QED BY <1>1, <1>2 DEF AdmOpen

-----------------------------------------------------------------------------
\* ---- handlers ----

\* A sound method never uncovers a row.
LEMMA AdmSoundCovers ==
  ASSUME NEW o, NEW r, AdmSound(o, r)
  PROVE  AdmCovers(o, r)
BY DEF AdmSound, AdmKept, AdmCovers

\* What a close has done once its lease is revoked: nothing of s is left to use.
AdmGone(o, s) == o.rows[s] = None /\ o.dependencies[s] = None

\* What an event does before the reconciliation that follows it.
LEMMA AdmApplyOut ==
  ASSUME NEW o, AdmGood(o), NEW op \in {"heartbeat", "open", "refresh", "close"}, NEW s,
         op # "heartbeat" => s \in AdmSid,
         NEW r \in AdmApply(o, op, s)
  PROVE  AdmCovers(o, r) /\ (op = "close" /\ r.end = "ok" => AdmGone(r.o, s))
<1>1. \A a \in MayRaise(o) \cup AdmRaise(o) : AdmCovers(o, a)
  BY AdmSelf, AdmSoundCovers DEF MayRaise, AdmStep
<1>2. CASE op = "heartbeat"
  BY <1>1, <1>2 DEF AdmApply
<1>3. CASE op = "open"
  BY <1>3, AdmOpenOut DEF AdmApply
<1>4. CASE op = "refresh"
  BY <1>1, <1>4 DEF AdmApply, Refresh
<1>5. CASE op = "close"
  BY <1>5, AdmRevokeLeaseOut, AdmSoundCovers DEF AdmApply, AdmGone
<1> QED BY <1>2, <1>3, <1>4, <1>5

\* Without a producer admission is disabled already.
LEMMA AdmDisabled ==
  ASSUME NEW o, AdmDriven(o), NEW r \in RequireProducer(o), r.end = "raise"
  PROVE  ~o.activated
BY DEF RequireProducer, Ok, AdmOut, AdmDriven

\* A handler's outcome: at rest the leases cover the rows and the producer
\* drives the owner, and a failure leaves admission disabled.
AdmHandled(r) ==
  /\ r \in AdmOuts(AdmOwner) /\ AdmGood(r.o)
  /\ r.end # "stop" => AdmLeased(r.o) /\ AdmDriven(r.o)
  /\ r.end = "raise" => ~r.o.activated

\* The timer handler.
LEMMA AdmTickHandled ==
  ASSUME NEW o, AdmGood(o), AdmLeased(o), AdmDriven(o), NEW r \in AdmTick(o)
  PROVE  AdmHandled(r)
BY AdmTickOut DEF AdmSound, AdmKept, AdmHandled

\* What comes before an event is accepted.
LEMMA AdmReadyHandled ==
  ASSUME NEW o, AdmGood(o), AdmLeased(o), AdmDriven(o), NEW r \in Ready(o)
  PROVE  AdmHandled(r)
<1>1. PICK a \in AdmTick(o) : r \in (IF a.end = "ok" THEN RequireProducer(a.o) ELSE {a})
  BY DEF Ready, Then
<1>2. AdmHandled(a)
  BY <1>1, AdmTickHandled
<1>3. CASE a.end # "ok"
  BY <1>1, <1>2, <1>3
<1>4. CASE a.end = "ok"
  <2>1. AdmGood(a.o) /\ AdmLeased(a.o) /\ AdmDriven(a.o) /\ r \in RequireProducer(a.o)
    BY <1>1, <1>2, <1>4 DEF AdmHandled
  <2>2. r \in AdmOuts(AdmOwner) /\ r.o = a.o
    BY <2>1, AdmSelf DEF RequireProducer, AdmStep, AdmSound
  <2>3. r.end = "raise" => ~a.o.activated
    BY <2>1, AdmDisabled
  <2> QED BY <2>1, <2>2, <2>3 DEF AdmHandled
<1> QED BY <1>3, <1>4

\* Nothing of s is in the table or in a path.
AdmClosed(o, s) ==
  s \notin o.flows /\ o.rows[s] = None /\ \A k \in AdmKey : o.paths[k] # None => k[1] # s

\* An event; a close that is acknowledged has left nothing of its session.
LEMMA AdmEventOut ==
  ASSUME NEW o, AdmGood(o), AdmLeased(o), AdmDriven(o),
         NEW op \in {"heartbeat", "open", "refresh", "close"}, NEW s,
         op # "heartbeat" => s \in AdmSid,
         NEW r \in Event(Ready(o), op, s)
  PROVE  AdmHandled(r) /\ (op = "close" /\ r.end = "ok" => AdmClosed(r.o, s))
<1> DEFINE Y(p) == Then(AdmApply(p, op, s), AdmTick)
           X(p) == AdmRaise(p) \cup Then(Y(p), RequireProducer)
<1>1. PICK e \in Ready(o) : r \in (IF e.end = "ok" THEN Catch(X(e.o), AdmFence) ELSE {e})
  BY DEF Event, Then
<1>2. AdmHandled(e)
  BY <1>1, AdmReadyHandled
<1>3. CASE e.end # "ok"
  BY <1>1, <1>2, <1>3
<1>4. CASE e.end = "ok"
  <2> DEFINE p == e.o
  <2>1. AdmGood(p) /\ AdmLeased(p) /\ AdmDriven(p)
    BY <1>2, <1>4 DEF AdmHandled
  <2>2. r \in Catch(X(p), AdmFence)
    BY <1>1, <1>4
  <2> HIDE DEF p
  <2>3. ASSUME NEW b \in Y(p)
        PROVE  /\ AdmCovers(p, b)
               /\ op = "close" /\ b.end = "ok" => AdmClosed(b.o, s)
    <3>1. PICK a \in AdmApply(p, op, s) : b \in (IF a.end = "ok" THEN AdmTick(a.o) ELSE {a})
      BY <2>3 DEF Then
    <3>2. AdmCovers(p, a) /\ (op = "close" /\ a.end = "ok" => AdmGone(a.o, s))
      BY <2>1, <3>1, AdmApplyOut
    <3>3. CASE a.end # "ok"
      BY <3>1, <3>2, <3>3
    <3>4. CASE a.end = "ok"
      <4>1. AdmGood(a.o) /\ b \in AdmTick(a.o)
        BY <3>1, <3>2, <3>4 DEF AdmCovers
      <4>2. AdmSound(a.o, b) /\ (b.end = "ok" => AdmSwept(a.o, b.o))
        BY <4>1, AdmTickOut
      <4>3. AdmCovers(p, b)
        BY <3>2, <3>4, <4>2 DEF AdmCovers, AdmSound, AdmKept
      <4>4. op = "close" /\ b.end = "ok" => AdmClosed(b.o, s)
        <5> SUFFICES ASSUME op = "close", b.end = "ok" PROVE AdmClosed(b.o, s)
          OBVIOUS
        <5>1. s \in AdmSid /\ AdmGone(a.o, s) /\ AdmSwept(a.o, b.o)
          BY <3>2, <3>4, <4>2
        <5>2. b.o.rows[s] = None
          BY <4>2, <5>1 DEF AdmSound, AdmKept, AdmShrunk, AdmGone
        <5>3. s \notin b.o.flows
          BY <4>2, <5>2 DEF AdmSound, AdmGood, AdmPlain, AdmWired
        <5> QED BY <5>1, <5>2, <5>3 DEF AdmClosed, AdmSwept, AdmGone
      <4> QED BY <4>3, <4>4
    <3> QED BY <3>3, <3>4
  <2> HIDE DEF Y
  <2>4. ASSUME NEW a \in X(p)
        PROVE  /\ AdmGood(a.o)
               /\ a.end # "raise" => AdmHandled(a) /\ (op = "close" /\ a.end = "ok" => AdmClosed(a.o, s))
    <3>1. CASE a \in AdmRaise(p)
      BY <2>1, <3>1 DEF AdmRaise, AdmOut
    <3>2. CASE a \in Then(Y(p), RequireProducer)
      <4>1. PICK b \in Y(p) : a \in (IF b.end = "ok" THEN RequireProducer(b.o) ELSE {b})
        BY <3>2 DEF Then
      <4>2. AdmCovers(p, b) /\ AdmGood(b.o) /\ (op = "close" /\ b.end = "ok" => AdmClosed(b.o, s))
        BY <2>3, <4>1 DEF AdmCovers
      <4>3. CASE b.end # "ok"
        <5>1. a = b /\ b.end \in AdmEnds
          BY <4>1, <4>2, <4>3 DEF AdmCovers, AdmOuts
        <5> QED BY <4>2, <4>3, <5>1 DEF AdmHandled, AdmCovers, AdmEnds
      <4>4. CASE b.end = "ok"
        <5>1. a.o = b.o /\ a \in AdmOuts(AdmOwner)
          BY <4>1, <4>2, <4>4, AdmSelf DEF RequireProducer, AdmStep, AdmSound
        <5>2. AdmLeased(b.o) /\ AdmDriven(b.o)
          BY <2>1, <4>2, <4>4 DEF AdmCovers
        <5> QED BY <4>2, <4>4, <5>1, <5>2 DEF AdmHandled
      <4> QED BY <4>3, <4>4
    <3> QED BY <3>1, <3>2
  <2> HIDE DEF X
  <2>5. PICK a \in X(p) : \/ a.end # "raise" /\ r = a
                          \/ AdmSound(a.o, r) /\ ~r.o.activated /\ ~r.o.producer /\ r.end # "ok"
    BY <2>2, <2>4, AdmCatchFence
  <2>6. CASE a.end # "raise" /\ r = a
    BY <2>4, <2>6
  <2>7. CASE AdmSound(a.o, r) /\ ~r.o.activated /\ ~r.o.producer /\ r.end # "ok"
    BY <2>7 DEF AdmSound, AdmHandled, AdmLeased, AdmDriven
  <2> QED BY <2>5, <2>6, <2>7
<1> QED BY <1>3, <1>4

\* PolicyOwner.activate, with no session left of the previous generation.
LEMMA AdmActivateOut ==
  ASSUME NEW o, AdmGood(o), AdmNoRows(o), NEW rev \in AdmRev, NEW r \in Activate(o, rev)
  PROVE  r \in AdmOuts(AdmOwner) /\ AdmGood(r.o) /\ (r.end = "ok" => AdmNoRows(r.o))
<1>1. CASE r \in AdmRaise(o)
  BY <1>1, AdmSelf DEF AdmStep, AdmSound
<1>2. CASE \E b \in Bind : r \in Then(Persist(o, [o.state EXCEPT !.phase = "active", !.att = b]),
                                      LAMBDA p : Ok([p EXCEPT !.activated = TRUE]))
  <2>1. PICK b \in Bind : r \in Then(Persist(o, [o.state EXCEPT !.phase = "active", !.att = b]),
                                      LAMBDA p : Ok([p EXCEPT !.activated = TRUE]))
    BY <1>2
  <2> DEFINE new == [o.state EXCEPT !.phase = "active", !.att = b]
  <2>2. new \in Policy /\ new.att # None
    BY AdmNoneAssumption DEF AdmGood, AdmPlain, AdmOwner, Policy
  <2>3. PICK a \in Persist(o, new) : r \in (IF a.end = "ok" THEN Ok([a.o EXCEPT !.activated = TRUE]) ELSE {a})
    BY <2>1 DEF Then
  <2> HIDE DEF new
  <2>4. /\ AdmPlain(a.o) /\ a \in AdmOuts(AdmOwner)
        /\ a.o.rows = o.rows /\ a.o.dependencies = o.dependencies /\ a.o.recovery = o.recovery
    BY <2>2, <2>3, AdmPersistOut DEF AdmGood, AdmNoRows
  <2>5. AdmGood(a.o) /\ AdmNoRows(a.o)
    BY <2>4 DEF AdmGood, AdmIndexed, AdmNoRows
  <2>6. CASE a.end # "ok"
    BY <2>3, <2>4, <2>5, <2>6
  <2>7. CASE a.end = "ok"
    <3> DEFINE q == a.o
               p == [q EXCEPT !.activated = TRUE]
    <3>1. AdmGood(q) /\ AdmNoRows(q) /\ q \in AdmOwner
      BY <2>5 DEF AdmGood, AdmPlain
    <3>2. r = [o |-> p, end |-> "ok"] /\ r.o = p
      BY <2>3, <2>7 DEF Ok, AdmOut
    <3> HIDE DEF q
    <3>3. p \in AdmOwner
      BY <3>1 DEF AdmOwner
    <3>4. /\ p.flows = q.flows /\ p.smac = q.smac /\ p.hop = q.hop /\ p.rows = q.rows
          /\ p.saved = q.saved /\ p.state = q.state /\ p.recovery = q.recovery /\ p.dependencies = q.dependencies
      BY <3>1 DEF AdmOwner
    <3> HIDE DEF p
    <3>5. AdmNoRows(p)
      BY <3>1, <3>4 DEF AdmNoRows
    <3>6. AdmGood(p)
      BY <3>1, <3>3, <3>4, <3>5 DEF AdmGood, AdmPlain, AdmBound, AdmWired, AdmAgree, AdmIndexed, AdmCurrent, AdmNoRows
    <3>7. r \in AdmOuts(AdmOwner)
      BY <3>2, <3>3 DEF AdmOuts, AdmEnds
    <3> QED BY <3>2, <3>5, <3>6, <3>7
  <2> QED BY <2>6, <2>7
<1> QED BY <1>1, <1>2 DEF Activate

\* The acknowledgement of a start; a failure fences.
LEMMA AdmAcknowledgeOut ==
  ASSUME NEW o, AdmGood(o), AdmNoRows(o), NEW r \in Acknowledge(o)
  PROVE  /\ r \in AdmOuts(AdmOwner) /\ AdmGood(r.o)
         /\ r.end = "ok" => AdmNoRows(r.o)
         /\ r.end = "raise" => ~r.o.activated /\ ~r.o.producer
<1> DEFINE A == Then(MayRaise(o), LAMBDA p : UNION {Activate(p, rev) : rev \in AdmRev})
           R == Then(A, MayRaise)
           Fine(x) == x \in AdmOuts(AdmOwner) /\ AdmGood(x.o) /\ (x.end = "ok" => AdmNoRows(x.o))
<1>1. ASSUME NEW b \in A PROVE Fine(b)
  <2>1. PICK a \in MayRaise(o) : b \in (IF a.end = "ok" THEN UNION {Activate(a.o, rev) : rev \in AdmRev} ELSE {a})
    BY <1>1 DEF Then
  <2>2. a.o = o /\ a \in AdmOuts(AdmOwner)
    BY <2>1, AdmSelf DEF MayRaise, AdmStep, AdmSound
  <2>3. CASE a.end # "ok"
    BY <2>1, <2>2, <2>3
  <2>4. CASE a.end = "ok"
    <3>1. PICK rev \in AdmRev : b \in Activate(o, rev)
      BY <2>1, <2>2, <2>4
    <3> QED BY <3>1, AdmActivateOut
  <2> QED BY <2>3, <2>4
<1> HIDE DEF A
<1>2. ASSUME NEW c \in R PROVE Fine(c) /\ AdmGood(c.o)
  <2>1. PICK b \in A : c \in (IF b.end = "ok" THEN MayRaise(b.o) ELSE {b})
    BY <1>2 DEF Then
  <2>2. Fine(b)
    BY <1>1, <2>1
  <2>3. CASE b.end = "ok"
    <3>1. c.o = b.o /\ c \in AdmOuts(AdmOwner)
      BY <2>1, <2>2, <2>3, AdmSelf DEF MayRaise, AdmStep, AdmSound
    <3> QED BY <2>2, <2>3, <3>1
  <2> QED BY <2>1, <2>2, <2>3
<1>3. r \in Catch(R, AdmFence)
  BY DEF Acknowledge, A
<1> HIDE DEF R
<1>4. PICK c \in R : \/ c.end # "raise" /\ r = c
                     \/ AdmSound(c.o, r) /\ ~r.o.activated /\ ~r.o.producer /\ r.end # "ok"
  BY <1>2, <1>3, AdmCatchFence
<1> QED BY <1>2, <1>4 DEF AdmSound

\* SessionLifecycle.start, from any state: it fences first.
LEMMA AdmStartOut ==
  ASSUME NEW o, AdmGood(o), NEW r \in AdmStart(o)
  PROVE  AdmHandled(r)
<1> DEFINE A == Then(AdmFence(o), MayRaise)
           B == Then(A, Acknowledge)
           C == Then(B, LAMBDA p : AdmTick([p EXCEPT !.producer = TRUE]))
           Off(x) == x \in AdmOuts(AdmOwner) /\ AdmGood(x.o) /\ ~x.o.activated /\ ~x.o.producer
           Fine(x) == /\ x \in AdmOuts(AdmOwner) /\ AdmGood(x.o)
                      /\ x.end = "ok" => AdmNoRows(x.o)
                      /\ x.end = "raise" => ~x.o.activated /\ ~x.o.producer
<1>1. ASSUME NEW b \in A PROVE Fine(b)
  <2>1. PICK a \in AdmFence(o) : b \in (IF a.end = "ok" THEN MayRaise(a.o) ELSE {a})
    BY <1>1 DEF Then
  <2>2. Fine(a) /\ Off(a)
    BY <2>1, AdmFenceOut DEF AdmSound
  <2>3. CASE a.end = "ok"
    <3>1. b.o = a.o /\ b \in AdmOuts(AdmOwner)
      BY <2>1, <2>2, <2>3, AdmSelf DEF MayRaise, AdmStep, AdmSound
    <3> QED BY <2>2, <2>3, <3>1
  <2> QED BY <2>1, <2>2, <2>3
<1> HIDE DEF A
<1>2. ASSUME NEW c \in B PROVE Fine(c)
  <2>1. PICK b \in A : c \in (IF b.end = "ok" THEN Acknowledge(b.o) ELSE {b})
    BY <1>2 DEF Then
  <2>2. Fine(b)
    BY <1>1, <2>1
  <2>3. CASE b.end = "ok"
    BY <2>1, <2>2, <2>3, AdmAcknowledgeOut
  <2> QED BY <2>1, <2>2, <2>3
<1> HIDE DEF B
<1>3. ASSUME NEW d \in C PROVE AdmHandled(d)
  <2>1. PICK c \in B : d \in (IF c.end = "ok" THEN AdmTick([c.o EXCEPT !.producer = TRUE]) ELSE {c})
    BY <1>3 DEF Then
  <2>2. Fine(c)
    BY <1>2, <2>1
  <2>3. CASE c.end # "ok"
    <3>1. d = c /\ c.end \in AdmEnds
      BY <2>1, <2>2, <2>3 DEF AdmOuts
    <3> QED BY <2>2, <2>3, <3>1 DEF AdmHandled, AdmLeased, AdmDriven, AdmEnds
  <2>4. CASE c.end = "ok"
    <3> DEFINE q == c.o
               p == [q EXCEPT !.producer = TRUE]
    <3>1. AdmGood(q) /\ AdmNoRows(q) /\ q \in AdmOwner
      BY <2>2, <2>4 DEF AdmGood, AdmPlain
    <3>2. d \in AdmTick(p)
      BY <2>1, <2>4
    <3> HIDE DEF q
    <3>3. p \in AdmOwner
      BY <3>1 DEF AdmOwner
    <3>4. /\ p.flows = q.flows /\ p.smac = q.smac /\ p.hop = q.hop /\ p.rows = q.rows
          /\ p.saved = q.saved /\ p.state = q.state /\ p.recovery = q.recovery /\ p.dependencies = q.dependencies
          /\ p.activated = q.activated /\ p.producer = TRUE
      BY <3>1 DEF AdmOwner
    <3> HIDE DEF p
    <3>5. AdmGood(p)
      <4>1. AdmPlain(p)
        BY <3>1, <3>3, <3>4, AdmLess DEF AdmGood
      <4> QED BY <3>1, <3>4, <4>1 DEF AdmGood, AdmIndexed
    <3>6. AdmLeased(p) /\ AdmDriven(p)
      BY <3>1, <3>4 DEF AdmNoRows, AdmLeased, AdmDriven
    <3> QED BY <3>2, <3>5, <3>6, AdmTickHandled
  <2> QED BY <2>3, <2>4
<1>4. PICK d \in C : r \in (IF d.end = "ok" THEN RequireProducer(d.o) ELSE {d})
  BY DEF AdmStart, Then, A, B
<1> HIDE DEF C
<1>5. AdmHandled(d)
  BY <1>3, <1>4
<1>6. CASE d.end = "ok"
  <2>1. AdmGood(d.o) /\ AdmLeased(d.o) /\ AdmDriven(d.o) /\ r \in RequireProducer(d.o)
    BY <1>4, <1>5, <1>6 DEF AdmHandled
  <2>2. r \in AdmOuts(AdmOwner) /\ r.o = d.o
    BY <2>1, AdmSelf DEF RequireProducer, AdmStep, AdmSound
  <2>3. r.end = "raise" => ~d.o.activated
    BY <2>1, AdmDisabled
  <2> QED BY <2>1, <2>2, <2>3 DEF AdmHandled
<1> QED BY <1>4, <1>5, <1>6

\* PolicyOwner.replace drains before the new revision is on record.
LEMMA AdmReplaceOut ==
  ASSUME NEW o, AdmGood(o), AdmLeased(o), AdmDriven(o), NEW rev \in AdmRev, NEW r \in Replace(o, rev)
  PROVE  r \in AdmOuts(AdmOwner) /\ AdmGood(r.o) /\ AdmLeased(r.o) /\ AdmDriven(r.o)
<1>1. CASE r \in AdmRaise(o)
  BY <1>1, AdmSelf DEF AdmStep, AdmSound
<1>2. CASE /\ ~(rev # o.state.rev \/ rev = MaxRev)
           /\ r \in DrainAs(Deactivate(o), [rev |-> rev + 1, phase |-> "draining", att |-> None])
  <2> DEFINE d == Deactivate(o)
             new == [rev |-> rev + 1, phase |-> "draining", att |-> None]
  <2>1. AdmGood(d) /\ AdmKept(o, d) /\ d.activated = FALSE
    BY AdmDeactivateIs DEF AdmGood
  <2>2. new \in Policy /\ new.phase # "active"
    BY <1>2, AdmBoundAssumption DEF Policy, AdmRev
  <2> HIDE DEF d, new
  <2>3. AdmStep(d, r)
    BY <1>2, <2>1, <2>2, AdmDrainAsOut DEF d, new
  <2> QED BY <2>1, <2>3 DEF AdmStep, AdmSound, AdmKept
<1> QED BY <1>1, <1>2 DEF Replace

-----------------------------------------------------------------------------
\* ---- actions ----

\* The process goes on or stops.
LEMMA AdmUpIs ==
  ASSUME NEW o, AdmGood(o), NEW up \in BOOLEAN
  PROVE  LET p == [o EXCEPT !.up = up]
         IN  /\ AdmGood(p) /\ p.up = up /\ p.state = o.state /\ p.activated = o.activated /\ p.recovery = o.recovery
             /\ AdmLeased(o) => AdmLeased(p)
             /\ AdmDriven(o) => AdmDriven(p)
             /\ \A s : AdmClosed(o, s) => AdmClosed(p, s)
<1> DEFINE p == [o EXCEPT !.up = up]
<1>1. o \in AdmOwner
  BY DEF AdmGood, AdmPlain
<1>2. p \in AdmOwner
  BY <1>1 DEF AdmOwner
<1>3. /\ p.flows = o.flows /\ p.smac = o.smac /\ p.hop = o.hop /\ p.rows = o.rows /\ p.paths = o.paths
      /\ p.saved = o.saved /\ p.state = o.state /\ p.activated = o.activated /\ p.dependencies = o.dependencies
      /\ p.recovery = o.recovery /\ p.producer = o.producer /\ p.leases = o.leases /\ p.up = up
  BY <1>1 DEF AdmOwner
<1> HIDE DEF p
<1>4. AdmGood(p)
  <2>1. AdmPlain(p)
    BY <1>2, <1>3, AdmLess DEF AdmGood
  <2> QED BY <1>3, <2>1 DEF AdmGood, AdmIndexed
<1> QED BY <1>3, <1>4 DEF AdmLeased, AdmDriven, AdmClosed, p

\* A handler leaves the owner up unless the process stopped in it.
LEMMA AdmFinishes ==
  ASSUME AdmGood(admOwner), NEW call \in AdmCalls \ {"replace"}, NEW s \in AdmSid \cup {None}, NEW R,
         \A r \in R : AdmHandled(r) /\ (call = "close" /\ r.end = "ok" => s \in AdmSid /\ AdmClosed(r.o, s)),
         AdmFinish(call, s, R)
  PROVE  AdmInv'
<1>1. PICK end \in AdmEnds, r \in R :
        /\ admLast' = [call |-> call, sid |-> s, end |-> end]
        /\ r.end = end /\ admOwner' = [r.o EXCEPT !.up = end # "stop"]
  BY DEF AdmFinish, AdmEnds
<1>2. AdmHandled(r) /\ AdmGood(r.o) /\ (call = "close" /\ end = "ok" => s \in AdmSid /\ AdmClosed(r.o, s))
  BY <1>1 DEF AdmHandled
<1>3. /\ AdmGood(admOwner') /\ admOwner'.up = (end # "stop") /\ admOwner'.activated = r.o.activated
      /\ AdmLeased(r.o) => AdmLeased(admOwner')
      /\ AdmDriven(r.o) => AdmDriven(admOwner')
      /\ \A x : AdmClosed(r.o, x) => AdmClosed(admOwner', x)
  BY <1>1, <1>2, AdmUpIs
<1>4. /\ admLast' \in [call : AdmCalls, sid : AdmSid \cup {None}, end : {"ok", "raise", "stop"}]
      /\ admLast'.call = call /\ admLast'.end = end /\ admLast'.sid = s
  BY <1>1 DEF AdmEnds
<1>5. end # "stop" => AdmLeased(admOwner') /\ AdmDriven(admOwner')
  BY <1>1, <1>2, <1>3 DEF AdmHandled
<1>6. end = "raise" => ~AdmissionEnabled(admOwner')
  BY <1>1, <1>2, <1>3 DEF AdmHandled, AdmissionEnabled
<1>7. CloseAcknowledged'
  <2> SUFFICES ASSUME call = "close", end = "ok"
               PROVE  /\ s \notin admOwner'.flows /\ admOwner'.rows[s] = None
                      /\ \A k \in AdmHeld(admOwner'.paths) : k[1] # s
    BY <1>4 DEF CloseAcknowledged
  <2>1. AdmClosed(admOwner', s) /\ DOMAIN admOwner'.paths = AdmKey
    BY <1>2, <1>3 DEF AdmGood, AdmPlain, AdmOwner
  <2> QED BY <2>1 DEF AdmClosed, AdmHeld
<1> QED BY <1>3, <1>4, <1>5, <1>6, <1>7 DEF AdmInv

\* An owner that never admitted anything.
LEMMA AdmInitInv == AdmInit => AdmInv
<1> SUFFICES ASSUME AdmInit PROVE AdmInv
  OBVIOUS
<1> DEFINE o == admOwner
<1>1. /\ o.flows = {} /\ o.rows = [s \in AdmSid |-> None] /\ o.state.phase = "blocked" /\ o.saved.phase = "blocked"
      /\ o.dependencies = [s \in AdmSid |-> None] /\ o.activated = FALSE /\ o.producer = FALSE
  BY DEF AdmInit
<1>2. o \in AdmOwner
  <2>1. [rev |-> 0, phase |-> "blocked", att |-> None] \in Policy
    BY AdmBoundAssumption DEF Policy, AdmRev
  <2>2. 0 \in 0 .. AdmMaxFaults
    BY AdmBoundAssumption
  <2> QED BY <2>1, <2>2 DEF AdmInit, AdmOwner
<1>3. admLast = [call |-> "restart", sid |-> None, end |-> "ok"]
  BY DEF AdmInit
<1> HIDE DEF o
<1>4. AdmGood(o) /\ AdmLeased(o) /\ AdmDriven(o)
  BY <1>1, <1>2 DEF AdmGood, AdmPlain, AdmBound, AdmWired, AdmAgree, AdmCurrent, AdmIndexed, AdmLeased, AdmDriven
<1>5. admLast \in [call : AdmCalls, sid : AdmSid \cup {None}, end : {"ok", "raise", "stop"}]
  BY <1>3 DEF AdmCalls
<1> QED BY <1>3, <1>4, <1>5 DEF AdmInv, CloseAcknowledged, o

\* The process stops between two handlers.
LEMMA AdmCrashKeeps == ASSUME AdmInv, AdmCrash PROVE AdmInv'
<1> DEFINE p == Faulted(admOwner)
<1>1. AdmGood(admOwner) /\ admOwner \in AdmOwner /\ admOwner.faults < AdmMaxFaults
  BY DEF AdmInv, AdmGood, AdmPlain, AdmCrash
<1>2. AdmGood(p)
  BY <1>1, AdmFaultedIs DEF AdmGood
<1>3. admOwner' = [p EXCEPT !.up = FALSE] /\ admLast' = [call |-> "crash", sid |-> None, end |-> "stop"]
  BY DEF AdmCrash
<1> HIDE DEF p
<1>4. AdmGood(admOwner') /\ admOwner'.up = FALSE
  BY <1>2, <1>3, AdmUpIs
<1>5. admLast' \in [call : AdmCalls, sid : AdmSid \cup {None}, end : {"ok", "raise", "stop"}]
  BY <1>3 DEF AdmCalls
<1> QED BY <1>3, <1>4, <1>5 DEF AdmInv, CloseAcknowledged

\* A new process reads the journals back and demands recovery of what they hold.
LEMMA AdmRestartKeeps == ASSUME AdmInv, AdmRestart PROVE AdmInv'
<1> DEFINE o == admOwner
           p == admOwner'
<1>1. AdmGood(o) /\ o \in AdmOwner
  BY DEF AdmInv, AdmGood, AdmPlain
<1>2. /\ p \in AdmOwner
      /\ p.flows = o.flows /\ p.smac = o.smac /\ p.hop = o.hop /\ p.rows = o.rows
      /\ p.saved = o.saved /\ p.state = o.saved /\ p.activated = FALSE /\ p.producer = FALSE
      /\ p.dependencies = [s \in AdmSid |-> None]
  BY <1>1 DEF AdmRestart, AdmOwner, ClearDependencies
<1>3. admLast' = [call |-> "restart", sid |-> None, end |-> "ok"]
  BY DEF AdmRestart
<1> HIDE DEF o, p
<1>4. AdmGood(p) /\ AdmLeased(p) /\ AdmDriven(p)
  BY <1>1, <1>2 DEF AdmGood, AdmPlain, AdmBound, AdmWired, AdmAgree, AdmCurrent, AdmIndexed, AdmLeased, AdmDriven
<1>5. admLast' \in [call : AdmCalls, sid : AdmSid \cup {None}, end : {"ok", "raise", "stop"}]
  BY <1>3 DEF AdmCalls
<1> QED BY <1>3, <1>4, <1>5 DEF AdmInv, CloseAcknowledged, p

\* A replacement, the one handler that the lifecycle does not drive.
LEMMA AdmReplaceKeeps == ASSUME AdmInv, DoReplace PROVE AdmInv'
<1>1. PICK rev \in AdmRev : AdmFinish("replace", None, Replace(admOwner, rev))
  BY DEF DoReplace
<1>2. PICK end \in AdmEnds, r \in Replace(admOwner, rev) :
        /\ admLast' = [call |-> "replace", sid |-> None, end |-> end]
        /\ r.end = end /\ admOwner' = [r.o EXCEPT !.up = end # "stop"]
  BY <1>1 DEF AdmFinish, AdmEnds
<1>3. AdmGood(admOwner) /\ AdmLeased(admOwner) /\ AdmDriven(admOwner)
  BY <1>1 DEF AdmInv, AdmFinish
<1>4. AdmGood(r.o) /\ AdmLeased(r.o) /\ AdmDriven(r.o)
  BY <1>3, AdmReplaceOut
<1>5. AdmGood(admOwner') /\ AdmLeased(admOwner') /\ AdmDriven(admOwner')
  BY <1>2, <1>4, AdmUpIs
<1>6. admLast' \in [call : AdmCalls, sid : AdmSid \cup {None}, end : {"ok", "raise", "stop"}]
  BY <1>2 DEF AdmCalls, AdmEnds
<1> QED BY <1>2, <1>5, <1>6 DEF AdmInv, CloseAcknowledged

\* The four events.
LEMMA AdmEventKeeps ==
  ASSUME AdmInv, NEW op \in {"heartbeat", "open", "refresh", "close"}, NEW s,
         op # "heartbeat" => s \in AdmSid, NEW sid \in AdmSid \cup {None}, op = "close" => sid = s,
         AdmFinish(op, sid, Event(Ready(admOwner), op, s))
  PROVE  AdmInv'
<1> DEFINE R == Event(Ready(admOwner), op, s)
<1>1. AdmGood(admOwner) /\ AdmLeased(admOwner) /\ AdmDriven(admOwner)
  BY DEF AdmInv, AdmFinish
<1>2. \A r \in R : AdmHandled(r) /\ (op = "close" /\ r.end = "ok" => sid \in AdmSid /\ AdmClosed(r.o, sid))
  BY <1>1, AdmEventOut
<1>3. op \in AdmCalls \ {"replace"}
  BY DEF AdmCalls
<1> HIDE DEF R
<1>4. AdmFinish(op, sid, R)
  BY DEF R
<1> QED BY <1>1, <1>2, <1>3, <1>4, AdmFinishes

\* Every handler, the crash and the restart keep the invariant.
LEMMA AdmNextKeeps == ASSUME AdmInv, AdmNext PROVE AdmInv'
<1>1. CASE DoStart
  <2>1. AdmGood(admOwner) /\ \A r \in AdmStart(admOwner) : AdmHandled(r)
    BY AdmStartOut DEF AdmInv
  <2>2. "start" \in AdmCalls \ {"replace"}
    BY DEF AdmCalls
  <2> QED BY <1>1, <2>1, <2>2, AdmFinishes DEF DoStart
<1>2. CASE DoTick
  <2>1. AdmGood(admOwner) /\ AdmLeased(admOwner) /\ AdmDriven(admOwner)
    BY <1>2 DEF AdmInv, DoTick, AdmFinish
  <2>2. \A r \in AdmTick(admOwner) : AdmHandled(r)
    BY <2>1, AdmTickHandled
  <2>3. "tick" \in AdmCalls \ {"replace"}
    BY DEF AdmCalls
  <2> QED BY <1>2, <2>1, <2>2, <2>3, AdmFinishes DEF DoTick
<1>3. CASE DoEvent
  <2>1. CASE AdmFinish("heartbeat", None, Event(Ready(admOwner), "heartbeat", None))
    BY <2>1, AdmEventKeeps
  <2>2. ASSUME NEW s \in AdmSid, AdmFinish("open", None, Event(Ready(admOwner), "open", s)) PROVE AdmInv'
    BY <2>2, AdmEventKeeps
  <2>3. ASSUME NEW s \in AdmSid, AdmFinish("refresh", None, Event(Ready(admOwner), "refresh", s)) PROVE AdmInv'
    BY <2>3, AdmEventKeeps
  <2>4. ASSUME NEW s \in AdmSid, AdmFinish("close", s, Event(Ready(admOwner), "close", s)) PROVE AdmInv'
    BY <2>4, AdmEventKeeps
  <2> QED BY <1>3, <2>1, <2>2, <2>3, <2>4 DEF DoEvent
<1>4. CASE DoReplace
  BY <1>4, AdmReplaceKeeps
<1>5. CASE AdmCrash
  BY <1>5, AdmCrashKeeps
<1>6. CASE AdmRestart
  BY <1>6, AdmRestartKeeps
<1> QED BY <1>1, <1>2, <1>3, <1>4, <1>5, <1>6 DEF AdmNext

\* The invariant says what admission guarantees.
LEMMA AdmInvSafe == AdmInv => AdmSafe
<1> SUFFICES ASSUME AdmInv PROVE AdmSafe
  OBVIOUS
<1> DEFINE o == admOwner
<1>1. AdmGood(o) /\ o \in AdmOwner /\ DOMAIN o.rows = AdmSid /\ (o.up => AdmLeased(o) /\ AdmDriven(o))
  BY DEF AdmInv, AdmGood, AdmPlain, AdmOwner
<1>2. AdmTypeOK
  BY <1>1 DEF AdmInv, AdmTypeOK
<1>3. NoDanglingHop
  BY <1>1 DEF NoDanglingHop, AdmGood, AdmPlain, AdmWired, AdmLeads
<1>4. NoStaleGeneration
  BY <1>1 DEF NoStaleGeneration, AdmGood, AdmPlain, AdmCurrent, AdmissionEnabled, AdmHeld
<1>5. EveryFlowLeased
  BY <1>1 DEF EveryFlowLeased, AdmLeased, AdmHeld
<1>6. FailClosed
  BY <1>1 DEF FailClosed, AdmInv, AdmDriven, AdmissionEnabled
<1> QED BY <1>2, <1>3, <1>4, <1>5, <1>6 DEF AdmSafe, AdmInv

\* However the methods of the four owners fail, and wherever the process stops:
\* an entry of the flow table leads to a next hop and a source MAC of its own
\* session and revision; while admission is enabled no session of another
\* generation is left; a synchronized lifecycle holds a lease for every session; a
\* handler that raises leaves admission disabled; and an acknowledged close has
\* left nothing of its session (ffn_fe100_lifecycle.py,
\* ffn_fe100_path_sessions.py, ffn_fe100_policy.py, ffn_fe100_path_owner.py).
THEOREM AdmissionSafe == AdmSpec => []AdmSafe
<1>1. AdmInv /\ [AdmNext]_admVars => AdmInv'
  <2>1. ASSUME AdmInv, UNCHANGED admVars PROVE AdmInv'
    BY <2>1 DEF admVars, AdmInv, AdmGood, AdmPlain, AdmBound, AdmWired, AdmAgree, AdmCurrent, AdmIndexed, AdmLeased,
                AdmDriven, AdmissionEnabled, CloseAcknowledged
  <2> QED BY <2>1, AdmNextKeeps
<1> QED BY <1>1, AdmInitInv, AdmInvSafe, PTL DEF AdmSpec

-----------------------------------------------------------------------------
(* The restart jobs.                                                        *)

Holding == {"pause", "prepare", "boot", "wait", "restore"}
Busied == {"check", "start", "owner", "verify", "cycle"}

\* One owner at a time is past its inspection, its services are stopped once
\* it is past the pause, and a list of services to start again was taken when
\* no reset was in doubt, other than the one it dispatched itself.
OwnersExclude ==
  \A r \in Role : owner[r].pc \in Holding => mutex = r
OwnersPause ==
  \A r \in Role : owner[r].pc \in Holding \ {"pause"} => ~writers
ListTakenClean ==
  \A r \in Role : ownerJournal[r].units =>
    /\ owner[r].pc \in {"pause", "prepare", "boot"} =>
         pending = None /\ \A x \in Role : ~uncertain[x]
    /\ owner[r].pc \in {"wait", "restore"} =>
         ~uncertain[Other(r)] /\ (r = "cp" => pending = None)

\* The lock of state.json belongs to the worker of the latest job, and later
\* workers do not exist yet.
WorkerHolds ==
  \A id \in Id : worker[id].pc \in Busied => lock = id /\ job # None /\ job.id = id
WorkersInOrder ==
  \A id \in Id : job = None \/ id > job.id => worker[id].pc = "none"

\* Worker id has not asked for a restart of r so far.
NotAsked(id, r) ==
  \/ worker[id].pc \in {"none", "inflight", "launched", "check"}
  \/ worker[id].pc = "start" /\ worker[id].target = r
  \/ r = "dp" /\ worker[id].target = "cp" /\ worker[id].pc \in Busied

\* A reset is still due only where none was carried out.
ResetDue ==
  \A id \in Id :
    /\ \A r \in Role : NotAsked(id, r) => resets[id][r] = 0 /\ owner[r].cause # id
    /\ NotAsked(id, "dp") => pending # id
    /\ \A r \in Role : owner[r].cause = id /\ owner[r].pc \in {"inspect", "pause", "prepare", "boot"}
         => resets[id][r] = 0
    /\ owner["dp"].cause = id /\ owner["dp"].pc \in {"inspect", "pause", "prepare", "boot"}
         => pending # id
    /\ pending = id => resets[id]["dp"] = 0

\* Boot identities only move on from what the operator acknowledged.
BootsAdvance ==
  /\ job # None => \A r \in Role : job.before[r] <= proc[r].boot
  /\ \A id \in Id : worker[id].pc \in Busied \ {"check"} =>
       /\ \A r \in Role : job.before[r] <= worker[id].before[r] /\ worker[id].before[r] <= proc[r].boot
       /\ job.role = "dp" => worker[id].target = "dp" /\ worker[id].pc # "cycle"
       /\ worker[id].pc = "cycle" => worker[id].target = "cp"
       /\ job.role = "cp" /\ (worker[id].target = "dp" \/ worker[id].pc = "cycle")
            => proc["cp"].boot > job.before["cp"]

IInv ==
  /\ RstTypeOK /\ OwnersExclude /\ OwnersPause /\ ListTakenClean /\ WritersHeldBack
  /\ WorkerHolds /\ WorkersInOrder /\ OwnerOfLatestJob
  /\ ResetDue /\ OneResetPerJob /\ BootsAdvance /\ SuccessIsNewBoot

----------------------------------------------------------------------------
(* What the steps of a worker, an owner and a processor leave alone.       *)

USE RstBoundAssumption, RstNoneAssumption

PreBoot == {"inspect", "pause", "prepare", "boot"}

\* A worker that moves on keeps its target and its observation.
LEMMA GotoEffect ==
  ASSUME worker \in [Id -> WorkerState], NEW id \in Id, NEW pc \in WorkerPc, RstGoto(id, pc)
  PROVE  /\ worker' \in [Id -> WorkerState]
         /\ \A i \in Id : /\ worker'[i].pc = IF i = id THEN pc ELSE worker[i].pc
                          /\ worker'[i].target = worker[i].target
                          /\ worker'[i].before = worker[i].before
  BY DEF RstGoto, WorkerState

\* An owner that moves on still acts for the job that started it.
LEMMA OwnerGotoEffect ==
  ASSUME owner \in [Role -> OwnerState], NEW r \in Role, NEW pc \in OwnerPc, OwnerGoto(r, pc)
  PROVE  /\ owner' \in [Role -> OwnerState]
         /\ \A x \in Role : /\ owner'[x].pc = IF x = r THEN pc ELSE owner[x].pc
                            /\ owner'[x].cause = owner[x].cause
  BY DEF OwnerGoto, OwnerState

\* So does one that ends.
LEMMA OffEffect ==
  ASSUME owner \in [Role -> OwnerState], NEW r \in Role, NEW res \in {"success", "failed"},
         owner' = [owner EXCEPT ![r].pc = "off", ![r].result = res]
  PROVE  /\ owner' \in [Role -> OwnerState]
         /\ \A x \in Role : /\ owner'[x].pc = IF x = r THEN "off" ELSE owner[x].pc
                            /\ owner'[x].cause = owner[x].cause
  BY DEF OwnerState, OwnerPc

\* A journal's phase moves on, its list stays.
LEMMA PhaseEffect ==
  ASSUME ownerJournal \in [Role -> Journal], NEW r \in Role, NEW p \in Phase,
         ownerJournal' = [ownerJournal EXCEPT ![r].phase = p]
  PROVE  /\ ownerJournal' \in [Role -> Journal]
         /\ \A x \in Role : ownerJournal'[x].units = ownerJournal[x].units
  BY DEF Journal

\* A processor comes back on another boot.
LEMMA RebootedEffect ==
  ASSUME proc \in [Role -> Proc], NEW r \in Role, proc' = [proc EXCEPT ![r] = Rebooted(@)]
  PROVE  /\ proc' \in [Role -> Proc]
         /\ \A x \in Role : proc'[x].boot >= proc[x].boot
  BY DEF Rebooted, Proc

\* A reset for job id is one more of them.
LEMMA ResetsEffect ==
  ASSUME resets \in [Id -> Stamp], NEW id \in Id, NEW r \in Role,
         resets' = [resets EXCEPT ![id][r] = @ + 1]
  PROVE  /\ resets' \in [Id -> Stamp]
         /\ \A i \in Id, x \in Role :
              resets'[i][x] = IF i = id /\ x = r THEN resets[i][x] + 1 ELSE resets[i][x]
  BY DEF Stamp

\* What the owners rely on: their lock, the pause and the list.
LEMMA OwnerStep ==
  ASSUME RstTypeOK, OwnersExclude, OwnersPause, ListTakenClean, WritersHeldBack, [RstNext]_rstVars
  PROVE  (OwnersExclude /\ OwnersPause /\ ListTakenClean /\ WritersHeldBack)'
  <1>. USE DEF RstTypeOK, OwnerState, Journal, Role, Other, OwnerGoto, Exit, Holding, mp, own, rstHw,
              ResetCp, Dispatch, OwnersExclude, OwnersPause, ListTakenClean, WritersHeldBack
  <1>1. ASSUME NEW r \in Role, Submit(r) PROVE (OwnersExclude /\ OwnersPause /\ ListTakenClean /\ WritersHeldBack)'
    BY <1>1 DEF Submit
  <1>2. ASSUME NEW r \in Role, OwnerDies(r) PROVE (OwnersExclude /\ OwnersPause /\ ListTakenClean /\ WritersHeldBack)'
    BY <1>2 DEF OwnerDies
  <1>3. ASSUME NEW r \in Role, RstReturn(r) PROVE (OwnersExclude /\ OwnersPause /\ ListTakenClean /\ WritersHeldBack)'
    BY <1>3 DEF RstReturn
  <1>4. ASSUME NEW r \in Role, RstReboot(r) PROVE (OwnersExclude /\ OwnersPause /\ ListTakenClean /\ WritersHeldBack)'
    BY <1>4 DEF RstReboot
  <1>5. CASE Age
    BY <1>5 DEF Age
  <1>6. CASE DpBoot
    BY <1>6 DEF DpBoot
  <1>7. ASSUME NEW id \in Id, WorkerDies(id) PROVE (OwnersExclude /\ OwnersPause /\ ListTakenClean /\ WritersHeldBack)'
    BY <1>7 DEF WorkerDies
  <1>8. ASSUME NEW id \in Id, Launch(id) PROVE (OwnersExclude /\ OwnersPause /\ ListTakenClean /\ WritersHeldBack)'
    BY <1>8 DEF Launch
  <1>9. ASSUME NEW id \in Id, Begin(id) PROVE (OwnersExclude /\ OwnersPause /\ ListTakenClean /\ WritersHeldBack)'
    BY <1>9 DEF Begin
  <1>10. ASSUME NEW id \in Id, Check(id) PROVE (OwnersExclude /\ OwnersPause /\ ListTakenClean /\ WritersHeldBack)'
    BY <1>10 DEF Check
  <1>11. ASSUME NEW id \in Id, StartOwner(id) PROVE (OwnersExclude /\ OwnersPause /\ ListTakenClean /\ WritersHeldBack)'
    BY <1>11 DEF StartOwner
  <1>12. ASSUME NEW id \in Id, OwnerDone(id) PROVE (OwnersExclude /\ OwnersPause /\ ListTakenClean /\ WritersHeldBack)'
    BY <1>12 DEF OwnerDone
  <1>13. ASSUME NEW id \in Id, Verify(id) PROVE (OwnersExclude /\ OwnersPause /\ ListTakenClean /\ WritersHeldBack)'
    BY <1>13 DEF Verify
  <1>14. ASSUME NEW id \in Id, CycleDp(id) PROVE (OwnersExclude /\ OwnersPause /\ ListTakenClean /\ WritersHeldBack)'
    BY <1>14 DEF CycleDp
  <1>15. ASSUME NEW id \in Id, WorkerFails(id) PROVE (OwnersExclude /\ OwnersPause /\ ListTakenClean /\ WritersHeldBack)'
    BY <1>15 DEF WorkerFails
  <1>16. ASSUME NEW r \in Role, Inspect(r) PROVE (OwnersExclude /\ OwnersPause /\ ListTakenClean /\ WritersHeldBack)'
    BY <1>16 DEF Inspect
  <1>17. ASSUME NEW r \in Role, InspectFails(r) PROVE (OwnersExclude /\ OwnersPause /\ ListTakenClean /\ WritersHeldBack)'
    BY <1>17 DEF InspectFails
  <1>18. ASSUME NEW r \in Role, Pause(r) PROVE (OwnersExclude /\ OwnersPause /\ ListTakenClean /\ WritersHeldBack)'
    BY <1>18 DEF Pause
  <1>19. ASSUME NEW r \in Role, Prepare(r) PROVE (OwnersExclude /\ OwnersPause /\ ListTakenClean /\ WritersHeldBack)'
    BY <1>19 DEF Prepare
  <1>20. ASSUME NEW r \in Role, PrepareFails(r) PROVE (OwnersExclude /\ OwnersPause /\ ListTakenClean /\ WritersHeldBack)'
    BY <1>20 DEF PrepareFails
  <1>21. ASSUME NEW r \in Role, RstBoot(r) PROVE (OwnersExclude /\ OwnersPause /\ ListTakenClean /\ WritersHeldBack)'
    BY <1>21 DEF RstBoot
  <1>22. ASSUME NEW r \in Role, BootFails(r) PROVE (OwnersExclude /\ OwnersPause /\ ListTakenClean /\ WritersHeldBack)'
    BY <1>22 DEF BootFails
  <1>23. ASSUME NEW r \in Role, SeeBoot(r) PROVE (OwnersExclude /\ OwnersPause /\ ListTakenClean /\ WritersHeldBack)'
    BY <1>23 DEF SeeBoot
  <1>24. ASSUME NEW r \in Role, Restore(r) PROVE (OwnersExclude /\ OwnersPause /\ ListTakenClean /\ WritersHeldBack)'
    BY <1>24 DEF Restore
  <1>25. ASSUME NEW r \in Role, OwnerFails(r) PROVE (OwnersExclude /\ OwnersPause /\ ListTakenClean /\ WritersHeldBack)'
    BY <1>25 DEF OwnerFails
  <1>26. CASE UNCHANGED rstVars
    BY <1>26 DEF rstVars
  <1>. QED
    BY <1>1, <1>2, <1>3, <1>4, <1>5, <1>6, <1>7, <1>8, <1>9, <1>10, <1>11, <1>12, <1>13,
       <1>14, <1>15, <1>16, <1>17, <1>18, <1>19, <1>20, <1>21, <1>22, <1>23, <1>24,
       <1>25, <1>26 DEF RstNext, Workers, Owners, Work, Own

\* A job that ends or starts running stays the same job.
LEMMA StatusEffect ==
  ASSUME job \in Job, NEW st \in {"running", "succeeded", "failed"},
         job' = [job EXCEPT !.status = st]
  PROVE  /\ job' \in Job /\ job'.id = job.id /\ job'.role = job.role
         /\ job'.before = job.before /\ job'.status = st
  BY DEF Job

\* An observation lists a boot for each processor.
LEMMA BootsStamp == ASSUME RstTypeOK PROVE Boots \in Stamp
  BY DEF RstTypeOK, Boots, Stamp, Proc

\* A submitted job is the next one; its worker has been dispatched or not.
LEMMA SubmitEffect ==
  ASSUME RstTypeOK, NEW r \in Role, Submit(r)
  PROVE  LET n == IF job = None THEN 1 ELSE job.id + 1 IN
         /\ n \in Id /\ job' \in Job /\ job'.id = n /\ (job = None \/ n > job.id)
         /\ job'.before = Boots /\ job'.status = "queued"
         /\ \E pc \in {"inflight", "none"} : RstGoto(n, pc)
  <1>. DEFINE n == IF job = None THEN 1 ELSE job.id + 1
  <1>1. n \in Id
    BY DEF Submit
  <1>2. job' = [id |-> n, role |-> r, status |-> "queued", before |-> Boots, old |-> FALSE]
    BY DEF Submit
  <1>3. job' \in Job /\ job'.id = n /\ job'.before = Boots /\ job'.status = "queued"
    BY <1>1, <1>2, BootsStamp DEF Job
  <1>4. job = None \/ n > job.id
    BY DEF RstTypeOK, Job, Id
  <1>5. \E pc \in {"inflight", "none"} : RstGoto(n, pc)
    BY DEF Submit, RstGoto
  <1>. QED
    BY <1>1, <1>3, <1>4, <1>5

\* What a dispatched boot, or a boot command that failed, can change.
LEMMA DispatchEffect ==
  ASSUME RstTypeOK, NEW r \in Role, owner[r].cause \in Id, Dispatch(r) \/ UNCHANGED rstHw
  PROVE  /\ proc' \in [Role -> Proc] /\ \A x \in Role : proc'[x].boot >= proc[x].boot
         /\ pending' \in {pending, None, owner[r].cause}
         /\ resets' \in [Id -> Stamp]
  <1>. USE DEF RstTypeOK
  <1>1. CASE UNCHANGED rstHw
    BY <1>1 DEF rstHw, Proc
  <1>2. CASE r = "cp" /\ ResetCp(owner[r].cause)
    BY <1>2, RebootedEffect, ResetsEffect DEF ResetCp, Role
  <1>3. CASE r = "dp" /\ Dispatch(r)
    BY <1>3 DEF Dispatch, Proc
  <1>. QED
    BY <1>1, <1>2, <1>3 DEF Dispatch

\* Every step keeps every variable in its type.
LEMMA TypeOKStep ==
  ASSUME RstTypeOK, WorkerHolds, WorkersInOrder, OwnerOfLatestJob, [RstNext]_rstVars
  PROVE  RstTypeOK'
  <1>. USE DEF RstTypeOK, own, mp, rstHw
  <1>1. ASSUME NEW r \in Role, Submit(r) PROVE RstTypeOK'
    <2>. DEFINE n == IF job = None THEN 1 ELSE job.id + 1
    <2>1. n \in Id
      BY <1>1, SubmitEffect
    <2>2. job' \in Job
      BY <1>1, SubmitEffect
    <2>3. PICK pc \in {"inflight", "none"} : RstGoto(n, pc)
      BY <1>1, SubmitEffect
    <2>4. worker' \in [Id -> WorkerState]
      BY <2>1, <2>3, GotoEffect DEF WorkerPc
    <2>. QED
      BY <1>1, <2>2, <2>4 DEF Submit
  <1>2. CASE Age
    BY <1>2 DEF Age, Job
  <1>3. ASSUME NEW id \in Id, Launch(id) PROVE RstTypeOK'
    BY <1>3, GotoEffect DEF Launch, WorkerPc
  <1>4. ASSUME NEW id \in Id, Begin(id) PROVE RstTypeOK'
    BY <1>4, GotoEffect DEF Begin, WorkerPc
  <1>5. ASSUME NEW id \in Id, Check(id) PROVE RstTypeOK'
    <2>1. job \in Job
      BY <1>5 DEF Check, WorkerHolds, Busied
    <2>2. job' \in Job
      BY <1>5, <2>1, StatusEffect DEF Check
    <2>3. [pc |-> "start", before |-> Boots, target |-> job.role] \in WorkerState
      BY <2>1, BootsStamp DEF Job, WorkerState, WorkerPc
    <2>. QED
      BY <1>5, <2>2, <2>3 DEF Check
  <1>6. ASSUME NEW id \in Id, StartOwner(id) PROVE RstTypeOK'
    <2>1. worker' \in [Id -> WorkerState]
      BY <1>6, GotoEffect DEF StartOwner, WorkerPc
    <2>2. owner' \in [Role -> OwnerState]
      BY <1>6 DEF StartOwner, OwnerState, OwnerPc, WorkerState
    <2>. QED
      BY <1>6, <2>1, <2>2 DEF StartOwner
  <1>7. ASSUME NEW id \in Id, OwnerDone(id) PROVE RstTypeOK'
    BY <1>7, GotoEffect DEF OwnerDone, WorkerPc
  <1>8. ASSUME NEW id \in Id, Verify(id) PROVE RstTypeOK'
    <2>1. job \in Job
      BY <1>8 DEF Verify, WorkerHolds, Busied
    <2>2. worker' \in [Id -> WorkerState]
      BY <1>8, GotoEffect DEF Verify, End, WorkerPc
    <2>3. job' \in Job /\ lock' \in Id \cup {None}
      BY <1>8, <2>1, StatusEffect DEF Verify, End
    <2>. QED
      BY <1>8, <2>2, <2>3 DEF Verify
  <1>9. ASSUME NEW id \in Id, CycleDp(id) PROVE RstTypeOK'
    <2>1. worker' \in [Id -> WorkerState]
      BY <1>9 DEF CycleDp, WorkerState, WorkerPc, Role
    <2>. QED
      BY <1>9, <2>1 DEF CycleDp
  <1>10. ASSUME NEW id \in Id, WorkerFails(id) PROVE RstTypeOK'
    <2>1. job \in Job
      BY <1>10 DEF WorkerFails, WorkerHolds, Busied
    <2>2. worker' \in [Id -> WorkerState]
      BY <1>10, GotoEffect DEF WorkerFails, End, WorkerPc
    <2>. QED
      BY <1>10, <2>1, <2>2, StatusEffect DEF WorkerFails, End
  <1>11. ASSUME NEW id \in Id, WorkerDies(id) PROVE RstTypeOK'
    BY <1>11, GotoEffect DEF WorkerDies, RstFault, WorkerPc
  <1>12. ASSUME NEW r \in Role, Inspect(r) PROVE RstTypeOK'
    <2>. DEFINE new == [owner[r] EXCEPT !.pc = "pause", !.before = Boots]
    <2>0. new \in OwnerState
      <3>1. owner[r] \in OwnerState /\ Boots \in Stamp
        BY BootsStamp
      <3>. QED
        BY <3>1 DEF OwnerState, OwnerPc
    <2>1. owner' \in [Role -> OwnerState]
      <3>1. owner' = [owner EXCEPT ![r] = new]
        BY <1>12 DEF Inspect
      <3>. QED
        BY <2>0, <3>1
    <2>2. ownerJournal' \in [Role -> Journal]
      BY <1>12 DEF Inspect, Journal, Phase
    <2>. QED
      BY <1>12, <2>1, <2>2 DEF Inspect
  <1>13. ASSUME NEW r \in Role, InspectFails(r) PROVE RstTypeOK'
    BY <1>13, OffEffect DEF InspectFails
  <1>14. ASSUME NEW r \in Role, Pause(r) PROVE RstTypeOK'
    BY <1>14, OwnerGotoEffect, PhaseEffect DEF Pause, OwnerPc, Phase
  <1>15. ASSUME NEW r \in Role, Prepare(r) PROVE RstTypeOK'
    BY <1>15, OwnerGotoEffect, PhaseEffect DEF Prepare, OwnerPc, Phase
  <1>16. ASSUME NEW r \in Role, PrepareFails(r) PROVE RstTypeOK'
    BY <1>16, OffEffect, PhaseEffect DEF PrepareFails, Exit, Phase, Journal
  <1>17. ASSUME NEW r \in Role, RstBoot(r) \/ BootFails(r) PROVE RstTypeOK'
    <2>1. owner[r].cause \in Id
      BY <1>17 DEF RstBoot, BootFails, OwnerOfLatestJob, Job
    <2>2. proc' \in [Role -> Proc] /\ resets' \in [Id -> Stamp] /\ pending' \in Id \cup {None}
      BY <1>17, <2>1, DispatchEffect DEF RstBoot, BootFails
    <2>3. owner' \in [Role -> OwnerState]
      BY <1>17, OwnerGotoEffect, OffEffect DEF RstBoot, BootFails, Exit, OwnerPc
    <2>4. ownerJournal' \in [Role -> Journal]
      BY <1>17, PhaseEffect DEF RstBoot, BootFails, Exit, Phase
    <2>. QED
      BY <1>17, <2>2, <2>3, <2>4 DEF RstBoot, BootFails, Exit
  <1>18. ASSUME NEW r \in Role, SeeBoot(r) PROVE RstTypeOK'
    BY <1>18, OwnerGotoEffect, PhaseEffect DEF SeeBoot, OwnerPc, Phase
  <1>19. ASSUME NEW r \in Role, Restore(r) PROVE RstTypeOK'
    BY <1>19, OffEffect, PhaseEffect DEF Restore, Exit, Phase, Journal
  <1>20. ASSUME NEW r \in Role, OwnerFails(r) PROVE RstTypeOK'
    BY <1>20, OffEffect, PhaseEffect DEF OwnerFails, Exit, Phase
  <1>21. ASSUME NEW r \in Role, OwnerDies(r) PROVE RstTypeOK'
    <2>1. rstFaults' \in 0 .. RstMaxFaults
      BY <1>21 DEF OwnerDies, RstFault
    <2>2. owner' \in [Role -> OwnerState]
      BY <1>21, OffEffect DEF OwnerDies
    <2>. QED
      BY <1>21, <2>1, <2>2 DEF OwnerDies
  <1>22. CASE DpBoot
    BY <1>22, RebootedEffect, ResetsEffect DEF DpBoot, Role
  <1>23. ASSUME NEW r \in Role, RstReturn(r) PROVE RstTypeOK'
    BY <1>23 DEF RstReturn, Proc
  <1>24. ASSUME NEW r \in Role, RstReboot(r) PROVE RstTypeOK'
    <2>1. rstFaults' \in 0 .. RstMaxFaults
      BY <1>24 DEF RstReboot, RstFault
    <2>2. proc' \in [Role -> Proc]
      BY <1>24, RebootedEffect DEF RstReboot
    <2>. QED
      BY <1>24, <2>1, <2>2 DEF RstReboot
  <1>25. CASE UNCHANGED rstVars
    BY <1>25 DEF rstVars
  <1>. QED
    BY <1>1, <1>2, <1>3, <1>4, <1>5, <1>6, <1>7, <1>8, <1>9, <1>10, <1>11, <1>12, <1>13,
       <1>14, <1>15, <1>16, <1>17, <1>18, <1>19, <1>20, <1>21, <1>22, <1>23, <1>24, <1>25
       DEF RstNext, Workers, Owners, Work, Own

----------------------------------------------------------------------------
\* A step of an owner concerns no job but the one that started it, starts no
\* other owner and goes back to none of the steps before its boot command.
LEMMA OwnerEffect ==
  ASSUME RstTypeOK, NEW r \in Role, Own(r) \/ OwnerDies(r)
  PROVE  /\ UNCHANGED mp
         /\ \A x \in Role : /\ owner'[x].cause = owner[x].cause
                            /\ owner'[x].pc # "off" => owner[x].pc # "off"
                            /\ owner'[x].pc \in PreBoot => owner[x].pc \in PreBoot
  <1>. USE DEF RstTypeOK, PreBoot
  <1>1. CASE Inspect(r)
    BY <1>1 DEF Inspect, OwnerState
  <1>2. CASE Pause(r) \/ Prepare(r) \/ RstBoot(r) \/ SeeBoot(r)
    BY <1>2, OwnerGotoEffect DEF Pause, Prepare, RstBoot, SeeBoot, OwnerPc
  <1>3. CASE InspectFails(r) \/ OwnerDies(r)
    BY <1>3, OffEffect DEF InspectFails, OwnerDies
  <1>4. CASE PrepareFails(r) \/ BootFails(r) \/ Restore(r) \/ OwnerFails(r)
    BY <1>4, OffEffect DEF PrepareFails, BootFails, Restore, OwnerFails, Exit
  <1>. QED
    BY <1>1, <1>2, <1>3, <1>4 DEF Own

\* What the workers rely on: the lock of state.json and the order of jobs.
LEMMA WorkerStep ==
  ASSUME RstTypeOK, WorkerHolds, WorkersInOrder, OwnerOfLatestJob, [RstNext]_rstVars
  PROVE  (WorkerHolds /\ WorkersInOrder /\ OwnerOfLatestJob)'
  <1>. DEFINE Goal == (WorkerHolds /\ WorkersInOrder /\ OwnerOfLatestJob)'
  <1>. USE DEF WorkerHolds, WorkersInOrder, OwnerOfLatestJob, Busied
  <1>1. ASSUME NEW r \in Role, Submit(r) PROVE Goal
    <2>. DEFINE n == IF job = None THEN 1 ELSE job.id + 1
    <2>1. n \in Id /\ job' # None /\ job'.id = n /\ (job = None \/ n > job.id)
      BY <1>1, SubmitEffect
    <2>2. PICK pc \in {"inflight", "none"} : RstGoto(n, pc)
      BY <1>1, SubmitEffect
    <2>3. \A i \in Id : worker'[i].pc = IF i = n THEN pc ELSE worker[i].pc
      BY <2>1, <2>2, GotoEffect DEF WorkerPc, RstTypeOK
    <2>4. WorkerHolds'
      BY <1>1, <2>3 DEF Submit, RstTypeOK, Id
    <2>5. WorkersInOrder'
      BY <2>1, <2>3 DEF RstTypeOK, Job, Id
    <2>6. OwnerOfLatestJob'
      BY <1>1 DEF Submit, Busy, UnitActive, own
    <2>. QED
      BY <2>4, <2>5, <2>6
  <1>2. CASE Age
    <2>1. job' # None /\ job # None /\ job'.id = job.id
      BY <1>2 DEF Age, RstTypeOK, Job
    <2>. QED
      BY <1>2, <2>1 DEF Age, own
  <1>3. ASSUME NEW id \in Id, Launch(id) \/ OwnerDone(id) PROVE Goal
    BY <1>3, GotoEffect DEF Launch, OwnerDone, WorkerPc, RstTypeOK, own
  <1>4. ASSUME NEW id \in Id, Begin(id) PROVE Goal
    <2>1. \A i \in Id : i # id => worker'[i].pc = worker[i].pc
      BY <1>4, GotoEffect DEF Begin, WorkerPc, RstTypeOK
    <2>2. /\ worker'[id].pc = "check" => lock' = id /\ job.id = id
          /\ worker'[id].pc \in {"check", "done"} /\ lock' \in {lock, id} /\ lock = None
      BY <1>4, GotoEffect DEF Begin, WorkerPc, RstTypeOK
    <2>3. job # None /\ UNCHANGED <<job, owner>> /\ (job = None \/ id > job.id => FALSE)
      BY <1>4 DEF Begin, own
    <2>4. WorkerHolds'
      <3>1. \A i \in Id : i # id => worker'[i].pc \notin Busied
        BY <2>1, <2>2 DEF Id
      <3>. QED
        BY <2>2, <2>3, <3>1
    <2>5. WorkersInOrder' /\ OwnerOfLatestJob'
      BY <2>1, <2>3
    <2>. QED
      BY <2>4, <2>5
  <1>5. ASSUME NEW id \in Id, Check(id) PROVE Goal
    <2>1. job \in Job /\ job.id = id /\ lock = id
      BY <1>5 DEF Check, RstTypeOK
    <2>2. job' # None /\ job'.id = job.id
      BY <1>5, <2>1, StatusEffect DEF Check
    <2>3. \A i \in Id : worker'[i].pc = IF i = id THEN "start" ELSE worker[i].pc
      BY <1>5 DEF Check, RstTypeOK
    <2>. QED
      BY <1>5, <2>1, <2>2, <2>3 DEF Check, own, RstTypeOK, Job, Id
  <1>6. ASSUME NEW id \in Id, StartOwner(id) PROVE Goal
    <2>1. job # None /\ job.id = id /\ UNCHANGED <<job, lock>>
      BY <1>6 DEF StartOwner
    <2>2. \A i \in Id : worker'[i].pc = IF i = id THEN "owner" ELSE worker[i].pc
      BY <1>6, GotoEffect DEF StartOwner, WorkerPc, RstTypeOK
    <2>3. \A x \in Role : owner'[x].pc # "off" =>
            owner'[x].cause = id \/ (owner[x].pc # "off" /\ owner'[x].cause = owner[x].cause)
      BY <1>6 DEF StartOwner, UnitActive, RstTypeOK, OwnerState, WorkerState
    <2>4. WorkerHolds' /\ WorkersInOrder'
      <3>1. worker[id].pc = "start"
        BY <1>6 DEF StartOwner
      <3>2. WorkerHolds'
        BY <2>1, <2>2, <3>1
      <3>3. WorkersInOrder'
        BY <2>1, <2>2, <3>1 DEF Id
      <3>. QED
        BY <3>2, <3>3
    <2>5. OwnerOfLatestJob'
      BY <2>1, <2>3
    <2>. QED
      BY <2>4, <2>5
  <1>7. ASSUME NEW id \in Id, Verify(id) \/ WorkerFails(id) PROVE Goal
    <2>1. job \in Job /\ job.id = id /\ lock = id
      BY <1>7 DEF Verify, WorkerFails, RstTypeOK
    <2>2. job' # None /\ job'.id = job.id
      BY <1>7, <2>1, StatusEffect DEF Verify, WorkerFails, End
    <2>3. /\ \A i \in Id : i # id => worker'[i].pc = worker[i].pc
          /\ worker'[id].pc = "done" \/ (worker'[id].pc = "cycle" /\ lock' = lock)
      BY <1>7, GotoEffect DEF Verify, WorkerFails, End, WorkerPc, RstTypeOK
    <2>. QED
      BY <1>7, <2>1, <2>2, <2>3 DEF Verify, WorkerFails, own, Id, Job
  <1>8. ASSUME NEW id \in Id, CycleDp(id) PROVE Goal
    <2>1. \A i \in Id : worker'[i].pc = worker[i].pc
                        \/ (i = id /\ worker'[i].pc \in {"start", "verify"})
      BY <1>8 DEF CycleDp, RstTypeOK, WorkerState
    <2>. QED
      BY <1>8, <2>1 DEF CycleDp, own
  <1>9. ASSUME NEW id \in Id, WorkerDies(id) PROVE Goal
    <2>1. \A i \in Id : worker'[i].pc = IF i = id THEN "done" ELSE worker[i].pc
      BY <1>9, GotoEffect DEF WorkerDies, WorkerPc, RstTypeOK
    <2>. QED
      BY <1>9, <2>1 DEF WorkerDies, Alive, own
  <1>10. ASSUME NEW r \in Role, Own(r) \/ OwnerDies(r) PROVE Goal
    BY <1>10, OwnerEffect DEF mp
  <1>11. CASE DpBoot \/ (\E r \in Role : RstReturn(r) \/ RstReboot(r))
    BY <1>11 DEF DpBoot, RstReturn, RstReboot, mp, own
  <1>12. CASE UNCHANGED rstVars
    BY <1>12 DEF rstVars
  <1>. QED
    BY <1>1, <1>2, <1>3, <1>4, <1>5, <1>6, <1>7, <1>8, <1>9, <1>10, <1>11, <1>12
       DEF RstNext, Workers, Owners, Work

----------------------------------------------------------------------------
\* A step that asks for nothing and resets nothing leaves every reset as due as
\* it was.
LEMMA NothingAsked ==
  ASSUME ResetDue, OneResetPerJob, UNCHANGED <<pending, resets>>,
         \A id \in Id, r \in Role : NotAsked(id, r)' => NotAsked(id, r),
         \A r \in Role : /\ owner'[r].cause = owner[r].cause
                         /\ owner'[r].pc \in PreBoot => owner[r].pc \in PreBoot
  PROVE  (ResetDue /\ OneResetPerJob)'
  <1>1. "dp" \in Role
    BY DEF Role
  <1>2. OneResetPerJob'
    BY DEF OneResetPerJob
  <1>3. ResetDue'
    BY <1>1 DEF ResetDue, PreBoot
  <1>. QED
    BY <1>2, <1>3

\* A boot command carries out, or passes on, the reset its job is due.
LEMMA DispatchStep ==
  ASSUME RstTypeOK, ResetDue, OneResetPerJob, NEW r \in Role,
         owner[r].pc = "boot", owner[r].cause \in Id, UNCHANGED worker,
         Dispatch(r) \/ UNCHANGED rstHw,
         \A x \in Role : /\ owner'[x].cause = owner[x].cause
                         /\ owner'[x].pc \in PreBoot => owner[x].pc \in PreBoot /\ x # r
  PROVE  (ResetDue /\ OneResetPerJob)'
  <1>1. \A id \in Id, x \in Role : NotAsked(id, x)' => NotAsked(id, x)
    BY DEF NotAsked
  <1>2. CASE UNCHANGED rstHw
    BY <1>1, <1>2, NothingAsked DEF rstHw
  <1>3. CASE r = "cp" /\ ResetCp(owner[r].cause)
    <2>1. \A i \in Id, x \in Role : resets'[i][x] =
            IF i = owner[r].cause /\ x = "cp" THEN resets[i][x] + 1 ELSE resets[i][x]
      BY <1>3, ResetsEffect DEF ResetCp, RstTypeOK, Role
    <2>2. pending' = None /\ \A i \in Id : i # None
      BY <1>3 DEF ResetCp, Id
    <2>3. resets[owner[r].cause]["cp"] = 0
      BY <1>3 DEF ResetDue, Role
    <2>4. OneResetPerJob'
      BY <2>1, <2>3 DEF OneResetPerJob
    <2>5. \A i \in Id, x \in Role : NotAsked(i, x)' => resets'[i][x] = 0 /\ owner'[x].cause # i
      BY <1>1, <2>1 , <1>3 DEF ResetDue
    <2>6. \A i \in Id, x \in Role : owner'[x].cause = i /\ owner'[x].pc \in PreBoot => resets'[i][x] = 0
      <3>1. \A x \in Role : owner'[x].pc \in PreBoot => owner[x].pc \in PreBoot /\ x # "cp"
        BY <1>3
      <3>2. \A i \in Id, x \in Role : owner[x].cause = i /\ owner[x].pc \in PreBoot => resets[i][x] = 0
        BY DEF ResetDue, PreBoot
      <3>. QED
        BY <2>1, <3>1, <3>2
    <2>. QED
      BY <2>2, <2>4, <2>5, <2>6 DEF ResetDue, PreBoot
  <1>4. CASE /\ r = "dp" /\ pending' = IF pending = None THEN owner[r].cause ELSE pending
             /\ UNCHANGED <<proc, resets>>
    <2>1. \A i \in Id : i # None
      BY DEF Id
    <2>2. OneResetPerJob'
      BY <1>4 DEF OneResetPerJob
    <2>3. \A i \in Id, x \in Role : NotAsked(i, x)' => resets'[i][x] = 0 /\ owner'[x].cause # i
      BY <1>1, <1>4 DEF ResetDue
    <2>4. \A i \in Id : NotAsked(i, "dp")' => pending' # i
      BY <1>1, <1>4, <2>1 DEF ResetDue, Role
    <2>5. \A i \in Id, x \in Role : owner'[x].cause = i /\ owner'[x].pc \in PreBoot => resets'[i][x] = 0
      BY <1>4 DEF ResetDue, PreBoot
    <2>6. owner'["dp"].pc \notin PreBoot
      BY <1>4
    <2>7. \A i \in Id : pending' = i => resets'[i]["dp"] = 0
      BY <1>4, <2>1 DEF ResetDue
    <2>. QED
      BY <2>2, <2>3, <2>4, <2>5, <2>6, <2>7 DEF ResetDue, PreBoot
  <1>. QED
    BY <1>2, <1>3, <1>4 DEF Dispatch

\* A reset is carried out only where one is due.
LEMMA ResetStep ==
  ASSUME RstTypeOK, WorkerHolds, WorkersInOrder, OwnerOfLatestJob, BootsAdvance,
         ResetDue, OneResetPerJob, [RstNext]_rstVars
  PROVE  (ResetDue /\ OneResetPerJob)'
  <1>. DEFINE Goal == (ResetDue /\ OneResetPerJob)'
  <1>1. ASSUME NEW r \in Role, Submit(r) PROVE Goal
    <2>. DEFINE n == IF job = None THEN 1 ELSE job.id + 1
    <2>1. n \in Id /\ worker[n].pc = "none"
      BY <1>1, SubmitEffect DEF WorkersInOrder
    <2>2. PICK pc \in {"inflight", "none"} : RstGoto(n, pc)
      BY <1>1, SubmitEffect
    <2>3. \A id \in Id, x \in Role : NotAsked(id, x)' => NotAsked(id, x)
      BY <2>1, <2>2, GotoEffect DEF NotAsked, WorkerPc, RstTypeOK
    <2>. QED
      BY <1>1, <2>3, NothingAsked DEF Submit, own, rstHw
  <1>2. CASE Age
    BY <1>2, NothingAsked DEF Age, own, rstHw, NotAsked
  <1>3. ASSUME NEW id \in Id, Launch(id) \/ Begin(id) \/ OwnerDone(id) \/ Verify(id)
                              \/ WorkerFails(id) \/ WorkerDies(id)
        PROVE  Goal
    <2>1. UNCHANGED <<own, rstHw>>
      BY <1>3 DEF Launch, Begin, OwnerDone, Verify, WorkerFails, WorkerDies
    <2>2. PICK pc \in {"launched", "check", "verify", "cycle", "done"} : RstGoto(id, pc)
      BY <1>3 DEF Launch, Begin, OwnerDone, Verify, WorkerFails, WorkerDies, End
    <2>3. \A x \in Role : NotAsked(id, x)' => NotAsked(id, x)
      <3>1. /\ pc \in {"launched", "check"} => worker[id].pc \in {"inflight", "launched"}
            /\ pc \in {"verify", "cycle"} => worker[id].pc \in Busied
        BY <1>3, <2>2, GotoEffect
           DEF Launch, Begin, OwnerDone, Verify, WorkerFails, WorkerDies, End, WorkerPc, RstTypeOK, Busied
      <3>. QED
        BY <2>2, <3>1, GotoEffect DEF NotAsked, WorkerPc, RstTypeOK, Busied
    <2>4. \A i \in Id, x \in Role : NotAsked(i, x)' => NotAsked(i, x)
      BY <2>2, <2>3, GotoEffect DEF NotAsked, WorkerPc, RstTypeOK
    <2>. QED
      BY <2>1, <2>4, NothingAsked DEF own, rstHw
  <1>4. ASSUME NEW id \in Id, Check(id) PROVE Goal
    <2>1. \A i \in Id, x \in Role : NotAsked(i, x)' => NotAsked(i, x)
      BY <1>4 DEF Check, NotAsked, RstTypeOK
    <2>. QED
      BY <1>4, <2>1, NothingAsked DEF Check, own, rstHw
  <1>5. ASSUME NEW id \in Id, StartOwner(id) PROVE Goal
    <2>. DEFINE t == worker[id].target
    <2>1. t \in Role /\ NotAsked(id, t) /\ UNCHANGED <<pending, resets>>
      BY <1>5 DEF StartOwner, NotAsked, RstTypeOK, WorkerState, rstHw
    <2>2. \A i \in Id, x \in Role : NotAsked(i, x)' => NotAsked(i, x) /\ (i = id => x # t)
      BY <1>5, GotoEffect DEF StartOwner, NotAsked, WorkerPc, RstTypeOK, Busied, Role, WorkerState
    <2>3. CASE UnitActive(t)
      BY <1>5, <2>1, <2>2, <2>3, NothingAsked DEF StartOwner
    <2>4. CASE ~UnitActive(t)
      <3>1. \A x \in Role : /\ x # t => owner'[x] = owner[x]
                            /\ owner'[t].cause = id
        BY <1>5, <2>1, <2>4 DEF StartOwner, RstTypeOK, OwnerState
      <3>2. \A i \in Id, x \in Role : NotAsked(i, x)' => resets'[i][x] = 0 /\ owner'[x].cause # i
        BY <2>1, <2>2, <3>1 DEF ResetDue
      <3>3. \A i \in Id : NotAsked(i, "dp")' => pending' # i
        BY <2>1, <2>2 DEF ResetDue, Role
      <3>4. \A i \in Id, x \in Role : owner'[x].cause = i /\ owner'[x].pc \in PreBoot => resets'[i][x] = 0
        BY <2>1, <3>1 DEF ResetDue, PreBoot
      <3>5. \A i \in Id : owner'["dp"].cause = i /\ owner'["dp"].pc \in PreBoot => pending' # i
        BY <2>1, <3>1 DEF ResetDue, PreBoot, Role
      <3>6. OneResetPerJob'
        BY <2>1 DEF OneResetPerJob
      <3>. QED
        BY <2>1, <3>2, <3>3, <3>4, <3>5, <3>6 DEF ResetDue, PreBoot
    <2>. QED
      BY <2>3, <2>4
  <1>6. ASSUME NEW id \in Id, CycleDp(id) PROVE Goal
    <2>1. worker[id].target = "cp"
      BY <1>6 DEF CycleDp, BootsAdvance, Busied
    <2>2. \A i \in Id : i # id => worker'[i] = worker[i]
      BY <1>6 DEF CycleDp, RstTypeOK
    <2>3. worker'[id].target = "dp" /\ worker'[id].pc \in {"start", "verify"}
      BY <1>6 DEF CycleDp, RstTypeOK, WorkerState
    <2>4. \A i \in Id, x \in Role : NotAsked(i, x)' => NotAsked(i, x)
      BY <1>6, <2>1, <2>2, <2>3 DEF CycleDp, NotAsked, Busied
    <2>. QED
      BY <1>6, <2>4, NothingAsked DEF CycleDp, own, rstHw
  <1>7. ASSUME NEW r \in Role, RstBoot(r) \/ BootFails(r) PROVE Goal
    <2>1. owner[r].pc = "boot" /\ (Dispatch(r) \/ UNCHANGED rstHw) /\ UNCHANGED mp
      BY <1>7 DEF RstBoot, BootFails
    <2>2. owner[r].cause \in Id
      BY <2>1 DEF OwnerOfLatestJob, RstTypeOK, Job
    <2>3. owner'[r].pc \in {"wait", "off"}
      BY <1>7, OwnerGotoEffect, OffEffect DEF RstBoot, BootFails, Exit, OwnerPc, RstTypeOK
    <2>4. \A x \in Role : /\ owner'[x].cause = owner[x].cause
                          /\ owner'[x].pc \in PreBoot => owner[x].pc \in PreBoot /\ x # r
      BY <1>7, <2>3, OwnerEffect DEF Own, PreBoot
    <2>. QED
      BY <2>1, <2>2, <2>4, DispatchStep DEF mp
  <1>8. ASSUME NEW r \in Role, Own(r) \/ OwnerDies(r), UNCHANGED rstHw PROVE Goal
    BY <1>8, OwnerEffect, NothingAsked DEF mp, rstHw, NotAsked
  <1>9. CASE DpBoot
    <2>1. pending \in Id /\ pending' = None /\ UNCHANGED <<mp, own>> /\ \A i \in Id : i # None
      BY <1>9 DEF DpBoot, RstTypeOK, Id
    <2>2. \A i \in Id, x \in Role : NotAsked(i, x)' => NotAsked(i, x)
      BY <2>1 DEF NotAsked, mp
    <2>3. \/ UNCHANGED resets
          \/ \A i \in Id, x \in Role : resets'[i][x] =
               IF i = pending /\ x = "dp" THEN resets[i][x] + 1 ELSE resets[i][x]
      BY <1>9, <2>1, ResetsEffect DEF DpBoot, RstTypeOK, Role
    <2>4. resets[pending]["dp"] = 0
      BY <2>1 DEF ResetDue
    <2>5. OneResetPerJob'
      BY <2>3, <2>4 DEF OneResetPerJob
    <2>6. \A i \in Id, x \in Role : NotAsked(i, x)' => resets'[i][x] = 0 /\ owner'[x].cause # i
      BY <2>1, <2>2, <2>3 DEF ResetDue, own
    <2>7. \A i \in Id, x \in Role : owner'[x].cause = i /\ owner'[x].pc \in PreBoot => resets'[i][x] = 0
      BY <2>1, <2>3 DEF ResetDue, PreBoot, own
    <2>. QED
      BY <2>1, <2>5, <2>6, <2>7 DEF ResetDue, PreBoot
  <1>10. ASSUME NEW r \in Role, RstReturn(r) PROVE Goal
    BY <1>10, NothingAsked DEF RstReturn, mp, own, NotAsked
  <1>11. ASSUME NEW r \in Role, RstReboot(r) PROVE Goal
    <2>1. UNCHANGED <<worker, owner, resets>> /\ pending' \in {pending, None}
      BY <1>11 DEF RstReboot, mp, own
    <2>2. \A i \in Id : i # None
      BY DEF Id
    <2>3. \A i \in Id, x \in Role : NotAsked(i, x)' => NotAsked(i, x)
      BY <2>1 DEF NotAsked
    <2>. QED
      BY <2>1, <2>2, <2>3 DEF ResetDue, OneResetPerJob, Role
  <1>12. CASE UNCHANGED rstVars
    BY <1>12, NothingAsked DEF rstVars, NotAsked
  <1>13. ASSUME NEW r \in Role, Own(r) PROVE RstBoot(r) \/ BootFails(r) \/ UNCHANGED rstHw
    BY <1>13 DEF Own, Inspect, InspectFails, Pause, Prepare, PrepareFails, SeeBoot, Restore, OwnerFails
  <1>14. ASSUME NEW r \in Role, OwnerDies(r) PROVE UNCHANGED rstHw
    BY <1>14 DEF OwnerDies
  <1>. QED
    BY <1>1, <1>2, <1>3, <1>4, <1>5, <1>6, <1>7, <1>8, <1>9, <1>10, <1>11, <1>12, <1>13, <1>14
       DEF RstNext, Workers, Owners, Work

----------------------------------------------------------------------------
\* Processors only move on to other boots, whoever resets them.
LEMMA BootEffect ==
  ASSUME RstTypeOK, OwnerOfLatestJob, [RstNext]_rstVars
  PROVE  \A x \in Role : proc'[x].boot \in Nat /\ proc[x].boot \in Nat /\ proc'[x].boot >= proc[x].boot
  <1>. DEFINE Goal == \A x \in Role : /\ proc'[x].boot \in Nat /\ proc[x].boot \in Nat
                                      /\ proc'[x].boot >= proc[x].boot
  <1>1. CASE UNCHANGED proc
    BY <1>1 DEF RstTypeOK, Proc
  <1>2. ASSUME NEW r \in Role, RstBoot(r) \/ BootFails(r) PROVE Goal
    <2>1. owner[r].cause \in Id /\ (Dispatch(r) \/ UNCHANGED rstHw)
      BY <1>2 DEF RstBoot, BootFails, OwnerOfLatestJob, RstTypeOK, Job
    <2>. QED
      BY <2>1, DispatchEffect DEF RstTypeOK, Proc
  <1>3. CASE DpBoot
    BY <1>3, RebootedEffect DEF DpBoot, RstTypeOK, Role, Proc
  <1>4. ASSUME NEW r \in Role, RstReturn(r) PROVE Goal
    BY <1>4 DEF RstReturn, RstTypeOK, Proc
  <1>5. ASSUME NEW r \in Role, RstReboot(r) PROVE Goal
    BY <1>5, RebootedEffect DEF RstReboot, RstTypeOK, Proc
  <1>6. ASSUME NEW r \in Role, Own(r) \/ OwnerDies(r) PROVE RstBoot(r) \/ BootFails(r) \/ UNCHANGED proc
    BY <1>6 DEF Own, Inspect, InspectFails, Pause, Prepare, PrepareFails, SeeBoot, Restore,
                OwnerFails, OwnerDies, rstHw
  <1>7. ASSUME NEW id \in Id, Work(id) \/ WorkerDies(id) PROVE UNCHANGED proc
    BY <1>7 DEF Work, Launch, Begin, Check, StartOwner, OwnerDone, Verify, CycleDp, WorkerFails,
                WorkerDies, rstHw
  <1>8. ASSUME NEW r \in Role, Submit(r) PROVE UNCHANGED proc
    BY <1>8 DEF Submit, rstHw
  <1>9. CASE Age
    BY <1>1, <1>9 DEF Age, rstHw
  <1>10. CASE UNCHANGED rstVars
    BY <1>1, <1>10 DEF rstVars
  <1>. QED
    BY <1>1, <1>2, <1>3, <1>4, <1>5, <1>6, <1>7, <1>8, <1>9, <1>10 DEF RstNext, Workers, Owners

\* Boot identities move on, and success is only reported of a new one.
LEMMA BootStep ==
  ASSUME RstTypeOK, WorkerHolds, WorkersInOrder, OwnerOfLatestJob, BootsAdvance, SuccessIsNewBoot,
         [RstNext]_rstVars
  PROVE  (BootsAdvance /\ SuccessIsNewBoot)'
  <1>. DEFINE Goal == (BootsAdvance /\ SuccessIsNewBoot)'
  <1>0. /\ \A x \in Role : /\ proc'[x].boot \in Nat /\ proc[x].boot \in Nat
                           /\ proc'[x].boot >= proc[x].boot
        /\ "cp" \in Role /\ "dp" \in Role
    BY BootEffect DEF Role
  <1>. USE DEF Busied
  <1>1. job # None => job.role \in Role /\ \A x \in Role : job.before[x] \in Nat
    BY DEF RstTypeOK, Job, Stamp
  <1>2. \A i \in Id : worker[i].target \in Role /\ \A x \in Role : worker[i].before[x] \in Nat
    BY DEF RstTypeOK, WorkerState, Stamp
  <1>3. ASSUME job' # None => /\ job # None /\ job'.before = job.before
                              /\ job'.role = job.role /\ job'.status = job.status,
               job' = None => job = None,
               \A i \in Id : worker'[i].pc \in Busied \ {"check"} =>
                 /\ worker[i].pc \in Busied \ {"check"}
                 /\ worker'[i].target = worker[i].target /\ worker'[i].before = worker[i].before
                 /\ worker'[i].pc = "cycle" => worker[i].pc = "cycle"
        PROVE  Goal
    <2>1. SuccessIsNewBoot'
      BY <1>0, <1>1, <1>3 DEF SuccessIsNewBoot, BootsAdvance
    <2>2. job' # None => \A x \in Role : job'.before[x] <= proc'[x].boot
      BY <1>0, <1>1, <1>3 DEF BootsAdvance
    <2>3. ASSUME NEW i \in Id, worker'[i].pc \in Busied \ {"check"}
          PROVE  /\ \A x \in Role : /\ job'.before[x] <= worker'[i].before[x]
                                    /\ worker'[i].before[x] <= proc'[x].boot
                 /\ job'.role = "dp" => worker'[i].target = "dp" /\ worker'[i].pc # "cycle"
                 /\ worker'[i].pc = "cycle" => worker'[i].target = "cp"
                 /\ job'.role = "cp" /\ (worker'[i].target = "dp" \/ worker'[i].pc = "cycle")
                      => proc'["cp"].boot > job'.before["cp"]
      <3>1. job # None /\ job' # None
        BY <1>3, <2>3 DEF WorkerHolds
      <3>. QED
        BY <1>0, <1>1, <1>2, <1>3, <2>3, <3>1 DEF BootsAdvance
    <2>. QED
      BY <2>1, <2>2, <2>3 DEF BootsAdvance
  <1>4. ASSUME NEW r \in Role, Submit(r) PROVE Goal
    <2>. DEFINE n == IF job = None THEN 1 ELSE job.id + 1
    <2>1. n \in Id /\ job' \in Job /\ job'.before = Boots /\ job'.status = "queued" /\ job' # None
      BY <1>4, SubmitEffect
    <2>2. PICK pc \in {"inflight", "none"} : RstGoto(n, pc)
      BY <1>4, SubmitEffect
    <2>3. \A i \in Id : worker'[i].pc \notin Busied
      BY <1>4, <2>1, <2>2, GotoEffect DEF Submit, WorkerHolds, WorkerPc, RstTypeOK, Id
    <2>4. \A x \in Role : job'.before[x] <= proc'[x].boot
      BY <1>0, <1>4, <2>1 DEF Submit, Boots, rstHw
    <2>. QED
      BY <2>1, <2>3, <2>4 DEF BootsAdvance, SuccessIsNewBoot
  <1>5. CASE Age
    <2>1. /\ job # None /\ job' # None /\ job'.before = job.before
          /\ job'.role = job.role /\ job'.status = job.status
      BY <1>5 DEF Age, RstTypeOK, Job
    <2>. QED
      BY <1>3, <1>5, <2>1 DEF Age
  <1>6. ASSUME UNCHANGED <<job, worker>> PROVE Goal
    BY <1>3, <1>6
  <1>7. ASSUME NEW id \in Id, Launch(id) \/ Begin(id) \/ OwnerDone(id) \/ StartOwner(id) \/ WorkerDies(id)
        PROVE  Goal
    <2>1. UNCHANGED job
      BY <1>7 DEF Launch, Begin, OwnerDone, StartOwner, WorkerDies
    <2>2. PICK pc \in {"launched", "check", "verify", "owner", "done"} : RstGoto(id, pc)
      BY <1>7 DEF Launch, Begin, OwnerDone, StartOwner, WorkerDies
    <2>3. pc \in {"verify", "owner"} => worker[id].pc \in Busied \ {"check"}
      BY <1>7, <2>2, GotoEffect
         DEF Launch, Begin, OwnerDone, StartOwner, WorkerDies, WorkerPc, RstTypeOK
    <2>. QED
      BY <1>3, <2>1, <2>2, <2>3, GotoEffect DEF WorkerPc, RstTypeOK
  <1>8. ASSUME NEW id \in Id, Check(id) PROVE Goal
    <2>1. job \in Job /\ job # None /\ lock = id
      BY <1>8 DEF Check, WorkerHolds, RstTypeOK
    <2>2. /\ job' \in Job /\ job' # None /\ job'.role = job.role /\ job'.before = job.before
          /\ job'.status = "running" /\ UNCHANGED proc
      BY <1>8, <2>1, StatusEffect DEF Check, rstHw
    <2>3. \A i \in Id : i # id => worker'[i].pc \notin Busied
      BY <1>8, <2>1 DEF Check, WorkerHolds, RstTypeOK
    <2>4. worker'[id].pc = "start" /\ worker'[id].before = Boots /\ worker'[id].target = job.role
      BY <1>8 DEF Check, RstTypeOK
    <2>5. \A x \in Role : job'.before[x] <= proc'[x].boot /\ Boots[x] = proc'[x].boot
      BY <2>1, <2>2 DEF BootsAdvance, Boots
    <2>. QED
      BY <1>0, <1>1, <2>2, <2>3, <2>4, <2>5 DEF BootsAdvance, SuccessIsNewBoot, Role
  <1>9. ASSUME NEW id \in Id, Verify(id) PROVE Goal
    <2>. DEFINE t == worker[id].target
    <2>1. job \in Job /\ job # None /\ lock = id /\ UNCHANGED proc /\ worker[id].pc = "verify"
      BY <1>9 DEF Verify, WorkerHolds, RstTypeOK, rstHw
    <2>2. t \in Role /\ proc[t].boot > job.before[t]
      BY <1>0, <1>1, <1>2, <1>9, <2>1 DEF Verify, BootsAdvance
    <2>3. \A i \in Id : i # id => worker[i].pc \notin Busied
      BY <2>1 DEF WorkerHolds
    <2>4. CASE job.role = "cp" /\ t = "cp" /\ RstGoto(id, "cycle") /\ UNCHANGED <<job, lock>>
      <3>1. /\ \A i \in Id : i # id => worker'[i].pc \notin Busied
            /\ worker'[id].pc = "cycle" /\ worker'[id].target = "cp"
            /\ worker'[id].before = worker[id].before
        BY <2>3, <2>4, GotoEffect DEF WorkerPc, RstTypeOK
      <3>2. SuccessIsNewBoot'
        BY <2>1, <2>4 DEF SuccessIsNewBoot
      <3>. QED
        BY <1>0, <1>1, <2>1, <2>2, <2>4, <3>1, <3>2 DEF BootsAdvance
    <2>5. CASE \E st \in {"succeeded", "failed"} : End(id, st)
      <3>1. \A i \in Id : worker'[i].pc \notin Busied
        BY <2>3, <2>5, GotoEffect DEF End, WorkerPc, RstTypeOK
      <3>2. job' \in Job /\ job' # None /\ job'.role = job.role /\ job'.before = job.before
        BY <2>1, <2>5, StatusEffect DEF End
      <3>3. job.role = "cp" /\ t = "dp" => proc["cp"].boot > job.before["cp"]
        BY <2>1 DEF BootsAdvance
      <3>4. job.role = "cp" /\ t = "cp" => job' = job \/ job'.status # "succeeded"
        BY <1>9, <2>1, <2>5, GotoEffect DEF Verify, End, WorkerPc, RstTypeOK
      <3>5. job.role = "dp" => t = "dp"
        BY <2>1 DEF BootsAdvance
      <3>6. BootsAdvance'
        BY <1>0, <1>1, <2>1, <3>1, <3>2 DEF BootsAdvance
      <3>7. SuccessIsNewBoot'
        BY <1>0, <1>1, <2>1, <2>2, <3>2, <3>3, <3>4, <3>5 DEF SuccessIsNewBoot, Role
      <3>. QED
        BY <3>6, <3>7
    <2>. QED
      BY <1>9, <2>4, <2>5 DEF Verify
  <1>10. ASSUME NEW id \in Id, CycleDp(id) PROVE Goal
    <2>1. job # None /\ lock = id /\ UNCHANGED <<job, proc>> /\ worker[id].pc = "cycle"
      BY <1>10 DEF CycleDp, WorkerHolds, rstHw
    <2>2. \A i \in Id : i # id => worker'[i] = worker[i]
      BY <1>10 DEF CycleDp, RstTypeOK
    <2>3. /\ worker'[id].target = "dp" /\ worker'[id].pc \in {"start", "verify"}
          /\ worker'[id].before = worker[id].before
      BY <1>10 DEF CycleDp, RstTypeOK, WorkerState
    <2>4. SuccessIsNewBoot'
      BY <2>1 DEF SuccessIsNewBoot
    <2>5. \A i \in Id : i # id => worker'[i].pc \notin Busied
      BY <2>1, <2>2 DEF WorkerHolds
    <2>. QED
      BY <1>0, <1>1, <2>1, <2>3, <2>4, <2>5 DEF BootsAdvance, Role
  <1>11. ASSUME NEW id \in Id, WorkerFails(id) PROVE Goal
    <2>1. job \in Job /\ job # None /\ lock = id /\ UNCHANGED proc
      BY <1>11 DEF WorkerFails, WorkerHolds, RstTypeOK, rstHw
    <2>2. /\ job' \in Job /\ job' # None /\ job'.role = job.role /\ job'.before = job.before
          /\ job'.status = "failed"
      BY <1>11, <2>1, StatusEffect DEF WorkerFails, End
    <2>3. \A i \in Id : worker'[i].pc \notin Busied
      BY <1>11, <2>1, GotoEffect DEF WorkerFails, End, WorkerHolds, WorkerPc, RstTypeOK
    <2>. QED
      BY <2>1, <2>2, <2>3 DEF BootsAdvance, SuccessIsNewBoot
  <1>12. ASSUME NEW r \in Role, Own(r) \/ OwnerDies(r) PROVE Goal
    BY <1>6, <1>12, OwnerEffect DEF mp
  <1>13. CASE DpBoot \/ (\E r \in Role : RstReturn(r) \/ RstReboot(r)) \/ UNCHANGED rstVars
    BY <1>6, <1>13 DEF DpBoot, RstReturn, RstReboot, mp, rstVars
  <1>. QED
    BY <1>4, <1>5, <1>7, <1>8, <1>9, <1>10, <1>11, <1>12, <1>13 DEF RstNext, Workers, Owners, Work

----------------------------------------------------------------------------
\* Nothing has been asked for, paused or reset at the start.
LEMMA InitIInv == RstInit => IInv
  <1>. SUFFICES ASSUME RstInit PROVE IInv
    OBVIOUS
  <1>. USE DEF RstInit
  <1>1. RstTypeOK
    BY DEF RstTypeOK, WorkerState, OwnerState, Journal, Proc, WorkerPc, OwnerPc, Phase, Stamp, Role, Id
  <1>2. OwnersExclude /\ OwnersPause /\ ListTakenClean /\ WritersHeldBack
    BY DEF OwnersExclude, OwnersPause, ListTakenClean, WritersHeldBack, Holding, Role
  <1>3. WorkerHolds /\ WorkersInOrder /\ OwnerOfLatestJob
    BY DEF WorkerHolds, WorkersInOrder, OwnerOfLatestJob, Busied
  <1>4. ResetDue /\ OneResetPerJob
    BY DEF ResetDue, OneResetPerJob, Id, Role
  <1>5. BootsAdvance /\ SuccessIsNewBoot
    BY DEF BootsAdvance, SuccessIsNewBoot, Busied
  <1>. QED
    BY <1>1, <1>2, <1>3, <1>4, <1>5 DEF IInv

\* The invariant is inductive.
LEMMA IInvStep == IInv /\ [RstNext]_rstVars => IInv'
  <1>. SUFFICES ASSUME IInv, [RstNext]_rstVars PROVE IInv'
    OBVIOUS
  <1>1. RstTypeOK'
    BY TypeOKStep DEF IInv
  <1>2. (OwnersExclude /\ OwnersPause /\ ListTakenClean /\ WritersHeldBack)'
    BY OwnerStep DEF IInv
  <1>3. (WorkerHolds /\ WorkersInOrder /\ OwnerOfLatestJob)'
    BY WorkerStep DEF IInv
  <1>4. (ResetDue /\ OneResetPerJob)'
    BY ResetStep DEF IInv
  <1>5. (BootsAdvance /\ SuccessIsNewBoot)'
    BY BootStep DEF IInv
  <1>. QED
    BY <1>1, <1>2, <1>3, <1>4, <1>5 DEF IInv

\* It holds in every state the restart machinery can reach.
LEMMA Invariance == RstSpec => []IInv
  BY InitIInv, IInvStep, PTL DEF RstSpec

\* Jobs, journals and observations always are what their readers expect.
THEOREM TypeCorrect == RstSpec => []RstTypeOK
  <1>1. IInv => RstTypeOK
    BY DEF IInv
  <1>. QED
    BY <1>1, Invariance, PTL

\* Whatever dies, times out or fails, execute() resets a processor at most once
\* for a job that was acknowledged.
THEOREM NoResetRetried == RstSpec => []OneResetPerJob
  <1>1. IInv => OneResetPerJob
    BY DEF IInv
  <1>. QED
    BY <1>1, Invariance, PTL

\* The services execute() pauses never run while a reset that was dispatched is
\* not verified.
THEOREM NoWriterAfterUncertainReset == RstSpec => []WritersHeldBack
  <1>1. IInv => WritersHeldBack
    BY DEF IInv
  <1>. QED
    BY <1>1, Invariance, PTL

\* An owner that outlives its worker keeps other requests out.
THEOREM OwnerBlocksLaterJobs == RstSpec => []OwnerOfLatestJob
  <1>1. IInv => OwnerOfLatestJob
    BY DEF IInv
  <1>. QED
    BY <1>1, Invariance, PTL

\* work() reports success only of processors that are on a new boot.
THEOREM SuccessVerified == RstSpec => []SuccessIsNewBoot
  <1>1. IInv => SuccessIsNewBoot
    BY DEF IInv
  <1>. QED
    BY <1>1, Invariance, PTL

\* RstSafe: everything the runs check of every state of the restarts.
THEOREM RestartsAlwaysSafe == RstSpec => []RstSafe
  <1>1. RstSafe <=> /\ RstTypeOK /\ OneResetPerJob /\ OwnerOfLatestJob
                    /\ WritersHeldBack /\ SuccessIsNewBoot
    BY DEF RstSafe
  <1>. QED
    BY <1>1, TypeCorrect, NoResetRetried, NoWriterAfterUncertainReset,
       OwnerBlocksLaterJobs, SuccessVerified, PTL

-----------------------------------------------------------------------------
\* ---- CpBoot: the scripts that boot the control plane ----

CpbScs == {"idle", "stop", "check", "lock", "reset", "load", "fpga", "fwait", "kern", "watch", "csr", "net", "owait"}
CpbPcs == {"none", "prompt", "enter", "map", "mapped", "copy", "remap", "remapped", "read", "leave", "send", "await", "ended"}
CpbRcs == {"none", "ok", "failed"}
CpbJobs == {"fpga", "kernel"}
CpbUpSet == [sc : CpbScs, stale : BOOLEAN, seen : BOOLEAN, rc : CpbRcs, n : 0 .. CpbStarts]
CpbWorkSet == [pc : CpbPcs, job : CpbJobs \cup {"none"}, sav : CpbSeg \cup {None}, sess : Nat, ok : BOOLEAN]
CpbToolSet == [pc : {"idle", "map", "mapped", "copy", "leave"}, sav : CpbSeg \cup {None}]
CpbContent == {CpbJunk, <<"ring", None>>} \cup {CpbImage(jb, p) : jb \in CpbJobs, p \in CpbUps}
CpbCommand == [job : CpbJobs, by : CpbUps, sess : Nat, rc : CpbRcs]
CpbImgSet == [by : CpbUps \cup {None}, what : CpbContent, sess : Nat, rc : CpbRcs]
CpbOctSet ==
  [run : {"off", "uboot", "prog", "linux"}, sess : Nat, fpga : {"a101", "a00d"}, img : CpbImgSet, said : BOOLEAN]

CpbShape ==
  /\ cpbUp \in [CpbUps -> CpbUpSet] /\ cpbWork \in [CpbUps -> CpbWorkSet]
  /\ cpbTool \in CpbToolSet
  /\ cpbOct \in CpbOctSet
  /\ cpbWin \in CpbSeg /\ cpbRam \in [CpbSeg -> CpbContent]
  /\ cpbLine \in BOOLEAN /\ cpbStray \in BOOLEAN

\* A script u and its worker w: where a worker may be, and whether p holds the
\* lock.
CpbPair(u, w) ==
  /\ w.pc # "none" => /\ u.sc \in {"idle", "fwait", "watch", "csr", "net", "owait"}
                      /\ w.job = IF u.sc = "fwait" THEN "fpga" ELSE "kernel"
  /\ u.rc # "none" => u.sc \in {"kern", "watch", "csr", "net", "owait"}
  /\ w.ok => w.pc \in {"leave", "send"} \/ (w.pc \in {"await", "ended"} /\ w.job = "fpga")
CpbLocks(p, u, w) ==
  u.sc \notin {"idle", "stop", "check", "lock"} \/ w.pc # "none" \/ (p \notin CpbAlt /\ u.sc \in {"stop", "check"})

\* What the two may rely on of the chip and of the line to it.
CpbInStep(u, w, oct, con) ==
  /\ w.pc \in {"enter", "map", "mapped", "copy", "remap", "remapped", "read", "leave", "send"} => con = <<>>
  /\ w.pc \in {"map", "mapped", "copy", "remap", "remapped", "read", "leave", "send"} => w.sess = oct.sess
  /\ w.pc \in {"await", "ended"} /\ w.ok => oct.fpga = "a00d"
  /\ u.rc = "ok" => oct.fpga = "a00d"

\* What the worker may rely on of memory, once it was read back through a
\* window that showed it, and as long as no tool wrote through a moved one.
CpbStaged(p, w, ram) ==
  w.pc = "send" \/ (w.pc = "leave" /\ w.ok) => ram[w.job] = CpbImage(w.job, p)

\* A command on its way is for this session and about what was verified.
CpbSent(con, oct, ram, stray) ==
  con = <<>> \/ \E c \in CpbCommand :
    /\ con = <<c>> /\ c.sess = oct.sess
    /\ c.rc = "ok" => oct.fpga = "a00d"
    /\ stray \/ ram[c.job] = CpbImage(c.job, c.by)

CpbInv ==
  /\ CpbShape
  /\ \A p \in CpbUps : CpbPair(cpbUp[p], cpbWork[p])
  /\ \A p \in CpbUps : CpbInStep(cpbUp[p], cpbWork[p], cpbOct, cpbCon)
  /\ \A p, q \in CpbUps : CpbLocks(p, cpbUp[p], cpbWork[p]) /\ CpbLocks(q, cpbUp[q], cpbWork[q]) => p = q
  /\ cpbStray \/ \A p \in CpbUps : CpbStaged(p, cpbWork[p], cpbRam)
  /\ CpbSent(cpbCon, cpbOct, cpbRam, cpbStray)
  /\ cpbOct.img.rc = "ok" => cpbOct.fpga = "a00d"
  /\ VerifiedBoot /\ SameSession

\* The lock, as the invariant speaks of it.
LEMMA CpbLockIs ==
  ASSUME NEW p \in CpbUps
  PROVE  LockHeld(p) <=> CpbLocks(p, cpbUp[p], cpbWork[p])
BY DEF LockHeld, CpbLocks

\* A step of one script and its worker that leaves the chip and memory alone.
LEMMA CpbScriptMoves ==
  ASSUME CpbInv, NEW p \in CpbUps, NEW u \in CpbUpSet, NEW w \in CpbWorkSet,
         cpbUp' = [cpbUp EXCEPT ![p] = u], cpbWork' = [cpbWork EXCEPT ![p] = w],
         UNCHANGED <<cpbTool, cpbOct, cpbWin, cpbRam, cpbStray, cpbCon>>, cpbLine' \in BOOLEAN,
         CpbPair(u, w), CpbInStep(u, w, cpbOct, cpbCon),
         CpbLocks(p, u, w) => CpbLocks(p, cpbUp[p], cpbWork[p]) \/ \A q \in CpbUps : ~CpbLocks(q, cpbUp[q], cpbWork[q]),
         cpbStray \/ CpbStaged(p, w, cpbRam)
  PROVE  CpbInv'
<1>0. cpbUp \in [CpbUps -> CpbUpSet] /\ cpbWork \in [CpbUps -> CpbWorkSet]
  BY DEF CpbInv, CpbShape
<1>1. cpbUp' \in [CpbUps -> CpbUpSet] /\ cpbWork' \in [CpbUps -> CpbWorkSet]
  BY <1>0
<1>2. cpbUp'[p] = u /\ cpbWork'[p] = w /\ \A q \in CpbUps : q # p => cpbUp'[q] = cpbUp[q] /\ cpbWork'[q] = cpbWork[q]
  BY <1>0
<1>3. CpbShape'
  BY <1>1 DEF CpbInv, CpbShape
<1>4. \A q \in CpbUps : CpbPair(cpbUp'[q], cpbWork'[q])
  <2> SUFFICES ASSUME NEW q \in CpbUps PROVE CpbPair(cpbUp'[q], cpbWork'[q])
    OBVIOUS
  <2>1. CpbPair(cpbUp[q], cpbWork[q])
    BY DEF CpbInv
  <2>2. CASE q = p
    BY <1>2, <2>2
  <2>3. CASE q # p
    BY <1>2, <2>1, <2>3
  <2> QED BY <2>2, <2>3
<1>5. \A q \in CpbUps : CpbInStep(cpbUp'[q], cpbWork'[q], cpbOct', cpbCon')
  <2> SUFFICES ASSUME NEW q \in CpbUps PROVE CpbInStep(cpbUp'[q], cpbWork'[q], cpbOct', cpbCon')
    OBVIOUS
  <2>1. CpbInStep(cpbUp[q], cpbWork[q], cpbOct, cpbCon)
    BY DEF CpbInv
  <2>2. CASE q = p
    BY <1>2, <2>2
  <2>3. CASE q # p
    BY <1>2, <2>1, <2>3
  <2> QED BY <2>2, <2>3
<1>6. \A q, r \in CpbUps : CpbLocks(q, cpbUp'[q], cpbWork'[q]) /\ CpbLocks(r, cpbUp'[r], cpbWork'[r]) => q = r
  <2> SUFFICES ASSUME NEW q \in CpbUps, NEW r \in CpbUps, q # r,
                      CpbLocks(q, cpbUp'[q], cpbWork'[q]), CpbLocks(r, cpbUp'[r], cpbWork'[r])
               PROVE  FALSE
    OBVIOUS
  <2>1. \A s, t \in CpbUps : CpbLocks(s, cpbUp[s], cpbWork[s]) /\ CpbLocks(t, cpbUp[t], cpbWork[t]) => s = t
    BY DEF CpbInv
  <2>2. CASE q = p
    BY <1>2, <2>1, <2>2
  <2>3. CASE r = p
    BY <1>2, <2>1, <2>3
  <2>4. CASE q # p /\ r # p
    BY <1>2, <2>1, <2>4
  <2> QED BY <2>2, <2>3, <2>4
<1>7. cpbStray' \/ \A q \in CpbUps : CpbStaged(q, cpbWork'[q], cpbRam')
  <2> SUFFICES ASSUME ~cpbStray, NEW q \in CpbUps PROVE CpbStaged(q, cpbWork'[q], cpbRam')
    OBVIOUS
  <2>1. CpbStaged(q, cpbWork[q], cpbRam)
    BY DEF CpbInv
  <2>2. CASE q = p
    BY <1>2, <2>2
  <2>3. CASE q # p
    BY <1>2, <2>1, <2>3
  <2> QED BY <2>2, <2>3
<1>8. CpbSent(cpbCon', cpbOct', cpbRam', cpbStray')
  BY DEF CpbInv
<1>9. /\ cpbOct'.img.rc = "ok" => cpbOct'.fpga = "a00d"
      /\ VerifiedBoot' /\ SameSession'
  BY DEF CpbInv, VerifiedBoot, SameSession
<1> QED BY <1>3, <1>4, <1>5, <1>6, <1>7, <1>8, <1>9 DEF CpbInv

\* The facts of the invariant about one script.
LEMMA CpbOwnFacts ==
  ASSUME CpbInv, NEW p \in CpbUps
  PROVE  /\ cpbUp[p] \in CpbUpSet /\ cpbWork[p] \in CpbWorkSet
         /\ cpbUp = [cpbUp EXCEPT ![p] = cpbUp[p]] /\ cpbWork = [cpbWork EXCEPT ![p] = cpbWork[p]]
         /\ CpbPair(cpbUp[p], cpbWork[p]) /\ CpbInStep(cpbUp[p], cpbWork[p], cpbOct, cpbCon)
         /\ cpbStray \/ CpbStaged(p, cpbWork[p], cpbRam)
         /\ cpbLine \in BOOLEAN
BY DEF CpbInv, CpbShape

\* The script's own control moves, the worker's does not.
LEMMA CpbScriptGoes ==
  ASSUME CpbInv, NEW p \in CpbUps, NEW u \in CpbUpSet, cpbUp' = [cpbUp EXCEPT ![p] = u],
         UNCHANGED <<cpbWork, cpbTool, cpbOct, cpbWin, cpbRam, cpbStray, cpbCon>>, cpbLine' \in BOOLEAN,
         CpbPair(u, cpbWork[p]), u.rc \in {cpbUp[p].rc, "none"},
         CpbLocks(p, u, cpbWork[p]) => CpbLocks(p, cpbUp[p], cpbWork[p]) \/ \A q \in CpbUps : ~CpbLocks(q, cpbUp[q], cpbWork[q])
  PROVE  CpbInv'
<1>1. cpbWork[p] \in CpbWorkSet /\ cpbWork = [cpbWork EXCEPT ![p] = cpbWork[p]]
      /\ CpbInStep(cpbUp[p], cpbWork[p], cpbOct, cpbCon)
      /\ (cpbStray \/ CpbStaged(p, cpbWork[p], cpbRam))
  BY CpbOwnFacts
<1>2. CpbInStep(u, cpbWork[p], cpbOct, cpbCon)
  BY <1>1 DEF CpbInStep
<1> QED BY <1>1, <1>2, CpbScriptMoves

\* A script at sc goes to another place, and nothing else of it changes.
LEMMA CpbGoes ==
  ASSUME CpbInv, NEW p \in CpbUps, NEW from, NEW to \in CpbScs, CpbGo(p, from, to)
  PROVE  /\ cpbUp[p].sc = from /\ cpbUp' = [cpbUp EXCEPT ![p] = CpbAt(p, to)]
         /\ CpbAt(p, to) \in CpbUpSet /\ CpbAt(p, to).sc = to
         /\ CpbAt(p, to).rc = IF to = "idle" THEN "none" ELSE cpbUp[p].rc
         /\ cpbUp[p].rc \in {cpbUp[p].rc, "none"}
<1>1. cpbUp[p] \in CpbUpSet
  BY CpbOwnFacts
<1>2. CASE to = "idle"
  BY <1>1, <1>2 DEF CpbGo, CpbAt, CpbIdleUp, CpbUpSet, CpbScs, CpbRcs
<1>3. CASE to # "idle"
  BY <1>1, <1>3 DEF CpbGo, CpbAt, CpbUpSet
<1> QED BY <1>2, <1>3

\* Steps of a script that only move it on.
LEMMA CpbScriptSteps ==
  ASSUME CpbInv, CpbStarts \in Nat, NEW p \in CpbUps,
         StartScript(p) \/ StopNet(p) \/ CheckNet(p) \/ LateLock(p) \/ Watch(p) \/ NetIndex(p) \/ NetStart(p) \/ WaitBoot(p)
  PROVE  CpbInv'
<1> USE DEF CpbSteps, cpbMem, cpbEnv
<1>0. cpbUp[p] \in CpbUpSet /\ cpbWork[p] \in CpbWorkSet /\ CpbPair(cpbUp[p], cpbWork[p]) /\ cpbLine \in BOOLEAN
  BY CpbOwnFacts
<1>1. CtlLockFree => \A q \in CpbUps : ~CpbLocks(q, cpbUp[q], cpbWork[q])
  BY CpbLockIs DEF CtlLockFree
<1>2. CASE StartScript(p)
  <2> DEFINE sc == IF p \in CpbAlt \/ CtlLockFree THEN "stop" ELSE "idle"
             u == [CpbIdleUp EXCEPT !.sc = sc, !.n = cpbUp[p].n + 1]
  <2>1. cpbUp[p].n < CpbStarts /\ cpbWork[p].pc = "none" /\ cpbUp' = [cpbUp EXCEPT ![p] = u] /\ CpbSteps /\ UNCHANGED <<cpbOct, cpbLine, cpbNet>>
    BY <1>2 DEF StartScript
  <2>2. cpbUp[p].n \in 0 .. CpbStarts /\ cpbUp[p].n + 1 \in 0 .. CpbStarts
    BY <1>0, <2>1 DEF CpbUpSet
  <2>3. CpbIdleUp \in CpbUpSet /\ CpbIdleUp.rc = "none"
    BY DEF CpbIdleUp, CpbUpSet, CpbScs, CpbRcs
  <2>4. u \in CpbUpSet /\ u.sc = sc /\ u.rc = "none"
    BY <2>2, <2>3 DEF CpbUpSet, CpbScs
  <2>5. CpbPair(u, cpbWork[p])
    BY <1>0, <2>1, <2>4 DEF CpbPair
  <2>6. CpbLocks(p, u, cpbWork[p]) => \A q \in CpbUps : ~CpbLocks(q, cpbUp[q], cpbWork[q])
    BY <1>1, <2>1, <2>4 DEF CpbLocks
  <2> HIDE DEF u
  <2> QED BY <1>0, <2>1, <2>4, <2>5, <2>6, CpbScriptGoes
<1>3. CASE StopNet(p)
  <2> DEFINE u == [cpbUp[p] EXCEPT !.sc = "check", !.stale = cpbLine, !.seen = FALSE]
  <2>1. cpbUp[p].sc = "stop" /\ cpbUp' = [cpbUp EXCEPT ![p] = u] /\ CpbSteps /\ UNCHANGED <<cpbOct, cpbLine>>
    BY <1>3 DEF StopNet
  <2>2. u \in CpbUpSet /\ u.sc = "check" /\ u.rc = cpbUp[p].rc
    BY <1>0 DEF CpbUpSet, CpbScs
  <2>3. CpbPair(u, cpbWork[p]) /\ (CpbLocks(p, u, cpbWork[p]) => CpbLocks(p, cpbUp[p], cpbWork[p]))
    BY <1>0, <2>1, <2>2 DEF CpbPair, CpbLocks
  <2> HIDE DEF u
  <2> QED BY <1>0, <2>1, <2>2, <2>3, CpbScriptGoes
<1>4. CASE CheckNet(p)
  <2> DEFINE to == IF cpbNet THEN "idle" ELSE IF p \in CpbAlt THEN "lock" ELSE "reset"
             u == CpbAt(p, to)
  <2>0. to \in CpbScs /\ CpbGo(p, "check", to) /\ CpbSteps /\ UNCHANGED <<cpbOct, cpbLine, cpbNet>>
    BY <1>4 DEF CheckNet, CpbScs
  <2>1. cpbUp[p].sc = "check" /\ cpbUp' = [cpbUp EXCEPT ![p] = u] /\ u \in CpbUpSet /\ u.sc = to
        /\ u.rc = IF to = "idle" THEN "none" ELSE cpbUp[p].rc
    BY <2>0, CpbGoes
  <2>3. CpbPair(u, cpbWork[p]) /\ (CpbLocks(p, u, cpbWork[p]) => CpbLocks(p, cpbUp[p], cpbWork[p]))
    BY <1>0, <2>1 DEF CpbPair, CpbLocks
  <2> HIDE DEF u, to
  <2> QED BY <1>0, <2>0, <2>1, <2>3, CpbScriptGoes
<1>5. CASE LateLock(p)
  <2>0. PICK got \in BOOLEAN : (got => CtlLockFree) /\ CpbGo(p, "lock", IF got THEN "reset" ELSE "idle")
                              /\ CpbSteps /\ UNCHANGED <<cpbOct, cpbLine, cpbNet>>
    BY <1>5 DEF LateLock
  <2> DEFINE to == IF got THEN "reset" ELSE "idle"
             u == CpbAt(p, to)
  <2>1. cpbUp[p].sc = "lock" /\ cpbUp' = [cpbUp EXCEPT ![p] = u] /\ u \in CpbUpSet /\ u.sc = to
        /\ u.rc = IF to = "idle" THEN "none" ELSE cpbUp[p].rc
    BY <2>0, CpbGoes DEF CpbScs
  <2>3. CpbPair(u, cpbWork[p])
        /\ (CpbLocks(p, u, cpbWork[p]) => CpbLocks(p, cpbUp[p], cpbWork[p]) \/ \A q \in CpbUps : ~CpbLocks(q, cpbUp[q], cpbWork[q]))
    BY <1>0, <1>1, <2>0, <2>1 DEF CpbPair, CpbLocks
  <2> HIDE DEF u, to
  <2> QED BY <1>0, <2>0, <2>1, <2>3, CpbScriptGoes
<1>6. ASSUME NEW from \in {"watch", "csr", "net", "owait"}, NEW to \in {"idle", "csr", "net", "owait"}, CpbGo(p, from, to), CpbSteps,
             UNCHANGED <<cpbOct, cpbLine>>
      PROVE  CpbInv'
  <2>1. cpbUp[p].sc = from /\ cpbUp' = [cpbUp EXCEPT ![p] = CpbAt(p, to)] /\ CpbAt(p, to) \in CpbUpSet /\ CpbAt(p, to).sc = to
        /\ CpbAt(p, to).rc = IF to = "idle" THEN "none" ELSE cpbUp[p].rc
    BY <1>6, CpbGoes DEF CpbScs
  <2>2. CpbPair(CpbAt(p, to), cpbWork[p])
        /\ (CpbLocks(p, CpbAt(p, to), cpbWork[p]) => CpbLocks(p, cpbUp[p], cpbWork[p]))
    BY <1>0, <2>1 DEF CpbPair, CpbLocks
  <2> QED BY <1>0, <1>6, <2>1, <2>2, CpbScriptGoes
<1>7. CASE Watch(p) \/ NetIndex(p) \/ NetStart(p) \/ WaitBoot(p)
  BY <1>6, <1>7 DEF Watch, NetIndex, NetStart, WaitBoot
<1> QED BY <1>2, <1>3, <1>4, <1>5, <1>7

\* A worker's step that leaves the chip, the line and memory alone.
LEMMA CpbWorkGoes ==
  ASSUME CpbInv, NEW p \in CpbUps, NEW w \in CpbWorkSet, cpbWork' = [cpbWork EXCEPT ![p] = w],
         UNCHANGED <<cpbUp, cpbTool, cpbOct, cpbWin, cpbRam, cpbStray, cpbCon, cpbLine>>,
         CpbPair(cpbUp[p], w), CpbInStep(cpbUp[p], w, cpbOct, cpbCon), cpbWork[p].pc # "none",
         cpbStray \/ CpbStaged(p, w, cpbRam)
  PROVE  CpbInv'
<1>1. cpbUp[p] \in CpbUpSet /\ cpbUp' = [cpbUp EXCEPT ![p] = cpbUp[p]] /\ cpbLine' \in BOOLEAN
  BY CpbOwnFacts
<1>2. CpbLocks(p, cpbUp[p], cpbWork[p])
  BY DEF CpbLocks
<1> QED BY <1>1, <1>2, CpbScriptMoves

\* A worker that has asked, read the index back, or seen the end of its job.
LEMMA CpbWorkSteps ==
  ASSUME CpbInv, NEW p \in CpbUps, Prompt(p) \/ CheckIndex(p) \/ WorkEnds(p) \/ FpgaTimeout(p)
  PROVE  CpbInv'
<1> USE DEF cpbMem, cpbEnv, WorkRest, WorkKeeps
<1>0. /\ cpbWork[p] \in CpbWorkSet /\ CpbPair(cpbUp[p], cpbWork[p]) /\ CpbInStep(cpbUp[p], cpbWork[p], cpbOct, cpbCon)
      /\ cpbStray \/ CpbStaged(p, cpbWork[p], cpbRam)
  BY CpbOwnFacts
<1>2. CASE Prompt(p)
  <2> DEFINE to == IF cpbOct.run \in {"uboot", "linux"} THEN "enter" ELSE EndOf(p)
             w == [cpbWork[p] EXCEPT !.pc = to]
  <2>1. /\ cpbCon = <<>> /\ cpbWork[p].pc = "prompt" /\ cpbWork' = [cpbWork EXCEPT ![p] = w]
        /\ UNCHANGED <<cpbUp, cpbTool, cpbOct, cpbWin, cpbRam, cpbStray, cpbCon, cpbLine>>
    BY <1>2 DEF Prompt, WorkGo
  <2>2. to \in {"enter", "ended", "none"}
    BY DEF EndOf
  <2> HIDE DEF to
  <2>3. /\ w \in CpbWorkSet /\ w.pc = to /\ w.job = cpbWork[p].job /\ w.ok = cpbWork[p].ok
    BY <1>0, <2>2 DEF CpbWorkSet, CpbPcs
  <2>4. CpbPair(cpbUp[p], w) /\ ~w.ok
    BY <1>0, <2>1, <2>2, <2>3 DEF CpbPair
  <2>5. CpbInStep(cpbUp[p], w, cpbOct, cpbCon)
    BY <1>0, <2>1, <2>2, <2>3, <2>4 DEF CpbInStep
  <2>6. CpbStaged(p, w, cpbRam)
    BY <2>2, <2>3 DEF CpbStaged
  <2> HIDE DEF w
  <2> QED BY <2>1, <2>3, <2>4, <2>5, <2>6, CpbWorkGoes
<1>3. CASE CheckIndex(p)
  <2>0. PICK to \in {"copy", "read", "leave"} :
          /\ cpbWork[p].pc \in {"mapped", "remapped"} /\ cpbWork' = [cpbWork EXCEPT ![p].pc = to]
          /\ UNCHANGED <<cpbUp, cpbTool, cpbOct, cpbWin, cpbRam, cpbStray, cpbCon, cpbLine>>
    BY <1>3 DEF CheckIndex, WorkGo
  <2> DEFINE w == [cpbWork[p] EXCEPT !.pc = to]
  <2>1. cpbWork' = [cpbWork EXCEPT ![p] = w]
    BY <2>0
  <2>3. w \in CpbWorkSet /\ w.pc = to /\ w.job = cpbWork[p].job /\ w.ok = cpbWork[p].ok /\ w.sess = cpbWork[p].sess
    BY <1>0 DEF CpbWorkSet, CpbPcs
  <2>4. CpbPair(cpbUp[p], w) /\ ~w.ok
    BY <1>0, <2>0, <2>3 DEF CpbPair
  <2>5. CpbInStep(cpbUp[p], w, cpbOct, cpbCon)
    BY <1>0, <2>0, <2>3, <2>4 DEF CpbInStep
  <2>6. CpbStaged(p, w, cpbRam)
    BY <2>0, <2>3, <2>4 DEF CpbStaged
  <2> HIDE DEF w
  <2> QED BY <2>0, <2>1, <2>3, <2>4, <2>5, <2>6, CpbWorkGoes
<1>4. CASE WorkEnds(p)
  <2> DEFINE to == EndOf(p)
             w == [cpbWork[p] EXCEPT !.pc = to]
  <2>1. /\ cpbWork[p].pc = "await" /\ cpbWork' = [cpbWork EXCEPT ![p] = w]
        /\ UNCHANGED <<cpbUp, cpbTool, cpbOct, cpbWin, cpbRam, cpbStray, cpbCon, cpbLine>>
    BY <1>4 DEF WorkEnds, WorkGo
  <2>2. to = IF cpbUp[p].sc = "fwait" THEN "ended" ELSE "none"
    BY DEF EndOf
  <2> HIDE DEF to
  <2>3. /\ w \in CpbWorkSet /\ w.pc = to /\ w.job = cpbWork[p].job /\ w.ok = cpbWork[p].ok
    BY <1>0, <2>2 DEF CpbWorkSet, CpbPcs
  <2>4. CpbPair(cpbUp[p], w)
    BY <1>0, <2>1, <2>2, <2>3 DEF CpbPair
  <2>5. CpbInStep(cpbUp[p], w, cpbOct, cpbCon)
    BY <1>0, <2>1, <2>2, <2>3, <2>4 DEF CpbInStep
  <2>6. CpbStaged(p, w, cpbRam)
    BY <2>2, <2>3 DEF CpbStaged
  <2> HIDE DEF w
  <2> QED BY <2>1, <2>3, <2>4, <2>5, <2>6, CpbWorkGoes
<1>5. CASE FpgaTimeout(p)
  <2> DEFINE w == [cpbWork[p] EXCEPT !.pc = "ended", !.ok = FALSE]
  <2>1. /\ cpbUp[p].sc = "fwait" /\ cpbWork[p].pc # "none" /\ cpbWork' = [cpbWork EXCEPT ![p] = w]
        /\ UNCHANGED <<cpbUp, cpbTool, cpbOct, cpbWin, cpbRam, cpbStray, cpbCon, cpbLine>>
    BY <1>5 DEF FpgaTimeout
  <2>3. w \in CpbWorkSet /\ w.pc = "ended" /\ w.job = cpbWork[p].job /\ ~w.ok
    BY <1>0 DEF CpbWorkSet, CpbPcs
  <2>4. CpbPair(cpbUp[p], w) /\ CpbInStep(cpbUp[p], w, cpbOct, cpbCon)
    BY <1>0, <2>1, <2>3 DEF CpbPair, CpbInStep
  <2>6. CpbStaged(p, w, cpbRam)
    BY <2>3 DEF CpbStaged
  <2> HIDE DEF w
  <2> QED BY <2>1, <2>3, <2>4, <2>6, CpbWorkGoes
<1> QED BY <1>2, <1>3, <1>4, <1>5

\* A script starts a worker, takes its verdict, or is killed with it.
LEMMA CpbJobSteps ==
  ASSUME CpbInv, NEW p \in CpbUps, FpgaStep(p) \/ FpgaStepDone(p) \/ KernelStep(p) \/ CpbKilled(p)
  PROVE  CpbInv'
<1> USE DEF cpbMem, cpbEnv
<1>0. /\ cpbUp[p] \in CpbUpSet /\ cpbWork[p] \in CpbWorkSet /\ cpbLine \in BOOLEAN
      /\ cpbUp = [cpbUp EXCEPT ![p] = cpbUp[p]] /\ cpbWork = [cpbWork EXCEPT ![p] = cpbWork[p]]
      /\ CpbPair(cpbUp[p], cpbWork[p]) /\ CpbInStep(cpbUp[p], cpbWork[p], cpbOct, cpbCon)
      /\ cpbStray \/ CpbStaged(p, cpbWork[p], cpbRam)
  BY CpbOwnFacts
<1>1. CpbNoWork \in CpbWorkSet /\ CpbNoWork.pc = "none" /\ CpbNoWork.ok = FALSE
  BY DEF CpbNoWork, CpbWorkSet, CpbPcs, CpbSeg
<1>2. ASSUME NEW from \in {"fpga", "kern"}, NEW to \in {"fwait", "owait", "watch"}, NEW jb \in CpbJobs, CpbGo(p, from, to), BeginJob(p, jb),
             jb = (IF to = "fwait" THEN "fpga" ELSE "kernel"), from = (IF to = "fwait" THEN "fpga" ELSE "kern"),
             UNCHANGED <<cpbTool, cpbOct, cpbWin, cpbRam, cpbStray, cpbCon, cpbLine>>
      PROVE  CpbInv'
  <2> DEFINE u == CpbAt(p, to)
             w == [CpbNoWork EXCEPT !.pc = "prompt", !.job = jb]
  <2>1. cpbUp[p].sc = from /\ cpbUp' = [cpbUp EXCEPT ![p] = u] /\ u \in CpbUpSet /\ u.sc = to /\ u.rc = cpbUp[p].rc
    BY <1>2, CpbGoes DEF CpbScs
  <2>2. cpbWork' = [cpbWork EXCEPT ![p] = w]
    BY <1>2 DEF BeginJob
  <2>3. w \in CpbWorkSet /\ w.pc = "prompt" /\ w.job = jb /\ w.ok = FALSE
    BY <1>1 DEF CpbWorkSet, CpbPcs
  <2> HIDE DEF u, w
  <2>4. CpbPair(u, w)
    BY <1>0, <1>2, <2>1, <2>3 DEF CpbPair
  <2>5. CpbInStep(u, w, cpbOct, cpbCon)
    BY <1>0, <2>1, <2>3 DEF CpbInStep
  <2>6. CpbStaged(p, w, cpbRam)
    BY <2>3 DEF CpbStaged
  <2>7. CpbLocks(p, cpbUp[p], cpbWork[p])
    BY <1>2, <2>1 DEF CpbLocks
  <2> QED BY <1>0, <1>2, <2>1, <2>2, <2>3, <2>4, <2>5, <2>6, <2>7, CpbScriptMoves
<1>3. CASE FpgaStep(p)
  <2>1. CASE CpbGo(p, "fpga", "fwait") /\ BeginJob(p, "fpga")
    BY <1>2, <1>3, <2>1 DEF FpgaStep, CpbJobs
  <2>2. CASE CpbGo(p, "fpga", "kern") /\ UNCHANGED cpbWork
    <3>1. /\ cpbUp[p].sc = "fpga" /\ cpbUp' = [cpbUp EXCEPT ![p] = CpbAt(p, "kern")] /\ CpbAt(p, "kern") \in CpbUpSet
          /\ CpbAt(p, "kern").sc = "kern" /\ CpbAt(p, "kern").rc = cpbUp[p].rc
      BY <2>2, CpbGoes DEF CpbScs
    <3>2. CpbPair(CpbAt(p, "kern"), cpbWork[p]) /\ CpbLocks(p, cpbUp[p], cpbWork[p])
      BY <1>0, <3>1 DEF CpbPair, CpbLocks
    <3> QED BY <1>0, <1>3, <2>2, <3>1, <3>2, CpbScriptGoes DEF FpgaStep
  <2> QED BY <1>3, <2>1, <2>2 DEF FpgaStep
<1>4. CASE KernelStep(p)
  <2>1. CASE p \in CpbAlt
    BY <1>2, <1>4, <2>1 DEF KernelStep, CpbJobs
  <2>2. CASE p \notin CpbAlt
    BY <1>2, <1>4, <2>2 DEF KernelStep, CpbJobs
  <2> QED BY <2>1, <2>2
<1>5. CASE FpgaStepDone(p)
  <2> DEFINE u == [cpbUp[p] EXCEPT !.sc = "kern", !.rc = IF cpbWork[p].ok THEN "ok" ELSE "failed"]
  <2>1. /\ cpbUp[p].sc = "fwait" /\ cpbWork[p].pc = "ended"
        /\ cpbUp' = [cpbUp EXCEPT ![p] = u] /\ cpbWork' = [cpbWork EXCEPT ![p] = CpbNoWork]
        /\ UNCHANGED <<cpbTool, cpbOct, cpbWin, cpbRam, cpbStray, cpbCon, cpbLine>>
    BY <1>5 DEF FpgaStepDone
  <2>2. u \in CpbUpSet /\ u.sc = "kern" /\ u.rc = IF cpbWork[p].ok THEN "ok" ELSE "failed"
    BY <1>0 DEF CpbUpSet, CpbScs, CpbRcs
  <2> HIDE DEF u
  <2>3. CpbPair(u, CpbNoWork) /\ CpbLocks(p, cpbUp[p], cpbWork[p])
    BY <1>1, <2>1, <2>2 DEF CpbPair, CpbLocks
  <2>4. CpbInStep(u, CpbNoWork, cpbOct, cpbCon) /\ CpbStaged(p, CpbNoWork, cpbRam)
    BY <1>0, <1>1, <2>1, <2>2 DEF CpbInStep, CpbStaged
  <2> QED BY <1>0, <1>1, <2>1, <2>2, <2>3, <2>4, CpbScriptMoves
<1>6. CASE CpbKilled(p)
  <2> DEFINE u == CpbAt(p, "idle")
  <2>1. /\ cpbUp' = [cpbUp EXCEPT ![p] = u] /\ cpbWork' = [cpbWork EXCEPT ![p] = CpbNoWork]
        /\ UNCHANGED <<cpbTool, cpbOct, cpbWin, cpbRam, cpbStray, cpbCon, cpbLine>>
    BY <1>6 DEF CpbKilled
  <2>2. u \in CpbUpSet /\ u.sc = "idle" /\ u.rc = "none"
    BY <1>0 DEF CpbAt, CpbIdleUp, CpbUpSet, CpbScs, CpbRcs
  <2> HIDE DEF u
  <2>3. CpbPair(u, CpbNoWork) /\ ~CpbLocks(p, u, CpbNoWork)
    BY <1>1, <2>2 DEF CpbPair, CpbLocks
  <2>4. CpbInStep(u, CpbNoWork, cpbOct, cpbCon) /\ CpbStaged(p, CpbNoWork, cpbRam)
    BY <1>1, <2>2 DEF CpbInStep, CpbStaged
  <2> QED BY <1>0, <1>1, <2>1, <2>2, <2>3, <2>4, CpbScriptMoves
<1> QED BY <1>3, <1>4, <1>5, <1>6

\* While one script holds the lock, the others and their workers rely on
\* nothing.
LEMMA CpbOthersIdle ==
  ASSUME CpbInv, NEW p \in CpbUps, CpbLocks(p, cpbUp[p], cpbWork[p]), NEW q \in CpbUps, q # p
  PROVE  ~CpbLocks(q, cpbUp[q], cpbWork[q]) /\ cpbWork[q].pc = "none" /\ cpbUp[q].rc = "none" /\ ~cpbWork[q].ok
<1>1. ~CpbLocks(q, cpbUp[q], cpbWork[q]) /\ CpbPair(cpbUp[q], cpbWork[q]) /\ cpbUp[q] \in CpbUpSet /\ cpbWork[q] \in CpbWorkSet
  BY DEF CpbInv, CpbShape
<1>2. cpbWork[q].pc = "none" /\ cpbUp[q].sc \in {"idle", "stop", "check", "lock"}
  BY <1>1 DEF CpbLocks
<1> QED BY <1>1, <1>2 DEF CpbPair, CpbUpSet, CpbWorkSet

\* A script that resets or loads the chip has no worker, and nobody else holds
\* the lock: whatever becomes of the chip, no worker relied on it.
LEMMA CpbChipMoves ==
  ASSUME CpbInv, NEW p \in CpbUps, NEW u \in CpbUpSet, cpbUp' = [cpbUp EXCEPT ![p] = u],
         cpbUp[p].sc \in {"reset", "load"}, u.sc \in {"load", "fpga", "idle"}, u.rc \in {cpbUp[p].rc, "none"},
         UNCHANGED <<cpbWork, cpbTool>>, cpbOct' \in CpbOctSet, cpbWin' \in CpbSeg, cpbRam' \in [CpbSeg -> CpbContent],
         cpbStray' \in BOOLEAN, cpbLine' \in BOOLEAN, CpbSent(cpbCon', cpbOct', cpbRam', cpbStray'),
         cpbOct'.img.rc = "ok" => cpbOct'.fpga = "a00d", VerifiedBoot', SameSession'
  PROVE  CpbInv'
<1>0. /\ cpbUp \in [CpbUps -> CpbUpSet] /\ cpbWork \in [CpbUps -> CpbWorkSet]
      /\ CpbPair(cpbUp[p], cpbWork[p]) /\ cpbUp[p] \in CpbUpSet /\ cpbWork[p] \in CpbWorkSet
  BY DEF CpbInv, CpbShape
<1>1. cpbUp' \in [CpbUps -> CpbUpSet] /\ cpbWork' \in [CpbUps -> CpbWorkSet]
  BY <1>0
<1>2. cpbUp'[p] = u /\ \A q \in CpbUps : q # p => cpbUp'[q] = cpbUp[q]
  BY <1>0
<1>3. cpbWork[p].pc = "none" /\ u.rc = "none" /\ ~cpbWork[p].ok
  BY <1>0 DEF CpbPair, CpbUpSet, CpbWorkSet
<1>4. CpbLocks(p, cpbUp[p], cpbWork[p])
  BY DEF CpbLocks
<1>5. \A q \in CpbUps : cpbWork'[q].pc = "none" /\ cpbUp'[q].rc = "none" /\ ~cpbWork'[q].ok
  BY <1>2, <1>3, <1>4, CpbOthersIdle
<1>6. CpbShape'
  BY <1>1 DEF CpbInv, CpbShape
<1>7. \A q \in CpbUps : CpbPair(cpbUp'[q], cpbWork'[q]) /\ CpbInStep(cpbUp'[q], cpbWork'[q], cpbOct', cpbCon')
  BY <1>5 DEF CpbPair, CpbInStep
<1>8. \A q \in CpbUps : CpbStaged(q, cpbWork'[q], cpbRam')
  BY <1>5 DEF CpbStaged
<1>9. \A q, r \in CpbUps : CpbLocks(q, cpbUp'[q], cpbWork'[q]) /\ CpbLocks(r, cpbUp'[r], cpbWork'[r]) => q = r
  <2>1. \A q \in CpbUps : q # p => ~CpbLocks(q, cpbUp'[q], cpbWork'[q])
    BY <1>2, <1>4, CpbOthersIdle
  <2> QED BY <2>1
<1> QED BY <1>6, <1>7, <1>8, <1>9 DEF CpbInv

\* The reset and the loading of the bootloader.
LEMMA CpbChipSteps ==
  ASSUME CpbInv, NEW p \in CpbUps, ResetChip(p) \/ LoadUboot(p)
  PROVE  CpbInv'
<1> USE DEF cpbMem, cpbEnv
<1>0. /\ cpbOct \in CpbOctSet /\ cpbWin \in CpbSeg /\ cpbRam \in [CpbSeg -> CpbContent] /\ cpbStray \in BOOLEAN /\ cpbLine \in BOOLEAN
      /\ CpbSent(cpbCon, cpbOct, cpbRam, cpbStray)
      /\ cpbOct.img.rc = "ok" => cpbOct.fpga = "a00d"
      /\ VerifiedBoot /\ SameSession
  BY DEF CpbInv, CpbShape
<1>1. CASE ResetChip(p)
  <2>1. /\ cpbUp[p].sc = "reset" /\ cpbUp' = [cpbUp EXCEPT ![p] = CpbAt(p, "load")] /\ CpbAt(p, "load") \in CpbUpSet
        /\ CpbAt(p, "load").sc = "load" /\ CpbAt(p, "load").rc = cpbUp[p].rc
    BY <1>1, CpbGoes DEF ResetChip, CpbScs
  <2>2. cpbCon' = <<>> /\ UNCHANGED <<cpbWork, cpbTool, cpbLine>> /\ CpbSent(cpbCon', cpbOct', cpbRam', cpbStray')
    BY <1>1 DEF ResetChip, CpbSent
  <2>3. CASE UNCHANGED <<cpbOct, cpbMem>>
    <3>1. VerifiedBoot' /\ SameSession'
      BY <1>0, <2>3 DEF VerifiedBoot, SameSession
    <3>2. cpbOct' \in CpbOctSet /\ cpbWin' \in CpbSeg /\ cpbRam' \in [CpbSeg -> CpbContent] /\ cpbStray' \in BOOLEAN
          /\ cpbLine' \in BOOLEAN /\ (cpbOct'.img.rc = "ok" => cpbOct'.fpga = "a00d")
      BY <1>0, <2>2, <2>3
    <3> QED BY <2>1, <2>2, <3>1, <3>2, CpbChipMoves
  <2>4. CASE /\ cpbOct' = [run |-> "off", sess |-> cpbOct.sess + 1, fpga |-> "a101", img |-> CpbNoImg, said |-> FALSE]
             /\ cpbWin' = "home" /\ cpbStray' = FALSE /\ cpbRam' = [s \in CpbSeg |-> CpbJunk]
    <3>1. CpbNoImg \in CpbImgSet /\ CpbNoImg.rc = "none" /\ CpbNoImg.by = None
      BY DEF CpbNoImg, CpbImgSet, CpbContent, CpbRcs
    <3>2. cpbOct.sess + 1 \in Nat
      BY <1>0 DEF CpbOctSet
    <3>3. cpbOct' \in CpbOctSet /\ cpbOct'.img.rc = "none" /\ cpbOct'.img.by = None /\ cpbOct'.run = "off"
      BY <2>4, <3>1, <3>2 DEF CpbOctSet
    <3>6. CpbJunk \in CpbContent /\ "home" \in CpbSeg
      BY DEF CpbSeg, CpbContent
    <3>4. cpbWin' \in CpbSeg /\ cpbRam' \in [CpbSeg -> CpbContent] /\ cpbStray' \in BOOLEAN
      BY <2>4, <3>6
    <3>5. VerifiedBoot' /\ SameSession'
      BY <3>3 DEF VerifiedBoot, SameSession
    <3> QED BY <1>0, <2>1, <2>2, <2>4, <3>3, <3>4, <3>5, CpbChipMoves
  <2> QED BY <1>1, <2>3, <2>4 DEF ResetChip
<1>2. CASE LoadUboot(p)
  <2>0. PICK to \in {"fpga", "idle"} : CpbGo(p, "load", to) /\ UNCHANGED <<cpbWork, cpbTool, cpbMem, cpbCon>>
          /\ \/ cpbOct.run = "off" /\ cpbOct' = [cpbOct EXCEPT !.run = "uboot"] /\ cpbLine' = FALSE
             \/ UNCHANGED <<cpbOct, cpbLine>>
    <3>1. CASE p \in CpbAlt
      BY <1>2, <3>1 DEF LoadUboot
    <3>2. CASE p \notin CpbAlt
      BY <1>2, <3>2 DEF LoadUboot
    <3> QED BY <3>1, <3>2
  <2>1. /\ cpbUp[p].sc = "load" /\ cpbUp' = [cpbUp EXCEPT ![p] = CpbAt(p, to)] /\ CpbAt(p, to) \in CpbUpSet
        /\ CpbAt(p, to).sc = to /\ CpbAt(p, to).rc \in {cpbUp[p].rc, "none"}
    BY <2>0, CpbGoes DEF CpbScs
  <2>2. cpbOct' \in CpbOctSet /\ cpbOct'.sess = cpbOct.sess /\ cpbOct'.fpga = cpbOct.fpga /\ cpbOct'.img = cpbOct.img
        /\ (cpbOct'.run = "linux" => cpbOct.run = "linux") /\ cpbLine' \in BOOLEAN
    BY <1>0, <2>0 DEF CpbOctSet
  <2>3. VerifiedBoot' /\ SameSession'
    BY <1>0, <2>0, <2>2 DEF VerifiedBoot, SameSession
  <2>4. CpbSent(cpbCon', cpbOct', cpbRam', cpbStray')
    BY <1>0, <2>0, <2>2 DEF CpbSent
  <2>5. UNCHANGED <<cpbWork, cpbTool>> /\ cpbWin' \in CpbSeg /\ cpbRam' \in [CpbSeg -> CpbContent] /\ cpbStray' \in BOOLEAN
        /\ (cpbOct'.img.rc = "ok" => cpbOct'.fpga = "a00d")
    BY <1>0, <2>0, <2>2
  <2> QED BY <2>1, <2>2, <2>3, <2>4, <2>5, CpbChipMoves
<1> QED BY <1>1, <1>2

\* A worker's step in the window: nobody else holds the lock.
LEMMA CpbWindowMoves ==
  ASSUME CpbInv, NEW p \in CpbUps, NEW w \in CpbWorkSet, cpbWork' = [cpbWork EXCEPT ![p] = w],
         UNCHANGED <<cpbUp, cpbTool, cpbOct, cpbLine>>, cpbWork[p].pc # "none",
         cpbWin' \in CpbSeg, cpbRam' \in [CpbSeg -> CpbContent], cpbStray' \in BOOLEAN, cpbStray => cpbStray',
         CpbPair(cpbUp[p], w), CpbInStep(cpbUp[p], w, cpbOct, cpbCon'), CpbSent(cpbCon', cpbOct, cpbRam', cpbStray'),
         cpbStray' \/ CpbStaged(p, w, cpbRam')
  PROVE  CpbInv'
<1>0. cpbUp \in [CpbUps -> CpbUpSet] /\ cpbWork \in [CpbUps -> CpbWorkSet]
  BY DEF CpbInv, CpbShape
<1>1. cpbWork' \in [CpbUps -> CpbWorkSet]
  BY <1>0
<1>2. cpbWork'[p] = w /\ \A q \in CpbUps : q # p => cpbWork'[q] = cpbWork[q]
  BY <1>0
<1>3. CpbLocks(p, cpbUp[p], cpbWork[p])
  BY DEF CpbLocks
<1>4. \A q \in CpbUps : q # p => ~CpbLocks(q, cpbUp'[q], cpbWork'[q])
                                 /\ cpbWork'[q].pc = "none" /\ cpbUp'[q].rc = "none" /\ ~cpbWork'[q].ok
  BY <1>2, <1>3, CpbOthersIdle
<1>5. CpbShape'
  BY <1>1 DEF CpbInv, CpbShape
<1>6. \A q \in CpbUps : CpbPair(cpbUp'[q], cpbWork'[q]) /\ CpbInStep(cpbUp'[q], cpbWork'[q], cpbOct', cpbCon')
  <2> SUFFICES ASSUME NEW q \in CpbUps PROVE CpbPair(cpbUp'[q], cpbWork'[q]) /\ CpbInStep(cpbUp'[q], cpbWork'[q], cpbOct', cpbCon')
    OBVIOUS
  <2>1. CASE q = p
    BY <1>2, <2>1
  <2>2. CASE q # p
    BY <1>4, <2>2 DEF CpbPair, CpbInStep
  <2> QED BY <2>1, <2>2
<1>7. \A q, r \in CpbUps : CpbLocks(q, cpbUp'[q], cpbWork'[q]) /\ CpbLocks(r, cpbUp'[r], cpbWork'[r]) => q = r
  BY <1>4
<1>8. cpbStray' \/ \A q \in CpbUps : CpbStaged(q, cpbWork'[q], cpbRam')
  <2> SUFFICES ASSUME ~cpbStray', NEW q \in CpbUps PROVE CpbStaged(q, cpbWork'[q], cpbRam')
    OBVIOUS
  <2>1. CASE q = p
    BY <1>2, <2>1
  <2>2. CASE q # p
    BY <1>4, <2>2 DEF CpbStaged
  <2> QED BY <2>1, <2>2
<1>9. CpbSent(cpbCon', cpbOct', cpbRam', cpbStray')
  OBVIOUS
<1>10. /\ cpbOct'.img.rc = "ok" => cpbOct'.fpga = "a00d"
       /\ VerifiedBoot' /\ SameSession'
  BY DEF CpbInv, VerifiedBoot, SameSession
<1> QED BY <1>5, <1>6, <1>7, <1>8, <1>9, <1>10 DEF CpbInv

\* In the window, and the line sent at the end of it.
LEMMA CpbWindowSteps ==
  ASSUME CpbInv, NEW p \in CpbUps, Enter(p) \/ MapSegment(p) \/ Copy(p) \/ ReadBack(p) \/ LeaveWindow(p) \/ SendLine(p)
  PROVE  CpbInv'
<1> USE DEF cpbMem, cpbEnv, WorkRest, WorkKeeps
<1>0. /\ cpbUp[p] \in CpbUpSet /\ cpbWork[p] \in CpbWorkSet /\ CpbPair(cpbUp[p], cpbWork[p])
      /\ CpbInStep(cpbUp[p], cpbWork[p], cpbOct, cpbCon)
      /\ cpbStray \/ CpbStaged(p, cpbWork[p], cpbRam)
  BY CpbOwnFacts
<1>1. /\ cpbOct \in CpbOctSet /\ cpbTool \in CpbToolSet
      /\ cpbWin \in CpbSeg /\ cpbRam \in [CpbSeg -> CpbContent] /\ cpbStray \in BOOLEAN
  BY DEF CpbInv, CpbShape
<1>2. \A ram, mixed : CpbSent(<<>>, cpbOct, ram, mixed)
  BY DEF CpbSent
<1>3. CASE Enter(p)
  <2>0. PICK sav \in CpbSeg \cup {None} : cpbWork' = [cpbWork EXCEPT ![p].pc = "map", ![p].sav = sav, ![p].sess = cpbOct.sess]
    BY <1>3 DEF Enter
  <2> DEFINE w == [cpbWork[p] EXCEPT !.pc = "map", !.sav = sav, !.sess = cpbOct.sess]
  <2>1. /\ cpbWork[p].pc = "enter" /\ cpbWork' = [cpbWork EXCEPT ![p] = w]
        /\ UNCHANGED <<cpbUp, cpbTool, cpbOct, cpbLine, cpbWin, cpbRam, cpbStray, cpbCon>>
    BY <1>3, <2>0 DEF Enter
  <2>2. cpbOct.sess \in Nat
    BY <1>1 DEF CpbOctSet
  <2>3. w \in CpbWorkSet /\ w.pc = "map" /\ w.job = cpbWork[p].job /\ w.sess = cpbOct.sess /\ w.ok = cpbWork[p].ok
    BY <1>0, <2>2 DEF CpbWorkSet, CpbPcs
  <2>4. cpbCon = <<>> /\ ~w.ok /\ CpbPair(cpbUp[p], w)
    BY <1>0, <2>1, <2>3 DEF CpbPair, CpbInStep
  <2>5. CpbInStep(cpbUp[p], w, cpbOct, cpbCon')
    BY <1>0, <2>1, <2>3, <2>4 DEF CpbInStep
  <2>6. CpbStaged(p, w, cpbRam')
    BY <2>3 DEF CpbStaged
  <2> HIDE DEF w
  <2> QED BY <1>1, <1>2, <2>1, <2>3, <2>4, <2>5, <2>6, CpbWindowMoves
<1>4. CASE MapSegment(p)
  <2>0. PICK to \in {"mapped", "remapped"} : cpbWork[p].pc \in {"map", "remap"} /\ cpbWork' = [cpbWork EXCEPT ![p].pc = to]
    BY <1>4 DEF MapSegment, WorkGo
  <2> DEFINE w == [cpbWork[p] EXCEPT !.pc = to]
  <2>1. /\ cpbWork' = [cpbWork EXCEPT ![p] = w] /\ UNCHANGED <<cpbUp, cpbTool, cpbOct, cpbLine, cpbRam, cpbCon, cpbStray>>
        /\ cpbWin' = cpbWork[p].job
    BY <1>4, <2>0 DEF MapSegment
  <2>3. w \in CpbWorkSet /\ w.pc = to /\ w.job = cpbWork[p].job /\ w.sess = cpbWork[p].sess /\ w.ok = cpbWork[p].ok
    BY <1>0 DEF CpbWorkSet, CpbPcs
  <2>4. cpbCon = <<>> /\ cpbWork[p].job \in {"fpga", "kernel"} /\ ~w.ok /\ CpbPair(cpbUp[p], w) /\ CpbInStep(cpbUp[p], w, cpbOct, cpbCon')
    BY <1>0, <2>0, <2>1, <2>3 DEF CpbPair, CpbInStep
  <2>6. CpbStaged(p, w, cpbRam')
    BY <2>3, <2>4 DEF CpbStaged
  <2>7. cpbWin' \in CpbSeg
    BY <2>1, <2>4 DEF CpbSeg
  <2> HIDE DEF w
  <2> QED BY <1>1, <1>2, <2>0, <2>1, <2>3, <2>4, <2>6, <2>7, CpbWindowMoves
<1>5. CASE Copy(p)
  <2> DEFINE w == [cpbWork[p] EXCEPT !.pc = "remap"]
  <2>1. /\ cpbWork[p].pc = "copy" /\ cpbWork' = [cpbWork EXCEPT ![p] = w] /\ UNCHANGED <<cpbUp, cpbTool, cpbOct, cpbLine, cpbWin, cpbCon, cpbStray>>
    BY <1>5 DEF Copy, WorkGo
  <2>2. PICK c \in {CpbImage(cpbWork[p].job, p), CpbJunk} : cpbRam' = [cpbRam EXCEPT ![cpbWin] = c]
    BY <1>5 DEF Copy
  <2>3. w \in CpbWorkSet /\ w.pc = "remap" /\ w.job = cpbWork[p].job /\ w.sess = cpbWork[p].sess /\ w.ok = cpbWork[p].ok
    BY <1>0 DEF CpbWorkSet, CpbPcs
  <2>4. cpbCon = <<>> /\ cpbWork[p].job \in CpbJobs /\ ~w.ok /\ CpbPair(cpbUp[p], w) /\ CpbInStep(cpbUp[p], w, cpbOct, cpbCon')
    BY <1>0, <2>1, <2>3 DEF CpbPair, CpbInStep, CpbJobs
  <2>5. c \in CpbContent
    BY <2>2, <2>4 DEF CpbContent
  <2>6. cpbStray' \/ CpbStaged(p, w, cpbRam')
    BY <1>0, <2>1, <2>3 DEF CpbStaged
  <2>7. cpbRam' \in [CpbSeg -> CpbContent]
    BY <1>1, <2>2, <2>5
  <2> HIDE DEF w
  <2> QED BY <1>1, <1>2, <2>1, <2>3, <2>4, <2>6, <2>7, CpbWindowMoves
<1>8. CASE ReadBack(p)
  <2> DEFINE ok == cpbRam[cpbWin] = CpbImage(cpbWork[p].job, p)
             w == [cpbWork[p] EXCEPT !.pc = "leave", !.ok = ok]
  <2>1. /\ cpbWork[p].pc = "read" /\ cpbWork' = [cpbWork EXCEPT ![p] = w]
        /\ cpbStray' = (cpbStray \/ cpbWin # cpbWork[p].job)
        /\ UNCHANGED <<cpbUp, cpbTool, cpbOct, cpbWin, cpbRam, cpbCon, cpbLine>>
    BY <1>8 DEF ReadBack
  <2>3. /\ w \in CpbWorkSet /\ w.pc = "leave" /\ w.job = cpbWork[p].job /\ w.ok = ok /\ w.sess = cpbWork[p].sess
    BY <1>0 DEF CpbWorkSet, CpbPcs
  <2>4. CpbPair(cpbUp[p], w)
    BY <1>0, <2>1, <2>3 DEF CpbPair
  <2>5. cpbCon = <<>> /\ CpbInStep(cpbUp[p], w, cpbOct, cpbCon')
    BY <1>0, <2>1, <2>3 DEF CpbInStep
  <2>6. cpbStray' \/ CpbStaged(p, w, cpbRam')
    BY <2>1, <2>3 DEF CpbStaged
  <2>7. cpbStray' \in BOOLEAN
    BY <1>1, <2>1
  <2> HIDE DEF w
  <2> QED BY <1>1, <1>2, <2>1, <2>3, <2>4, <2>5, <2>6, <2>7, CpbWindowMoves
<1>6. CASE LeaveWindow(p)
  <2> DEFINE to == IF cpbWork[p].ok THEN "send" ELSE EndOf(p)
             w == [cpbWork[p] EXCEPT !.pc = to, !.sav = None]
  <2>1. /\ cpbWork[p].pc = "leave" /\ cpbWork' = [cpbWork EXCEPT ![p] = w] /\ UNCHANGED <<cpbUp, cpbTool, cpbOct, cpbLine, cpbRam, cpbCon, cpbStray>>
        /\ cpbWin' = IF cpbWork[p].sav = None THEN cpbWin ELSE cpbWork[p].sav
    BY <1>6 DEF LeaveWindow, Restored
  <2>2. to = IF cpbWork[p].ok THEN "send" ELSE IF cpbUp[p].sc = "fwait" THEN "ended" ELSE "none"
    BY DEF EndOf
  <2> HIDE DEF to
  <2>3. /\ w \in CpbWorkSet /\ w.pc = to /\ w.job = cpbWork[p].job /\ w.sess = cpbWork[p].sess /\ w.ok = cpbWork[p].ok
        /\ cpbWork[p].ok \in BOOLEAN
    BY <1>0, <2>2 DEF CpbWorkSet, CpbPcs
  <2>4. cpbCon = <<>> /\ CpbPair(cpbUp[p], w)
    BY <1>0, <2>1, <2>2, <2>3 DEF CpbPair, CpbInStep
  <2>5. CpbInStep(cpbUp[p], w, cpbOct, cpbCon')
    BY <1>0, <2>1, <2>2, <2>3, <2>4 DEF CpbInStep
  <2>6. cpbStray' \/ CpbStaged(p, w, cpbRam')
    BY <1>0, <2>1, <2>2, <2>3 DEF CpbStaged
  <2>7. cpbWin' \in CpbSeg
    BY <1>0, <1>1, <2>1 DEF CpbWorkSet
  <2> HIDE DEF w
  <2> QED BY <1>1, <1>2, <2>1, <2>3, <2>4, <2>5, <2>6, <2>7, CpbWindowMoves
<1>7. CASE SendLine(p)
  <2> DEFINE w == [cpbWork[p] EXCEPT !.pc = "await", !.ok = FALSE]
             c == [job |-> cpbWork[p].job, by |-> p, sess |-> cpbWork[p].sess, rc |-> cpbUp[p].rc]
  <2>1. /\ cpbWork[p].pc = "send" /\ cpbWork' = [cpbWork EXCEPT ![p] = w] /\ UNCHANGED <<cpbUp, cpbTool, cpbOct, cpbLine, cpbRam, cpbWin, cpbStray>>
        /\ cpbCon' = Append(cpbCon, c)
    BY <1>7 DEF SendLine
  <2>3. w \in CpbWorkSet /\ w.pc = "await" /\ w.job = cpbWork[p].job /\ w.sess = cpbWork[p].sess /\ ~w.ok
    BY <1>0 DEF CpbWorkSet, CpbPcs
  <2>4. /\ cpbCon = <<>> /\ cpbWork[p].job \in CpbJobs /\ CpbPair(cpbUp[p], w) /\ cpbWork[p].sess = cpbOct.sess
        /\ cpbUp[p].rc = "ok" => cpbOct.fpga = "a00d"
    BY <1>0, <2>1, <2>3 DEF CpbPair, CpbInStep, CpbJobs
  <2>5. CpbInStep(cpbUp[p], w, cpbOct, cpbCon')
    BY <1>0, <2>1, <2>3 DEF CpbInStep
  <2>6. CpbStaged(p, w, cpbRam')
    BY <2>3 DEF CpbStaged
  <2>7. cpbUp[p].rc \in CpbRcs /\ cpbWork[p].sess \in Nat
    BY <1>0 DEF CpbUpSet, CpbWorkSet
  <2>8. c \in CpbCommand /\ c.job = cpbWork[p].job /\ c.by = p /\ c.sess = cpbOct.sess /\ c.rc = cpbUp[p].rc
    BY <2>4, <2>7 DEF CpbCommand
  <2>9. cpbStray \/ cpbRam[c.job] = CpbImage(c.job, c.by)
    BY <1>0, <2>1, <2>8 DEF CpbStaged
  <2> HIDE DEF c, w
  <2>10. cpbCon' = <<c>>
    BY <2>1, <2>4
  <2>11. CpbSent(cpbCon', cpbOct, cpbRam', cpbStray')
    BY <2>1, <2>4, <2>8, <2>9, <2>10 DEF CpbSent
  <2> QED BY <1>1, <2>1, <2>3, <2>4, <2>5, <2>6, <2>11, CpbWindowMoves
<1> QED BY <1>3, <1>4, <1>5, <1>6, <1>7, <1>8

\* pcnet-up by hand moves nothing the workers rely on.
LEMMA CpbPupSteps ==
  ASSUME CpbInv, PupStart \/ PcnetUp
  PROVE  CpbInv'
<1>1. UNCHANGED <<cpbUp, cpbWork, cpbTool, cpbOct, cpbWin, cpbRam, cpbCon, cpbLine, cpbStray>>
  BY DEF PupStart, PcnetUp, PupRest, cpbMem
<1> QED BY <1>1 DEF CpbInv, CpbShape, VerifiedBoot, SameSession

\* The unlocked tool writes into its own segment, or marks the session.
LEMMA CpbToolSteps ==
  ASSUME CpbInv, ToolEnter \/ WindowTool
  PROVE  CpbInv'
<1> USE DEF cpbMem, cpbEnv, ToolRest
<1>0. /\ cpbWork \in [CpbUps -> CpbWorkSet] /\ cpbTool \in CpbToolSet
      /\ cpbWin \in CpbSeg /\ cpbRam \in [CpbSeg -> CpbContent] /\ cpbStray \in BOOLEAN
      /\ CpbSent(cpbCon, cpbOct, cpbRam, cpbStray)
  BY DEF CpbInv, CpbShape
<1>1. UNCHANGED <<cpbUp, cpbWork, cpbOct, cpbCon, cpbLine>>
  BY DEF ToolEnter, WindowTool
<1>2. ASSUME cpbTool' \in CpbToolSet, cpbWin' \in CpbSeg, cpbRam' \in [CpbSeg -> CpbContent], cpbStray' \in BOOLEAN, cpbStray => cpbStray',
             cpbStray' \/ \A s \in CpbJobs : cpbRam'[s] = cpbRam[s]
      PROVE  CpbInv'
  <2>1. CpbSent(cpbCon', cpbOct', cpbRam', cpbStray')
    <3>1. CASE cpbCon = <<>>
      BY <1>1, <3>1 DEF CpbSent
    <3>2. CASE cpbCon # <<>>
      <4>1. PICK c \in CpbCommand : cpbCon = <<c>> /\ c.sess = cpbOct.sess /\ (c.rc = "ok" => cpbOct.fpga = "a00d")
                                    /\ (cpbStray \/ cpbRam[c.job] = CpbImage(c.job, c.by))
        BY <1>0, <3>2 DEF CpbSent
      <4>2. c.job \in CpbJobs
        BY DEF CpbCommand
      <4>3. cpbStray' \/ cpbRam'[c.job] = CpbImage(c.job, c.by)
        BY <1>2, <4>1, <4>2
      <4> QED BY <1>1, <4>1, <4>3 DEF CpbSent
    <3> QED BY <3>1, <3>2
  <2>2. CpbShape' /\ VerifiedBoot' /\ SameSession'
    BY <1>1, <1>2 DEF CpbInv, CpbShape, VerifiedBoot, SameSession
  <2>3. ASSUME ~cpbStray', NEW p \in CpbUps PROVE CpbStaged(p, cpbWork[p], cpbRam')
    <3>1. CpbStaged(p, cpbWork[p], cpbRam) /\ CpbPair(cpbUp[p], cpbWork[p])
      BY <1>2, <2>3 DEF CpbInv
    <3>2. cpbWork[p].pc # "none" => cpbWork[p].job \in CpbJobs
      BY <3>1 DEF CpbPair, CpbJobs
    <3> QED BY <1>2, <2>3, <3>1, <3>2 DEF CpbStaged
  <2> QED BY <1>1, <1>2, <2>1, <2>2, <2>3 DEF CpbInv
<1>3. CASE ToolEnter
  <2>1. UNCHANGED cpbMem /\ \E sav \in {cpbWin, None} : cpbTool' = [pc |-> "map", sav |-> sav]
    BY <1>3 DEF ToolEnter
  <2>2. cpbTool' \in CpbToolSet
    BY <1>0, <2>1 DEF CpbToolSet
  <2> QED BY <1>0, <1>2, <2>1, <2>2
<1>4. CASE WindowTool
  <2>1. CASE ToolGo("map", "mapped") /\ cpbWin' = "ring" /\ UNCHANGED <<cpbRam, cpbStray>>
    <3>1. cpbTool' \in CpbToolSet /\ cpbWin' \in CpbSeg
      BY <1>0, <2>1 DEF ToolGo, CpbToolSet, CpbSeg
    <3> QED BY <1>0, <1>2, <2>1, <3>1
  <2>2. CASE UNCHANGED cpbMem /\ \E to \in {"copy", "leave"} : ToolGo("mapped", to)
    <3>1. cpbTool' \in CpbToolSet
      BY <1>0, <2>2 DEF ToolGo, CpbToolSet
    <3> QED BY <1>0, <1>2, <2>2, <3>1
  <2>3. CASE /\ ToolGo("copy", "leave") /\ cpbRam' = [cpbRam EXCEPT ![cpbWin] = <<"ring", None>>]
             /\ cpbStray' = (cpbStray \/ cpbWin # "ring") /\ UNCHANGED cpbWin
    <3>1. cpbTool' \in CpbToolSet /\ <<"ring", None>> \in CpbContent
      BY <1>0, <2>3 DEF ToolGo, CpbToolSet, CpbContent
    <3>2. cpbRam' \in [CpbSeg -> CpbContent] /\ cpbStray' \in BOOLEAN
      BY <1>0, <2>3, <3>1
    <3>3. ASSUME ~cpbStray', NEW s \in CpbJobs PROVE cpbRam'[s] = cpbRam[s]
      <4>1. cpbWin = "ring" /\ s # "ring" /\ s \in CpbSeg
        BY <2>3, <3>3 DEF CpbJobs, CpbSeg
      <4> QED BY <1>0, <2>3, <4>1
    <3> QED BY <1>0, <1>2, <2>3, <3>1, <3>2, <3>3
  <2>4. CASE /\ cpbTool' = [pc |-> "idle", sav |-> None] /\ cpbWin' = (IF cpbTool.sav = None THEN cpbWin ELSE cpbTool.sav)
             /\ UNCHANGED <<cpbRam, cpbStray>>
    <3>1. cpbTool' \in CpbToolSet /\ cpbWin' \in CpbSeg
      BY <1>0, <2>4 DEF CpbToolSet
    <3> QED BY <1>0, <1>2, <2>4, <3>1
  <2> QED BY <1>4, <2>1, <2>2, <2>3, <2>4 DEF WindowTool, Restored
<1> QED BY <1>3, <1>4

\* What the console broker and the chip do.
LEMMA CpbChipGoes ==
  ASSUME CpbInv, Forward \/ Programmed \/ Banner \/ Chatter \/ BrokerRestarts
  PROVE  CpbInv'
<1> USE DEF cpbMem, CpbChip
<1>0. /\ cpbUp \in [CpbUps -> CpbUpSet] /\ cpbWork \in [CpbUps -> CpbWorkSet] /\ cpbOct \in CpbOctSet
      /\ cpbRam \in [CpbSeg -> CpbContent] /\ cpbStray \in BOOLEAN
      /\ CpbSent(cpbCon, cpbOct, cpbRam, cpbStray)
      /\ \A p \in CpbUps : CpbPair(cpbUp[p], cpbWork[p]) /\ CpbInStep(cpbUp[p], cpbWork[p], cpbOct, cpbCon)
      /\ cpbStray \/ \A p \in CpbUps : CpbStaged(p, cpbWork[p], cpbRam)
      /\ cpbOct.img.rc = "ok" => cpbOct.fpga = "a00d"
      /\ VerifiedBoot /\ SameSession
  BY DEF CpbInv, CpbShape
<1>1. CASE Forward
  <2>1. PICK c \in CpbCommand : cpbCon = <<c>> /\ c.sess = cpbOct.sess /\ (c.rc = "ok" => cpbOct.fpga = "a00d")
                                /\ (cpbStray \/ cpbRam[c.job] = CpbImage(c.job, c.by))
    BY <1>0, <1>1 DEF Forward, CpbSent
  <2>2. cpbCon' = <<>> /\ Head(cpbCon) = c /\ cpbLine' = FALSE
        /\ UNCHANGED <<cpbUp, cpbWork, cpbTool, cpbWin, cpbRam, cpbStray>>
    BY <1>1, <2>1 DEF Forward
  <2> DEFINE img(s) == [by |-> c.by, what |-> cpbRam[s], sess |-> c.sess, rc |-> c.rc]
  <2>3. c.job \in CpbJobs /\ c.by \in CpbUps /\ c.sess \in Nat /\ c.rc \in CpbRcs
    BY DEF CpbCommand
  <2>4. \A s \in CpbJobs : img(s) \in CpbImgSet /\ img(s).by = c.by /\ img(s).what = cpbRam[s] /\ img(s).sess = c.sess /\ img(s).rc = c.rc
    BY <1>0, <2>3 DEF CpbImgSet, CpbJobs, CpbSeg
  <2>5. \/ cpbOct.run = "uboot" /\ c.job = "fpga" /\ cpbOct' = [cpbOct EXCEPT !.run = "prog", !.img = img("fpga")]
        \/ cpbOct.run = "uboot" /\ c.job = "kernel" /\ cpbOct' = [cpbOct EXCEPT !.run = "linux", !.img = img("kernel")]
        \/ cpbOct' = cpbOct
    BY <1>1, <2>2, <2>3 DEF Forward, CpbJobs
  <2> HIDE DEF img
  <2>6. cpbOct' \in CpbOctSet /\ cpbOct'.sess = cpbOct.sess /\ cpbOct'.fpga = cpbOct.fpga
        /\ (\/ cpbOct' = cpbOct
            \/ cpbOct'.run = "prog" /\ cpbOct'.img = img("fpga")
            \/ c.job = "kernel" /\ cpbOct'.run = "linux" /\ cpbOct'.img = img("kernel"))
    BY <1>0, <2>4, <2>5 DEF CpbOctSet, CpbJobs
  <2>7. VerifiedBoot' /\ SameSession' /\ (cpbOct'.img.rc = "ok" => cpbOct'.fpga = "a00d")
    <3>1. CASE cpbOct' = cpbOct
      BY <1>0, <2>2, <3>1 DEF VerifiedBoot, SameSession
    <3>2. CASE cpbOct'.run = "prog" /\ cpbOct'.img = img("fpga")
      BY <2>1, <2>4, <2>6, <3>2 DEF VerifiedBoot, SameSession, CpbJobs
    <3>3. CASE c.job = "kernel" /\ cpbOct'.run = "linux" /\ cpbOct'.img = img("kernel")
      BY <2>1, <2>2, <2>4, <2>6, <3>3 DEF VerifiedBoot, SameSession, CpbJobs
    <3> QED BY <2>6, <3>1, <3>2, <3>3
  <2>8. \A p \in CpbUps : CpbInStep(cpbUp'[p], cpbWork'[p], cpbOct', cpbCon')
    BY <1>0, <2>2, <2>6 DEF CpbInStep
  <2>9. CpbSent(cpbCon', cpbOct', cpbRam', cpbStray')
    BY <2>2 DEF CpbSent
  <2>10. CpbShape'
    BY <2>2, <2>6 DEF CpbInv, CpbShape
  <2> QED BY <2>2, <2>7, <2>8, <2>9, <2>10 DEF CpbInv
<1>2. CASE Programmed
  <2>1. PICK good \in BOOLEAN :
          /\ cpbOct' = [cpbOct EXCEPT !.run = "uboot", !.img = CpbNoImg, !.fpga = IF good THEN "a00d" ELSE @]
          /\ cpbWork' = [p \in CpbUps |-> IF cpbWork[p].pc = "await" /\ cpbWork[p].job = "fpga"
                                           THEN [cpbWork[p] EXCEPT !.ok = good] ELSE cpbWork[p]]
    BY <1>2 DEF Programmed
  <2>2. cpbLine' = FALSE /\ UNCHANGED <<cpbUp, cpbTool, cpbWin, cpbRam, cpbStray, cpbCon>>
    BY <1>2 DEF Programmed
  <2>3. CpbNoImg \in CpbImgSet /\ CpbNoImg.rc = "none" /\ CpbNoImg.by = None
    BY DEF CpbNoImg, CpbImgSet, CpbContent, CpbRcs
  <2>4. cpbOct' \in CpbOctSet /\ cpbOct'.sess = cpbOct.sess /\ cpbOct'.run = "uboot" /\ cpbOct'.img = CpbNoImg
        /\ (cpbOct.fpga = "a00d" \/ good => cpbOct'.fpga = "a00d")
    BY <1>0, <2>1, <2>3 DEF CpbOctSet
  <2>5. ASSUME NEW p \in CpbUps
        PROVE  /\ cpbWork'[p] \in CpbWorkSet /\ cpbWork'[p].pc = cpbWork[p].pc /\ cpbWork'[p].job = cpbWork[p].job
               /\ cpbWork'[p].sess = cpbWork[p].sess
               /\ \/ cpbWork'[p].ok = cpbWork[p].ok
                  \/ cpbWork[p].pc = "await" /\ cpbWork[p].job = "fpga" /\ cpbWork'[p].ok = good
    BY <1>0, <2>1 DEF CpbWorkSet
  <2>6. cpbWork' \in [CpbUps -> CpbWorkSet]
    <3>1. cpbWork' = [p \in CpbUps |-> cpbWork'[p]]
      BY <2>1
    <3> QED BY <2>5, <3>1
  <2>7. VerifiedBoot' /\ SameSession' /\ cpbOct'.img.rc # "ok"
    BY <2>3, <2>4 DEF VerifiedBoot, SameSession
  <2>8. \A p \in CpbUps : CpbPair(cpbUp'[p], cpbWork'[p])
    <3> SUFFICES ASSUME NEW p \in CpbUps PROVE CpbPair(cpbUp[p], cpbWork'[p])
      BY <2>2
    <3> QED BY <1>0, <2>5 DEF CpbPair
  <2>9. \A p \in CpbUps : CpbInStep(cpbUp'[p], cpbWork'[p], cpbOct', cpbCon')
    <3> SUFFICES ASSUME NEW p \in CpbUps PROVE CpbInStep(cpbUp[p], cpbWork'[p], cpbOct', cpbCon)
      BY <2>2
    <3>1. CpbInStep(cpbUp[p], cpbWork[p], cpbOct, cpbCon)
      BY <1>0
    <3>2. cpbWork'[p].ok => cpbWork[p].ok \/ good
      BY <2>5
    <3> QED BY <2>4, <2>5, <3>1, <3>2 DEF CpbInStep
  <2>10. \A p, q \in CpbUps : CpbLocks(p, cpbUp'[p], cpbWork'[p]) /\ CpbLocks(q, cpbUp'[q], cpbWork'[q]) => p = q
    BY <2>2, <2>5 DEF CpbInv, CpbLocks
  <2>11. cpbStray' \/ \A p \in CpbUps : CpbStaged(p, cpbWork'[p], cpbRam')
    <3> SUFFICES ASSUME ~cpbStray, NEW p \in CpbUps PROVE CpbStaged(p, cpbWork'[p], cpbRam)
      BY <2>2
    <3>1. CpbStaged(p, cpbWork[p], cpbRam)
      BY <1>0
    <3>2. cpbWork[p].pc = "leave" => cpbWork'[p].ok = cpbWork[p].ok
      BY <2>5
    <3> QED BY <2>5, <3>1, <3>2 DEF CpbStaged
  <2>12. CpbSent(cpbCon', cpbOct', cpbRam', cpbStray')
    BY <1>0, <2>2, <2>4 DEF CpbSent
  <2>13. CpbShape'
    BY <2>2, <2>4, <2>6 DEF CpbInv, CpbShape
  <2> QED BY <2>2, <2>7, <2>8, <2>9, <2>10, <2>11, <2>12, <2>13 DEF CpbInv
<1>3. CASE Banner
  <2>1. /\ cpbOct' = [cpbOct EXCEPT !.said = TRUE] /\ cpbLine' = TRUE
        /\ cpbUp' = [p \in CpbUps |-> [cpbUp[p] EXCEPT !.seen = (cpbUp[p].sc # "idle")]]
        /\ UNCHANGED <<cpbWork, cpbTool, cpbWin, cpbRam, cpbStray, cpbCon>>
    BY <1>3 DEF Banner
  <2>2. cpbOct' \in CpbOctSet /\ cpbOct'.run = cpbOct.run /\ cpbOct'.sess = cpbOct.sess /\ cpbOct'.fpga = cpbOct.fpga /\ cpbOct'.img = cpbOct.img
    BY <1>0, <2>1 DEF CpbOctSet
  <2>3. ASSUME NEW p \in CpbUps
        PROVE  cpbUp'[p] \in CpbUpSet /\ cpbUp'[p].sc = cpbUp[p].sc /\ cpbUp'[p].rc = cpbUp[p].rc
    BY <1>0, <2>1 DEF CpbUpSet
  <2>4. cpbUp' \in [CpbUps -> CpbUpSet]
    <3>1. cpbUp' = [p \in CpbUps |-> cpbUp'[p]]
      BY <2>1
    <3> QED BY <2>3, <3>1
  <2>5. \A p \in CpbUps : CpbPair(cpbUp'[p], cpbWork'[p]) /\ CpbInStep(cpbUp'[p], cpbWork'[p], cpbOct', cpbCon')
    <3> SUFFICES ASSUME NEW p \in CpbUps PROVE CpbPair(cpbUp'[p], cpbWork[p]) /\ CpbInStep(cpbUp'[p], cpbWork[p], cpbOct', cpbCon)
      BY <2>1
    <3> QED BY <1>0, <2>2, <2>3 DEF CpbPair, CpbInStep
  <2>6. \A p, q \in CpbUps : CpbLocks(p, cpbUp'[p], cpbWork'[p]) /\ CpbLocks(q, cpbUp'[q], cpbWork'[q]) => p = q
    BY <2>1, <2>3 DEF CpbInv, CpbLocks
  <2>7. VerifiedBoot' /\ SameSession' /\ (cpbOct'.img.rc = "ok" => cpbOct'.fpga = "a00d")
    BY <1>0, <2>1, <2>2 DEF VerifiedBoot, SameSession
  <2>8. CpbSent(cpbCon', cpbOct', cpbRam', cpbStray')
    BY <1>0, <2>1, <2>2 DEF CpbSent
  <2>9. CpbShape'
    BY <2>1, <2>2, <2>4 DEF CpbInv, CpbShape
  <2> QED BY <2>1, <2>5, <2>6, <2>7, <2>8, <2>9 DEF CpbInv
<1>4. CASE Chatter
  <2>1. UNCHANGED <<cpbUp, cpbWork, cpbTool, cpbOct, cpbWin, cpbRam, cpbCon, cpbStray>> /\ cpbLine' = FALSE
    BY <1>4 DEF Chatter
  <2> QED BY <2>1 DEF CpbInv, CpbShape, VerifiedBoot, SameSession
<1>5. CASE BrokerRestarts
  <2>1. UNCHANGED <<cpbUp, cpbWork, cpbTool, cpbOct, cpbWin, cpbRam, cpbStray>> /\ cpbLine' = FALSE /\ cpbCon' = <<>>
    BY <1>5 DEF BrokerRestarts
  <2>2. CpbSent(cpbCon', cpbOct', cpbRam', cpbStray')
    BY <2>1 DEF CpbSent
  <2>3. \A p \in CpbUps : CpbInStep(cpbUp'[p], cpbWork'[p], cpbOct', cpbCon')
    BY <1>0, <2>1 DEF CpbInStep
  <2> QED BY <2>1, <2>2, <2>3 DEF CpbInv, CpbShape, VerifiedBoot, SameSession
<1> QED BY <1>1, <1>2, <1>3, <1>4, <1>5

\* The bounds are only read by CpbTypeOK.
LEMMA CpbInvMeans == ASSUME CpbInv PROVE CpbSafe
<1>1. \A p \in CpbUps : cpbUp[p].n \in 0 .. CpbStarts /\ cpbUp[p].stale \in BOOLEAN /\ cpbUp[p].rc \in {"none", "ok", "failed"}
  BY DEF CpbInv, CpbShape, CpbUpSet, CpbRcs
<1>2. cpbWin \in CpbSeg /\ Len(cpbCon) <= 1
  <2>1. CASE cpbCon = <<>>
    BY <2>1 DEF CpbInv, CpbShape
  <2>2. CASE \E c \in CpbCommand : cpbCon = <<c>>
    BY <2>2 DEF CpbInv, CpbShape
  <2> QED BY <2>1, <2>2 DEF CpbInv, CpbSent
<1>3. \A p, q \in CpbUps : LockHeld(p) /\ LockHeld(q) => p = q
  BY CpbLockIs DEF CpbInv
<1>4. PersonalityHolds
  BY DEF CpbInv, PersonalityHolds
<1>5. VerifiedBoot /\ SameSession
  BY DEF CpbInv
<1> QED BY <1>1, <1>2, <1>3, <1>4, <1>5 DEF CpbSafe, CpbTypeOK

\* The bench at rest, Linux running or not.
LEMMA CpbInitInv == ASSUME CpbInit, CpbStarts \in Nat PROVE CpbInv
<1>1. CpbIdleUp \in CpbUpSet /\ CpbIdleUp.sc = "idle" /\ CpbIdleUp.rc = "none"
  BY DEF CpbIdleUp, CpbUpSet, CpbScs, CpbRcs
<1>2. CpbNoWork \in CpbWorkSet /\ CpbNoWork.pc = "none" /\ ~CpbNoWork.ok
  BY DEF CpbNoWork, CpbWorkSet, CpbPcs, CpbSeg
<1>3. CpbNoImg \in CpbImgSet /\ CpbNoImg.rc = "none" /\ CpbNoImg.by = None
  BY DEF CpbNoImg, CpbImgSet, CpbContent, CpbRcs
<1>4. cpbOct \in CpbOctSet /\ cpbOct.img = CpbNoImg
  <2>1. cpbOct \in [run : {"off", "linux"}, sess : {0}, fpga : {"a101"}, img : {CpbNoImg}, said : {TRUE}]
    BY DEF CpbInit
  <2>2. cpbOct.run \in {"off", "linux"} /\ cpbOct.sess = 0 /\ cpbOct.fpga = "a101" /\ cpbOct.img = CpbNoImg /\ cpbOct.said \in BOOLEAN
        /\ cpbOct = [run |-> cpbOct.run, sess |-> cpbOct.sess, fpga |-> cpbOct.fpga, img |-> cpbOct.img, said |-> cpbOct.said]
    BY <2>1
  <2> QED BY <1>3, <2>2 DEF CpbOctSet
<1>5. CpbJunk \in CpbContent /\ "home" \in CpbSeg
  BY DEF CpbContent, CpbSeg
<1>6. cpbTool \in CpbToolSet /\ cpbTool.pc = "idle"
  BY <1>5 DEF CpbInit, CpbToolSet
<1>7. CpbShape
  BY <1>1, <1>2, <1>4, <1>5, <1>6 DEF CpbInit, CpbShape
<1>8. \A p \in CpbUps : CpbPair(cpbUp[p], cpbWork[p]) /\ CpbInStep(cpbUp[p], cpbWork[p], cpbOct, cpbCon)
                        /\ ~CpbLocks(p, cpbUp[p], cpbWork[p]) /\ CpbStaged(p, cpbWork[p], cpbRam)
  BY <1>1, <1>2, <1>6 DEF CpbInit, CpbPair, CpbInStep, CpbLocks, CpbStaged
<1>9. CpbSent(cpbCon, cpbOct, cpbRam, cpbStray)
  BY DEF CpbInit, CpbSent
<1>10. VerifiedBoot /\ SameSession /\ cpbOct.img.rc # "ok"
  BY <1>3, <1>4 DEF VerifiedBoot, SameSession
<1> QED BY <1>6, <1>7, <1>8, <1>9, <1>10 DEF CpbInv

\* Every step of a script, a worker, the unlocked tool, the broker and the chip.
LEMMA CpbNextInv == ASSUME CpbInv, CpbStarts \in Nat, [CpbNext]_cpbVars PROVE CpbInv'
<1>1. CASE UNCHANGED cpbVars
  BY <1>1 DEF cpbVars, CpbInv, CpbShape, VerifiedBoot, SameSession
<1>2. ASSUME NEW p \in CpbUps, StartScript(p) \/ Script(p) \/ BootWorker(p) \/ CpbKilled(p) \/ FpgaTimeout(p)
      PROVE  CpbInv'
  <2>1. \/ StartScript(p) \/ StopNet(p) \/ CheckNet(p) \/ LateLock(p) \/ Watch(p) \/ NetIndex(p) \/ NetStart(p) \/ WaitBoot(p)
        \/ Prompt(p) \/ CheckIndex(p) \/ WorkEnds(p) \/ FpgaTimeout(p)
        \/ FpgaStep(p) \/ FpgaStepDone(p) \/ KernelStep(p) \/ CpbKilled(p)
        \/ ResetChip(p) \/ LoadUboot(p)
        \/ Enter(p) \/ MapSegment(p) \/ Copy(p) \/ ReadBack(p) \/ LeaveWindow(p) \/ SendLine(p)
    BY <1>2 DEF Script, BootWorker
  <2> QED BY <2>1, CpbScriptSteps, CpbWorkSteps, CpbJobSteps, CpbChipSteps, CpbWindowSteps
<1>3. CASE PupStart \/ PcnetUp \/ ToolEnter \/ WindowTool \/ Forward \/ Programmed \/ Banner \/ Chatter \/ BrokerRestarts
  BY <1>3, CpbPupSteps, CpbToolSteps, CpbChipGoes
<1> QED BY <1>1, <1>2, <1>3 DEF CpbNext

\* However the two boot scripts, their workers, deaths and resets interleave:
\* one session of work under the lock; Linux runs the kernel its worker verified,
\* also under a tool that moves the window without the lock, unless that tool
\* wrote, or the worker read back, through a window already moved; a command acts in the
\* bootloader session its image was staged in; and the socket holds a00d under a
\* Linux whose own FPGA step reported success (ffn-octeon-up.sh,
\* boot618-pcie.sh, ffn_octboot.py, ffn-fpga-step.sh).
THEOREM BootSafe == CpbSpec => []CpbSafe
<1>1. CpbInit => CpbInv
  BY CpbInitInv, CpbAssumption
<1>2. CpbInv /\ [CpbNext]_cpbVars => CpbInv'
  BY CpbNextInv, CpbAssumption
<1>3. CpbInv => CpbSafe
  BY CpbInvMeans
<1> QED BY <1>1, <1>2, <1>3, PTL DEF CpbSpec
==============================================================================
