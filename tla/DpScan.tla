------------------------------- MODULE DpScan -------------------------------
(***************************************************************************)
(* Inline inspection of one flow: the pattern automaton (ffn_dp_aho.c),    *)
(* the two engines that use it or scan packet by packet (ffn_dp_ctd.c,     *)
(* ffn_dp_dlp.c), their dispatcher (ffn_dp_engine.c) and the scan state    *)
(* the forwarder keeps per direction (dp_inspect).                         *)
(*                                                                         *)
(* A payload is a sequence of bytes; a state of the automaton is the       *)
(* prefix that leads to it.  Verdicts are ordered as in dp_engine.h.       *)
(***************************************************************************)
EXTENDS Integers, Sequences, FiniteSets

CONSTANTS
  Byte,
  Sigs,       \* the CTD signatures, in order: [pat, act]
  Rules,      \* the DLP rules, in order: [pat, act]
  Payload,    \* the payloads that packets carry
  MaxPat,     \* the length of the longest pattern
  ScanMax     \* DP_ENGINE_SCAN_MAX

NoMatch == 0
ScanBlock == 2
Reset == 3
Eps == -1     \* not a byte

\* dp_ctd_add and dp_dlp_config_line refuse an empty pattern and an action that
\* is not a verdict (alert, block or reset).
ASSUME ScanAssumption ==
  /\ Byte \subseteq Nat /\ MaxPat \in Nat /\ ScanMax \in Nat
  /\ Sigs \in Seq([pat : Seq(Byte), act : 1 .. Reset])
  /\ \A i \in DOMAIN Sigs : Len(Sigs[i].pat) \in 1 .. MaxPat
  /\ Rules \in Seq([pat : Seq(Byte), act : 1 .. Reset])
  /\ Payload \subseteq Seq(Byte)

VARIABLES
  scanState,      \* scan_state[direction]
  stream,     \* the last MaxPat bytes that a direction carried without a gap
  scanLast,       \* the verdict on the last packet, and what was to be found in it
  on          \* the engines that are enabled

scanVars == <<scanState, stream, scanLast, on>>
ScanDir == {0, 1}
Front(s) == SubSeq(s, 1, Len(s) - 1)
Final(s) == s[Len(s)]
Upto(s, n) == SubSeq(s, 1, IF n < Len(s) THEN n ELSE Len(s))
EndsWith(s, p) == Len(p) <= Len(s) /\ SubSeq(s, Len(s) - Len(p) + 1, Len(s)) = p

\* dp_aho_add: the states are the prefixes of the patterns.
States == {<<>>} \cup UNION {{SubSeq(Sigs[i].pat, 1, n) : n \in 1 .. Len(Sigs[i].pat)} : i \in DOMAIN Sigs}

\* dp_aho_compile: the completed transitions and, under Eps, the failure states.
ScanTable ==
  LET T[x \in States \X (Byte \cup {Eps})] ==
        LET u == x[1]
            c == x[2]
        IN  IF c = Eps
            THEN IF Len(u) <= 1 THEN <<>> ELSE T[<<T[<<Front(u), Eps>>], Final(u)>>]
            ELSE IF Append(u, c) \in States THEN Append(u, c)
            ELSE IF u = <<>> THEN <<>> ELSE T[<<T[<<u, Eps>>], c>>]
  IN  T

\* dp_aho_add: the patterns that lead to a state, the last added first.
ScanOwn(u) ==
  LET W[n \in 0 .. Len(Sigs)] ==
        IF n = 0 THEN <<>> ELSE IF Sigs[n].pat = u THEN <<n>> \o W[n - 1] ELSE W[n - 1]
  IN  W[Len(Sigs)]

\* Mutant: the matches of the failure state are not spliced in.
OutOwn == [u \in States |-> ScanOwn(u)]
\* dp_aho_compile: the matches of each state, its own and then those of its
\* failure state.
ScanOut ==
  LET O[u \in States] == IF u = <<>> THEN <<>> ELSE ScanOwn(u) \o O[ScanTable[<<u, Eps>>]]
  IN  O

\* dp_aho_scan with ctd_on_match, byte by byte: w.worst is raised by each match,
\* until one blocks.
ScanRaise(worst, ids) ==
  LET R[n \in 0 .. Len(ids)] ==
        IF n = 0 THEN worst
        ELSE IF R[n - 1] >= ScanBlock \/ Sigs[ids[n]].act <= R[n - 1] THEN R[n - 1] ELSE Sigs[ids[n]].act
  IN  R[Len(ids)]
CtdScan(from, bytes) ==
  LET S[n \in 0 .. Len(bytes)] ==
        IF n = 0 THEN [at |-> from, worst |-> NoMatch]
        ELSE IF S[n - 1].worst >= ScanBlock THEN S[n - 1]
        ELSE LET s == ScanTable[<<S[n - 1].at, bytes[n]>>]
             IN  [at |-> s, worst |-> ScanRaise(S[n - 1].worst, ScanOut[s])]
  IN  S[Len(bytes)]

\* dp_dlp_scan: the rules in order, each on this packet alone.
Occurs(p, s) == \E n \in 0 .. Len(s) : EndsWith(SubSeq(s, 1, n), p)
DlpScan(bytes) ==
  LET R[n \in 0 .. Len(Rules)] ==
        IF n = 0 THEN NoMatch
        ELSE IF R[n - 1] >= ScanBlock \/ ~Occurs(Rules[n].pat, bytes) \/ Rules[n].act <= R[n - 1] THEN R[n - 1]
        ELSE Rules[n].act
  IN  R[Len(Rules)]

\* The reference for a packet that follows the bytes of its direction: the
\* actions of the signatures that end in it and of the rules that occur in it.
Found(before, bytes) ==
  LET Ends(p) == \E n \in 1 .. Len(bytes) : EndsWith(before \o SubSeq(bytes, 1, n), p)
  IN  {Sigs[i].act : i \in {j \in DOMAIN Sigs : Ends(Sigs[j].pat)}}
        \cup {Rules[i].act : i \in {j \in DOMAIN Rules : "dlp" \in on /\ Occurs(Rules[j].pat, bytes)}}
Recent(s) == IF Len(s) <= MaxPat THEN s ELSE SubSeq(s, Len(s) - MaxPat + 1, Len(s))

----------------------------------------------------------------------------
ScanFresh == /\ scanState' = [d \in ScanDir |-> <<>>] /\ stream' = [d \in ScanDir |-> <<>>]
             /\ scanLast' = [verdict |-> NoMatch, found |-> {}]
ScanInit ==
  /\ scanState = [d \in ScanDir |-> <<>>] /\ stream = [d \in ScanDir |-> <<>>]
  /\ scanLast = [verdict |-> NoMatch, found |-> {}]
  /\ on \in {{"dlp", "ctd"}, {"ctd"}}

\* What the next packet of a direction finds after one scanned to c, of which a
\* part was cut off.
\* The tail of a cut packet was not scanned, so that the state starts again.
Carry(c, cut) == IF cut THEN <<>> ELSE c.at
\* dp_inspect: the scan state of a packet is that of its direction.
ScanSide(d) == d

\* dp_engine_scan of one packet of the flow: the DLP engine, then, unless that
\* has blocked, the CTD engine.  A convicted flow is dropped before it.
ScanInspect(d, bytes) ==
  LET clip == Upto(bytes, ScanMax)
      cut == Len(bytes) > ScanMax
      dlp == IF "dlp" \in on THEN DlpScan(clip) ELSE NoMatch
      runs == dlp < ScanBlock
      c == CtdScan(scanState[ScanSide(d)], clip)
  IN  /\ scanLast.verdict < ScanBlock
      /\ scanState' = IF runs THEN [scanState EXCEPT ![ScanSide(d)] = Carry(c, cut)] ELSE scanState
      /\ stream' = [stream EXCEPT ![d] = IF cut THEN <<>> ELSE Recent(@ \o clip)]
      /\ scanLast' = [verdict |-> IF runs /\ c.worst > dlp THEN c.worst ELSE dlp,
                      found |-> Found(stream[d], clip)]
      /\ UNCHANGED on

\* The flow's entry is evicted and its next packet starts a new one.
Evict == ScanFresh /\ UNCHANGED on

ScanNext == \/ \E d \in ScanDir, bytes \in Payload : ScanInspect(d, bytes)
            \/ Evict
ScanSpec == ScanInit /\ [][ScanNext]_scanVars

----------------------------------------------------------------------------
ScanTypeOK == /\ \A d \in ScanDir : scanState[d] \in States
              /\ scanLast.verdict \in NoMatch .. Reset

\* A signature that spans packets is found when its last byte arrives, and none
\* "that is not in the traffic" is: a packet is blocked if and only if a blocking
\* pattern ends in it, and reported if and only if any pattern does, whatever
\* the other direction carries in between.
VerdictExact ==
  /\ scanLast.verdict >= ScanBlock <=> \E a \in scanLast.found : a >= ScanBlock
  /\ scanLast.verdict = NoMatch <=> scanLast.found = {}

\* The state carried from one packet to the next is the longest suffix of the
\* direction's bytes that may still become a signature.
StateLongest ==
  scanLast.verdict < ScanBlock =>
        \A d \in ScanDir : /\ EndsWith(stream[d], scanState[d])
                           /\ \A s \in States : EndsWith(stream[d], s) => Len(s) <= Len(scanState[d])

\* The streamed verdict is the one of the whole stream.
ScanSafe ==
  /\ ScanTypeOK
  /\ VerdictExact
  /\ StateLongest
=============================================================================
