------------------------- MODULE Fe100FlowNamespace -------------------------
(***************************************************************************)
(* Commissioning of the flow-ID namespace (FlowNamespace.ensure) and the   *)
(* allocator it creates (FlowIds), over the journal they share.            *)
(*                                                                         *)
(* A namespace belongs to one CP boot.  Commissioning is up to three       *)
(* transactions: archive and drop the previous generation, insert the new  *)
(* generation, insert the allocator's counter.  The process may stop or a  *)
(* transaction may fail between any two of them.                           *)
(***************************************************************************)
EXTENDS FfnCommon, Integers, FiniteSets

CONSTANTS
  First, Last,  \* the commissioned range
  MaxBoot,      \* boots 1..MaxBoot (bound)
  NsMaxFaults     \* failed transactions and stops (bound)

ASSUME RangeAssumption == First \in Nat \ {0} /\ Last \in Nat /\ First < Last
ASSUME NsBoundAssumption == MaxBoot \in Nat \ {0} /\ NsMaxFaults \in Nat
ASSUME NsNoneAssumption == None \notin Nat /\ None \notin [boot : Nat, next : Nat]

NsBoot == 1 .. MaxBoot
Counter == First .. Last + 1
Ids == [boot : NsBoot, next : Counter]

VARIABLES
  boot,        \* /proc/sys/kernel/random/boot_id of the CP
  generation,  \* durable: cp_boot_id of flow_id_generation, or None
  ids,         \* durable: hardware_flow_ids (its domain names a boot), or None
  archive,     \* durable: flow_id_generation_archive
  nsPc,          \* "down", "idle", or where ensure() is
  allocator,   \* "none", "usable" or "failed"
  issued,      \* pairs handed out, as [boot, first ID]
  nsFaults

nsDurable == <<generation, ids, archive>>
nsVars == <<boot, generation, ids, archive, nsPc, allocator, issued, nsFaults>>

NsFault == nsFaults < NsMaxFaults /\ nsFaults' = nsFaults + 1

\* An error leaves ensure(); PolicyController keeps flow_ids as it was.
Abandon == NsFault /\ nsPc' = "idle" /\ UNCHANGED <<boot, nsDurable, allocator, issued>>

----------------------------------------------------------------------------
(* FlowNamespace.ensure(None).                                             *)

\* This boot's generation is journaled: open the allocator, never initialise it.
Resume ==
  /\ nsPc = "idle" /\ allocator = "none" /\ generation = boot
  /\ ids # None /\ ids.boot = boot
  /\ allocator' = "usable"
  /\ UNCHANGED <<boot, nsDurable, nsPc, issued, nsFaults>>

\* Readiness and the range proof succeeded in this boot.
Probe ==
  /\ nsPc = "idle" /\ allocator = "none" /\ generation # boot
  /\ nsPc' = IF generation = None THEN "journal" ELSE "rollover"
  /\ UNCHANGED <<boot, nsDurable, allocator, issued, nsFaults>>

Rollover ==
  /\ nsPc = "rollover"
  /\ archive' = archive \cup {[boot |-> generation,
                               next |-> IF ids = None THEN None ELSE ids.next]}
  /\ generation' = None /\ ids' = None
  /\ nsPc' = "journal"
  /\ UNCHANGED <<boot, allocator, issued, nsFaults>>

JournalGeneration ==
  /\ nsPc = "journal"
  /\ generation' = boot /\ nsPc' = "initialize"
  /\ UNCHANGED <<boot, ids, archive, allocator, issued, nsFaults>>

\* FlowIds(..., initialize=True) inserts the counter.  A row that is already
\* there would be validated instead; none is, see JournaledTogether.
Initialize ==
  /\ nsPc = "initialize"
  /\ ids = None
  /\ ids' = [boot |-> boot, next |-> First]
  /\ allocator' = "usable" /\ nsPc' = "idle"
  /\ UNCHANGED <<boot, generation, archive, issued, nsFaults>>

StepFails == nsPc \in {"rollover", "journal", "initialize"} /\ Abandon

----------------------------------------------------------------------------
(* FlowIds.reserve_pair.                                                   *)

\* Mutant: the pair is used before its reservation commits.
ReserveUncommitted ==
  /\ nsPc = "idle" /\ allocator = "usable" /\ ids.next + 1 <= Last
  /\ issued' = issued \cup {[boot |-> boot, id |-> ids.next]}
  /\ UNCHANGED <<boot, nsDurable, nsPc, allocator, nsFaults>>

NsReserve ==
  /\ nsPc = "idle" /\ allocator = "usable" /\ ids.next + 1 <= Last
  /\ ids' = [ids EXCEPT !.next = @ + 2]
  /\ issued' = issued \cup {[boot |-> boot, id |-> ids.next]}
  /\ UNCHANGED <<boot, generation, archive, nsPc, allocator, nsFaults>>

\* The range is used up: the allocator fences itself.
Exhaust ==
  /\ nsPc = "idle" /\ allocator = "usable" /\ ids.next + 1 > Last
  /\ allocator' = "failed"
  /\ UNCHANGED <<boot, nsDurable, nsPc, issued, nsFaults>>

NsReserveFails ==
  /\ nsPc = "idle" /\ allocator = "usable" /\ NsFault
  /\ allocator' = "failed"
  /\ UNCHANGED <<boot, nsDurable, nsPc, issued>>

----------------------------------------------------------------------------
Stop ==
  /\ nsPc # "down" /\ NsFault
  /\ nsPc' = "down" /\ allocator' = "none"
  /\ UNCHANGED <<boot, nsDurable, issued>>

Restart ==
  /\ nsPc = "down" /\ nsPc' = "idle"
  /\ UNCHANGED <<boot, nsDurable, allocator, issued, nsFaults>>

\* A new CP boot; its initialisation clears the hardware tables.
NsReboot ==
  /\ boot < MaxBoot /\ boot' = boot + 1
  /\ nsPc' = "down" /\ allocator' = "none"
  /\ UNCHANGED <<nsDurable, issued, nsFaults>>

NsInit ==
  /\ boot = 1 /\ generation = None /\ ids = None /\ archive = {}
  /\ nsPc = "down" /\ allocator = "none" /\ issued = {} /\ nsFaults = 0

Ensure == Resume \/ Probe \/ Rollover \/ JournalGeneration \/ Initialize

NsNext == Ensure \/ StepFails \/ NsReserve \/ Exhaust \/ NsReserveFails
          \/ Stop \/ Restart \/ NsReboot

NsSpec == NsInit /\ [][NsNext]_nsVars

\* Every request calls ensure(), the prober is retried, systemd restarts.
NsFairSpec == NsSpec /\ WF_nsVars(Ensure) /\ WF_nsVars(Restart)

----------------------------------------------------------------------------
\* The counter stays within the commissioned range (last + 1 when used up), and
\* so does every pair that FlowIds handed out.
NsTypeOK ==
  /\ boot \in NsBoot /\ generation \in NsBoot \cup {None} /\ ids \in Ids \cup {None}
  /\ archive \subseteq [boot : NsBoot, next : Counter \cup {None}]
  /\ nsPc \in {"down", "idle", "rollover", "journal", "initialize"}
  /\ allocator \in {"none", "usable", "failed"}
  /\ issued \subseteq [boot : NsBoot, id : First .. Last - 1]
  /\ nsFaults \in 0 .. NsMaxFaults

\* "Ids are never reused": every pair handed out in this boot lies below the
\* durable counter of this boot, so that no stop, failure or resumption can
\* hand it out again.
NeverReused ==
  \A p \in issued :
    p.boot = boot => ids # None /\ ids.boot = boot /\ p.id + 1 < ids.next

\* "Archives the previous generation": once a generation is gone from the
\* journal its archive row tells which IDs it had handed out.
ArchiveAccounts ==
  \A p \in issued :
    p.boot # generation => \E a \in archive : a.boot = p.boot /\ a.next # None /\ p.id + 1 < a.next

\* No two pairs overlap: the tags of live sessions and of counter records are
\* unambiguous within a boot.
PairsDisjoint ==
  \A p, q \in issued : p.boot = q.boot /\ p.id # q.id => p.id + 1 < q.id \/ q.id + 1 < p.id

\* What the proofs rest on.  Generation and counter belong together, a
\* generation of the current boot is never rolled over, and the allocator is
\* only open on this boot's counter.
JournaledTogether ==
  /\ ids # None => generation = ids.boot
  /\ nsPc = "rollover" => generation # None /\ generation # boot
  /\ nsPc = "journal" => generation = None
  /\ nsPc = "initialize" => generation = boot /\ ids = None
  /\ allocator # "none" => nsPc = "idle" /\ ids # None /\ ids.boot = boot
IssuedUnderGeneration ==
  \A p \in issued : /\ p.boot <= boot
                    /\ p.boot = boot => generation = boot
                    /\ p.boot = generation => ids # None /\ p.id + 1 < ids.next
IInv == NsTypeOK /\ JournaledTogether /\ IssuedUnderGeneration /\ ArchiveAccounts /\ PairsDisjoint

\* "The same boot resumes the journal": with its generation journaled, the
\* owner gets its allocator back unless the CP reboots.
SameBootResumes ==
  \A b \in NsBoot : (generation = b /\ boot = b) ~> (allocator # "none" \/ boot # b)

\* A flow identifier has one user for ever, across rollovers and crashes.
NsSafe ==
  /\ NsTypeOK
  /\ NeverReused
  /\ ArchiveAccounts
  /\ PairsDisjoint
============================================================================
