---------------------------- MODULE InterfaceIds ----------------------------
(***************************************************************************)
(* The pinning of wire ids to interfaces.                                  *)
(*                                                                         *)
(* A COM call is routed by a 16-bit interface id in cmd_type.  The file    *)
(* npt_interface_ids.json pins each GUID to one id for ever, so that a     *)
(* guest and a host generated from different versions of the registry      *)
(* agree on what an id means.  Three parties touch it, in any order over   *)
(* the life of the protocol: the allocation tool adds entries, developers  *)
(* add, rename and retire entries, and the registry is regenerated from    *)
(* MIDL with interfaces added, dropped, renamed or given a new GUID.  The  *)
(* generator's loader accepts or refuses the outcome.                      *)
(***************************************************************************)
EXTENDS Naturals, FiniteSets, FiniteSetsExt

CONSTANTS
  Name,     \* interface names
  Guid,     \* interface GUIDs, in lower case
  NoGuid,   \* the registry has no interface of that name
  MaxId     \* bound: ids (the wire has room for 65535, no code checks it)

ASSUME NoGuidIsNoGuid == NoGuid \notin Guid
ASSUME MaxIdType == MaxId \in Nat \ {0}

VARIABLES
  pins,     \* the pinning file: id -> [guid, name, retired]
  registry, \* registry[n]: the GUID of interface n
  report,   \* what the allocation tool last said, if it ran just now
  build,    \* the ids the last successful build gave its interfaces
  shipped   \* history: the (id, GUID) pairs of every successful build

pinsVars == <<pins, registry, report, build, shipped>>

Interfaces == {n \in Name : registry[n] # NoGuid}

Live(k) == ~pins[k].retired

LiveIds == {k \in DOMAIN pins : Live(k)}

NoReport == [result |-> "none"]

-----------------------------------------------------------------------------
(* The registry and hand edits of the pinning file *)

(* MIDL regeneration: the registry is keyed by interface name, and nothing *)
(* keeps two names from carrying one GUID.                                 *)
SetInterface(n, g) ==
  /\ registry[n] # g
  /\ registry' = [registry EXCEPT ![n] = g]
  /\ report' = NoReport
  /\ UNCHANGED <<pins, build, shipped>>

AddPin(k, n, g) ==
  pins' = [j \in DOMAIN pins \cup {k} |->
             IF j = k THEN [guid |-> g, name |-> n, retired |-> FALSE]
             ELSE pins[j]]

(* An entry written by hand, at any id that has no entry yet. *)
HandAdd(k, n, g) ==
  /\ k \notin DOMAIN pins
  /\ AddPin(k, n, g)
  /\ report' = NoReport
  /\ UNCHANGED <<registry, build, shipped>>

(* "mark the entry "retired": true if the interface has been dropped" *)
Retire(k) ==
  /\ Live(k)
  /\ pins' = [pins EXCEPT ![k].retired = TRUE]
  /\ report' = NoReport
  /\ UNCHANGED <<registry, build, shipped>>

(* "rename drift -- update the pin or the registry" *)
RenamePin(k, n) ==
  /\ Live(k)
  /\ registry[n] = pins[k].guid /\ pins[k].name # n
  /\ pins' = [pins EXCEPT ![k].name = n]
  /\ report' = NoReport
  /\ UNCHANGED <<registry, build, shipped>>

-----------------------------------------------------------------------------
(* tools/npt_allocate_interface_id.py *)

NextIdOfLive == IF LiveIds = {} THEN 1 ELSE Max(LiveIds) + 1

FirstFreeId == Min((0..MaxId + 1) \ DOMAIN pins)

(* Retired entries keep their slot: they count. *)
NextId == Max(DOMAIN pins) + 1

(* The entries the tool stops at: they hold the GUID, or the name and live.*)
Clashes(n, g) ==
  {k \in DOMAIN pins : pins[k].guid = g \/ (Live(k) /\ pins[k].name = n)}

(* The verdict is that of the first such entry, in the order of the file. *)
Verdict(n, g) ==
  LET k == Min(Clashes(n, g))
  IN IF pins[k].guid = g /\ (pins[k].name = n \/ ~Live(k))
     THEN "already" ELSE "error"

Allocate(n, g) ==
  /\ IF Clashes(n, g) # {}
     THEN /\ report' = [result |-> Verdict(n, g), name |-> n, guid |-> g]
          /\ UNCHANGED pins
     ELSE /\ NextId <= MaxId
          /\ AddPin(NextId, n, g)
          /\ report' = [result |-> "allocated", name |-> n, guid |-> g]
  /\ UNCHANGED <<registry, build, shipped>>

-----------------------------------------------------------------------------
(* NptRegistry._load_interface_ids *)

(* No live entry repeats a GUID of an earlier one, or a live name. *)
FileAccepted ==
  /\ \A j, k \in DOMAIN pins :
       j < k /\ pins[j].guid = pins[k].guid => ~Live(k)
  /\ \A j, k \in LiveIds : pins[j].name = pins[k].name => j = k

(* The entry a GUID maps to: a later one replaces an earlier one. *)
PinsOf(g) == {k \in DOMAIN pins : pins[k].guid = g}
IdOf(n) == Max(PinsOf(registry[n]))

PinnedByGuid(n) == PinsOf(registry[n]) # {} /\ Live(IdOf(n))

(* Interface n has a pin, it is not retired, and it carries n's name. *)
Pinned(n) ==
  /\ PinsOf(registry[n]) # {}
  /\ Live(IdOf(n))
  /\ pins[IdOf(n)].name = n

(* Every live pin is of an interface of the registry. *)
NothingDropped == \A k \in LiveIds : \E n \in Name : registry[n] = pins[k].guid

(* The generator runs, and emits code if the loader accepts the file. *)
Build ==
  /\ FileAccepted
  /\ \A n \in Interfaces : Pinned(n)
  /\ NothingDropped
  /\ build' = [n \in Interfaces |-> IdOf(n)]
  /\ shipped' = shipped \cup
                  {[id |-> IdOf(n), guid |-> registry[n]] : n \in Interfaces}
  /\ report' = NoReport
  /\ UNCHANGED <<pins, registry>>

-----------------------------------------------------------------------------
(* The file and the registry start with one interface, at id 1. *)
PinsInit ==
  /\ \E n \in Name, g \in Guid :
       /\ registry = [m \in Name |-> IF m = n THEN g ELSE NoGuid]
       /\ pins = [k \in {1} |-> [guid |-> g, name |-> n, retired |-> FALSE]]
  /\ report = NoReport
  /\ build = [n \in {} |-> 0]
  /\ shipped = {}

PinsNext ==
  \/ \E n \in Name, g \in Guid \cup {NoGuid} : SetInterface(n, g)
  \/ \E k \in 1..MaxId, n \in Name, g \in Guid : HandAdd(k, n, g)
  \/ \E k \in DOMAIN pins : Retire(k)
  \/ \E k \in DOMAIN pins, n \in Name : RenamePin(k, n)
  \/ \E n \in Name, g \in Guid : Allocate(n, g)
  \/ Build

PinsSpec == PinsInit /\ [][PinsNext]_pinsVars

-----------------------------------------------------------------------------
(* Properties *)

Pin == [guid : Guid, name : Name, retired : BOOLEAN]

(* Types.  Id 0 is NPT_OBJECT_TYPE_INVALID and is no interface's id. *)
PinsTypeOK ==
  /\ DOMAIN pins \subseteq 1..MaxId
  /\ \A k \in DOMAIN pins : pins[k] \in Pin
  /\ registry \in [Name -> Guid \cup {NoGuid}]
  /\ shipped \subseteq [id : 1..MaxId, guid : Guid]

(* Two builds never disagree on an id: whatever was retired, renamed,      *)
(* dropped or allocated between them, a guest built from one and a host    *)
(* built from the other route each id to the same interface.               *)
NeverReassigned ==
  \A a, b \in shipped : a.id = b.id <=> a.guid = b.guid

(* One build gives two interfaces different ids, even when the registry    *)
(* gives two names one GUID: the dispatch switch has one case for each.    *)
BuildIsInjective ==
  \A m, n \in DOMAIN build : build[m] = build[n] => m = n

(* npt_registry.py says of an interface whose pin is retired: "allocate a  *)
(* new id via tools/npt_allocate_interface_id.py".  So when the tool has   *)
(* run for an interface of the registry without an error, it is pinned.    *)
AllocatedIsPinned ==
  report.result \in {"already", "allocated"} =>
    (registry[report.name] = report.guid => Pinned(report.name))

=============================================================================
