-------------------------- MODULE InterfaceChain --------------------------
(***************************************************************************)
(* How the registry turns the interfaces' parent names into vtable slots   *)
(* and families, and what is generated from them.  The host calls method m *)
(* of a Direct3D object at slot NPT_VTBL_m; the guest lays out one vtable  *)
(* per family, as wide as its last tier, which every tier's wrapper        *)
(* carries; QueryInterface on the guest and the upcast walk on the host    *)
(* decide separately which interfaces an object answers for; the build     *)
(* system learns the generated files from another program.                 *)
(***************************************************************************)
EXTENDS Naturals, FiniteSets, SequencesExt

CONSTANTS Names,       \* the interfaces of the registry's JSON
          Registries,  \* the registries considered
          Stem         \* name |-> the name without its version number

VARIABLES reg,     \* parent name, number of own methods and uuid of each
          order,   \* the registry's order
          done,    \* how many of them the loop has resolved
          parent, base, total, family

vars == <<reg, order, done, parent, base, total, family>>

All == Names \cup {"IUnknown"}

ASSUME NamesType == IsFiniteSet(Names) /\ Names \cap {"IUnknown", "none"} = {}

\* A parent is an interface of the registry, as it is for all that
\* npt_registry.json has (the loader warns of any other); IUnknown has none.
ASSUME RegistriesType ==
  \A r \in Registries :
    /\ \A i \in Names : r.parent[i] \in All
    /\ r.parent["IUnknown"] = "none"
    /\ r.methods \in [All -> Nat]
    /\ r.uuid \in [Names -> BOOLEAN]

\* A chain of parents ends.
ASSUME ParentsEnd ==
  \A r \in Registries : \A S \in SUBSET Names :
    S # {} => \E i \in S : r.parent[i] \notin S

---------------------------------------------------------------------------
(* The registry.                                                             *)

\* A wrong form: the parents are left to their own turn.
UnresolvedAlone == [i \in All |-> IF total[i] > 0 THEN {} ELSE {i}]

\* An interface whose count is positive is taken for resolved.
Unresolved ==
  LET f[i \in All] ==
        IF total[i] > 0 THEN {}
        ELSE {i} \cup (IF reg.parent[i] \in All THEN f[reg.parent[i]] ELSE {})
  IN f

\* The first slot of an interface's own methods.  Without a parent among the
\* interfaces it stays 0.
Base ==
  LET f[i \in All] ==
        IF total[i] > 0 THEN base[i]
        ELSE IF reg.parent[i] \notin All THEN 0
        ELSE LET p == reg.parent[i]
             IN IF total[p] > 0 THEN total[p] ELSE f[p] + reg.methods[p]
  IN f

\* The versions of an interface, up to the parent of another name.
Family(up) ==
  LET f[i \in All] ==
        IF up[i] \in Names /\ Stem[up[i]] = Stem[i] THEN f[up[i]] ELSE i
  IN f

ResolveInterfaceChain(i) ==
  LET new == Unresolved[i]
      up == [j \in All |-> IF j \in new /\ reg.parent[j] \in All
                           THEN reg.parent[j] ELSE parent[j]]
  IN /\ parent' = up
     /\ base' = [j \in All |-> IF j \in new THEN Base[j] ELSE base[j]]
     /\ total' = [j \in All |-> IF j \in new THEN Base[j] + reg.methods[j] ELSE total[j]]
     /\ family' = [j \in All |-> IF j \in new THEN Family(up)[j] ELSE family[j]]

Resolve ==
  /\ done < Len(order)
  /\ ResolveInterfaceChain(order[done + 1])
  /\ done' = done + 1
  /\ UNCHANGED <<reg, order>>

\* IUnknown is built in, after the JSON's types, with the runtime's 3 slots.
Init ==
  /\ reg \in Registries
  /\ order \in {Append(s, "IUnknown") : s \in SetToSeqs(Names)}
  /\ done = 0
  /\ parent = [i \in All |-> "none"] /\ family = [i \in All |-> "none"]
  /\ base = [i \in All |-> 0]
  /\ total = [i \in All |-> IF i = "IUnknown" THEN 3 ELSE 0]

Next == Resolve
Spec == Init /\ [][Next]_vars

Resolved == done = Len(order)

---------------------------------------------------------------------------
(* What the generators make of it.                                           *)

ParentChain ==
  LET f[i \in All] ==
        IF parent[i] \in Names THEN Append(f[parent[i]], parent[i]) ELSE <<>>
  IN f

OwnMethods(i) == [k \in 1 .. reg.methods[i] |-> <<i, k>>]
VtableIndex(m) == base[m[1]] + m[2] - 1

\* The client vtable of one tier, from slot 3 on.
IterVtableMethods(i) ==
  FlattenSeq([k \in DOMAIN ParentChain[i] |-> OwnMethods(ParentChain[i][k])])
    \o OwnMethods(i)

ParentIidChainNames(i) ==
  {"IUnknown", i} \cup Range(ParentChain[i])

GroupInterfaces(f) == {i \in Names : family[i] = f}
Families == {family[i] : i \in Names}
WithUuid(f) == {i \in GroupInterfaces(f) : reg.uuid[i]}

\* By width; Python's sort keeps the registry's order among equals.
Place(i) == CHOOSE k \in DOMAIN order : order[k] = i
Before(i, j) == total[i] < total[j] \/ (total[i] = total[j] /\ Place(i) < Place(j))
FamilyTiers(f) ==
  CHOOSE s \in SetToSeqs(WithUuid(f)) :
    \A k, l \in DOMAIN s : k < l => Before(s[k], s[l])

\* A wrong form: the check of the chain left out.
TiersUnchecked(f) == TRUE

\* Not a chain: the generator raises.
TiersAccepted(f) ==
  \A k \in 1 .. Len(FamilyTiers(f)) - 1 :
    parent[FamilyTiers(f)[k + 1]] = FamilyTiers(f)[k]

Generates == \A f \in Families : TiersAccepted(f)

\* The interfaces the guest's QueryInterface answers on a wrapper of tier i.
AncestorNames(f) ==
  IF FamilyTiers(f) = <<>> THEN {}
  ELSE ParentIidChainNames(FamilyTiers(f)[1]) \ {FamilyTiers(f)[1]}
UpToTier(i) ==
  LET tiers == FamilyTiers(family[i])
  IN {tiers[k] : k \in 1 .. CHOOSE n \in DOMAIN tiers : tiers[n] = i}

\* A wrong form: every wrapper answers for the whole family.
AnswersWholeFamily(i) == AncestorNames(family[i]) \cup Range(FamilyTiers(family[i]))

QueryAnswers(i) == AncestorNames(family[i]) \cup UpToTier(i)

\* npt_object_type_parent: the host's upcast walk from one object type.
ParentInterfaceName(i) == IF parent[i] \in Names THEN parent[i] ELSE "none"
Upcasts ==
  LET f[i \in Names] ==
        {i} \cup (IF ParentInterfaceName(i) = "none" THEN {}
                  ELSE f[ParentInterfaceName(i)])
  IN f

\* The families list_families prints, and the files meson.build expects of each.
ListFamilies == {family[i] : i \in Names}
ExpectedFiles == {"host", "guest", "client"} \X ListFamilies

\* The command headers of all families; no client files for a family without
\* a uuid.
GenerateCommands == {"host", "guest"} \X Families
GenerateClient == {"client"} \X {f \in Families : WithUuid(f) # {}}

---------------------------------------------------------------------------
(* Properties.                                                               *)

TypeOK ==
  /\ Range(order) = All
  /\ done \in 0 .. Len(order)
  /\ parent \in [All -> All \cup {"none"}]
  /\ base \in [All -> Nat] /\ total \in [All -> Nat]
  /\ \A k \in 1 .. done : order[k] \in Names => family[order[k]] \in Names

\* The slot the host calls a method at is its place in every client vtable
\* that has it (iter_vtable_methods: "Slot 3 onward maps to: parent[0].methods,
\* parent[1].methods, ..., self.methods"), in whatever order the registry lists
\* the interfaces: one resolved early, as somebody's ancestor, gets what its
\* own turn would give.
SlotsAgree ==
  /\ TypeOK
  /\ Resolved => \A i \in Names :
       /\ \A k \in DOMAIN IterVtableMethods(i) : VtableIndex(IterVtableMethods(i)[k]) = 2 + k
       /\ total[i] = Len(IterVtableMethods(i)) + 3
       /\ IF reg.parent[i] \in Names /\ Stem[reg.parent[i]] = Stem[i]
          THEN family[i] = family[reg.parent[i]]
          ELSE family[i] = i

\* One vtable serves a family: each tier's layout is the beginning of the
\* widest one's, which all wrappers of the family carry.
OneVtableServesTheFamily ==
  Resolved /\ Generates => \A f \in Families : \A i \in Range(FamilyTiers(f)) :
    IsPrefix(IterVtableMethods(i), IterVtableMethods(Last(FamilyTiers(f))))

\* What a guest wrapper answers QueryInterface for is what the host accepts
\* its id as: the family's tables and the upcast table give the same answers.
QueriesMatchUpcasts ==
  Resolved /\ Generates => \A i \in Names :
    reg.uuid[i] => QueryAnswers(i) = Upcasts[i] \cup {"IUnknown"}

\* Of the files the build expects only client files may be missing, and only
\* those of a family named after an interface that has no uuid (which breaks
\* the build).  So a family is never a name that its namesake has left,
\* in whatever order the interfaces were resolved.
FilesAsListed ==
  Resolved => \A file \in ExpectedFiles \ (GenerateCommands \cup GenerateClient) :
    file[1] = "client" /\ ~reg.uuid[file[2]]

=============================================================================
