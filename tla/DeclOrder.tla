----------------------------- MODULE DeclOrder -----------------------------
(***************************************************************************)
(* The order in which the C headers declare the registry's types.          *)
(* gen_headers.py writes the type definitions, npt_protocol.py the types   *)
(* and structs headers with one codec helper per type.  C reads a file     *)
(* once, from the top: a name must be declared before it is used and a     *)
(* struct complete before a value of it is embedded.  Types refer to one   *)
(* another in any order, through pointers in circles, through aliases and  *)
(* through anonymous types that are written out inside their parent.       *)
(*                                                                         *)
(* One action writes one section of a file.  Only the order of the         *)
(* declarations and the names they use are kept, not their text.           *)
(***************************************************************************)
EXTENDS Naturals, FiniteSets, SequencesExt

CONSTANTS
  Order,       \* the names the registry defines, in its order
  Definitions  \* what a name may be defined as

Types == ToSet(Order)

(* A primitive, and a name that the registry does not define. *)
Leaves == {"prim", "unknown"}

Category == {"alias", "struct", "interface", "enum", "function"}

(* For a function, the fields are its parameters.  given: also declared by *)
(* the preamble, or even has its codec helper written by hand.             *)
Field == [type : Types \cup Leaves, ind : 0..1, named : BOOLEAN]
Definition == [cat : Category, target : Types \cup {"prim"},
               manual : BOOLEAN, anonymous : BOOLEAN,
               given : {"no", "preamble", "builtin"}, fields : Seq(Field)]

ASSUME OrderType ==
  /\ Order \in Seq(Types)
  /\ IsInjective(Order)
  /\ Types \cap Leaves = {}

ASSUME DefinitionsType ==
  /\ Definitions \subseteq Definition
  /\ \A d \in Definitions : d.fields # <<>> => d.cat \in {"struct", "function"}

VARIABLES
  registry, \* the resolved registry: name -> definition
  section,  \* the section written next
  header,   \* declarations in the DirectX header
  codecs    \* declarations and definitions in the types and structs headers

declVars == <<registry, section, header, codecs>>

-----------------------------------------------------------------------------
(* One after another *)

(* From a, the steps 1 to n. *)
InTurn(n, step, a) ==
  LET Upto[k \in 0..n] == IF k = 0 THEN a ELSE step[k][Upto[k - 1]]
  IN  Upto[n]

(* The elements of a list of names that are in S. *)
Only(list, S) ==
  InTurn(Len(list),
         [k \in DOMAIN list |-> [kept \in Seq(Types) |->
            IF list[k] \in S THEN Append(kept, list[k]) ELSE kept]],
         <<>>)

(* What start leads to, where t leads to the names in leads[t]. *)
Closure(leads, start) ==
  {u \in Types : \A S \in SUBSET Types :
     start \cap Types \subseteq S /\ (\A t \in S : leads[t] \cap Types \subseteq S)
       => u \in S}

-----------------------------------------------------------------------------
(* Names *)

Is(t, cat) == t \in Types /\ registry[t].cat = cat
IsStruct(t) == Is(t, "struct")
IsAnonymous(t) == t \in Types /\ registry[t].anonymous
IsGiven(t) == registry[t].given # "no"
IsBuiltin(t) == registry[t].given = "builtin"
IsInterfaceAlias(t) == Is(t, "alias") /\ Is(registry[t].target, "interface")

Named(cat) == Only(Order, {t \in Types : Is(t, cat)})
AnonymousTypes == Only(Order, {t \in Types : IsAnonymous(t)})
ManualTypes == Only(Order, {t \in Types : IsStruct(t) /\ registry[t].manual})

FieldSet(t) == ToSet(registry[t].fields)
TypesIn(fields) == {f.type : f \in fields}

(* Fields after the anonymous types among them are written out in place:   *)
(* the header does that with all of them, the codecs with unnamed ones.    *)
InPlace(f) == IsAnonymous(f.type)
CodecInPlace(f) == IsAnonymous(f.type) /\ ~f.named

Inlined(t) ==
  Closure([u \in Types |-> TypesIn({f \in FieldSet(u) : InPlace(f)})], {t})
CodecInlined(t) ==
  Closure([u \in Types |-> TypesIn({f \in FieldSet(u) : CodecInPlace(f)})], {t})

Members(t) == {f \in UNION {FieldSet(u) : u \in Inlined(t)} : ~InPlace(f)}
CodecMembers(t) ==
  {f \in UNION {FieldSet(u) : u \in CodecInlined(t)} : ~CodecInPlace(f)}

-----------------------------------------------------------------------------
(* The walks that order the types *)

Walked == [seen : SUBSET Types, out : Seq(Types)]
Nothing == [seen |-> {}, out |-> <<>>]
AppendTo(a, t) == [a EXCEPT !.out = Append(@, t)]

(* Children(walk, into, names): the names that are in into, walked in turn. *)
Children(walk, into, names, a) ==
  InTurn(Len(names),
         [k \in DOMAIN names |-> [b \in Walked |->
            IF names[k] \in into THEN walk[names[k]][b] ELSE b]],
         a)

(* A name is written after what it leads to, unless it is a silent one. *)
Visit(walk, leads, into, silent, t, a) ==
  IF t \in a.seen THEN a
  ELSE LET b == Children(walk, into, leads[t], [a EXCEPT !.seen = @ \cup {t}])
       IN  IF t \in silent THEN b ELSE AppendTo(b, t)

(* No walk is nested deeper than there are types. *)
DepthFirst(leads, into, silent, roots) ==
  LET Walk[n \in 0..Cardinality(Types)] ==
        [t \in Types |-> [a \in Walked |->
           IF n = 0 THEN a ELSE Visit(Walk[n - 1], leads, into, silent, t, a)]]
  IN  Children(Walk[Cardinality(Types)], into, roots, Nothing).out

FieldTypes == [t \in Types |-> [k \in DOMAIN registry[t].fields |->
                                  registry[t].fields[k].type]]

StructsInOrder == AnonymousTypes \o Named("struct")

(* _collect_struct_deps of gen_headers.py, for all types *)
CollectStructTypes ==
  DepthFirst(FieldTypes, {t \in Types : IsStruct(t)}, {},
             AnonymousTypes \o Named("struct"))

AllFlattened == {t \in Types : IsAnonymous(t)}

(* Anonymous types that only unnamed fields have: their codec is part of   *)
(* their parent's.                                                         *)
Flattened ==
  {t \in Types : /\ IsAnonymous(t)
                 /\ \A u \in Types : \A f \in FieldSet(u) : f.type = t => ~f.named}

(* _collect_struct_deps of npt_protocol.py, for all types *)
CodecTypes ==
  DepthFirst(FieldTypes,
             {t \in Types : IsStruct(t) /\ ~IsBuiltin(t) /\ ~registry[t].manual},
             Flattened,
             Only(AnonymousTypes, Types \ Flattened) \o Named("struct"))

AddInOrder(list) == list

(* add_alias: an alias after its target, if that is an alias too *)
SortAliases(list) ==
  DepthFirst([t \in Types |-> <<registry[t].target>>],
             {t \in Types : Is(t, "alias")}, {}, list)

HeaderAliases ==
  SortAliases(Only(Named("alias"),
                   {t \in Types : ~IsGiven(t) /\ ~IsInterfaceAlias(t)}))
CodecAliases ==
  SortAliases(Only(Named("alias"),
                   {t \in Types : ~IsBuiltin(t) /\ ~IsInterfaceAlias(t)}))

-----------------------------------------------------------------------------
(* A declaration of a name, and what it uses *)

As(what, names) == [k \in DOMAIN names |-> [what |-> what, name |-> names[k]]]

Write(part, next, file) ==
  /\ section' = next
  /\ IF file = "header" THEN header' = header \o part /\ UNCHANGED codecs
                        ELSE codecs' = codecs \o part /\ UNCHANGED header
  /\ UNCHANGED registry

(* Types for which the header declares a struct and gives a body. *)
HeaderStructs ==
  Only(CollectStructTypes, {t \in Types : ~IsAnonymous(t) /\ ~IsGiven(t)})

EmitForwards ==
  /\ section = "forwards"
  /\ Write(As("forward", Only(Named("interface"), {t \in Types : ~IsGiven(t)}))
             \o As("alias", Only(Named("alias"), {t \in Types : IsInterfaceAlias(t)}))
             \o As("forward", HeaderStructs),
           "placeholders", "header")

(* _collect_undefined_types: of fields and parameters only, not the targets *)
(* of aliases nor return types, which are all defined here (Definition).   *)
UndefinedTypes ==
  (UNION {TypesIn(FieldSet(t)) : t \in Types}) \ (Types \cup {"prim"})

EmitPlaceholders ==
  /\ section = "placeholders"
  /\ Write(As("placeholder", SetToSeq(UndefinedTypes)), "enums", "header")

EmitEnums ==
  /\ section = "enums"
  /\ Write(As("body", Named("enum")), "aliases", "header")

EmitAliases ==
  /\ section = "aliases"
  /\ Write(As("alias", HeaderAliases), "bodies", "header")

EmitStructsUnions ==
  /\ section = "bodies"
  /\ Write(As("body", HeaderStructs), "anonymous", "header")

EmitAnonTypedefs ==
  /\ section = "anonymous"
  /\ Write(As("body", AnonymousTypes), "functions", "header")

EmitFunctions ==
  /\ section = "functions"
  /\ Write(As("function", Named("function")), "types.h", "header")

(* types.h: codecs of enumerations, then of aliases, which may call those  *)
(* of structs.                                                             *)
GenerateTypes ==
  /\ section = "types.h"
  /\ Write(As("codec", Named("enum")) \o As("ahead", CodecTypes)
             \o As("codec", CodecAliases),
           "structs.h", "codecs")

(* structs.h, which includes types.h and the hand-written codecs *)
GenerateStructs ==
  /\ section = "structs.h"
  /\ Write(As("ahead", CodecTypes \o ManualTypes) \o As("codec", CodecTypes)
             \o As("manual", ManualTypes),
           "done", "codecs")

-----------------------------------------------------------------------------
(* What C needs *)

Above(file, k) == {file[j] : j \in 1..(k - 1)}
NamesIn(decls) == {d.name : d \in decls}

(* The names a declaration of the header uses, and those by value. *)
Uses(d) == CASE d.what = "alias" -> {registry[d.name].target}
             [] d.what \in {"body", "function"} -> TypesIn(Members(d.name))
             [] OTHER -> {}
Embeds(d) == IF d.what = "body" THEN TypesIn({f \in Members(d.name) : f.ind = 0})
             ELSE {}

Given == {"prim"} \cup {t \in Types : IsGiven(t)}

(* A name stands for the struct at the end of its aliases. *)
Underlying(t) ==
  InTurn(Cardinality(Types),
         [k \in 1..Cardinality(Types) |-> [u \in Types \cup Leaves |->
            IF Is(u, "alias") THEN registry[u].target ELSE u]],
         t)

Incomplete(d, earlier) ==
  {t \in Embeds(d) :
     LET u == Underlying(t)
     IN  /\ IsStruct(u) /\ ~IsGiven(t) /\ ~IsGiven(u)
         /\ [what |-> "body", name |-> u] \notin earlier}

(* The helpers a codec calls.  An object is sent as its id. *)
Calls(d) ==
  CASE d.what # "codec" \/ Is(d.name, "enum") -> {}
    [] d.what = "codec" /\ Is(d.name, "alias") -> {registry[d.name].target}
    [] OTHER -> TypesIn({f \in CodecMembers(d.name) :
                           ~Is(Underlying(f.type), "interface")})

HelpersGiven == {"prim"} \cup {t \in Types : IsBuiltin(t)}

(* Referring(t): the types that t leads to, by value or pointer. *)
Referring(t) ==
  Closure([u \in Types |-> TypesIn(FieldSet(u))], TypesIn(FieldSet(t)))

(* What a type holds by value, and the fields that are of a type. *)
Held(t) == IF Is(t, "alias") THEN {registry[t].target}
           ELSE IF IsStruct(t) THEN TypesIn({f \in FieldSet(t) : f.ind = 0})
           ELSE {}
Holding(t) == Closure([u \in Types |-> Held(u)], Held(t))

FieldsOf(t) ==
  UNION {{<<u, k>> : k \in {i \in DOMAIN FieldTypes[u] : FieldTypes[u][i] = t}}
         : u \in Types}

(* Input that C could declare in some order, and that the converter makes: *)
(* nothing holds itself by value, an inline type is the type of one field. *)
Declarable ==
  /\ \A t \in Types : t \notin Holding(t)
  /\ \A t \in Types : IsAnonymous(t) =>
       /\ IsStruct(t)
       /\ \E u \in Types : \E k \in DOMAIN FieldTypes[u] :
            /\ FieldsOf(t) = {<<u, k>>}
            /\ IsStruct(u) /\ ~IsGiven(u) /\ ~registry[u].manual
            /\ registry[u].fields[k].ind = 0
       /\ \A u \in Types : registry[u].target # t
  /\ \A t \in Types : \A f \in FieldSet(t) :
       /\ ~f.named => IsAnonymous(f.type)
       /\ Is(Underlying(f.type), "interface") => f.ind = 1
       /\ ~Is(f.type, "function")
  /\ \A t \in Types : ~Is(registry[t].target, "function")

DeclInit ==
  /\ registry \in [Types -> Definitions]
  /\ Declarable
  /\ section = "forwards"
  /\ header = <<>>
  /\ codecs = <<>>

DeclNext ==
  \/ EmitForwards \/ EmitPlaceholders \/ EmitEnums \/ EmitAliases
  \/ EmitStructsUnions \/ EmitAnonTypedefs \/ EmitFunctions
  \/ GenerateTypes \/ GenerateStructs

DeclSpec == DeclInit /\ [][DeclNext]_declVars

-----------------------------------------------------------------------------
(* Types of the variables. *)
DeclTypeOK ==
  /\ registry \in [Types -> Definitions]
  /\ ToSet(header) \subseteq [what : {"forward", "alias", "placeholder", "body", "function"},
                              name : Types \cup {"unknown"}]
  /\ ToSet(codecs) \subseteq [what : {"ahead", "codec", "manual"}, name : Types]

(* Every name the DirectX header uses is declared above the use: aliases   *)
(* after their targets, pointers after the forward declarations, unknown   *)
(* types after their placeholders.  No struct, union or enumeration is     *)
(* defined twice, in its parent's walk and in its own, and at the end of   *)
(* the header none is missing.                                             *)
HeaderDeclaresFirst ==
  /\ DeclTypeOK
  /\ \A k \in DOMAIN header :
       Uses(header[k]) \subseteq Given \cup NamesIn(Above(header, k))
  /\ \A j, k \in DOMAIN header :
       header[j].what = "body" /\ header[j] = header[k] => j = k
  /\ section = "types.h" =>
       \A t \in Types :
         (IsStruct(t) /\ ~IsGiven(t)) \/ Is(t, "enum") =>
           [what |-> "body", name |-> t] \in ToSet(header)

(* The struct d.name and the type t it embeds are on a circle: t, or an    *)
(* anonymous type written out inside the body, points back.                *)
OnCircle(d, t) ==
  \/ d.name \in Referring(t)
  \/ \E f \in FieldSet(d.name) : IsAnonymous(f.type) /\ d.name \in Referring(f.type)

(* A struct body embeds only structs whose bodies are above it.  Two kinds *)
(* of field are set aside, for which the code does not see to that: those  *)
(* on a circle, for collect_struct_types walks pointers like values, and   *)
(* those of an alias's type, for it follows references to structs and      *)
(* unions only (see DependenciesFirst).                                    *)
CompleteUnlessCyclic ==
  \A k \in DOMAIN header : \A t \in Incomplete(header[k], Above(header, k)) :
    Is(t, "alias") \/ OnCircle(header[k], t)

(* "Collect all struct and union types, dependencies before dependents"    *)
(* (collect_struct_types): off circles, a struct that is embedded under an *)
(* alias is above, too.                                                    *)
DependenciesFirst ==
  \A k \in DOMAIN header : \A t \in Incomplete(header[k], Above(header, k)) :
    OnCircle(header[k], Underlying(t))

(* A codec helper calls only helpers declared above it, and every helper   *)
(* that is called gets one definition, generated or by hand: anonymous     *)
(* types behind a named field have their own.  Left aside are calls of     *)
(* helpers that nothing declares: for a field of a type the registry does  *)
(* not define, and by an alias to a struct coded by hand or, through       *)
(* another alias, to an interface.  The registry has none of these today.  *)
CodecDeclaresFirst ==
  /\ \A k \in DOMAIN codecs : \A t \in Calls(codecs[k]) :
       \/ t \in HelpersGiven \cup NamesIn(Above(codecs, k))
       \/ t = "unknown"
       \/ Is(codecs[k].name, "alias") /\ (Is(t, "interface") \/ registry[t].manual)
  /\ section = "done" =>
       LET defining == {k \in DOMAIN codecs : codecs[k].what # "ahead"}
           called == UNION {Calls(codecs[k]) : k \in {i \in DOMAIN codecs :
                              ~Is(codecs[i].name, "alias")}}
       IN  /\ \A j, k \in defining : codecs[j].name = codecs[k].name => j = k
           /\ (NamesIn(ToSet(codecs)) \cup (called \ (HelpersGiven \cup {"unknown"})))
                \subseteq {codecs[k].name : k \in defining}
=============================================================================
