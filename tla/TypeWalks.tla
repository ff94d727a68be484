----------------------------- MODULE TypeWalks -----------------------------
(***************************************************************************)
(* The generator's recursive walks over the registry's types: may a value  *)
(* grow past sizeof (TypeRegistry.is_dynamic_wire_size, memoized over the  *)
(* whole run), does a type hold object ids (Gen._type_might_contain_handle)*)
(* and which of them the host's replace pass turns into pointers           *)
(* (Gen.replace_handle_field).                                             *)
(*                                                                         *)
(* A type may contain a pointer to itself, so every walk must stop on a    *)
(* cycle, and the first one also answers from what it stored on the way of *)
(* earlier walks.  Whether that changes an answer depends on the order in  *)
(* which templates ask, which no test varies.                              *)
(***************************************************************************)
EXTENDS Naturals, FiniteSets, SequencesExt

CONSTANTS
  Types,       \* the names the registry defines
  Vocabularies,\* sets of definitions, one of which a registry is made of
  Replies,     \* the replies a template may ask about
  Absent       \* no answer stored

(* Names without an entry: a primitive, CHAR/WCHAR, void/VOID. *)
Leaves == {"prim", "char", "void"}

Category == {"alias", "struct", "interface", "enum"}

Field == [type : Types \cup Leaves, ind : 0..2,
          count : {"none", "fixed", "runtime"},
          handle : BOOLEAN, bits : BOOLEAN, named : BOOLEAN]

Definition == [cat : Category, target : Types \cup Leaves, manual : BOOLEAN,
               anonymous : BOOLEAN, fields : Seq(Field)]

Reply == [ret : Types \cup Leaves, outs : Seq(Field)]

Definitions == UNION Vocabularies

ASSUME NamesType == /\ IsFiniteSet(Types)
                    /\ Types \cap Leaves = {}

ASSUME DefinitionsType == /\ Definitions \subseteq Definition
                          /\ Replies \subseteq Reply
                          /\ Absent \notin BOOLEAN

VARIABLES
  reg,   \* the resolved registry: name -> definition
  memo,  \* _dynamic_wire_size_cache
  asked  \* the last question and the answer given

vars == <<reg, memo, asked>>

-----------------------------------------------------------------------------
(* Names and fields *)

Is(t, cat) == t \in Types /\ reg[t].cat = cat

(* A field whose type_ref is a struct or union (an alias to one is not). *)
IsStruct(f) == Is(f.type, "struct")

(* Fields(t): the fields of t, none for anything but a struct or union. *)
Fields(t) == IF Is(t, "struct") THEN reg[t].fields ELSE <<>>

(* Aliases are followed until something else, or a name seen before. *)
ResolveAliasChain(t) ==
  LET Follow[n \in 0..Cardinality(Types)] ==
        IF n = 0 THEN t
        ELSE LET u == Follow[n - 1]
             IN  IF Is(u, "alias") THEN reg[u].target ELSE u
  IN  Follow[Cardinality(Types)]

IsStringType(f) ==
  /\ f.ind = 1 /\ f.count = "none"
  /\ \/ f.type = "char"
     \/ Is(f.type, "alias") /\ reg[f.type].target = "char"

IsBlob(f) == f.type = "void" /\ f.ind = 1 /\ f.count # "none"

IsNonSerializable(f) ==
  f.type = "void" /\ ~f.handle /\ ~(f.ind >= 1 /\ f.count # "none")

IsInline(f) == ~f.named /\ IsStruct(f) /\ reg[f.type].anonymous

-----------------------------------------------------------------------------
(* Walks: each call answers yes or no, and hands on what it knows by then  *)
(* (the memo, the visited types).                                          *)

Answer(b, s) == [yes |-> b, known |-> s]

(* any() over n things, of which test[k][s] asks the k-th: the ones after  *)
(* the first yes are not looked at.                                        *)
AnyOf(n, test, s) ==
  LET Upto[k \in 0..n] ==
        IF k = 0 THEN Answer(FALSE, s)
        ELSE LET a == Upto[k - 1] IN IF a.yes THEN a ELSE test[k][a.known]
  IN  Upto[n]

-----------------------------------------------------------------------------
(* is_dynamic_wire_size *)

Memo == [Types -> BOOLEAN \cup {Absent}]

(* A call for a type, or for the fields of a struct; visited is the chain  *)
(* of structs being walked.                                                *)
Calls == [of : {"type", "fields"}, type : Types \cup Leaves,
          visited : SUBSET Types, memo : Memo]

Call(of, t, visited, m) == [of |-> of, type |-> t, visited |-> visited, memo |-> m]

(* A type met again on the chain of structs being walked. *)
MetAgainBounded(m) == Answer(FALSE, m)
MetAgain(m) == Answer(TRUE, m)

(* walk answers the calls this one makes. *)
FieldMakesDynamic(walk, f, visited, m) ==
  CASE f.bits \/ f.handle -> Answer(FALSE, m)
    [] \/ ~f.bits /\ ~f.handle /\ IsStringType(f)
       \/ ~f.bits /\ ~f.handle /\ IsBlob(f)
       \/ ~f.bits /\ IsNonSerializable(f) -> Answer(TRUE, m)
    [] OTHER ->
       IF f.ind = 0
       THEN walk[Call(IF IsInline(f) THEN "fields" ELSE "type", f.type, visited, m)]
       ELSE IF Is(f.type, "interface") THEN Answer(FALSE, m)
       ELSE IF f.count = "fixed" \/ (f.count = "none" /\ f.ind = 1)
            THEN walk[Call("type", f.type, visited, m)]
            ELSE Answer(TRUE, m)

AnyDynamic(walk, t, visited, m) ==
  AnyOf(Len(Fields(t)),
        [k \in DOMAIN Fields(t) |->
           [s \in Memo |-> FieldMakesDynamic(walk, Fields(t)[k], visited, s)]], m)

(* The answer for a type met again on the chain is not stored. *)
WalkType(walk, t, visited, m) ==
  IF t \in Leaves THEN Answer(FALSE, m)
  ELSE IF t \in visited THEN MetAgain(m)
  ELSE IF m[t] # Absent THEN Answer(m[t], m)
  ELSE LET a == CASE reg[t].cat = "alias" ->
                       walk[Call("type", reg[t].target, visited, m)]
                  [] reg[t].cat = "struct" /\ reg[t].manual -> Answer(TRUE, m)
                  [] reg[t].cat = "struct" /\ ~reg[t].manual ->
                       AnyDynamic(walk, t, visited \cup {t}, m)
                  [] OTHER -> Answer(FALSE, m)
       IN  Answer(a.yes, [a.known EXCEPT ![t] = a.yes])

(* More frames than a walk ever has on the stack: it goes into a struct it *)
(* is not in yet, and between two of them through aliases and inline types.*)
Frames == (Cardinality(Types) + 1) * (2 * Cardinality(Types) + 2)

(* The calls answered within n frames. *)
Walk[n \in 0..Frames] ==
  [c \in Calls |->
     IF n = 0 THEN Answer(FALSE, c.memo)
     ELSE IF c.of = "fields"
          THEN AnyDynamic(Walk[n - 1], c.type, c.visited, c.memo)
          ELSE WalkType(Walk[n - 1], c.type, c.visited, c.memo)]

IsDynamicWireSize(t, m) == Walk[Frames][Call("type", t, {}, m)]

IsScalarReturn(t) ==
  t # "void" /\ (Is(t, "enum") \/ ResolveAliasChain(t) = "prim")

(* The outputs at the places checked are asked. *)
AnyOutput(checked, outs, m) ==
  AnyOf(Len(outs),
        [k \in DOMAIN outs |->
           [s \in Memo |-> IF k \in checked THEN IsDynamicWireSize(outs[k].type, s)
                           ELSE Answer(FALSE, s)]], m)

ReplyByOutputs(r, m) == AnyOutput(DOMAIN r.outs, r.outs, m)

(* Objects, blobs and strings have a size of their own. *)
Checked(outs) ==
  {k \in DOMAIN outs : /\ ~outs[k].handle
                       /\ ~IsBlob(outs[k]) /\ ~IsStringType(outs[k])}

(* method_reply_is_unsupported: the return type first, then the outputs,   *)
(* until one is dynamic.                                                   *)
MethodReplyIsUnsupported(r, m) ==
  LET ret == IF r.ret = "void" \/ IsScalarReturn(r.ret) THEN Answer(FALSE, m)
             ELSE IsDynamicWireSize(r.ret, m)
  IN  IF ret.yes THEN ret
      ELSE AnyOutput(Checked(r.outs), r.outs, ret.known)

-----------------------------------------------------------------------------
(* _type_might_contain_handle and the replace pass *)

HoldsHandle(walk, f, visited) ==
  IF f.handle \/ Is(f.type, "interface") THEN Answer(TRUE, visited)
  ELSE IF IsStruct(f) THEN walk[f.type][visited]
  ELSE Answer(FALSE, visited)

(* The visited set is shared by the whole walk, which never has more       *)
(* frames than there are types; a type met again adds nothing.  Aliases    *)
(* are not followed.                                                       *)
HandleWalk[n \in 0..Cardinality(Types) + 1] ==
  [t \in Types |-> [visited \in SUBSET Types |->
     IF n = 0 THEN Answer(FALSE, visited)
     ELSE IF reg[t].manual THEN Answer(TRUE, visited)
     ELSE IF t \in visited THEN Answer(FALSE, visited)
     ELSE AnyOf(Len(Fields(t)),
                [k \in DOMAIN Fields(t) |->
                   [s \in SUBSET Types |->
                      HoldsHandle(HandleWalk[n - 1], Fields(t)[k], s)]],
                visited \cup {t})]]

TypeMightContainHandle(t) == HandleWalk[Cardinality(Types) + 1][t][{}].yes

Elements(f) == IF f.count = "none" THEN {"first"} ELSE {"first", "rest"}

ReplaceOne(f) ==
  IF f.handle \/ Is(f.type, "interface") \/ IsStruct(f) THEN {"first"} ELSE {}

(* Which elements of the field the host's generated pass visits, by its    *)
(* branches in order: the ids, then structs by value, behind a pointer, in *)
(* an array, in an array of pointers.  The branch for an embedded array    *)
(* comes after the one for a value and is never taken.                     *)
ReplaceHandleField(f) ==
  LET reaches == IsInline(f) \/ (IsStruct(f) /\ TypeMightContainHandle(f.type))
  IN  CASE f.handle -> IF f.ind = 2 THEN Elements(f) ELSE {"first"}
        [] ~f.handle /\ f.ind >= 1 /\ Is(f.type, "interface") -> {"first"}
        [] ~f.handle /\ f.ind = 0 /\ reaches -> {"first"}
        [] ~f.handle /\ f.ind >= 1 /\ reaches ->
             IF f.ind = 1 \/ f.count # "none" THEN Elements(f) ELSE {}
        [] OTHER -> {}

-----------------------------------------------------------------------------
(* Reference definitions: graphs over the names, with an edge <<t, u>>     *)
(* where t leads to u.  Leading: the names some path leads from into       *)
(* targets.                                                                *)

Leading(edges, targets) ==
  LET Within[n \in 0..Cardinality(Types)] ==
        IF n = 0 THEN targets
        ELSE LET s == Within[n - 1]
             IN  s \cup {t \in Types : \E u \in s : <<t, u>> \in edges}
  IN  Within[Cardinality(Types)]

OnCycle(edges) ==
  {t \in Types : \E u \in Types : <<t, u>> \in edges /\ u \in Leading(edges, {t})}

FieldSet(t) == {Fields(t)[k] : k \in DOMAIN Fields(t)}

(* A field that itself has no bound, and one as large as what it leads to. *)
Unbounded(f) ==
  /\ ~f.bits /\ ~f.handle
  /\ \/ f.type = "void" \/ IsStringType(f)
     \/ f.ind >= 1 /\ ~Is(f.type, "interface") /\ f.count = "runtime"
     \/ f.ind = 2 /\ ~Is(f.type, "interface") /\ f.count = "none"

Encloses(f) == ~f.bits /\ ~f.handle /\ ~(f.ind >= 1 /\ Is(f.type, "interface"))

Enclosed(t) ==
  {u \in Types : \/ Is(t, "alias") /\ reg[t].target = u
                 \/ \E f \in FieldSet(t) : f.type = u /\ Encloses(f)}

Enclosing == {e \in Types \X Types : e[2] \in Enclosed(e[1])}

HeldByValue(t) ==
  {u \in Types : \/ Is(t, "alias") /\ reg[t].target = u
                 \/ \E f \in FieldSet(t) : f.type = u /\ f.ind = 0}

ByValue == {e \in Types \X Types : e[2] \in HeldByValue(e[1])}

(* A value of t may be of any size: it leads to a type with an unbounded   *)
(* field or a hand-written codec, or to one that leads back to itself.     *)
Dynamic ==
  Leading(Enclosing,
          OnCycle(Enclosing) \cup {t \in Types :
            reg[t].manual \/ \E f \in FieldSet(t) : Unbounded(f)})

(* A value of t holds object ids, its own or those of what it leads to.    *)
Referred(t) ==
  {u \in Types : \/ Is(t, "alias") /\ reg[t].target = u
                 \/ \E f \in FieldSet(t) : f.type = u}

Referring == {e \in Types \X Types : e[2] \in Referred(e[1])}

HoldsIds ==
  Leading(Referring,
          {t \in Types : \/ reg[t].manual
                         \/ Is(t, "interface")
                         \/ \E f \in FieldSet(t) : f.handle})

(* What C lets a header declare and _validate_fields lets through: nothing *)
(* holds itself by value, an interface that is no handle is behind one     *)
(* pointer, void ** are handles, an inline type is the type of unnamed     *)
(* fields only, and a codec is written by hand for named structs only.     *)
Declarable ==
  /\ OnCycle(ByValue) = {}
  /\ \A t \in Types : \A f \in FieldSet(t) :
       /\ Is(f.type, "interface") /\ ~f.handle => f.ind = 1 /\ f.count = "none"
       /\ f.type = "void" /\ f.ind = 2 => f.handle
  /\ \A t \in Types : reg[t].anonymous =>
       /\ Is(t, "struct") /\ ~reg[t].manual
       /\ \A u \in Types : ~(Is(u, "alias") /\ reg[u].target = t)
       /\ \A u \in Types : \A f \in FieldSet(u) :
            f.type = t => f.ind = 0 /\ ~f.named /\ f.count = "none"
  /\ \A t \in Types : \A f \in FieldSet(t) : ~f.named => IsInline(f)
  /\ \A t \in Types : reg[t].manual => Is(t, "struct")

-----------------------------------------------------------------------------
Init ==
  /\ \E D \in Vocabularies : reg \in [Types -> D]
  /\ Declarable
  /\ memo = [t \in Types |-> Absent]
  /\ asked = <<"nothing">>

(* Templates and passes ask, in whatever order they are rendered. *)
AskType(t) ==
  LET r == IsDynamicWireSize(t, memo)
  IN  /\ memo' = r.known
      /\ asked' = <<"type", t, r.yes>>
      /\ UNCHANGED reg

AskReply(r) ==
  LET v == MethodReplyIsUnsupported(r, memo)
  IN  /\ memo' = v.known
      /\ asked' = <<"reply", r, v.yes>>
      /\ UNCHANGED reg

Next == \/ \E t \in Types : AskType(t)
        \/ \E r \in Replies : AskReply(r)

Spec == Init /\ [][Next]_vars

-----------------------------------------------------------------------------
(* Types of the variables. *)
TypeOK ==
  /\ reg \in [Types -> Definitions]
  /\ memo \in Memo

(* Every answer given to a template, and every one stored during a walk,   *)
(* even inside a cycle whose head is still being walked, is the type's     *)
(* own: the cache and the cut at visited types do not make                 *)
(* is_dynamic_wire_size depend on what was asked before.  A wrong          *)
(* "bounded" reserves a reply slot the host overruns.                      *)
AnswersRight ==
  /\ TypeOK
  /\ LET dynamic == Dynamic
     IN  /\ \A t \in Types : memo[t] # Absent => memo[t] = (t \in dynamic)
         /\ asked[1] = "type" => asked[3] = (asked[2] \in dynamic)

(* A reply is refused exactly when a return value in it, or an output      *)
(* besides objects, blobs and strings, is of a type without a bound; the   *)
(* answer for one method does not depend on the methods rendered before.   *)
RepliesRight ==
  asked[1] = "reply" =>
    LET r == asked[2]
        named == {r.ret} \cup {r.outs[k].type : k \in Checked(r.outs)}
    IN  asked[3] = (named \cap Dynamic # {})

(* The walk that decides whether a replace function is generated for a     *)
(* struct finds the ids in it however deep, through self-referential       *)
(* types too.                                                              *)
HandleWalkFinds(holders) ==
  \A t \in Types : Is(t, "struct") => TypeMightContainHandle(t) = (t \in holders)

(* Shapes no field of the registry has and the pass would not visit: ids   *)
(* behind an alias of a struct, an embedded array of structs that hold ids *)
(* (the branch for it is never reached), a pointer to a pointer to one,    *)
(* and an array of handles that is not behind two pointers.                *)
Usual(holders) ==
  \A t \in Types :
    /\ Is(t, "alias") => reg[t].target \notin holders
    /\ \A f \in FieldSet(t) :
         /\ f.ind = 0 /\ f.count # "none" => f.type \notin holders
         /\ f.ind = 2 /\ f.count = "none" => f.type \notin holders
         /\ f.handle /\ f.count # "none" => f.ind = 2

(* No object id reaches the backend untranslated: the walk finds every     *)
(* struct with ids, and the replace pass of it visits every element of     *)
(* every field that holds some.                                            *)
EveryIdReplaced ==
  LET holders == HoldsIds
  IN  Usual(holders) =>
        /\ HandleWalkFinds(holders)
        /\ \A t \in Types : \A f \in FieldSet(t) :
             (f.handle \/ f.type \in holders) => ReplaceHandleField(f) = Elements(f)
=============================================================================
