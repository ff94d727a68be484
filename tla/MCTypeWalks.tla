---------------------------- MODULE MCTypeWalks ----------------------------
(* Registries of three names: each an alias, an enumeration, an interface, *)
(* a hand-written codec or a struct of at most two fields.                 *)
EXTENDS TypeWalks, TLC

F(type, ind, count) == [type |-> type, ind |-> ind, count |-> count,
                        handle |-> FALSE, bits |-> FALSE, named |-> TRUE]

Scalar == F("prim", 0, "none")
Chars == F("char", 1, "none")
Handle == [F("void", 1, "none") EXCEPT !.handle = TRUE]
Handles == [F("void", 2, "runtime") EXCEPT !.handle = TRUE]
Value(t) == F(t, 0, "none")
Pointer(t) == F(t, 1, "none")
Inline(t) == [F(t, 0, "none") EXCEPT !.named = FALSE]

Def(cat, fields) == [cat |-> cat, target |-> "prim", manual |-> FALSE,
                     anonymous |-> FALSE, fields |-> fields]

Alias(t) == [Def("alias", <<>>) EXCEPT !.target = t]
Struct(fields) == Def("struct", fields)
Anonymous(fields) == [Struct(fields) EXCEPT !.anonymous = TRUE]

Others == {Def("enum", <<>>), Def("interface", <<>>),
           [Struct(<<>>) EXCEPT !.manual = TRUE]}

Ends == {Scalar, Chars, Handle}

(* Structs by what the dynamic-size walk tells apart. *)
Walked ==
  {Struct(<<e>>) : e \in Ends \cup {F("void", 1, "runtime")}}
  \cup {Struct(<<e, l>>) : e \in {Scalar}, l \in UNION {
          {Value(t), Pointer(t), F(t, 0, "fixed")} : t \in Types}}
  \cup {Struct(<<Pointer(t), Pointer(u)>>) : t, u \in Types}
  \cup {Struct(<<Inline(t), Handle>>) : t \in Types}
  \cup {Anonymous(<<e, Pointer(t)>>) : e \in {Scalar, Chars}, t \in Types}

WalkDefinitions == Others \cup Walked \cup {Alias(t) : t \in Types \cup {"char"}}

(* Structs by what the replace pass tells apart, no aliases. *)
ReplaceDefinitions ==
  Others \cup {Struct(<<e>>) : e \in Ends \cup {Handles}}
  \cup {Struct(<<Scalar, l>>) : l \in UNION {
          {Value(t), Pointer(t), F(t, 1, "runtime"), F(t, 2, "runtime")} : t \in Types}}
  \cup {Struct(<<Pointer(t), Pointer(u)>>) : t, u \in Types}
  \cup {Struct(<<Inline(t), Handle>>) : t \in Types}
  \cup {Anonymous(<<Scalar, Pointer(t)>>) : t \in Types}

MCVocabularies == {WalkDefinitions, ReplaceDefinitions}

SomeReplies ==
  {[ret |-> t, outs |-> <<>>] : t \in Types}
  \cup {[ret |-> "prim", outs |-> <<Handles, Pointer(t)>>] : t \in Types}

Names == Permutations(Types)
=============================================================================
