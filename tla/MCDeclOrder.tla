---------------------------- MODULE MCDeclOrder ----------------------------
(* Registries of three names in a fixed order, all definitions of each:    *)
(* the fixed order loses nothing.                                          *)
EXTENDS DeclOrder

CONSTANTS A, B, C
Names == <<A, B, C>>

Value(t) == [type |-> t, ind |-> 0, named |-> TRUE]
Pointer(t) == [type |-> t, ind |-> 1, named |-> TRUE]
Inline(t) == [type |-> t, ind |-> 0, named |-> FALSE]

Def(cat, fields) == [cat |-> cat, target |-> "prim", manual |-> FALSE,
                     anonymous |-> FALSE, given |-> "no", fields |-> fields]
Alias(t) == [Def("alias", <<>>) EXCEPT !.target = t]
Struct(fields) == Def("struct", fields)
Anonymous(fields) == [Struct(fields) EXCEPT !.anonymous = TRUE]
Given1(g, def) == [def EXCEPT !.given = g]

T == {A, B, C}
Others ==
  {Def("enum", <<>>), Def("interface", <<>>), Alias("prim"),
   Struct(<<Value("unknown")>>),
   [Struct(<<Value("prim")>>) EXCEPT !.manual = TRUE]}
Givens ==
  {Given1(g, def) : g \in {"preamble", "builtin"},
                    def \in {Struct(<<Value("prim")>>), Alias("prim")}}
Pairs(S) ==
  S \cup {Struct(<<f, g>>) : f \in {Value(t) : t \in T}, g \in {Pointer(t) : t \in T}}

AllDefinitions ==
  Others \cup Givens
  \cup {Alias(t) : t \in T}
  \cup Pairs({Struct(<<f>>) : f \in UNION {{Value(t), Pointer(t), Inline(t)} : t \in T}})
  \cup {Struct(<<Pointer(t), Value(u)>>) : t, u \in T}
  \cup {Anonymous(<<Value(t), Pointer(u)>>) : t, u \in T}
  \cup {Anonymous(<<Pointer(u)>>) : u \in T}
  \cup {Def("function", <<Value(t)>>) : t \in T \cup {"unknown"}}
=============================================================================
