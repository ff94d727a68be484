-------------------------- MODULE MCOutputObjects --------------------------
EXTENDS OutputObjects

\* The shapes of parameter the registry's methods with outputs have.
P(type, com, input, output, ind) ==
  [type |-> type, com |-> com, input |-> input, output |-> output, ind |-> ind,
   count |-> 0]
Object == P("I", TRUE, FALSE, TRUE, 2)         \* T **
Void == P("void", TRUE, FALSE, TRUE, 2)        \* void **
Riid == P("IID", FALSE, TRUE, FALSE, 1)        \* REFIID
Plain == P("UINT", FALSE, TRUE, FALSE, 0)      \* UINT
Value == P("UINT", FALSE, FALSE, TRUE, 1)      \* UINT *
InOut == P("UINT", FALSE, TRUE, TRUE, 1)       \* UINT * read and written
CountedBy(c) == [Object EXCEPT !.count = c]

Named == <<Riid, Void>>
Lists ==
  { <<Object>>, Named, <<Plain, Object>>, <<Object, Value>>, <<Object, Object>>,
    <<Plain>> \o Named, Named \o Named, Named \o <<Object>>, <<Object>> \o Named,
    <<Plain, CountedBy(1)>>, <<Object, CountedBy(3), InOut>>,
    <<Plain, CountedBy(1), Object>>, <<InOut, CountedBy(1)>>, <<Plain>>, <<Value>> }
StrayLists == { <<Riid>> \o Named }

MethodsOf(lists) ==
  { m \in [params : lists, create : BOOLEAN, fresh : BOOLEAN, function : BOOLEAN,
           canonical : {"none", "true", "false", "memo"}, staged : BOOLEAN,
           forceSync : BOOLEAN, ret : {"void", "HRESULT", "UINT"}] :
      /\ m.staged => ~m.function /\ ~m.forceSync /\ m.canonical = "none"
      /\ m.forceSync => m.ret = "HRESULT" /\ m.canonical = "none" }
MCMethods == MethodsOf(Lists)
MCStrayMethods == {m \in MethodsOf(StrayLists) : m.canonical # "memo"}
=============================================================================
