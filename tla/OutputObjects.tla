--------------------------- MODULE OutputObjects ---------------------------
(***************************************************************************)
(* The objects one method returns, from the registry to the caller.  The   *)
(* registry resolves the method's `canonical` annotation and refuses a     *)
(* wrong one; the generators decide whether the thunk waits, which REFIID  *)
(* types each `void **` output and in which order the reply's object refs  *)
(* come; the thunk mints an id per slot, the host registers what the call  *)
(* put in the slot, and the thunk wraps it.  The same decisions are taken  *)
(* in four places, each from the parameter list alone: a parameter list on *)
(* which two of them differ hands the caller another slot's object, or an  *)
(* object of another interface.                                            *)
(***************************************************************************)
EXTENDS Naturals, FiniteSets, SequencesExt

CONSTANTS Methods,   \* the methods considered
          Interfaces,\* the interfaces a parameter may be declared with
          Iids,      \* the interfaces a caller may ask for
          Data,      \* the values of the plain inputs
          Cap,       \* the capacity of an output array
          MaxCalls   \* bound: calls made to the method

VARIABLES method, call, thread, ring, answer, table, refs, wrappers, held,
          memo, learned

vars == <<method, call, thread, ring, answer, table, refs, wrappers, held,
          memo, learned>>

Null == [slot |-> <<0, 0>>, iid |-> "none", n |-> 0, data |-> 0]
NoId == [n |-> 0, slot |-> <<0, 0>>]
Failed == [Null EXCEPT !.iid = "failed"]

---------------------------------------------------------------------------
(* Parameter lists.                                                          *)

\* `count` is the position of the count parameter, 0 where there is none.
Param == [type : Interfaces \cup {"void", "IID", "UINT"}, com : BOOLEAN,
          input : BOOLEAN, output : BOOLEAN, ind : 0 .. 2, count : Nat]

Method == [params : Seq(Param), create : BOOLEAN, fresh : BOOLEAN,
           function : BOOLEAN, canonical : {"none", "true", "false", "memo"},
           staged : BOOLEAN, forceSync : BOOLEAN,
           ret : {"void", "HRESULT", "UINT"}]

\* The elements of a set of positions, the smallest first.
Rank(S, i) == Cardinality({j \in S : j <= i})
InOrder(S) == [k \in 1 .. Cardinality(S) |-> CHOOSE i \in S : Rank(S, i) = k]

Positions(m, Sel(_)) == InOrder({i \in DOMAIN m.params : Sel(m.params[i])})

IsOutputComHandle(p) == p.com /\ p.ind = 2 /\ p.output /\ ~p.input
IsVoidOutput(p) == IsOutputComHandle(p) /\ p.type = "void"
Outs(m) == Positions(m, IsOutputComHandle)

\* Every IID of the method names the `void **` that comes after it.
IidsPrecedeVoids(m) ==
  \A i \in DOMAIN m.params : m.params[i].type = "IID" =>
    i + 1 \in DOMAIN m.params /\ IsVoidOutput(m.params[i + 1])

ASSUME BoundsType == Cap \in Nat \ {0} /\ MaxCalls \in Nat
ASSUME NamesType == Data # {} /\ "none" \notin Interfaces \cup Iids
ASSUME MethodsType == Methods \subseteq Method

\* What the registry's parameters have in common: an object is answered
\* through a T **, an IID is a REFIID, and one precedes every `void **`.
ASSUME ParamsAreUsual ==
  \A m \in Methods : \A i \in DOMAIN m.params :
    LET p == m.params[i] IN
    /\ p.com /\ p.output => p.ind = 2 /\ ~p.input
    /\ p.type = "IID" => p.input /\ ~p.output /\ p.ind <= 1
    /\ IsVoidOutput(p) => i - 1 \in DOMAIN m.params /\ m.params[i - 1].type = "IID"

ASSUME MemosArePaired ==
  \A m \in Methods : m.canonical = "memo" => IidsPrecedeVoids(m)

\* A wrong form: no method is canonical by default.
PlainDefault(m) == "false"

\* A method named Create* or Open* returns a new object unless annotated.
CanonicalDefault(m) == IF m.create THEN "false" ELSE "true"

MethodCanonical(m) ==
  CASE Outs(m) = <<>> -> "none"
    [] m.function -> "false"
    [] OTHER -> IF m.canonical = "none" THEN CanonicalDefault(m) ELSE m.canonical

MethodIsCanonical(m) == MethodCanonical(m) \in {"true", "memo"}

\* A wrong form: a memoized getter may take any input.
ValidatesMemoOutputs(m) ==
  /\ m.ret \in {"void", "HRESULT"}
  /\ Len(Outs(m)) = 1 /\ m.params[Outs(m)[1]].count = 0
  /\ \A i \in DOMAIN m.params : m.params[i].output => IsOutputComHandle(m.params[i])

\* What _validate_canonical refuses.
ValidatesMemo(m) ==
  /\ m.ret \in {"void", "HRESULT"}
  /\ Len(Outs(m)) = 1 /\ m.params[Outs(m)[1]].count = 0
  /\ \A i \in DOMAIN m.params :
       LET p == m.params[i] IN
       /\ p.output => IsOutputComHandle(p)
       /\ p.input => p.type = "IID"

ValidateCanonical(m) ==
  /\ m.function \/ Outs(m) = <<>> => m.canonical = "none"
  /\ MethodIsCanonical(m) =>
       Len(Positions(m, IsVoidOutput))
         <= Len(Positions(m, LAMBDA p : p.input /\ p.type = "IID"))
  /\ MethodCanonical(m) = "memo" => ValidatesMemo(m)

---------------------------------------------------------------------------
(* The generated codec and thunk.                                            *)

\* A wrong form: one REFIID types them all.
FirstRiidExprs(m) ==
  LET riids == Positions(m, LAMBDA p : p.input /\ p.type = "IID")
  IN [o \in (IF riids = <<>> THEN {} ELSE Range(Positions(m, IsVoidOutput))) |-> riids[1]]

\* The i-th IID input types the i-th void ** output: position of the output
\* to position of the IID.
RiidExprs(m) ==
  LET riids == Positions(m, LAMBDA p : p.input /\ p.type = "IID" /\ p.ind <= 1)
      outs == Positions(m, IsVoidOutput)
      paired == {k \in DOMAIN outs : k \in DOMAIN riids}
  IN [o \in {outs[k] : k \in paired} |->
        riids[CHOOSE k \in paired : outs[k] = o]]

\* The thunk pairs them again, from its own list of the IIDs and outputs.
ClientRiids(m) ==
  Positions(m, LAMBDA p : p.input /\ ~p.output /\ p.type = "IID")

ClientOutputs(m) ==
  LET outs == {i \in DOMAIN m.params :
                 LET p == m.params[i] IN p.output /\ p.com /\ p.ind >= 1}
      voids == {o \in outs : m.params[o].type = "void"}
      Nth(i) == IF i \in voids THEN Rank(voids, i) ELSE 0
      named == InOrder({i \in outs : Nth(i) <= Len(ClientRiids(m))})
  IN [k \in DOMAIN named |-> [pos |-> named[k], nth |-> Nth(named[k])]]

MethodAlwaysSync(m) ==
  \/ \E i \in DOMAIN m.params :
       m.params[i].output /\ ~IsOutputComHandle(m.params[i])
  \/ m.ret \notin {"void", "HRESULT"}
  \/ m.forceSync
  \/ MethodIsCanonical(m)

\* A wrong form: a Create may be held back too.
StagedUnlessSync(m) == m.staged /\ ~MethodAlwaysSync(m)

MethodIsStaged(m) ==
  /\ m.staged
  /\ ~MethodAlwaysSync(m)
  /\ Outs(m) = <<>>

\* An output array whose count the host writes is refused where the method
\* can fail, and in a canonical method where the count comes first.
ClientRenders(m) ==
  \A i \in Range(Outs(m)) :
    LET c == m.params[i].count IN
    c # 0 /\ m.params[c].output =>
      /\ m.ret = "void"
      /\ MethodIsCanonical(m) => c > i

---------------------------------------------------------------------------
(* One call.  A slot is <<position of the output, index in its array>>.      *)

SlotsAt(m, i, nulls) ==
  IF i \in nulls THEN <<>>
  ELSE [k \in 1 .. (IF m.params[i].count # 0 THEN Cap ELSE 1) |-> <<i, k>>]

\* A single output has its ref even where the caller passed NULL.
RefSlotsAt(m, i, nulls) ==
  IF m.params[i].count = 0 THEN << <<i, 1>> >> ELSE SlotsAt(m, i, nulls)

FlattenedOver(f, s) == FlattenSeq([k \in DOMAIN s |-> f[s[k]]])
HostRefSlots(m, nulls) ==
  FlattenedOver([i \in DOMAIN m.params |-> RefSlotsAt(m, i, nulls)], Outs(m))
\* A wrong form: a NULL output consumes no ref.
ThunkRefSlotsGiven(m, nulls) ==
  FlattenedOver([i \in DOMAIN m.params |-> SlotsAt(m, i, nulls)],
                [k \in DOMAIN ClientOutputs(m) |-> ClientOutputs(m)[k].pos])

ThunkRefSlots(m, nulls) ==
  FlattenedOver([i \in DOMAIN m.params |-> RefSlotsAt(m, i, nulls)],
                [k \in DOMAIN ClientOutputs(m) |-> ClientOutputs(m)[k].pos])

Slots == UNION {Range(SlotsAt(method, i, call.nulls)) : i \in Range(Outs(method))}

Minted(s) == [n |-> call.n, slot |-> s]

HostType(i) ==
  LET p == method.params[i] IN
  IF p.type # "void" THEN p.type
  ELSE IF i \in DOMAIN RiidExprs(method) THEN call.iids[RiidExprs(method)[i]]
  ELSE "none"

ClientType(o) ==
  IF o.nth = 0 THEN method.params[o.pos].type
  ELSE call.iids[ClientRiids(method)[o.nth]]

ClientTypeAt(i) ==
  ClientType(CHOOSE o \in Range(ClientOutputs(method)) : o.pos = i)

\* The slots the thunk converts into wrappers.
Wrapped == {s \in Slots : \E o \in Range(ClientOutputs(method)) : o.pos = s[1]}

\* What the caller asked for in a slot: its interface is the one named by the
\* REFIID that the parameter list puts right before the output.
Asked(s) == IF method.params[s[1]].type = "void" THEN call.iids[s[1] - 1]
            ELSE method.params[s[1]].type
ObjectOf(s) == [slot |-> s, iid |-> Asked(s), data |-> call.data,
                n |-> IF method.fresh THEN call.n ELSE 0]

\* npt_com_get_or_wrap: the wrapper of an id is made once.
Wrap(ids, TypeAt(_)) ==
  [i \in DOMAIN wrappers \cup ids |->
     IF i \in DOMAIN wrappers THEN wrappers[i] ELSE TypeAt(i)]

Calls ==
  [n : {call.n + 1}, data : Data,
   iids : [{i \in DOMAIN method.params : method.params[i].type = "IID"} -> Iids],
   nulls : SUBSET Range(Outs(method))]

MemoKey(c) == IF ClientOutputs(method)[1].nth = 0 THEN "static"
              ELSE c.iids[ClientRiids(method)[ClientOutputs(method)[1].nth]]

Fits(c) ==
  /\ c.data \in IF \E i \in DOMAIN method.params :
                     method.params[i].input /\ method.params[i].type = "UINT"
                THEN Data ELSE {CHOOSE d \in Data : TRUE}

\* Every out pointer NULL: the HRESULT is the whole result, so it is awaited.
ValidateOnly(c) ==
  /\ ClientOutputs(method) # <<>>
  /\ ~MethodAlwaysSync(method)
  /\ method.ret = "HRESULT"
  /\ \A o \in Range(ClientOutputs(method)) : o.pos \in c.nulls

MemoHit(c) ==
  /\ MethodCanonical(method) = "memo"
  /\ ClientOutputs(method)[1].pos \notin c.nulls
  /\ MemoKey(c) \in DOMAIN memo

Idle == thread = "back" /\ ring = "none" /\ call.n < MaxCalls

AnswerFromMemo ==
  /\ Idle
  /\ \E c \in Calls :
       /\ Fits(c) /\ MemoHit(c)
       /\ call' = c
       /\ held' = [s \in {<<ClientOutputs(method)[1].pos, 1>>} |-> memo[MemoKey(c)]]
       /\ learned' = TRUE
  /\ answer' = <<>> /\ refs' = <<>>
  /\ UNCHANGED <<method, thread, ring, table, wrappers, memo>>

Call ==
  /\ Idle
  /\ \E c \in Calls :
       /\ Fits(c) /\ ~MemoHit(c)
       /\ call' = c
       /\ LET waits == MethodAlwaysSync(method) \/ ValidateOnly(c)
          IN /\ thread' = IF waits THEN "waiting" ELSE "wrapping"
             /\ ring' = IF MethodIsStaged(method) THEN "staged" ELSE "queued"
  /\ held' = <<>> /\ learned' = FALSE
  /\ answer' = <<>> /\ refs' = <<>>
  /\ UNCHANGED <<method, table, wrappers, memo>>

\* The thread's next command that is not staged publishes the staged ones.
Publish ==
  /\ ring = "staged" /\ thread = "back"
  /\ ring' = "queued"
  /\ UNCHANGED <<method, call, thread, answer, table, refs, wrappers, held,
                 memo, learned>>

---------------------------------------------------------------------------
(* The host: the call, the register pass and the reply.                      *)

\* A slot of a type the host cannot name is skipped.
Registered == {s \in Slots : HostType(s[1]) # "none"}

\* A plain method registers each object under the minted id and leaves a
\* failed record for a slot left NULL.
RegisterOutputs(a) ==
  [i \in DOMAIN table \cup {Minted(s) : s \in Registered} |->
     IF i \in DOMAIN table THEN table[i]
     ELSE IF a[i.slot] = Null THEN [obj |-> Failed, type |-> "none"]
     ELSE [obj |-> a[i.slot], type |-> HostType(i.slot[1])]]

\* A canonical one looks the object up first: the id it has, or the minted one.
Known(obj) == {i \in DOMAIN table : table[i].obj = obj}
CanonicalId(a, s) ==
  IF s \notin Registered \/ a[s] = Null THEN NoId
  ELSE IF Known(a[s]) # {} THEN CHOOSE i \in Known(a[s]) : TRUE
  ELSE Minted(s)

RegisterCanonical(a) ==
  LET new == {s \in Registered : CanonicalId(a, s) = Minted(s)}
  IN [i \in DOMAIN table \cup {Minted(s) : s \in new} |->
        IF i \in DOMAIN table THEN table[i]
        ELSE [obj |-> a[i.slot], type |-> HostType(i.slot[1])]]

ReplyRefs(a) ==
  [k \in DOMAIN HostRefSlots(method, call.nulls) |->
     LET s == HostRefSlots(method, call.nulls)[k]
     IN IF s \in Slots THEN CanonicalId(a, s) ELSE NoId]

Run ==
  /\ ring = "queued"
  /\ \E empty \in SUBSET Slots, fails \in BOOLEAN :
       LET a == [s \in Slots |-> IF s \in empty \/ fails THEN Null ELSE ObjectOf(s)]
       IN /\ fails => method.ret = "HRESULT" /\ empty = {}
          /\ answer' = [failed |-> fails, objs |-> a]
          /\ IF MethodIsCanonical(method)
             THEN table' = RegisterCanonical(a) /\ refs' = ReplyRefs(a)
             ELSE table' = RegisterOutputs(a) /\ refs' = <<>>
  /\ ring' = "none"
  /\ UNCHANGED <<method, call, thread, wrappers, held, memo, learned>>

---------------------------------------------------------------------------
(* The thunk, after the command was sent or answered.                        *)

\* Without refs the wrappers are built on the minted ids.  A single output of
\* a call known to have failed is discarded.
Wraps ==
  {s \in Wrapped : ~(thread = "waiting" /\ method.ret = "HRESULT"
                     /\ answer.failed /\ method.params[s[1]].count = 0)}

WrapMinted ==
  /\ \/ thread = "wrapping"
     \/ thread = "waiting" /\ ring = "none" /\ ~MethodIsCanonical(method)
  /\ held' = [s \in Wraps |-> Minted(s)]
  /\ wrappers' = Wrap({Minted(s) : s \in Wraps}, LAMBDA i : ClientTypeAt(i.slot[1]))
  /\ learned' = (thread = "waiting")
  /\ thread' = "back"
  /\ UNCHANGED <<method, call, ring, answer, table, refs, memo>>

\* The refs are consumed in the order of the thunk's own list of outputs.
WrapRefs ==
  /\ thread = "waiting" /\ ring = "none" /\ MethodIsCanonical(method)
  /\ LET order == ThunkRefSlots(method, call.nulls)
         RefAt(k) == IF answer.failed \/ k \notin DOMAIN refs THEN NoId ELSE refs[k]
         full == {k \in DOMAIN order : order[k] \in Slots /\ RefAt(k) # NoId}
         first == ClientOutputs(method)[1].pos
     IN /\ held' = [s \in {order[k] : k \in full} |->
                      RefAt(CHOOSE k \in full : order[k] = s)]
        /\ wrappers' = Wrap({RefAt(k) : k \in full},
             LAMBDA i : ClientTypeAt(order[CHOOSE k \in full : RefAt(k) = i][1]))
        /\ memo' = IF MethodCanonical(method) = "memo" /\ full # {}
                   THEN [key \in DOMAIN memo \cup {MemoKey(call)} |->
                           IF key \in DOMAIN memo THEN memo[key]
                           ELSE RefAt(CHOOSE k \in full : order[k][1] = first)]
                   ELSE memo
  /\ learned' = TRUE
  /\ thread' = "back"
  /\ UNCHANGED <<method, call, ring, answer, table, refs>>

---------------------------------------------------------------------------

\* A registry that loads and renders, and whose names and annotations are
\* true: a Create, a `canonical: false` and a top-level function return a new
\* object each time, a memoized getter never does.
Accepted(m) == ValidateCanonical(m) /\ ClientRenders(m)
Honest(m) ==
  /\ m.function \/ m.canonical = "false" \/ (m.create /\ m.canonical = "none")
       => m.fresh
  /\ m.canonical = "memo" => ~m.fresh

Init ==
  /\ method \in {m \in Methods : Accepted(m) /\ Honest(m)}
  /\ call = [n |-> 0, data |-> 0, iids |-> <<>>, nulls |-> {}]
  /\ thread = "back" /\ ring = "none"
  /\ answer = <<>> /\ table = <<>> /\ refs = <<>>
  /\ wrappers = <<>> /\ held = <<>> /\ memo = <<>> /\ learned = TRUE

Next == AnswerFromMemo \/ Call \/ Publish \/ Run \/ WrapMinted \/ WrapRefs

Spec == Init /\ [][Next]_vars

---------------------------------------------------------------------------
(* Properties.                                                               *)

Registry(id) == id \in DOMAIN table /\ table[id].obj # Failed

\* Types, and an id is held only where a wrapper exists.
TypeOK ==
  /\ method \in Methods
  /\ thread \in {"back", "waiting", "wrapping"}
  /\ ring \in {"none", "staged", "queued"}
  /\ DOMAIN held \subseteq Slots
  /\ \A s \in DOMAIN held : held[s] \in DOMAIN wrappers
  /\ Range(memo) \subseteq DOMAIN wrappers
  /\ learned \in BOOLEAN

\* The wrapper in an output slot, and the host's record of its id, have the
\* interface the caller named for that slot: riid_exprs_for on the host and
\* riid_params in the thunk pair REFIIDs and `void **` outputs alike.
NamedByItsIid ==
  thread = "back" => \A s \in DOMAIN held :
    /\ wrappers[held[s]] = Asked(s)
    /\ Registry(held[s]) => table[held[s]].type = Asked(s)

\* An answered object reaches the caller, in the slot the call put it in: the
\* reply's refs line up with the outputs, whichever pointers were NULL.  A slot
\* the caller has waited for is NULL where the call left it NULL.
AnswersArrive ==
  /\ TypeOK
  /\ thread = "back" => \A s \in DOMAIN held :
       Registry(held[s]) => table[held[s]].obj = ObjectOf(s)
  /\ thread = "back" /\ answer # <<>> /\ ~answer.failed =>
       \A s \in Slots :
         /\ answer.objs[s] # Null => s \in DOMAIN held
         /\ MethodIsCanonical(method) /\ answer.objs[s] = Null => s \notin DOMAIN held

\* A wrapper may be used at once from any thread: its id has a record on the
\* host, or the command that makes the record is on the ring.  A staged
\* command would leave the use waiting for ever.
WrappersResolve ==
  \A id \in DOMAIN wrappers :
    id \in DOMAIN table \/ (ring = "queued" /\ id.n = call.n)

\* No object has two wrappers: canonical_default answers the id an object
\* already has unless the call makes a new object each time.
OneWrapper ==
  \A i, j \in DOMAIN wrappers :
    Registry(i) /\ Registry(j) /\ table[i].obj = table[j].obj => i = j

\* What a thunk answers without the host is what the host would have answered:
\* a memoized getter depends on nothing but the REFIID the memo is keyed by,
\* and a call returns without a reply only where the HRESULT is all there is
\* and an object slot can report the failure later.
MemoAnswersAsCall ==
  /\ call.n > 0 /\ thread = "back" /\ ring = "none" /\ answer = <<>> =>
       \A s \in Slots : s \in DOMAIN held /\ table[held[s]].obj = ObjectOf(s)
  /\ thread = "back" /\ ~learned =>
       /\ method.ret \in {"void", "HRESULT"}
       /\ \A i \in DOMAIN method.params :
            method.params[i].output => IsOutputComHandle(method.params[i])
       /\ method.ret = "HRESULT" /\ Outs(method) # <<>> => DOMAIN held # {}

\* A wrong form: a top-level function takes the default too.
TestCanonicalByName(m) ==
  /\ \E i \in DOMAIN m.params : IsOutputComHandle(m.params[i])
  /\ IF m.canonical # "none" THEN m.canonical \in {"true", "memo"} ELSE ~m.create

\* The test generator's own copy of the canonical rule.
TestMethodIsCanonical(m) ==
  /\ \E i \in DOMAIN m.params : IsOutputComHandle(m.params[i])
  /\ ~m.function
  /\ IF m.canonical # "none" THEN m.canonical \in {"true", "memo"} ELSE ~m.create

\* The slots a test fills refs for.
TestRefSlots(m, nulls) ==
  IF TestMethodIsCanonical(m)
  THEN FlattenedOver([i \in DOMAIN m.params |-> RefSlotsAt(m, i, nulls)],
                     Positions(m, IsOutputComHandle))
  ELSE <<>>

\* The test generator's copy of the canonical rule decides as the registry
\* does, so the tests fill the refs the codec encodes.
TestsFillTheRefs ==
  TestRefSlots(method, call.nulls)
    = IF MethodIsCanonical(method) THEN HostRefSlots(method, call.nulls) ELSE <<>>

=============================================================================
