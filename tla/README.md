# Formal model of the Neptune protocol

Neptune forwards Direct3D/DXGI COM calls from a guest to a host renderer.  This
repository holds the protocol: a registry of types in JSON, Python tools that
turn it into C headers (thunks, encoders, decoders, dispatchers), hand-written
transport structs and one hand-written codec.  The runtimes that use the headers
(rings, object tables, wrapper caches) live elsewhere and are visible only
through how the generated code and the header comments use them.

This directory models that protocol in TLA+, checks it with TLC and proves its
main properties with TLAPS.

* [1. The system](#1-the-system): components, state, operations, what is hard
* [2. The modules](#2-the-modules): what models what
* [3. Runs and bounds](#3-runs-and-bounds)
* [4. Proofs](#4-proofs)
* [5. Disagreements found](#5-disagreements-found)
* [6. What is not modelled](#6-what-is-not-modelled)
* [7. Plan](#7-plan)

## 1. The system

### Components

| Component | State it keeps | Operations | Correct when |
| --- | --- | --- | --- |
| Command submission and dispatch (`templates/commands.h`, `dispatch.h`) | per call: command bytes, reply slot; per ring: what was published and decoded | `npt_submit_*`, `npt_async_*`, `npt_call_*`; `npt_dispatch_*`: look up handles, decode, run, register outputs, reply | every published command is decoded once and in ring order; a call is lost only for a stated reason; no caller waits for ever |
| Host object table, as the generated code uses it (`tools/npt_codegen.py` `replace_handle_field`, `register_output_handle_field`, `register_failed_output_handles`) | id to object, failed object, or nothing yet | blocking lookup, register, register failed, release | each id is registered once and released once; whoever minted an id gets it answered |
| Transport commands (`transport/npt_protocol_transport.h`) | ring positions named in `COM_RELEASE` and `WAIT_PEER` | release after every other ring has decoded what it had published; ring-to-ring edges | a release never overtakes an older use; waits form no cycle |
| Guest thunks (`templates/client.c`, `client_table.c`) | wrappers and their references, memo of canonical getters | choose async, staged or sync; mint output ids; build or drop wrappers | a wrapper exists only for an id that is or will be registered |
| Wire codec generator (`tools/npt_codegen.py`, `templates/cs_helpers.h`, `structs.h`) | none at run time: pure functions generated per method | `npt_sizeof_*`, `npt_encode_*`, `npt_decode_*`, replies | size equals length; decoding returns what was encoded; a reply fits the slot sized before the call; legal calls are never refused |
| Interface-id pinning (`tools/npt_allocate_interface_id.py`, `tools/npt_registry.py`, `npt_interface_ids.json`) | the pinning file, over the life of the protocol | allocate, add, rename, retire; the loader's checks | an id never changes its meaning between builds |
| Registry model (`tools/npt_registry.py`, the JSON files) | types, interfaces, methods | load, overlay merge, resolve, validate, count expressions | the overlay changes what it names and nothing else; resolution terminates |
| Pipeline state stream codec (`codecs/`) | offsets of three walks, the host's block | size, count, encode, decode a self-describing byte stream, replace its ids | the walks agree on every record; the host stays inside its block; what arrives is what was packed |
| Output objects (`tools/npt_registry.py` `method_canonical`, `tools/npt_codegen.py`, `templates/client.c`) | reply references, wrappers, the memo | mint, register, answer, wrap, memoise | slot, id, reference and interface belong together; one object has one wrapper |
| Type walks and structure codecs (`tools/npt_codegen.py`, `tools/npt_registry.py`) | the cache of earlier answers; a structure half decoded | is a type of bounded size, does it hold ids, replace them; size, encode, decode a structure | an answer does not depend on the order of the questions; decoder and encoder choose the same arms |
| Declaration order (`tools/gen_headers.py`, `tools/npt_protocol.py`) | the declarations written so far | write the sections of the two headers | a name is declared before it is used and defined once |
| Resources, shared textures, events, feedback slots (`transport/`) | shared memory slots, fences | map/update, share, signal, query results | no torn or stale reads; no lost wake-up |
| Test generator (`npt_testgen.py`), family listing (`list_families.py`), MIDL conversion (`convert_midl.py`) | files | text in, text out | they take the generators' decisions again: the decisions must be the same |

### How they interact

A guest thread calls a method on a wrapper.  The thunk mints an id for each
output handle from one monotonic counter, sizes and encodes the command, and
either publishes it on the ring of its thread, keeps it in the thread's staging
buffer (methods the registry marks `staged`), or publishes it and spins on the
ring head for a reply.  One host thread per ring decodes in order: it looks up the
receiver, decodes the arguments, looks the input handles up, calls the backend,
registers what came back under the minted ids, and encodes the reply.

Because the guest names objects before the host has made them, a Create needs no
round trip, and the price is paid on the host: a lookup of an id that nobody has
registered yet blocks the ring thread.  Registrations, release waits and
ring-to-ring edges are therefore the things the rings wait for.

### What is hard

* Rings that wait for one another: through ids, through release waits, through
  edges.  One wrong position or one unanswered id and the context hangs.
* Failure without a reply: a Create that fails, or a call that is dropped, must
  leave *something* under its ids.
* Staged commands are published late, after other threads moved on.
* Three generated passes (size, encode, decode) and two directions must make the
  same choice about NULL, empty, optional, padded and union data, while counts
  are themselves arguments, and the callee may change them.
* The same decision is taken in several places by different code: which interface
  an output has (host, thunk), which slots a vtable has (host, guest), which files
  exist (driver, build), which references a reply carries (codec, thunk, tests).
* Walks over types that may be cyclic cut the cycle and cache what they answered.
* The id file is edited for years, by a tool and by hand; peers of different
  versions must agree.

`PROJECT.json` lists every hazard with its line and the properties that watch it.

## 2. The modules

| Module | Role |
| --- | --- |
| `CallContract` | what callers may rely on: calls that take effect one at a time |
| `ObjectCalls` | submission, staging, dispatch, object table, replies, releases, edges; implements `CallContract` |
| `ObjectCallsProofs` | its inductive invariant and theorems, and the refinement |
| `OutputObjects`, `OutputObjectsProofs` | the objects one method answers with, from the registry to the caller; theorems |
| `InterfaceChain` | vtable slots, families, tiers, upcasts, file lists |
| `InterfaceIds` | the pinning file, the tool, the registry, the loader |
| `WireCodec`, `WireCodecProofs` | one synchronous call's parameters on the wire, there and back; theorems |
| `StructCodec`, `StructCodecProofs` | the body of a structure with unions and conditions; theorems |
| `TypeWalks` | the recursive walks over types, and the replacing of ids |
| `RegistryProofs` | theorems about `InterfaceIds` and `TypeWalks` |
| `PssCodec`, `PssCodecProofs` | the pipeline state stream; theorems |
| `DeclOrder` | the order of declarations in the SDK and codec headers |
| `GeneratorProofs` | theorems about `InterfaceChain` and `DeclOrder` |
| `Inductions` | induction, recursion, sums, concatenations and sorting, as lemmas the proofs share |
| `MC...` | the instances TLC checks |

How they fit together: `ObjectCalls` takes a call as one command with ids;
`OutputObjects` opens up how those ids, the reply's references and the wrappers of
one call belong together, `WireCodec` how its parameters travel, `StructCodec` how
one structure inside a parameter travels, `PssCodec` the one structure with a codec
written by hand, and `TypeWalks` which types the generator has such codecs for and
which ids in them the host replaces.  `InterfaceChain`, `InterfaceIds` and
`DeclOrder` are about the generator itself, before any call.

Operators that no action uses (`RegisterNonNull`, `KeepTable`, `PlainCount`
and the like) are plausible mistakes, kept next to the definition they would
replace; each property is known to fail under one of them.

### ObjectCalls

State and code:

| Variable | Code |
| --- | --- |
| `log`, `tail` | contents of all rings in publication order; a ring is the subsequence with its `.ring`.  Positions are indexes of `log`, where the code uses byte counts: both order one ring's commands alike |
| `head`, `phase` | how far a ring's host thread is, and how far inside `npt_dispatch_*` |
| `table` | host object table: `absent` (lookup blocks), `live`, `failed`, `released` |
| `fatal` | a decoder set fatal: the context is lost |
| `minted`, `held` | `npt_com_allocate_next_id`, live wrappers |
| `staging`, `waiting`, `reply` | staging buffers, callers in `npt_call_*`, reply slots |
| `faulted`, `dropped` | history, for the properties only |

`AsyncCall`, `StagedCall`, `SyncCall`, `SyncReturn` and `ReleaseWrapper` are the
thunk's and `npt_submit_*`'s paths; `LookupSelf`, `LookupArg` and `Execute` are
the three points of `npt_dispatch_*` at which another ring can intervene.  A
missing handle goes to `Miss`: fatal if the call owes a reply, otherwise the call
is dropped and its outputs registered as failed.  After a call with a reply every
object that was made gets its wrapper; what the thunk does with the other ids depends
on the method's shape (it discards single handles of an `HRESULT` method that failed and
canonical slots without a reference, and wraps the rest), so `SyncReturn` may keep any
of them: the host has them as failed objects.

Outside the repository, and modelled as the code and the comments use it: a
lookup blocks on an id that is not registered yet, and misses on a released or
failed one; fatal is context-wide; a thread publishes what it staged before it
submits directly; heads advance after dispatch; ids come from one counter; a
thread may use any wrapper that is alive.  One input handle stands for all.

### InterfaceIds

`pins` is the file, `registry` maps interface names to GUIDs.  `Allocate` is the
tool with its three verdicts; `HandAdd`, `Retire` and `RenamePin` are the edits
that the file's own header and the loader's messages ask developers to make;
`SetInterface` is a MIDL regeneration, which may add, drop, rename or re-GUID.
`Build` is `_load_interface_ids`: the duplicate checks, the later entry of a GUID
winning, the retired, name and dropped-interface checks.  `shipped` remembers
what every successful build told the world.

### WireCodec

A method is a sequence of parameter records (`kind`, element `type`, direction,
`optional`, which parameter holds its `count`, which holds it after the call).
One call passes through `SizeParam`, `EncodeParam` (guest), `DecodeParam`,
`CheckAndAllocate`, `Execute`, `EncodeOutput` (host) and `DecodeResult` (guest),
one parameter per step, as the templates emit one statement group per parameter.
A stream is a sequence of tokens with sizes, so "size equals length" and "the
decoder is in step" are statements about bytes without bytes being modelled.  A
`union` element has a narrow and a wide arm, which is what `max_mode` is about.

The caller obeys the API (required pointers are there, buffers have the length
their count says).  On success the callee fills no more than it was given; on
failure it may answer any count.

Left out: headers, single handles (one fixed word each), string arrays, arrays
of pointers to structs, bit fields, `void *` without size; struct bodies are in
`StructCodec`.

### CallContract

A command is what its caller sees: the objects it uses, makes or frees, whether
its thread waits, and the commands it comes after.  There are no rings, no
positions, no staging and no lookups that block.  `Perform` makes a call on
objects that exist, `Lose` and `Collapse` are the two fates of a call whose objects
are not there (nobody waits; somebody waits), `Free` a release.  Each thread's calls
take effect in its order, and a release after everything issued before it.

`ObjectCalls` maps to it by `Contract`: published commands, in the order of
publication, are the issued ones (`Issued`); a command is `Over` when its ring's
head passed it, its `After` are the older commands of its ring and those it waits
for: all older ones, for a release.  A ring-to-ring edge is a command that uses
nothing.  A lookup that finds its object is a stutter, and so is staging a call.

### OutputObjects

A method is its list of parameters and its annotations.  `MethodCanonical` and
`ValidateCanonical` are the registry, `RiidExprs` and `HostRefSlots` the host's
code, `ClientRiids` and `ThunkRefSlots` the thunk's, `TestMethodIsCanonical` and
`TestRefSlots` the test generator's own copy.  A call leaves out any of its outputs
(`nulls`); the host answers each slot with an object or leaves it empty, or fails.
`Honest` is what annotations mean: a `Create` makes a new object, a memoised getter
does not.  The reference counts of wrappers, and releases, are not here.

### InterfaceChain

`Resolve` is one turn of the registry's loop: an interface is resolved with its
unresolved ancestors; "has a positive count" is what the code takes for resolved.
What is generated from the result are operators: `IterVtableMethods` (the guest's
layout), `FamilyTiers`, `QueryAnswers` (guest), `Upcasts` (host), `ListFamilies` and
the `ExpectedFiles` the build derives from it, `GenerateCommands` and `GenerateClient`
(what the driver writes).  Explicit slot numbers of methods, which no
interface of the registry has, are left out.

### StructCodec, TypeWalks, PssCodec, DeclOrder

`StructCodec` sizes a structure (`NormalSize`, `MaxModeSize`), encodes it field by
field, and decodes it into a structure that is still being filled, from whose
earlier fields the decoder reads the conditions: each a test that a sibling holds one
of some values, several of them where the registry nests one union in another
(`D3D12_BUILD_RAYTRACING_ACCELERATION_STRUCTURE_INPUTS`).  `TypeWalks` asks, in any order,
whether types are bounded (`Walk`, with its cache) and whether replies can be
sized; graph reachability (`Leading`) is the reference.  `PssCodec` has one step
per record of each walk, with real byte offsets for a 32-bit or 64-bit ABI on
either side.  `DeclOrder` writes one section of a header per step.  The code's three
recursive functions (two for structures, one for aliases) are one shape,
`DepthFirst`: mark a name, walk what it leads to, write it.  Which names are walked
into and which are written differs, and with it what the order promises.

## 3. Runs and bounds

| Run | Checks | Instance and result |
| --- | --- | --- |
| `object_calls` | `TypeOK`, `RingsNeverStuck`, `OutputsAnswered`, `ReleaseWaitsForUses`, `OnlyFailuresLoseCalls`, `IdLifeCycle`, `ImplementsContract` | 2 threads, 2 rings, 2 ids minted during the run, 3 commands, 1 of them with a reply, 1 staged, 1 edge: 199 thousand states |
| `object_calls_live` | `PublishedIsDecoded`, `SyncCallsReturn` | 1 id, 1 edge, 3 commands, fair: 32 thousand |
| `interface_ids` | `PinsTypeOK`, `NeverReassigned`, `BuildIsInjective` | 2 names, 2 GUIDs, ids 1 to 3: 60 thousand |
| `wire_codec` | `SizeIsExact`, `ArgsArrive`, `HonestNeverFatal`, `ReplyFits`, `ResultsArrive`, `ResultsInBuffer` | 13 methods, lengths 0 to 4: 67 thousand |
| `type_walks` | `AnswersRight`, `RepliesRight`, `EveryIdReplaced` | all registries of 3 names, fields as in `MCTypeWalks`, all orders of questions: 150 thousand |
| `decl_order` | `HeaderDeclaresFirst`, `CompleteUnlessCyclic`, `CodecDeclaresFirst` | all registries of 3 names: 187 thousand |
| `struct_codec` | `DecoderInStep`, `LiveFieldsArrive`, `OneArmFits` | structures of up to 6 fields, lengths and values 0 to 2: 102 thousand |
| `output_objects` | `NamedByItsIid`, `AnswersArrive`, `WrappersResolve`, `OneWrapper`, `MemoAnswersAsCall`, `TestsFillTheRefs` | 15 parameter lists with all annotations, 2 calls: 288 thousand |
| `interface_chain` | `SlotsAgree`, `OneVtableServesTheFamily`, `QueriesMatchUpcasts`, `FilesAsListed` | all forests of 4 interfaces, one of them perhaps without a uuid, all orders: 583 thousand |
| `pss_codec` | `SentAsMeant`, `DecoderInBounds`, `StreamArrives` | streams of up to 3 records cut at any byte, 4 pairs of ABIs: 262 thousand |
| `reply_without_buffer`, `stray_iid` | comments, refuted | see section 5 |

Each takes between ten seconds and three minutes on two cores.

Why the bounds suffice.  Three commands hold each dangerous pattern of
`ObjectCalls`: a Create on one ring, its use on another, a release on either; a
release and two racing uses; an edge in each direction with one command behind.
For `InterfaceIds`, conflicts are between two interfaces, and three ids leave room
to retire, re-allocate and collide.  For `WireCodec`, 0, 1,
a word less one and a whole word of bytes are the lengths that padding and the
zero marker distinguish.  Three names make every cycle a walk can meet: a type and
itself, two types, a cycle entered from outside, a cycle met by a second walk from
the other side.  A structure of four fields has a discriminator, two arms and a
count before or behind them.  Two calls are what a memo and a second wrapper
take; 15 parameter lists are those shapes of the registry's methods that differ in
which parameters are outputs, IIDs and counts.  Four interfaces are three versions
of one and a stranger.  A block for three records is where records of different
size meet.  What section 4 proves holds without these bounds; for the
liveness properties they are all there is.

`MaxLog`, `MaxStaged`, `MaxOuts`, `MaxEdges`, `MaxId`, `MaxCount`, `MaxCalls`, `Cap`,
`MaxRecords` and the constraints `OneCallerWaits` and
`OneThreadStages` of `MCObjectCalls` are all the bounds there are.  Symmetry (fresh ids; the two threads
together with their rings; names and GUIDs; type names) is used for safety only.

Deadlock is checked for `InterfaceIds` and `WireCodec`: in the latter a stuck state would
be a command whose decoder meets something it does not expect.  It is switched
off for `ObjectCalls`, where an application may simply make no more calls and a
lost context stops (`RingsNeverStuck` says what deadlock freedom means there), and
for the modules whose behaviours end: with the last section, field, call, interface
or record.

Fairness (`FairSpec`): each ring's host thread keeps running (the host starts a
thread per ring, which does nothing else), and a guest thread that waits for a
reply returns when it can (`npt_call_*` spins on the head).  Nothing is assumed of
applications: no one need call again, publish what is staged, or release.

## 4. Proofs

All with TLAPS, for any sets of threads, rings, ids, names, GUIDs, methods,
interfaces, structures and record types, and any bounds.  Every safety property of the
nine modules that have runs is a theorem, and so is the refinement.

`ObjectCallsProofs`.  `RingsNeverStuck` and its companions are far from
inductive, so the proof rests on `IInv`, in two groups:

* `LogInv`, about the history of publication: positions are where they claim
  (`PositionsOK`); every wait points back, and to the ring it names
  (`WaitsPointBack`), so waits cannot form a circle; a release's waits cover all
  older commands (`ReleaseCoversOlder`); what a command names was minted by an
  older one (`LogOK`, `StagedOK`, `HeldOK`); once an object's release is published
  it is not held, not released again, and used only by staged calls, which own no
  ids and owe no reply (`ReleasedNotHeld`, `UsesAfterRelease`).
* `HostInv`, about decoding: each id is minted by one call and absent until that
  call is decoded (`OutsFresh`), and answered afterwards; waits that were met stay
  met (`WaitsStayMet`); `released` means a decoded release (`ReleasedOK`); nothing
  is a failed object unless the backend failed (`LossOK`).

`NoRingDeadlock` then takes the oldest undecoded command of all rings: everything
it could wait for was published before it, hence is decoded, hence its ids are
answered and its waits met.  `IdsLiveOnce` is an action property; it uses `IInv` for the
facts that an id is minted by one call, and released by one command that
waits for that call.

The same module proves the refinement, `Spec => ImplementsContract` (`Refinement`).  Apart
from `IInv` the step proof needs `PhaseOK`: a ring that is past a lookup found the
object, and the object can since only have been released.  (A lookup and the call
are two steps, and a release on another ring may come between; the contract
allows such a call only on an object whose release was issued before it, which is
what `ReleaseCoversOlder` gives.)  Publication maps to `Issue`, `Execute` to
`Perform`, an edge that is passed to a `Perform` that makes nothing, a miss to
`Lose` or `Collapse`, `ReleaseObject` to `Free`, `SyncReturn` to `Return`,
everything else to a stutter.

`RegistryProofs`, of `InterfaceIds`.  The strengthening says that every shipped pair is still
in the file: entries are added, renamed or retired, and keep their id and GUID.
That gives "one id, one GUID".  The converse, "one GUID, one id", is the subtle
half: a file may hold two entries of one GUID, and the lemma `BuildUsesOnlyPin`
shows from the order in which the loader reads them that a build which succeeds
met only one.

`RegistryProofs`, of `TypeWalks`.  `IInv` says that the registry is still the one that
was read and that what the cache holds is true of it (`Sound`): that is all the next
question relies on, so the order of the questions cannot matter.  The work is in one
walk.  Inside a cycle a type may only be found unbounded because it was met again, and
that finding is stored for types whose own walk has not ended; it is right because
every struct on the chain leads to the type that is asked (`Sane`), so that a type met
again leads back to itself.  `StepRight` shows this for one call from the calls it
makes, and `WalkRight` for all of them, by induction on the frames.  That there are
enough frames is a theorem too (`FramesSuffice`): a call either goes into a struct not
yet on the chain or deeper by value, which C allows only so often (`Load`, `Height`).
The walk for ids shares its visited set between branches, so what it says of a type
met again is only true if the whole walk says no: then the types it met are closed
under references and none has ids (`MetHasNone`).  `Leading` is the least set closed
under the edges (`LeadingIs`, `LeadingClosed`: after as many rounds as there are types
nothing is added).

`WireCodecProofs`.  The streams are concatenations: `Command` and `Reply` are what
the parameters up to `k` contribute, `Room` the sum of their reply sizes.  `IInv`
says, pass by pass, that the size so far is the number of bytes of the command so
far, that the decoder stands where parameter `i` begins, that what it has read is
what was passed, and that what the callee leaves has the shape of what it was
given (`LikeGiven`).  `ReplyFits` compares the sums parameter by parameter.  The
guest's reading of the reply is the hard part, because it is not always in step
(`WireCodecOmitted.cfg`): either it stands where its output begins (`InStep`), or
it has stopped before a token that is no count and accepts no array any more
(`Lost`).  That is enough for `ResultsInBuffer`: the elements in the reply are as many
as the count the guest reads with them says, an output count being checked against the
buffer, any other count being the caller's own unless it is an in-out count.  A failing
callee may have raised that (`Raised`), and then the property claims nothing; `Sent` is within
the buffer otherwise (`SentInRoom`).  The other two need what they say in their
hypotheses.

`OutputObjectsProofs`.  The registry, the codec, the thunk and the test generator
each build their list of outputs by a fold of their own; each is `InOrder` of the
same set of positions, so equal lengths and equal places follow from equal sets
(`ListsInOrder`, `RefsInStep`).  `IInv` follows the ids: minted for one slot of one call and
recorded under it (`TableInv`), a canonical reply has the id of the object of every slot (`RefsInv`),
a wrapper's id is recorded or its command is on the ring, never staged
(`WrapperInv`), what the caller holds is what it asked for (`HeldInv`), a memo's
entry is the object the host would answer (`MemoInv`), and a thread that was told
nothing lost nothing (`ToldInv`).  `NamedAsAsked` is `NamedByItsIid` for methods all of whose
IIDs stand before a `void **`, which the loader does not check; the run
`stray_iid` shows that the premise is needed.

`GeneratorProofs`, of `InterfaceChain`.  What the loop sets, it never changes: a resolved interface
has a resolved parent (`ParentInv`), its slots begin where the parent's end
(`WidthInv`) and its family is the parent's or its own (`FamilyInv`), whether it
was resolved in its own turn or in a descendant's.  A turn resolves the unresolved
ancestors together; that the recursion computes for them what their own turns
would is `BaseAbove` and `FamilyBelow`.  Then `IterVtableMethods` of an interface is its
parent's with its own methods appended (`IterIs`), and the properties go up the parents.
`ListedFiles` needs that a family's namesake belongs to it (`NamesakeBelongs`), also when it was
resolved as somebody's ancestor.  A
sort by width and place exists for any family (`TiersAre`); that an accepted
family is a chain of parents is all the proofs use of it.

`GeneratorProofs`, of `DeclOrder`.  First the walk: `DepthFirstIs` says of any edges
that each name that is reached is written once and after everything it leads to,
except what leads back to it (`PostOrder`).  A frame's list is therefore followed
through the names that are marked and not written yet (`Open`), which lead to the
one that is walked; there are enough frames because each nested walk marks a new
name.  Then the sections: a section is `WellPlaced` behind the sections above it if each of its
declarations finds there, or higher up in the section, what it needs, and none
defines a name again; sections placed behind one another make a file
(`PlacedConcat`).  `DeclInv` says so of the file up to the section that is next.
What remains is an argument for each section.  Aliases come out sorted, because
nothing holds itself and so no alias leads back (`SortAliasesIs`).  Bodies are the hard
one: the fields of an anonymous type are printed inside its parent, not where
the walk wrote that type.  But such a type is the type of one field
(`OneParent`), so on the way from a structure down to an inner field every type in
between was walked before the structure, or leads back to it (`InnerStep`,
`CompleteInTurn`); that is one exception of `CompleteUnlessCyclic`.  The
other is a struct embedded under an alias: the walk does not follow aliases, and the
proof claims nothing of it (section 5).  The premise
is `Declarable`, the initial condition of the model: what C can declare in some order,
and how the converter nests anonymous types.

`StructCodecProofs`.  `Sent(k)` is what the live ones among the first `k` fields put in
the stream, a function of the structure that is meant.  `IInv` says that the encoder
has written `Sent` up to its field and that the decoder stands behind `Sent` of the
fields it has read; that every live field it has read holds what was meant; and that
the count noted for an array is the one it was encoded with.  The point is that
the two sides evaluate conditions on different structures: the encoder on the whole
one, the decoder on one whose later fields are not there yet.  Conditions and
counts name plain fields, which are always live, and a condition earlier ones, so the two agree
(`HoldsAgree`).  `OneArmFits` compares sums over sets of fields: every arm of a union
that is live is at most as large as the widest (`SumBelow`), and at most one is.

`PssCodecProofs`.  The three walks of the guest go over the same records
(`WalkInv`) and end at the same place: an end is either good, the stream is used
up, or bad, a tag or a payload does not fit, and a stream has one end (`OneEnd`).  A good end
means that the records are what the C layout of the documentation reads there; a
bad one excludes every such reading, and then the size is 0.  On the host the
payloads start at increasing, hence different, places and each root signature has
one object (`StreamInv`, `FreshInv`, `ReplaceInv`).  `DecoderStaysInBlock` holds whatever
arrives; its strengthening is that the largest record for each one still to come
fits behind the offset, `off + count * MaxRecordSize <= room`, which rests on a record laid out
at an aligned offset taking what it takes at offset 0.

`Inductions`.  The library's induction theorems take a predicate, which no prover
here can instantiate.  The same facts about the *set* of what satisfies the
predicate are first-order, and follow from the well-foundedness of finite sets by
inclusion (`LeastNatural`, `NatSetInduction`); so do recursion over naturals and along parents
(`NatRecursion`, `ParentRecursion`), and through them the folds, sums (over sequences and over sets),
flattenings and sortings the models use.  What recursive functions compute is stated over such
sets as well: loops (`AnyOfKeeps`), the two walks by their frames (`WalkIs`, `HandleWalkIs`).

Assumptions are the named `ASSUME`s of the modules; TLC evaluates all of them in
the runs.  Beyond typing facts of the constants they are:

* `PssCodec`: a payload is aligned to 4 or to a pointer (`AbisAreSound`), and one record
  type is the largest (`OneIsLargest`: they are finitely many);
* `OutputObjects`: an object is answered through a `T **`, an IID is a `REFIID`, and one
  precedes every `void **` (`ParamsAreUsual`), as in all methods of the registry with
  its overlay; a memoised getter has no other IIDs (`MemosArePaired`);
* `InterfaceChain`: a parent is an interface of the registry, as all 190 are
  (`RegistriesType`), and chains of parents end (`ParentsEnd`);
* `TypeWalks`: finitely many types, none called like a primitive (`NamesType`);
* `WireCodec`: the methods are `WellFormed`, as the generator asks (`MethodsType`);
* `StructCodec`: the structures are `WellFormed` (`StructsType`): conditions stand on
  arms of unions only and test earlier plain fields of the same structure, a count is a
  plain field.  So it is in all 172 conditional fields of the registry; NULL
  is no stored array (`NullType`).

Only model-checked: liveness (`PublishedIsDecoded`, `SyncCallsReturn`): fairness and
`ENABLED` are out of the prover's reach.  `NoRingDeadlock` proves the step they
rest on, that a ring with work can move or another can.

## 5. Disagreements found

Two are runs that fail:

1. **Reply under-reserved** (`reply_without_buffer`).  For an optional counted
   output whose pointer is NULL the guest reserves nothing, but the host
   always fills and sends it.
2. **Stray IID** (`stray_iid`).  `ID3D12Device9::CreateCommandQueue1` has a
   `REFIID CreatorID` before the `REFIID` of its output.  Pairing the i-th IID with
   the i-th `void **` names the queue's interface by the creator's id.

These have a configuration to run by hand, which ends with the counterexample:

3. **First use of a failed Create** (`ObjectCallsFailedUse.cfg`).
   `templates/client.c:524` expects that use to take the context down.  The host
   registers a failed object, and drops reply-less uses of it silently.
4. **Retired interface comes back** (`InterfaceIdsRetired.cfg`).  The loader
   says to allocate a new id with the tool; the tool finds the GUID on the
   retired entry, reports success and allocates nothing.
5. **Omitted single output** (`WireCodecOmitted.cfg`).  The guest's decoder does
   not skip the value of an optional single output the caller left out
   (`tools/npt_codegen.py:1892`), e.g. of `IAGetIndexBuffer`.
6. **Count raised on failure** (`WireCodecRoom.cfg`).  Elements are withheld on
   failure only where the registry names a separate output count
   (`templates/commands.h:241`); a buffer whose count is an in-out parameter, as in
   `GetPrivateData`, is encoded to the raised count.
7. **Two live arms** (`StructCodecArms.cfg`).  `tools/npt_codegen.py:229` takes the
   widest arm for "a sound upper bound for any active variant"; a union whose arms
   have no conditions is encoded arm after arm (`D3D11_VIDEO_COLOR` in
   `VideoProcessorGetOutputBackgroundColor`: 16 bytes reserved, 32 sent).
8. **Pointer in a reply** (`StructCodecPointers.cfg`).  `tools/npt_codegen.py:818`
   sizes a reply from a zeroed value; a pointer that is not NULL afterwards needs
   more (`DXGI_MAPPED_RECT`: 20 bytes reserved, 24 sent).

`ReplyFits`, `ResultsArrive`, `ResultsInBuffer`, `OneArmFits` and `NamedByItsIid` hold once
these cases are set aside, and say so in their hypotheses (`Within`, `Wanted`, `Raised`,
`Overlapping`, `HasPointer`) or in the parameter lists of the run.

Shapes that the code gets wrong and that nothing in the registry has today; the
properties set them aside by name:

* an embedded array of structures with ids: the branch that replaces them
  (`tools/npt_codegen.py:2246`) comes after one that takes every embedded structure;
* ids behind an alias of a structure: `_type_might_contain_handle` and the replace
  pass do not follow aliases; an array of handles behind one pointer, of which the pass
  visits the first, and a pointer to a pointer to a structure with ids, which it leaves
  alone (`Usual` in `TypeWalks`);
* a structure that embeds another which points back at it: the walk goes through
  pointers like values (`tools/gen_headers.py:34`), so the order may be wrong
  although a right one exists (`OnCircle` in `CompleteUnlessCyclic`);
* a structure that embeds, under an alias, a structure which comes later: the walk
  follows references to structures and unions only (`tools/gen_headers.py:40`), so the
  body is written above the one it needs, with no cycle about.  `DependenciesFirst`
  states the order the docstring promises, `DeclOrderAliases.cfg` ends with the
  counterexample, and `CompleteUnlessCyclic` sets such fields aside.  The registry
  embeds one structure so, `RECT` as `D3D12_RECT`, which the preamble gives;
* a field of a type the registry does not define: the SDK header gets a placeholder
  for it, but its codec helper is declared nowhere (`CodecDeclaresFirst` sets it aside;
  the two such types, `HDC` and `PFN_DESTRUCTION_CALLBACK`, are of parameters).  Targets of
  aliases and return types get no placeholder at all (`tools/gen_headers.py:142`); in the
  model they are defined, as they are in the registry;
* a family none of whose interfaces has a uuid: `meson.build:154` expects its client
  files and `tools/npt_protocol.py:347` writes none.  `FilesAsListed` says that nothing
  else is missing; every interface of the registry has a uuid;
* an alias of a structure coded by hand, or of an alias of an interface: its
  helper delegates to one that nothing declares (`templates/types.h:62`,
  `tools/npt_protocol.py:222`; `CodecDeclaresFirst`);
* a parent the registry lacks: a warning, and slots from 0
  (`tools/npt_registry.py:1213`), under the three of `IUnknown`;
* an interface of the family that adds no methods ties with its parent, and the
  chain check depends on the registry's order (`tools/npt_codegen.py:2480`): it may
  refuse a legal family, never accept a wrong one.

## 6. What is not modelled

* The runtimes: wrapper reference counts, `QUERY_INTERFACE`, the heartbeat,
  `WAIT_VQ_SEQNO`, feedback slots, events, map/update and shared textures.  This
  repository has the structs of these protocols; the state machines that read and
  write them, and hence the orders in which they may, are elsewhere, and the
  comments do not determine them.
* Overlay merge, field validation, count expressions: sequential functions of the
  JSON files, evaluated once.  (The merge's text, in
  `docs/neptune_command_serialization.txt`, is not checked against its code.)
* Test values and fixtures, template text, MIDL parsing: text in, text out.
* Byte layouts of scalars and GUIDs, names, formats, logging, string arrays, bit
  fields inside words, `void *` without a size.
* Guest allocation failure, malformed commands, ring creation and destruction,
  several commands in one buffer.
* Payloads of the pipeline state stream aligned to more than a pointer: there are
  none.  What a lookup of a root signature's id may do is in `ObjectCalls`.

## 7. Plan

Done: every module of section 2 with its runs, and the proofs of section 4.  What
could follow, most useful first:

1. Guest allocation failure in `ObjectCalls`: an asynchronous command that is lost
   while its wrapper exists.
2. `OverlayMerge`: the merge rules as functions checked against reference
   definitions, with the text of the documentation.
3. `CommandFraming`: several commands in a buffer, unknown types, short buffers.
