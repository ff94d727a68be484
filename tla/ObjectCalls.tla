---------------------------- MODULE ObjectCalls ----------------------------
(***************************************************************************)
(* COM calls from guest threads, over rings, to the objects of one host    *)
(* context.                                                                *)
(*                                                                         *)
(* A guest thread encodes each call as a command and publishes it on its   *)
(* ring; one host thread per ring decodes that ring in order and           *)
(* dispatches.  An object is named by an id the guest mints, so a Create   *)
(* needs no round trip: a lookup of an id that is not registered yet       *)
(* blocks the ring thread until some ring registers it.  That, the release *)
(* waits and the ring-to-ring edges make the rings wait for one another.   *)
(*                                                                         *)
(* `log' is the order in which commands were published on any ring.  Ring  *)
(* r is the subsequence of `log' with .ring = r; a position on a ring (a   *)
(* seqno of the code, a byte count) is an index of `log', which orders the *)
(* positions of each ring as its byte counts do.                           *)
(***************************************************************************)
EXTENDS Naturals, Sequences, FiniteSets

CONSTANTS
  Thread,   \* guest threads
  Ring,     \* rings of the device
  RingOf,   \* the ring each guest thread submits to
  Id,       \* object ids the guest can mint
  NoId,     \* the NULL handle, id 0
  Roots,    \* objects registered before the behaviour starts
  MaxLog,   \* bound: commands published in a behaviour
  MaxStaged,\* bound: commands held in one thread's staging buffer
  MaxOuts,  \* bound: objects one call returns
  MaxEdges  \* bound: ring-to-ring edges in a behaviour

ASSUME RingOfType == RingOf \in [Thread -> Ring]
ASSUME NoIdIsNoId == NoId \notin Id
ASSUME RootsType == Roots \subseteq Id
ASSUME BoundsType == {MaxLog, MaxStaged, MaxOuts, MaxEdges} \subseteq Nat

VARIABLES
  log,      \* every command published, in publication order
  tail,     \* tail[r]: position of the last command published on r
  head,     \* head[r]: position of the last command decoded from r
  phase,    \* phase[r]: how far r's host thread is with its next command
  table,    \* the host object table
  fatal,    \* the context has a decoder in the fatal state
  minted,   \* ids npt_com_allocate_next_id has handed out
  staging,  \* staging[t]: commands t has encoded but not published
  held,     \* ids of the live guest wrappers
  waiting,  \* waiting[t]: position of the call t waits on, 0 if none
  reply,    \* reply[t]: the reply slot of t's call
  faulted,  \* history: the backend failed to produce some object
  dropped   \* history: positions of the calls the host dropped

guestVars == <<minted, staging, held, waiting>>
hostVars  == <<head, phase, table, fatal, reply, faulted, dropped>>
vars == <<log, tail, head, phase, table, fatal, minted, staging, held,
          waiting, reply, faulted, dropped>>

-----------------------------------------------------------------------------
(* Commands *)

NoWaits == [q \in Ring |-> 0]

Command ==
  [kind   : {"call", "release", "wait"},
   thread : Thread,
   ring   : Ring,
   self   : Id \cup {NoId},   \* NoId: a top-level function, no receiver
   arg    : Id \cup {NoId},   \* an input handle, NoId: NULL or none
   outs   : SUBSET Id,        \* ids minted for the output handles
   reply  : BOOLEAN,          \* NPT_CMD_FLAG_REPLY
   waits  : [Ring -> Nat]]    \* positions other rings must have decoded

Call(t, self, arg, outs, owesReply) ==
  [kind |-> "call", thread |-> t, ring |-> RingOf[t], self |-> self,
   arg |-> arg, outs |-> outs, reply |-> owesReply, waits |-> NoWaits]

ReleaseAtOnce(t) == NoWaits

(* COM_RELEASE names, for every other ring, what it had published. *)
ReleaseWaits(t) ==
  [q \in Ring |-> IF q = RingOf[t] THEN 0 ELSE tail[q]]

Release(t, x) ==
  [kind |-> "release", thread |-> t, ring |-> RingOf[t], self |-> x,
   arg |-> NoId, outs |-> {}, reply |-> FALSE, waits |-> ReleaseWaits(t)]

WaitPeerAhead(t, q) ==
  [kind |-> "wait", thread |-> t, ring |-> RingOf[t], self |-> NoId,
   arg |-> NoId, outs |-> {}, reply |-> FALSE,
   waits |-> [NoWaits EXCEPT ![q] = tail[q] + 1]]

(* WAIT_PEER: an edge to what one other ring has published so far. *)
WaitPeer(t, q) ==
  [kind |-> "wait", thread |-> t, ring |-> RingOf[t], self |-> NoId,
   arg |-> NoId, outs |-> {}, reply |-> FALSE,
   waits |-> [NoWaits EXCEPT ![q] = tail[q]]]

(* The objects a command needs, in the order the host looks them up. *)
Uses(c) == {c.self, c.arg} \ {NoId}

Releases(n, x) == log[n].kind = "release" /\ log[n].self = x

Decoded(n) == n <= head[log[n].ring]

Undecoded(r) == {n \in DOMAIN log : log[n].ring = r /\ ~Decoded(n)}

(* n is the command r's host thread is working on, or takes up next. *)
IsNext(r, n) ==
  /\ n \in Undecoded(r)
  /\ \A m \in Undecoded(r) : n <= m

-----------------------------------------------------------------------------
(* Guest: submission *)

CreateIsStaged(owesReply, outs) == ~owesReply

(* A command that carries a reply or registers an output id may not stay   *)
(* in the calling thread's staging buffer.                                 *)
MethodIsStaged(owesReply, outs) == ~owesReply /\ outs = {}

Publish(c) ==
  /\ Len(log) < MaxLog
  /\ log' = Append(log, c)
  /\ tail' = [tail EXCEPT ![c.ring] = Len(log) + 1]

(* Ids come from one monotonic counter, so a minted id is always fresh. *)
Mint(outs) ==
  /\ outs \subseteq Id \ minted
  /\ Cardinality(outs) <= MaxOuts
  /\ minted' = minted \cup outs

(* What a thread may name: wrappers it can reach.  Any thread can use any  *)
(* wrapper; self = NoId is a call of a top-level function.                 *)
Nameable == held \cup {NoId}

(* npt_async_*: no reply; the thunk answers S_OK and wraps the ids at once.*)
(* A direct submission follows what the thread staged before it.           *)
AsyncCall(t, self, arg, outs) ==
  /\ waiting[t] = 0
  /\ staging[t] = <<>>
  /\ Mint(outs)
  /\ Publish(Call(t, self, arg, outs, FALSE))
  /\ held' = held \cup outs
  /\ UNCHANGED <<staging, waiting, hostVars>>

(* As AsyncCall for a method annotated `staged': held back in the thread.  *)
StagedCall(t, self, arg, outs) ==
  /\ waiting[t] = 0
  /\ MethodIsStaged(FALSE, outs)
  /\ self # NoId
  /\ Mint(outs)
  /\ Len(staging[t]) < MaxStaged
  /\ staging' = [staging EXCEPT ![t] =
                   Append(@, Call(t, self, arg, outs, FALSE))]
  /\ held' = held \cup outs
  /\ UNCHANGED <<log, tail, waiting, hostVars>>

(* The oldest staged command of t reaches the ring. *)
PublishStaged(t) ==
  /\ staging[t] # <<>>
  /\ Publish(Head(staging[t]))
  /\ staging' = [staging EXCEPT ![t] = Tail(@)]
  /\ UNCHANGED <<minted, held, waiting, hostVars>>

(* npt_call_*: the thread waits for its reply, whose slot starts zeroed. *)
SyncCall(t, self, arg, outs) ==
  /\ waiting[t] = 0
  /\ staging[t] = <<>>
  /\ Mint(outs)
  /\ Publish(Call(t, self, arg, outs, TRUE))
  /\ waiting' = [waiting EXCEPT ![t] = Len(log) + 1]
  /\ UNCHANGED <<staging, held, hostVars>>

(* The host passed the command, or the ring is gone: the thunk decodes the *)
(* reply and frees it; an empty slot is DXGI_ERROR_DEVICE_REMOVED.  Each   *)
(* object of a call that succeeded gets its wrapper.  Otherwise the shape  *)
(* of the method decides which ids do: the thunk discards single handles   *)
(* of a method with an HRESULT and canonical slots without a reference; it *)
(* wraps all it minted for any other method, and for other arrays.         *)
SyncReturn(t) ==
  /\ waiting[t] # 0
  /\ head[RingOf[t]] >= waiting[t] \/ fatal
  /\ \E kept \in SUBSET log[waiting[t]].outs :
       /\ reply[t] = "ok" =>
            {x \in log[waiting[t]].outs : table[x] = "live"} \subseteq kept
       /\ held' = held \cup kept
  /\ waiting' = [waiting EXCEPT ![t] = 0]
  /\ reply' = [reply EXCEPT ![t] = "none"]
  /\ UNCHANGED <<log, tail, minted, staging, head, phase, table, fatal,
                 faulted, dropped>>

(* The last reference to a wrapper goes away. *)
ReleaseWrapper(t, x) ==
  /\ waiting[t] = 0
  /\ staging[t] = <<>>
  /\ x \in held
  /\ Publish(Release(t, x))
  /\ held' = held \ {x}
  /\ UNCHANGED <<minted, staging, waiting, hostVars>>

EmitWaitPeer(t, q) ==
  /\ waiting[t] = 0
  /\ staging[t] = <<>>
  /\ q # RingOf[t] /\ tail[q] # 0
  /\ Cardinality({n \in DOMAIN log : log[n].kind = "wait"}) < MaxEdges
  /\ Publish(WaitPeer(t, q))
  /\ UNCHANGED <<guestVars, hostVars>>

-----------------------------------------------------------------------------
(* Host: dispatch on a ring thread *)

Advance(r, n) ==
  /\ head' = [head EXCEPT ![r] = n]
  /\ phase' = [phase EXCEPT ![r] = "fetch"]

WaitsMet(c) == \A q \in Ring : head[q] >= c.waits[q]

KeepTable(outs) == table
RegisterOnlyFailed(outs) == [x \in outs |-> "failed"]

(* The ids of a call that is dropped: later uses fail instead of waiting. *)
RegisterFailed(outs) ==
  [x \in Id |-> IF x \in outs THEN "failed" ELSE table[x]]

RegisterNonNull(outs, bad) ==
  [x \in Id |-> IF x \in outs \ bad THEN "live" ELSE table[x]]

(* The ids of a call that ran: a slot left NULL is a failed object too. *)
RegisterOutputs(outs, bad) ==
  [x \in Id |-> IF x \in bad THEN "failed"
                ELSE IF x \in outs THEN "live"
                ELSE table[x]]

(* A handle of the call does not name an object.  A call that owes a reply *)
(* takes the context down; another is dropped and its output ids answered. *)
Miss(r, n) ==
  IF log[n].reply
  THEN /\ fatal' = TRUE
       /\ UNCHANGED <<head, phase, table, dropped>>
  ELSE /\ table' = RegisterFailed(log[n].outs)
       /\ dropped' = dropped \cup {n}
       /\ Advance(r, n)
       /\ UNCHANGED fatal

(* npt_dispatch_*: look self up.  An id nobody registered yet blocks.  A    *)
(* top-level function has no self, a call may have no input handle.        *)
LookupSelf(r, n) ==
  /\ ~fatal
  /\ IsNext(r, n) /\ log[n].kind = "call" /\ phase[r] = "fetch"
  /\ log[n].self # NoId
  /\ table[log[n].self] # "absent"
  /\ IF table[log[n].self] = "live"
     THEN /\ phase' = [phase EXCEPT ![r] =
                         IF log[n].arg = NoId THEN "run" ELSE "args"]
          /\ UNCHANGED <<head, table, fatal, dropped>>
     ELSE Miss(r, n)
  /\ UNCHANGED <<log, tail, guestVars, reply, faulted>>

(* npt_replace_*_args_handle: look the input handle up. *)
LookupArg(r, n) ==
  /\ ~fatal
  /\ IsNext(r, n) /\ log[n].kind = "call"
  /\ phase[r] = "args" \/ (phase[r] = "fetch" /\ log[n].self = NoId)
  /\ log[n].arg # NoId
  /\ table[log[n].arg] # "absent"
  /\ IF table[log[n].arg] = "live"
     THEN /\ phase' = [phase EXCEPT ![r] = "run"]
          /\ UNCHANGED <<head, table, fatal, dropped>>
     ELSE Miss(r, n)
  /\ UNCHANGED <<log, tail, guestVars, reply, faulted>>

(* The backend runs, producing all of `outs' but `bad'; the ids are        *)
(* registered; a reply is written unless a decoder went fatal meanwhile or *)
(* the encoder cannot be acquired.                                         *)
Execute(r, n, hr, bad, acquired) ==
  /\ IsNext(r, n) /\ log[n].kind = "call"
  /\ phase[r] = "run" \/ (Uses(log[n]) = {} /\ ~fatal)
  /\ table' = RegisterOutputs(log[n].outs, bad)
  /\ faulted' = (faulted \/ bad # {})
  /\ reply' = IF log[n].reply /\ ~fatal /\ acquired
              THEN [reply EXCEPT ![log[n].thread] = hr]
              ELSE reply
  /\ Advance(r, n)
  /\ UNCHANGED <<log, tail, guestVars, fatal, dropped>>

(* COM_RELEASE runs once every other ring decoded past its entry. *)
ReleaseObject(r, n) ==
  /\ ~fatal
  /\ IsNext(r, n) /\ log[n].kind = "release"
  /\ WaitsMet(log[n])
  /\ table' = [table EXCEPT ![log[n].self] = "released"]
  /\ Advance(r, n)
  /\ UNCHANGED <<log, tail, guestVars, fatal, reply, faulted, dropped>>

PassWaitPeer(r, n) ==
  /\ ~fatal
  /\ IsNext(r, n) /\ log[n].kind = "wait"
  /\ WaitsMet(log[n])
  /\ Advance(r, n)
  /\ UNCHANGED <<log, tail, guestVars, table, fatal, reply, faulted, dropped>>

-----------------------------------------------------------------------------
Init ==
  /\ log = <<>>
  /\ tail = [r \in Ring |-> 0]
  /\ head = [r \in Ring |-> 0]
  /\ phase = [r \in Ring |-> "fetch"]
  /\ table = [x \in Id |-> IF x \in Roots THEN "live" ELSE "absent"]
  /\ fatal = FALSE
  /\ minted = Roots
  /\ staging = [t \in Thread |-> <<>>]
  /\ held = Roots
  /\ waiting = [t \in Thread |-> 0]
  /\ reply = [t \in Thread |-> "none"]
  /\ faulted = FALSE
  /\ dropped = {}

ThreadStep(t) ==
  \/ \E self \in Nameable, arg \in Nameable, outs \in SUBSET (Id \ minted) :
        \/ AsyncCall(t, self, arg, outs)
        \/ StagedCall(t, self, arg, outs)
        \/ SyncCall(t, self, arg, outs)
  \/ PublishStaged(t)
  \/ SyncReturn(t)
  \/ \E x \in held : ReleaseWrapper(t, x)
  \/ \E q \in Ring : EmitWaitPeer(t, q)

RingStep(r) ==
  \E n \in DOMAIN log :
    \/ LookupSelf(r, n)
    \/ LookupArg(r, n)
    \/ \E hr \in {"ok", "fail"}, bad \in SUBSET log[n].outs,
          acquired \in BOOLEAN : Execute(r, n, hr, bad, acquired)
    \/ ReleaseObject(r, n)
    \/ PassWaitPeer(r, n)

Next == (\E t \in Thread : ThreadStep(t)) \/ (\E r \in Ring : RingStep(r))

(* The host gives every ring a thread of its own, and a guest thread that  *)
(* waits spins on the ring head.  Nothing obliges an application to call   *)
(* again, nor a thread to publish what it staged.                          *)
Fairness ==
  /\ \A r \in Ring : WF_vars(RingStep(r))
  /\ \A t \in Thread : WF_vars(SyncReturn(t))

Spec == Init /\ [][Next]_vars
FairSpec == Spec /\ Fairness

-----------------------------------------------------------------------------
(* The contract: what a command asks, without the way it takes.  A command *)
(* comes after what is ahead of it on its ring, and what it waits for.     *)
After(n) ==
  {m \in 1..(n - 1) :
     log[m].ring = log[n].ring \/ m <= log[n].waits[log[m].ring]}

Asked(n) ==
  [thread |-> log[n].thread,
   uses   |-> IF log[n].kind = "call" THEN Uses(log[n]) ELSE {},
   outs   |-> log[n].outs,
   sync   |-> log[n].reply,
   frees  |-> IF log[n].kind = "release" THEN {log[n].self} ELSE {},
   after  |-> After(n)]

Issued == [n \in 1..Len(log) |-> Asked(n)]
Over == {n \in 1..Len(log) : Decoded(n)}

Contract == INSTANCE CallContract WITH issued <- Issued, over <- Over

-----------------------------------------------------------------------------
(* Properties *)

TypeOK ==
  /\ log \in Seq(Command)
  /\ tail \in [Ring -> Nat]
  /\ head \in [Ring -> Nat]
  /\ phase \in [Ring -> {"fetch", "args", "run"}]
  /\ table \in [Id -> {"absent", "live", "failed", "released"}]
  /\ fatal \in BOOLEAN
  /\ minted \in SUBSET Id
  /\ staging \in [Thread -> Seq(Command)]
  /\ held \in SUBSET Id
  /\ waiting \in [Thread -> 0..Len(log)]
  /\ reply \in [Thread -> {"none", "ok", "fail"}]
  /\ faulted \in BOOLEAN
  /\ dropped \in SUBSET Nat

Answered(x) == x = NoId \/ table[x] # "absent"

(* The host thread of r has a command it need not wait to go on with. *)
Runnable(r) ==
  \E n \in DOMAIN log :
    /\ IsNext(r, n)
    /\ WaitsMet(log[n])
    /\ log[n].kind = "call" =>
         /\ phase[r] = "fetch" => Answered(log[n].self)
         /\ phase[r] = "args" \/ log[n].self = NoId => Answered(log[n].arg)

(* Blocking lookups, release waits and peer edges never leave the rings    *)
(* waiting on one another: while the context is alive and a command is     *)
(* undecoded, some ring thread can go on.                                  *)
RingsNeverStuck ==
  ~fatal /\ (\E r \in Ring : Undecoded(r) # {}) => \E r \in Ring : Runnable(r)

(* A call the host is done with, run or dropped, has answered every id it  *)
(* minted, so no later use waits for a registration that never comes.      *)
OutputsAnswered ==
  \A n \in DOMAIN log : Decoded(n) =>
    \A x \in log[n].outs : table[x] # "absent"

(* A release never overtakes a use that was published before it: what is   *)
(* still undecoded, or being executed, when the object is gone came late.  *)
ReleaseWaitsForUses ==
  \A n \in DOMAIN log : \A x \in Uses(log[n]) :
    table[x] = "released" /\ ~Decoded(n) =>
      \E m \in 1..(n - 1) : Releases(m, x)

(* As long as the backend produces every object it is asked for, the       *)
(* context survives and the only calls lost are ones a thread still had    *)
(* staged when another thread released the object: calls without outputs.  *)
OnlyFailuresLoseCalls ==
  ~faulted =>
    /\ ~fatal
    /\ \A n \in dropped :
         /\ log[n].outs = {}
         /\ \E m \in 1..(n - 1) : \E x \in Uses(log[n]) : Releases(m, x)

(* An id is registered once and released once, in that order, whichever    *)
(* rings carry the Create and the release.                                 *)
IdLifeCycle ==
  [][\A x \in Id : table'[x] # table[x] =>
       \/ table[x] = "absent" /\ table'[x] \in {"live", "failed"}
       \/ table[x] \in {"live", "failed"} /\ table'[x] = "released"]_table

(* The rings, lookups that block, edges and drops implement the contract:  *)
(* whatever rings and buffers commands travel on, calls take effect one at *)
(* a time, in the order of their threads, on objects that exist, and an    *)
(* object goes away behind every call issued before its release.           *)
ImplementsContract == Contract!Spec

(* client.c says of a failed asynchronous Create that the first method     *)
(* call against the wrapper trips decoder_fatal.                           *)
FirstUseOfFailedIsFatal ==
  \A n \in dropped :
    log[n].self # NoId /\ table[log[n].self] = "failed" => fatal

(* Every published command is decoded, unless the context goes fatal. *)
PublishedIsDecoded ==
  \A n \in 1..MaxLog :
    n \in DOMAIN log ~> fatal \/ (n \in DOMAIN log /\ Decoded(n))

(* A thread that waits for a reply does not wait for ever. *)
SyncCallsReturn == \A t \in Thread : waiting[t] # 0 ~> waiting[t] = 0

=============================================================================
