------------------------- MODULE ObjectCallsProofs -------------------------
(***************************************************************************)
(* Proofs about ObjectCalls, for every number of threads, rings and ids    *)
(* and whatever the bounds.                                                *)
(***************************************************************************)
EXTENDS ObjectCalls, WellFoundedInduction, SequenceTheorems, TLAPS

-----------------------------------------------------------------------------
(* The inductive invariant *)

(* x was registered at the start or is minted by a call published before n.*)
Created(x, n) == x \in Roots \/ \E m \in 1..(n - 1) : x \in log[m].outs

(* What a published command looks like. *)
LogOK ==
  \A n \in DOMAIN log :
    /\ log[n].ring = RingOf[log[n].thread]
    /\ \A x \in Uses(log[n]) : Created(x, n)
    /\ log[n].kind = "release" => log[n].self # NoId
    /\ log[n].kind = "call" => log[n].waits = NoWaits
    /\ log[n].kind # "call" => log[n].outs = {}
    /\ log[n].outs \subseteq minted

(* What a staged command looks like. *)
StagedOK ==
  \A t \in Thread : \A i \in DOMAIN staging[t] :
    LET c == staging[t][i] IN
    /\ c.kind = "call" /\ c.thread = t /\ c.ring = RingOf[t]
    /\ c.outs = {} /\ ~c.reply /\ c.waits = NoWaits
    /\ \A x \in Uses(c) : Created(x, Len(log) + 1)

(* Heads, tails and the log agree. *)
PositionsOK ==
  /\ \A r \in Ring : /\ head[r] <= tail[r]
                     /\ tail[r] <= Len(log)
                     /\ tail[r] # 0 => log[tail[r]].ring = r
  /\ \A n \in DOMAIN log : n <= tail[log[n].ring]

(* Every wait is for something published earlier. *)
WaitsPointBack ==
  \A n \in DOMAIN log : \A q \in Ring :
    log[n].waits[q] # 0 =>
      /\ log[n].waits[q] < n
      /\ log[log[n].waits[q]].ring = q

(* A wait that was met stays met. *)
WaitsStayMet ==
  \A n \in DOMAIN log : Decoded(n) =>
    \A q \in Ring : head[q] >= log[n].waits[q]

(* A release is behind everything published before it. *)
ReleaseCoversOlder ==
  \A m \in DOMAIN log : log[m].kind = "release" =>
    \A n \in 1..(m - 1) :
      log[n].ring = log[m].ring \/ n <= log[m].waits[log[n].ring]

(* Each id is minted by one call and unregistered until that call is done. *)
OutsFresh ==
  /\ \A n \in DOMAIN log : log[n].outs \cap Roots = {}
  /\ \A n, m \in DOMAIN log : n # m => log[n].outs \cap log[m].outs = {}
  /\ \A n \in DOMAIN log : ~Decoded(n) =>
       \A x \in log[n].outs : table[x] = "absent"
  /\ \A x \in Roots : table[x] # "absent"
  /\ \A x \in Id \ minted : table[x] = "absent"
  /\ Roots \subseteq minted

(* A held wrapper is not released, nor is one a waiting caller will get. *)
HeldOK ==
  /\ \A x \in held : x \in minted /\ Created(x, Len(log) + 1)
  /\ \A t \in Thread : waiting[t] # 0 =>
       /\ waiting[t] \in DOMAIN log
       /\ log[waiting[t]].thread = t
       /\ log[waiting[t]].outs \cap held = {}

ReleasedNotHeld ==
  \A m \in DOMAIN log : log[m].kind = "release" =>
    /\ log[m].self \notin held
    /\ \A t \in Thread :
         waiting[t] # 0 => log[m].self \notin log[waiting[t]].outs

(* What comes after a release of an object is no release of it, and if it  *)
(* still uses the object, it owes no reply and mints no id.                *)
UsesAfterRelease ==
  \A m \in DOMAIN log : log[m].kind = "release" =>
    \A n \in (m + 1)..Len(log) :
      /\ ~Releases(n, log[m].self)
      /\ log[n].reply \/ log[n].outs # {} => log[m].self \notin Uses(log[n])

(* The table follows the releases decoded. *)
ReleasedOK ==
  \A x \in Id : table[x] = "released" =>
    \E m \in DOMAIN log : Releases(m, x) /\ Decoded(m)

LossOK ==
  /\ dropped \subseteq DOMAIN log
  /\ ~faulted => \A x \in Id : table[x] # "failed"

(* The parts about the log, which only grows. *)
LogInv ==
  /\ LogOK /\ StagedOK /\ PositionsOK /\ WaitsPointBack
  /\ ReleaseCoversOlder /\ HeldOK /\ ReleasedNotHeld /\ UsesAfterRelease

(* The parts about how far the host is. *)
HostInv ==
  /\ WaitsStayMet /\ OutsFresh /\ OutputsAnswered /\ ReleasedOK /\ LossOK
  /\ OnlyFailuresLoseCalls

IInv == TypeOK /\ LogInv /\ HostInv

-----------------------------------------------------------------------------
(* Sequences *)

LEMMA AppendFacts ==
  ASSUME NEW S, NEW s \in Seq(S), NEW e \in S
  PROVE  /\ Append(s, e) \in Seq(S)
         /\ DOMAIN s = 1..Len(s)
         /\ Len(s) \in Nat
         /\ Len(Append(s, e)) = Len(s) + 1
         /\ DOMAIN Append(s, e) = 1..(Len(s) + 1)
         /\ \A i \in 1..Len(s) : Append(s, e)[i] = s[i]
         /\ Append(s, e)[Len(s) + 1] = e
OBVIOUS

LEMMA HeadTailFacts ==
  ASSUME NEW S, NEW s \in Seq(S), s # <<>>
  PROVE  /\ Head(s) \in S
         /\ Head(s) = s[1]
         /\ 1 \in DOMAIN s
         /\ Tail(s) \in Seq(S)
         /\ \A i \in DOMAIN Tail(s) : i + 1 \in DOMAIN s /\ Tail(s)[i] = s[i + 1]
OBVIOUS

-----------------------------------------------------------------------------
(* Type correctness *)

LEMMA CallIsCommand ==
  ASSUME NEW t \in Thread, NEW self \in Id \cup {NoId}, NEW arg \in Id \cup {NoId},
         NEW outs \in SUBSET Id, NEW owesReply \in BOOLEAN
  PROVE  Call(t, self, arg, outs, owesReply) \in Command
BY RingOfType DEF Call, Command, NoWaits

LEMMA ReleaseIsCommand ==
  ASSUME TypeOK, NEW t \in Thread, NEW x \in Id
  PROVE  Release(t, x) \in Command
BY RingOfType DEF Release, ReleaseWaits, Command, TypeOK

LEMMA WaitPeerIsCommand ==
  ASSUME TypeOK, NEW t \in Thread, NEW q \in Ring
  PROVE  WaitPeer(t, q) \in Command
BY RingOfType DEF WaitPeer, NoWaits, Command, TypeOK

(* Publishing a command keeps the types of the log and the tails. *)
LEMMA PublishTypes ==
  ASSUME TypeOK, NEW c \in Command, Publish(c)
  PROVE  /\ log' \in Seq(Command)
         /\ tail' \in [Ring -> Nat]
         /\ Len(log') = Len(log) + 1
         /\ waiting \in [Thread -> 0..Len(log')]
BY AppendFacts DEF Publish, TypeOK, Command

(* So does a call whose handle is missed. *)
LEMMA MissTypes ==
  ASSUME TypeOK, NEW r \in Ring, NEW n \in DOMAIN log, Miss(r, n)
  PROVE  /\ head' \in [Ring -> Nat]
         /\ phase' \in [Ring -> {"fetch", "args", "run"}]
         /\ table' \in [Id -> {"absent", "live", "failed", "released"}]
         /\ fatal' \in BOOLEAN
         /\ dropped' \in SUBSET Nat
<1>1. CASE log[n].reply
  BY <1>1 DEF Miss, TypeOK
<1>2. CASE ~log[n].reply
  <2>0. n \in Nat
    BY DEF TypeOK
  <2>1. dropped' \in SUBSET Nat
    BY <1>2, <2>0 DEF Miss, TypeOK
  <2>2. table' \in [Id -> {"absent", "live", "failed", "released"}]
    BY <1>2 DEF Miss, RegisterFailed, TypeOK
  <2> QED
    BY <1>2, <2>0, <2>1, <2>2 DEF Miss, Advance, TypeOK
<1> QED
  BY <1>1, <1>2

THEOREM TypeCorrect == Spec => []TypeOK
<1>1. Init => TypeOK
  <2> SUFFICES ASSUME Init PROVE TypeOK
    OBVIOUS
  <2>1. log \in Seq(Command) /\ waiting \in [Thread -> 0..Len(log)]
    BY DEF Init
  <2>2. staging \in [Thread -> Seq(Command)]
    BY DEF Init
  <2>3. table \in [Id -> {"absent", "live", "failed", "released"}]
    BY DEF Init
  <2> QED
    BY <2>1, <2>2, <2>3, RootsType DEF Init, TypeOK
<1>2. TypeOK /\ [Next]_vars => TypeOK'
  <2> SUFFICES ASSUME TypeOK, [Next]_vars PROVE TypeOK'
    OBVIOUS
  <2>1. ASSUME NEW t \in Thread, NEW self \in Nameable, NEW arg \in Nameable,
               NEW outs \in SUBSET (Id \ minted), AsyncCall(t, self, arg, outs)
        PROVE  TypeOK'
    <3>1. Call(t, self, arg, outs, FALSE) \in Command
      BY CallIsCommand DEF Nameable, TypeOK
    <3>2. /\ log' \in Seq(Command) /\ tail' \in [Ring -> Nat]
          /\ Len(log') = Len(log) + 1 /\ waiting \in [Thread -> 0..Len(log')]
      BY <2>1, <3>1, PublishTypes DEF AsyncCall
    <3>3. minted' \in SUBSET Id /\ held' \in SUBSET Id
      BY <2>1 DEF AsyncCall, Mint, TypeOK
    <3> QED
      BY <2>1, <3>2, <3>3 DEF AsyncCall, TypeOK, hostVars
  <2>2. ASSUME NEW t \in Thread, NEW self \in Nameable, NEW arg \in Nameable,
               NEW outs \in SUBSET (Id \ minted), StagedCall(t, self, arg, outs)
        PROVE  TypeOK'
    <3>1. Call(t, self, arg, outs, FALSE) \in Command
      BY CallIsCommand DEF Nameable, TypeOK
    <3>2. Append(staging[t], Call(t, self, arg, outs, FALSE)) \in Seq(Command)
      BY <3>1, AppendFacts DEF TypeOK
    <3>3. staging' \in [Thread -> Seq(Command)]
      BY <2>2, <3>2 DEF StagedCall, TypeOK
    <3>4. minted' \in SUBSET Id /\ held' \in SUBSET Id
      BY <2>2 DEF StagedCall, Mint, TypeOK
    <3> QED
      BY <2>2, <3>3, <3>4 DEF StagedCall, TypeOK, hostVars
  <2>3. ASSUME NEW t \in Thread, NEW self \in Nameable, NEW arg \in Nameable,
               NEW outs \in SUBSET (Id \ minted), SyncCall(t, self, arg, outs)
        PROVE  TypeOK'
    <3>1. Call(t, self, arg, outs, TRUE) \in Command
      BY CallIsCommand DEF Nameable, TypeOK
    <3>2. /\ log' \in Seq(Command) /\ tail' \in [Ring -> Nat]
          /\ Len(log') = Len(log) + 1 /\ waiting \in [Thread -> 0..Len(log')]
      BY <2>3, <3>1, PublishTypes DEF SyncCall
    <3>3. minted' \in SUBSET Id /\ waiting' \in [Thread -> 0..Len(log')]
      BY <2>3, <3>2 DEF SyncCall, Mint, TypeOK
    <3> QED
      BY <2>3, <3>2, <3>3 DEF SyncCall, TypeOK, hostVars
  <2>4. ASSUME NEW t \in Thread, PublishStaged(t)
        PROVE  TypeOK'
    <3>1. Head(staging[t]) \in Command /\ Tail(staging[t]) \in Seq(Command)
      BY <2>4, HeadTailFacts DEF PublishStaged, TypeOK
    <3>2. /\ log' \in Seq(Command) /\ tail' \in [Ring -> Nat]
          /\ Len(log') = Len(log) + 1 /\ waiting \in [Thread -> 0..Len(log')]
      BY <2>4, <3>1, PublishTypes DEF PublishStaged
    <3>3. staging' \in [Thread -> Seq(Command)]
      BY <2>4, <3>1 DEF PublishStaged, TypeOK
    <3> QED
      BY <2>4, <3>2, <3>3 DEF PublishStaged, TypeOK, hostVars
  <2>5. ASSUME NEW t \in Thread, SyncReturn(t)
        PROVE  TypeOK'
    <3>1. log[waiting[t]].outs \in SUBSET Id
      <4>1. log[waiting[t]] \in Command
        BY <2>5 DEF SyncReturn, TypeOK
      <4> QED
        BY <4>1 DEF Command
    <3>2. held' \in SUBSET Id
      <4>1. held' \subseteq held \cup log[waiting[t]].outs
        BY <2>5 DEF SyncReturn
      <4> QED
        BY <3>1, <4>1 DEF TypeOK
    <3> QED
      BY <2>5, <3>2 DEF SyncReturn, TypeOK
  <2>6. ASSUME NEW t \in Thread, NEW x \in held, ReleaseWrapper(t, x)
        PROVE  TypeOK'
    <3>1. Release(t, x) \in Command
      BY ReleaseIsCommand DEF TypeOK
    <3>2. /\ log' \in Seq(Command) /\ tail' \in [Ring -> Nat]
          /\ Len(log') = Len(log) + 1 /\ waiting \in [Thread -> 0..Len(log')]
      BY <2>6, <3>1, PublishTypes DEF ReleaseWrapper
    <3> QED
      BY <2>6, <3>2 DEF ReleaseWrapper, TypeOK, hostVars
  <2>7. ASSUME NEW t \in Thread, NEW q \in Ring, EmitWaitPeer(t, q)
        PROVE  TypeOK'
    <3>1. WaitPeer(t, q) \in Command
      BY WaitPeerIsCommand
    <3>2. /\ log' \in Seq(Command) /\ tail' \in [Ring -> Nat]
          /\ Len(log') = Len(log) + 1 /\ waiting \in [Thread -> 0..Len(log')]
      BY <2>7, <3>1, PublishTypes DEF EmitWaitPeer
    <3> QED
      BY <2>7, <3>2 DEF EmitWaitPeer, TypeOK, guestVars, hostVars
  <2>8. ASSUME NEW r \in Ring, NEW n \in DOMAIN log,
               LookupSelf(r, n) \/ LookupArg(r, n)
        PROVE  TypeOK'
    <3>1. n \in Nat
      BY DEF TypeOK
    <3>2. /\ head' \in [Ring -> Nat]
          /\ phase' \in [Ring -> {"fetch", "args", "run"}]
          /\ table' \in [Id -> {"absent", "live", "failed", "released"}]
          /\ fatal' \in BOOLEAN
          /\ dropped' \in SUBSET Nat
      <4>1. CASE LookupSelf(r, n)
        BY <3>1, <4>1, MissTypes DEF LookupSelf, TypeOK
      <4>2. CASE LookupArg(r, n)
        BY <3>1, <4>2, MissTypes DEF LookupArg, TypeOK
      <4> QED
        BY <2>8, <4>1, <4>2
    <3> QED
      BY <2>8, <3>2 DEF LookupSelf, LookupArg, TypeOK, guestVars
  <2>9. ASSUME NEW r \in Ring, NEW n \in DOMAIN log, NEW hr \in {"ok", "fail"},
               NEW bad \in SUBSET log[n].outs, NEW acquired \in BOOLEAN,
               Execute(r, n, hr, bad, acquired)
        PROVE  TypeOK'
    <3>1. n \in Nat
      BY DEF TypeOK
    <3>2. reply' \in [Thread -> {"none", "ok", "fail"}]
      BY <2>9 DEF Execute, TypeOK
    <3>3. /\ head' \in [Ring -> Nat]
          /\ phase' \in [Ring -> {"fetch", "args", "run"}]
          /\ table' \in [Id -> {"absent", "live", "failed", "released"}]
          /\ faulted' \in BOOLEAN
      BY <2>9, <3>1 DEF Execute, RegisterOutputs, Advance, TypeOK
    <3> QED
      BY <2>9, <3>2, <3>3 DEF Execute, TypeOK, guestVars
  <2>10. ASSUME NEW r \in Ring, NEW n \in DOMAIN log,
                ReleaseObject(r, n) \/ PassWaitPeer(r, n)
         PROVE  TypeOK'
    <3>1. n \in Nat
      BY DEF TypeOK
    <3>2. CASE ReleaseObject(r, n)
      BY <3>1, <3>2 DEF ReleaseObject, Advance, TypeOK, guestVars
    <3>3. CASE PassWaitPeer(r, n)
      BY <3>1, <3>3 DEF PassWaitPeer, Advance, TypeOK, guestVars
    <3> QED
      BY <2>10, <3>2, <3>3
  <2>11. CASE UNCHANGED vars
    BY <2>11 DEF vars, TypeOK
  <2> QED
    BY <2>1, <2>2, <2>3, <2>4, <2>5, <2>6, <2>7, <2>8, <2>9, <2>10, <2>11
    DEF Next, ThreadStep, RingStep
<1> QED
  BY <1>1, <1>2, PTL DEF Spec

-----------------------------------------------------------------------------
(* Publishing a command *)

(* What the actions of a guest thread guarantee of a command they publish. *)
Publishable(c) ==
  /\ c.ring = RingOf[c.thread]
  /\ \A x \in Uses(c) : Created(x, Len(log) + 1)
  /\ c.kind = "release" => c.self \in held /\ c.waits = ReleaseWaits(c.thread)
  /\ c.kind = "call" => c.waits = NoWaits
  /\ c.kind # "call" => c.outs = {}
  /\ c.outs \cap minted = {}
  /\ \A q \in Ring : c.waits[q] # 0 => c.waits[q] = tail[q]
  /\ c.reply \/ c.outs # {} => Uses(c) \subseteq held

(* A publication adds the command at the end of the log and of its ring. *)
LEMMA PublishFacts ==
  ASSUME TypeOK, NEW c \in Command, Publish(c)
  PROVE  /\ Len(log) \in Nat
         /\ DOMAIN log = 1..Len(log)
         /\ Len(log') = Len(log) + 1
         /\ DOMAIN log' = 1..(Len(log) + 1)
         /\ \A n \in 1..Len(log) : log'[n] = log[n] /\ log[n] \in Command
         /\ log'[Len(log) + 1] = c
         /\ \A r \in Ring : tail'[r] = IF r = c.ring THEN Len(log) + 1 ELSE tail[r]
         /\ c.ring \in Ring
<1>1. /\ Len(log) \in Nat
      /\ DOMAIN log = 1..Len(log)
      /\ Len(log') = Len(log) + 1
      /\ DOMAIN log' = 1..(Len(log) + 1)
      /\ \A n \in 1..Len(log) : log'[n] = log[n]
      /\ log'[Len(log) + 1] = c
  BY AppendFacts DEF Publish, TypeOK
<1>2. \A n \in 1..Len(log) : log[n] \in Command
  BY <1>1 DEF TypeOK
<1>3. c.ring \in Ring
  BY DEF Command
<1>4. \A r \in Ring : tail'[r] = IF r = c.ring THEN Len(log) + 1 ELSE tail[r]
  BY <1>3 DEF Publish, TypeOK
<1> QED
  BY <1>1, <1>2, <1>3, <1>4

LEMMA CreatedStays ==
  ASSUME TypeOK, NEW c \in Command, Publish(c), NEW n \in 1..(Len(log) + 1),
         NEW x, Created(x, n)
  PROVE  Created(x, n)'
BY PublishFacts DEF Created

LEMMA CreatedByLast ==
  ASSUME TypeOK, NEW c \in Command, Publish(c), NEW x, 
         Created(x, Len(log) + 1) \/ x \in c.outs
  PROVE  Created(x, Len(log) + 1)'
<1>1. CASE Created(x, Len(log) + 1)
  BY <1>1, PublishFacts DEF Created
<1>2. CASE x \in c.outs
  BY <1>2, PublishFacts DEF Created
<1> QED
  BY <1>1, <1>2

LEMMA PublishLog ==
  ASSUME TypeOK, LogOK, PositionsOK, WaitsPointBack, ReleaseCoversOlder,
         ReleasedNotHeld, UsesAfterRelease,
         NEW c \in Command, Publishable(c), Publish(c),
         minted' = minted \cup c.outs, UNCHANGED head
  PROVE  /\ LogOK' /\ PositionsOK' /\ WaitsPointBack'
         /\ ReleaseCoversOlder' /\ UsesAfterRelease'
<1> DEFINE L == Len(log)
<1> USE PublishFacts
<1>1. LogOK'
  <2> SUFFICES ASSUME NEW n \in 1..(L + 1)
               PROVE  /\ log'[n].ring = RingOf[log'[n].thread]
                      /\ \A x \in Uses(log'[n]) : Created(x, n)'
                      /\ log'[n].kind = "release" => log'[n].self # NoId
                      /\ log'[n].kind = "call" => log'[n].waits = NoWaits
                      /\ log'[n].kind # "call" => log'[n].outs = {}
                      /\ log'[n].outs \subseteq minted'
    BY DEF LogOK, Uses, NoWaits
  <2>1. CASE n \in 1..L
    <3>1. \A x \in Uses(log[n]) : Created(x, n)'
      BY <2>1, CreatedStays DEF LogOK
    <3> QED
      BY <2>1, <3>1 DEF LogOK
  <2>2. CASE n = L + 1
    <3>1. \A x \in Uses(c) : Created(x, n)'
      BY <2>2, CreatedStays DEF Publishable
    <3>2. c.kind = "release" => c.self # NoId
      BY NoIdIsNoId DEF Publishable, TypeOK
    <3> QED
      BY <2>2, <3>1, <3>2 DEF Publishable
  <2> QED
    BY <2>1, <2>2
<1>2. PositionsOK'
  <2>1. ASSUME NEW r \in Ring
        PROVE  /\ head'[r] <= tail'[r] /\ tail'[r] <= L + 1
               /\ tail'[r] # 0 => log'[tail'[r]].ring = r
    <3>1. head[r] \in Nat /\ tail[r] \in Nat /\ head[r] <= tail[r] /\ tail[r] <= L
      BY DEF PositionsOK, TypeOK
    <3>2. CASE r = c.ring
      BY <3>1, <3>2
    <3>3. CASE r # c.ring
      <4>1. tail[r] # 0 => tail[r] \in 1..L /\ log[tail[r]].ring = r
        BY <3>1 DEF PositionsOK
      <4> QED
        BY <3>1, <3>3, <4>1
    <3> QED
      BY <3>2, <3>3
  <2>2. ASSUME NEW n \in 1..(L + 1)
        PROVE  n <= tail'[log'[n].ring]
    <3>1. CASE n \in 1..L
      <4>1. log[n].ring \in Ring /\ n <= tail[log[n].ring]
        BY <3>1 DEF PositionsOK, Command
      <4> QED
        BY <3>1, <4>1
    <3>2. CASE n = L + 1
      BY <3>2
    <3> QED
      BY <3>1, <3>2
  <2> QED
    BY <2>1, <2>2 DEF PositionsOK
<1>3. WaitsPointBack'
  <2> SUFFICES ASSUME NEW n \in 1..(L + 1), NEW q \in Ring, log'[n].waits[q] # 0
               PROVE  /\ log'[n].waits[q] < n
                      /\ log'[log'[n].waits[q]].ring = q
    BY DEF WaitsPointBack
  <2>1. CASE n \in 1..L
    <3>1. log[n].waits[q] \in Nat
      BY <2>1 DEF Command
    <3>2. log[n].waits[q] < n /\ log[log[n].waits[q]].ring = q
      BY <2>1 DEF WaitsPointBack
    <3> QED
      BY <2>1, <3>1, <3>2
  <2>2. CASE n = L + 1
    <3>1. c.waits[q] = tail[q] /\ tail[q] \in Nat /\ tail[q] # 0
      BY <2>2 DEF Publishable, TypeOK
    <3>2. tail[q] <= L /\ log[tail[q]].ring = q
      BY <3>1 DEF PositionsOK
    <3> QED
      BY <2>2, <3>1, <3>2
  <2> QED
    BY <2>1, <2>2
<1>4. ReleaseCoversOlder'
  <2> SUFFICES ASSUME NEW m \in 1..(L + 1), log'[m].kind = "release",
                      NEW n \in 1..(m - 1), log'[n].ring # log'[m].ring
               PROVE  n <= log'[m].waits[log'[n].ring]
    BY DEF ReleaseCoversOlder
  <2>0. n \in 1..L
    OBVIOUS
  <2>1. CASE m \in 1..L
    BY <2>0, <2>1 DEF ReleaseCoversOlder
  <2>2. CASE m = L + 1
    <3>1. log[n].ring \in Ring /\ n <= tail[log[n].ring]
      BY <2>0 DEF PositionsOK, Command
    <3>2. c.waits = ReleaseWaits(c.thread) /\ c.ring = RingOf[c.thread]
      BY <2>2 DEF Publishable
    <3>3. c.waits[log[n].ring] = tail[log[n].ring]
      BY <2>0, <2>2, <3>1, <3>2 DEF ReleaseWaits
    <3> QED
      BY <2>0, <2>2, <3>1, <3>3
  <2> QED
    BY <2>1, <2>2
<1>5. UsesAfterRelease'
  <2> SUFFICES ASSUME NEW m \in 1..(L + 1), log'[m].kind = "release",
                      NEW n \in (m + 1)..(L + 1)
               PROVE  /\ ~(log'[n].kind = "release" /\ log'[n].self = log'[m].self)
                      /\ log'[n].reply \/ log'[n].outs # {} =>
                           log'[m].self \notin Uses(log'[n])
    BY DEF UsesAfterRelease, Releases, Uses
  <2>0. m \in 1..L
    OBVIOUS
  <2>1. CASE n \in 1..L
    BY <2>0, <2>1 DEF UsesAfterRelease, Releases
  <2>2. CASE n = L + 1
    <3>1. log[m].self \notin held
      BY <2>0 DEF ReleasedNotHeld
    <3> QED
      BY <2>0, <2>2, <3>1 DEF Publishable
  <2> QED
    BY <2>1, <2>2
<1> QED
  BY <1>1, <1>2, <1>3, <1>4, <1>5

(* What the host has done is not affected. *)
LEMMA PublishHost ==
  ASSUME TypeOK, PositionsOK, LogOK, HostInv,
         NEW c \in Command, Publishable(c), Publish(c),
         minted' = minted \cup c.outs, UNCHANGED hostVars
  PROVE  HostInv'
<1> DEFINE L == Len(log)
<1> USE PublishFacts
<1>1. \A n \in 1..L : Decoded(n)' <=> Decoded(n)
  BY DEF Decoded, hostVars
<1>2. \A k \in {L + 1} : ~Decoded(k)'
  <2>1. /\ log'[L + 1].ring = c.ring /\ head'[c.ring] = head[c.ring]
        /\ head[c.ring] \in Nat /\ tail[c.ring] \in Nat
        /\ head[c.ring] <= tail[c.ring] /\ tail[c.ring] <= L
    BY DEF PositionsOK, TypeOK, hostVars
  <2> QED
    BY <2>1 DEF Decoded
<1>0. WaitsStayMet /\ OutsFresh /\ OutputsAnswered /\ ReleasedOK
  BY DEF HostInv
<1>3. WaitsStayMet'
  <2> SUFFICES ASSUME NEW n \in 1..(L + 1), Decoded(n)', NEW q \in Ring
               PROVE  head'[q] >= log'[n].waits[q]
    BY DEF WaitsStayMet
  <2>1. n \in 1..L /\ Decoded(n)
    BY <1>1, <1>2
  <2> QED
    BY <1>0, <2>1 DEF WaitsStayMet, hostVars
<1>4. OutsFresh'
  <2>1. /\ \A n \in 1..L : log[n].outs \cap c.outs = {}
        /\ c.outs \cap Roots = {}
    BY <1>0 DEF LogOK, OutsFresh, Publishable
  <2>2. \A x \in c.outs : table[x] = "absent"
    BY <1>0 DEF OutsFresh, Publishable, Command
  <2>3. /\ \A n \in 1..(L + 1) : log'[n].outs \cap Roots = {}
        /\ \A n, m \in 1..(L + 1) : n # m => log'[n].outs \cap log'[m].outs = {}
    BY <1>0, <2>1 DEF OutsFresh
  <2>4. ASSUME NEW n \in 1..(L + 1), ~Decoded(n)', NEW x \in log'[n].outs
        PROVE  table'[x] = "absent"
    BY <1>0, <1>1, <2>2, <2>4 DEF OutsFresh, hostVars
  <2> QED
    BY <1>0, <2>3, <2>4 DEF OutsFresh, hostVars
<1>5. OutputsAnswered'
  <2> SUFFICES ASSUME NEW n \in 1..(L + 1), Decoded(n)', NEW x \in log'[n].outs
               PROVE  table'[x] # "absent"
    BY DEF OutputsAnswered
  <2>1. n \in 1..L /\ Decoded(n)
    BY <1>1, <1>2
  <2> QED
    BY <1>0, <2>1 DEF OutputsAnswered, hostVars
<1>6. ReleasedOK'
  BY <1>0, <1>1 DEF ReleasedOK, Releases, hostVars
<1>7. LossOK' /\ OnlyFailuresLoseCalls'
  <2>1. dropped \subseteq 1..L
    BY DEF HostInv, LossOK
  <2>2. LossOK'
    BY <2>1 DEF HostInv, LossOK, hostVars
  <2>3. OnlyFailuresLoseCalls'
    <3> SUFFICES ASSUME ~faulted, NEW n \in dropped
                 PROVE  /\ ~fatal /\ log'[n].outs = {}
                        /\ \E m \in 1..(n - 1) : \E x \in Uses(log'[n]) :
                             log'[m].kind = "release" /\ log'[m].self = x
      BY DEF HostInv, OnlyFailuresLoseCalls, Releases, Uses, hostVars
    <3>1. log'[n] = log[n] /\ \A m \in 1..(n - 1) : log'[m] = log[m]
      BY <2>1
    <3> QED
      BY <3>1 DEF HostInv, OnlyFailuresLoseCalls, Releases
  <2> QED
    BY <2>2, <2>3
<1> QED
  BY <1>3, <1>4, <1>5, <1>6, <1>7 DEF HostInv

(* An id is created by minting it. *)
LEMMA CreatedIsMinted ==
  ASSUME TypeOK, LogOK, OutsFresh, NEW n \in 1..(Len(log) + 1), NEW x, Created(x, n)
  PROVE  x \in minted
<1>1. \A m \in 1..(n - 1) : m \in DOMAIN log /\ log[m].outs \subseteq minted
  BY DEF LogOK, TypeOK
<1> QED
  BY <1>1 DEF Created, OutsFresh

(* The whole invariant, given what the step does to the guest's own state. *)
LEMMA PublishPreserves ==
  ASSUME IInv, NEW c \in Command, Publishable(c), Publish(c),
         minted' = minted \cup c.outs, UNCHANGED hostVars,
         \A t \in Thread : \A i \in DOMAIN staging'[t] :
           \E j \in DOMAIN staging[t] : staging'[t][i] = staging[t][j],
         held' \subseteq held \cup c.outs,
         c.kind = "release" => c.self \notin held',
         \A t \in Thread :
           \/ waiting'[t] = waiting[t]
           \/ /\ waiting'[t] = Len(log) + 1
              /\ c.thread = t /\ held' \subseteq held
  PROVE  LogInv' /\ HostInv'
<1> DEFINE L == Len(log)
<1> USE PublishFacts
<1>1. TypeOK /\ LogInv /\ HostInv /\ OutsFresh /\ LogOK
  BY DEF IInv, LogInv, HostInv
<1>2. /\ LogOK' /\ PositionsOK' /\ WaitsPointBack'
      /\ ReleaseCoversOlder' /\ UsesAfterRelease'
  BY <1>1, PublishLog DEF LogInv, hostVars
<1>3. HostInv'
  BY <1>1, PublishHost DEF LogInv
<1>4. StagedOK'
  <2> SUFFICES ASSUME NEW t \in Thread, NEW j \in DOMAIN staging[t],
                      NEW x \in Uses(staging[t][j])
               PROVE  Created(x, Len(log) + 1)'
    BY <1>1 DEF LogInv, StagedOK, Uses, NoWaits
  <2>1. Created(x, Len(log) + 1)
    BY <1>1 DEF LogInv, StagedOK
  <2> QED
    BY <1>1, <2>1, CreatedByLast
<1>5. HeldOK'
  <2>1. ASSUME NEW x \in held'
        PROVE  x \in minted' /\ Created(x, Len(log) + 1)'
    <3>1. Created(x, Len(log) + 1) \/ x \in c.outs
      BY <1>1 DEF LogInv, HeldOK
    <3> QED
      BY <1>1, <3>1, CreatedByLast DEF LogInv, HeldOK
  <2>2. ASSUME NEW t \in Thread, waiting'[t] # 0
        PROVE  /\ waiting'[t] \in DOMAIN log'
               /\ log'[waiting'[t]].thread = t
               /\ log'[waiting'[t]].outs \cap held' = {}
    <3>1. CASE waiting'[t] = waiting[t]
      <4>1. /\ waiting[t] \in 1..L /\ log[waiting[t]].thread = t
            /\ log[waiting[t]].outs \cap held = {}
            /\ log[waiting[t]].outs \subseteq minted
        BY <1>1, <2>2, <3>1 DEF LogInv, HeldOK, LogOK
      <4> QED
        BY <1>1, <3>1, <4>1 DEF Publishable
    <3>2. CASE waiting'[t] = L + 1 /\ c.thread = t /\ held' \subseteq held
      <4>1. held \subseteq minted
        BY <1>1 DEF LogInv, HeldOK
      <4> QED
        BY <1>1, <3>2, <4>1 DEF Publishable
    <3> QED
      BY <3>1, <3>2
  <2> QED
    BY <2>1, <2>2 DEF HeldOK
<1>6. ReleasedNotHeld'
  <2>1. ASSUME NEW m \in 1..L, log[m].kind = "release"
        PROVE  /\ log[m].self \notin held'
               /\ \A t \in Thread :
                    waiting'[t] # 0 => log[m].self \notin log'[waiting'[t]].outs
    <3>1. log[m].self \in Uses(log[m]) /\ Created(log[m].self, m)
      BY <1>1, <2>1 DEF LogOK, Uses
    <3>2. log[m].self \in minted
      BY <1>1, <3>1, CreatedIsMinted
    <3>3. log[m].self \notin c.outs
      BY <3>2 DEF Publishable
    <3>4. log[m].self \notin held'
      BY <1>1, <2>1, <3>3 DEF LogInv, ReleasedNotHeld
    <3>5. ASSUME NEW t \in Thread, waiting'[t] # 0
          PROVE  log[m].self \notin log'[waiting'[t]].outs
      <4>1. CASE waiting'[t] = waiting[t]
        <5>1. waiting[t] \in 1..L
          BY <1>1, <3>5, <4>1 DEF LogInv, HeldOK
        <5> QED
          BY <1>1, <2>1, <3>5, <4>1, <5>1 DEF LogInv, ReleasedNotHeld
      <4>2. CASE waiting'[t] = L + 1
        BY <1>1, <3>3, <4>2
      <4> QED
        BY <4>1, <4>2
    <3> QED
      BY <3>4, <3>5
  <2>2. ASSUME c.kind = "release", NEW t \in Thread, waiting'[t] # 0
        PROVE  c.self \notin log'[waiting'[t]].outs
    <3>1. CASE waiting'[t] = waiting[t]
      <4>1. waiting[t] \in 1..L /\ log[waiting[t]].outs \cap held = {}
        BY <1>1, <2>2, <3>1 DEF LogInv, HeldOK
      <4> QED
        BY <1>1, <2>2, <3>1, <4>1 DEF Publishable
    <3>2. CASE waiting'[t] = L + 1
      BY <1>1, <2>2, <3>2 DEF Publishable
    <3> QED
      BY <3>1, <3>2
  <2> QED
    BY <1>1, <2>1, <2>2 DEF ReleasedNotHeld
<1> QED
  BY <1>2, <1>3, <1>4, <1>5, <1>6 DEF LogInv

-----------------------------------------------------------------------------
(* The steps of a guest thread *)

(* A direct call names held wrappers and mints fresh ids. *)
LEMMA CallIsPublishable ==
  ASSUME IInv, NEW t \in Thread, NEW self \in Nameable, NEW arg \in Nameable,
         NEW outs \in SUBSET Id, NEW owesReply \in BOOLEAN, Mint(outs)
  PROVE  /\ Call(t, self, arg, outs, owesReply) \in Command
         /\ Publishable(Call(t, self, arg, outs, owesReply))
<1> DEFINE c == Call(t, self, arg, outs, owesReply)
<1>1. c \in Command
  BY CallIsCommand DEF Nameable, IInv, TypeOK
<1>2. /\ c.kind = "call" /\ c.thread = t /\ c.ring = RingOf[t]
      /\ c.waits = NoWaits /\ c.outs = outs /\ c.self = self /\ c.arg = arg
  BY DEF Call
<1>3. Uses(c) \subseteq held
  BY <1>2 DEF Uses, Nameable
<1>4. \A x \in Uses(c) : Created(x, Len(log) + 1)
  BY <1>3 DEF IInv, LogInv, HeldOK
<1>5. \A q \in Ring : c.waits[q] = 0
  BY <1>2 DEF NoWaits
<1>6. c.outs \cap minted = {}
  BY <1>2 DEF Mint
<1> QED
  BY <1>1, <1>2, <1>3, <1>4, <1>5, <1>6 DEF Publishable

LEMMA AsyncCallPreserves ==
  ASSUME IInv, NEW t \in Thread, NEW self \in Nameable, NEW arg \in Nameable,
         NEW outs \in SUBSET (Id \ minted), AsyncCall(t, self, arg, outs)
  PROVE  LogInv' /\ HostInv'
<1> DEFINE c == Call(t, self, arg, outs, FALSE)
<1>1. c \in Command /\ Publishable(c)
  BY CallIsPublishable DEF AsyncCall
<1>2. c.kind = "call" /\ c.outs = outs
  BY DEF Call
<1>3. /\ Publish(c) /\ minted' = minted \cup c.outs
      /\ held' \subseteq held \cup c.outs
      /\ staging' = staging /\ waiting' = waiting /\ UNCHANGED hostVars
  BY <1>2 DEF AsyncCall, Mint
<1> HIDE DEF c
<1> QED
  BY <1>1, <1>2, <1>3, PublishPreserves

LEMMA SyncCallPreserves ==
  ASSUME IInv, NEW t \in Thread, NEW self \in Nameable, NEW arg \in Nameable,
         NEW outs \in SUBSET (Id \ minted), SyncCall(t, self, arg, outs)
  PROVE  LogInv' /\ HostInv'
<1> DEFINE c == Call(t, self, arg, outs, TRUE)
<1>1. c \in Command /\ Publishable(c)
  BY CallIsPublishable DEF SyncCall
<1>2. c.kind = "call" /\ c.outs = outs /\ c.thread = t
  BY DEF Call
<1>3. /\ Publish(c) /\ minted' = minted \cup c.outs
      /\ held' = held /\ staging' = staging /\ UNCHANGED hostVars
  BY <1>2 DEF SyncCall, Mint
<1>4. \A u \in Thread :
        \/ waiting'[u] = waiting[u]
        \/ waiting'[u] = Len(log) + 1 /\ c.thread = u /\ held' \subseteq held
  BY <1>2, <1>3 DEF SyncCall, IInv, TypeOK
<1> HIDE DEF c
<1> QED
  BY <1>1, <1>2, <1>3, <1>4, PublishPreserves

LEMMA PublishStagedPreserves ==
  ASSUME IInv, NEW t \in Thread, PublishStaged(t)
  PROVE  LogInv' /\ HostInv'
<1> DEFINE c == Head(staging[t])
<1>1. /\ staging[t] \in Seq(Command) /\ staging[t] # <<>>
  BY DEF PublishStaged, IInv, TypeOK
<1>2. c \in Command /\ c = staging[t][1] /\ 1 \in DOMAIN staging[t]
  BY <1>1, HeadTailFacts
<1>3. /\ c.kind = "call" /\ c.thread = t /\ c.ring = RingOf[t]
      /\ c.outs = {} /\ ~c.reply /\ c.waits = NoWaits
      /\ \A x \in Uses(c) : Created(x, Len(log) + 1)
  BY <1>2 DEF IInv, LogInv, StagedOK
<1> HIDE DEF c
<1>4. \A q \in Ring : c.waits[q] = 0
  BY <1>3 DEF NoWaits
<1>5. Publishable(c)
  BY <1>3, <1>4 DEF Publishable
<1>6. /\ Publish(c) /\ minted' = minted \cup c.outs
      /\ held' \subseteq held \cup c.outs
      /\ waiting' = waiting /\ UNCHANGED hostVars
  BY <1>3 DEF PublishStaged, c
<1>7. \A u \in Thread : \A i \in DOMAIN staging'[u] :
        \E j \in DOMAIN staging[u] : staging'[u][i] = staging[u][j]
  <2> SUFFICES ASSUME NEW u \in Thread, NEW i \in DOMAIN staging'[u]
               PROVE  \E j \in DOMAIN staging[u] : staging'[u][i] = staging[u][j]
    OBVIOUS
  <2>1. CASE u = t
    <3>1. staging'[t] = Tail(staging[t])
      BY DEF PublishStaged, IInv, TypeOK
    <3> QED
      BY <1>1, <2>1, <3>1, HeadTailFacts
  <2>2. CASE u # t
    BY <2>2 DEF PublishStaged, IInv, TypeOK
  <2> QED
    BY <2>1, <2>2
<1> QED
  BY <1>2, <1>3, <1>5, <1>6, <1>7, PublishPreserves

LEMMA ReleaseWrapperPreserves ==
  ASSUME IInv, NEW t \in Thread, NEW x \in held, ReleaseWrapper(t, x)
  PROVE  LogInv' /\ HostInv'
<1> DEFINE c == Release(t, x)
<1>1. c \in Command
  BY ReleaseIsCommand DEF IInv, TypeOK
<1>2. /\ c.kind = "release" /\ c.thread = t /\ c.ring = RingOf[t]
      /\ c.self = x /\ c.arg = NoId /\ c.outs = {} /\ ~c.reply
      /\ c.waits = ReleaseWaits(t)
  BY DEF Release
<1> HIDE DEF c
<1>3. Created(x, Len(log) + 1)
  BY DEF IInv, LogInv, HeldOK
<1>4. \A q \in Ring : c.waits[q] # 0 => c.waits[q] = tail[q]
  BY <1>2 DEF ReleaseWaits
<1>5. Publishable(c)
  BY <1>2, <1>3, <1>4 DEF Publishable, Uses
<1>6. /\ Publish(c) /\ minted' = minted \cup c.outs
      /\ held' \subseteq held \cup c.outs /\ c.self \notin held'
      /\ staging' = staging /\ waiting' = waiting /\ UNCHANGED hostVars
  BY <1>2 DEF ReleaseWrapper, c
<1> QED
  BY <1>1, <1>5, <1>6, PublishPreserves

LEMMA EmitWaitPeerPreserves ==
  ASSUME IInv, NEW t \in Thread, NEW q \in Ring, EmitWaitPeer(t, q)
  PROVE  LogInv' /\ HostInv'
<1> DEFINE c == WaitPeer(t, q)
<1>1. c \in Command
  BY WaitPeerIsCommand DEF IInv
<1>2. /\ c.kind = "wait" /\ c.thread = t /\ c.ring = RingOf[t]
      /\ c.self = NoId /\ c.arg = NoId /\ c.outs = {} /\ ~c.reply
      /\ c.waits = [NoWaits EXCEPT ![q] = tail[q]]
  BY DEF WaitPeer
<1> HIDE DEF c
<1>4. \A p \in Ring : c.waits[p] # 0 => c.waits[p] = tail[p]
  BY <1>2 DEF NoWaits
<1>5. Publishable(c)
  BY <1>2, <1>4 DEF Publishable, Uses
<1>6. /\ Publish(c) /\ minted' = minted \cup c.outs
      /\ held' \subseteq held \cup c.outs
      /\ staging' = staging /\ waiting' = waiting /\ UNCHANGED hostVars
  BY <1>2 DEF EmitWaitPeer, guestVars, c
<1> QED
  BY <1>1, <1>2, <1>5, <1>6, PublishPreserves

(* The host's part of the invariant does not look at what is staged or held. *)
LEMMA HostUnchanged ==
  ASSUME HostInv, UNCHANGED <<log, head, table, fatal, minted, faulted, dropped>>
  PROVE  HostInv'
<1>1. WaitsStayMet' /\ OutputsAnswered' /\ ReleasedOK'
  BY DEF HostInv, WaitsStayMet, OutputsAnswered, ReleasedOK, Decoded, Releases
<1>2. OutsFresh'
  BY DEF HostInv, OutsFresh, Decoded
<1>3. LossOK'
  BY DEF HostInv, LossOK
<1>4. OnlyFailuresLoseCalls'
  BY DEF HostInv, OnlyFailuresLoseCalls, Releases, Uses
<1> QED
  BY <1>1, <1>2, <1>3, <1>4 DEF HostInv

(* Staging touches neither the log nor the host. *)
LEMMA StagedCallPreserves ==
  ASSUME IInv, NEW t \in Thread, NEW self \in Nameable, NEW arg \in Nameable,
         NEW outs \in SUBSET (Id \ minted), StagedCall(t, self, arg, outs)
  PROVE  LogInv' /\ HostInv'
<1> DEFINE c == Call(t, self, arg, outs, FALSE)
<1>1. /\ outs = {} /\ minted' = minted /\ held' = held
      /\ UNCHANGED <<log, tail, waiting>>
      /\ UNCHANGED <<head, phase, table, fatal, reply, faulted, dropped>>
      /\ staging' = [staging EXCEPT ![t] = Append(@, c)]
  BY DEF StagedCall, MethodIsStaged, Mint, hostVars
<1>2. c \in Command /\ Publishable(c)
  BY CallIsPublishable DEF StagedCall
<1>3. /\ c.kind = "call" /\ c.thread = t /\ c.ring = RingOf[t]
      /\ c.outs = {} /\ ~c.reply /\ c.waits = NoWaits
      /\ \A x \in Uses(c) : Created(x, Len(log) + 1)
  BY <1>1, <1>2 DEF Call, Publishable
<1> HIDE DEF c
<1>4. StagedOK'
  <2>0. \A x : Created(x, Len(log) + 1) => Created(x, Len(log) + 1)'
    BY <1>1 DEF Created
  <2> SUFFICES ASSUME NEW u \in Thread, NEW i \in DOMAIN staging'[u]
               PROVE  LET d == staging'[u][i] IN
                      /\ d.kind = "call" /\ d.thread = u /\ d.ring = RingOf[u]
                      /\ d.outs = {} /\ ~d.reply /\ d.waits = NoWaits
                      /\ \A x \in Uses(d) : Created(x, Len(log) + 1)
    BY <2>0 DEF StagedOK, Uses, NoWaits
  <2> DEFINE d == staging'[u][i]
  <2>1. CASE u = t
    <3>1. staging'[t] = Append(staging[t], c) /\ staging[t] \in Seq(Command)
      BY <1>1 DEF IInv, TypeOK
    <3>2. CASE i \in DOMAIN staging[t]
      <4>1. d = staging[t][i]
        BY <1>2, <2>1, <3>1, <3>2, AppendFacts
      <4> QED
        BY <2>1, <3>2, <4>1 DEF IInv, LogInv, StagedOK
    <3>3. CASE i \notin DOMAIN staging[t]
      <4>1. d = c
        BY <1>2, <2>1, <3>1, <3>3, AppendFacts
      <4> QED
        BY <1>3, <2>1, <4>1
    <3> QED
      BY <3>2, <3>3
  <2>2. CASE u # t
    <3>1. staging'[u] = staging[u]
      BY <1>1, <2>2 DEF IInv, TypeOK
    <3> QED
      BY <3>1 DEF IInv, LogInv, StagedOK
  <2> QED
    BY <2>1, <2>2
<1>5. HostInv'
  BY <1>1, HostUnchanged DEF IInv
<1>6. /\ LogOK' /\ PositionsOK' /\ WaitsPointBack' /\ ReleaseCoversOlder'
      /\ HeldOK' /\ ReleasedNotHeld' /\ UsesAfterRelease'
  BY <1>1 DEF IInv, LogInv, LogOK, PositionsOK, WaitsPointBack, ReleaseCoversOlder,
              HeldOK, ReleasedNotHeld, UsesAfterRelease, Created, Releases, Uses,
              NoWaits
<1> QED
  BY <1>4, <1>5, <1>6 DEF LogInv

(* A caller that returns takes over ids of its own call. *)
LEMMA SyncReturnPreserves ==
  ASSUME IInv, NEW t \in Thread, SyncReturn(t)
  PROVE  LogInv' /\ HostInv'
<1>1. /\ waiting[t] \in DOMAIN log /\ log[waiting[t]].thread = t
      /\ waiting[t] \in Nat /\ waiting[t] <= Len(log)
  BY DEF SyncReturn, IInv, LogInv, HeldOK, TypeOK
<1>2. /\ held' \subseteq held \cup log[waiting[t]].outs
      /\ waiting' = [waiting EXCEPT ![t] = 0]
      /\ UNCHANGED <<log, tail, minted, staging, head, phase, table, fatal,
                     faulted, dropped>>
  BY DEF SyncReturn
<1>3. \A u \in Thread : waiting'[u] # 0 =>
        u # t /\ waiting[u] # 0 /\ waiting'[u] = waiting[u]
  BY <1>2 DEF IInv, TypeOK
<1>4. HeldOK'
  <2>1. ASSUME NEW x \in held'
        PROVE  x \in minted /\ Created(x, Len(log) + 1)
    BY <1>1, <1>2 DEF IInv, LogInv, HeldOK, LogOK, Created
  <2>2. ASSUME NEW u \in Thread, waiting'[u] # 0
        PROVE  /\ waiting[u] \in DOMAIN log
               /\ log[waiting[u]].thread = u
               /\ log[waiting[u]].outs \cap held' = {}
    <3>1. /\ u # t /\ waiting[u] \in DOMAIN log /\ log[waiting[u]].thread = u
          /\ log[waiting[u]].outs \cap held = {}
      BY <1>3, <2>2 DEF IInv, LogInv, HeldOK
    <3>2. waiting[u] # waiting[t]
      BY <1>1, <3>1
    <3>3. log[waiting[u]].outs \cap log[waiting[t]].outs = {}
      BY <1>1, <3>1, <3>2 DEF IInv, HostInv, OutsFresh
    <3> QED
      BY <1>2, <3>1, <3>3
  <2> QED
    BY <1>2, <1>3, <2>1, <2>2 DEF HeldOK, Created
<1>5. ReleasedNotHeld'
  BY <1>1, <1>2, <1>3 DEF IInv, LogInv, ReleasedNotHeld, SyncReturn
<1>6. HostInv'
  BY <1>2, HostUnchanged DEF IInv
<1>7. /\ LogOK' /\ StagedOK' /\ PositionsOK' /\ WaitsPointBack'
      /\ ReleaseCoversOlder' /\ UsesAfterRelease'
  BY <1>2 DEF IInv, LogInv, LogOK, StagedOK, PositionsOK, WaitsPointBack,
              ReleaseCoversOlder, UsesAfterRelease, Created, Releases, Uses, NoWaits
<1> QED
  BY <1>4, <1>5, <1>6, <1>7 DEF LogInv

-----------------------------------------------------------------------------
(* The steps of a ring thread *)

(* The types of what is in the log. *)
LEMMA LogEntries ==
  ASSUME TypeOK, NEW k \in DOMAIN log
  PROVE  /\ k \in Nat /\ k >= 1 /\ k <= Len(log) /\ Len(log) \in Nat
         /\ log[k] \in Command /\ log[k].ring \in Ring
         /\ log[k].outs \subseteq Id /\ Uses(log[k]) \subseteq Id
         /\ \A q \in Ring : log[k].waits[q] \in Nat
<1>1. k \in 1..Len(log) /\ Len(log) \in Nat /\ log[k] \in Command
  BY DEF TypeOK
<1>2. /\ log[k].ring \in Ring /\ log[k].outs \subseteq Id
      /\ log[k].waits \in [Ring -> Nat] /\ Uses(log[k]) \subseteq Id
  BY <1>1 DEF Command, Uses
<1> QED
  BY <1>1, <1>2

(* Decoding the next command of a ring adds that command to the decoded ones. *)
LEMMA DecodeOne ==
  ASSUME TypeOK, NEW r \in Ring, NEW n \in DOMAIN log, IsNext(r, n),
         log' = log, head' = [head EXCEPT ![r] = n]
  PROVE  /\ log[n].ring = r /\ ~Decoded(n)
         /\ \A k \in DOMAIN log : Decoded(k)' <=> Decoded(k) \/ k = n
         /\ \A q \in Ring : head'[q] >= head[q]
<1>1. /\ log[n].ring = r /\ ~(n <= head[r]) /\ ~Decoded(n)
      /\ n \in Nat /\ head[r] \in Nat /\ head'[r] = n
  BY DEF IsNext, Undecoded, Decoded, TypeOK
<1>2. \A q \in Ring : head[q] \in Nat /\ (q # r => head'[q] = head[q])
  BY DEF TypeOK
<1>3. ASSUME NEW k \in DOMAIN log
      PROVE  Decoded(k)' <=> Decoded(k) \/ k = n
  <2>0. k \in Nat /\ log[k].ring \in Ring
    BY LogEntries
  <2>1. CASE log[k].ring = r
    <3>1. Decoded(k)' <=> k <= n
      BY <1>1, <2>1 DEF Decoded
    <3>2. Decoded(k) <=> k <= head[r]
      BY <2>1 DEF Decoded
    <3>3. ~Decoded(k) => n <= k
      BY <2>1 DEF IsNext, Undecoded
    <3> QED
      BY <1>1, <2>0, <3>1, <3>2, <3>3
  <2>2. CASE log[k].ring # r
    BY <1>1, <1>2, <2>0, <2>2 DEF Decoded
  <2> QED
    BY <2>1, <2>2
<1> QED
  BY <1>1, <1>2, <1>3

(* The log's part of the invariant survives any advance of the heads. *)
LEMMA LogUnchanged ==
  ASSUME LogInv, UNCHANGED <<log, tail, minted, staging, held, waiting>>,
         \A r \in Ring : head'[r] <= tail[r]
  PROVE  LogInv'
<1>1. LogOK' /\ StagedOK' /\ HeldOK'
  BY DEF LogInv, LogOK, StagedOK, HeldOK, Created, Uses, NoWaits
<1>2. PositionsOK' /\ WaitsPointBack' /\ ReleaseCoversOlder'
  BY DEF LogInv, PositionsOK, WaitsPointBack, ReleaseCoversOlder
<1>3. ReleasedNotHeld' /\ UsesAfterRelease'
  BY DEF LogInv, ReleasedNotHeld, UsesAfterRelease, Releases, Uses
<1> QED
  BY <1>1, <1>2, <1>3 DEF LogInv

(* What was published before a decoded release is decoded. *)
LEMMA DecodedBeforeRelease ==
  ASSUME TypeOK, LogInv, WaitsStayMet, NEW m \in DOMAIN log, Decoded(m),
         log[m].kind = "release", NEW k \in 1..(m - 1)
  PROVE  Decoded(k)
<1>0. m \in Nat /\ k \in DOMAIN log /\ log[m] \in Command /\ log[k] \in Command
  BY DEF TypeOK
<1>1. /\ log[k].ring \in Ring /\ log[m].ring \in Ring
      /\ head[log[k].ring] \in Nat /\ log[m].waits[log[k].ring] \in Nat
  BY <1>0 DEF TypeOK, Command
<1>2. CASE log[k].ring = log[m].ring
  BY <1>0, <1>1, <1>2 DEF Decoded
<1>3. CASE log[k].ring # log[m].ring
  <2>1. k <= log[m].waits[log[k].ring]
    BY <1>3 DEF LogInv, ReleaseCoversOlder
  <2>2. head[log[k].ring] >= log[m].waits[log[k].ring]
    BY <1>1 DEF WaitsStayMet
  <2> QED
    BY <1>0, <1>1, <2>1, <2>2 DEF Decoded
<1> QED
  BY <1>2, <1>3

(* An object that is gone was released before anything still undecoded. *)
LEMMA ReleasedBefore ==
  ASSUME TypeOK, LogInv, WaitsStayMet, ReleasedOK,
         NEW n \in DOMAIN log, ~Decoded(n), NEW x \in Id, table[x] = "released"
  PROVE  \E m \in 1..(n - 1) : m \in DOMAIN log /\ Releases(m, x)
<1>1. PICK m \in DOMAIN log : Releases(m, x) /\ Decoded(m)
  BY DEF ReleasedOK
<1>2. m \in Nat /\ n \in Nat /\ m >= 1 /\ n >= 1
  BY DEF TypeOK
<1>3. ~(n \in 1..(m - 1))
  BY <1>1, DecodedBeforeRelease DEF Releases
<1>4. m # n
  BY <1>1
<1> QED
  BY <1>1, <1>2, <1>3, <1>4

(* When a release may run, everything published before it is decoded. *)
LEMMA ReleaseIsBehind ==
  ASSUME TypeOK, LogInv, NEW r \in Ring, NEW n \in DOMAIN log, IsNext(r, n),
         log[n].kind = "release", WaitsMet(log[n]), NEW k \in 1..(n - 1)
  PROVE  Decoded(k)
<1>0. n \in Nat /\ k \in Nat /\ k < n /\ k \in DOMAIN log
  BY LogEntries DEF TypeOK
<1>1. /\ log[k].ring \in Ring /\ head[log[k].ring] \in Nat
      /\ log[n].waits[log[k].ring] \in Nat /\ log[n].ring = r
  BY <1>0, LogEntries DEF TypeOK, IsNext, Undecoded
<1>2. CASE log[k].ring = r
  BY <1>0, <1>2 DEF IsNext, Undecoded
<1>3. CASE log[k].ring # r
  <2>1. k <= log[n].waits[log[k].ring]
    BY <1>1, <1>3 DEF LogInv, ReleaseCoversOlder
  <2>2. head[log[k].ring] >= log[n].waits[log[k].ring]
    BY <1>1 DEF WaitsMet
  <2> QED
    BY <1>0, <1>1, <2>1, <2>2 DEF Decoded
<1> QED
  BY <1>2, <1>3

(* What decoding a command guarantees, given what it may do to the table. *)
LEMMA DecodePreserves ==
  ASSUME IInv, NEW r \in Ring, NEW n \in DOMAIN log, IsNext(r, n),
         UNCHANGED <<log, tail, guestVars>>, head' = [head EXCEPT ![r] = n],
         log[n].kind = "call" \/ WaitsMet(log[n]),
         \A x \in Id : table'[x] # table[x] =>
           \/ x \in log[n].outs /\ table'[x] \in {"live", "failed"}
           \/ Releases(n, x) /\ table'[x] = "released",
         \A x \in log[n].outs : table'[x] # "absent"
  PROVE  /\ LogInv'
         /\ WaitsStayMet' /\ OutsFresh' /\ OutputsAnswered' /\ ReleasedOK'
<1>1. /\ TypeOK /\ LogInv /\ LogOK /\ WaitsStayMet /\ OutsFresh
      /\ OutputsAnswered /\ ReleasedOK
  BY DEF IInv, LogInv, HostInv
<1>2. /\ log[n].ring = r /\ ~Decoded(n)
      /\ \A k \in DOMAIN log : Decoded(k)' <=> Decoded(k) \/ k = n
      /\ \A q \in Ring : head'[q] >= head[q]
  BY <1>1, DecodeOne
<1>3. /\ \A k \in DOMAIN log : k \in Nat /\ log[k] \in Command
      /\ \A k \in DOMAIN log : log[k].outs \subseteq Id
  BY <1>1, LogEntries
<1>4. LogInv'
  <2>1. \A q \in Ring : head'[q] <= tail[q]
    BY <1>1, <1>2 DEF LogInv, PositionsOK, TypeOK
  <2> QED
    BY <1>1, <2>1, LogUnchanged DEF guestVars
<1>5. WaitsStayMet'
  <2> SUFFICES ASSUME NEW k \in DOMAIN log, Decoded(k)', NEW q \in Ring
               PROVE  head'[q] >= log[k].waits[q]
    BY DEF WaitsStayMet
  <2>0. /\ head[q] \in Nat /\ head'[q] \in Nat /\ log[k].waits[q] \in Nat
        /\ head'[q] >= head[q]
    BY <1>1, <1>2, <1>3 DEF TypeOK, Command
  <2>1. CASE Decoded(k)
    BY <1>1, <2>0, <2>1 DEF WaitsStayMet
  <2>2. CASE k = n /\ log[n].kind = "call"
    <3>1. log[n].waits = NoWaits
      BY <1>1, <2>2 DEF LogOK
    <3> QED
      BY <2>0, <2>2, <3>1 DEF NoWaits
  <2>3. CASE k = n /\ WaitsMet(log[n])
    BY <2>0, <2>3 DEF WaitsMet
  <2> QED
    BY <1>2, <2>1, <2>2, <2>3
(* A release follows the call that minted its object, which is decoded. *)
<1>6. ASSUME NEW x \in Id, Releases(n, x), NEW k \in DOMAIN log, ~Decoded(k),
             x \in log[k].outs
      PROVE  FALSE
  <2>1. Created(x, n)
    <3>1. x \in Uses(log[n])
      BY <1>1, <1>6, NoIdIsNoId DEF Releases, Uses
    <3> QED
      BY <1>1, <3>1 DEF LogOK
  <2>2. x \notin Roots
    BY <1>1, <1>6 DEF OutsFresh
  <2>3. PICK m \in 1..(n - 1) : x \in log[m].outs
    BY <2>1, <2>2 DEF Created
  <2>4. m \in DOMAIN log
    BY <1>1, <1>3 DEF TypeOK
  <2>5. m = k
    BY <1>1, <1>6, <2>3, <2>4 DEF OutsFresh
  <2>6. log[n].kind = "release" /\ WaitsMet(log[n])
    BY <1>6 DEF Releases
  <2> QED
    BY <1>1, <1>6, <2>3, <2>5, <2>6, ReleaseIsBehind
<1>7. OutsFresh'
  <2>1. ASSUME NEW k \in DOMAIN log, ~Decoded(k)', NEW x \in log[k].outs
        PROVE  table'[x] = "absent"
    <3>1. ~Decoded(k) /\ k # n /\ x \in Id /\ table[x] = "absent"
      BY <1>1, <1>2, <1>3, <2>1 DEF OutsFresh
    <3>2. x \notin log[n].outs
      BY <1>1, <2>1, <3>1 DEF OutsFresh
    <3>3. ~Releases(n, x)
      BY <1>6, <2>1, <3>1
    <3> QED
      BY <3>1, <3>2, <3>3
  <2>2. \A x \in Roots : table'[x] # "absent"
    BY <1>1, RootsType DEF OutsFresh
  <2>3. ASSUME NEW x \in Id \ minted
        PROVE  table'[x] = "absent"
    <3>1. x \notin log[n].outs
      BY <1>1 DEF LogOK
    <3>2. ~Releases(n, x)
      <4> SUFFICES ASSUME Releases(n, x) PROVE FALSE
        OBVIOUS
      <4>1. x \in Uses(log[n])
        BY NoIdIsNoId DEF Releases, Uses
      <4>2. n \in 1..(Len(log) + 1)
        BY <1>1 DEF TypeOK
      <4> QED
        BY <1>1, <4>1, <4>2, CreatedIsMinted DEF LogOK
    <3> QED
      BY <1>1, <3>1, <3>2 DEF OutsFresh
  <2> QED
    BY <1>1, <2>1, <2>2, <2>3 DEF OutsFresh, guestVars
<1>8. OutputsAnswered'
  <2> SUFFICES ASSUME NEW k \in DOMAIN log, Decoded(k)', NEW x \in log[k].outs
               PROVE  table'[x] # "absent"
    BY DEF OutputsAnswered
  <2>1. CASE Decoded(k)
    BY <1>1, <1>3, <2>1 DEF OutputsAnswered
  <2> QED
    BY <1>2, <2>1
<1>9. ReleasedOK'
  <2> SUFFICES ASSUME NEW x \in Id, table'[x] = "released"
               PROVE  \E m \in DOMAIN log : Releases(m, x) /\ Decoded(m)'
    BY DEF ReleasedOK, Releases
  <2>1. CASE table[x] = "released"
    BY <1>1, <1>2, <2>1 DEF ReleasedOK
  <2>2. CASE table[x] # "released"
    BY <1>2, <2>2
  <2> QED
    BY <2>1, <2>2
<1> QED
  BY <1>4, <1>5, <1>7, <1>8, <1>9

(* While the backend produced everything, a missed handle was released.  So *)
(* the call that missed it was staged: it owes no reply and has no outputs. *)
LEMMA MissIsLateUse ==
  ASSUME TypeOK, LogInv, HostInv, ~faulted, NEW n \in DOMAIN log, ~Decoded(n),
         NEW x \in Uses(log[n]), table[x] \in {"failed", "released"}
  PROVE  /\ ~log[n].reply /\ log[n].outs = {}
         /\ \E m \in 1..(n - 1) : \E y \in Uses(log[n]) : Releases(m, y)
<1>1. x \in Id
  BY LogEntries
<1>2. table[x] = "released"
  BY <1>1 DEF HostInv, LossOK
<1>3. PICK m \in 1..(n - 1) : m \in DOMAIN log /\ Releases(m, x)
  BY <1>1, <1>2, ReleasedBefore DEF HostInv
<1>4. n \in (m + 1)..Len(log) /\ log[m].kind = "release" /\ log[m].self = x
  BY <1>3, LogEntries DEF Releases
<1> QED
  BY <1>3, <1>4 DEF LogInv, UsesAfterRelease

LEMMA MissPreserves ==
  ASSUME IInv, NEW r \in Ring, NEW n \in DOMAIN log, IsNext(r, n),
         log[n].kind = "call", NEW x \in Uses(log[n]),
         table[x] \in {"failed", "released"}, Miss(r, n),
         UNCHANGED <<log, tail, guestVars, reply, faulted>>, ~fatal
  PROVE  LogInv' /\ HostInv'
<1>1. TypeOK /\ LogInv /\ HostInv /\ ~Decoded(n)
  BY DEF IInv, IsNext, Undecoded
<1>2. ~faulted =>
        /\ ~log[n].reply /\ log[n].outs = {}
        /\ \E m \in 1..(n - 1) : \E y \in Uses(log[n]) : Releases(m, y)
  BY <1>1, MissIsLateUse
(* A call that owes a reply takes the context down; nothing else changes. *)
<1>3. CASE log[n].reply
  <2>1. /\ UNCHANGED <<log, tail, minted, staging, held, waiting>>
        /\ UNCHANGED <<head, table, dropped, faulted>> /\ faulted
    BY <1>2, <1>3 DEF Miss, guestVars
  <2>2. \A q \in Ring : head'[q] <= tail[q]
    BY <1>1, <2>1 DEF LogInv, PositionsOK
  <2>3. LogInv'
    BY <1>1, <2>1, <2>2, LogUnchanged
  <2>4. WaitsStayMet' /\ OutputsAnswered' /\ ReleasedOK'
    BY <1>1, <2>1 DEF HostInv, WaitsStayMet, OutputsAnswered, ReleasedOK, Decoded, Releases
  <2>5. OutsFresh'
    BY <1>1, <2>1 DEF HostInv, OutsFresh, Decoded
  <2>6. LossOK' /\ OnlyFailuresLoseCalls'
    BY <1>1, <2>1 DEF HostInv, LossOK, OnlyFailuresLoseCalls
  <2> QED
    BY <2>3, <2>4, <2>5, <2>6 DEF HostInv
(* Another call is dropped, and its ids answered. *)
<1>4. CASE ~log[n].reply
  <2>1. /\ head' = [head EXCEPT ![r] = n] /\ fatal' = fatal
        /\ table' = RegisterFailed(log[n].outs)
        /\ dropped' = dropped \cup {n}
    BY <1>4 DEF Miss, Advance
  <2>2. \A y \in Id : table'[y] = IF y \in log[n].outs THEN "failed" ELSE table[y]
    BY <2>1 DEF RegisterFailed
  <2>3. \A y \in log[n].outs : y \in Id
    BY <1>1, LogEntries
  <2>4. /\ LogInv'
        /\ WaitsStayMet' /\ OutsFresh' /\ OutputsAnswered' /\ ReleasedOK'
    BY <2>1, <2>2, <2>3, DecodePreserves
  <2>5. LossOK'
    BY <1>1, <1>2, <2>1, <2>2 DEF HostInv, LossOK
  <2>6. OnlyFailuresLoseCalls'
    BY <1>1, <1>2, <2>1 DEF HostInv, OnlyFailuresLoseCalls, Releases
  <2> QED
    BY <2>4, <2>5, <2>6 DEF HostInv
<1> QED
  BY <1>3, <1>4

(* A lookup that succeeds only moves the ring thread on within the command. *)
LEMMA LookupPreserves ==
  ASSUME IInv, NEW r \in Ring, NEW n \in DOMAIN log,
         LookupSelf(r, n) \/ LookupArg(r, n)
  PROVE  LogInv' /\ HostInv'
<1>1. TypeOK /\ LogInv /\ HostInv
  BY DEF IInv
<1>2. \A y \in Id : table[y] \in {"absent", "live", "failed", "released"}
  BY <1>1 DEF TypeOK
<1>3. \A y \in Uses(log[n]) : y \in Id
  BY <1>1, LogEntries
<1>4. log[n] \in Command
  BY <1>1, LogEntries
<1>5. CASE UNCHANGED <<head, table, fatal, dropped>>
  <2>1. UNCHANGED <<log, tail, minted, staging, held, waiting, faulted>>
    BY DEF LookupSelf, LookupArg, guestVars
  <2>2. \A q \in Ring : head'[q] <= tail[q]
    BY <1>1, <1>5 DEF LogInv, PositionsOK
  <2> QED
    BY <1>1, <1>5, <2>1, <2>2, LogUnchanged, HostUnchanged
<1>6. CASE LookupSelf(r, n) /\ ~UNCHANGED <<head, table, fatal, dropped>>
  <2>1. /\ IsNext(r, n) /\ log[n].kind = "call" /\ Miss(r, n) /\ ~fatal
        /\ log[n].self # NoId /\ table[log[n].self] \notin {"absent", "live"}
        /\ UNCHANGED <<log, tail, guestVars, reply, faulted>>
    BY <1>6 DEF LookupSelf
  <2>2. log[n].self \in Uses(log[n])
    BY <2>1 DEF Uses
  <2> QED
    BY <1>2, <1>3, <2>1, <2>2, MissPreserves
<1>7. CASE LookupArg(r, n) /\ ~UNCHANGED <<head, table, fatal, dropped>>
  <2>1. /\ IsNext(r, n) /\ log[n].kind = "call" /\ Miss(r, n) /\ ~fatal
        /\ log[n].arg # NoId /\ table[log[n].arg] \notin {"absent", "live"}
        /\ UNCHANGED <<log, tail, guestVars, reply, faulted>>
    BY <1>7 DEF LookupArg
  <2>2. log[n].arg \in Uses(log[n])
    BY <2>1 DEF Uses
  <2> QED
    BY <1>2, <1>3, <2>1, <2>2, MissPreserves
<1> QED
  BY <1>5, <1>6, <1>7

LEMMA ExecutePreserves ==
  ASSUME IInv, NEW r \in Ring, NEW n \in DOMAIN log, NEW hr \in {"ok", "fail"},
         NEW bad \in SUBSET log[n].outs, NEW acquired \in BOOLEAN,
         Execute(r, n, hr, bad, acquired)
  PROVE  LogInv' /\ HostInv'
<1>1. TypeOK /\ LogInv /\ HostInv
  BY DEF IInv
<1>2. /\ IsNext(r, n) /\ log[n].kind = "call"
      /\ UNCHANGED <<log, tail, guestVars, fatal, dropped>>
      /\ head' = [head EXCEPT ![r] = n]
      /\ faulted' = (faulted \/ bad # {})
  BY DEF Execute, Advance
<1>3. \A x \in Id : table'[x] = IF x \in bad THEN "failed"
                                ELSE IF x \in log[n].outs THEN "live"
                                ELSE table[x]
  BY DEF Execute, RegisterOutputs
<1>4. \A x \in log[n].outs : x \in Id
  BY <1>1, LogEntries
<1>5. /\ LogInv'
      /\ WaitsStayMet' /\ OutsFresh' /\ OutputsAnswered' /\ ReleasedOK'
  BY <1>2, <1>3, <1>4, DecodePreserves
<1>6. LossOK'
  BY <1>1, <1>2, <1>3 DEF HostInv, LossOK
<1>7. OnlyFailuresLoseCalls'
  BY <1>1, <1>2 DEF HostInv, OnlyFailuresLoseCalls, Releases
<1> QED
  BY <1>5, <1>6, <1>7 DEF HostInv

LEMMA ReleaseObjectPreserves ==
  ASSUME IInv, NEW r \in Ring, NEW n \in DOMAIN log, ReleaseObject(r, n)
  PROVE  LogInv' /\ HostInv'
<1>1. TypeOK /\ LogInv /\ HostInv
  BY DEF IInv
<1>2. /\ IsNext(r, n) /\ log[n].kind = "release" /\ WaitsMet(log[n])
      /\ UNCHANGED <<log, tail, guestVars, fatal, faulted, dropped>>
      /\ head' = [head EXCEPT ![r] = n]
      /\ table' = [table EXCEPT ![log[n].self] = "released"]
  BY DEF ReleaseObject, Advance
<1>3. \A x \in Id : table'[x] = IF x = log[n].self THEN "released" ELSE table[x]
  BY <1>1, <1>2 DEF TypeOK
<1>4. log[n].outs = {}
  BY <1>1, <1>2 DEF LogInv, LogOK
<1>5. /\ LogInv'
      /\ WaitsStayMet' /\ OutsFresh' /\ OutputsAnswered' /\ ReleasedOK'
  BY <1>2, <1>3, <1>4, DecodePreserves DEF Releases
<1>6. LossOK'
  BY <1>1, <1>2, <1>3 DEF HostInv, LossOK
<1>7. OnlyFailuresLoseCalls'
  BY <1>1, <1>2 DEF HostInv, OnlyFailuresLoseCalls, Releases
<1> QED
  BY <1>5, <1>6, <1>7 DEF HostInv

LEMMA PassWaitPeerPreserves ==
  ASSUME IInv, NEW r \in Ring, NEW n \in DOMAIN log, PassWaitPeer(r, n)
  PROVE  LogInv' /\ HostInv'
<1>1. TypeOK /\ LogInv /\ HostInv
  BY DEF IInv
<1>2. /\ IsNext(r, n) /\ log[n].kind = "wait" /\ WaitsMet(log[n])
      /\ UNCHANGED <<log, tail, guestVars, table, fatal, faulted, dropped>>
      /\ head' = [head EXCEPT ![r] = n]
  BY DEF PassWaitPeer, Advance
<1>3. log[n].outs = {}
  BY <1>1, <1>2 DEF LogInv, LogOK
<1>4. /\ LogInv'
      /\ WaitsStayMet' /\ OutsFresh' /\ OutputsAnswered' /\ ReleasedOK'
  BY <1>2, <1>3, DecodePreserves
<1>5. LossOK'
  BY <1>1, <1>2 DEF HostInv, LossOK
<1>6. OnlyFailuresLoseCalls'
  BY <1>1, <1>2 DEF HostInv, OnlyFailuresLoseCalls, Releases
<1> QED
  BY <1>4, <1>5, <1>6 DEF HostInv

-----------------------------------------------------------------------------
(* The invariant *)

LEMMA InitEstablishes ==
  ASSUME Init
  PROVE  LogInv /\ HostInv
<1>1. DOMAIN log = {} /\ Len(log) = 0
  BY DEF Init
<1>2. \A t \in Thread : DOMAIN staging[t] = {}
  BY DEF Init
<1>3. LogOK /\ StagedOK
  BY <1>1, <1>2 DEF LogOK, StagedOK
<1>4. PositionsOK /\ WaitsPointBack /\ ReleaseCoversOlder /\ UsesAfterRelease
  BY <1>1 DEF Init, PositionsOK, WaitsPointBack, ReleaseCoversOlder, UsesAfterRelease
<1>5. HeldOK /\ ReleasedNotHeld
  BY <1>1 DEF Init, HeldOK, ReleasedNotHeld, Created
<1>6. OutsFresh
  BY <1>1, RootsType DEF Init, OutsFresh
<1>7. /\ WaitsStayMet /\ OutputsAnswered /\ ReleasedOK /\ LossOK
      /\ OnlyFailuresLoseCalls
  BY <1>1 DEF Init, WaitsStayMet, OutputsAnswered, ReleasedOK, LossOK,
              OnlyFailuresLoseCalls
<1> QED
  BY <1>3, <1>4, <1>5, <1>6, <1>7 DEF LogInv, HostInv

LEMMA StepPreserves ==
  ASSUME IInv, [Next]_vars
  PROVE  LogInv' /\ HostInv'
<1>1. ASSUME NEW t \in Thread, ThreadStep(t)
      PROVE  LogInv' /\ HostInv'
  BY <1>1, AsyncCallPreserves, StagedCallPreserves, SyncCallPreserves,
     PublishStagedPreserves, SyncReturnPreserves, ReleaseWrapperPreserves,
     EmitWaitPeerPreserves DEF ThreadStep
<1>2. ASSUME NEW r \in Ring, RingStep(r)
      PROVE  LogInv' /\ HostInv'
  BY <1>2, LookupPreserves, ExecutePreserves, ReleaseObjectPreserves,
     PassWaitPeerPreserves DEF RingStep
<1>3. CASE UNCHANGED vars
  <2>1. UNCHANGED <<log, tail, minted, staging, held, waiting, head, table,
                    fatal, faulted, dropped>>
    BY <1>3 DEF vars
  <2>2. \A q \in Ring : head'[q] <= tail[q]
    BY <2>1 DEF IInv, LogInv, PositionsOK
  <2> QED
    BY <2>1, <2>2, LogUnchanged, HostUnchanged DEF IInv
<1> QED
  BY <1>1, <1>2, <1>3 DEF Next

(* The inductive invariant holds in every reachable state. *)
THEOREM Invariance == Spec => []IInv
<1>1. Init /\ TypeOK => IInv
  BY InitEstablishes DEF IInv
<1>2. IInv /\ [Next]_vars /\ TypeOK' => IInv'
  BY StepPreserves DEF IInv
<1> QED
  BY <1>1, <1>2, TypeCorrect, PTL DEF Spec

-----------------------------------------------------------------------------
(* What follows from it *)

(* Among the undecoded commands of all rings one was published first. *)
LEMMA FirstUndecoded ==
  ASSUME TypeOK, NEW r \in Ring, Undecoded(r) # {}
  PROVE  \E n \in DOMAIN log : /\ ~Decoded(n)
                               /\ \A k \in 1..(n - 1) : Decoded(k)
<1> DEFINE Pending == {n \in DOMAIN log : ~Decoded(n)}
           Older == OpToRel(<, Nat)
<1>1. Pending # {} /\ Pending \subseteq Nat
  BY LogEntries DEF Undecoded
<1>2. IsWellFoundedOn(Older, Nat)
  BY NatLessThanWellFounded
<1> HIDE DEF Older
<1>3. PICK n \in Pending : \A k \in Pending : <<k, n>> \notin Older
  BY <1>1, <1>2, WFMin
<1>4. ASSUME NEW k \in 1..(n - 1)
      PROVE  Decoded(k)
  <2>1. n \in Nat /\ k \in Nat /\ k < n /\ k \in DOMAIN log
    BY LogEntries DEF TypeOK
  <2>2. <<k, n>> \in Older
    BY <2>1 DEF Older, OpToRel
  <2> QED
    BY <1>3, <2>1, <2>2
<1> QED
  BY <1>4

LEMMA NeverStuck ==
  ASSUME IInv
  PROVE  RingsNeverStuck
<1> SUFFICES ASSUME NEW r \in Ring, Undecoded(r) # {}
             PROVE  \E q \in Ring : Runnable(q)
  BY DEF RingsNeverStuck
<1>0. TypeOK /\ LogInv /\ HostInv
  BY DEF IInv
<1>1. PICK n \in DOMAIN log : ~Decoded(n) /\ \A k \in 1..(n - 1) : Decoded(k)
  BY <1>0, FirstUndecoded
<1>2. n \in Nat /\ log[n].ring \in Ring /\ log[n] \in Command
  BY <1>0, LogEntries
<1>3. IsNext(log[n].ring, n)
  <2>1. ASSUME NEW m \in Undecoded(log[n].ring)
        PROVE  n <= m
    <3>1. m \in DOMAIN log /\ ~Decoded(m) /\ m \in Nat /\ m >= 1
      BY <1>0, LogEntries DEF Undecoded
    <3> QED
      BY <1>1, <1>2, <3>1
  <2> QED
    BY <1>1, <2>1 DEF IsNext, Undecoded
<1>4. WaitsMet(log[n])
  <2> SUFFICES ASSUME NEW q \in Ring, log[n].waits[q] # 0
               PROVE  head[q] >= log[n].waits[q]
    BY <1>0 DEF WaitsMet, TypeOK
  <2>1. /\ log[n].waits[q] \in Nat /\ log[n].waits[q] < n
        /\ log[log[n].waits[q]].ring = q /\ head[q] \in Nat
    BY <1>0, <1>2, LogEntries DEF LogInv, WaitsPointBack, TypeOK
  <2>2. Decoded(log[n].waits[q])
    BY <1>1, <1>2, <2>1
  <2> QED
    BY <2>1, <2>2 DEF Decoded
<1>5. \A x \in Uses(log[n]) : Answered(x)
  <2> SUFFICES ASSUME NEW x \in Uses(log[n]) PROVE table[x] # "absent"
    BY DEF Answered
  <2>1. Created(x, n)
    BY <1>0 DEF LogInv, LogOK
  <2>2. CASE x \in Roots
    BY <1>0, <2>2 DEF HostInv, OutsFresh
  <2>3. CASE \E m \in 1..(n - 1) : x \in log[m].outs
    <3>1. PICK m \in 1..(n - 1) : x \in log[m].outs
      BY <2>3
    <3>2. m \in DOMAIN log /\ Decoded(m)
      BY <1>0, <1>1, <1>2, <3>1, LogEntries DEF TypeOK
    <3> QED
      BY <1>0, <3>1, <3>2 DEF HostInv, OutputsAnswered
  <2> QED
    BY <2>1, <2>2, <2>3 DEF Created
<1>6. Answered(log[n].self) /\ Answered(log[n].arg)
  BY <1>5 DEF Uses, Answered
<1> QED
  BY <1>2, <1>3, <1>4, <1>6 DEF Runnable

(* The rings never wait for one another in a circle: the oldest command    *)
(* nobody decoded is always one its ring thread can go on with, because    *)
(* lookups, release waits and peer edges all point back in publication     *)
(* order.                                                                  *)
THEOREM NoRingDeadlock == Spec => []RingsNeverStuck
<1>1. IInv => RingsNeverStuck
  BY NeverStuck
<1> QED
  BY <1>1, Invariance, PTL

(* Every output id of a decoded call is answered, which is what makes a    *)
(* blocking lookup end.                                                    *)
THEOREM DecodedIsAnswered == Spec => []OutputsAnswered
<1>1. IInv => OutputsAnswered
  BY DEF IInv, HostInv
<1> QED
  BY <1>1, Invariance, PTL

(* A release runs after every use published before it, on whichever ring. *)
THEOREM ReleaseIsLast == Spec => []ReleaseWaitsForUses
<1>1. IInv => ReleaseWaitsForUses
  <2> SUFFICES ASSUME IInv, NEW n \in DOMAIN log, NEW x \in Uses(log[n]),
                      table[x] = "released", ~Decoded(n)
               PROVE  \E m \in 1..(n - 1) : Releases(m, x)
    BY DEF ReleaseWaitsForUses
  <2>1. TypeOK /\ LogInv /\ WaitsStayMet /\ ReleasedOK
    BY DEF IInv, HostInv
  <2>2. x \in Id
    BY <2>1, LogEntries
  <2> QED
    BY <2>1, <2>2, ReleasedBefore
<1> QED
  BY <1>1, Invariance, PTL

(* Only a backend failure, or a use staged past another thread's release,  *)
(* makes the host drop a call; the latter never costs a reply or an id.    *)
THEOREM NothingElseIsLost == Spec => []OnlyFailuresLoseCalls
<1>1. IInv => OnlyFailuresLoseCalls
  BY DEF IInv, HostInv
<1> QED
  BY <1>1, Invariance, PTL

LEMMA GuestKeepsTable ==
  ASSUME NEW t \in Thread, ThreadStep(t)
  PROVE  table' = table
<1>1. ASSUME NEW self, NEW arg, NEW outs,
             \/ AsyncCall(t, self, arg, outs)
             \/ StagedCall(t, self, arg, outs)
             \/ SyncCall(t, self, arg, outs)
      PROVE  UNCHANGED hostVars
  BY <1>1 DEF AsyncCall, StagedCall, SyncCall
<1>2. PublishStaged(t) => UNCHANGED hostVars
  BY DEF PublishStaged
<1>3. SyncReturn(t) => UNCHANGED table
  BY DEF SyncReturn
<1>4. ASSUME NEW x, ReleaseWrapper(t, x)
      PROVE  UNCHANGED hostVars
  BY <1>4 DEF ReleaseWrapper
<1>5. ASSUME NEW q, EmitWaitPeer(t, q)
      PROVE  UNCHANGED hostVars
  BY <1>5 DEF EmitWaitPeer
<1>6. UNCHANGED hostVars => UNCHANGED table
  BY DEF hostVars
<1> QED
  BY <1>1, <1>2, <1>3, <1>4, <1>5, <1>6 DEF ThreadStep

(* A step of a ring thread moves an id forward in its life or not at all. *)
LEMMA DecodeMovesIds ==
  ASSUME IInv, NEW r \in Ring, RingStep(r), NEW x \in Id, table'[x] # table[x]
  PROVE  \/ table[x] = "absent" /\ table'[x] \in {"live", "failed"}
         \/ table[x] \in {"live", "failed"} /\ table'[x] = "released"
<1>0. TypeOK /\ LogInv /\ HostInv
  BY DEF IInv
<1>1. PICK n \in DOMAIN log :
        \/ LookupSelf(r, n)
        \/ LookupArg(r, n)
        \/ \E hr \in {"ok", "fail"}, bad \in SUBSET log[n].outs,
              acquired \in BOOLEAN : Execute(r, n, hr, bad, acquired)
        \/ ReleaseObject(r, n)
        \/ PassWaitPeer(r, n)
  BY DEF RingStep
<1>2. IsNext(r, n) /\ ~Decoded(n)
  BY <1>1 DEF LookupSelf, LookupArg, Execute, ReleaseObject, PassWaitPeer,
              IsNext, Undecoded
<1>3. x \in log[n].outs => table[x] = "absent"
  BY <1>0, <1>2 DEF HostInv, OutsFresh
<1>4. CASE LookupSelf(r, n) \/ LookupArg(r, n)
  <2>1. table' = table \/ table' = RegisterFailed(log[n].outs)
    BY <1>4 DEF LookupSelf, LookupArg, Miss
  <2> QED
    BY <1>3, <2>1 DEF RegisterFailed
<1>5. CASE \E hr \in {"ok", "fail"}, bad \in SUBSET log[n].outs,
              acquired \in BOOLEAN : Execute(r, n, hr, bad, acquired)
  BY <1>3, <1>5 DEF Execute, RegisterOutputs
<1>6. CASE ReleaseObject(r, n)
  <2>1. /\ log[n].kind = "release" /\ WaitsMet(log[n])
        /\ table' = [table EXCEPT ![log[n].self] = "released"]
    BY <1>6 DEF ReleaseObject
  <2>2. log[n].self = x /\ table'[x] = "released" /\ Releases(n, x)
    BY <1>0, <2>1 DEF TypeOK, Releases
  <2>3. table[x] # "released"
    <3> SUFFICES ASSUME table[x] = "released" PROVE FALSE
      OBVIOUS
    <3>1. PICK m \in 1..(n - 1) : m \in DOMAIN log /\ Releases(m, x)
      BY <1>0, <1>2, ReleasedBefore DEF HostInv
    <3>2. /\ n \in (m + 1)..Len(log)
          /\ log[m].kind = "release" /\ log[m].self = x
      BY <1>0, <3>1, LogEntries DEF Releases
    <3> QED
      BY <1>0, <2>2, <3>1, <3>2 DEF LogInv, UsesAfterRelease
  <2>4. table[x] # "absent"
    <3>1. Created(x, n)
      BY <1>0, <2>2, NoIdIsNoId DEF LogInv, LogOK, Uses
    <3>2. CASE x \in Roots
      BY <1>0, <3>2 DEF HostInv, OutsFresh
    <3>3. CASE \E m \in 1..(n - 1) : x \in log[m].outs
      <4>1. PICK m \in 1..(n - 1) : x \in log[m].outs
        BY <3>3
      <4>2. m \in DOMAIN log /\ Decoded(m)
        BY <1>0, <1>2, <2>1, <4>1, ReleaseIsBehind, LogEntries DEF TypeOK
      <4> QED
        BY <1>0, <4>1, <4>2 DEF HostInv, OutputsAnswered
    <3> QED
      BY <3>1, <3>2, <3>3 DEF Created
  <2> QED
    BY <1>0, <2>2, <2>3, <2>4 DEF TypeOK
<1>7. CASE PassWaitPeer(r, n)
  BY <1>7 DEF PassWaitPeer
<1> QED
  BY <1>1, <1>4, <1>5, <1>6, <1>7

(* An id is registered once, and released once after that. *)
THEOREM IdsLiveOnce == Spec => IdLifeCycle
<1> DEFINE A == \A x \in Id : table'[x] # table[x] =>
                  \/ table[x] = "absent" /\ table'[x] \in {"live", "failed"}
                  \/ table[x] \in {"live", "failed"} /\ table'[x] = "released"
<1>1. IInv /\ [Next]_vars => [A]_table
  <2> SUFFICES ASSUME IInv, [Next]_vars, table' # table PROVE A
    OBVIOUS
  <2>1. ~\E t \in Thread : ThreadStep(t)
    BY GuestKeepsTable
  <2>2. PICK r \in Ring : RingStep(r)
    BY <2>1 DEF Next, vars
  <2> QED
    BY <2>2, DecodeMovesIds
<1>2. IInv /\ [Next]_vars => [\A x \in Id : table'[x] # table[x] =>
                  \/ table[x] = "absent" /\ table'[x] \in {"live", "failed"}
                  \/ table[x] \in {"live", "failed"} /\ table'[x] = "released"]_table
  BY <1>1
<1> QED
  BY <1>2, Invariance, PTL DEF Spec, IdLifeCycle

-----------------------------------------------------------------------------
(* The refinement: ObjectCalls implements CallContract, for every number   *)
(* of threads, rings and ids and whatever the bounds.                      *)

(* Objects that were looked up: *)

Found == {"live", "released"}

(* A ring thread that is past a lookup is at its next command, and what it *)
(* found is live, or was released since: objects never fail later.         *)
PhaseOK ==
  \A r \in Ring : phase[r] # "fetch" =>
    \E n \in DOMAIN log :
      /\ IsNext(r, n) /\ log[n].kind = "call"
      /\ log[n].self # NoId => table[log[n].self] \in Found
      /\ phase[r] = "run" /\ log[n].arg # NoId => table[log[n].arg] \in Found

CInv == IInv /\ PhaseOK

LEMMA NextIsUnique ==
  ASSUME TypeOK, NEW r \in Ring, NEW n \in DOMAIN log, NEW m \in DOMAIN log,
         IsNext(r, n), IsNext(r, m)
  PROVE  n = m
<1>1. n \in Nat /\ m \in Nat
  BY DEF TypeOK
<1>2. n <= m /\ m <= n
  BY DEF IsNext
<1> QED
  BY <1>1, <1>2

(* A guest thread leaves the host alone, and publishes a command or none.  *)
LEMMA GuestStep ==
  ASSUME IInv, NEW t \in Thread, ThreadStep(t)
  PROVE  /\ UNCHANGED <<head, phase, table, fatal, dropped>>
         /\ \/ log' = log
            \/ \E c \in Command : Publish(c)
<1>1. ASSUME NEW self \in Nameable, NEW arg \in Nameable,
             NEW outs \in SUBSET (Id \ minted), AsyncCall(t, self, arg, outs)
      PROVE  /\ UNCHANGED <<head, phase, table, fatal, dropped>>
             /\ \E c \in Command : Publish(c)
  BY <1>1, CallIsPublishable DEF AsyncCall, hostVars
<1>2. ASSUME NEW self \in Nameable, NEW arg \in Nameable,
             NEW outs \in SUBSET (Id \ minted), StagedCall(t, self, arg, outs)
      PROVE  UNCHANGED <<head, phase, table, fatal, dropped, log>>
  BY <1>2 DEF StagedCall, hostVars
<1>3. ASSUME NEW self \in Nameable, NEW arg \in Nameable,
             NEW outs \in SUBSET (Id \ minted), SyncCall(t, self, arg, outs)
      PROVE  /\ UNCHANGED <<head, phase, table, fatal, dropped>>
             /\ \E c \in Command : Publish(c)
  BY <1>3, CallIsPublishable DEF SyncCall, hostVars
<1>4. CASE PublishStaged(t)
  <2>1. Head(staging[t]) \in Command
    BY <1>4, HeadTailFacts DEF PublishStaged, IInv, TypeOK
  <2> QED
    BY <1>4, <2>1 DEF PublishStaged, hostVars
<1>5. CASE SyncReturn(t)
  BY <1>5 DEF SyncReturn
<1>6. ASSUME NEW x \in held, ReleaseWrapper(t, x)
      PROVE  /\ UNCHANGED <<head, phase, table, fatal, dropped>>
             /\ \E c \in Command : Publish(c)
  <2>1. Release(t, x) \in Command
    BY ReleaseIsCommand DEF IInv, TypeOK
  <2> QED
    BY <1>6, <2>1 DEF ReleaseWrapper, hostVars
<1>7. ASSUME NEW q \in Ring, EmitWaitPeer(t, q)
      PROVE  /\ UNCHANGED <<head, phase, table, fatal, dropped>>
             /\ \E c \in Command : Publish(c)
  <2>1. WaitPeer(t, q) \in Command
    BY WaitPeerIsCommand DEF IInv, TypeOK
  <2> QED
    BY <1>7, <2>1 DEF EmitWaitPeer, hostVars
<1> QED
  BY <1>1, <1>2, <1>3, <1>4, <1>5, <1>6, <1>7 DEF ThreadStep

LEMMA GuestKeepsPhase ==
  ASSUME CInv, NEW t \in Thread, ThreadStep(t)
  PROVE  PhaseOK'
<1>1. IInv /\ TypeOK /\ PhaseOK
  BY DEF CInv, IInv
<1>2. UNCHANGED <<head, phase, table>>
  BY <1>1, GuestStep
<1>3. CASE log' = log
  BY <1>1, <1>2, <1>3 DEF PhaseOK, IsNext, Undecoded, Decoded
<1>4. ASSUME NEW c \in Command, Publish(c)
      PROVE  PhaseOK'
  <2> SUFFICES ASSUME NEW r \in Ring, phase[r] # "fetch", NEW n \in DOMAIN log,
                      IsNext(r, n)
               PROVE  n \in DOMAIN log' /\ log'[n] = log[n] /\ IsNext(r, n)'
    BY <1>1, <1>2 DEF PhaseOK
  <2>1. /\ n \in 1..Len(log) /\ DOMAIN log' = 1..(Len(log) + 1) /\ Len(log) \in Nat
        /\ \A m \in 1..Len(log) : log'[m] = log[m]
    BY <1>1, <1>4, PublishFacts
  <2>2. \A m \in Undecoded(r)' : m \in Undecoded(r) \/ m = Len(log) + 1
    BY <1>2, <2>1 DEF Undecoded, Decoded
  <2>3. n \in Undecoded(r)'
    BY <1>2, <2>1 DEF IsNext, Undecoded, Decoded
  <2> QED
    BY <2>1, <2>2, <2>3 DEF IsNext
<1> QED
  BY <1>1, <1>3, <1>4, GuestStep

(* The other rings are where they were, and what they found is still found. *)
LEMMA OthersKeepPhase ==
  ASSUME CInv, NEW r \in Ring, RingStep(r), UNCHANGED log,
         phase' = [phase EXCEPT ![r] = phase'[r]],
         NEW h, head' = [head EXCEPT ![r] = h],
         NEW q \in Ring, q # r, phase'[q] # "fetch"
  PROVE  \E n \in DOMAIN log' :
           /\ IsNext(q, n)' /\ log'[n].kind = "call"
           /\ log'[n].self # NoId => table'[log'[n].self] \in Found
           /\ phase'[q] = "run" /\ log'[n].arg # NoId => table'[log'[n].arg] \in Found
<1>1. IInv /\ TypeOK /\ PhaseOK /\ phase'[q] = phase[q] /\ head'[q] = head[q]
  BY DEF CInv, IInv, TypeOK
<1>2. PICK n \in DOMAIN log :
        /\ IsNext(q, n) /\ log[n].kind = "call"
        /\ log[n].self # NoId => table[log[n].self] \in Found
        /\ phase[q] = "run" /\ log[n].arg # NoId => table[log[n].arg] \in Found
  BY <1>1 DEF PhaseOK
<1>3. Undecoded(q)' = Undecoded(q)
  BY <1>1 DEF Undecoded, Decoded
<1>4. IsNext(q, n)'
  BY <1>2, <1>3 DEF IsNext
<1>5. ASSUME NEW x \in Id, table[x] \in Found
      PROVE  table'[x] \in Found
  BY <1>1, <1>5, DecodeMovesIds DEF Found
<1>6. log[n].self \in Id \cup {NoId} /\ log[n].arg \in Id \cup {NoId}
  BY <1>1, LogEntries DEF Command
<1> QED
  BY <1>1, <1>2, <1>4, <1>5, <1>6

(* What a lookup found is recorded in the phase. *)
LEMMA RingKeepsPhase ==
  ASSUME CInv, NEW r \in Ring, RingStep(r)
  PROVE  PhaseOK'
<1>0. IInv /\ TypeOK /\ PhaseOK
  BY DEF CInv, IInv
<1>1. PICK n \in DOMAIN log :
        \/ LookupSelf(r, n)
        \/ LookupArg(r, n)
        \/ \E hr \in {"ok", "fail"}, bad \in SUBSET log[n].outs,
              acquired \in BOOLEAN : Execute(r, n, hr, bad, acquired)
        \/ ReleaseObject(r, n)
        \/ PassWaitPeer(r, n)
  BY DEF RingStep
<1>2. UNCHANGED log
  BY <1>1 DEF LookupSelf, LookupArg, Execute, ReleaseObject, PassWaitPeer
<1>3. CASE Advance(r, n)
  <2>1. /\ phase' = [phase EXCEPT ![r] = phase'[r]] /\ phase'[r] = "fetch"
        /\ head' = [head EXCEPT ![r] = n]
    BY <1>0, <1>3 DEF Advance, TypeOK
  <2> QED
    BY <1>2, <2>1, OthersKeepPhase DEF PhaseOK
<1>4. CASE UNCHANGED <<head, phase, table>>
  BY <1>0, <1>2, <1>4 DEF PhaseOK, IsNext, Undecoded, Decoded
<1>5. ASSUME UNCHANGED <<head, table>>, NEW p, phase' = [phase EXCEPT ![r] = p],
             IsNext(r, n), log[n].kind = "call",
             log[n].self # NoId => table[log[n].self] \in Found,
             p = "run" /\ log[n].arg # NoId => table[log[n].arg] \in Found
      PROVE  PhaseOK'
  <2>1. phase'[r] = p /\ phase' = [phase EXCEPT ![r] = phase'[r]]
    BY <1>0, <1>5 DEF TypeOK
  <2>2. head' = [head EXCEPT ![r] = head[r]]
    BY <1>0, <1>5 DEF TypeOK
  <2>3. IsNext(r, n)'
    BY <1>2, <1>5 DEF IsNext, Undecoded, Decoded
  <2>4. /\ log'[n].kind = "call"
        /\ log'[n].self # NoId => table'[log'[n].self] \in Found
        /\ phase'[r] = "run" /\ log'[n].arg # NoId => table'[log'[n].arg] \in Found
    BY <1>2, <1>5, <2>1
  <2> QED
    BY <1>2, <2>1, <2>2, <2>3, <2>4, OthersKeepPhase DEF PhaseOK
<1>6. CASE LookupSelf(r, n)
  <2>1. CASE table[log[n].self] = "live"
    BY <1>5, <1>6, <2>1 DEF LookupSelf, Found
  <2>2. CASE table[log[n].self] # "live"
    BY <1>3, <1>4, <1>6, <2>2 DEF LookupSelf, Miss
  <2> QED
    BY <2>1, <2>2
<1>7. CASE LookupArg(r, n)
  <2>1. CASE table[log[n].arg] = "live"
    <3>1. log[n].self # NoId => table[log[n].self] \in Found
      <4> SUFFICES ASSUME log[n].self # NoId PROVE table[log[n].self] \in Found
        OBVIOUS
      <4>1. phase[r] = "args" /\ IsNext(r, n)
        BY <1>7 DEF LookupArg
      <4> QED
        BY <1>0, <4>1, NextIsUnique DEF PhaseOK
    <3> QED
      BY <1>5, <1>7, <2>1, <3>1 DEF LookupArg, Found
  <2>2. CASE table[log[n].arg] # "live"
    BY <1>3, <1>4, <1>7, <2>2 DEF LookupArg, Miss
  <2> QED
    BY <2>1, <2>2
<1> QED
  BY <1>1, <1>3, <1>6, <1>7 DEF Execute, ReleaseObject, PassWaitPeer

THEOREM PhaseInvariance == Spec => []CInv
<1>1. Init => PhaseOK
  BY DEF Init, PhaseOK
<1>2. CInv /\ [Next]_vars => PhaseOK'
  <2> SUFFICES ASSUME CInv, [Next]_vars PROVE PhaseOK'
    OBVIOUS
  <2>1. CASE UNCHANGED vars
    BY <2>1 DEF vars, CInv, PhaseOK, IsNext, Undecoded, Decoded
  <2> QED
    BY <2>1, GuestKeepsPhase, RingKeepsPhase DEF Next
<1> QED
  BY <1>1, <1>2, Invariance, PTL DEF Spec, CInv

-----------------------------------------------------------------------------
(* What is over, and what a command asks *)

(* The command a ring thread completes is due: all it comes after is over. *)
LEMMA NextIsDue ==
  ASSUME IInv, NEW r \in Ring, NEW n \in DOMAIN log, IsNext(r, n),
         log[n].kind = "call" \/ WaitsMet(log[n])
  PROVE  Contract!Due(n)
<1>1. /\ TypeOK /\ LogOK /\ ~Decoded(n) /\ log[n].ring = r
      /\ n \in 1..Len(log) /\ Len(log) \in Nat
  BY DEF IInv, LogInv, IsNext, Undecoded, TypeOK
<1>2. Len(Issued) = Len(log) /\ Issued[n] = Asked(n)
  BY <1>1 DEF Issued
<1>3. ASSUME NEW m \in After(n)
      PROVE  m \in Over
  <2>1. m \in 1..(n - 1) /\ m \in DOMAIN log /\ m \in 1..Len(log) /\ m < n /\ m \in Nat
    BY <1>1 DEF After, TypeOK
  <2>2. CASE log[m].ring = r
    BY <1>1, <2>1, <2>2 DEF IsNext, Undecoded, Over
  <2>3. CASE log[m].ring # r /\ m <= log[n].waits[log[m].ring]
    <3>1. /\ log[m].ring \in Ring /\ head[log[m].ring] \in Nat
          /\ log[n].waits[log[m].ring] \in Nat
      BY <1>1, <2>1, LogEntries DEF TypeOK
    <3>2. WaitsMet(log[n])
      <4> SUFFICES ASSUME log[n].kind = "call" PROVE WaitsMet(log[n])
        OBVIOUS
      <4>1. log[n].waits = NoWaits
        BY <1>1 DEF LogOK
      <4> QED
        BY <1>1, <4>1 DEF WaitsMet, NoWaits, TypeOK
    <3>3. head[log[m].ring] >= log[n].waits[log[m].ring]
      BY <3>1, <3>2 DEF WaitsMet
    <3> QED
      BY <2>1, <2>3, <3>1, <3>3 DEF Decoded, Over
  <2> QED
    BY <1>1, <2>2, <2>3 DEF After
<1> QED
  BY <1>1, <1>2, <1>3 DEF Contract!Due, Contract!Positions, Over, Asked

(* Nothing is asked by the way, and the next command of r is over. *)
LEMMA DecodeIsOver ==
  ASSUME IInv, NEW r \in Ring, NEW n \in DOMAIN log, IsNext(r, n),
         log' = log, head' = [head EXCEPT ![r] = n]
  PROVE  Issued' = Issued /\ Over' = Over \cup {n}
<1>1. TypeOK /\ n \in 1..Len(log) /\ DOMAIN log = 1..Len(log)
  BY DEF IInv, TypeOK
<1>2. \A k \in DOMAIN log : Decoded(k)' <=> Decoded(k) \/ k = n
  BY <1>1, DecodeOne
<1> QED
  BY <1>1, <1>2 DEF Issued, Asked, After, Uses, Over

(* A sequence with one element more is the shorter one, appended to. *)
LEMMA LongerByOne ==
  ASSUME NEW S, NEW s \in Seq(S), NEW t \in Seq(S), Len(t) = Len(s) + 1,
         \A k \in 1..Len(s) : t[k] = s[k]
  PROVE  t = Append(s, t[Len(s) + 1])
<1>1. t[Len(s) + 1] \in S
  OBVIOUS
<1> DEFINE a == Append(s, t[Len(s) + 1])
<1>2. a \in Seq(S) /\ Len(a) = Len(t)
  BY <1>1
<1>3. ASSUME NEW k \in 1..Len(t)
      PROVE  a[k] = t[k]
  BY <1>1
<1> QED
  BY <1>2, <1>3, SeqEqual

(* A publication asks for one thing more. *)
LEMMA PublishAsks ==
  ASSUME IInv, NEW c \in Command, Publish(c), UNCHANGED head,
         NEW CONSTANT last, last = Len(log) + 1
  PROVE  /\ Len(Issued) = Len(log) /\ Len(Issued') = last
         /\ Issued' = Append(Issued, Issued'[last])
         /\ Issued'[last] = Asked(last)'
         /\ \A k \in 1..Len(log) : Issued[k] = Asked(k) /\ Decoded(k)' = Decoded(k)
<1> DEFINE L == Len(log)
           S == {Asked(k) : k \in 1..L} \cup {Asked(last)'}
<1>1. /\ TypeOK /\ L \in Nat /\ Len(log') = last /\ last = L + 1
      /\ \A k \in 1..L : log'[k] = log[k]
  BY PublishFacts DEF IInv
<1>2. ASSUME NEW k \in 1..L
      PROVE  Asked(k)' = Asked(k)
  <2>1. log'[k] = log[k] /\ \A m \in 1..(k - 1) : m \in 1..L /\ log'[m] = log[m]
    BY <1>1
  <2>2. After(k)' = After(k)
    BY <2>1 DEF After
  <2> QED
    BY <2>1, <2>2 DEF Asked, Uses
<1>3. /\ \A k \in 1..L : Asked(k) \in S
      /\ \A k \in 1..last : Asked(k)' \in S
  <2>1. \A k \in 1..L : Asked(k) \in S
    OBVIOUS
  <2>2. Asked(last)' \in S
    OBVIOUS
  <2>3. \A k \in 1..last : k \in 1..L \/ k = last
    BY <1>1
  <2>4. ASSUME NEW k \in 1..last
        PROVE  Asked(k)' \in S
    <3>1. CASE k \in 1..L
      BY <1>2, <2>1, <3>1
    <3>2. CASE k = last
      BY <2>2, <3>2
    <3> QED
      BY <2>3, <3>1, <3>2
  <2> QED
    BY <2>1, <2>4
<1> HIDE DEF S
<1>4. /\ Issued \in Seq(S) /\ Len(Issued) = L
      /\ \A k \in 1..L : Issued[k] = Asked(k)
  BY <1>1, <1>3 DEF Issued
<1>5. /\ Issued' \in Seq(S) /\ Len(Issued') = last
      /\ \A k \in 1..last : Issued'[k] = Asked(k)'
  BY <1>1, <1>3 DEF Issued
<1>6. \A k \in 1..L : Issued'[k] = Issued[k]
  BY <1>1, <1>2, <1>4, <1>5
<1>7. \A k \in 1..L : Decoded(k)' = Decoded(k)
  BY <1>1 DEF Decoded
<1>8. Issued' = Append(Issued, Issued'[last])
  BY <1>1, <1>4, <1>5, <1>6, LongerByOne
<1>9. last \in 1..last
  BY <1>1
<1>10. Issued'[last] = Asked(last)'
  BY <1>5, <1>9
<1> QED
  BY <1>4, <1>5, <1>7, <1>8, <1>10

-----------------------------------------------------------------------------
(* Steps of the guest *)

(* A command that is published is issued: behind its thread's commands, as *)
(* they are on its ring, and a release behind everything.                  *)
LEMMA PublishIssues ==
  ASSUME IInv, IInv', NEW c \in Command, Publish(c), UNCHANGED hostVars,
         IF c.reply
         THEN /\ waiting[c.thread] = 0
              /\ waiting' = [waiting EXCEPT ![c.thread] = Len(log) + 1]
         ELSE waiting' = waiting
  PROVE  Contract!Issue
<1> DEFINE last == Len(log) + 1
<1>1. PICK n : n = last
  OBVIOUS
<1>2. /\ Len(Issued) = Len(log) /\ Len(Issued') = n
      /\ Issued' = Append(Issued, Issued'[n]) /\ Issued'[n] = Asked(n)'
      /\ \A k \in 1..Len(log) : Issued[k] = Asked(k) /\ Decoded(k)' = Decoded(k)
  BY <1>1, PublishAsks DEF hostVars
<1>3. /\ Len(log) \in Nat /\ DOMAIN log' = 1..n /\ log'[n] = c /\ n \in Nat
      /\ \A k \in 1..Len(log) : log'[k] = log[k] /\ k \in DOMAIN log'
      /\ n \in DOMAIN log' /\ 1..(n - 1) = 1..Len(log) /\ Len(log') = n
  BY <1>1, PublishFacts DEF IInv
<1>4. LogOK' /\ ReleaseCoversOlder' /\ PositionsOK'
  BY DEF IInv, LogInv
<1>5. /\ Issued'[n].thread = c.thread /\ Issued'[n].sync = c.reply
      /\ Issued'[n].after = After(n)'
      /\ Issued'[n].frees # {} => c.kind = "release"
  BY <1>2, <1>3 DEF Asked
<1>6. ASSUME NEW k \in 1..Len(log), Issued[k].thread = c.thread
      PROVE  k \in After(n)'
  <2>1. log'[k].thread = log'[n].thread
    <3>1. Asked(k).thread = c.thread
      BY <1>2, <1>6
    <3>2. Asked(k).thread = log[k].thread
      BY DEF Asked
    <3>3. log'[k] = log[k] /\ log'[n] = c
      BY <1>3
    <3> QED
      BY <3>1, <3>2, <3>3
  <2>2. log'[k].ring = log'[n].ring
    BY <1>3, <1>4, <2>1 DEF LogOK
  <2> QED
    BY <1>3, <2>2 DEF After
<1>7. After(n)' \subseteq 1..Len(log)
  BY <1>3 DEF After
<1>8. ASSUME c.kind = "release"
      PROVE  After(n)' = 1..Len(log)
  BY <1>3, <1>4, <1>8 DEF After, ReleaseCoversOlder
<1>9. Over' = Over
  <2>1. ~Decoded(n)'
    <3>1. c.ring \in Ring /\ head[c.ring] \in Nat
      BY DEF Command, IInv, TypeOK
    <3>2. head[c.ring] <= tail[c.ring] /\ tail[c.ring] <= Len(log) /\ tail[c.ring] \in Nat
      BY <3>1 DEF IInv, LogInv, PositionsOK, TypeOK
    <3> QED
      BY <1>1, <1>3, <3>1, <3>2 DEF Decoded, hostVars
  <2>2. \A k \in 1..n : k \in 1..Len(log) \/ k = n
    BY <1>1, <1>3
  <2> QED
    BY <1>2, <1>3, <2>1, <2>2 DEF Over
<1>10. Contract!Positions = 1..Len(log)
  BY <1>2 DEF Contract!Positions
<1> QED
  BY <1>1, <1>2, <1>5, <1>6, <1>7, <1>8, <1>9, <1>10 DEF Contract!Issue, hostVars

LEMMA NothingAsked ==
  ASSUME UNCHANGED <<log, head>>
  PROVE  Issued' = Issued /\ Over' = Over
BY DEF Issued, Over, Asked, After, Uses, Decoded

LEMMA ReturnReturns ==
  ASSUME IInv, NEW t \in Thread, SyncReturn(t)
  PROVE  Contract!Return(t)
<1>1. /\ TypeOK /\ LogOK /\ waiting[t] \in DOMAIN log /\ log[waiting[t]].thread = t
      /\ Issued' = Issued /\ Over' = Over
  BY NothingAsked DEF SyncReturn, IInv, LogInv, HeldOK
<1>2. waiting[t] \in 1..Len(log) /\ log[waiting[t]].ring = RingOf[t]
  BY <1>1 DEF TypeOK, LogOK
<1>3. head[RingOf[t]] >= waiting[t] => waiting[t] \in Over
  BY <1>1, <1>2, RingOfType DEF Over, Decoded, TypeOK
<1> QED
  BY <1>1, <1>3 DEF SyncReturn, Contract!Return

LEMMA GuestRefines ==
  ASSUME IInv, IInv', NEW t \in Thread, ThreadStep(t)
  PROVE  Contract!Issue \/ Contract!Return(t) \/ UNCHANGED Contract!vars
<1>1. ASSUME NEW self \in Nameable, NEW arg \in Nameable,
             NEW outs \in SUBSET (Id \ minted), AsyncCall(t, self, arg, outs)
      PROVE  Contract!Issue
  <2>1. Call(t, self, arg, outs, FALSE) \in Command
    BY <1>1, CallIsPublishable DEF AsyncCall
  <2>2. ~Call(t, self, arg, outs, FALSE).reply
    BY DEF Call
  <2> QED
    BY <1>1, <2>1, <2>2, PublishIssues DEF AsyncCall
<1>2. ASSUME NEW self \in Nameable, NEW arg \in Nameable,
             NEW outs \in SUBSET (Id \ minted), StagedCall(t, self, arg, outs)
      PROVE  UNCHANGED Contract!vars
  BY <1>2, NothingAsked DEF StagedCall, hostVars, Contract!vars
<1>3. ASSUME NEW self \in Nameable, NEW arg \in Nameable,
             NEW outs \in SUBSET (Id \ minted), SyncCall(t, self, arg, outs)
      PROVE  Contract!Issue
  <2>1. Call(t, self, arg, outs, TRUE) \in Command
    BY <1>3, CallIsPublishable DEF SyncCall
  <2>2. /\ Call(t, self, arg, outs, TRUE).reply
        /\ Call(t, self, arg, outs, TRUE).thread = t
    BY DEF Call
  <2> QED
    BY <1>3, <2>1, <2>2, PublishIssues DEF SyncCall
<1>4. CASE PublishStaged(t)
  <2>1. /\ Head(staging[t]) \in Command /\ 1 \in DOMAIN staging[t]
        /\ Head(staging[t]) = staging[t][1]
    BY <1>4, HeadTailFacts DEF PublishStaged, IInv, TypeOK
  <2>2. ~Head(staging[t]).reply
    BY <2>1 DEF IInv, LogInv, StagedOK
  <2> QED
    BY <1>4, <2>1, <2>2, PublishIssues DEF PublishStaged
<1>5. CASE SyncReturn(t)
  BY <1>5, ReturnReturns
<1>6. ASSUME NEW x \in held, ReleaseWrapper(t, x)
      PROVE  Contract!Issue
  <2>1. Release(t, x) \in Command /\ ~Release(t, x).reply
    BY ReleaseIsCommand DEF IInv, TypeOK, Release
  <2> QED
    BY <1>6, <2>1, PublishIssues DEF ReleaseWrapper
<1>7. ASSUME NEW q \in Ring, EmitWaitPeer(t, q)
      PROVE  Contract!Issue
  <2>1. WaitPeer(t, q) \in Command /\ ~WaitPeer(t, q).reply
    BY WaitPeerIsCommand DEF IInv, TypeOK, WaitPeer
  <2> QED
    BY <1>7, <2>1, PublishIssues DEF EmitWaitPeer, guestVars
<1> QED
  BY <1>1, <1>2, <1>3, <1>4, <1>5, <1>6, <1>7 DEF ThreadStep

-----------------------------------------------------------------------------
(* Steps of a ring thread *)

(* What the contract sees of the command a ring thread is at. *)
LEMMA NextIsAsked ==
  ASSUME IInv, NEW r \in Ring, NEW n \in DOMAIN log, IsNext(r, n)
  PROVE  /\ TypeOK /\ n \in Contract!Positions /\ log[n].ring = r
         /\ Issued[n].thread = log[n].thread
         /\ Issued[n].outs = log[n].outs
         /\ Issued[n].sync = log[n].reply
         /\ log[n].kind = "call" => Issued[n].uses = Uses(log[n])
         /\ log[n].kind # "call" => Issued[n].uses = {}
         /\ log[n].kind = "release" => Issued[n].frees = {log[n].self}
         /\ log[n].kind # "release" => Issued[n].frees = {}
<1>1. TypeOK /\ n \in 1..Len(log) /\ log[n].ring = r /\ Len(log) \in Nat
  BY DEF IInv, IsNext, Undecoded, TypeOK
<1>2. Issued[n] = Asked(n) /\ Len(Issued) = Len(log)
  BY <1>1 DEF Issued
<1> QED
  BY <1>1, <1>2 DEF Asked, Contract!Positions

(* A handle that is missed loses the call, or the context. *)
LEMMA MissRefines ==
  ASSUME IInv, NEW r \in Ring, NEW n \in DOMAIN log, IsNext(r, n),
         log[n].kind = "call", Miss(r, n),
         NEW x \in Uses(log[n]), table[x] # "absent", table[x] # "live",
         UNCHANGED <<log, guestVars, reply>>
  PROVE  Contract!Lose(n) \/ Contract!Collapse(n)
<1>1. /\ Contract!Due(n)
      /\ TypeOK /\ Issued[n].outs = log[n].outs /\ Issued[n].sync = log[n].reply
      /\ Issued[n].uses = Uses(log[n])
  BY NextIsDue, NextIsAsked
<1>2. table[x] \in {"failed", "released"}
  BY <1>1, LogEntries DEF TypeOK
<1>3. Contract!Spoilt(n)
  BY <1>1, <1>2 DEF Contract!Spoilt
<1>4. CASE log[n].reply
  <2>1. Issued' = Issued /\ Over' = Over
    BY <1>4, NothingAsked DEF Miss
  <2> QED
    BY <1>1, <1>3, <1>4, <2>1 DEF Miss, Contract!Collapse, guestVars
<1>5. CASE ~log[n].reply
  <2>1. Issued' = Issued /\ Over' = Over \cup {n}
    BY <1>5, DecodeIsOver DEF Miss, Advance
  <2> QED
    BY <1>1, <1>3, <1>5, <2>1
    DEF Miss, RegisterFailed, Contract!Lose, guestVars
<1> QED
  BY <1>4, <1>5

LEMMA LookupRefines ==
  ASSUME IInv, NEW r \in Ring, NEW n \in DOMAIN log,
         LookupSelf(r, n) \/ LookupArg(r, n)
  PROVE  Contract!Lose(n) \/ Contract!Collapse(n) \/ UNCHANGED Contract!vars
<1>1. CASE LookupSelf(r, n)
  <2>1. log[n].self \in Uses(log[n])
    BY <1>1 DEF LookupSelf, Uses
  <2>2. CASE table[log[n].self] = "live"
    BY <1>1, <2>2, NothingAsked DEF LookupSelf, guestVars, Contract!vars
  <2>3. CASE table[log[n].self] # "live"
    BY <1>1, <2>1, <2>3, MissRefines DEF LookupSelf
  <2> QED
    BY <2>2, <2>3
<1>2. CASE LookupArg(r, n)
  <2>1. log[n].arg \in Uses(log[n])
    BY <1>2 DEF LookupArg, Uses
  <2>2. CASE table[log[n].arg] = "live"
    BY <1>2, <2>2, NothingAsked DEF LookupArg, guestVars, Contract!vars
  <2>3. CASE table[log[n].arg] # "live"
    BY <1>2, <2>1, <2>3, MissRefines DEF LookupArg
  <2> QED
    BY <2>2, <2>3
<1> QED
  BY <1>1, <1>2

(* A call that runs has found its objects, and what was released since was *)
(* released before the call was issued.                                    *)
LEMMA ExecuteRefines ==
  ASSUME CInv, NEW r \in Ring, NEW n \in DOMAIN log,
         NEW hr \in {"ok", "fail"}, NEW bad \in SUBSET log[n].outs,
         NEW acquired \in BOOLEAN, Execute(r, n, hr, bad, acquired)
  PROVE  \E result \in {"none", "ok", "fail"} : Contract!Perform(n, result, bad)
<1>0. IInv /\ TypeOK /\ LogInv /\ PhaseOK /\ IsNext(r, n) /\ log[n].kind = "call"
  BY DEF CInv, IInv, Execute
<1>1. /\ Contract!Due(n)
      /\ Issued[n].thread = log[n].thread
      /\ Issued[n].outs = log[n].outs /\ Issued[n].sync = log[n].reply
      /\ Issued[n].uses = Uses(log[n]) /\ Issued[n].frees = {}
  BY <1>0, NextIsDue, NextIsAsked
<1>2. Issued' = Issued /\ Over' = Over \cup {n}
  BY <1>0, DecodeIsOver DEF Execute, Advance
<1>3. ASSUME NEW x \in Uses(log[n])
      PROVE  table[x] \in Found
  <2>1. phase[r] = "run"
    BY <1>3 DEF Execute
  <2> QED
    BY <1>0, <1>3, <2>1, NextIsUnique DEF PhaseOK, Uses
<1>4. ASSUME NEW x \in Uses(log[n]), table[x] = "released"
      PROVE  Contract!FreedBefore(n, x)
  <2>1. ~Decoded(n) /\ x \in Id /\ WaitsStayMet /\ ReleasedOK
    BY <1>0, <1>4, LogEntries DEF IsNext, Undecoded, IInv, HostInv
  <2>2. PICK m \in 1..(n - 1) : m \in DOMAIN log /\ Releases(m, x)
    BY <1>0, <1>4, <2>1, ReleasedBefore
  <2>3. Issued[m] = Asked(m)
    BY <1>0, <2>2 DEF Issued, TypeOK
  <2> QED
    BY <2>2, <2>3 DEF Asked, Releases, Contract!FreedBefore
<1> DEFINE result == IF log[n].reply /\ ~fatal /\ acquired THEN hr ELSE "none"
<1>5. result \in {"none", "ok", "fail"}
  OBVIOUS
<1>6. reply' = IF Issued[n].sync /\ result # "none"
               THEN [reply EXCEPT ![Issued[n].thread] = result] ELSE reply
  BY <1>1 DEF Execute
<1> HIDE DEF result
<1>7. Contract!Perform(n, result, bad)
  BY <1>1, <1>2, <1>3, <1>4, <1>6
  DEF Execute, RegisterOutputs, Found, guestVars, Contract!Perform
<1> QED
  BY <1>5, <1>7

LEMMA ReleaseObjectRefines ==
  ASSUME IInv, NEW r \in Ring, NEW n \in DOMAIN log, ReleaseObject(r, n)
  PROVE  Contract!Free(n)
<1>1. IsNext(r, n) /\ log[n].kind = "release" /\ WaitsMet(log[n])
  BY DEF ReleaseObject
<1>2. TypeOK /\ Contract!Due(n) /\ Issued[n].frees = {log[n].self}
  BY <1>1, NextIsDue, NextIsAsked
<1>3. Issued' = Issued /\ Over' = Over \cup {n}
  BY <1>1, DecodeIsOver DEF ReleaseObject, Advance
<1>4. table' = [x \in Id |-> IF x \in {log[n].self} THEN "released" ELSE table[x]]
  BY <1>2 DEF ReleaseObject, TypeOK
<1> QED
  BY <1>2, <1>3, <1>4 DEF ReleaseObject, guestVars, Contract!Free

LEMMA PassWaitPeerRefines ==
  ASSUME IInv, NEW r \in Ring, NEW n \in DOMAIN log, PassWaitPeer(r, n)
  PROVE  Contract!Perform(n, "none", {})
<1>1. IsNext(r, n) /\ log[n].kind = "wait" /\ WaitsMet(log[n])
  BY DEF PassWaitPeer
<1>2. /\ TypeOK /\ Contract!Due(n)
      /\ Issued[n].uses = {} /\ Issued[n].frees = {} /\ Issued[n].outs = log[n].outs
  BY <1>1, NextIsDue, NextIsAsked
<1>3. Issued[n].outs = {}
  BY <1>1, <1>2 DEF IInv, LogInv, LogOK
<1>4. Issued' = Issued /\ Over' = Over \cup {n}
  BY <1>1, DecodeIsOver DEF PassWaitPeer, Advance
<1>5. table' = [x \in Id |-> table[x]]
  BY <1>2 DEF PassWaitPeer, TypeOK
<1> QED
  BY <1>2, <1>3, <1>4, <1>5 DEF PassWaitPeer, guestVars, Contract!Perform

LEMMA RingRefines ==
  ASSUME CInv, NEW r \in Ring, RingStep(r)
  PROVE  [Contract!Next]_Contract!vars
<1>0. IInv
  BY DEF CInv
<1>1. PICK n \in DOMAIN log :
        \/ LookupSelf(r, n)
        \/ LookupArg(r, n)
        \/ \E hr \in {"ok", "fail"}, bad \in SUBSET log[n].outs,
              acquired \in BOOLEAN : Execute(r, n, hr, bad, acquired)
        \/ ReleaseObject(r, n)
        \/ PassWaitPeer(r, n)
  BY DEF RingStep
<1>2. IsNext(r, n)
  BY <1>1 DEF LookupSelf, LookupArg, Execute, ReleaseObject, PassWaitPeer
<1>3. n \in Contract!Positions /\ Issued[n].outs = log[n].outs
  BY <1>0, <1>2, NextIsAsked
<1>4. CASE LookupSelf(r, n) \/ LookupArg(r, n)
  BY <1>0, <1>3, <1>4, LookupRefines DEF Contract!Next
<1>5. ASSUME NEW hr \in {"ok", "fail"}, NEW bad \in SUBSET log[n].outs,
             NEW acquired \in BOOLEAN, Execute(r, n, hr, bad, acquired)
      PROVE  Contract!Next
  BY <1>3, <1>5, ExecuteRefines DEF Contract!Next
<1>6. CASE ReleaseObject(r, n)
  BY <1>0, <1>3, <1>6, ReleaseObjectRefines DEF Contract!Next
<1>7. CASE PassWaitPeer(r, n)
  BY <1>0, <1>3, <1>7, PassWaitPeerRefines DEF Contract!Next
<1> QED
  BY <1>1, <1>4, <1>5, <1>6, <1>7

-----------------------------------------------------------------------------
(* The rings implement the contract: every step of a thread or of a ring   *)
(* is a step of the contract, or nothing to it.                            *)
THEOREM Refinement == Spec => ImplementsContract
<1>1. Init => Contract!Init
  <2> SUFFICES ASSUME Init PROVE Contract!Init
    OBVIOUS
  <2>1. Len(log) = 0
    BY DEF Init
  <2>2. Issued = <<>> /\ Over = {}
    BY <2>1 DEF Issued, Over
  <2> QED
    BY <2>2 DEF Init, Contract!Init
<1>2. CInv /\ CInv' /\ [Next]_vars => [Contract!Next]_Contract!vars
  <2> SUFFICES ASSUME CInv, CInv', [Next]_vars
               PROVE  [Contract!Next]_Contract!vars
    OBVIOUS
  <2>1. CASE UNCHANGED vars
    BY <2>1, NothingAsked DEF vars, Contract!vars
  <2>2. ASSUME NEW t \in Thread, ThreadStep(t)
        PROVE  [Contract!Next]_Contract!vars
    BY <2>2, GuestRefines DEF CInv, Contract!Next
  <2>3. ASSUME NEW r \in Ring, RingStep(r)
        PROVE  [Contract!Next]_Contract!vars
    BY <2>3, RingRefines
  <2> QED
    BY <2>1, <2>2, <2>3 DEF Next
<1> QED
  BY <1>1, <1>2, PhaseInvariance, PTL DEF Spec, ImplementsContract, Contract!Spec
=============================================================================
