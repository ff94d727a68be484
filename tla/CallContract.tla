---------------------------- MODULE CallContract ----------------------------
(***************************************************************************)
(* What ObjectCalls promises its callers, with no rings, staging buffers,  *)
(* positions or lookups that block: COM calls take effect one at a time.   *)
(*                                                                         *)
(* A call takes effect at once, on objects that exist, after every call    *)
(* its thread issued before it; an object goes away after every call that  *)
(* was issued before its release was.  A call whose objects failed or went *)
(* away is lost, or takes the context down if its caller waits for it.     *)
(*                                                                         *)
(* The names of the state are those ObjectCalls has for them.              *)
(***************************************************************************)
EXTENDS Naturals, Sequences

CONSTANTS Thread, Id

VARIABLES
  issued,   \* commands, in the order they were issued
  over,     \* positions of those that took effect or were lost
  dropped,  \* positions of those that were lost
  table,    \* the state of every object
  fatal,    \* the context is gone
  waiting,  \* waiting[t]: position of the call t waits for, 0 if none
  reply     \* reply[t]: what became of it

vars == <<issued, over, dropped, table, fatal, waiting, reply>>

(* A command: [thread, uses, outs, sync, frees, after].  It uses objects   *)
(* and makes others, or is a release and frees one; sync: its thread waits;*)
(* after: positions of the commands it comes after.                        *)

Positions == 1..Len(issued)

(* What x's release was issued before. *)
FreedBefore(n, x) == \E m \in 1..(n - 1) : x \in issued[m].frees

Init ==
  /\ issued = <<>>
  /\ over = {} /\ dropped = {}
  /\ table \in [Id -> {"absent", "live"}]
  /\ fatal = FALSE
  /\ waiting = [t \in Thread |-> 0]
  /\ reply = [t \in Thread |-> "none"]

(* A thread's commands follow one another, and a release everything.  The  *)
(* new command is the last one of issued'.                                 *)
Issue ==
  /\ Len(issued') = Len(issued) + 1
  /\ LET c == issued'[Len(issued) + 1]
     IN  /\ issued' = Append(issued, c)
         /\ {n \in Positions : issued[n].thread = c.thread} \subseteq c.after
         /\ c.after \subseteq Positions
         /\ c.frees # {} => c.after = Positions
         /\ IF c.sync
            THEN /\ waiting[c.thread] = 0
                 /\ waiting' = [waiting EXCEPT ![c.thread] = Len(issued')]
            ELSE waiting' = waiting
  /\ UNCHANGED <<over, dropped, table, fatal, reply>>

Due(n) == n \in Positions \ over /\ issued[n].after \subseteq over

(* The call takes effect: what it makes is live, or failed in the backend. *)
(* An object that is released meanwhile was released by its caller before. *)
Perform(n, hr, bad) ==
  /\ Due(n)
  /\ issued[n].frees = {}
  /\ \A x \in issued[n].uses :
       table[x] = "live" \/ (table[x] = "released" /\ FreedBefore(n, x))
  /\ table' = [x \in Id |-> IF x \in bad THEN "failed"
                            ELSE IF x \in issued[n].outs THEN "live"
                            ELSE table[x]]
  /\ reply' = IF issued[n].sync /\ hr # "none"
              THEN [reply EXCEPT ![issued[n].thread] = hr] ELSE reply
  /\ over' = over \cup {n}
  /\ UNCHANGED <<issued, dropped, fatal, waiting>>

Spoilt(n) == \E x \in issued[n].uses : table[x] \in {"failed", "released"}

(* Nobody waits for the call, and it cannot be made. *)
Lose(n) ==
  /\ Due(n)
  /\ Spoilt(n)
  /\ ~issued[n].sync
  /\ table' = [x \in Id |-> IF x \in issued[n].outs THEN "failed" ELSE table[x]]
  /\ dropped' = dropped \cup {n}
  /\ over' = over \cup {n}
  /\ UNCHANGED <<issued, fatal, waiting, reply>>

Collapse(n) ==
  /\ Due(n)
  /\ Spoilt(n)
  /\ issued[n].sync
  /\ fatal' = TRUE
  /\ UNCHANGED <<issued, over, dropped, table, waiting, reply>>

Free(n) ==
  /\ Due(n)
  /\ issued[n].frees # {}
  /\ table' = [x \in Id |-> IF x \in issued[n].frees THEN "released" ELSE table[x]]
  /\ over' = over \cup {n}
  /\ UNCHANGED <<issued, dropped, fatal, waiting, reply>>

(* A caller goes on when its call took effect, or the context is gone. *)
Return(t) ==
  /\ waiting[t] # 0
  /\ waiting[t] \in over \/ fatal
  /\ waiting' = [waiting EXCEPT ![t] = 0]
  /\ reply' = [reply EXCEPT ![t] = "none"]
  /\ UNCHANGED <<issued, over, dropped, table, fatal>>

Next ==
  \/ Issue
  \/ \E n \in Positions :
       \/ \E hr \in {"none", "ok", "fail"}, bad \in SUBSET issued[n].outs : Perform(n, hr, bad)
       \/ Lose(n) \/ Collapse(n) \/ Free(n)
  \/ \E t \in Thread : Return(t)

Spec == Init /\ [][Next]_vars
=============================================================================
