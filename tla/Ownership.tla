----------------------------- MODULE Ownership -----------------------------
(***************************************************************************)
(* What mem_management.h promises of the garbage collector, without its    *)
(* list: a program makes and releases resources one at a time, each is     *)
(* released once, and when the program ends, or a signal ends it, all are  *)
(* released but the one whose making or release was under way.             *)
(***************************************************************************)
CONSTANTS All,     \* the resources
          Nothing  \* none of them

VARIABLES exists,  \* the resources that exist
          has,     \* those the program can use
          limbo,   \* the one being made or released, or Nothing
          phase

vars == <<exists, has, limbo, phase>>

Init == exists = {} /\ has = {} /\ limbo = Nothing /\ phase = "running"

Idle == phase = "running" /\ limbo = Nothing

\* Something new exists, and the program does not have it yet.
Make(r) ==
  /\ Idle
  /\ r \notin exists
  /\ exists' = exists \cup {r} /\ limbo' = r
  /\ UNCHANGED <<has, phase>>

Give ==
  /\ phase = "running" /\ limbo # Nothing
  /\ has' = has \cup {limbo} /\ limbo' = Nothing
  /\ UNCHANGED <<exists, phase>>

\* The program hands something back, which exists a little longer.
Return(r) ==
  /\ Idle
  /\ r \in has
  /\ has' = has \ {r} /\ limbo' = r
  /\ UNCHANGED <<exists, phase>>

Free ==
  /\ phase = "running" /\ limbo # Nothing
  /\ exists' = exists \ {limbo} /\ limbo' = Nothing
  /\ UNCHANGED <<has, phase>>

\* One block of memory becomes another one.
Swap(p, q) ==
  /\ Idle
  /\ p \in has /\ q \notin exists
  /\ exists' = (exists \ {p}) \cup {q}
  /\ has' = has \ {p} /\ limbo' = q
  /\ UNCHANGED phase

End ==
  /\ phase = "running"
  /\ phase' = "ending"
  /\ UNCHANGED <<exists, has, limbo>>

\* The cleanup releases what is there, in any order.
Reap(r) ==
  /\ phase = "ending"
  /\ r \in exists \ {limbo}
  /\ exists' = exists \ {r}
  /\ UNCHANGED <<has, limbo, phase>>

Over ==
  /\ phase = "ending"
  /\ exists \subseteq {limbo}
  /\ phase' = "ended"
  /\ UNCHANGED <<exists, has, limbo>>

Next ==
  \/ \E r \in All : Make(r) \/ Return(r) \/ Reap(r)
  \/ \E p, q \in All : Swap(p, q)
  \/ Give \/ Free \/ End \/ Over

Spec == Init /\ [][Next]_vars

\* What has begun to end does end (mem_management.h: ssds_gc_cleanup).
Ends == phase = "ending" ~> phase = "ended"
=============================================================================
