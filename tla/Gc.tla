--------------------------------- MODULE Gc ---------------------------------
(***************************************************************************)
(* The garbage collector of both programs (mem_management.c): a list of    *)
(* the memory allocated and the sockets opened through it, which           *)
(* ssds_gc_cleanup releases as a whole: at the end of main, when no memory *)
(* is left, or in the handler of a signal, which may interrupt anything.   *)
(*                                                                         *)
(* The handler never returns to what it interrupted (it calls exit), so an *)
(* interruption replaces what the process was doing.  The kernel blocks a  *)
(* signal while its own handler runs, and no other.                        *)
(***************************************************************************)
EXTENDS Integers, Sequences

CONSTANTS Ptrs,           \* the addresses malloc may return
          Fds,            \* the descriptors socket and accept may return
          Nothing,        \* neither
          Signals,        \* the signals with ssds_signal_handler
          Interruptible   \* where in the code a signal may arrive

Resources == Ptrs \cup Fds

GcPc == {"run",      \* the program, outside the collector
         "push",     \* a resource exists and is not yet in the list
         "moved",    \* realloc has freed a block that is still in the list
         "release",  \* a resource left the list and still exists
         "clean",    \* ssds_gc_cleanup, before the item at the cursor
         "node",     \* the resource of that item is released, the item not
         "freed",    \* global_gc is freed
         "null",     \* global_gc is NULL
         "exited", "crashed"}

\* An address is never the number of a descriptor: ssds_gc_search compares the
\* two members of the union whatever the type of the item.
ASSUME GcAssumption ==
  /\ Ptrs \cap Fds = {}
  /\ Nothing \notin Resources
  /\ Interruptible \subseteq GcPc

VARIABLES live,     \* what exists: allocated memory and open sockets
          list,     \* the items of the collector, from global_gc->top on
          held,     \* what the program holds a pointer or a number of
          gpc,      \* where the process is
          arg,      \* the resource a call of the collector is about
          new,      \* the block realloc moved it to
          at,       \* the cursor of the cleanup
          gone,     \* how many items are themselves freed
          blocked,  \* the signals whose handler runs
          misused   \* freed memory was used, or a resource released twice

gcVars == <<live, list, held, gpc, arg, new, at, gone, blocked, misused>>

Listed == {list[k] : k \in DOMAIN list}

GcTypeOK ==
  /\ live \subseteq Resources
  /\ list \in Seq(Resources)
  /\ held \subseteq Resources
  /\ gpc \in GcPc
  /\ arg \in Resources \cup {Nothing}
  /\ new \in Resources \cup {Nothing}
  /\ at \in Nat \ {0}
  /\ gone \in Nat
  /\ blocked \subseteq Signals
  /\ misused \in BOOLEAN

\* ssds_gc_init.
GcInit ==
  /\ live = {} /\ list = <<>> /\ held = {}
  /\ gpc = "run" /\ arg = Nothing /\ new = Nothing
  /\ at = 1 /\ gone = 0 /\ blocked = {} /\ misused = FALSE

-----------------------------------------------------------------------------
\* ssds_gc_remove unlinks the first item that ssds_gc_search finds.
\* Wrong: the item before it goes too, as when next and prev are mixed up.
WithoutMutant(s, r) ==
  LET found == {k \in DOMAIN s :
                  s[k] = r /\ \A j \in 1..(k - 1) : s[j] # r}
  IN IF found = {} THEN s
     ELSE LET k == CHOOSE k \in found : TRUE
          IN SubSeq(s, 1, k - 2) \o SubSeq(s, k + 1, Len(s))
Without(s, r) ==
  LET found == {k \in DOMAIN s :
                  s[k] = r /\ \A j \in 1..(k - 1) : s[j] # r}
  IN IF found = {} THEN s
     ELSE LET k == CHOOSE k \in found : TRUE
          IN SubSeq(s, 1, k - 1) \o SubSeq(s, k + 1, Len(s))

\* The first half of ssds_malloc, ssds_calloc, ssds_socket and ssds_accept.
\* (When the system call fails nothing changes but a count.)
Alloc(r) ==
  /\ gpc = "run"
  /\ r \notin live
  /\ live' = live \cup {r}
  /\ arg' = r
  /\ gpc' = "push"
  /\ UNCHANGED <<list, held, new, at, gone, blocked, misused>>

\* ssds_gc_push.
Push ==
  /\ gpc = "push"
  /\ list' = <<arg>> \o list
  /\ held' = held \cup {arg}
  /\ gpc' = "run"
  /\ arg' = Nothing
  /\ UNCHANGED <<live, new, at, gone, blocked, misused>>

\* ssds_gc_cleanup starts at global_gc->top.  Wrong: one item before it.
CleanMutant ==
  /\ gpc' = "clean"
  /\ at' = 0
Clean ==
  /\ gpc' = "clean"
  /\ at' = 1

\* ssds_gc_push finds no memory for the item: it cleans up and exits.
PushFails ==
  /\ gpc = "push"
  /\ Clean
  /\ UNCHANGED <<live, list, held, arg, new, gone, blocked, misused>>

\* ssds_free and ssds_close: first out of the list, then gone.
Unlist(r) ==
  /\ gpc = "run"
  /\ r \in held
  /\ held' = held \ {r}
  /\ list' = Without(list, r)
  /\ arg' = r
  /\ gpc' = "release"
  /\ UNCHANGED <<live, new, at, gone, blocked, misused>>

Release ==
  /\ gpc = "release"
  /\ misused' = (misused \/ arg \notin live)
  /\ live' = live \ {arg}
  /\ arg' = Nothing
  /\ gpc' = "run"
  /\ UNCHANGED <<list, held, new, at, gone, blocked>>

\* ssds_realloc when realloc moves the block.  (When it fails, or leaves the
\* block in place, nothing changes.)
Realloc(p, q) ==
  /\ gpc = "run"
  /\ p \in held \cap Ptrs
  /\ q \in Ptrs \ live
  /\ live' = (live \ {p}) \cup {q}
  /\ held' = held \ {p}
  /\ arg' = p
  /\ new' = q
  /\ gpc' = "moved"
  /\ UNCHANGED <<list, at, gone, blocked, misused>>

Moved ==
  /\ gpc = "moved"
  /\ list' = Without(list, arg)
  /\ arg' = new
  /\ new' = Nothing
  /\ gpc' = "push"
  /\ UNCHANGED <<live, held, at, gone, blocked, misused>>

-----------------------------------------------------------------------------
\* The label end: of both programs.
Finish ==
  /\ gpc = "run"
  /\ Clean
  /\ UNCHANGED <<live, list, held, arg, new, gone, blocked, misused>>

\* A turn of the loop of ssds_gc_cleanup: the resource, then the item, which
\* must not have been freed by a cleanup this one interrupted.
CleanItem ==
  /\ gpc = "clean"
  /\ at <= Len(list)
  /\ misused' = (misused \/ at <= gone \/ list[at] \notin live)
  /\ live' = live \ {list[at]}
  /\ gpc' = "node"
  /\ UNCHANGED <<list, held, arg, new, at, gone, blocked>>

\* next was read before the item was freed.  Wrong: the loop stays at the freed
\* item; it ends there.
NextItemSameMutant == at
NextItemEndMutant == Len(list) + 1
NextItem == at + 1

CleanNode ==
  /\ gpc = "node"
  /\ gone' = at
  /\ at' = NextItem
  /\ gpc' = "clean"
  /\ UNCHANGED <<live, list, held, arg, new, blocked, misused>>

\* After the loop: free(global_gc), global_gc = NULL, and out.
Destroy ==
  /\ \/ gpc = "clean" /\ at > Len(list) /\ gpc' = "freed"
     \/ gpc = "freed" /\ gpc' = "null"
     \/ gpc = "null"  /\ gpc' = "exited"
  /\ UNCHANGED <<live, list, held, arg, new, at, gone, blocked, misused>>

\* ssds_signal_handler.  Without a collector it uses a null pointer, or freed
\* memory.
Interrupt(s) ==
  /\ gpc \in Interruptible \ {"exited", "crashed"}
  /\ s \notin blocked
  /\ blocked' = blocked \cup {s}
  /\ \/ gpc \notin {"freed", "null"} /\ Clean /\ UNCHANGED misused
     \/ gpc = "freed" /\ gpc' = "crashed" /\ misused' = TRUE /\ UNCHANGED at
     \/ gpc = "null" /\ gpc' = "crashed" /\ UNCHANGED <<at, misused>>
  /\ UNCHANGED <<live, list, held, arg, new, gone>>

GcNext ==
  \/ \E r \in Resources : Alloc(r) \/ Unlist(r)
  \/ \E p, q \in Ptrs : Realloc(p, q)
  \/ Push \/ PushFails \/ Release \/ Moved
  \/ Finish \/ CleanItem \/ CleanNode \/ Destroy
  \/ \E s \in Signals : Interrupt(s)

\* A cleanup that has begun goes on, unless another signal takes its place.
GcSpec ==
  /\ GcInit /\ [][GcNext]_gcVars
  /\ WF_gcVars(CleanItem \/ CleanNode \/ Destroy)

-----------------------------------------------------------------------------
(***************************************************************************)
(* What a program is promised.  The resource in limbo is the one a call is *)
(* about, and of a block that has moved the new place.                     *)
(***************************************************************************)
Phase ==
  IF misused THEN "broken"
  ELSE IF gpc \in {"run", "push", "moved", "release"} THEN "running"
  ELSE IF gpc \in {"clean", "node"} THEN "ending"
  ELSE "ended"

Limbo == IF gpc = "moved" THEN new ELSE arg

Promise ==
  INSTANCE Ownership WITH
    All <- Resources, exists <- live, has <- held, limbo <- Limbo, phase <- Phase

\* The list, its cursor and the calls that keep it implement the promise of
\* ssds_malloc, ssds_free, ssds_realloc and ssds_gc_cleanup: every resource is
\* released once, by the program or at its end (mem_management.c:92).
KeepsPromise == Promise!Spec

\* And a cleanup that begins comes to its end (mem_management.c:39).
CleanupEnds == Promise!Ends

-----------------------------------------------------------------------------
\* Between two calls the list holds what the program holds, and that is what
\* exists: no item is stale and nothing has been forgotten.
ListIsHeap == gpc = "run" => Listed = live /\ held = live

\* The documentation of ssds_free and ssds_close: "removes it from GC because
\* it does not need to be freed/closed twice".  Nothing is released twice and
\* no freed item is used.
ReleasedOnce == ~misused

\* A process that has ended its cleanup released everything, but for the one
\* resource whose allocation or release was interrupted.
NothingLeftBehind == gpc \in {"null", "exited"} => live \subseteq {arg}
-----------------------------------------------------------------------------
\* Where a signal does no harm: not between realloc and the list, and not in
\* a cleanup.
SafePoints == {"run", "push", "release", "null"}

\* Inductive form of the three above, for signals at SafePoints: what differs
\* between the list and what exists while a call is under way.
Rest(k) == {list[j] : j \in k..Len(list)}

\* The resource a call is about is not in the list when it is interrupted.
ArgInv ==
  /\ gpc = "run" => arg = Nothing
  /\ gpc \in {"clean", "node"} => arg \notin Listed

GcInv ==
  /\ \A j, k \in DOMAIN list : list[j] = list[k] => j = k
  /\ gpc = "run" => Listed = live /\ held = live
  /\ gpc \in {"push", "release"} =>
       /\ arg \in live /\ arg \notin Listed
       /\ live = Listed \cup {arg} /\ held = Listed
  /\ gpc = "moved" =>
       /\ arg \notin live /\ arg \in Listed
       /\ new \in live /\ new \notin Listed
       /\ live = (Listed \ {arg}) \cup {new} /\ held = Listed \ {arg}
  /\ gpc = "clean" =>
       /\ at = gone + 1 /\ gone <= Len(list)
       /\ Rest(at) \subseteq live /\ live \subseteq Rest(at) \cup {arg}
  /\ gpc = "node" =>
       /\ at = gone + 1 /\ at <= Len(list)
       /\ Rest(at + 1) \subseteq live /\ live \subseteq Rest(at + 1) \cup {arg}
  /\ gpc \in {"freed", "null", "exited"} => live \subseteq {arg}
  /\ gpc \notin {"clean", "node", "freed", "null", "exited", "crashed"} =>
       gone = 0
  /\ ~misused
=============================================================================
