------------------------------ MODULE GcProofs ------------------------------
(***************************************************************************)
(* Theorems about Gc, for any number of addresses, descriptors and         *)
(* signals, when signals arrive at SafePoints only.                        *)
(***************************************************************************)
EXTENDS Gc, SequenceTheorems, TLAPS

Ran(s) == {s[k] : k \in DOMAIN s}
Injective(s) == \A j, k \in DOMAIN s : s[j] = s[k] => j = k

\* A list without its k-th item.
LEMMA Cut ==
  ASSUME NEW R, NEW s \in Seq(R), NEW k \in 1..Len(s),
         NEW t, t = SubSeq(s, 1, k - 1) \o SubSeq(s, k + 1, Len(s))
  PROVE  /\ t \in Seq(R) /\ Len(t) = Len(s) - 1
         /\ \A i \in 1..Len(t) : t[i] = IF i < k THEN s[i] ELSE s[i + 1]
<1> DEFINE n == Len(s)
<1>1. n \in Nat /\ \A i \in 1..n : s[i] \in R
  OBVIOUS
<1> HIDE DEF n
<1>2. PICK a : a = SubSeq(s, 1, k - 1)
  OBVIOUS
<1>3. PICK b : b = SubSeq(s, k + 1, n)
  OBVIOUS
<1>4. a \in Seq(R) /\ Len(a) = k - 1 /\ \A i \in 1..(k - 1) : a[i] = s[i]
  <2>1. k - 1 \in Int /\ \A i \in 1..(k - 1) : s[i] \in R
    BY <1>1 DEF n
  <2> QED
    BY <1>2, <2>1, SubSeqProperties
<1>5. b \in Seq(R) /\ Len(b) = n - k /\ \A i \in 1..(n - k) : b[i] = s[k + i]
  <2>1. k \in 1..n
    BY DEF n
  <2>2. k + 1 \in Int /\ \A i \in (k + 1)..n : s[i] \in R
    BY <1>1, <2>1
  <2>3. /\ b \in Seq(R)
        /\ Len(b) = IF k + 1 <= n THEN n - (k + 1) + 1 ELSE 0
        /\ \A i \in 1..(n - (k + 1) + 1) : b[i] = s[k + 1 + i - 1]
    BY <1>1, <1>3, <2>2, SubSeqProperties
  <2>4. n - (k + 1) + 1 = n - k /\ \A i \in 1..(n - k) : k + 1 + i - 1 = k + i
    BY <1>1, <2>1
  <2>5. Len(b) = n - k
    BY <1>1, <2>1, <2>3
  <2> QED
    BY <2>3, <2>4, <2>5
<1>6. /\ t \in Seq(R) /\ Len(t) = n - 1
      /\ \A i \in 1..(n - 1) :
           t[i] = IF i <= k - 1 THEN a[i] ELSE b[i - (k - 1)]
  <2>1. t = a \o b
    BY <1>2, <1>3 DEF n
  <2>2. (k - 1) + (n - k) = n - 1 /\ k \in 1..n
    BY <1>1 DEF n
  <2>3. /\ a \o b \in Seq(R) /\ Len(a \o b) = Len(a) + Len(b)
        /\ \A i \in 1..(Len(a) + Len(b)) :
             (a \o b)[i] = IF i <= Len(a) THEN a[i] ELSE b[i - Len(a)]
    BY <1>4, <1>5, ConcatProperties
  <2>4. Len(a) + Len(b) = n - 1
    BY <1>4, <1>5, <2>2
  <2> QED
    BY <1>4, <2>1, <2>3, <2>4
<1>7. ASSUME NEW i \in 1..(n - 1)
      PROVE  t[i] = IF i < k THEN s[i] ELSE s[i + 1]
  <2>1. k \in 1..n
    BY DEF n
  <2>2. CASE i < k
    <3>1. i <= k - 1 /\ i \in 1..(k - 1)
      BY <1>1, <2>1, <2>2
    <3> QED
      BY <1>4, <1>6, <2>2, <3>1
  <2>3. CASE ~(i < k)
    <3>1. /\ ~(i <= k - 1) /\ i - (k - 1) \in 1..(n - k)
          /\ k + (i - (k - 1)) = i + 1
      BY <1>1, <2>1, <2>3
    <3>2. t[i] = b[i - (k - 1)] /\ b[i - (k - 1)] = s[k + (i - (k - 1))]
      BY <1>5, <1>6, <3>1
    <3> QED
      BY <2>3, <3>1, <3>2
  <2> QED
    BY <2>2, <2>3
<1> QED
  BY <1>1, <1>6, <1>7 DEF n

\* Removing an item from a list without duplicates removes that item alone.
LEMMA WithoutRemoves ==
  ASSUME NEW R, NEW s \in Seq(R), NEW r, Injective(s)
  PROVE  /\ Without(s, r) \in Seq(R)
         /\ Injective(Without(s, r))
         /\ Ran(Without(s, r)) = Ran(s) \ {r}
<1> DEFINE found == {k \in DOMAIN s :
                       s[k] = r /\ \A j \in 1..(k - 1) : s[j] # r}
<1>1. DOMAIN s = 1..Len(s) /\ Len(s) \in Nat
  OBVIOUS
<1>2. CASE found = {}
  <2>1. r \notin Ran(s)
    <3>1. SUFFICES ASSUME NEW k \in DOMAIN s, s[k] = r PROVE FALSE
      BY DEF Ran
    <3>2. \A j \in 1..(k - 1) : s[j] # r
      BY <1>1, <3>1 DEF Injective
    <3> QED
      BY <1>2, <3>1, <3>2
  <2>2. Without(s, r) = s
    BY <1>2 DEF Without
  <2> QED
    BY <2>1, <2>2
<1>3. CASE found # {}
  <2>1. PICK k \in 1..Len(s) :
          /\ s[k] = r
          /\ Without(s, r) = SubSeq(s, 1, k - 1) \o SubSeq(s, k + 1, Len(s))
    <3>1. (CHOOSE k \in found : TRUE) \in found
      BY <1>3
    <3> QED
      BY <1>1, <1>3, <3>1 DEF Without
  <2>2. PICK t : t = Without(s, r)
    OBVIOUS
  <2>3. t \in Seq(R) /\ Len(t) = Len(s) - 1
    BY <2>1, <2>2, Cut
  <2>4. \A i \in 1..Len(t) : t[i] = IF i < k THEN s[i] ELSE s[i + 1]
    BY <2>1, <2>2, Cut
  <2>5. DOMAIN t = 1..(Len(s) - 1)
    BY <2>3
  <2>6. Injective(t)
    <3> SUFFICES ASSUME NEW i \in DOMAIN t, NEW j \in DOMAIN t, t[i] = t[j]
                 PROVE  i = j
      BY DEF Injective
    <3> DEFINE up(n) == IF n < k THEN n ELSE n + 1
    <3>1. up(i) \in DOMAIN s /\ up(j) \in DOMAIN s /\ s[up(i)] = s[up(j)]
      BY <1>1, <2>1, <2>3, <2>4, <2>5
    <3>2. up(i) = up(j)
      BY <3>1 DEF Injective
    <3> QED
      BY <2>1, <2>5, <1>1, <3>2
  <2>7. Ran(t) \subseteq Ran(s) \ {r}
    <3> SUFFICES ASSUME NEW i \in DOMAIN t PROVE t[i] \in Ran(s) /\ t[i] # r
      BY DEF Ran
    <3> DEFINE up == IF i < k THEN i ELSE i + 1
    <3>1. up \in DOMAIN s /\ up # k /\ t[i] = s[up]
      BY <1>1, <2>1, <2>3, <2>4, <2>5
    <3>2. s[up] # s[k]
      BY <1>1, <2>1, <3>1 DEF Injective
    <3> QED
      BY <2>1, <3>1, <3>2 DEF Ran
  <2>8. Ran(s) \ {r} \subseteq Ran(t)
    <3> SUFFICES ASSUME NEW n \in DOMAIN s, s[n] # r PROVE s[n] \in Ran(t)
      BY DEF Ran
    <3> DEFINE down == IF n < k THEN n ELSE n - 1
    <3>1. n # k
      BY <2>1
    <3>2. down \in DOMAIN t /\ t[down] = s[n]
      BY <1>1, <2>1, <2>3, <2>4, <2>5, <3>1
    <3> QED
      BY <3>2 DEF Ran
  <2> QED
    BY <2>2, <2>3, <2>6, <2>7, <2>8
<1> QED
  BY <1>2, <1>3

\* The collector starts with nothing.
LEMMA GcStart == GcInit => GcTypeOK /\ GcInv
<1> SUFFICES ASSUME GcInit PROVE GcTypeOK /\ GcInv
  OBVIOUS
<1>1. list = <<>> /\ DOMAIN list = {}
  BY DEF GcInit
<1>2. GcTypeOK
  <2>1. <<>> \in Seq(Resources) /\ 1 \in Nat \ {0} /\ 0 \in Nat
    OBVIOUS
  <2> QED
    BY <2>1 DEF GcInit, GcTypeOK, GcPc
<1>3. GcInv
  BY <1>1 DEF GcInit, GcInv, Listed
<1> QED
  BY <1>2, <1>3

\* Every step keeps the types.
LEMMA GcTypeStep == GcTypeOK /\ GcInv /\ [GcNext]_gcVars => GcTypeOK'
<1> SUFFICES ASSUME GcTypeOK, GcInv, [GcNext]_gcVars PROVE GcTypeOK'
  OBVIOUS
<1> USE DEF GcTypeOK, GcPc
<1>r. Ptrs \subseteq Resources
  BY DEF Resources
<1>w. \A r : Without(list, r) \in Seq(Resources)
  BY WithoutRemoves DEF GcInv, Injective
<1>1. CASE \E r \in Resources : Alloc(r)
  BY <1>1 DEF Alloc
<1>2. CASE \E r \in Resources : Unlist(r)
  BY <1>2, <1>w DEF Unlist
<1>3. CASE \E p, q \in Ptrs : Realloc(p, q)
  BY <1>3, <1>r DEF Realloc
<1>4. CASE Push
  <2>1. arg \in Resources
    BY <1>4 DEF Push, GcInv
  <2> QED
    BY <1>4, <2>1 DEF Push
<1>5. CASE PushFails
  BY <1>5 DEF PushFails, Clean
<1>6. CASE Release
  BY <1>6 DEF Release
<1>7. CASE Moved
  BY <1>7, <1>w DEF Moved
<1>8. CASE Finish
  BY <1>8 DEF Finish, Clean
<1>9. CASE CleanItem
  BY <1>9 DEF CleanItem
<1>10. CASE CleanNode
  BY <1>10 DEF CleanNode, NextItem
<1>11. CASE Destroy
  BY <1>11 DEF Destroy
<1>12. CASE \E s \in Signals : Interrupt(s)
  <2>1. PICK s \in Signals : Interrupt(s)
    BY <1>12
  <2>2. /\ \/ Clean /\ UNCHANGED misused
           \/ gpc' = "crashed" /\ misused' = TRUE /\ UNCHANGED at
           \/ gpc' = "crashed" /\ UNCHANGED <<at, misused>>
        /\ blocked' = blocked \cup {s}
        /\ UNCHANGED <<live, list, held, arg, new, gone>>
    BY <2>1 DEF Interrupt
  <2>3. blocked' \subseteq Signals
    BY <2>2
  <2>4. misused' \in BOOLEAN
    BY <2>2
  <2>5. at' \in Nat \ {0} /\ gpc' \in GcPc
    BY <2>2 DEF Clean
  <2> QED
    BY <2>2, <2>3, <2>4, <2>5
<1>13. CASE UNCHANGED gcVars
  BY <1>13 DEF gcVars
<1> QED
  BY <1>1, <1>2, <1>3, <1>4, <1>5, <1>6, <1>7, <1>8, <1>9, <1>10, <1>11, <1>12,
     <1>13 DEF GcNext

\* Pushing an item that is not there keeps the list without duplicates.
LEMMA Pushed ==
  ASSUME NEW R, NEW s \in Seq(R), NEW r, Injective(s), r \notin Ran(s)
  PROVE  Injective(<<r>> \o s) /\ Ran(<<r>> \o s) = Ran(s) \cup {r}
<1> DEFINE t == <<r>> \o s
<1>1. /\ DOMAIN s = 1..Len(s) /\ Len(s) \in Nat
      /\ DOMAIN t = 1..(Len(s) + 1)
      /\ t[1] = r /\ \A k \in 1..Len(s) : t[k + 1] = s[k]
  OBVIOUS
<1> HIDE DEF t
<1>2. \A k \in DOMAIN t : k = 1 \/ (k - 1 \in DOMAIN s /\ t[k] = s[k - 1])
  <2> SUFFICES ASSUME NEW k \in DOMAIN t, k # 1
               PROVE  k - 1 \in DOMAIN s /\ t[k] = s[k - 1]
    OBVIOUS
  <2>1. k - 1 \in 1..Len(s) /\ (k - 1) + 1 = k
    BY <1>1
  <2> QED
    BY <1>1, <2>1
<1>3. \A k \in DOMAIN s : k + 1 \in DOMAIN t /\ t[k + 1] = s[k]
  BY <1>1
<1>4. Injective(t)
  <2> SUFFICES ASSUME NEW i \in DOMAIN t, NEW j \in DOMAIN t, t[i] = t[j]
               PROVE  i = j
    BY DEF Injective
  <2>1. CASE i = 1 \/ j = 1
    BY <1>1, <1>2, <2>1 DEF Ran
  <2>2. CASE i # 1 /\ j # 1
    <3>1. i - 1 = j - 1
      BY <1>2, <2>2 DEF Injective
    <3> QED
      BY <1>1, <3>1
  <2> QED
    BY <2>1, <2>2
<1>5. Ran(t) = Ran(s) \cup {r}
  <2>1. 1 \in DOMAIN t
    BY <1>1
  <2> QED
    BY <1>1, <1>2, <1>3, <2>1 DEF Ran
<1> QED
  BY <1>4, <1>5 DEF t

\* Every step keeps GcInv, wherever at SafePoints it is interrupted.
LEMMA GcInvStep ==
  ASSUME Interruptible \subseteq SafePoints,
         GcTypeOK, GcInv, [GcNext]_gcVars
  PROVE  GcInv'
<1>t. /\ list \in Seq(Resources) /\ Injective(list) /\ Listed = Ran(list)
      /\ DOMAIN list = 1..Len(list) /\ Len(list) \in Nat
      /\ at \in Nat /\ gone \in Nat /\ gpc \in GcPc
  BY DEF GcTypeOK, GcInv, Injective, Listed, Ran
<1>l. Listed' = Ran(list') /\ (Injective(list') <=>
         \A j, k \in DOMAIN list' : list'[j] = list'[k] => j = k)
  BY DEF Listed, Ran, Injective
<1>r. Rest(1) = Listed
  BY <1>t DEF Rest, Ran
<1>c. ASSUME gpc \in {"run", "push", "release"}, Clean,
             UNCHANGED <<live, list, arg, gone, misused>>
      PROVE  GcInv'
  <2>1. gone = 0 /\ Listed \subseteq live /\ live \subseteq Listed \cup {arg}
    BY <1>c DEF GcInv
  <2>2. Rest(1)' = Rest(1)
    BY <1>c DEF Rest
  <2>3. at' = 1 /\ gpc' = "clean"
    BY <1>c DEF Clean
  <2>4. Rest(at)' = Listed
    BY <1>r, <2>2, <2>3 DEF Rest
  <2> QED
    BY <1>c, <1>t, <2>1, <2>3, <2>4 DEF GcInv
<1>1. CASE \E r \in Resources : Alloc(r)
  BY <1>1 DEF Alloc, GcInv, Listed
<1>2. CASE \E r \in Resources : Unlist(r)
  <2>1. PICK r \in Resources : Unlist(r)
    BY <1>2
  <2>2. Injective(list') /\ Listed' = Listed \ {r}
    BY <1>t, <1>l, <2>1, WithoutRemoves DEF Unlist
  <2> QED
    BY <1>l, <2>1, <2>2 DEF Unlist, GcInv
<1>3. CASE \E p, q \in Ptrs : Realloc(p, q)
  BY <1>3 DEF Realloc, GcInv, Listed
<1>4. CASE Push
  <2>1. arg \notin Ran(list)
    BY <1>4, <1>t DEF Push, GcInv
  <2>2. Injective(list') /\ Listed' = Listed \cup {arg}
    BY <1>4, <1>t, <1>l, <2>1, Pushed DEF Push
  <2> QED
    BY <1>4, <1>l, <2>2 DEF Push, GcInv
<1>5. CASE PushFails
  BY <1>5, <1>c DEF PushFails
<1>6. CASE Release
  BY <1>6 DEF Release, GcInv, Listed
<1>7. CASE Moved
  <2>1. Injective(list') /\ Listed' = Listed \ {arg}
    BY <1>7, <1>t, <1>l, WithoutRemoves DEF Moved
  <2> QED
    BY <1>7, <1>l, <2>1 DEF Moved, GcInv
<1>8. CASE Finish
  BY <1>8, <1>c DEF Finish
<1>9. CASE CleanItem
  <2>1. /\ at \in DOMAIN list /\ at > gone /\ list[at] \in live
        /\ Rest(at) \subseteq live /\ live \subseteq Rest(at) \cup {arg}
    <3>1. at \in 1..Len(list)
      BY <1>9, <1>t DEF CleanItem, GcInv
    <3>2. list[at] \in Rest(at)
      BY <1>t, <3>1 DEF Rest
    <3> QED
      BY <1>9, <1>t, <3>1, <3>2 DEF CleanItem, GcInv
  <2>2. Rest(at + 1) = Rest(at) \ {list[at]}
    <3>1. Rest(at + 1) \subseteq Rest(at) \ {list[at]}
      BY <1>t, <2>1 DEF Rest, Injective
    <3>2. Rest(at) \ {list[at]} \subseteq Rest(at + 1)
      BY <1>t, <2>1 DEF Rest
    <3> QED
      BY <3>1, <3>2
  <2>3. Rest(at + 1)' = Rest(at + 1)
    BY <1>9 DEF CleanItem, Rest
  <2>4. ~misused' /\ live' = live \ {list[at]}
    <3>1. /\ misused' = (misused \/ at <= gone \/ list[at] \notin live)
          /\ live' = live \ {list[at]}
      BY <1>9 DEF CleanItem
    <3>2. ~(at <= gone)
      BY <1>t, <2>1
    <3>3. ~misused
      BY DEF GcInv
    <3> QED
      BY <2>1, <3>1, <3>2, <3>3, Zenon
  <2> QED
    BY <1>9, <2>1, <2>2, <2>3, <2>4 DEF CleanItem, GcInv
<1>10. CASE CleanNode
  <2>1. at' = at + 1 /\ gone' = at /\ UNCHANGED <<list, live, arg, misused>>
    BY <1>10 DEF CleanNode, NextItem
  <2>2. Rest(at)' = Rest(at + 1)
    BY <2>1 DEF Rest
  <2> QED
    BY <1>10, <1>t, <2>1, <2>2 DEF CleanNode, GcInv
<1>11. CASE Destroy
  <2>1. CASE gpc = "clean" /\ at > Len(list)
    <3>1. Rest(at) = {}
      BY <1>t, <2>1 DEF Rest
    <3> QED
      BY <1>11, <2>1, <3>1 DEF Destroy, GcInv
  <2>2. CASE gpc \in {"freed", "null"}
    BY <1>11, <2>2 DEF Destroy, GcInv
  <2> QED
    BY <1>11, <2>1, <2>2 DEF Destroy
<1>12. CASE \E s \in Signals : Interrupt(s)
  <2>1. PICK s \in Signals : Interrupt(s)
    BY <1>12
  <2>2. gpc \in {"run", "push", "release", "null"}
    BY <2>1 DEF Interrupt, SafePoints
  <2>3. CASE gpc = "null"
    BY <2>1, <2>3 DEF Interrupt, GcInv
  <2>4. CASE gpc # "null"
    BY <1>c, <2>1, <2>2, <2>4 DEF Interrupt
  <2> QED
    BY <2>3, <2>4
<1>13. CASE UNCHANGED gcVars
  BY <1>13 DEF gcVars, GcInv, Listed, Rest
<1> QED
  BY <1>1, <1>2, <1>3, <1>4, <1>5, <1>6, <1>7, <1>8, <1>9, <1>10, <1>11, <1>12,
     <1>13 DEF GcNext

\* With signals at SafePoints only, the inductive invariant always holds.
LEMMA GcInvariant ==
  ASSUME Interruptible \subseteq SafePoints
  PROVE  GcSpec => [](GcTypeOK /\ GcInv)
<1>1. GcTypeOK /\ GcInv /\ [GcNext]_gcVars => (GcTypeOK /\ GcInv)'
  BY GcTypeStep, GcInvStep
<1> QED
  BY <1>1, GcStart, PTL DEF GcSpec

\* Between two calls the list is exactly what exists, and what the program
\* holds.
THEOREM ListIsTheHeap ==
  ASSUME Interruptible \subseteq SafePoints
  PROVE  GcSpec => []ListIsHeap
<1>1. GcInv => ListIsHeap
  BY DEF GcInv, ListIsHeap
<1> QED
  BY <1>1, GcInvariant, PTL

\* No memory is freed twice and no socket closed twice.
THEOREM NothingIsReleasedTwice ==
  ASSUME Interruptible \subseteq SafePoints
  PROVE  GcSpec => []ReleasedOnce
<1>1. GcInv => ReleasedOnce
  BY DEF GcInv, ReleasedOnce
<1> QED
  BY <1>1, GcInvariant, PTL

\* After the cleanup at most the resource of an interrupted call is left.
THEOREM CleanupIsComplete ==
  ASSUME Interruptible \subseteq SafePoints
  PROVE  GcSpec => []NothingLeftBehind
<1>1. GcInv => NothingLeftBehind
  BY DEF GcInv, NothingLeftBehind
<1> QED
  BY <1>1, GcInvariant, PTL

-----------------------------------------------------------------------------
\* Every variable of the collector keeps its type.
THEOREM GcTypeCorrect ==
  ASSUME Interruptible \subseteq SafePoints
  PROVE  GcSpec => []GcTypeOK
BY GcInvariant, PTL

\* The resource of an interrupted call stays out of the list.
LEMMA ArgInvStep ==
  ASSUME Interruptible \subseteq SafePoints,
         GcTypeOK, GcInv, ArgInv, [GcNext]_gcVars
  PROVE  ArgInv'
<1>n. Nothing \notin Listed
  BY GcAssumption DEF GcTypeOK, Listed
<1>c. ASSUME gpc \in {"run", "push", "release"}, Clean, UNCHANGED <<list, arg>>
      PROVE  ArgInv'
  BY <1>c, <1>n DEF Clean, ArgInv, GcInv, Listed
<1>1. CASE \E r \in Resources : Alloc(r)
  BY <1>1 DEF Alloc, ArgInv
<1>2. CASE \E r \in Resources : Unlist(r)
  BY <1>2 DEF Unlist, ArgInv
<1>3. CASE \E p, q \in Ptrs : Realloc(p, q)
  BY <1>3 DEF Realloc, ArgInv
<1>4. CASE Push \/ Release
  BY <1>4 DEF Push, Release, ArgInv
<1>5. CASE PushFails
  BY <1>5, <1>c DEF PushFails
<1>6. CASE Moved
  BY <1>6 DEF Moved, ArgInv
<1>7. CASE Finish
  BY <1>7, <1>c DEF Finish
<1>8. CASE CleanItem \/ CleanNode
  BY <1>8 DEF CleanItem, CleanNode, ArgInv, Listed
<1>9. CASE Destroy
  BY <1>9 DEF Destroy, ArgInv
<1>10. CASE \E s \in Signals : Interrupt(s)
  <2>1. PICK s \in Signals : Interrupt(s)
    BY <1>10
  <2>2. gpc \in {"run", "push", "release", "null"}
    BY <2>1 DEF Interrupt, SafePoints
  <2>3. CASE gpc = "null"
    BY <2>1, <2>3 DEF Interrupt, ArgInv
  <2>4. CASE gpc # "null"
    BY <1>c, <2>1, <2>2, <2>4 DEF Interrupt
  <2> QED
    BY <2>3, <2>4
<1>11. CASE UNCHANGED gcVars
  BY <1>11 DEF gcVars, ArgInv, Listed
<1> QED
  BY <1>1, <1>2, <1>3, <1>4, <1>5, <1>6, <1>7, <1>8, <1>9, <1>10, <1>11 DEF GcNext

\* Every step of the collector is a step of the promise, or none.
LEMMA PromiseStep ==
  ASSUME Interruptible \subseteq SafePoints,
         GcTypeOK, GcInv, ArgInv, GcInv', [GcNext]_gcVars
  PROVE  [Promise!Next]_Promise!vars
<1>m. ~misused /\ ~misused'
  BY DEF GcInv
<1>p. /\ gpc \in {"run", "push", "moved", "release"} => Phase = "running"
      /\ gpc' \in {"run", "push", "moved", "release"} => Phase' = "running"
      /\ gpc \in {"clean", "node"} => Phase = "ending"
      /\ gpc' \in {"clean", "node"} => Phase' = "ending"
      /\ gpc \in {"freed", "null", "exited", "crashed"} => Phase = "ended"
      /\ gpc' \in {"freed", "null", "exited", "crashed"} => Phase' = "ended"
  BY <1>m DEF Phase
<1>r. Ptrs \subseteq Resources /\ Nothing \notin Resources
  BY GcAssumption DEF Resources
<1> USE DEF Limbo
<1>c. ASSUME gpc \in {"run", "push", "release"}, Clean, UNCHANGED <<live, held, arg>>
      PROVE  Promise!Next
  BY <1>c, <1>p DEF Clean, Promise!Next, Promise!End
<1>1. ASSUME NEW r \in Resources, Alloc(r) PROVE Promise!Next
  <2>1. Promise!Make(r)
    BY <1>1, <1>p DEF Alloc, ArgInv, Promise!Make, Promise!Idle
  <2> QED
    BY <2>1 DEF Promise!Next
<1>2. ASSUME NEW r \in Resources, Unlist(r) PROVE Promise!Next
  <2>1. Promise!Return(r)
    BY <1>2, <1>p DEF Unlist, ArgInv, Promise!Return, Promise!Idle
  <2> QED
    BY <2>1 DEF Promise!Next
<1>3. ASSUME NEW p \in Ptrs, NEW q \in Ptrs, Realloc(p, q) PROVE Promise!Next
  <2>1. Promise!Swap(p, q)
    BY <1>3, <1>p DEF Realloc, ArgInv, Promise!Swap, Promise!Idle
  <2> QED
    BY <1>r, <2>1 DEF Promise!Next
<1>4. CASE Push
  <2>1. arg # Nothing
    BY <1>4, <1>r DEF Push, GcInv, GcTypeOK
  <2>2. Promise!Give
    BY <1>4, <1>p, <2>1 DEF Push, Promise!Give
  <2> QED
    BY <2>2 DEF Promise!Next
<1>5. CASE Release
  <2>1. arg # Nothing
    BY <1>5, <1>r DEF Release, GcInv, GcTypeOK
  <2>2. Promise!Free
    BY <1>5, <1>p, <2>1 DEF Release, Promise!Free
  <2> QED
    BY <2>2 DEF Promise!Next
<1>6. CASE PushFails
  BY <1>6, <1>c DEF PushFails
<1>7. CASE Moved
  BY <1>7, <1>p DEF Moved, Promise!vars
<1>8. CASE Finish
  BY <1>8, <1>c DEF Finish
<1>9. CASE CleanItem
  <2>1. at \in DOMAIN list /\ Listed \subseteq Resources
    BY <1>9 DEF CleanItem, GcInv, GcTypeOK, Listed
  <2>2. list[at] \in Listed /\ list[at] \in Rest(at)
    BY <1>9, <2>1 DEF CleanItem, Listed, Rest, GcTypeOK
  <2>3. list[at] \in live \ {arg}
    BY <1>9, <2>2 DEF CleanItem, GcInv, ArgInv
  <2>4. Promise!Reap(list[at])
    BY <1>9, <1>p, <2>3 DEF CleanItem, Promise!Reap
  <2> QED
    BY <2>1, <2>2, <2>4 DEF Promise!Next
<1>10. CASE CleanNode
  BY <1>10, <1>p DEF CleanNode, Promise!vars
<1>11. CASE Destroy
  <2>1. CASE gpc = "clean"
    <3>1. live' \subseteq {arg'} /\ gpc' = "freed" /\ UNCHANGED <<live, held, arg>>
      BY <1>11, <2>1 DEF Destroy, GcInv
    <3>2. Promise!Over
      BY <1>p, <2>1, <3>1 DEF Promise!Over
    <3> QED
      BY <3>2 DEF Promise!Next
  <2>2. CASE gpc # "clean"
    BY <1>11, <1>p, <2>2 DEF Destroy, Promise!vars
  <2> QED
    BY <2>1, <2>2
<1>12. CASE \E s \in Signals : Interrupt(s)
  <2>1. PICK s \in Signals : Interrupt(s)
    BY <1>12
  <2>2. gpc \in {"run", "push", "release", "null"}
    BY <2>1 DEF Interrupt, SafePoints
  <2>3. CASE gpc = "null"
    BY <2>1, <2>3, <1>p DEF Interrupt, Promise!vars
  <2>4. CASE gpc # "null"
    BY <1>c, <2>1, <2>2, <2>4 DEF Interrupt
  <2> QED
    BY <2>3, <2>4
<1>13. CASE UNCHANGED gcVars
  BY <1>13 DEF gcVars, Phase, Promise!vars
<1> QED
  BY <1>1, <1>2, <1>3, <1>4, <1>5, <1>6, <1>7, <1>8, <1>9, <1>10, <1>11, <1>12,
     <1>13 DEF GcNext

\* The collector implements the promise of its header: what a program makes is
\* released once, and at its end all of it but what a signal found under way.
THEOREM CollectorKeepsPromise ==
  ASSUME Interruptible \subseteq SafePoints
  PROVE  GcSpec => KeepsPromise
<1>1. GcInit => ArgInv /\ Promise!Init
  BY DEF GcInit, ArgInv, Promise!Init, Phase, Limbo
<1>2. GcTypeOK /\ GcInv /\ ArgInv /\ [GcNext]_gcVars => ArgInv'
  BY ArgInvStep
<1>3. GcTypeOK /\ GcInv /\ GcInv' /\ ArgInv /\ [GcNext]_gcVars
        => [Promise!Next]_Promise!vars
  BY PromiseStep
<1> QED
  BY <1>1, <1>2, <1>3, GcInvariant, PTL DEF GcSpec, KeepsPromise, Promise!Spec
=============================================================================
