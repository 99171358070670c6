--------------------------- MODULE SolvingProofs ---------------------------
(***************************************************************************)
(* The documents, the cache of repository metadata, what a request and an  *)
(* answer are, and the service the server implements, proved of Solving    *)
(* for any clients, repositories, packages and number of kills.            *)
(***************************************************************************)
EXTENDS Solving, FiniteSetTheorems, SequenceTheorems, WellFoundedInduction, TLAPS

\* What the steps that leave the cache alone have in common.
Elsewhere ==
  /\ UNCHANGED cache
  /\ spc' \in {"download", "found"} => UNCHANGED <<spc, repos, i>>

-----------------------------------------------------------------------------
\* Neither a client nor a kill touches the cache.
LEMMA ClientsElsewhere ==
  ASSUME NEW c \in Clients, Ask(c) \/ ReadAnswer(c) \/ Leave(c) \/ Take(c)
  PROVE  Elsewhere
BY DEF Ask, ReadAnswer, Leave, Take, GoTo, Elsewhere, requestVars

\* The steps of the server that do not look for metadata.
LEMMA ServerElsewhere ==
  ASSUME ReadPackages \/ ReadRepos \/ FillSack \/ Query \/ AddJob \/ NotSolved
           \/ Solved \/ NoLists \/ Reply \/ Restart \/ Kill \/ Done \/ AddMetadata
  PROVE  Elsewhere
<1>1. CASE ReadPackages
  BY <1>1 DEF ReadPackages, Crash, GoTo, Elsewhere
<1>2. CASE ReadRepos
  BY <1>2 DEF ReadRepos, Crash, GoTo, Elsewhere
<1>3. CASE FillSack
  BY <1>3 DEF FillSack, GoTo, Elsewhere
<1>4. CASE Query
  BY <1>4 DEF Query, Crash, GoTo, Elsewhere
<1>5. CASE AddJob
  BY <1>5 DEF AddJob, Elsewhere
<1>6. CASE NotSolved
  BY <1>6 DEF NotSolved, GoTo, Elsewhere
<1>7. CASE Solved
  BY <1>7 DEF Solved, GoTo, Elsewhere
<1>8. CASE NoLists
  BY <1>8 DEF NoLists, Crash, GoTo, Elsewhere
<1>9. CASE Reply
  BY <1>9 DEF Reply, GoTo, Elsewhere
<1>10. CASE Restart
  BY <1>10 DEF Restart, GoTo, Elsewhere
<1>11. CASE Kill
  BY <1>11 DEF Kill, GoTo, Elsewhere, requestVars
<1>12. CASE Done
  BY <1>12 DEF Done, Elsewhere, vars, requestVars
<1>13. CASE AddMetadata
  BY <1>13 DEF AddMetadata, Crash, GoTo, Elsewhere
<1> QED
  BY <1>1, <1>2, <1>3, <1>4, <1>5, <1>6, <1>7, <1>8, <1>9, <1>10, <1>11, <1>12, <1>13

\* So every step is one of the loop or leaves the cache alone.
LEMMA StepKinds ==
  ASSUME [Next]_vars
  PROVE  Elsewhere \/ FoundLocally \/ DownloadStarts \/ Downloaded \/ DownloadFails
<1>1. CASE UNCHANGED vars
  BY <1>1 DEF vars, requestVars, Elsewhere
<1>2. CASE Next
  BY <1>2, ClientsElsewhere, ServerElsewhere DEF Next, ServerStep
<1> QED  BY <1>1, <1>2

-----------------------------------------------------------------------------
(***************************************************************************)
(* Loops.  What holds of 0 and goes on from k to k + 1 holds up to n.      *)
(***************************************************************************)
LEMMA UpTo ==
  ASSUME NEW n \in Nat, NEW S, 0 \in S, \A k \in 0..(n - 1) : k \in S => k + 1 \in S
  PROVE  \A k \in 0..n : k \in S
<1> DEFINE T == {k \in 0..n : k \notin S}
<1> SUFFICES ASSUME T # {} PROVE FALSE
  OBVIOUS
<1>1. T \subseteq Nat
  OBVIOUS
<1>2. PICK q \in T : \A r \in T : ~ (<<r, q>> \in OpToRel(<, Nat))
  <2> HIDE DEF T
  <2> QED  BY <1>1, NatLessThanWellFounded, WFMin
<1>3. \A r \in T : ~(r < q)
  BY <1>1, <1>2 DEF OpToRel
<1>4. q \in 0..n /\ q \notin S /\ q # 0
  OBVIOUS
<1>5. q - 1 \in 0..(n - 1) /\ q - 1 < q /\ (q - 1) + 1 = q /\ q - 1 \in 0..n
  BY <1>4
<1>6. q - 1 \in S
  BY <1>3, <1>5
<1> QED  BY <1>4, <1>5, <1>6

\* A loop of the client over its repositories has a first state and goes on.
LEMMA ReposOneByOne ==
  ASSUME NEW c, NEW doc, NEW rs, Len(rs) \in Nat
  PROVE  \E f : /\ f[0] = doc
                /\ \A k \in 1..Len(rs) : f[k] = WithRepo(c, f[k - 1], rs[k])
                /\ WithRepos(c, doc, rs) = f[Len(rs)]
<1> DEFINE n == Len(rs)
           Is(f, m) == f = [k \in 0..m |-> IF k = 0 THEN doc ELSE WithRepo(c, f[k - 1], rs[k])]
           S == {m \in 0..n : \E f : Is(f, m)}
<1>1. 0 \in S
  <2>1. Is([k \in 0..0 |-> doc], 0)
    OBVIOUS
  <2>2. \E f : Is(f, 0)
    <3> HIDE DEF Is
    <3> QED  BY <2>1
  <2> QED  BY <2>2
<1>2. ASSUME NEW m \in 0..(n - 1), m \in S
      PROVE  m + 1 \in S
  <2>1. PICK f : Is(f, m)
    BY <1>2
  <2> DEFINE g == [k \in 0..(m + 1) |-> IF k = m + 1 THEN WithRepo(c, f[m], rs[m + 1]) ELSE f[k]]
  <2>2. ASSUME NEW k \in 0..(m + 1)
        PROVE  g[k] = IF k = 0 THEN doc ELSE WithRepo(c, g[k - 1], rs[k])
    <3>1. CASE k = m + 1
      <4>1. k # 0 /\ k - 1 = m /\ m \in 0..(m + 1) /\ m # m + 1
        BY <3>1
      <4>2. g[m] = f[m]
        BY <4>1
      <4> QED  BY <3>1, <4>1, <4>2
    <3>2. CASE k # m + 1
      <4>1. k \in 0..m /\ g[k] = f[k]
        BY <3>2
      <4>2. k # 0 => g[k - 1] = f[k - 1]
        BY <4>1
      <4> QED  BY <2>1, <4>1, <4>2
    <3> QED  BY <3>1, <3>2
  <2>3. Is(g, m + 1)
    <3>1. DOMAIN g = 0..(m + 1)
      OBVIOUS
    <3>2. g = [k \in 0..(m + 1) |-> g[k]]
      OBVIOUS
    <3> HIDE DEF g
    <3> QED  BY <2>2, <3>1, <3>2
  <2>4. \E h : Is(h, m + 1)
    <3> HIDE DEF Is, g
    <3> QED  BY <2>3
  <2> QED  BY <2>4
<1>3. n \in S
  <2>1. n \in 0..n
    OBVIOUS
  <2> HIDE DEF S, n
  <2>2. n \in Nat
    BY DEF n
  <2> QED  BY <1>1, <1>2, <2>1, <2>2, UpTo
<1>4. \E f : Is(f, n)
  BY <1>3
<1> DEFINE f == CHOOSE f : Is(f, n)
<1>5. Is(f, n)
  BY <1>4
<1>6. WithRepos(c, doc, rs) = f[n]
  BY DEF WithRepos
<1> HIDE DEF f
<1>7. f[0] = doc /\ \A k \in 1..n : f[k] = WithRepo(c, f[k - 1], rs[k])
  BY <1>5
<1> QED  BY <1>6, <1>7

\* So has one over the packages,
LEMMA PackagesOneByOne ==
  ASSUME NEW doc, NEW pkgs, Len(pkgs) \in Nat
  PROVE  \E f : /\ f[0] = doc
                /\ \A k \in 1..Len(pkgs) : f[k] = AddPackage(f[k - 1], pkgs[k])
                /\ AddPackages(doc, pkgs) = f[Len(pkgs)]
<1> DEFINE n == Len(pkgs)
           Is(f, m) == f = [k \in 0..m |-> IF k = 0 THEN doc ELSE AddPackage(f[k - 1], pkgs[k])]
           S == {m \in 0..n : \E f : Is(f, m)}
<1>1. 0 \in S
  <2>1. Is([k \in 0..0 |-> doc], 0)
    OBVIOUS
  <2>2. \E f : Is(f, 0)
    <3> HIDE DEF Is
    <3> QED  BY <2>1
  <2> QED  BY <2>2
<1>2. ASSUME NEW m \in 0..(n - 1), m \in S
      PROVE  m + 1 \in S
  <2>1. PICK f : Is(f, m)
    BY <1>2
  <2> DEFINE g == [k \in 0..(m + 1) |-> IF k = m + 1 THEN AddPackage(f[m], pkgs[m + 1]) ELSE f[k]]
  <2>2. ASSUME NEW k \in 0..(m + 1)
        PROVE  g[k] = IF k = 0 THEN doc ELSE AddPackage(g[k - 1], pkgs[k])
    <3>1. CASE k = m + 1
      <4>1. k # 0 /\ k - 1 = m /\ m \in 0..(m + 1) /\ m # m + 1
        BY <3>1
      <4>2. g[m] = f[m]
        BY <4>1
      <4> QED  BY <3>1, <4>1, <4>2
    <3>2. CASE k # m + 1
      <4>1. k \in 0..m /\ g[k] = f[k]
        BY <3>2
      <4>2. k # 0 => g[k - 1] = f[k - 1]
        BY <4>1
      <4> QED  BY <2>1, <4>1, <4>2
    <3> QED  BY <3>1, <3>2
  <2>3. Is(g, m + 1)
    <3>1. DOMAIN g = 0..(m + 1)
      OBVIOUS
    <3>2. g = [k \in 0..(m + 1) |-> g[k]]
      OBVIOUS
    <3> HIDE DEF g
    <3> QED  BY <2>2, <3>1, <3>2
  <2>4. \E h : Is(h, m + 1)
    <3> HIDE DEF Is, g
    <3> QED  BY <2>3
  <2> QED  BY <2>4
<1>3. n \in S
  <2>1. n \in 0..n
    OBVIOUS
  <2> HIDE DEF S, n
  <2>2. n \in Nat
    BY DEF n
  <2> QED  BY <1>1, <1>2, <2>1, <2>2, UpTo
<1>4. \E f : Is(f, n)
  BY <1>3
<1> DEFINE f == CHOOSE f : Is(f, n)
<1>5. Is(f, n)
  BY <1>4
<1>6. AddPackages(doc, pkgs) = f[n]
  BY DEF AddPackages
<1> HIDE DEF f
<1>7. f[0] = doc /\ \A k \in 1..n : f[k] = AddPackage(f[k - 1], pkgs[k])
  BY <1>5
<1> QED  BY <1>6, <1>7

\* one of the server over a list that was solved,
LEMMA SolvedOneByOne ==
  ASSUME NEW doc, NEW name, NEW pkgs, Len(pkgs) \in Nat
  PROVE  \E f : /\ f[0] = WithArray(doc, name)
                /\ \A k \in 1..Len(pkgs) : f[k] = AddSolved(f[k - 1], pkgs[Len(pkgs) - k + 1])
                /\ AddList(doc, name, pkgs) = f[Len(pkgs)]
<1> DEFINE n == Len(pkgs)
           Is(f, m) == f = [k \in 0..m |->
                              IF k = 0 THEN WithArray(doc, name)
                              ELSE AddSolved(f[k - 1], pkgs[Len(pkgs) - k + 1])]
           S == {m \in 0..n : \E f : Is(f, m)}
<1>1. 0 \in S
  <2>1. Is([k \in 0..0 |-> WithArray(doc, name)], 0)
    OBVIOUS
  <2>2. \E f : Is(f, 0)
    <3> HIDE DEF Is
    <3> QED  BY <2>1
  <2> QED  BY <2>2
<1>2. ASSUME NEW m \in 0..(n - 1), m \in S
      PROVE  m + 1 \in S
  <2>1. PICK f : Is(f, m)
    BY <1>2
  <2> DEFINE g == [k \in 0..(m + 1) |->
                     IF k = m + 1 THEN AddSolved(f[m], pkgs[Len(pkgs) - (m + 1) + 1]) ELSE f[k]]
  <2>2. ASSUME NEW k \in 0..(m + 1)
        PROVE  g[k] = IF k = 0 THEN WithArray(doc, name)
                      ELSE AddSolved(g[k - 1], pkgs[Len(pkgs) - k + 1])
    <3>1. CASE k = m + 1
      <4>1. k # 0 /\ k - 1 = m /\ m \in 0..(m + 1) /\ m # m + 1
        BY <3>1
      <4>2. g[m] = f[m]
        BY <4>1
      <4> QED  BY <3>1, <4>1, <4>2
    <3>2. CASE k # m + 1
      <4>1. k \in 0..m /\ g[k] = f[k]
        BY <3>2
      <4>2. k # 0 => g[k - 1] = f[k - 1]
        BY <4>1
      <4> QED  BY <2>1, <4>1, <4>2
    <3> QED  BY <3>1, <3>2
  <2>3. Is(g, m + 1)
    <3>1. DOMAIN g = 0..(m + 1)
      OBVIOUS
    <3>2. g = [k \in 0..(m + 1) |-> g[k]]
      OBVIOUS
    <3> HIDE DEF g
    <3> QED  BY <2>2, <3>1, <3>2
  <2>4. \E h : Is(h, m + 1)
    <3> HIDE DEF Is, g
    <3> QED  BY <2>3
  <2> QED  BY <2>4
<1>3. n \in S
  <2>1. n \in 0..n
    OBVIOUS
  <2> HIDE DEF S, n
  <2>2. n \in Nat
    BY DEF n
  <2> QED  BY <1>1, <1>2, <2>1, <2>2, UpTo
<1>4. \E f : Is(f, n)
  BY <1>3
<1> DEFINE f == CHOOSE f : Is(f, n)
<1>5. Is(f, n)
  BY <1>4
<1>6. AddList(doc, name, pkgs) = f[n]
  BY DEF AddList
<1> HIDE DEF f
<1>7. /\ f[0] = WithArray(doc, name)
      /\ \A k \in 1..n : f[k] = AddSolved(f[k - 1], pkgs[Len(pkgs) - k + 1])
  BY <1>5
<1> QED  BY <1>6, <1>7

\* and the choice of what is enabled.
EnabledStep(s, r) == IF r.enabled THEN Append(s, r) ELSE s

LEMMA EnabledOneByOne ==
  ASSUME NEW rs, Len(rs) \in Nat
  PROVE  \E f : /\ f[0] = <<>>
                /\ \A k \in 1..Len(rs) : f[k] = EnabledStep(f[k - 1], rs[k])
                /\ Enabled(rs) = f[Len(rs)]
<1> DEFINE n == Len(rs)
           Is(f, m) == f = [k \in 0..m |-> IF k = 0 THEN <<>> ELSE EnabledStep(f[k - 1], rs[k])]
           S == {m \in 0..n : \E f : Is(f, m)}
<1>1. 0 \in S
  <2>1. Is([k \in 0..0 |-> <<>>], 0)
    OBVIOUS
  <2>2. \E f : Is(f, 0)
    <3> HIDE DEF Is
    <3> QED  BY <2>1
  <2> QED  BY <2>2
<1>2. ASSUME NEW m \in 0..(n - 1), m \in S
      PROVE  m + 1 \in S
  <2>1. PICK f : Is(f, m)
    BY <1>2
  <2> DEFINE g == [k \in 0..(m + 1) |-> IF k = m + 1 THEN EnabledStep(f[m], rs[m + 1]) ELSE f[k]]
  <2>2. ASSUME NEW k \in 0..(m + 1)
        PROVE  g[k] = IF k = 0 THEN <<>> ELSE EnabledStep(g[k - 1], rs[k])
    <3>1. CASE k = m + 1
      <4>1. k # 0 /\ k - 1 = m /\ m \in 0..(m + 1) /\ m # m + 1
        BY <3>1
      <4>2. g[m] = f[m]
        BY <4>1
      <4> QED  BY <3>1, <4>1, <4>2
    <3>2. CASE k # m + 1
      <4>1. k \in 0..m /\ g[k] = f[k]
        BY <3>2
      <4>2. k # 0 => g[k - 1] = f[k - 1]
        BY <4>1
      <4> QED  BY <2>1, <4>1, <4>2
    <3> QED  BY <3>1, <3>2
  <2>3. Is(g, m + 1)
    <3>1. DOMAIN g = 0..(m + 1)
      OBVIOUS
    <3>2. g = [k \in 0..(m + 1) |-> g[k]]
      OBVIOUS
    <3> HIDE DEF g
    <3> QED  BY <2>2, <3>1, <3>2
  <2>4. \E h : Is(h, m + 1)
    <3> HIDE DEF Is, g
    <3> QED  BY <2>3
  <2> QED  BY <2>4, SMTT(30)
<1>3. n \in S
  <2>1. n \in 0..n
    OBVIOUS
  <2> HIDE DEF S, n
  <2>2. n \in Nat
    BY DEF n
  <2> QED  BY <1>1, <1>2, <2>1, <2>2, UpTo
<1>4. \E f : Is(f, n)
  BY <1>3
<1> DEFINE f == CHOOSE f : Is(f, n)
<1>5. Is(f, n)
  BY <1>4
<1>6. Enabled(rs) = f[n]
  BY DEF Enabled, EnabledStep
<1> HIDE DEF f
<1>7. f[0] = <<>> /\ \A k \in 1..n : f[k] = EnabledStep(f[k - 1], rs[k])
  BY <1>5
<1> QED  BY <1>6, <1>7

-----------------------------------------------------------------------------
(***************************************************************************)
(* What the writers of json_create.c do to a document: it is seen through  *)
(* its arrays, of which one that is not there is empty.                    *)
(***************************************************************************)
IsDoc(doc) ==
  doc = [code |-> doc.code,
         data |-> [name \in DOMAIN doc.data |-> doc.data[name]],
         array |-> doc.array]

\* d is doc but for the array it is at, which is s.
Only(d, doc, name, s) ==
  /\ IsDoc(d) /\ d.code = doc.code /\ d.array = name /\ Has(d, name)
  /\ Array(d, name) = s
  /\ \A m : m # name => Array(d, m) = Array(doc, m)

LEMMA CreatedIs ==
  ASSUME NEW code
  PROVE  /\ IsDoc(Created(code)) /\ Created(code).code = code
         /\ \A m : Array(Created(code), m) = <<>>
BY DEF IsDoc, Created, NoMembers, Array, Has

LEMMA WithArrayIs ==
  ASSUME NEW doc, IsDoc(doc), NEW name
  PROVE  Only(WithArray(doc, name), doc, name, Array(doc, name))
<1> DEFINE d == WithArray(doc, name)
           data == IF Has(doc, name) THEN doc.data ELSE With(doc.data, name, <<>>)
<1>0. /\ DOMAIN doc = {"code", "data", "array"}
      /\ doc.data = [m \in DOMAIN doc.data |-> doc.data[m]]
  <2>1. DOMAIN doc = {"code", "data", "array"}
    BY DEF IsDoc
  <2>2. doc.data = [m \in DOMAIN doc.data |-> doc.data[m]]
    BY DEF IsDoc
  <2> QED  BY <2>1, <2>2
<1>1. d = [code |-> doc.code, data |-> data, array |-> name]
  <2>1. d = [doc EXCEPT !.array = name, !.data = data]
    BY DEF WithArray
  <2> HIDE DEF data, d
  <2> QED  BY <1>0, <2>1
<1>2. /\ data = [m \in DOMAIN data |-> data[m]]
      /\ DOMAIN data = DOMAIN doc.data \cup {name}
      /\ data[name] = Array(doc, name)
      /\ \A m \in DOMAIN doc.data : data[m] = doc.data[m]
  <2>1. CASE Has(doc, name)
    BY <2>1 DEF IsDoc, Has, Array
  <2>2. CASE ~Has(doc, name)
    BY <2>2 DEF Has, Array, With
  <2> QED  BY <2>1, <2>2
<1> HIDE DEF data, d
<1>3. d.code = doc.code /\ d.data = data /\ d.array = name /\ IsDoc(d)
  BY <1>1, <1>2 DEF IsDoc
<1> QED  BY <1>2, <1>3 DEF Only, Has, Array, d

LEMMA AddElementIs ==
  ASSUME NEW doc, IsDoc(doc), NEW name, doc.array = name, Has(doc, name), NEW x
  PROVE  Only(AddElement(doc, x), doc, name, Append(Array(doc, name), x))
<1> DEFINE d == AddElement(doc, x)
           data == [doc.data EXCEPT ![name] = Append(@, x)]
<1>1. d = [code |-> doc.code, data |-> data, array |-> name]
  BY DEF AddElement, IsDoc
<1>2. /\ data = [m \in DOMAIN data |-> data[m]]
      /\ DOMAIN data = DOMAIN doc.data /\ name \in DOMAIN doc.data
      /\ data[name] = Append(doc.data[name], x)
      /\ \A m \in DOMAIN doc.data : m # name => data[m] = doc.data[m]
  BY DEF IsDoc, Has
<1> HIDE DEF data, d
<1>3. d.code = doc.code /\ d.data = data /\ d.array = name /\ IsDoc(d)
  BY <1>1, <1>2 DEF IsDoc
<1> QED  BY <1>2, <1>3 DEF Only, Has, Array, d

\* The object that was added last is the one that changes.
LEMMA AddMemberIs ==
  ASSUME NEW doc, IsDoc(doc), NEW name, doc.array = name, Has(doc, name),
         NEW S, NEW s \in Seq(S), NEW x, Array(doc, name) = Append(s, x), NEW n, NEW value
  PROVE  Only(AddMember(doc, n, value), doc, name, Append(s, With(x, n, value)))
<1> DEFINE d == AddMember(doc, n, value)
           last == Len(doc.data[name])
           data == [doc.data EXCEPT ![name][last] = With(@, n, value)]
<1>1. d = [code |-> doc.code, data |-> data, array |-> name]
  <2>1. d = [doc EXCEPT !.data = data]
    BY DEF AddMember
  <2>2. DOMAIN doc = {"code", "data", "array"}
    BY DEF IsDoc
  <2> HIDE DEF data, d
  <2> QED  BY <2>1, <2>2
<1>2. doc.data[name] = Append(s, x) /\ name \in DOMAIN doc.data
  BY DEF Array, Has
<1>3. last = Len(s) + 1 /\ Len(s) \in Nat
  BY <1>2
<1>4. data = [doc.data EXCEPT ![name] = [Append(s, x) EXCEPT ![last] = With(@, n, value)]]
  BY <1>2
<1>5. [Append(s, x) EXCEPT ![last] = With(@, n, value)] = Append(s, With(x, n, value))
  <2> DEFINE y == With(x, n, value)
             t == Append(s, x)
             u == Append(s, y)
  <2>1. t[last] = x /\ DOMAIN t = 1..(Len(s) + 1) /\ \A k \in 1..Len(s) : t[k] = s[k]
    BY <1>3
  <2>2. u[last] = y /\ DOMAIN u = 1..(Len(s) + 1) /\ \A k \in 1..Len(s) : u[k] = s[k]
    BY <1>3
  <2>3. u = [k \in 1..(Len(s) + 1) |-> u[k]]
    <3>1. u \in Seq(S \cup {y})
      OBVIOUS
    <3>2. Len(u) = Len(s) + 1
      OBVIOUS
    <3> HIDE DEF u
    <3>3. u \in [1..Len(u) -> S \cup {y}]
      BY <3>1
    <3> QED  BY <3>2, <3>3
  <2> HIDE DEF t, u
  <2>4. [t EXCEPT ![last] = y] = [k \in 1..(Len(s) + 1) |-> IF k = last THEN y ELSE t[k]]
    BY <2>1
  <2>5. \A k \in 1..(Len(s) + 1) : (IF k = last THEN y ELSE t[k]) = u[k]
    BY <1>3, <2>1, <2>2
  <2>6. [t EXCEPT ![last] = y] = u
    BY <2>3, <2>4, <2>5
  <2>7. [t EXCEPT ![last] = With(@, n, value)] = [t EXCEPT ![last] = y]
    BY <2>1
  <2> QED  BY <2>6, <2>7 DEF t, u
<1> HIDE DEF last
<1>6. /\ data = [m \in DOMAIN data |-> data[m]]
      /\ DOMAIN data = DOMAIN doc.data
      /\ data[name] = Append(s, With(x, n, value))
      /\ \A m \in DOMAIN doc.data : m # name => data[m] = doc.data[m]
  <2>1. data = [doc.data EXCEPT ![name] = Append(s, With(x, n, value))]
    BY <1>4, <1>5
  <2> HIDE DEF data
  <2> QED  BY <1>2, <2>1 DEF IsDoc
<1> HIDE DEF data, d
<1>7. d.code = doc.code /\ d.data = data /\ d.array = name /\ IsDoc(d)
  BY <1>1, <1>6 DEF IsDoc
<1> QED  BY <1>2, <1>6, <1>7 DEF Only, Has, Array, d

\* d is doc but for the array of that name, which is s.
Reads(d, doc, name, s) ==
  /\ IsDoc(d) /\ d.code = doc.code
  /\ Array(d, name) = s
  /\ \A m : m # name => Array(d, m) = Array(doc, m)

LEMMA AddPackageIs ==
  ASSUME NEW doc, IsDoc(doc), NEW p
  PROVE  Reads(AddPackage(doc, p), doc, "req_pkgs", Append(Array(doc, "req_pkgs"), p))
<1> DEFINE d == WithArray(doc, "req_pkgs")
<1>1. Only(d, doc, "req_pkgs", Array(doc, "req_pkgs"))
  BY WithArrayIs
<1> HIDE DEF d
<1>2. Only(AddElement(d, p), d, "req_pkgs", Append(Array(d, "req_pkgs"), p))
  BY <1>1, AddElementIs DEF Only
<1> QED  BY <1>1, <1>2 DEF Only, Reads, AddPackage, d

\* The object of a repository.
RepoObject(urls, name, type) ==
  With(With(With(NoMembers, "repo_url",
                 IF type = 1 THEN urls ELSE <<IF urls = <<>> THEN NoUrl ELSE urls[1]>>),
            "name", name),
       "type", type)

LEMMA AddRepoIs ==
  ASSUME NEW doc, IsDoc(doc), NEW S, Array(doc, "repolist") \in Seq(S),
         NEW urls, NEW name, NEW type
  PROVE  Reads(AddRepo(doc, urls, name, type), doc, "repolist",
               Append(Array(doc, "repolist"), RepoObject(urls, name, type)))
<1> DEFINE sent == IF type = 1 THEN urls ELSE <<IF urls = <<>> THEN NoUrl ELSE urls[1]>>
           s == Array(doc, "repolist")
           d0 == WithArray(doc, "repolist")
           d1 == AddObject(d0)
           d2 == AddMember(d1, "repo_url", sent)
           d3 == AddMember(d2, "name", name)
           d4 == AddMember(d3, "type", type)
           x2 == With(NoMembers, "repo_url", sent)
           x3 == With(x2, "name", name)
           x4 == With(x3, "type", type)
<1>0. AddRepo(doc, urls, name, type) = d4 /\ RepoObject(urls, name, type) = x4
  BY DEF AddRepo, RepoObject
<1>00. s \in Seq(S)
  OBVIOUS
<1> HIDE DEF sent, d1, d2, d3, d4, x2, x3, x4
<1>1. Only(d0, doc, "repolist", s)
  BY WithArrayIs
<1> HIDE DEF d0, s
<1>2. Only(d1, d0, "repolist", Append(s, NoMembers))
  <2>1. Only(AddElement(d0, NoMembers), d0, "repolist", Append(Array(d0, "repolist"), NoMembers))
    BY <1>1, AddElementIs DEF Only
  <2> QED  BY <1>1, <2>1 DEF d1, AddObject, Only
<1>3. Only(d2, d1, "repolist", Append(s, x2))
  BY <1>00, <1>2, AddMemberIs, SMTT(30) DEF Only, d2, x2
<1>4. Only(d3, d2, "repolist", Append(s, x3))
  BY <1>00, <1>3, AddMemberIs, SMTT(30) DEF Only, d3, x3
<1>5. Only(d4, d3, "repolist", Append(s, x4))
  BY <1>00, <1>4, AddMemberIs, SMTT(30) DEF Only, d4, x4
<1>6. Reads(d4, doc, "repolist", Append(s, x4))
  BY <1>1, <1>2, <1>3, <1>4, <1>5 DEF Only, Reads
<1> QED  BY <1>0, <1>6 DEF s

\* The object of a package.
SolvedObject(pkg) ==
  With(With(With(With(NoMembers, "pkg_name", pkg.name), "pkg_loc", pkg.release),
            "base_url", pkg.base),
       "metalink", pkg.repo)

LEMMA AddSolvedIs ==
  ASSUME NEW doc, IsDoc(doc), NEW name, doc.array = name, Has(doc, name),
         NEW S, Array(doc, name) \in Seq(S), NEW pkg
  PROVE  Only(AddSolved(doc, pkg), doc, name, Append(Array(doc, name), SolvedObject(pkg)))
<1> DEFINE s == Array(doc, name)
           d1 == AddObject(doc)
           d2 == AddMember(d1, "pkg_name", pkg.name)
           d3 == AddMember(d2, "pkg_loc", pkg.release)
           d4 == AddMember(d3, "base_url", pkg.base)
           d5 == AddMember(d4, "metalink", pkg.repo)
           x2 == With(NoMembers, "pkg_name", pkg.name)
           x3 == With(x2, "pkg_loc", pkg.release)
           x4 == With(x3, "base_url", pkg.base)
           x5 == With(x4, "metalink", pkg.repo)
<1>0. AddSolved(doc, pkg) = d5 /\ SolvedObject(pkg) = x5
  BY DEF AddSolved, SolvedObject
<1>1. s \in Seq(S)
  OBVIOUS
<1> HIDE DEF d1, d2, d3, d4, d5, x2, x3, x4, x5
<1>2. Only(d1, doc, name, Append(s, NoMembers))
  BY AddElementIs DEF d1, AddObject
<1> HIDE DEF s
<1>3. Only(d2, d1, name, Append(s, x2))
  BY <1>1, <1>2, AddMemberIs DEF Only, d2, x2
<1>4. Only(d3, d2, name, Append(s, x3))
  BY <1>1, <1>3, AddMemberIs, SMTT(30) DEF Only, d3, x3
<1>5. Only(d4, d3, name, Append(s, x4))
  BY <1>1, <1>4, AddMemberIs, SMTT(30) DEF Only, d4, x4
<1>6. Only(d5, d4, name, Append(s, x5))
  BY <1>1, <1>5, AddMemberIs, SMTT(30) DEF Only, d5, x5
<1>7. Only(d5, doc, name, Append(s, x5))
  BY <1>2, <1>3, <1>4, <1>5, <1>6 DEF Only
<1> QED  BY <1>0, <1>7 DEF s

-----------------------------------------------------------------------------
(***************************************************************************)
(* What a request is: the packages of the command line, and an object for  *)
(* each repository that is enabled.                                        *)
(***************************************************************************)
LEMMA PackagesAdded ==
  ASSUME NEW doc, IsDoc(doc), Array(doc, "req_pkgs") = <<>>, NEW S, NEW pkgs \in Seq(S)
  PROVE  Reads(AddPackages(doc, pkgs), doc, "req_pkgs", pkgs)
<1>0. Len(pkgs) \in Nat
  OBVIOUS
<1>2. PICK f : /\ f[0] = doc
               /\ \A k \in 1..Len(pkgs) : f[k] = AddPackage(f[k - 1], pkgs[k])
               /\ AddPackages(doc, pkgs) = f[Len(pkgs)]
  BY ONLY <1>0, PackagesOneByOne
<1> DEFINE n == Len(pkgs)
           Is(d, k) == Reads(d, doc, "req_pkgs", SubSeq(pkgs, 1, k))
<1>1. n \in Nat
  BY <1>0
<1> DEFINE T == {k \in 0..n : Is(f[k], k)}
<1>3. 0 \in T
  <2>1. SubSeq(pkgs, 1, 0) = <<>>
    BY SubSeqProperties
  <2>2. Reads(doc, doc, "req_pkgs", <<>>)
    BY DEF Reads
  <2>3. f[0] = doc /\ 0 \in 0..n
    BY <1>1, <1>2
  <2> QED  BY <2>1, <2>2, <2>3
<1>4. ASSUME NEW k \in 0..(n - 1), k \in T
      PROVE  k + 1 \in T
  <2>1. k + 1 \in 1..n /\ k + 1 - 1 = k /\ k \in 0..n /\ k + 1 \in 0..n
    BY <1>1
  <2>2. f[k + 1] = AddPackage(f[k], pkgs[k + 1])
    BY <1>2, <2>1
  <2>3. Reads(f[k], doc, "req_pkgs", SubSeq(pkgs, 1, k))
    BY <1>4
  <2>4. Reads(f[k + 1], f[k], "req_pkgs", Append(SubSeq(pkgs, 1, k), pkgs[k + 1]))
    <3>1. IsDoc(f[k]) /\ Array(f[k], "req_pkgs") = SubSeq(pkgs, 1, k)
      BY <2>3 DEF Reads
    <3>2. Reads(AddPackage(f[k], pkgs[k + 1]), f[k], "req_pkgs",
                Append(Array(f[k], "req_pkgs"), pkgs[k + 1]))
      BY <3>1, AddPackageIs
    <3> QED  BY <2>2, <3>1, <3>2
  <2>5. Append(SubSeq(pkgs, 1, k), pkgs[k + 1]) = SubSeq(pkgs, 1, k + 1)
    <3> DEFINE s == Append(SubSeq(pkgs, 1, k), pkgs[k + 1])
               t == SubSeq(pkgs, 1, k + 1)
    <3>1. SubSeq(pkgs, 1, k) \in Seq(S) /\ Len(SubSeq(pkgs, 1, k)) = k
          /\ \A j \in 1..k : SubSeq(pkgs, 1, k)[j] = pkgs[j]
      BY <1>1, <2>1, SubSeqProperties
    <3>2. s \in Seq(S) /\ Len(s) = k + 1 /\ \A j \in 1..(k + 1) : s[j] = pkgs[j]
      BY <1>1, <2>1, <3>1
    <3>3. t \in Seq(S) /\ Len(t) = k + 1 /\ \A j \in 1..(k + 1) : t[j] = pkgs[j]
      BY <1>1, <2>1, SubSeqProperties
    <3> HIDE DEF s, t
    <3>4. s = t
      BY <3>2, <3>3, SeqEqual
    <3> QED  BY <3>4 DEF s, t
  <2>6. Is(f[k + 1], k + 1)
    BY <2>3, <2>4, <2>5 DEF Reads
  <2> QED  BY <2>1, <2>6
<1>5. n \in T
  <2>1. n \in 0..n
    BY <1>1
  <2> HIDE DEF T, n
  <2> QED  BY <1>1, <1>3, <1>4, <2>1, UpTo
<1>6. SubSeq(pkgs, 1, n) = pkgs
  BY SubSeqProperties, SeqEqual
<1> QED  BY <1>2, <1>5, <1>6

\* The addresses that are sent for a repository.
Addresses(c, r) == [j \in 1..Len(Chosen(r).texts) |-> Substituted(c, Chosen(r).texts[j])]

Entry(c, r) == RepoObject(Addresses(c, r), r.id, Chosen(r).type)

Entries(c, rs) == [j \in 1..Len(rs) |-> Entry(c, rs[j])]

EnabledOf(rs) == {r \in ToSet(rs) : r.enabled}

LEMMA EntriesGrow ==
  ASSUME NEW c, NEW S, NEW s \in Seq(S), NEW r \in S
  PROVE  /\ Entries(c, s) \in Seq({Entry(c, q) : q \in S})
         /\ Entries(c, Append(s, r)) = Append(Entries(c, s), Entry(c, r))
<1> DEFINE E == {Entry(c, q) : q \in S}
           n == Len(s)
           u == Entries(c, s)
           v == Entries(c, Append(s, r))
           w == Append(u, Entry(c, r))
<1>1. n \in Nat /\ \A j \in 1..n : s[j] \in S
  OBVIOUS
<1>2. u \in [1..n -> E]
  <2>1. \A j \in 1..n : Entry(c, s[j]) \in E
    BY <1>1
  <2> HIDE DEF E
  <2> QED  BY <2>1 DEF Entries
<1>3. u \in Seq(E) /\ Len(u) = n /\ \A j \in 1..n : u[j] = Entry(c, s[j])
  <2>1. u \in Seq(E) /\ Len(u) = n
    <3> HIDE DEF u, E, n
    <3> QED  BY <1>1, <1>2
  <2> QED  BY <2>1 DEF Entries
<1>4. /\ Append(s, r) \in Seq(S) /\ Len(Append(s, r)) = n + 1
      /\ Append(s, r)[n + 1] = r /\ \A j \in 1..n : Append(s, r)[j] = s[j]
  OBVIOUS
<1>5. v \in [1..(n + 1) -> E]
  <2>1. \A j \in 1..(n + 1) : Append(s, r)[j] \in S
    BY <1>4
  <2>2. \A j \in 1..(n + 1) : Entry(c, Append(s, r)[j]) \in E
    BY <2>1
  <2> HIDE DEF E
  <2> QED  BY <1>4, <2>2 DEF Entries
<1>6. v \in Seq(E) /\ Len(v) = n + 1
  <2> HIDE DEF v, E, n
  <2> QED  BY <1>1, <1>5
<1>7. \A j \in 1..(n + 1) : v[j] = Entry(c, Append(s, r)[j])
  BY <1>4 DEF Entries
<1>8. /\ w \in Seq(E) /\ Len(w) = n + 1
      /\ w[n + 1] = Entry(c, r) /\ \A j \in 1..n : w[j] = u[j]
  <2>1. Entry(c, r) \in E
    OBVIOUS
  <2> HIDE DEF u, E, n
  <2> QED  BY <1>3, <2>1
<1>9. \A j \in 1..(n + 1) : v[j] = w[j]
  <2> TAKE j \in 1..(n + 1)
  <2>1. CASE j = n + 1
    BY <1>4, <1>7, <1>8, <2>1
  <2>2. CASE j # n + 1
    <3>1. j \in 1..n
      BY <1>1, <2>2
    <3> HIDE DEF v, w, u, n
    <3> QED  BY <1>3, <1>4, <1>7, <1>8, <3>1
  <2> QED  BY <2>1, <2>2
<1>10. v = w
  <2> HIDE DEF v, w, E, n
  <2> QED  BY <1>6, <1>8, <1>9, SeqEqual
<1> QED  BY <1>3, <1>10

LEMMA ReposAdded ==
  ASSUME NEW c, NEW doc, IsDoc(doc), Array(doc, "repolist") = <<>>,
         NEW rs \in Seq(Repository)
  PROVE  /\ Reads(WithRepos(c, doc, rs), doc, "repolist", Entries(c, Enabled(rs)))
         /\ Enabled(rs) \in Seq(EnabledOf(rs))
<1> DEFINE n == Len(rs)
           S == EnabledOf(rs)
<1>1. n \in Nat
  OBVIOUS
<1>2. PICK f : /\ f[0] = doc
               /\ \A k \in 1..n : f[k] = WithRepo(c, f[k - 1], rs[k])
               /\ WithRepos(c, doc, rs) = f[n]
  BY <1>1, ReposOneByOne
<1>3. PICK e : /\ e[0] = <<>>
               /\ \A k \in 1..n : e[k] = EnabledStep(e[k - 1], rs[k])
               /\ Enabled(rs) = e[n]
  BY <1>1, EnabledOneByOne
<1> DEFINE Is(k) == e[k] \in Seq(S) /\ Reads(f[k], doc, "repolist", Entries(c, e[k]))
           T == {k \in 0..n : Is(k)}
<1>4. 0 \in T
  <2>1. Entries(c, <<>>) = <<>>
    BY DEF Entries
  <2>2. Reads(doc, doc, "repolist", <<>>)
    BY DEF Reads
  <2>3. f[0] = doc /\ e[0] = <<>> /\ 0 \in 0..n
    BY <1>1, <1>2, <1>3
  <2>4. e[0] \in Seq(S)
    BY <2>3
  <2>5. Reads(f[0], doc, "repolist", Entries(c, e[0]))
    BY <2>1, <2>2, <2>3
  <2> QED  BY <2>3, <2>4, <2>5
<1>5. ASSUME NEW k \in 0..(n - 1), k \in T
      PROVE  k + 1 \in T
  <2>1. k + 1 \in 1..n /\ k + 1 - 1 = k /\ k \in 0..n /\ k + 1 \in 0..n
    BY <1>1
  <2> DEFINE r == rs[k + 1]
  <2>2. f[k + 1] = WithRepo(c, f[k], r) /\ e[k + 1] = EnabledStep(e[k], r)
    BY <1>2, <1>3, <2>1
  <2>3. e[k] \in Seq(S) /\ Reads(f[k], doc, "repolist", Entries(c, e[k]))
    BY <1>5
  <2>4. CASE r.enabled
    <3>1. r \in S
      BY <2>1, <2>4 DEF EnabledOf, ToSet
    <3>2. e[k + 1] = Append(e[k], r)
      BY <2>2, <2>4 DEF EnabledStep
    <3> HIDE DEF r, S
    <3>3. /\ Entries(c, e[k]) \in Seq({Entry(c, q) : q \in S})
          /\ Entries(c, Append(e[k], r)) = Append(Entries(c, e[k]), Entry(c, r))
      BY <2>3, <3>1, EntriesGrow
    <3>4. e[k + 1] \in Seq(S)
      BY <2>3, <3>1, <3>2
    <3>5. IsDoc(f[k]) /\ Array(f[k], "repolist") = Entries(c, e[k])
      BY <2>3 DEF Reads
    <3>6. f[k + 1] = AddRepo(f[k], Addresses(c, r), r.id, Chosen(r).type)
      BY <2>2, <2>4 DEF WithRepo, Addresses
    <3>7. Reads(f[k + 1], f[k], "repolist", Append(Entries(c, e[k]), Entry(c, r)))
      BY <3>3, <3>5, <3>6, AddRepoIs DEF Entry
    <3>8. Reads(f[k + 1], doc, "repolist", Entries(c, e[k + 1]))
      BY <2>3, <3>2, <3>3, <3>7 DEF Reads
    <3> QED  BY <2>1, <3>4, <3>8
  <2>5. CASE ~r.enabled
    <3>1. f[k + 1] = f[k] /\ e[k + 1] = e[k]
      BY <2>2, <2>5 DEF WithRepo, EnabledStep
    <3> QED  BY <2>1, <2>3, <3>1
  <2> QED  BY <2>4, <2>5
<1>6. n \in T
  <2>1. n \in 0..n
    BY <1>1
  <2> HIDE DEF T, n
  <2> QED  BY <1>1, <1>4, <1>5, <2>1, UpTo
<1> QED  BY <1>2, <1>3, <1>6

\* A request says what was asked for.
Says(d, c, operation, rs, pkgs) ==
  /\ d.code = operation
  /\ Array(d, "req_pkgs") = pkgs
  /\ Array(d, "repolist") = Entries(c, Enabled(rs))

LEMMA RequestSays ==
  ASSUME NEW c, NEW operation, NEW rs \in Seq(Repository), NEW S, NEW pkgs \in Seq(S)
  PROVE  Says(Request(c, operation, rs, pkgs), c, operation, rs, pkgs)
<1> DEFINE doc == Created(operation)
           d == WithRepos(c, doc, rs)
<1>1. IsDoc(doc) /\ doc.code = operation /\ \A m : Array(doc, m) = <<>>
  BY CreatedIs
<1> HIDE DEF doc
<1>2. Reads(d, doc, "repolist", Entries(c, Enabled(rs)))
  BY <1>1, ReposAdded
<1> HIDE DEF d
<1>3. IsDoc(d) /\ Array(d, "req_pkgs") = <<>> /\ d.code = operation
  BY <1>1, <1>2 DEF Reads
<1>4. Reads(AddPackages(d, pkgs), d, "req_pkgs", pkgs)
  BY <1>3, PackagesAdded
<1> QED  BY <1>2, <1>3, <1>4 DEF Reads, Says, Request, d, doc

-----------------------------------------------------------------------------
(***************************************************************************)
(* What the server and a client know of a request.                         *)
(***************************************************************************)
Runs == {"idle", "asked", "answered", "listed", "told", "lost", "gone"}
Busy == {"packages", "repos", "locate", "download", "found", "query", "solve", "reply"}
Read == Busy \ {"packages", "repos"}
Local == [name : Ids, type : 1..3, urls : Seq(Url) \ {<<>>}]

\* The documents under way are requests of those who have asked.
AskedInv ==
  /\ cpc \in [Clients -> Runs]
  /\ conf \in [Clients -> Confs \cup {<<>>}]
  /\ want \in [Clients -> Wanted \cup {<<>>}]
  /\ op \in [Clients -> Operations]
  /\ wire = [c \in Clients |-> wire[c]]
  /\ \A c \in Clients : op[c] = "update_all" => want[c] = <<>>
  /\ \A c \in Clients : cpc[c] = "asked" => Says(wire[c], c, op[c], conf[c], want[c])

\* The server is at the request of one that waits, and nobody else goes on.
ServedInv ==
  /\ cur \in Clients
  /\ spc \in Busy \cup {"idle", "crashed", "down"}
  /\ spc \in Busy => /\ cpc[cur] = "asked"
                     /\ Says(req, cur, op[cur], conf[cur], want[cur])
  /\ spc \in {"crashed", "down"} => cpc[cur] = "lost"

\* What it has read is what was asked for.
ReadInv ==
  /\ wild \in BOOLEAN
  /\ spc \in Busy \ {"packages"} =>
       /\ names = want[cur]
       /\ wild = (op[cur] # "update_all" /\ Len(want[cur]) # 1)
  /\ spc \in Read => repos = Meant(cur)

\* Where it is in the loop over the repositories.
LoopInv ==
  /\ repos \in Seq(Local)
  /\ i \in 1..(Len(repos) + 1)
  /\ meta \in Seq([name : Ids, repo : Url])
  /\ spc \in {"idle", "packages", "repos"} =>
       repos = <<>> /\ i = 1 /\ meta = <<>> /\ failed = {}
  /\ spc \in {"download", "found"} => i <= Len(repos)
  /\ spc \in {"query", "solve", "reply"} => i = Len(repos) + 1

\* What is kept of a repository whose metadata is there.
MetaOf(j) == [name |-> repos[j].name, repo |-> repos[j].urls[1]]

\* What it has found for those it has passed.
FoundInv ==
  \A j \in 1..(i - 1) :
    j \in failed \/ \E k \in 1..Len(meta) : meta[k] = MetaOf(j)

CacheInv ==
  /\ cache \in [Ids -> {NoMeta} \cup [url : Url, state : {"cut", "whole"}]]
  /\ spc = "download" => cache[Folder(i)].state = "cut"
  /\ spc = "found" => cache[Folder(i)] # NoMeta
  /\ \A k \in 1..Len(meta) : cache[meta[k].name] # NoMeta

TurnInv ==
  /\ fault \in {"none", "packages", "repos", "locate", "found", "query", "solve"}
  /\ kills \in 0..MaxKills

\* What the query gives for the names of the request and what was read behind.
IsGoal(ps) == \E stale \in SUBSET DOMAIN Globs : ps = Latest(Matching(ToSet(names) \cup stale))

\* The packages of the request are in the goal, or still to be put there.
GoalInv ==
  /\ spc \in {"idle", "packages", "repos", "locate", "download", "found", "query"} =>
       todo = {} /\ jobs = {}
  /\ spc = "solve" => IF op[cur] = "update_all" THEN todo = {} /\ jobs = {}
                                                ELSE IsGoal(todo \cup jobs)

\* What the server has installed, and what was found.
Found == [name : Names, release : {Release[c] : c \in Clients}, repo : Url,
          base : Url \cup {NoUrl}]

SackInv == sack \subseteq Own \cup Found /\ IsFiniteSet(sack)

-----------------------------------------------------------------------------
(***************************************************************************)
(* What is read of a request is what was meant.                            *)
(***************************************************************************)
LEMMA ObjectHas ==
  ASSUME NEW urls, NEW name, NEW type
  PROVE  LET o == RepoObject(urls, name, type)
         IN /\ o["name"] = name /\ o["type"] = type
            /\ o["repo_url"] = IF type = 1 THEN urls
                               ELSE <<IF urls = <<>> THEN NoUrl ELSE urls[1]>>
<1> DEFINE sent == IF type = 1 THEN urls ELSE <<IF urls = <<>> THEN NoUrl ELSE urls[1]>>
           x1 == With(NoMembers, "repo_url", sent)
           x2 == With(x1, "name", name)
           x3 == With(x2, "type", type)
<1>1. RepoObject(urls, name, type) = x3
  BY DEF RepoObject
<1> HIDE DEF sent
<1>2. x1["repo_url"] = sent /\ DOMAIN x1 = {"repo_url"}
  BY DEF With, NoMembers
<1> HIDE DEF x1
<1>3. x2["repo_url"] = sent /\ x2["name"] = name /\ DOMAIN x2 = {"repo_url", "name"}
  BY <1>2 DEF With
<1> HIDE DEF x2
<1>4. x3["repo_url"] = sent /\ x3["name"] = name /\ x3["type"] = type
  BY <1>3 DEF With
<1> HIDE DEF x3
<1> QED  BY <1>1, <1>4 DEF sent

\* What a client means by a repository.
MeantRepo(c, r) ==
  [name |-> r.id,
   type |-> IF r.baseurl # <<>> THEN 1 ELSE IF r.metalink # NoUrl THEN 3 ELSE 2,
   urls |-> IF r.baseurl # <<>>
            THEN [k \in 1..Len(r.baseurl) |-> Substituted(c, r.baseurl[k])]
            ELSE IF r.metalink # NoUrl THEN <<Substituted(c, r.metalink)>>
            ELSE <<Substituted(c, r.mirrorlist)>>]

LEMMA MeantIs ==
  ASSUME NEW c
  PROVE  Meant(c) = [j \in 1..Len(Enabled(conf[c])) |-> MeantRepo(c, Enabled(conf[c])[j])]
BY DEF Meant, MeantRepo

LEMMA UrlIs ==
  ASSUME NEW c \in Clients, NEW text \in DOMAIN Published
  PROVE  Substituted(c, text) \in Url
BY DEF Substituted, Url

\* An address of a repository that has none is null.
LEMMA EntryIs ==
  ASSUME NEW c \in Clients, NEW r \in Repository
  PROVE  LET o == Entry(c, r)
         IN \/ /\ [name |-> o["name"], type |-> o["type"], urls |-> o["repo_url"]]
                    = MeantRepo(c, r)
               /\ MeantRepo(c, r) \in Local /\ NoUrl \notin ToSet(o["repo_url"])
               /\ MeantRepo(c, r).type # 1 => Len(MeantRepo(c, r).urls) = 1
               /\ MeantRepo(c, r).type = 1 => Len(MeantRepo(c, r).urls) = Len(r.baseurl)
            \/ /\ NoUrl \in ToSet(o["repo_url"])
               /\ r.baseurl = <<>> /\ r.metalink = NoUrl /\ r.mirrorlist = NoUrl
<1> DEFINE o == Entry(c, r)
           a == Addresses(c, r)
           m == MeantRepo(c, r)
<1>1. /\ o["name"] = r.id /\ o["type"] = Chosen(r).type
      /\ o["repo_url"] = IF Chosen(r).type = 1 THEN a ELSE <<IF a = <<>> THEN NoUrl ELSE a[1]>>
  BY ObjectHas DEF Entry
<1>2. /\ r.id \in Ids /\ r.baseurl \in Seq(DOMAIN Published)
      /\ r.metalink \in DOMAIN Published \cup {NoUrl}
      /\ r.mirrorlist \in DOMAIN Published \cup {NoUrl}
  BY DEF Repository
<1>3. NoUrl \notin Url
  BY SolvAssumption
<1> HIDE DEF o
<1>4. CASE r.baseurl # <<>>
  <2>1. Chosen(r) = [type |-> 1, texts |-> r.baseurl]
    BY <1>4 DEF Chosen
  <2> DEFINE n == Len(r.baseurl)
  <2>2. n \in Nat /\ n # 0 /\ \A j \in 1..n : r.baseurl[j] \in DOMAIN Published
    BY <1>2, <1>4
  <2>3. a = [j \in 1..n |-> Substituted(c, r.baseurl[j])]
    BY <2>1 DEF Addresses
  <2>4. a \in [1..n -> Url]
    <3> HIDE DEF n
    <3> QED  BY <2>2, <2>3, UrlIs
  <2>5. a \in Seq(Url) /\ Len(a) = n /\ a # <<>>
    <3> HIDE DEF a, n
    <3> QED  BY <2>2, <2>4
  <2>6. m = [name |-> r.id, type |-> 1, urls |-> a]
    BY <1>4, <2>3 DEF MeantRepo
  <2>7. o["repo_url"] = a /\ o["type"] = 1
    BY <1>1, <2>1
  <2>8. NoUrl \notin ToSet(a)
    <3> HIDE DEF a, n
    <3> QED  BY <1>3, <2>4 DEF ToSet
  <2> HIDE DEF a, n, m
  <2>9. m \in Local
    BY <1>2, <2>5, <2>6 DEF Local
  <2> QED  BY <1>1, <2>5, <2>6, <2>7, <2>8, <2>9 DEF o, m, n
<1>5. ASSUME r.baseurl = <<>>, NEW text \in DOMAIN Published, NEW kind \in {2, 3},
             Chosen(r) = [type |-> kind, texts |-> <<text>>],
             m = [name |-> r.id, type |-> kind, urls |-> <<Substituted(c, text)>>]
      PROVE  /\ [name |-> o["name"], type |-> o["type"], urls |-> o["repo_url"]] = m
             /\ m \in Local /\ NoUrl \notin ToSet(o["repo_url"])
             /\ m.type # 1 /\ Len(m.urls) = 1
  <2> DEFINE u == Substituted(c, text)
  <2>1. u \in Url /\ u # NoUrl
    BY <1>3, UrlIs
  <2>2. a = <<u>>
    <3>1. a = [j \in 1..1 |-> u]
      BY <1>5 DEF Addresses
    <3> HIDE DEF a, u
    <3> QED  BY <3>1
  <2>3. o["repo_url"] = <<u>>
    <3>1. a # <<>> /\ a[1] = u
      BY <2>2
    <3>2. Chosen(r).type # 1
      BY <1>5
    <3> HIDE DEF a, u
    <3> QED  BY <1>1, <3>1, <3>2
  <2>4. ToSet(<<u>>) = {u}
    BY DEF ToSet
  <2>5. m = [name |-> r.id, type |-> kind, urls |-> <<u>>]
    BY <1>5
  <2>6. o["type"] = kind
    BY <1>1, <1>5
  <2> HIDE DEF a, u, m
  <2>7. m \in Local
    <3>1. <<u>> \in Seq(Url) /\ <<u>> # <<>> /\ kind \in 1..3
      BY <2>1
    <3> QED  BY <1>2, <2>5, <3>1 DEF Local
  <2> QED  BY <1>1, <2>1, <2>3, <2>4, <2>5, <2>6, <2>7
<1>6. CASE r.baseurl = <<>> /\ r.metalink # NoUrl
  <2>1. r.metalink \in DOMAIN Published
    BY <1>2, <1>6
  <2>2. Chosen(r) = [type |-> 3, texts |-> <<r.metalink>>]
    BY <1>6 DEF Chosen
  <2>3. m = [name |-> r.id, type |-> 3, urls |-> <<Substituted(c, r.metalink)>>]
    BY <1>6 DEF MeantRepo
  <2> HIDE DEF m
  <2> QED  BY <1>5, <1>6, <2>1, <2>2, <2>3 DEF o, m
<1>7. CASE r.baseurl = <<>> /\ r.metalink = NoUrl /\ r.mirrorlist # NoUrl
  <2>1. r.mirrorlist \in DOMAIN Published
    BY <1>2, <1>7
  <2>2. Chosen(r) = [type |-> 2, texts |-> <<r.mirrorlist>>]
    BY <1>7 DEF Chosen
  <2>3. m = [name |-> r.id, type |-> 2, urls |-> <<Substituted(c, r.mirrorlist)>>]
    BY <1>7 DEF MeantRepo
  <2> HIDE DEF m
  <2> QED  BY <1>5, <1>7, <2>1, <2>2, <2>3 DEF o, m
<1>8. CASE r.baseurl = <<>> /\ r.metalink = NoUrl /\ r.mirrorlist = NoUrl
  <2>1. Chosen(r) = [type |-> 0, texts |-> <<>>]
    BY <1>8 DEF Chosen
  <2>2. a = <<>>
    <3>1. a = [j \in 1..0 |-> Substituted(c, <<>>[j])]
      BY <2>1 DEF Addresses
    <3> HIDE DEF a
    <3> QED  BY <3>1
  <2>3. o["repo_url"] = <<NoUrl>>
    BY <1>1, <2>1, <2>2
  <2>4. NoUrl \in ToSet(<<NoUrl>>)
    BY DEF ToSet
  <2> QED  BY <1>8, <2>3, <2>4 DEF o
<1> QED  BY <1>4, <1>6, <1>7, <1>8

LEMMA EnabledIs ==
  ASSUME NEW rs \in Seq(Repository)
  PROVE  Enabled(rs) \in Seq(EnabledOf(rs)) /\ EnabledOf(rs) \subseteq Repository
<1>1. Enabled(rs) \in Seq(EnabledOf(rs))
  BY ReposAdded, CreatedIs
<1>2. EnabledOf(rs) \subseteq Repository
  BY DEF EnabledOf, ToSet
<1> QED  BY <1>1, <1>2

\* What is meant comes from what is enabled.
LEMMA MeantFrom ==
  ASSUME NEW c \in Clients, conf[c] \in Seq(Repository),
         NEW j \in 1..Len(Enabled(conf[c]))
  PROVE  /\ Enabled(conf[c])[j] \in EnabledOf(conf[c]) /\ Enabled(conf[c])[j] \in Repository
         /\ Meant(c)[j] = MeantRepo(c, Enabled(conf[c])[j])
<1>1. Enabled(conf[c]) \in Seq(EnabledOf(conf[c])) /\ EnabledOf(conf[c]) \subseteq Repository
  BY EnabledIs
<1>2. Enabled(conf[c])[j] \in EnabledOf(conf[c])
  BY <1>1
<1> QED  BY <1>1, <1>2, MeantIs

LEMMA NoNullUrl ==
  ASSUME NEW c \in Clients, conf[c] \in Seq(Repository),
         NEW d, NEW o, NEW w, Says(d, c, o, conf[c], w), ~NullUrl(d)
  PROVE  RepoInfo(d) = Meant(c) /\ Meant(c) \in Seq(Local)
<1> DEFINE E == Enabled(conf[c])
           n == Len(E)
<1>1. E \in Seq(EnabledOf(conf[c])) /\ EnabledOf(conf[c]) \subseteq Repository /\ n \in Nat
  <2>1. E \in Seq(EnabledOf(conf[c])) /\ EnabledOf(conf[c]) \subseteq Repository
    BY EnabledIs
  <2> HIDE DEF E
  <2> QED  BY <2>1
<1>2. GetCount(d, "repolist") = n
  <2>1. Array(d, "repolist") = [j \in 1..n |-> Entry(c, E[j])]
    BY DEF Says, Entries
  <2> HIDE DEF n, E
  <2> QED  BY <1>1, <2>1 DEF GetCount
<1>3. ASSUME NEW j \in 1..n
      PROVE  d.data["repolist"][j] = Entry(c, E[j])
  <2>1. Array(d, "repolist") = [k \in 1..n |-> Entry(c, E[k])]
    BY DEF Says, Entries
  <2>2. Array(d, "repolist") # <<>>
    <3>1. Len(Array(d, "repolist")) = n /\ n # 0
      BY <1>1, <1>2, <1>3 DEF GetCount
    <3> HIDE DEF n, E
    <3> QED  BY <3>1
  <2>3. d.data["repolist"] = Array(d, "repolist")
    BY <2>2 DEF Array
  <2> QED  BY <2>1, <2>3
<1>4. ASSUME NEW j \in 1..n
      PROVE  LET o1 == d.data["repolist"][j]
             IN /\ [name |-> o1["name"], type |-> o1["type"], urls |-> o1["repo_url"]]
                     = MeantRepo(c, E[j])
                /\ MeantRepo(c, E[j]) \in Local
  <2>1. E[j] \in Repository
    BY MeantFrom
  <2>2. NoUrl \notin ToSet(Entry(c, E[j])["repo_url"])
    <3>1. NoUrl \notin ToSet(d.data["repolist"][j]["repo_url"])
      BY <1>2 DEF NullUrl
    <3> HIDE DEF n, E
    <3> QED  BY <3>1, <1>3
  <2> HIDE DEF n, E
  <2> QED  BY <1>3, <2>1, <2>2, EntryIs
<1>5. RepoInfo(d) = [j \in 1..n |-> MeantRepo(c, E[j])]
  BY <1>2, <1>4 DEF RepoInfo
<1>6. Meant(c) = [j \in 1..n |-> MeantRepo(c, E[j])]
  BY MeantIs
<1>7. Meant(c) \in Seq(Local)
  <2>1. Meant(c) \in [1..n -> Local]
    <3> HIDE DEF n, E
    <3> QED  BY <1>4, <1>6
  <2> HIDE DEF n, E
  <2> QED  BY <1>1, <2>1
<1> QED  BY <1>5, <1>6, <1>7

LEMMA SomeNullUrl ==
  ASSUME NEW c \in Clients, conf[c] \in Seq(Repository),
         NEW d, NEW o, NEW w, Says(d, c, o, conf[c], w), NullUrl(d)
  PROVE  \E r \in EnabledOf(conf[c]) :
           r.baseurl = <<>> /\ r.metalink = NoUrl /\ r.mirrorlist = NoUrl
<1> DEFINE E == Enabled(conf[c])
           n == Len(E)
<1>0. n \in Nat
  <2>1. E \in Seq(EnabledOf(conf[c]))
    BY EnabledIs
  <2> HIDE DEF E
  <2> QED  BY <2>1
<1>1. Array(d, "repolist") = [j \in 1..n |-> Entry(c, E[j])]
  BY DEF Says, Entries
<1>2. GetCount(d, "repolist") = n
  <2> HIDE DEF n, E
  <2> QED  BY <1>0, <1>1 DEF GetCount
<1>3. PICK j \in 1..n : NoUrl \in ToSet(d.data["repolist"][j]["repo_url"])
  BY <1>2 DEF NullUrl
<1>4. d.data["repolist"][j] = Entry(c, E[j])
  <2>1. Array(d, "repolist") # <<>>
    <3>1. Len(Array(d, "repolist")) = n /\ n # 0
      BY <1>0, <1>2 DEF GetCount
    <3> HIDE DEF n, E
    <3> QED  BY <3>1
  <2>2. d.data["repolist"] = Array(d, "repolist")
    BY <2>1 DEF Array
  <2> QED  BY <1>1, <2>2
<1>5. E[j] \in Repository /\ E[j] \in EnabledOf(conf[c])
  BY MeantFrom
<1> HIDE DEF E, n
<1> QED  BY <1>3, <1>4, <1>5, EntryIs

\* What is meant does not change for a client that stays as it is.
LEMMA MeantSame ==
  ASSUME NEW c, conf'[c] = conf[c]
  PROVE  Meant(c)' = Meant(c)
BY DEF Meant

-----------------------------------------------------------------------------
(***************************************************************************)
(* The steps, by what they do to the clients.                              *)
(***************************************************************************)
\* The server goes on with the request it is at.
Serves ==
  /\ spc \in Busy /\ spc' \in Busy
  /\ UNCHANGED <<cpc, conf, want, op, wire, cur, req, answer, fault, kills>>

\* It ends without an answer.
Loses ==
  /\ spc \in Busy /\ spc' \in {"crashed", "down"}
  /\ cpc' = [cpc EXCEPT ![cur] = "lost"]
  /\ wire' = [wire EXCEPT ![cur] = NoDoc]
  /\ UNCHANGED <<conf, want, op, cur, req, repos, i, meta, sack, todo, jobs, out, cache, answer,
                 failed, solved>>

LEMMA ServerSteps ==
  ASSUME ReadPackages \/ ReadRepos \/ FoundLocally \/ DownloadStarts \/ Downloaded
           \/ DownloadFails \/ AddMetadata \/ FillSack \/ Query \/ AddJob \/ NotSolved \/ Solved
           \/ NoLists \/ Kill,
         ServedInv
  PROVE  Serves \/ Loses
<1> USE DEF Busy, requestVars, clientVars, historyVars, GoTo
<1>1. CASE ReadPackages
  BY <1>1 DEF ReadPackages, Crash, Serves, Loses
<1>2. CASE ReadRepos
  BY <1>2 DEF ReadRepos, Crash, Serves, Loses
<1>3. CASE FoundLocally
  BY <1>3 DEF FoundLocally, Locating, Serves
<1>4. CASE DownloadStarts
  BY <1>4 DEF DownloadStarts, Locating, Crash, Serves, Loses
<1>5. CASE Downloaded \/ DownloadFails
  BY <1>5 DEF Downloaded, DownloadFails, Serves
<1>6. CASE FillSack
  BY <1>6 DEF FillSack, Serves
<1>7. CASE Query
  BY <1>7 DEF Query, Crash, Serves, Loses
<1>8. CASE AddJob
  BY <1>8 DEF AddJob, Serves
<1>9. CASE NotSolved
  BY <1>9 DEF NotSolved, Serves
<1>10. CASE Solved
  BY <1>10 DEF Solved, Serves
<1>11. CASE NoLists
  BY <1>11 DEF NoLists, Crash, Serves, Loses
<1>12. CASE Kill
  BY <1>12 DEF Kill, Loses, ServedInv
<1>13. CASE AddMetadata
  BY <1>13 DEF AddMetadata, Crash, Serves, Loses
<1> QED
  BY <1>1, <1>2, <1>3, <1>4, <1>5, <1>6, <1>7, <1>8, <1>9, <1>10, <1>11, <1>12, <1>13

\* Every step of the clients and the server.
LEMMA StepShapes ==
  ASSUME [Next]_vars, ServedInv
  PROVE  \/ UNCHANGED vars
         \/ \E c \in Clients : Ask(c) \/ ReadAnswer(c) \/ Leave(c) \/ Take(c)
         \/ Serves \/ Loses \/ Reply \/ Restart
BY ServerSteps DEF Next, ServerStep, Done

LEMMA AskedStart == Init => AskedInv
<1> SUFFICES ASSUME Init PROVE AskedInv
  OBVIOUS
<1>1. "install" \in Operations /\ "idle" \in Runs
  BY DEF Operations, Runs
<1>2. cpc \in [Clients -> Runs] /\ op \in [Clients -> Operations]
  BY <1>1 DEF Init
<1>3. conf \in [Clients -> Confs \cup {<<>>}] /\ want \in [Clients -> Wanted \cup {<<>>}]
  BY DEF Init
<1>4. wire = [c \in Clients |-> wire[c]]
  BY DEF Init
<1>5. \A c \in Clients : cpc[c] # "asked" /\ want[c] = <<>>
  BY DEF Init
<1> QED  BY <1>2, <1>3, <1>4, <1>5 DEF AskedInv

\* A document under way is the request of its client from then on.
LEMMA AskedStep ==
  ASSUME AskedInv, ServedInv, [Next]_vars
  PROVE  AskedInv'
<1>0. cur \in Clients
  BY DEF ServedInv
<1>1. ASSUME UNCHANGED <<cpc, conf, want, op, wire>>
      PROVE  AskedInv'
  BY <1>1 DEF AskedInv
<1>2. ASSUME NEW c \in Clients, NEW v \in Runs \ {"asked"}, NEW d,
             cpc' = [cpc EXCEPT ![c] = v], wire' = [wire EXCEPT ![c] = d],
             UNCHANGED <<conf, want, op>>
      PROVE  AskedInv'
  <2>1. cpc' \in [Clients -> Runs]
    BY <1>2 DEF AskedInv
  <2>2. wire' = [b \in Clients |-> wire'[b]]
    <3>1. wire = [b \in Clients |-> wire[b]]
      BY DEF AskedInv
    <3> QED  BY <1>2, <3>1
  <2>3. ASSUME NEW b \in Clients, cpc'[b] = "asked"
        PROVE  cpc[b] = "asked" /\ wire'[b] = wire[b]
    BY <1>2, <2>3 DEF AskedInv
  <2> QED  BY <1>2, <2>1, <2>2, <2>3 DEF AskedInv
<1>3. ASSUME NEW c \in Clients, Ask(c)
      PROVE  AskedInv'
  <2>1. PICK rs \in Confs, o \in Operations, w \in Wanted :
          /\ o = "update_all" => w = <<>>
          /\ o = "update" => w # <<>>
          /\ conf' = [conf EXCEPT ![c] = rs]
          /\ want' = [want EXCEPT ![c] = w]
          /\ op' = [op EXCEPT ![c] = o]
          /\ wire' = [wire EXCEPT ![c] = Request(c, o, rs, w)]
    BY <1>3 DEF Ask
  <2>2. cpc' = [cpc EXCEPT ![c] = "asked"]
    BY <1>3 DEF Ask
  <2>3. Says(Request(c, o, rs, w), c, o, rs, w)
    BY SolvAssumption, RequestSays
  <2>4. /\ cpc' \in [Clients -> Runs] /\ op' \in [Clients -> Operations]
        /\ conf' \in [Clients -> Confs \cup {<<>>}]
        /\ want' \in [Clients -> Wanted \cup {<<>>}]
    <3>1. cpc' \in [Clients -> Runs]
      BY <2>2 DEF AskedInv, Runs
    <3>2. op' \in [Clients -> Operations]
      BY <2>1 DEF AskedInv
    <3>3. conf' \in [Clients -> Confs \cup {<<>>}]
      BY <2>1 DEF AskedInv
    <3>4. want' \in [Clients -> Wanted \cup {<<>>}]
      BY <2>1 DEF AskedInv
    <3> QED  BY <3>1, <3>2, <3>3, <3>4
  <2>5. wire' = [b \in Clients |-> wire'[b]]
    <3>1. wire = [b \in Clients |-> wire[b]]
      BY DEF AskedInv
    <3> QED  BY <2>1, <3>1
  <2>6. op'[c] = o /\ want'[c] = w /\ conf'[c] = rs /\ wire'[c] = Request(c, o, rs, w)
    <3>1. op'[c] = o /\ want'[c] = w /\ conf'[c] = rs
      BY <2>1 DEF AskedInv
    <3>2. wire = [b \in Clients |-> wire[b]]
      BY DEF AskedInv
    <3> QED  BY <2>1, <3>1, <3>2
  <2>7. \A b \in Clients \ {c} : /\ op'[b] = op[b] /\ want'[b] = want[b] /\ conf'[b] = conf[b]
                                 /\ wire'[b] = wire[b] /\ cpc'[b] = cpc[b]
    <3> TAKE b \in Clients \ {c}
    <3>1. op'[b] = op[b] /\ want'[b] = want[b] /\ conf'[b] = conf[b] /\ cpc'[b] = cpc[b]
      BY <2>1, <2>2 DEF AskedInv
    <3>2. wire = [e \in Clients |-> wire[e]]
      BY DEF AskedInv
    <3> QED  BY <2>1, <3>1, <3>2
  <2>8. \A b \in Clients : op'[b] = "update_all" => want'[b] = <<>>
    BY <2>1, <2>6, <2>7 DEF AskedInv
  <2>9. \A b \in Clients : cpc'[b] = "asked" => Says(wire'[b], b, op'[b], conf'[b], want'[b])
    BY <2>3, <2>6, <2>7 DEF AskedInv
  <2> QED  BY <2>4, <2>5, <2>8, <2>9 DEF AskedInv
<1>4. ASSUME NEW c \in Clients, ReadAnswer(c)
      PROVE  AskedInv'
  <2>1. PICK v \in {"listed", "told"} : cpc' = [cpc EXCEPT ![c] = v]
    BY <1>4 DEF ReadAnswer
  <2> QED  BY <1>2, <1>4, <2>1 DEF ReadAnswer, Runs
<1>5. ASSUME NEW c \in Clients, Leave(c)
      PROVE  AskedInv'
  <2>1. /\ cpc' = [cpc EXCEPT ![c] = "gone"] /\ conf' = [conf EXCEPT ![c] = <<>>]
        /\ want' = [want EXCEPT ![c] = <<>>] /\ op' = [op EXCEPT ![c] = "install"]
        /\ wire' = wire
    BY <1>5 DEF Leave
  <2>2. cpc' \in [Clients -> Runs] /\ op' \in [Clients -> Operations]
    BY <2>1 DEF AskedInv, Runs, Operations
  <2>3. conf' \in [Clients -> Confs \cup {<<>>}] /\ want' \in [Clients -> Wanted \cup {<<>>}]
    BY <2>1 DEF AskedInv
  <2>4. \A b \in Clients : op'[b] = "update_all" => want'[b] = <<>>
    BY <2>1 DEF AskedInv
  <2>5. \A b \in Clients : cpc'[b] = "asked" => Says(wire'[b], b, op'[b], conf'[b], want'[b])
    BY <2>1 DEF AskedInv
  <2> QED  BY <2>1, <2>2, <2>3, <2>4, <2>5 DEF AskedInv
<1>6. CASE Loses
  BY <1>0, <1>2, <1>6 DEF Loses, Runs
<1>7. CASE Reply
  BY <1>0, <1>2, <1>7 DEF Reply, Runs
<1>8. CASE UNCHANGED vars \/ Serves \/ Restart \/ \E c \in Clients : Take(c)
  BY <1>1, <1>8 DEF vars, clientVars, Serves, Restart, Take
<1> QED  BY <1>3, <1>4, <1>5, <1>6, <1>7, <1>8, StepShapes

LEMMA ServedStart == Init => ServedInv
BY DEF Init, ServedInv, Busy

\* While the server is at a request its client waits, and keeps it.
LEMMA ServedStep ==
  ASSUME AskedInv, ServedInv, [Next]_vars
  PROVE  ServedInv'
<1>1. ASSUME NEW c \in Clients, Ask(c)
      PROVE  ServedInv'
  <2>1. spc = "idle" /\ spc' = "idle" /\ cur' = cur
    BY <1>1 DEF Ask, ServedInv, requestVars
  <2> QED  BY <2>1 DEF ServedInv, Busy
<1>2. ASSUME NEW c \in Clients, ReadAnswer(c)
      PROVE  ServedInv'
  <2>1. UNCHANGED <<spc, cur, req, conf, want, op>>
    BY <1>2 DEF ReadAnswer, requestVars
  <2>2. spc # "idle" => cpc'[cur] = cpc[cur]
    <3>1. spc # "idle" => c # cur
      BY <1>2 DEF ReadAnswer, ServedInv
    <3> QED  BY <1>2, <3>1 DEF ReadAnswer, AskedInv, ServedInv
  <2> QED  BY <2>1, <2>2 DEF ServedInv, Busy
<1>3. ASSUME NEW c \in Clients, Leave(c)
      PROVE  ServedInv'
  BY <1>3 DEF Leave, requestVars, ServedInv, Busy
<1>4. ASSUME NEW c \in Clients, Take(c)
      PROVE  ServedInv'
  BY <1>4 DEF Take, GoTo, clientVars, ServedInv, AskedInv, Busy
<1>5. CASE Serves
  BY <1>5 DEF Serves, ServedInv, Busy
<1>6. CASE Loses
  BY <1>6 DEF Loses, ServedInv, AskedInv, Busy
<1>7. CASE Reply \/ Restart
  BY <1>7 DEF Reply, Restart, GoTo, ServedInv, Busy
<1>8. CASE UNCHANGED vars
  BY <1>8 DEF vars, clientVars, requestVars, ServedInv
<1> QED  BY <1>1, <1>2, <1>3, <1>4, <1>5, <1>6, <1>7, <1>8, StepShapes

\* Behind the reading of a request only its repositories and names are used.
LEMMA GoesOn ==
  ASSUME FoundLocally \/ DownloadStarts \/ Downloaded \/ DownloadFails \/ AddMetadata
           \/ FillSack \/ Query \/ AddJob \/ NotSolved \/ Solved \/ NoLists
  PROVE  spc \in Read /\ UNCHANGED <<names, wild, repos>>
<1> USE DEF Busy, Read, requestVars
<1>1. CASE FoundLocally \/ DownloadStarts
  BY <1>1 DEF FoundLocally, DownloadStarts, Locating
<1>2. CASE Downloaded \/ DownloadFails
  BY <1>2 DEF Downloaded, DownloadFails
<1>3. CASE AddMetadata \/ FillSack
  BY <1>3 DEF AddMetadata, FillSack
<1>4. CASE Query \/ AddJob
  BY <1>4 DEF Query, AddJob
<1>5. CASE NotSolved \/ Solved
  BY <1>5 DEF NotSolved, Solved
<1>6. CASE NoLists
  BY <1>6 DEF NoLists
<1> QED  BY <1>1, <1>2, <1>3, <1>4, <1>5, <1>6

LEMMA ReadStart == Init => ReadInv
BY DEF Init, ReadInv, Busy, Read

LEMMA AskedTypes ==
  ASSUME AskedInv, NEW c \in Clients
  PROVE  conf[c] \in Seq(Repository) /\ want[c] \in Seq(DOMAIN Globs) /\ op[c] \in Operations
<1>1. conf[c] \in Confs \cup {<<>>} /\ want[c] \in Wanted \cup {<<>>} /\ op[c] \in Operations
  BY DEF AskedInv
<1>2. <<>> \in Seq(Repository) /\ <<>> \in Seq(DOMAIN Globs)
  OBVIOUS
<1> QED  BY <1>1, <1>2, SolvAssumption

\* The reader comes to what the writer was given.
LEMMA ReadStep ==
  ASSUME AskedInv, ServedInv, ReadInv, [Next]_vars
  PROVE  ReadInv'
<1>1. ASSUME UNCHANGED <<names, wild, repos, spc, cur, conf, want, op>>
      PROVE  ReadInv'
  <2>1. Meant(cur)' = Meant(cur)
    BY <1>1, MeantSame
  <2> QED  BY <1>1, <2>1 DEF ReadInv
<1>2. ASSUME spc' \notin Busy \ {"packages"}, wild' \in BOOLEAN
      PROVE  ReadInv'
  BY <1>2 DEF ReadInv, Read
<1>3. ASSUME NEW c \in Clients, Ask(c) \/ Leave(c) \/ Take(c)
      PROVE  ReadInv'
  <2>1. spc' \in {"idle", "packages"} /\ wild' = wild
    <3>1. CASE Ask(c)
      BY <3>1 DEF Ask, requestVars, ServedInv
    <3>2. CASE Leave(c) \/ Take(c)
      BY <3>2 DEF Leave, Take, GoTo, requestVars
    <3> QED  BY <1>3, <3>1, <3>2
  <2> QED  BY <1>2, <2>1 DEF Busy, ReadInv
<1>4. ASSUME NEW c \in Clients, ReadAnswer(c)
      PROVE  ReadInv'
  BY <1>1, <1>4 DEF ReadAnswer, requestVars
<1>5. CASE Reply \/ Restart
  BY <1>2, <1>5 DEF Reply, Restart, GoTo, Forget, Busy
<1>6. CASE ReadPackages
  <2>1. Says(req, cur, op[cur], conf[cur], want[cur]) /\ cur \in Clients
    BY <1>6 DEF ReadPackages, ServedInv, Busy
  <2>2. req.code = op[cur] /\ Array(req, "req_pkgs") = want[cur]
    BY <2>1 DEF Says
  <2>3. names' = want[cur] /\ wild' = (op[cur] # "update_all" /\ Len(want[cur]) # 1)
    BY <1>6, <2>1, <2>2 DEF ReadPackages, GetCount, AskedInv
  <2>4. wild' \in BOOLEAN
    BY <2>3
  <2>5. spc' \in {"repos", "crashed"} /\ UNCHANGED <<cur, want, op>>
    BY <1>6 DEF ReadPackages, Crash, GoTo
  <2> QED  BY <2>3, <2>4, <2>5 DEF ReadInv, Busy, Read
<1>7. CASE ReadRepos
  <2>1. Says(req, cur, op[cur], conf[cur], want[cur]) /\ cur \in Clients
    BY <1>7 DEF ReadRepos, ServedInv, Busy
  <2>2. conf[cur] \in Seq(Repository)
    BY <2>1, AskedTypes
  <2>3. UNCHANGED <<names, wild, cur, conf, want, op>>
    BY <1>7 DEF ReadRepos
  <2>4. CASE NullUrl(req)
    <3>1. spc' = "crashed"
      BY <1>7, <2>4 DEF ReadRepos, Crash, GoTo
    <3> QED  BY <2>3, <3>1 DEF ReadInv, Busy, Read
  <2>5. CASE ~NullUrl(req)
    <3>1. spc = "repos" /\ spc' = "locate" /\ repos' = RepoInfo(req)
      BY <1>7, <2>5 DEF ReadRepos, GoTo
    <3>2. RepoInfo(req) = Meant(cur)
      BY <2>1, <2>2, <2>5, NoNullUrl
    <3>3. Meant(cur)' = Meant(cur)
      BY <2>3, MeantSame
    <3> QED  BY <2>3, <3>1, <3>2, <3>3 DEF ReadInv, Busy, Read
  <2> QED  BY <2>4, <2>5
<1>8. CASE Kill
  BY <1>2, <1>8 DEF Kill, GoTo, requestVars, Busy, ReadInv
<1>9. CASE FoundLocally \/ DownloadStarts \/ Downloaded \/ DownloadFails \/ AddMetadata
             \/ FillSack \/ Query \/ AddJob \/ NotSolved \/ Solved \/ NoLists
  <2>1. spc \in Read /\ UNCHANGED <<names, wild, repos>>
    BY <1>9, GoesOn
  <2>2. CASE Serves
    <3>1. UNCHANGED <<cur, conf, want, op>>
      BY <2>2 DEF Serves
    <3>2. Meant(cur)' = Meant(cur)
      BY <3>1, MeantSame
    <3> QED  BY <2>1, <3>1, <3>2 DEF ReadInv, Busy, Read
  <2>3. CASE Loses
    BY <1>2, <2>1, <2>3 DEF Loses, Busy, ReadInv
  <2> QED  BY <1>9, <2>2, <2>3, ServerSteps
<1>10. CASE UNCHANGED vars
  BY <1>1, <1>10 DEF vars, clientVars, requestVars
<1> QED
  BY <1>3, <1>4, <1>5, <1>6, <1>7, <1>8, <1>9, <1>10 DEF Next, ServerStep, Done

\* The server works on what its client asked for: the repositories enabled
\* there, each with the addresses that count, in their order, and the packages
\* of the command line (json_create.c:326, json_read.c:122).
THEOREM RequestsArrive == Spec => []RequestArrives
<1>1. Init => AskedInv /\ ServedInv /\ ReadInv
  BY AskedStart, ServedStart, ReadStart
<1>2. AskedInv /\ ServedInv /\ ReadInv /\ [Next]_vars => (AskedInv /\ ServedInv /\ ReadInv)'
  BY AskedStep, ServedStep, ReadStep
<1>3. AskedInv /\ ServedInv /\ ReadInv => RequestArrives
  BY DEF ServedInv, ReadInv, RequestArrives, Says, Busy, Read
<1> QED  BY <1>1, <1>2, <1>3, PTL DEF Spec

-----------------------------------------------------------------------------
(***************************************************************************)
(* The loop over the repositories, and the types of what it works on.      *)
(***************************************************************************)
LEMMA LoopStart == Init => LoopInv
<1> SUFFICES ASSUME Init PROVE LoopInv
  OBVIOUS
<1>1. repos = <<>> /\ i = 1 /\ meta = <<>> /\ failed = {} /\ spc = "idle"
  BY DEF Init
<1>2. <<>> \in Seq(Local) /\ <<>> \in Seq([name : Ids, repo : Url])
  OBVIOUS
<1>3. i \in 1..(Len(repos) + 1)
  BY <1>1
<1> QED  BY <1>1, <1>2, <1>3 DEF LoopInv

\* The metadata of a repository is named as the client said.
LEMMA HereIs ==
  ASSUME LoopInv, i <= Len(repos)
  PROVE  /\ i \in 1..Len(repos) /\ repos[i] \in Local /\ Folder(i) \in Ids
         /\ repos[i].urls[1] \in Url
         /\ \A url \in ToSet(repos[i].urls) : url \in Url
<1>1. i \in 1..Len(repos) /\ repos[i] \in Local
  BY DEF LoopInv
<1>2. repos[i].name \in Ids /\ repos[i].urls \in Seq(Url) /\ repos[i].urls # <<>>
  BY <1>1 DEF Local
<1>3. repos[i].urls[1] \in Url
  <2> DEFINE s == repos[i].urls
  <2>1. s \in Seq(Url) /\ s # <<>>
    BY <1>2
  <2> HIDE DEF s
  <2>2. s[1] \in Url
    BY <2>1
  <2> QED  BY <2>2 DEF s
<1>4. \A url \in ToSet(repos[i].urls) : url \in Url
  BY <1>2 DEF ToSet
<1> QED  BY <1>1, <1>2, <1>3, <1>4 DEF Folder

LEMMA LoopStep ==
  ASSUME AskedInv, ServedInv, LoopInv, [Next]_vars
  PROVE  LoopInv'
<1>1. ASSUME UNCHANGED <<repos, i, meta, failed>>, spc' = spc
      PROVE  LoopInv'
  BY <1>1 DEF LoopInv
<1>2. ASSUME NEW c \in Clients, Ask(c) \/ ReadAnswer(c) \/ Leave(c)
      PROVE  LoopInv'
  <2>1. CASE Ask(c)
    BY <1>1, <2>1 DEF Ask, requestVars
  <2>2. CASE ReadAnswer(c)
    BY <1>1, <2>2 DEF ReadAnswer, requestVars, historyVars
  <2>3. CASE Leave(c)
    BY <1>1, <2>3 DEF Leave, requestVars
  <2> QED  BY <1>2, <2>1, <2>2, <2>3
<1>3. ASSUME NEW c \in Clients, Take(c)
      PROVE  LoopInv'
  BY <1>3 DEF Take, GoTo, historyVars, LoopInv
<1>4. CASE ReadPackages
  <2>1. spc = "packages" /\ spc' \in {"repos", "crashed"}
        /\ UNCHANGED <<repos, i, meta, failed>>
    BY <1>4 DEF ReadPackages, Crash, GoTo, historyVars
  <2> QED  BY <2>1 DEF LoopInv
<1>5. CASE ReadRepos
  <2>1. spc = "repos" /\ UNCHANGED <<i, meta, failed>> /\ i = 1
    BY <1>5 DEF ReadRepos, historyVars, LoopInv
  <2>2. CASE NullUrl(req)
    <3>1. spc' = "crashed" /\ repos' = repos
      BY <1>5, <2>2 DEF ReadRepos, Crash, GoTo
    <3> QED  BY <2>1, <3>1 DEF LoopInv
  <2>3. CASE ~NullUrl(req)
    <3>1. spc' = "locate" /\ repos' = RepoInfo(req)
      BY <1>5, <2>3 DEF ReadRepos, GoTo
    <3>2. Says(req, cur, op[cur], conf[cur], want[cur]) /\ cur \in Clients
      BY <2>1 DEF ServedInv, Busy
    <3>3. conf[cur] \in Seq(Repository)
      BY <3>2, AskedTypes
    <3>4. RepoInfo(req) \in Seq(Local)
      BY <2>3, <3>2, <3>3, NoNullUrl
    <3>5. repos' \in Seq(Local) /\ i' \in 1..(Len(repos') + 1)
      <4>1. repos' \in Seq(Local)
        BY <3>1, <3>4
      <4>2. Len(repos') \in Nat
        BY <4>1
      <4> QED  BY <2>1, <4>1, <4>2
    <3> QED  BY <2>1, <3>1, <3>5 DEF LoopInv
  <2> QED  BY <2>2, <2>3
<1>6. ASSUME meta' = Append(meta, MetaOf(i)), i <= Len(repos)
      PROVE  meta' \in Seq([name : Ids, repo : Url])
  <2>1. repos[i].name \in Ids /\ repos[i].urls[1] \in Url
    BY <1>6, HereIs DEF Folder
  <2>2. MetaOf(i) \in [name : Ids, repo : Url]
    BY <2>1 DEF MetaOf
  <2>3. meta \in Seq([name : Ids, repo : Url])
    BY DEF LoopInv
  <2> QED  BY <1>6, <2>2, <2>3
<1>7. ASSUME i <= Len(repos), i' = i + 1, repos' = repos
      PROVE  i' \in 1..(Len(repos') + 1)
  <2>1. Len(repos) \in Nat /\ i \in 1..(Len(repos) + 1)
    BY DEF LoopInv
  <2> QED  BY <1>7, <2>1
<1>8. CASE FoundLocally \/ Downloaded
  <2>1. /\ spc \in {"locate", "download"} /\ spc' = "found" /\ i <= Len(repos)
        /\ UNCHANGED <<repos, i, meta, failed>>
    BY <1>8 DEF FoundLocally, Downloaded, Locating, LoopInv, GoTo, requestVars, historyVars
  <2> QED  BY <2>1 DEF LoopInv
<1>9. CASE DownloadStarts
  <2>1. spc = "locate" /\ spc' \in {"download", "crashed"} /\ i <= Len(repos)
        /\ UNCHANGED <<repos, i, meta, failed>>
    BY <1>9 DEF DownloadStarts, Locating, Crash, GoTo, requestVars, historyVars
  <2> QED  BY <2>1 DEF LoopInv
<1>10. CASE AddMetadata
  <2>1. spc = "found" /\ i <= Len(repos) /\ repos' = repos /\ failed' = failed
    BY <1>10 DEF AddMetadata, LoopInv, historyVars
  <2>2. CASE spc' = "crashed"
    <3>1. UNCHANGED <<meta, i>>
      BY <1>10, <2>2 DEF AddMetadata, GoTo
    <3> QED  BY <2>1, <2>2, <3>1 DEF LoopInv
  <2>3. CASE spc' # "crashed"
    <3>1. spc' = "locate" /\ i' = i + 1 /\ meta' = Append(meta, MetaOf(i))
      BY <1>10, <2>3 DEF AddMetadata, Crash, GoTo, MetaOf, Folder
    <3> QED  BY <1>6, <1>7, <2>1, <3>1 DEF LoopInv
  <2> QED  BY <2>2, <2>3
<1>11. CASE DownloadFails
  <2>1. spc = "download" /\ i <= Len(repos)
    BY <1>11 DEF DownloadFails, LoopInv
  <2>2. spc' = "locate" /\ i' = i + 1 /\ repos' = repos /\ meta' = meta
    BY <1>11 DEF DownloadFails, GoTo
  <2> QED  BY <1>7, <2>1, <2>2 DEF LoopInv
<1>12. CASE FillSack
  <2>1. spc = "locate" /\ spc' = "query" /\ i > Len(repos) /\ UNCHANGED <<repos, i, meta>>
    BY <1>12 DEF FillSack, GoTo
  <2>2. Len(repos) \in Nat /\ i \in 1..(Len(repos) + 1)
    BY DEF LoopInv
  <2>3. i = Len(repos) + 1
    BY <2>1, <2>2
  <2> QED  BY <2>1, <2>3 DEF LoopInv
<1>13. CASE Query \/ AddJob \/ NotSolved \/ Solved \/ NoLists
  <2>1. /\ spc \in {"query", "solve"} /\ spc' \in {"solve", "reply", "crashed"}
        /\ UNCHANGED <<repos, i, meta>>
    <3>1. CASE Query \/ AddJob
      BY <3>1 DEF Query, AddJob, Crash, GoTo
    <3>2. CASE NotSolved \/ Solved
      BY <3>2 DEF NotSolved, Solved, GoTo
    <3>3. CASE NoLists
      BY <3>3 DEF NoLists, Crash, GoTo
    <3> QED  BY <1>13, <3>1, <3>2, <3>3
  <2> QED  BY <2>1 DEF LoopInv
<1>14. CASE Reply \/ Restart
  <2>1. repos' = <<>> /\ i' = 1 /\ meta' = <<>> /\ failed' = {} /\ spc' = "idle"
    BY <1>14 DEF Reply, Restart, Forget, GoTo
  <2>2. <<>> \in Seq(Local) /\ <<>> \in Seq([name : Ids, repo : Url])
    OBVIOUS
  <2>3. i' \in 1..(Len(repos') + 1)
    BY <2>1
  <2> QED  BY <2>1, <2>2, <2>3 DEF LoopInv
<1>15. CASE Kill
  <2>1. spc' = "down" /\ UNCHANGED <<repos, i, meta>>
    BY <1>15 DEF Kill, GoTo, requestVars
  <2> QED  BY <2>1 DEF LoopInv
<1>16. CASE UNCHANGED vars
  BY <1>1, <1>16 DEF vars, requestVars, historyVars
<1> QED
  BY <1>2, <1>3, <1>4, <1>5, <1>8, <1>9, <1>10, <1>11, <1>12, <1>13, <1>14, <1>15, <1>16
     DEF Next, ServerStep, Done

LEMMA CacheStart == Init => CacheInv
BY DEF Init, CacheInv

\* Nothing but the loop touches the cache and what was found there.
LEMMA ElsewhereFinds ==
  ASSUME Elsewhere, [Next]_vars, ~FoundLocally, ~DownloadStarts, ~Downloaded, ~DownloadFails,
         ~AddMetadata
  PROVE  meta' = meta \/ meta' = <<>>
<1>1. ASSUME NEW c \in Clients, Ask(c) \/ ReadAnswer(c) \/ Leave(c) \/ Take(c)
      PROVE  meta' = meta
  BY <1>1 DEF Ask, ReadAnswer, Leave, Take, requestVars
<1>2. CASE ReadPackages \/ ReadRepos
  BY <1>2 DEF ReadPackages, ReadRepos
<1>3. CASE FillSack \/ Query
  BY <1>3 DEF FillSack, Query
<1>4. CASE AddJob \/ NotSolved
  BY <1>4 DEF AddJob, NotSolved
<1>5. CASE Solved \/ NoLists
  BY <1>5 DEF Solved, NoLists
<1>6. CASE Reply \/ Restart
  BY <1>6 DEF Reply, Restart, Forget
<1>7. CASE Kill \/ UNCHANGED vars
  BY <1>7 DEF Kill, vars, requestVars
<1> QED  BY <1>1, <1>2, <1>3, <1>4, <1>5, <1>6, <1>7 DEF Next, ServerStep, Done

LEMMA CacheStep ==
  ASSUME LoopInv, CacheInv, [Next]_vars
  PROVE  CacheInv'
<1> DEFINE Known == [url : Url, state : {"cut", "whole"}]
<1>0. /\ cache \in [Ids -> {NoMeta} \cup Known]
      /\ \A k \in 1..Len(meta) : cache[meta[k].name] # NoMeta
      /\ \A k \in 1..Len(meta) : meta[k].name \in Ids
  <2>1. meta \in Seq([name : Ids, repo : Url])
    BY DEF LoopInv
  <2>2. \A k \in 1..Len(meta) : meta[k].name \in Ids
    <3> DEFINE M == [name : Ids, repo : Url]
    <3>1. \A m \in M : m.name \in Ids
      OBVIOUS
    <3> HIDE DEF M
    <3>2. meta \in Seq(M)
      BY <2>1 DEF M
    <3> QED  BY <3>1, <3>2
  <2>3. /\ cache \in [Ids -> {NoMeta} \cup Known]
        /\ \A k \in 1..Len(meta) : cache[meta[k].name] # NoMeta
    BY DEF CacheInv
  <2> QED  BY <2>2, <2>3
<1>00. NoMeta \notin Known /\ NoMeta.state = "none"
  BY DEF NoMeta
<1>1. ASSUME meta' = Append(meta, MetaOf(i)), cache'[Folder(i)] # NoMeta,
             \A k \in 1..Len(meta) : cache'[meta[k].name] # NoMeta
      PROVE  \A k \in 1..Len(meta') : cache'[meta'[k].name] # NoMeta
  <2>1. meta \in Seq([name : Ids, repo : Url])
    BY DEF LoopInv
  <2>3. ASSUME NEW k \in 1..Len(meta')
        PROVE  meta'[k].name = Folder(i) \/ (k \in 1..Len(meta) /\ meta'[k] = meta[k])
    <3> DEFINE new == MetaOf(i)
    <3>1. new.name = Folder(i)
      BY DEF MetaOf, Folder
    <3> HIDE DEF new
    <3>2. meta' = Append(meta, new) /\ Len(meta) \in Nat
      BY <1>1, <2>1 DEF new
    <3>3. Len(meta') = Len(meta) + 1 /\ k \in 1..(Len(meta) + 1)
      BY <2>1, <3>2
    <3>4. meta'[k] = IF k <= Len(meta) THEN meta[k] ELSE new
      BY <2>1, <3>2, <3>3
    <3> QED  BY <3>1, <3>2, <3>3, <3>4
  <2> QED  BY <1>1, <2>3
<1>2. CASE FoundLocally
  <2>1. /\ spc' = "found" /\ cache' = cache /\ cache[Folder(i)] # NoMeta
        /\ UNCHANGED <<i, repos, meta>>
    BY <1>00, <1>2 DEF FoundLocally, Locating, GoTo, requestVars
  <2> QED  BY <1>0, <2>1 DEF CacheInv, Folder
<1>3. CASE DownloadStarts
  <2>1. i <= Len(repos) /\ UNCHANGED <<i, repos, meta>>
    BY <1>3 DEF DownloadStarts, Locating, requestVars
  <2>2. CASE UNCHANGED cache /\ spc' = "crashed"
    BY <2>1, <2>2 DEF CacheInv
  <2>3. CASE ~(UNCHANGED cache /\ spc' = "crashed")
    <3>1. PICK url \in ToSet(repos[i].urls) :
            cache' = [cache EXCEPT ![Folder(i)] = [url |-> url, state |-> "cut"]]
      BY <1>3, <2>3 DEF DownloadStarts, Crash, GoTo
    <3>2. Folder(i) \in Ids /\ url \in Url /\ Folder(i)' = Folder(i)
      BY <2>1, HereIs DEF Folder
    <3> DEFINE new == [url |-> url, state |-> "cut"]
    <3>3. new \in Known /\ new # NoMeta /\ new.state = "cut"
      BY <1>00, <3>2
    <3> HIDE DEF new, Known
    <3>4. cache' = [cache EXCEPT ![Folder(i)] = new]
      BY <3>1 DEF new
    <3>5. cache' \in [Ids -> {NoMeta} \cup Known]
      BY <1>0, <3>3, <3>4
    <3>6. cache'[Folder(i)] = new
      BY <1>0, <3>2, <3>4
    <3>7. \A k \in 1..Len(meta) : cache'[meta[k].name] # NoMeta
      BY <1>0, <3>3, <3>4
    <3>8. cache'[Folder(i)'].state = "cut"
      BY <3>2, <3>3, <3>6
    <3>9. spc' = "download"
      BY <1>3, <2>3 DEF DownloadStarts, Crash, GoTo
    <3> QED  BY <2>1, <3>5, <3>7, <3>8, <3>9 DEF CacheInv, Known
  <2> QED  BY <2>2, <2>3
<1>4. CASE Downloaded
  <2>1. i <= Len(repos) /\ cache[Folder(i)].state = "cut"
    BY <1>4 DEF Downloaded, LoopInv, CacheInv
  <2>2. Folder(i) \in Ids
    BY <2>1, HereIs
  <2>3. cache[Folder(i)] \in Known
    BY <1>0, <1>00, <2>1, <2>2
  <2> DEFINE new == [cache[Folder(i)] EXCEPT !.state = "whole"]
  <2>4. new \in Known /\ new # NoMeta
    <3>1. new \in Known
      BY <2>3
    <3> QED  BY <1>00, <3>1
  <2>5. cache' = [cache EXCEPT ![Folder(i)] = new]
    BY <1>4 DEF Downloaded
  <2>6. spc' = "found" /\ UNCHANGED <<i, repos, meta>>
    BY <1>4 DEF Downloaded, GoTo, requestVars
  <2> HIDE DEF new, Known
  <2>7. cache' \in [Ids -> {NoMeta} \cup Known]
    BY <1>0, <2>4, <2>5
  <2>8. cache'[Folder(i)] # NoMeta /\ \A k \in 1..Len(meta) : cache'[meta[k].name] # NoMeta
    BY <1>0, <2>2, <2>4, <2>5
  <2>9. Folder(i)' = Folder(i)
    BY <2>6 DEF Folder
  <2> QED  BY <2>6, <2>7, <2>8, <2>9 DEF CacheInv, Known
<1>5. CASE DownloadFails
  <2>1. cache' = cache /\ meta' = meta /\ spc' = "locate"
    BY <1>5 DEF DownloadFails, GoTo
  <2> QED  BY <2>1 DEF CacheInv
<1>6. CASE AddMetadata
  <2>1. cache' = cache /\ spc = "found" /\ cache[Folder(i)] # NoMeta
    BY <1>6 DEF AddMetadata, CacheInv
  <2>2. CASE spc' = "crashed"
    <3>1. meta' = meta
      BY <1>6, <2>2 DEF AddMetadata, GoTo
    <3> QED  BY <1>0, <2>1, <2>2, <3>1 DEF CacheInv
  <2>3. CASE spc' # "crashed"
    <3>1. spc' = "locate" /\ meta' = Append(meta, MetaOf(i))
      BY <1>6, <2>3 DEF AddMetadata, Crash, GoTo, MetaOf, Folder
    <3>2. \A k \in 1..Len(meta') : cache'[meta'[k].name] # NoMeta
      BY <1>0, <1>1, <2>1, <3>1
    <3> QED  BY <1>0, <2>1, <3>1, <3>2 DEF CacheInv
  <2> QED  BY <2>2, <2>3
<1>7. CASE ~FoundLocally /\ ~DownloadStarts /\ ~Downloaded /\ ~DownloadFails /\ ~AddMetadata
  <2>1. Elsewhere
    BY <1>7, StepKinds
  <2>2. meta' = meta \/ meta' = <<>>
    BY <1>7, <2>1, ElsewhereFinds
  <2>3. cache' = cache /\ (spc' \in {"download", "found"} => UNCHANGED <<spc, repos, i>>)
    BY <2>1 DEF Elsewhere
  <2>4. spc' = "download" => cache'[Folder(i)'].state = "cut"
    BY <2>3 DEF CacheInv, Folder
  <2>5. \A k \in 1..Len(meta') : cache'[meta'[k].name] # NoMeta
    BY <1>0, <2>2, <2>3
  <2>6. spc' = "found" => cache'[Folder(i)'] # NoMeta
    BY <2>3 DEF CacheInv, Folder
  <2> QED  BY <1>0, <2>3, <2>4, <2>5, <2>6 DEF CacheInv
<1> QED  BY <1>2, <1>3, <1>4, <1>5, <1>6, <1>7

LEMMA TurnStart == Init => TurnInv
BY SolvAssumption DEF Init, TurnInv

LEMMA TurnStep ==
  ASSUME ServedInv, TurnInv, [Next]_vars
  PROVE  TurnInv'
<1>1. ASSUME UNCHANGED <<fault, kills>> PROVE TurnInv'
  BY <1>1 DEF TurnInv
<1>2. ASSUME NEW c \in Clients, Ask(c) \/ ReadAnswer(c) \/ Leave(c) \/ Take(c)
      PROVE  TurnInv'
  BY <1>1, <1>2 DEF Ask, ReadAnswer, Leave, Take
<1>3. CASE Serves
  BY <1>1, <1>3 DEF Serves
<1>4. CASE Loses /\ ~Kill
  <2>1. ASSUME Crash, kills' = kills,
               spc \in {"packages", "repos", "locate", "found", "query", "solve"}
        PROVE  TurnInv'
    BY <2>1 DEF Crash, TurnInv
  <2>2. spc' \in {"crashed", "down"}
    BY <1>4 DEF Loses
  <2>3. CASE ReadPackages
    BY <2>1, <2>2, <2>3 DEF ReadPackages, GoTo
  <2>4. CASE ReadRepos
    BY <2>1, <2>2, <2>4 DEF ReadRepos, GoTo
  <2>5. CASE DownloadStarts
    BY <2>1, <2>2, <2>5 DEF DownloadStarts, Locating, GoTo
  <2>6. CASE Query
    BY <2>1, <2>2, <2>6 DEF Query, GoTo
  <2>7. CASE NoLists
    BY <2>1, <2>2, <2>7 DEF NoLists, GoTo
  <2>8. CASE FoundLocally \/ Downloaded \/ DownloadFails \/ FillSack \/ AddJob \/ NotSolved
               \/ Solved \/ Reply \/ Restart \/ UNCHANGED vars
    <3>1. spc' \notin {"crashed", "down"} \/ spc' = spc
      BY <2>8 DEF FoundLocally, Locating, Downloaded, DownloadFails, FillSack, AddJob, NotSolved,
                  Solved, Reply, Restart, GoTo, vars
    <3> QED  BY <1>4, <3>1 DEF Loses, Busy
  <2>9. CASE AddMetadata
    BY <2>1, <2>2, <2>9 DEF AddMetadata, GoTo
  <2> QED
    BY <1>2, <1>4, <2>3, <2>4, <2>5, <2>6, <2>7, <2>8, <2>9 DEF Next, ServerStep, Done
<1>5. CASE Kill
  <2>1. kills < MaxKills /\ kills' = kills + 1 /\ fault' = fault
    BY <1>5 DEF Kill
  <2> QED  BY <2>1, SolvAssumption DEF TurnInv
<1>6. CASE Reply \/ Restart
  BY <1>6 DEF Reply, Restart, TurnInv
<1>7. CASE UNCHANGED vars
  BY <1>1, <1>7 DEF vars
<1> QED  BY <1>2, <1>3, <1>4, <1>5, <1>6, <1>7, StepShapes

\* Every variable of the server and the clients stays in its type, whatever
\* is asked, found, killed or crashes (client.c:188, server.c:218).
THEOREM SolvingTypes == Spec => []SolvTypeOK
<1> DEFINE Inv == AskedInv /\ ServedInv /\ ReadInv /\ LoopInv /\ CacheInv /\ TurnInv
<1>1. Init => Inv
  BY AskedStart, ServedStart, ReadStart, LoopStart, CacheStart, TurnStart
<1>2. Inv /\ [Next]_vars => Inv'
  BY AskedStep, ServedStep, ReadStep, LoopStep, CacheStep, TurnStep
<1>3. Inv => SolvTypeOK
  <2> SUFFICES ASSUME Inv PROVE SolvTypeOK
    OBVIOUS
  <2>1. \A c \in Clients : cpc[c] \in Runs
    BY DEF AskedInv
  <2>2. \A c \in Clients : op[c] \in Operations /\ conf[c] \in Confs \cup {<<>>}
    BY DEF AskedInv
  <2>3. spc \in Busy \cup {"idle", "crashed", "down"} /\ cur \in Clients
    BY DEF ServedInv
  <2>4. fault \in {"none", "packages", "repos", "locate", "found", "query", "solve"}
        /\ kills \in 0..MaxKills
    BY DEF TurnInv
  <2>5. wild \in BOOLEAN
    BY DEF ReadInv
  <2>6. i \in 1..(Len(repos) + 1)
    BY DEF LoopInv
  <2>7. \A j \in 1..Len(repos) : repos[j].type \in 1..3
    <3>1. \A r \in Local : r.type \in 1..3
      BY DEF Local
    <3>2. repos \in Seq(Local)
      BY DEF LoopInv
    <3> QED  BY <3>1, <3>2
  <2>8. \A name \in DOMAIN cache :
          cache[name] = NoMeta \/ cache[name] \in [url : Url, state : {"cut", "whole"}]
    BY DEF CacheInv
  <2> HIDE DEF Inv
  <2> QED
    BY <2>1, <2>2, <2>3, <2>4, <2>5, <2>6, <2>7, <2>8 DEF SolvTypeOK, Runs, Busy
<1> QED  BY <1>1, <1>2, <1>3, PTL DEF Spec

-----------------------------------------------------------------------------
(***************************************************************************)
(* What a request is solved with.                                          *)
(***************************************************************************)
LEMMA FoundStart == Init => FoundInv
BY DEF Init, FoundInv

\* The steps that do not go on in the loop leave what was found, or forget it.
LEMMA OutsideLoop ==
  ASSUME LoopInv, [Next]_vars, ~AddMetadata, ~DownloadFails
  PROVE  \/ i' = 1
         \/ UNCHANGED <<i, repos, meta, failed>>
<1>1. ASSUME NEW c \in Clients, Ask(c) \/ ReadAnswer(c) \/ Leave(c) \/ Take(c)
      PROVE  UNCHANGED <<i, repos, meta, failed>>
  BY <1>1 DEF Ask, ReadAnswer, Leave, Take, requestVars, historyVars
<1>2. CASE ReadPackages
  BY <1>2 DEF ReadPackages, historyVars
<1>3. CASE ReadRepos
  BY <1>3 DEF ReadRepos, LoopInv
<1>4. CASE FoundLocally \/ DownloadStarts \/ Downloaded
  BY <1>4 DEF FoundLocally, DownloadStarts, Downloaded, requestVars, historyVars
<1>5. CASE FillSack \/ Query
  BY <1>5 DEF FillSack, Query, historyVars
<1>6. CASE AddJob \/ NotSolved
  BY <1>6 DEF AddJob, NotSolved, historyVars
<1>7. CASE Solved \/ NoLists
  BY <1>7 DEF Solved, NoLists, historyVars
<1>8. CASE Reply \/ Restart
  BY <1>8 DEF Reply, Restart, Forget
<1>9. CASE Kill \/ UNCHANGED vars
  BY <1>9 DEF Kill, vars, requestVars, historyVars
<1> QED  BY <1>1, <1>2, <1>3, <1>4, <1>5, <1>6, <1>7, <1>8, <1>9 DEF Next, ServerStep, Done

\* A repository that is passed has failed or is in the list of metadata.
LEMMA FoundStep ==
  ASSUME LoopInv, FoundInv, [Next]_vars
  PROVE  FoundInv'
<1>0. i \in Nat /\ i >= 1
  <2>1. repos \in Seq(Local)
    BY DEF LoopInv
  <2>2. Len(repos) \in Nat
    BY <2>1
  <2> QED  BY <2>2 DEF LoopInv
<1>1. ASSUME meta' = Append(meta, MetaOf(i)), i' = i + 1, UNCHANGED <<repos, failed>>
      PROVE  FoundInv'
  <2> DEFINE new == MetaOf(i)
  <2>1. \A j : MetaOf(j)' = MetaOf(j)
    BY <1>1 DEF MetaOf
  <2>2. meta \in Seq([name : Ids, repo : Url]) /\ meta' = Append(meta, new)
    BY <1>1 DEF LoopInv
  <2> HIDE DEF new
  <2>3. /\ Len(meta) \in Nat /\ Len(meta') = Len(meta) + 1 /\ meta'[Len(meta) + 1] = new
        /\ \A k \in 1..Len(meta) : meta'[k] = meta[k] /\ k \in 1..Len(meta')
    BY <2>2
  <2>4. ASSUME NEW j \in 1..(i' - 1)
        PROVE  j \in failed' \/ \E k \in 1..Len(meta') : meta'[k] = MetaOf(j)
    <3>1. CASE j = i
      <4>1. Len(meta) + 1 \in 1..Len(meta')
        BY <2>3
      <4> QED  BY <2>3, <3>1, <4>1 DEF new
    <3>2. CASE j # i
      <4>1. j \in 1..(i - 1)
        BY <1>0, <1>1, <3>2
      <4>2. CASE j \in failed
        BY <1>1, <4>2
      <4>3. CASE j \notin failed
        <5>1. PICK k \in 1..Len(meta) : meta[k] = MetaOf(j)
          BY <4>1, <4>3 DEF FoundInv
        <5> QED  BY <2>3, <5>1
      <4> QED  BY <4>2, <4>3
    <3> QED  BY <3>1, <3>2
  <2> QED  BY <2>1, <2>4 DEF FoundInv
<1>2. CASE AddMetadata
  <2>1. CASE spc' = "crashed"
    <3>1. UNCHANGED <<i, repos, meta, failed>>
      BY <1>2, <2>1 DEF AddMetadata, GoTo, historyVars
    <3> QED  BY <3>1 DEF FoundInv, MetaOf
  <2>2. CASE spc' # "crashed"
    <3>1. meta' = Append(meta, MetaOf(i)) /\ i' = i + 1 /\ UNCHANGED <<repos, failed>>
      BY <1>2, <2>2 DEF AddMetadata, Crash, GoTo, MetaOf, Folder, historyVars
    <3> QED  BY <1>1, <3>1
  <2> QED  BY <2>1, <2>2
<1>3. CASE DownloadFails
  <2>1. failed' = failed \cup {i} /\ i' = i + 1 /\ UNCHANGED <<repos, meta>>
    BY <1>3 DEF DownloadFails
  <2>2. ASSUME NEW j \in 1..(i' - 1)
        PROVE  j \in failed' \/ j \in 1..(i - 1)
    BY <1>0, <2>1, <2>2
  <2>3. \A j : MetaOf(j)' = MetaOf(j)
    BY <2>1 DEF MetaOf
  <2> QED  BY <2>1, <2>2, <2>3 DEF FoundInv
<1>4. CASE i' = 1
  BY <1>4 DEF FoundInv
<1>5. CASE UNCHANGED <<i, repos, meta, failed>>
  BY <1>5 DEF FoundInv, MetaOf
<1> QED  BY <1>2, <1>3, <1>4, <1>5, OutsideLoop

\* The sack is filled from all that was found whole.
LEMMA SackStep ==
  ASSUME ServedInv, LoopInv, FoundInv, SackIsComplete, [Next]_vars
  PROVE  SackIsComplete'
<1>1. ASSUME UNCHANGED <<spc, repos, cache, failed, sack>>
      PROVE  SackIsComplete'
  BY <1>1 DEF SackIsComplete
<1>2. ASSUME spc' \notin {"query", "solve", "reply"} PROVE SackIsComplete'
  BY <1>2 DEF SackIsComplete
<1>3. ASSUME NEW c \in Clients, Ask(c) \/ ReadAnswer(c) \/ Leave(c) \/ Take(c)
      PROVE  SackIsComplete'
  <2>1. CASE Ask(c)
    BY <1>1, <2>1 DEF Ask, requestVars
  <2>2. CASE ReadAnswer(c)
    BY <1>1, <2>2 DEF ReadAnswer, requestVars, historyVars
  <2>3. CASE Leave(c)
    BY <1>1, <2>3 DEF Leave, requestVars
  <2>4. CASE Take(c)
    BY <1>2, <2>4 DEF Take, GoTo
  <2> QED  BY <1>3, <2>1, <2>2, <2>3, <2>4
<1>4. CASE ReadPackages \/ ReadRepos \/ FoundLocally \/ DownloadStarts
  <2>1. spc' \in {"repos", "locate", "download", "found", "crashed"}
    BY <1>4 DEF ReadPackages, ReadRepos, FoundLocally, DownloadStarts, Locating, Crash, GoTo
  <2> QED  BY <1>2, <2>1
<1>5. CASE Downloaded \/ DownloadFails \/ AddMetadata \/ Reply \/ Restart \/ Kill
  <2>1. spc' \in {"found", "locate", "crashed", "idle", "down"}
    BY <1>5 DEF Downloaded, DownloadFails, AddMetadata, Reply, Restart, Kill, Crash, GoTo
  <2> QED  BY <1>2, <2>1
<1>6. CASE Query \/ AddJob \/ NotSolved \/ Solved \/ NoLists
  <2>1. UNCHANGED <<repos, cache, failed, sack>> /\ spc \in {"query", "solve"}
    <3>1. CASE Query \/ AddJob
      BY <3>1 DEF Query, AddJob, historyVars
    <3>2. CASE NotSolved \/ Solved
      BY <3>2 DEF NotSolved, Solved, historyVars
    <3>3. CASE NoLists
      BY <3>3 DEF NoLists, historyVars
    <3> QED  BY <1>6, <3>1, <3>2, <3>3
  <2> QED  BY <2>1 DEF SackIsComplete
<1>7. CASE FillSack
  <2>1. PICK part \in [FirstLoaded..Len(meta) -> SUBSET Names] :
          /\ \A j \in FirstLoaded..Len(meta) :
               LET url == cache[meta[j].name].url
               IN IF cache[meta[j].name].state = "whole"
                  THEN part[j] = Published[url.text] ELSE part[j] \subseteq Published[url.text]
          /\ sack' = Own \cup UNION {Packages(meta[j], part[j]) : j \in FirstLoaded..Len(meta)}
    BY <1>7 DEF FillSack
  <2>2. i > Len(repos) /\ UNCHANGED <<repos, cache, failed>>
    BY <1>7 DEF FillSack, historyVars
  <2>3. ASSUME NEW j \in 1..Len(repos), j \notin failed,
               cache[repos[j].name].state = "whole",
               NEW n \in Published[cache[repos[j].name].url.text]
        PROVE  \E p \in sack' : /\ p.name = n /\ p.release = cache[repos[j].name].url.release
                                /\ p.repo = repos[j].urls[1]
    <3>1. j \in 1..(i - 1)
      <4>1. Len(repos) \in Nat /\ i \in 1..(Len(repos) + 1)
        <5>1. repos \in Seq(Local)
          BY DEF LoopInv
        <5> QED  BY <5>1 DEF LoopInv
      <4> QED  BY <2>2, <4>1
    <3>2. PICK k \in 1..Len(meta) : meta[k] = MetaOf(j)
      BY <2>3, <3>1 DEF FoundInv
    <3>3. meta[k].name = repos[j].name /\ meta[k].repo = repos[j].urls[1]
      BY <3>2 DEF MetaOf
    <3>4. part[k] = Published[cache[meta[k].name].url.text]
      BY <2>1, <2>3, <3>3 DEF FirstLoaded
    <3> DEFINE p == [name |-> n, release |-> cache[meta[k].name].url.release,
                     repo |-> meta[k].repo,
                     base |-> IF n \in WithBase THEN cache[meta[k].name].url ELSE NoUrl]
    <3>5. p \in Packages(meta[k], part[k])
      BY <2>3, <3>3, <3>4 DEF Packages
    <3>6. /\ p.name = n /\ p.release = cache[repos[j].name].url.release
          /\ p.repo = repos[j].urls[1]
      BY <3>3
    <3> HIDE DEF p
    <3>7. p \in sack'
      BY <2>1, <3>5 DEF FirstLoaded
    <3> QED  BY <3>6, <3>7
  <2> QED  BY <2>2, <2>3 DEF SackIsComplete
<1>8. CASE UNCHANGED vars
  BY <1>1, <1>8 DEF vars, requestVars, historyVars
<1> QED  BY <1>3, <1>4, <1>5, <1>6, <1>7, <1>8 DEF Next, ServerStep, Done

\* What a request is solved with has, under the address that its client sent
\* first for it, every package behind each of its repositories, unless the
\* download failed in this request, the files are known to be cut, or what is
\* kept under the name of the repository is from an address this client did not
\* send (repo_metadata.c:39, :55, solving.c:39).
THEOREM SacksAreComplete == Spec => []SackIsComplete
<1> DEFINE Inv == AskedInv /\ ServedInv /\ LoopInv /\ FoundInv /\ SackIsComplete
<1>1. Init => Inv
  <2>1. Init => SackIsComplete
    BY DEF Init, SackIsComplete
  <2> QED  BY <2>1, AskedStart, ServedStart, LoopStart, FoundStart
<1>2. Inv /\ [Next]_vars => Inv'
  BY AskedStep, ServedStep, LoopStep, FoundStep, SackStep
<1>3. Inv => SackIsComplete
  OBVIOUS
<1> QED  BY <1>1, <1>2, <1>3, PTL DEF Spec

-----------------------------------------------------------------------------
(***************************************************************************)
(* Sets of packages are finite, and something in them is the latest.       *)
(***************************************************************************)
LEMMA MaxExists ==
  ASSUME NEW R, IsFiniteSet(R), R \subseteq Nat, R # {}
  PROVE  \E m \in R : \A x \in R : x <= m
<1> DEFINE n == Cardinality(R)
<1>1. n \in Nat /\ ExistsBijection(1..n, R)
  BY FS_CardinalityType
<1>2. PICK f \in Bijection(1..n, R) : TRUE
  BY <1>1 DEF ExistsBijection
<1>3. f \in [1..n -> R] /\ \A x \in R : \E k \in 1..n : f[k] = x
  BY <1>2 DEF Bijection, Injection, Surjection
<1> HIDE DEF n
<1> DEFINE T == {k \in 0..n : \E b \in Nat : \A j \in 1..k : f[j] <= b}
<1>4. 0 \in T
  BY <1>1
<1>5. ASSUME NEW k \in 0..(n - 1), k \in T
      PROVE  k + 1 \in T
  <2>1. PICK b \in Nat : \A j \in 1..k : f[j] <= b
    BY <1>5
  <2>2. k + 1 \in 1..n /\ k + 1 \in 0..n /\ \A j \in 1..(k + 1) : j \in 1..k \/ j = k + 1
    BY <1>1
  <2>3. f[k + 1] \in Nat
    BY <1>3, <2>2
  <2>4. b + f[k + 1] \in Nat /\ \A j \in 1..(k + 1) : f[j] <= b + f[k + 1]
    <3>1. b + f[k + 1] \in Nat /\ f[k + 1] <= b + f[k + 1]
      BY <2>3
    <3>2. ASSUME NEW j \in 1..k PROVE f[j] <= b + f[k + 1]
      <4>1. j \in 1..n
        BY <1>1
      <4>2. f[j] \in Nat /\ f[j] <= b
        BY <1>3, <2>1, <4>1
      <4> QED  BY <2>3, <4>2
    <3> QED  BY <2>2, <3>1, <3>2
  <2> QED  BY <2>2, <2>4
<1>6. n \in T
  <2>1. n \in 0..n
    BY <1>1
  <2> HIDE DEF T
  <2> QED  BY <1>1, <1>4, <1>5, <2>1, UpTo
<1>7. PICK b \in Nat : \A x \in R : x <= b
  <2>1. PICK b \in Nat : \A j \in 1..n : f[j] <= b
    BY <1>6
  <2> QED  BY <1>3, <2>1
<1> DEFINE D == {b - x : x \in R}
<1>8. D \subseteq Nat /\ D # {}
  <2>1. ASSUME NEW x \in R PROVE b - x \in Nat
    <3>1. x \in Nat /\ x <= b
      BY <1>7
    <3> QED  BY <3>1
  <2>2. PICK x \in R : TRUE
    OBVIOUS
  <2>3. b - x \in D
    OBVIOUS
  <2>4. D \subseteq Nat
    BY <2>1
  <2> QED  BY <2>3, <2>4
<1>9. PICK q \in D : \A r \in D : ~ (<<r, q>> \in OpToRel(<, Nat))
  <2> HIDE DEF D
  <2> QED  BY <1>8, NatLessThanWellFounded, WFMin
<1>10. \A r \in D : ~(r < q)
  <2> HIDE DEF D
  <2> QED  BY <1>8, <1>9 DEF OpToRel
<1>11. PICK m \in R : q = b - m
  OBVIOUS
<1>12. ASSUME NEW x \in R PROVE x <= m
  <2>1. b - x \in D
    OBVIOUS
  <2>2. ~(b - x < b - m)
    BY <1>10, <1>11, <2>1
  <2> QED  BY <1>11, <2>2
<1> QED  BY <1>12

\* Of every package that is there, one is the latest.
LEMMA LatestExists ==
  ASSUME SackInv, NEW ps \in SUBSET sack, ps # {}
  PROVE  Latest(ps) # {}
<1>1. PICK p \in ps : TRUE
  OBVIOUS
<1> DEFINE P == {q \in ps : q.name = p.name}
           R == {q.release : q \in P}
           f == [q \in P |-> q.release]
<1>2. R \subseteq Nat
  <2>1. \A q \in Own \cup Found : q.release \in Nat
    BY SolvAssumption DEF Found
  <2> QED  BY <2>1 DEF SackInv
<1>3. IsFiniteSet(R)
  <2>1. IsFiniteSet(P)
    BY FS_Subset DEF SackInv
  <2>2. f \in Surjection(P, R)
    BY DEF Surjection
  <2> HIDE DEF P, R, f
  <2> QED  BY <2>1, <2>2, FS_Surjection
<1>4. R # {}
  BY <1>1
<1>5. PICK m \in R : \A x \in R : x <= m
  <2> HIDE DEF R
  <2> QED  BY <1>2, <1>3, <1>4, MaxExists
<1>6. PICK q \in P : q.release = m
  OBVIOUS
<1>7. \A r \in ps : r.name = q.name => r.release <= q.release
  BY <1>5, <1>6
<1> QED  BY <1>6, <1>7 DEF Latest

LEMMA SackStart == Init => SackInv
BY FS_EmptySet DEF Init, SackInv

\* The sack is made of what is installed and of what was found.
LEMMA SackTypes ==
  ASSUME LoopInv, CacheInv, SackInv, [Next]_vars
  PROVE  SackInv'
<1>1. ASSUME UNCHANGED sack \/ sack' = {}
      PROVE  SackInv'
  BY <1>1, FS_EmptySet DEF SackInv
<1>2. ASSUME NEW c \in Clients, Ask(c) \/ ReadAnswer(c) \/ Leave(c) \/ Take(c)
      PROVE  SackInv'
  BY <1>1, <1>2 DEF Ask, ReadAnswer, Leave, Take, requestVars
<1>3. CASE ReadPackages \/ ReadRepos \/ FoundLocally \/ DownloadStarts
  BY <1>1, <1>3 DEF ReadPackages, ReadRepos, FoundLocally, DownloadStarts, requestVars
<1>4. CASE Downloaded \/ DownloadFails \/ AddMetadata
  BY <1>1, <1>4 DEF Downloaded, DownloadFails, AddMetadata, requestVars
<1>5. CASE Query \/ AddJob
  BY <1>1, <1>5 DEF Query, AddJob
<1>6. CASE NotSolved \/ Solved
  BY <1>1, <1>6 DEF NotSolved, Solved
<1>7. CASE NoLists \/ Reply \/ Restart
  BY <1>1, <1>7 DEF NoLists, Reply, Restart, Forget
<1>8. CASE Kill \/ UNCHANGED vars
  BY <1>1, <1>8 DEF Kill, vars, requestVars
<1>9. CASE FillSack
  <2> DEFINE n == Len(meta)
  <2>1. PICK part \in [1..n -> SUBSET Names] :
          sack' = Own \cup UNION {Packages(meta[j], part[j]) : j \in 1..n}
    BY <1>9 DEF FillSack, FirstLoaded
  <2> DEFINE g == [j \in 1..n |-> Packages(meta[j], part[j])]
             G == {Packages(meta[j], part[j]) : j \in 1..n}
  <2>2. n \in Nat /\ \A k \in 1..n : meta[k] \in [name : Ids, repo : Url]
    <3> DEFINE M == [name : Ids, repo : Url]
    <3>1. meta \in Seq(M)
      BY DEF LoopInv
    <3> HIDE DEF M
    <3>2. n \in Nat /\ \A k \in 1..n : meta[k] \in M
      BY <3>1
    <3> QED  BY <3>2 DEF M
  <2>3. ASSUME NEW k \in 1..n
        PROVE  Packages(meta[k], part[k]) \subseteq Found /\ IsFiniteSet(Packages(meta[k], part[k]))
    <3> DEFINE url == cache[meta[k].name].url
               P == Packages(meta[k], part[k])
               h == [x \in part[k] |->
                       [name |-> x, release |-> url.release, repo |-> meta[k].repo,
                        base |-> IF x \in WithBase THEN url ELSE NoUrl]]
    <3>1. meta[k].name \in Ids /\ meta[k].repo \in Url
      BY <2>2
    <3>2. url \in Url
      <4>1. cache[meta[k].name] \in [url : Url, state : {"cut", "whole"}]
        BY <3>1 DEF CacheInv
      <4> QED  BY <4>1
    <3>3. url.release \in {Release[c] : c \in Clients}
      BY <3>2 DEF Url
    <3>4. part[k] \subseteq Names
      BY <2>1
    <3>5. P = {h[x] : x \in part[k]}
      BY DEF Packages
    <3> HIDE DEF url, P
    <3>6. \A x \in part[k] : h[x] \in Found
      BY <3>1, <3>2, <3>3, <3>4 DEF Found
    <3>7. IsFiniteSet(part[k])
      BY <3>4, SolvAssumption, FS_Subset
    <3>8. h \in Surjection(part[k], P)
      <4>1. h = [x \in part[k] |-> h[x]]
        OBVIOUS
      <4> HIDE DEF h
      <4> QED  BY <3>5, <4>1 DEF Surjection
    <3> HIDE DEF h
    <3>9. IsFiniteSet(P)
      BY <3>7, <3>8, FS_Surjection
    <3> QED  BY <3>5, <3>6, <3>9 DEF P
  <2>4. IsFiniteSet(1..n)
    BY <2>2, FS_Interval
  <2>5. IsFiniteSet(G)
    <3>1. g \in Surjection(1..n, G)
      <4>1. g = [j \in 1..n |-> g[j]] /\ G = {g[j] : j \in 1..n}
        OBVIOUS
      <4> HIDE DEF g, G, n
      <4> QED  BY <4>1 DEF Surjection
    <3> HIDE DEF g, G, n
    <3> QED  BY <2>4, <3>1, FS_Surjection
  <2>6. IsFiniteSet(UNION G)
    <3>1. \A x \in G : IsFiniteSet(x)
      BY <2>3
    <3> HIDE DEF G
    <3> QED  BY <2>5, <3>1, FS_UNION
  <2>7. IsFiniteSet(Own \cup UNION G)
    <3> HIDE DEF G
    <3> QED  BY <2>6, SolvAssumption, FS_Union
  <2>8. UNION G \subseteq Found
    BY <2>3
  <2> QED  BY <2>1, <2>7, <2>8 DEF SackInv
<1> QED
  BY <1>2, <1>3, <1>4, <1>5, <1>6, <1>7, <1>8, <1>9 DEF Next, ServerStep, Done

-----------------------------------------------------------------------------
(***************************************************************************)
(* Why the server crashes.                                                 *)
(***************************************************************************)
LEMMA GoalStart == Init => GoalInv
BY DEF Init, GoalInv

\* The goal of a request is what matches its names, in its latest release.
LEMMA GoalStep ==
  ASSUME ServedInv, GoalInv, [Next]_vars
  PROVE  GoalInv'
<1> DEFINE Early == {"idle", "packages", "repos", "locate", "download", "found", "query"}
<1>1. ASSUME UNCHANGED <<todo, jobs>>, spc' # "solve", spc \in Early \/ spc' \notin Early
      PROVE  GoalInv'
  BY <1>1 DEF GoalInv
<1>2. ASSUME NEW c \in Clients, Ask(c)
      PROVE  GoalInv'
  <2>1. spc = "idle" /\ UNCHANGED <<spc, todo, jobs>>
    BY <1>2 DEF Ask, ServedInv, requestVars
  <2> QED  BY <1>1, <2>1
<1>3. ASSUME NEW c \in Clients, ReadAnswer(c)
      PROVE  GoalInv'
  <2>1. UNCHANGED <<spc, op, cur, todo, jobs, sack, names>>
    BY <1>3 DEF ReadAnswer, requestVars
  <2>2. IsGoal(todo \cup jobs)' = IsGoal(todo \cup jobs)
    BY <2>1 DEF IsGoal, Latest, Matching
  <2> QED  BY <2>1, <2>2 DEF GoalInv
<1>4. ASSUME NEW c \in Clients, Leave(c) \/ Take(c)
      PROVE  GoalInv'
  <2>1. spc = "idle" /\ spc' \in {"idle", "packages"} /\ UNCHANGED <<todo, jobs>>
    BY <1>4 DEF Leave, Take, GoTo, requestVars
  <2> QED  BY <1>1, <2>1
<1>5. CASE ReadPackages \/ ReadRepos
  <2>1. spc \in Early /\ spc' # "solve" /\ UNCHANGED <<todo, jobs>>
    BY <1>5 DEF ReadPackages, ReadRepos, Crash, GoTo
  <2> QED  BY <1>1, <2>1
<1>6. CASE FoundLocally \/ DownloadStarts
  <2>1. spc \in Early /\ spc' # "solve" /\ UNCHANGED <<todo, jobs>>
    BY <1>6 DEF FoundLocally, DownloadStarts, Locating, Crash, GoTo, requestVars
  <2> QED  BY <1>1, <2>1
<1>7. CASE Downloaded \/ DownloadFails \/ AddMetadata \/ FillSack
  <2>1. spc \in Early /\ spc' # "solve" /\ UNCHANGED <<todo, jobs>>
    BY <1>7 DEF Downloaded, DownloadFails, AddMetadata, FillSack, Crash, GoTo, requestVars
  <2> QED  BY <1>1, <2>1
<1>8. CASE Query
  <2>1. spc = "query" /\ todo = {} /\ jobs = {} /\ jobs' = jobs /\ UNCHANGED <<op, cur>>
    BY <1>8 DEF Query, GoalInv
  <2>2. req.code = op[cur]
    BY <2>1 DEF ServedInv, Busy, Says
  <2>3. CASE op[cur] = "update_all"
    <3>1. todo' = todo /\ spc' = "solve"
      BY <1>8, <2>2, <2>3 DEF Query, GoTo
    <3> QED  BY <2>1, <2>3, <3>1 DEF GoalInv
  <2>4. CASE op[cur] # "update_all" /\ spc' = "solve"
    <3>1. PICK stale \in Stale : todo' = Latest(Matching(ToSet(names) \cup stale))
      BY <1>8, <2>2, <2>4 DEF Query, Crash, GoTo
    <3>2. stale \in SUBSET DOMAIN Globs
      BY DEF Stale
    <3>3. todo' \cup jobs' = todo'
      BY <2>1
    <3>4. \A ns : Latest(Matching(ns))' = Latest(Matching(ns))
      BY <1>8 DEF Query, Latest, Matching
    <3>5. (todo \cup jobs)' = Latest(Matching(ToSet(names) \cup stale))'
      BY <1>8, <3>1, <3>3, <3>4 DEF Query
    <3>6. IsGoal(todo \cup jobs)'
      BY <3>2, <3>5 DEF IsGoal
    <3> QED  BY <2>1, <2>4, <3>6 DEF GoalInv
  <2>5. CASE op[cur] # "update_all" /\ spc' # "solve"
    <3>1. spc' = "crashed"
      BY <1>8, <2>2, <2>5 DEF Query, Crash, GoTo
    <3> QED  BY <3>1 DEF GoalInv
  <2> QED  BY <2>3, <2>4, <2>5
<1>9. CASE AddJob
  <2>1. PICK p \in todo : todo' = todo \ {p} /\ jobs' = jobs \cup {p}
    BY <1>9 DEF AddJob
  <2>2. spc = "solve" /\ spc' = "solve" /\ UNCHANGED <<op, cur, sack, names>>
    BY <1>9 DEF AddJob, clientVars
  <2>3. op[cur] # "update_all" /\ IsGoal(todo \cup jobs)
    BY <2>1, <2>2 DEF GoalInv
  <2>4. todo' \cup jobs' = todo \cup jobs
    BY <2>1
  <2>5. IsGoal(todo \cup jobs)'
    <3>1. \A ns : Latest(Matching(ns))' = Latest(Matching(ns))
      BY <2>2 DEF Latest, Matching
    <3>2. PICK stale \in SUBSET DOMAIN Globs :
            todo \cup jobs = Latest(Matching(ToSet(names) \cup stale))
      BY <2>3 DEF IsGoal
    <3>3. (todo \cup jobs)' = Latest(Matching(ToSet(names) \cup stale))'
      BY <2>2, <2>4, <3>1, <3>2
    <3> QED  BY <3>3 DEF IsGoal
  <2> QED  BY <2>2, <2>3, <2>5 DEF GoalInv
<1>10. CASE NotSolved \/ Solved \/ NoLists
  <2>1. spc' \in {"reply", "crashed"}
    BY <1>10 DEF NotSolved, Solved, NoLists, Crash, GoTo
  <2> QED  BY <2>1 DEF GoalInv
<1>11. CASE Reply \/ Restart
  BY <1>11 DEF Reply, Restart, Forget, GoTo, GoalInv
<1>12. CASE Kill
  BY <1>12 DEF Kill, GoTo, GoalInv
<1>13. CASE UNCHANGED vars
  <2>1. UNCHANGED <<spc, op, cur, todo, jobs, sack, names>>
    BY <1>13 DEF vars, clientVars, requestVars
  <2>2. IsGoal(todo \cup jobs)' = IsGoal(todo \cup jobs)
    BY <2>1 DEF IsGoal, Latest, Matching
  <2> QED  BY <2>1, <2>2 DEF GoalInv
<1> QED
  BY <1>2, <1>3, <1>4, <1>5, <1>6, <1>7, <1>8, <1>9, <1>10, <1>11, <1>12, <1>13
     DEF Next, ServerStep, Done

LEMMA CauseStart == Init => CrashHasCause
BY DEF Init, CrashHasCause

\* Each crash has its reason where it happens, and the request stays as it is
\* until the server is up again.
LEMMA CauseStep ==
  ASSUME AskedInv, ServedInv, ReadInv, LoopInv, SackInv, GoalInv, CrashHasCause, [Next]_vars
  PROVE  CrashHasCause'
<1> DEFINE enabled == EnabledOf(conf[cur])
<1>0. cur \in Clients /\ conf[cur] \in Seq(Repository)
  BY AskedTypes DEF ServedInv
<1>00. enabled = {r \in ToSet(conf[cur]) : r.enabled}
  BY DEF EnabledOf
<1>1. ASSUME spc' # "crashed"
      PROVE  CrashHasCause'
  BY <1>1 DEF CrashHasCause
<1>2. ASSUME UNCHANGED <<spc, fault, conf, want, op, cur, jobs, sack, names, cache>>
      PROVE  CrashHasCause'
  <2>1. Matching(ToSet(names))' = Matching(ToSet(names))
    BY <1>2 DEF Matching
  <2> QED  BY <1>2, <2>1 DEF CrashHasCause
<1>3. ASSUME NEW c \in Clients, Ask(c)
      PROVE  CrashHasCause'
  <2>1. spc' # "crashed"
    BY <1>3 DEF Ask, ServedInv
  <2> QED  BY <1>1, <2>1
<1>4. ASSUME NEW c \in Clients, ReadAnswer(c)
      PROVE  CrashHasCause'
  BY <1>2, <1>4 DEF ReadAnswer, requestVars
<1>5. ASSUME NEW c \in Clients, Leave(c) \/ Take(c)
      PROVE  CrashHasCause'
  BY <1>1, <1>5 DEF Leave, Take, GoTo
<1>6. ASSUME spc \in Busy
      PROVE  /\ op[cur] = req.code
             /\ Says(req, cur, op[cur], conf[cur], want[cur])
  BY <1>6 DEF ServedInv, Busy, Says
<1>7. CASE ReadPackages /\ spc' = "crashed"
  <2>1. fault' = "packages" /\ Fills(GetCount(req, "req_pkgs") + 1)
        /\ UNCHANGED <<conf, want, op, cur>> /\ spc = "packages"
    BY <1>7 DEF ReadPackages, Crash, GoTo
  <2>2. GetCount(req, "req_pkgs") = Len(want[cur])
    BY <1>6, <2>1 DEF Says, GetCount, Busy
  <2> QED  BY <2>1, <2>2 DEF CrashHasCause
<1>8. CASE ReadRepos /\ spc' = "crashed"
  <2>1. fault' = "repos" /\ NullUrl(req) /\ UNCHANGED <<conf, cur>> /\ spc = "repos"
    BY <1>8 DEF ReadRepos, Crash, GoTo
  <2>2. \E r \in enabled : r.baseurl = <<>> /\ r.metalink = NoUrl /\ r.mirrorlist = NoUrl
    BY <1>0, <1>6, <2>1, SomeNullUrl DEF Busy
  <2> HIDE DEF enabled
  <2> QED  BY <1>00, <2>1, <2>2 DEF CrashHasCause
<1>70. ASSUME spc \in Read, i <= Len(repos)
       PROVE  \E r \in enabled : r \in Repository /\ repos[i] = MeantRepo(cur, r)
  <2>1. repos = Meant(cur) /\ i \in 1..Len(repos)
    BY <1>70, HereIs DEF ReadInv
  <2> DEFINE E == Enabled(conf[cur])
  <2>2. i \in 1..Len(E)
    <3>1. E \in Seq(EnabledOf(conf[cur])) /\ Meant(cur) = [j \in 1..Len(E) |-> MeantRepo(cur, E[j])]
      BY <1>0, EnabledIs, MeantIs
    <3> HIDE DEF E
    <3>2. Len(E) \in Nat
      BY <3>1
    <3>3. Len(Meant(cur)) = Len(E)
      BY <3>1, <3>2
    <3> QED  BY <2>1, <3>3
  <2>3. PICK r \in enabled : repos[i] = MeantRepo(cur, r)
    BY <1>0, <2>1, <2>2, MeantFrom
  <2>4. r \in Repository
    BY <1>0, EnabledIs
  <2> QED  BY <2>3, <2>4
<1>9. CASE DownloadStarts /\ spc' = "crashed"
  <2>1. /\ fault' = "locate" /\ Fills(Len(repos[i].urls)) /\ UNCHANGED <<conf, cur>>
        /\ spc = "locate" /\ i <= Len(repos)
    BY <1>9 DEF DownloadStarts, Locating, Crash, GoTo, requestVars
  <2>2. spc \in Read
    BY <2>1 DEF Read, Busy
  <2>4. PICK r \in enabled : r \in Repository /\ repos[i] = MeantRepo(cur, r)
    BY <1>70, <2>1, <2>2
  <2>6. r.baseurl # <<>>
    <3>1. CASE r.baseurl = <<>>
      <4>1. \E u : MeantRepo(cur, r).urls = <<u>>
        <5>1. CASE r.metalink # NoUrl
          BY <3>1, <5>1 DEF MeantRepo
        <5>2. CASE r.metalink = NoUrl
          BY <3>1, <5>2 DEF MeantRepo
        <5> QED  BY <5>1, <5>2
      <4>2. Len(repos[i].urls) = 1
        BY <2>4, <4>1
      <4> QED  BY <2>1, <4>2 DEF Fills
    <3> QED  BY <3>1
  <2>7. Len(repos[i].urls) = Len(r.baseurl)
    <3>1. r.baseurl \in Seq(DOMAIN Published)
      BY <2>4 DEF Repository
    <3>2. Len(r.baseurl) \in Nat
      BY <3>1
    <3>3. repos[i].urls = [k \in 1..Len(r.baseurl) |-> Substituted(cur, r.baseurl[k])]
      BY <2>4, <2>6 DEF MeantRepo
    <3> QED  BY <3>2, <3>3
  <2>8. Fills(Len(r.baseurl))
    BY <2>1, <2>7
  <2> HIDE DEF enabled
  <2> QED  BY <1>00, <2>1, <2>4, <2>8 DEF CrashHasCause
<1>90. CASE AddMetadata /\ spc' = "crashed"
  <2>1. /\ fault' = "found" /\ cache[Folder(i)].url.text \in Bare
        /\ UNCHANGED <<conf, cur, cache>> /\ spc = "found"
    BY <1>90 DEF AddMetadata, Crash, GoTo
  <2>2. spc \in Read /\ i <= Len(repos)
    BY <2>1 DEF Read, Busy, LoopInv
  <2>3. PICK r \in enabled : repos[i] = MeantRepo(cur, r)
    BY <1>70, <2>2
  <2>4. Folder(i) = r.id
    BY <2>3 DEF Folder, MeantRepo
  <2> HIDE DEF enabled
  <2> QED  BY <1>00, <2>1, <2>3, <2>4 DEF CrashHasCause
<1>10. CASE Query /\ spc' = "crashed"
  <2>1. fault' = "query" /\ wild /\ UNCHANGED <<want, op, cur>> /\ spc = "query"
    BY <1>10 DEF Query, Crash, GoTo
  <2>2. op[cur] # "update_all" /\ Len(want[cur]) # 1
    BY <2>1 DEF ReadInv, Busy
  <2> QED  BY <2>1, <2>2 DEF CrashHasCause
<1>11. CASE NoLists /\ spc' = "crashed"
  <2>1. /\ fault' = "solve" /\ todo = {} /\ jobs = {} /\ spc = "solve"
        /\ UNCHANGED <<conf, want, op, cur, jobs, sack, names>>
    BY <1>11 DEF NoLists, Crash, GoTo
  <2>2. op[cur] = "update_all" \/ Matching(ToSet(names)) = {}
    <3>1. CASE op[cur] # "update_all"
      <4>1. PICK stale : {} = Latest(Matching(ToSet(names) \cup stale))
        BY <2>1, <3>1 DEF GoalInv, IsGoal
      <4>2. Matching(ToSet(names) \cup stale) \in SUBSET sack
        BY DEF Matching
      <4>3. Matching(ToSet(names) \cup stale) = {}
        BY <4>1, <4>2, LatestExists
      <4> QED  BY <4>3 DEF Matching
    <3> QED  BY <3>1
  <2>3. Matching(ToSet(names))' = Matching(ToSet(names))
    BY <2>1 DEF Matching
  <2> QED  BY <2>1, <2>2, <2>3 DEF CrashHasCause
<1>12. CASE FoundLocally \/ Downloaded \/ DownloadFails \/ FillSack
  <2>1. spc' # "crashed"
    BY <1>12 DEF FoundLocally, Locating, Downloaded, DownloadFails, FillSack, GoTo
  <2> QED  BY <1>1, <2>1
<1>13. CASE AddJob \/ NotSolved \/ Solved
  <2>1. spc' # "crashed"
    BY <1>13 DEF AddJob, NotSolved, Solved, GoTo
  <2> QED  BY <1>1, <2>1
<1>14. CASE Reply \/ Restart \/ Kill
  <2>1. spc' # "crashed"
    BY <1>14 DEF Reply, Restart, Kill, GoTo
  <2> QED  BY <1>1, <2>1
<1>15. CASE UNCHANGED vars
  BY <1>2, <1>15 DEF vars, clientVars, requestVars
<1> QED
  BY <1>1, <1>3, <1>4, <1>5, <1>7, <1>8, <1>9, <1>90, <1>10, <1>11, <1>12, <1>13, <1>14, <1>15
     DEF Next, ServerStep, Done

\* A request crashes the server only for a reason that is in it or in what its
\* repositories offer, metadata that lack a file among them (json_read.c:118,
\* repo_metadata.c:79, :125).
THEOREM CrashesHaveCauses == Spec => []CrashHasCause
<1> DEFINE Inv == /\ AskedInv /\ ServedInv /\ ReadInv /\ LoopInv /\ CacheInv
                  /\ SackInv /\ GoalInv /\ CrashHasCause
<1>1. Init => Inv
  BY AskedStart, ServedStart, ReadStart, LoopStart, CacheStart, SackStart, GoalStart, CauseStart
<1>2. Inv /\ [Next]_vars => Inv'
  BY AskedStep, ServedStep, ReadStep, LoopStep, CacheStep, SackTypes, GoalStep, CauseStep
<1>3. Inv => CrashHasCause
  OBVIOUS
<1> QED  BY <1>1, <1>2, <1>3, PTL DEF Spec

-----------------------------------------------------------------------------
(***************************************************************************)
(* What an answer is: an object for each package, from the last one to the *)
(* first.                                                                  *)
(***************************************************************************)
Backwards(pkgs) == [k \in 1..Len(pkgs) |-> SolvedObject(pkgs[Len(pkgs) - k + 1])]

LEMMA ListAdded ==
  ASSUME NEW doc, IsDoc(doc), NEW name, Array(doc, name) = <<>>, NEW S, NEW pkgs \in Seq(S)
  PROVE  Reads(AddList(doc, name, pkgs), doc, name, Backwards(pkgs))
<1> DEFINE n == Len(pkgs)
           O == {SolvedObject(p) : p \in S}
           one(k) == SolvedObject(pkgs[n - k + 1])
           some(m) == [k \in 1..m |-> one(k)]
<1>1. n \in Nat /\ \A k \in 1..n : one(k) \in O
  <2>1. \A k \in 1..n : n - k + 1 \in 1..n
    OBVIOUS
  <2>2. \A k \in 1..n : pkgs[n - k + 1] \in S
    BY <2>1
  <2> QED  BY <2>2
<1>2. PICK f : /\ f[0] = WithArray(doc, name)
               /\ \A k \in 1..n : f[k] = AddSolved(f[k - 1], pkgs[n - k + 1])
               /\ AddList(doc, name, pkgs) = f[n]
  BY <1>1, SolvedOneByOne
<1> DEFINE T == {k \in 0..n : Only(f[k], doc, name, some(k))}
<1>3. 0 \in T
  <2>1. Only(WithArray(doc, name), doc, name, <<>>)
    BY WithArrayIs
  <2>2. some(0) = <<>>
    OBVIOUS
  <2>3. f[0] = WithArray(doc, name) /\ 0 \in 0..n
    BY <1>1, <1>2
  <2> HIDE DEF some, n
  <2> QED  BY <2>1, <2>2, <2>3
<1>4. ASSUME NEW k \in 0..(n - 1), k \in T
      PROVE  k + 1 \in T
  <2>1. k \in Nat /\ k + 1 \in 1..n /\ k + 1 - 1 = k /\ k + 1 \in 0..n
    BY <1>1
  <2>2. Only(f[k], doc, name, some(k))
    BY <1>4
  <2>3. f[k + 1] = AddSolved(f[k], pkgs[n - (k + 1) + 1])
    BY <1>2, <2>1
  <2>4. some(k) \in [1..k -> O]
    <3>1. \A j \in 1..k : one(j) \in O
      BY <1>1, <2>1, SMTT(30)
    <3> HIDE DEF O, one
    <3> QED  BY <3>1
  <2>5. some(k) \in Seq(O) /\ Len(some(k)) = k
    <3> HIDE DEF some, O
    <3> QED  BY <2>1, <2>4
  <2>6. Only(f[k + 1], f[k], name, Append(some(k), one(k + 1)))
    <3> HIDE DEF some, O
    <3>1. /\ IsDoc(f[k]) /\ f[k].array = name /\ Has(f[k], name)
          /\ Array(f[k], name) = some(k)
      BY <2>2 DEF Only
    <3> QED  BY <2>3, <2>5, <3>1, AddSolvedIs
  <2>7. Append(some(k), one(k + 1)) = some(k + 1)
    <3>1. some(k + 1) \in [1..(k + 1) -> O]
      <4>1. \A j \in 1..(k + 1) : one(j) \in O
        BY <1>1, <2>1
      <4> HIDE DEF O, one
      <4> QED  BY <4>1
    <3>2. some(k + 1) \in Seq(O) /\ Len(some(k + 1)) = k + 1
      <4> HIDE DEF some, O
      <4> QED  BY <2>1, <3>1
    <3>3. \A j \in 1..(k + 1) : some(k + 1)[j] = IF j = k + 1 THEN one(k + 1) ELSE some(k)[j]
      <4> HIDE DEF one
      <4> QED  BY <2>1
    <3>4. one(k + 1) \in O
      BY <1>1, <2>1
    <3> DEFINE s == some(k)
               t == some(k + 1)
               x == one(k + 1)
    <3> HIDE DEF s, t, x, O
    <3>5. Append(s, x) \in Seq(O) /\ Len(Append(s, x)) = k + 1
          /\ \A j \in 1..(k + 1) : Append(s, x)[j] = IF j = k + 1 THEN x ELSE s[j]
      BY <2>1, <2>5, <3>4 DEF s, x
    <3>6. t \in Seq(O) /\ Len(t) = k + 1
          /\ \A j \in 1..(k + 1) : t[j] = IF j = k + 1 THEN x ELSE s[j]
      BY <3>2, <3>3 DEF s, t, x
    <3>7. Append(s, x) = t
      BY <3>5, <3>6, SeqEqual
    <3> QED  BY <3>7 DEF s, t, x
  <2> HIDE DEF some
  <2>8. Only(f[k + 1], doc, name, some(k + 1))
    BY <2>2, <2>6, <2>7 DEF Only
  <2> QED  BY <2>1, <2>8
<1>5. n \in T
  <2>1. n \in 0..n
    BY <1>1
  <2> HIDE DEF T, n
  <2> QED  BY <1>1, <1>3, <1>4, <2>1, UpTo
<1>6. some(n) = Backwards(pkgs)
  BY DEF Backwards
<1> HIDE DEF some, n
<1> QED  BY <1>2, <1>5, <1>6 DEF Only, Reads

\* The lists of a goal.
Names4 == {"install", "upgrade", "erase", "obsolete"}

LEMMA ListsAre == ToSet(Lists) = Names4
BY DEF ToSet, Lists, Names4

\* d holds the lists of the goal.
IsAnswer(d, goal) ==
  \A name \in Names4 : Len(goal[name]) \in Nat /\ Array(d, name) = Backwards(goal[name])

LEMMA PkgsInserted ==
  ASSUME NEW goal, NEW S, \A name \in Names4 : goal[name] \in Seq(S), NEW code
  PROVE  /\ IsAnswer(PkgsInsert(Created(code), goal), goal)
         /\ IsDoc(PkgsInsert(Created(code), goal))
         /\ PkgsInsert(Created(code), goal).code = code
<1> DEFINE d0 == Created(code)
           d1 == AddList(d0, "install", goal["install"])
           d2 == AddList(d1, "upgrade", goal["upgrade"])
           d3 == AddList(d2, "erase", goal["erase"])
           d4 == AddList(d3, "obsolete", goal["obsolete"])
<1>1. PkgsInsert(Created(code), goal) = d4
  BY DEF PkgsInsert, Lists
<1>2. IsDoc(d0) /\ d0.code = code /\ \A m : Array(d0, m) = <<>>
  BY CreatedIs
<1>3. \A name \in Names4 : Len(goal[name]) \in Nat
  OBVIOUS
<1> HIDE DEF d0, d1, d2, d3, d4
<1>4. Reads(d1, d0, "install", Backwards(goal["install"]))
  BY <1>2, ListAdded DEF d1, Names4
<1>5. Reads(d2, d1, "upgrade", Backwards(goal["upgrade"]))
  <2>1. IsDoc(d1) /\ Array(d1, "upgrade") = <<>>
    BY <1>2, <1>4 DEF Reads
  <2> QED  BY <2>1, ListAdded DEF d2, Names4
<1>6. Reads(d3, d2, "erase", Backwards(goal["erase"]))
  <2>1. IsDoc(d2) /\ Array(d2, "erase") = <<>>
    BY <1>2, <1>4, <1>5 DEF Reads
  <2> QED  BY <2>1, ListAdded DEF d3, Names4
<1>7. Reads(d4, d3, "obsolete", Backwards(goal["obsolete"]))
  <2>1. IsDoc(d3) /\ Array(d3, "obsolete") = <<>>
    BY <1>2, <1>4, <1>5, <1>6 DEF Reads
  <2> QED  BY <2>1, ListAdded DEF d4, Names4
<1>8. /\ Array(d4, "install") = Backwards(goal["install"])
      /\ Array(d4, "upgrade") = Backwards(goal["upgrade"])
      /\ Array(d4, "erase") = Backwards(goal["erase"])
      /\ Array(d4, "obsolete") = Backwards(goal["obsolete"])
      /\ d4.code = code /\ IsDoc(d4)
  BY <1>2, <1>4, <1>5, <1>6, <1>7 DEF Reads
<1> QED  BY <1>1, <1>3, <1>8 DEF IsAnswer, Names4

\* The code of an answer is all that is written over.
LEMMA NoDepIs ==
  ASSUME NEW doc, IsDoc(doc)
  PROVE  NoDep(doc).code = "ANSWER_NO_DEP"
BY DEF IsDoc, NoDep, InsertCode

LEMMA SetToSeqIs ==
  ASSUME NEW X, IsFiniteSet(X)
  PROVE  /\ SetToSeq(X) \in Seq(X)
         /\ \A j, k \in 1..Len(SetToSeq(X)) : SetToSeq(X)[j] = SetToSeq(X)[k] => j = k
<1> DEFINE n == Cardinality(X)
           s == SetToSeq(X)
<1>1. n \in Nat /\ ExistsBijection(1..n, X)
  BY FS_CardinalityType
<1>2. \E f \in [1..n -> X] : IsInjective(f)
  <2>1. PICK f \in Bijection(1..n, X) : TRUE
    BY <1>1 DEF ExistsBijection
  <2>2. f \in [1..n -> X] /\ IsInjective(f)
    BY <2>1 DEF Bijection, Injection, IsInjective
  <2> QED  BY <2>2
<1>3. s \in [1..n -> X] /\ IsInjective(s)
  BY <1>2 DEF SetToSeq
<1> HIDE DEF s, n
<1>4. s \in Seq(X) /\ Len(s) = n
  BY <1>1, <1>3
<1> QED  BY <1>3, <1>4 DEF IsInjective, s

-----------------------------------------------------------------------------
(***************************************************************************)
(* What a client reads.                                                    *)
(***************************************************************************)
\* The goal of a request goes into its answer and is not touched until the
\* client has read it.
AnswerInv ==
  /\ answer = [c \in Clients |-> answer[c]] /\ solved = [c \in Clients |-> solved[c]]
  /\ \A c \in Clients :
       cpc[c] \in {"idle", "asked"} => solved[c] = NoGoal \/ (c = cur /\ spc = "reply")
  /\ spc = "reply" /\ out.code = "ANSWER_OK" => IsAnswer(out, solved[cur])
  /\ \A c \in Clients :
       cpc[c] = "answered" /\ wire[c].code = "ANSWER_OK" => IsAnswer(wire[c], solved[c])

\* The goal of a request is of its sack.
LEMMA GoalIs ==
  ASSUME SackInv, NEW goal \in Solutions
  PROVE  /\ goal["install"] \in Seq({p \in sack : ~IsOwn(p)})
         /\ goal["upgrade"] \in Seq({p \in sack \ Own : Upgrades(p)})
         /\ goal["erase"] \in Seq(Own) /\ goal["obsolete"] = <<>>
         /\ \A name \in Names4 : \A j, k \in 1..Len(goal[name]) :
              goal[name][j] = goal[name][k] => j = k
<1>1. PICK t \in (SUBSET {p \in sack : ~IsOwn(p)}) \X
                   (SUBSET {p \in sack \ Own : Upgrades(p)}) \X (SUBSET Own) :
        goal = [install |-> SetToSeq(t[1]), upgrade |-> SetToSeq(t[2]),
                erase |-> SetToSeq(t[3]), obsolete |-> <<>>]
  BY DEF Solutions
<1>2. IsFiniteSet(t[1]) /\ IsFiniteSet(t[2]) /\ IsFiniteSet(t[3])
  <2>1. t[1] \in SUBSET sack /\ t[2] \in SUBSET sack /\ t[3] \in SUBSET Own
    BY <1>1
  <2>2. IsFiniteSet(sack) /\ IsFiniteSet(Own)
    BY SolvAssumption DEF SackInv
  <2> QED  BY <2>1, <2>2, FS_Subset
<1>3. /\ goal["install"] = SetToSeq(t[1]) /\ goal["upgrade"] = SetToSeq(t[2])
      /\ goal["erase"] = SetToSeq(t[3]) /\ goal["obsolete"] = <<>>
  BY <1>1
<1>4. /\ goal["install"] \in Seq(t[1]) /\ goal["upgrade"] \in Seq(t[2])
      /\ goal["erase"] \in Seq(t[3])
  BY <1>2, <1>3, SetToSeqIs
<1>5. /\ t[1] \subseteq {p \in sack : ~IsOwn(p)} /\ t[2] \subseteq {p \in sack \ Own : Upgrades(p)}
      /\ t[3] \subseteq Own
  BY <1>1
<1>6. \A name \in Names4 : \A j, k \in 1..Len(goal[name]) :
        goal[name][j] = goal[name][k] => j = k
  <2>1. \A j, k \in 1..Len(goal["install"]) : goal["install"][j] = goal["install"][k] => j = k
    BY <1>2, <1>3, SetToSeqIs
  <2>2. \A j, k \in 1..Len(goal["upgrade"]) : goal["upgrade"][j] = goal["upgrade"][k] => j = k
    BY <1>2, <1>3, SetToSeqIs
  <2>3. \A j, k \in 1..Len(goal["erase"]) : goal["erase"][j] = goal["erase"][k] => j = k
    BY <1>2, <1>3, SetToSeqIs
  <2>4. 1..Len(goal["obsolete"]) = {}
    BY <1>3
  <2> QED  BY <2>1, <2>2, <2>3, <2>4 DEF Names4
<1>7. /\ goal["install"] \in Seq({p \in sack : ~IsOwn(p)})
      /\ goal["upgrade"] \in Seq({p \in sack \ Own : Upgrades(p)}) /\ goal["erase"] \in Seq(Own)
  <2> DEFINE a == goal["install"]
             b == goal["upgrade"]
             d == goal["erase"]
  <2> HIDE DEF a, b, d
  <2>1. a \in Seq(t[1]) /\ b \in Seq(t[2]) /\ d \in Seq(t[3])
    BY <1>4 DEF a, b, d
  <2>2. \A X, Y : X \subseteq Y => \A s \in Seq(X) : s \in Seq(Y)
    OBVIOUS
  <2> QED  BY <1>5, <2>1, <2>2 DEF a, b, d
<1> QED  BY <1>3, <1>6, <1>7

LEMMA GoalSeqs ==
  ASSUME SackInv, NEW goal \in Solutions, NEW name \in Names4
  PROVE  goal[name] \in Seq(sack \cup Own)
<1>1. \A X, Y : X \subseteq Y => \A s \in Seq(X) : s \in Seq(Y)
  OBVIOUS
<1>2. <<>> \in Seq(sack \cup Own)
  OBVIOUS
<1>3. /\ {p \in sack : ~IsOwn(p)} \subseteq sack \cup Own
      /\ {p \in sack \ Own : Upgrades(p)} \subseteq sack \cup Own
      /\ Own \subseteq sack \cup Own
  OBVIOUS
<1> QED  BY <1>1, <1>2, <1>3, GoalIs DEF Names4

LEMMA NoGoalIs == \A name \in Names4 : NoGoal[name] = <<>>
BY ListsAre DEF NoGoal

LEMMA AnswerStart == Init => AnswerInv
<1> SUFFICES ASSUME Init PROVE AnswerInv
  OBVIOUS
<1>1. answer = [c \in Clients |-> NoGoal] /\ solved = [c \in Clients |-> NoGoal]
  BY DEF Init
<1>2. spc = "idle" /\ \A c \in Clients : cpc[c] = "idle"
  BY DEF Init
<1> QED  BY <1>1, <1>2 DEF AnswerInv

LEMMA AnswerStep ==
  ASSUME AskedInv, ServedInv, SackInv, AnswerInv, [Next]_vars
  PROVE  AnswerInv'
<1>0. /\ cur \in Clients /\ wire = [c \in Clients |-> wire[c]] /\ DOMAIN cpc = Clients
      /\ answer = [c \in Clients |-> answer[c]] /\ solved = [c \in Clients |-> solved[c]]
  BY DEF ServedInv, AskedInv, AnswerInv
<1>1. ASSUME UNCHANGED <<cpc, wire, answer, solved, cur, out>>, spc' = spc
      PROVE  AnswerInv'
  BY <1>1 DEF AnswerInv
<1>2. ASSUME UNCHANGED <<cpc, wire, answer, solved, cur>>, spc # "reply", spc' # "reply"
      PROVE  AnswerInv'
  BY <1>2 DEF AnswerInv
<1>3. ASSUME Loses
      PROVE  AnswerInv'
  <2>1. /\ cpc' = [cpc EXCEPT ![cur] = "lost"] /\ wire' = [wire EXCEPT ![cur] = NoDoc]
        /\ UNCHANGED <<answer, solved, cur>> /\ spc' # "reply"
    BY <1>3 DEF Loses
  <2>2. \A c \in Clients : cpc'[c] # "lost" => cpc'[c] = cpc[c] /\ wire'[c] = wire[c] /\ c # cur
    BY <1>0, <2>1
  <2> QED  BY <2>1, <2>2 DEF AnswerInv
<1>4. ASSUME NEW c \in Clients, Ask(c)
      PROVE  AnswerInv'
  <2>1. /\ cpc[c] = "idle" /\ cpc' = [cpc EXCEPT ![c] = "asked"]
        /\ UNCHANGED <<answer, solved, cur>> /\ spc = "idle" /\ spc' = "idle"
    BY <1>4 DEF Ask, ServedInv, requestVars
  <2>2. \A b \in Clients \ {c} : wire'[b] = wire[b]
    <3>1. PICK rs \in Confs, o \in Operations, w \in Wanted :
            /\ o = "update_all" => w = <<>>
            /\ o = "update" => w # <<>>
            /\ conf' = [conf EXCEPT ![c] = rs]
            /\ want' = [want EXCEPT ![c] = w]
            /\ op' = [op EXCEPT ![c] = o]
            /\ wire' = [wire EXCEPT ![c] = Request(c, o, rs, w)]
      BY <1>4 DEF Ask
    <3> QED  BY <1>0, <3>1
  <2>3. cpc'[c] = "asked" /\ \A b \in Clients \ {c} : cpc'[b] = cpc[b]
    BY <1>0, <2>1
  <2>4. solved[c] = NoGoal
    BY <2>1 DEF AnswerInv
  <2> QED  BY <2>1, <2>2, <2>3, <2>4 DEF AnswerInv
<1>5. ASSUME NEW c \in Clients, ReadAnswer(c)
      PROVE  AnswerInv'
  <2>1. /\ cpc' = [cpc EXCEPT ![c] = IF wire[c].code = "ANSWER_OK" THEN "listed" ELSE "told"]
        /\ wire' = [wire EXCEPT ![c] = NoDoc] /\ UNCHANGED <<spc, solved, cur, out>>
    BY <1>5 DEF ReadAnswer, requestVars, historyVars
  <2>2. answer' = [b \in Clients |-> answer'[b]]
    <3>1. CASE wire[c].code = "ANSWER_OK"
      <4>1. answer' = [answer EXCEPT ![c] =
                         [name \in ToSet(Lists) |-> ParseAnswer(wire[c], name)]]
        BY <1>5, <3>1 DEF ReadAnswer
      <4> QED  BY <1>0, <4>1
    <3>2. CASE wire[c].code # "ANSWER_OK"
      BY <1>0, <1>5, <3>2 DEF ReadAnswer
    <3> QED  BY <3>1, <3>2
  <2>3. \A b \in Clients : cpc'[b] \in {"idle", "asked", "answered"} =>
                             cpc'[b] = cpc[b] /\ wire'[b] = wire[b]
    BY <1>0, <2>1
  <2> QED  BY <2>1, <2>2, <2>3 DEF AnswerInv
<1>6. ASSUME NEW c \in Clients, Leave(c)
      PROVE  AnswerInv'
  <2>1. /\ cpc' = [cpc EXCEPT ![c] = "gone"] /\ spc = "idle"
        /\ answer' = [answer EXCEPT ![c] = NoGoal] /\ solved' = [solved EXCEPT ![c] = NoGoal]
        /\ UNCHANGED <<wire, spc, cur, out>>
    BY <1>6 DEF Leave, requestVars
  <2>2. \A b \in Clients : cpc'[b] # "gone" => cpc'[b] = cpc[b] /\ solved'[b] = solved[b]
    BY <1>0, <2>1
  <2>3. answer' = [b \in Clients |-> answer'[b]] /\ solved' = [b \in Clients |-> solved'[b]]
    BY <1>0, <2>1
  <2> QED  BY <2>1, <2>2, <2>3 DEF AnswerInv
<1>7. ASSUME NEW c \in Clients, Take(c)
      PROVE  AnswerInv'
  <2>1. UNCHANGED <<cpc, wire, answer, solved>> /\ spc = "idle" /\ spc' = "packages"
    BY <1>7 DEF Take, GoTo, clientVars, historyVars
  <2> QED  BY <2>1 DEF AnswerInv
<1>8. CASE ReadPackages \/ ReadRepos
  <2>1. CASE Serves
    <3>1. spc # "reply" /\ spc' # "reply" /\ solved' = solved
      BY <1>8 DEF ReadPackages, ReadRepos, Crash, GoTo, historyVars
    <3> QED  BY <1>2, <2>1, <3>1 DEF Serves
  <2> QED  BY <1>3, <1>8, <2>1, ServerSteps
<1>9. CASE FoundLocally \/ DownloadStarts \/ Downloaded \/ DownloadFails \/ AddMetadata
             \/ FillSack
  <2>1. CASE Serves
    <3>1. spc # "reply" /\ spc' # "reply" /\ solved' = solved
      <4>1. CASE FoundLocally \/ DownloadStarts
        BY <4>1 DEF FoundLocally, DownloadStarts, Locating, Crash, GoTo, historyVars
      <4>2. CASE Downloaded \/ DownloadFails \/ AddMetadata \/ FillSack
        BY <4>2 DEF Downloaded, DownloadFails, AddMetadata, FillSack, Crash, GoTo, historyVars
      <4> QED  BY <1>9, <4>1, <4>2
    <3> QED  BY <1>2, <2>1, <3>1 DEF Serves
  <2> QED  BY <1>3, <1>9, <2>1, ServerSteps
<1>10. CASE Query \/ AddJob
  <2>1. CASE Serves
    <3>1. spc # "reply" /\ spc' # "reply" /\ solved' = solved
      BY <1>10 DEF Query, AddJob, Crash, GoTo, historyVars
    <3> QED  BY <1>2, <2>1, <3>1 DEF Serves
  <2> QED  BY <1>3, <1>10, <2>1, ServerSteps
<1>11. ASSUME spc = "solve", spc' = "reply", UNCHANGED <<cpc, wire, answer, cur>>,
              \A c \in Clients \ {cur} : solved'[c] = solved[c],
              solved' = [c \in Clients |-> solved'[c]],
              out'.code = "ANSWER_OK" => IsAnswer(out', solved'[cur])
       PROVE  AnswerInv'
  <2>1. \A c \in Clients : cpc[c] = "answered" => c # cur
    BY <1>11 DEF ServedInv, Busy
  <2> QED  BY <1>11, <2>1 DEF AnswerInv
<1>12. CASE NotSolved
  <2>1. out' = NoDep(Created("ANSWER_OK"))
    BY <1>12 DEF NotSolved
  <2>2. out'.code = "ANSWER_NO_DEP"
    BY <2>1, CreatedIs, NoDepIs
  <2> QED  BY <1>0, <1>11, <1>12, <2>2 DEF NotSolved, GoTo, clientVars, historyVars
<1>13. CASE Solved
  <2>1. PICK goal \in Solutions :
          /\ solved' = [solved EXCEPT ![cur] = goal]
          /\ LET doc == PkgsInsert(Created("ANSWER_OK"), goal) IN out' \in {doc, NoDep(doc)}
    BY <1>13 DEF Solved
  <2> DEFINE doc == PkgsInsert(Created("ANSWER_OK"), goal)
  <2>2. IsAnswer(doc, goal) /\ IsDoc(doc)
    BY GoalSeqs, PkgsInserted
  <2>3. NoDep(doc).code # "ANSWER_OK"
    BY <2>2, NoDepIs
  <2>4. solved'[cur] = goal /\ solved' = [c \in Clients |-> solved'[c]]
        /\ \A c \in Clients \ {cur} : solved'[c] = solved[c]
    BY <1>0, <2>1
  <2>5. out' \in {doc, NoDep(doc)}
    BY <2>1
  <2> HIDE DEF doc
  <2>6. out'.code = "ANSWER_OK" => IsAnswer(out', solved'[cur])
    BY <2>2, <2>3, <2>4, <2>5
  <2> QED  BY <1>11, <1>13, <2>4, <2>6 DEF Solved, GoTo, clientVars
<1>14. CASE NoLists
  <2>1. CASE Serves
    <3>1. spc = "solve" /\ spc' = "reply" /\ out' = PkgsInsert(Created("ANSWER_OK"), NoGoal)
      BY <1>14, <2>1 DEF NoLists, Crash, GoTo, Serves, Busy
    <3>2. cpc[cur] = "asked"
      BY <3>1 DEF ServedInv, Busy
    <3>3. solved[cur] = NoGoal
      BY <1>0, <3>1, <3>2 DEF AnswerInv
    <3>4. \A name \in Names4 : NoGoal[name] \in Seq(Names)
      <4>1. <<>> \in Seq(Names)
        OBVIOUS
      <4> QED  BY <4>1, NoGoalIs
    <3>5. IsAnswer(out', NoGoal)
      BY <3>1, <3>4, PkgsInserted
    <3>6. solved' = solved
      BY <1>14 DEF NoLists, historyVars
    <3> QED  BY <1>0, <1>11, <2>1, <3>1, <3>3, <3>5, <3>6 DEF Serves
  <2> QED  BY <1>3, <1>14, <2>1, ServerSteps
<1>15. CASE Reply
  <2>1. /\ spc = "reply" /\ spc' = "idle" /\ wire' = [wire EXCEPT ![cur] = out]
        /\ cpc' = [cpc EXCEPT ![cur] = "answered"] /\ UNCHANGED <<answer, solved, cur>>
    BY <1>15 DEF Reply, GoTo
  <2>2. \A c \in Clients \ {cur} : cpc'[c] = cpc[c] /\ wire'[c] = wire[c]
    BY <1>0, <2>1
  <2>3. cpc'[cur] = "answered" /\ wire'[cur] = out
    BY <1>0, <2>1
  <2> QED  BY <1>0, <2>1, <2>2, <2>3 DEF AnswerInv
<1>16. CASE Restart
  <2>1. spc # "reply" /\ spc' = "idle" /\ UNCHANGED <<cpc, wire, answer, solved, cur>>
    BY <1>16 DEF Restart, GoTo, clientVars
  <2> QED  BY <1>2, <2>1
<1>17. CASE Kill
  BY <1>3, <1>17, ServerSteps DEF Kill, Serves, Loses, GoTo, Busy
<1>18. CASE UNCHANGED vars
  BY <1>1, <1>18 DEF vars, clientVars, requestVars, historyVars
<1> QED
  BY <1>4, <1>5, <1>6, <1>7, <1>8, <1>9, <1>10, <1>12, <1>13, <1>14, <1>15, <1>16, <1>17, <1>18
     DEF Next, ServerStep, Done

\* A package as a client reads it.
LEMMA PkgIs ==
  ASSUME NEW pkg
  PROVE  ReadPkg(SolvedObject(pkg)) =
           [pkg_name |-> pkg.name, pkg_loc |-> pkg.release, base_url |-> pkg.base,
            metalink |-> IF pkg.base = NoUrl THEN pkg.repo ELSE NoUrl]
<1> DEFINE x1 == With(NoMembers, "pkg_name", pkg.name)
           x2 == With(x1, "pkg_loc", pkg.release)
           x3 == With(x2, "base_url", pkg.base)
           x4 == With(x3, "metalink", pkg.repo)
<1>1. SolvedObject(pkg) = x4
  BY DEF SolvedObject
<1>2. x1["pkg_name"] = pkg.name /\ DOMAIN x1 = {"pkg_name"}
  BY DEF With, NoMembers
<1> HIDE DEF x1
<1>3. x2["pkg_name"] = pkg.name /\ x2["pkg_loc"] = pkg.release
      /\ DOMAIN x2 = {"pkg_name", "pkg_loc"}
  BY <1>2 DEF With
<1> HIDE DEF x2
<1>4. /\ x3["pkg_name"] = pkg.name /\ x3["pkg_loc"] = pkg.release /\ x3["base_url"] = pkg.base
      /\ DOMAIN x3 = {"pkg_name", "pkg_loc", "base_url"}
  BY <1>3 DEF With
<1> HIDE DEF x3
<1>5. /\ x4["pkg_name"] = pkg.name /\ x4["pkg_loc"] = pkg.release /\ x4["base_url"] = pkg.base
      /\ x4["metalink"] = pkg.repo
  BY <1>4 DEF With
<1> HIDE DEF x4
<1> QED  BY <1>1, <1>5 DEF ReadPkg

LEMMA ListIsRead ==
  ASSUME NEW d, NEW goal, IsAnswer(d, goal), NEW name \in Names4
  PROVE  LET n == Len(goal[name])
             read == ParseAnswer(d, name)
         IN /\ n \in Nat /\ Len(read) = n + 1 /\ read[1] = Nothing
            /\ DOMAIN read = 1..(n + 1)
            /\ \A j \in 1..n : read[n - j + 2] = ReadPkg(SolvedObject(goal[name][j]))
            /\ \A j \in 2..(n + 1) : read[j] = ReadPkg(SolvedObject(goal[name][n - j + 2]))
<1> DEFINE n == Len(goal[name])
           s == [k \in 1..n |-> ReadPkg(SolvedObject(goal[name][n - k + 1]))]
           read == ParseAnswer(d, name)
<1>1. n \in Nat /\ Array(d, name) = [k \in 1..n |-> SolvedObject(goal[name][n - k + 1])]
  BY DEF IsAnswer, Backwards
<1> HIDE DEF n
<1>2. GetCount(d, name) = n
  BY <1>1 DEF GetCount
<1>3. ASSUME NEW k \in 1..n
      PROVE  d.data[name][k] = SolvedObject(goal[name][n - k + 1])
  <2>1. Array(d, name) # <<>>
    <3>1. Len(Array(d, name)) = n /\ n # 0
      BY <1>1, <1>2 DEF GetCount
    <3> QED  BY <3>1
  <2>2. d.data[name] = Array(d, name)
    BY <2>1 DEF Array
  <2> QED  BY <1>1, <2>2
<1>4. read = <<Nothing>> \o s
  <2>1. [k \in 1..n |-> ReadPkg(d.data[name][k])] = s
    BY <1>3
  <2> QED  BY <1>2, <2>1 DEF ParseAnswer
<1> DEFINE V == {ReadPkg(SolvedObject(goal[name][n - k + 1])) : k \in 1..n}
<1>5. s \in [1..n -> V]
  OBVIOUS
<1>6. s \in Seq(V) /\ Len(s) = n
  <2> HIDE DEF s, V
  <2> QED  BY <1>1, <1>5
<1>7. /\ Len(read) = n + 1 /\ read[1] = Nothing /\ DOMAIN read = 1..(n + 1)
      /\ \A j \in 2..(n + 1) : read[j] = s[j - 1]
  <2> HIDE DEF s, V, read
  <2> QED  BY <1>1, <1>4, <1>6
<1>8. \A j \in 2..(n + 1) : read[j] = ReadPkg(SolvedObject(goal[name][n - j + 2]))
  <2> TAKE j \in 2..(n + 1)
  <2>1. j - 1 \in 1..n /\ n - (j - 1) + 1 = n - j + 2
    BY <1>1
  <2>2. s[j - 1] = ReadPkg(SolvedObject(goal[name][n - j + 2]))
    BY <2>1
  <2> HIDE DEF s, read
  <2> QED  BY <1>7, <2>2
<1>9. \A j \in 1..n : read[n - j + 2] = ReadPkg(SolvedObject(goal[name][j]))
  <2> TAKE j \in 1..n
  <2>1. n - j + 2 \in 2..(n + 1) /\ n - (n - j + 2) + 2 = j
    BY <1>1
  <2> HIDE DEF read
  <2> QED  BY <1>8, <2>1
<1> HIDE DEF read
<1> QED  BY <1>1, <1>7, <1>8, <1>9 DEF n, read

\* lists are read of the goal.
ExactLists(lists, goal) ==
  \A name \in ToSet(Lists) :
    /\ Len(lists[name]) = Len(goal[name]) + 1
    /\ lists[name][1] = Nothing
    /\ \A j \in 1..Len(goal[name]) :
         LET read == lists[name][Len(goal[name]) - j + 2]
             pkg == goal[name][j]
         IN /\ read.pkg_name = pkg.name /\ read.pkg_loc = pkg.release
            /\ read.base_url = pkg.base
            /\ read.metalink = IF pkg.base = NoUrl THEN pkg.repo ELSE NoUrl

LEMMA ExactIs ==
  AnswerIsExact <=> \A c \in Clients : cpc[c] = "listed" => ExactLists(answer[c], solved[c])
BY DEF AnswerIsExact, ExactLists

LEMMA ExactIsNext ==
  AnswerIsExact' <=>
    \A c \in Clients : cpc'[c] = "listed" => ExactLists(answer'[c], solved'[c])
BY DEF AnswerIsExact, ExactLists

LEMMA ExactStep ==
  ASSUME AskedInv, ServedInv, AnswerInv, AnswerIsExact, [Next]_vars
  PROVE  AnswerIsExact'
<1>0. /\ cur \in Clients /\ DOMAIN cpc = Clients
      /\ answer = [c \in Clients |-> answer[c]] /\ solved = [c \in Clients |-> solved[c]]
  BY DEF ServedInv, AskedInv, AnswerInv
<1>1. ASSUME \A c \in Clients : cpc'[c] = "listed" =>
               cpc[c] = "listed" /\ answer'[c] = answer[c] /\ solved'[c] = solved[c]
      PROVE  AnswerIsExact'
  <2>1. \A c \in Clients : cpc'[c] = "listed" => ExactLists(answer'[c], solved'[c])
    BY <1>1, ExactIs
  <2> QED  BY <2>1, ExactIsNext
<1>2. ASSUME NEW c \in Clients, Ask(c)
      PROVE  AnswerIsExact'
  <2>1. cpc' = [cpc EXCEPT ![c] = "asked"] /\ UNCHANGED <<answer, solved>>
    BY <1>2 DEF Ask
  <2> QED  BY <1>0, <1>1, <2>1
<1>3. ASSUME NEW c \in Clients, ReadAnswer(c)
      PROVE  AnswerIsExact'
  <2>1. /\ cpc[c] = "answered" /\ solved' = solved
        /\ cpc' = [cpc EXCEPT ![c] = IF wire[c].code = "ANSWER_OK" THEN "listed" ELSE "told"]
    BY <1>3 DEF ReadAnswer, historyVars
  <2>2. CASE wire[c].code # "ANSWER_OK"
    <3>1. answer' = answer
      BY <1>3, <2>2 DEF ReadAnswer
    <3>2. cpc' = [cpc EXCEPT ![c] = "told"]
      BY <2>1, <2>2
    <3>3. \A b \in Clients : cpc'[b] = "listed" => cpc[b] = "listed"
      BY <1>0, <3>2
    <3> QED  BY <1>1, <2>1, <3>1, <3>3
  <2>3. CASE wire[c].code = "ANSWER_OK"
    <3> DEFINE d == wire[c]
               goal == solved[c]
               lists == [name \in ToSet(Lists) |-> ParseAnswer(d, name)]
    <3>1. answer' = [answer EXCEPT ![c] = lists] /\ cpc' = [cpc EXCEPT ![c] = "listed"]
      BY <1>3, <2>1, <2>3 DEF ReadAnswer
    <3>2. IsAnswer(d, goal)
      BY <2>1, <2>3 DEF AnswerInv
    <3>3. answer'[c] = lists /\ \A b \in Clients \ {c} : answer'[b] = answer[b] /\ cpc'[b] = cpc[b]
      BY <1>0, <3>1
    <3> HIDE DEF d, goal
    <3>4. ASSUME NEW name \in ToSet(Lists)
          PROVE  /\ Len(lists[name]) = Len(goal[name]) + 1
                 /\ lists[name][1] = Nothing
                 /\ \A j \in 1..Len(goal[name]) :
                      LET read == lists[name][Len(goal[name]) - j + 2]
                          pkg == goal[name][j]
                      IN /\ read.pkg_name = pkg.name /\ read.pkg_loc = pkg.release
                         /\ read.base_url = pkg.base
                         /\ read.metalink = IF pkg.base = NoUrl THEN pkg.repo ELSE NoUrl
      <4>1. name \in Names4 /\ lists[name] = ParseAnswer(d, name)
        BY ListsAre
      <4> HIDE DEF lists
      <4>2. Len(lists[name]) = Len(goal[name]) + 1 /\ lists[name][1] = Nothing
        BY <3>2, <4>1, ListIsRead
      <4>3. ASSUME NEW j \in 1..Len(goal[name])
            PROVE  LET read == lists[name][Len(goal[name]) - j + 2]
                       pkg == goal[name][j]
                   IN /\ read.pkg_name = pkg.name /\ read.pkg_loc = pkg.release
                      /\ read.base_url = pkg.base
                      /\ read.metalink = IF pkg.base = NoUrl THEN pkg.repo ELSE NoUrl
        <5>1. lists[name][Len(goal[name]) - j + 2] = ReadPkg(SolvedObject(goal[name][j]))
          BY <3>2, <4>1, ListIsRead
        <5> QED  BY <5>1, PkgIs
      <4> QED  BY <4>2, <4>3
    <3> HIDE DEF lists
    <3>5. ExactLists(lists, goal)
      BY <3>4 DEF ExactLists
    <3>6. ASSUME NEW b \in Clients, cpc'[b] = "listed"
          PROVE  ExactLists(answer'[b], solved'[b])
      <4>1. CASE b = c
        BY <2>1, <3>3, <3>5, <4>1 DEF goal
      <4>2. CASE b # c
        <5>1. cpc[b] = "listed" /\ answer'[b] = answer[b] /\ solved'[b] = solved[b]
          BY <2>1, <3>3, <3>6, <4>2
        <5> QED  BY <5>1, ExactIs
      <4> QED  BY <4>1, <4>2
    <3> QED  BY <3>6, ExactIsNext
  <2> QED  BY <2>2, <2>3
<1>4. ASSUME NEW c \in Clients, Leave(c)
      PROVE  AnswerIsExact'
  <2>1. /\ cpc' = [cpc EXCEPT ![c] = "gone"]
        /\ answer' = [answer EXCEPT ![c] = NoGoal] /\ solved' = [solved EXCEPT ![c] = NoGoal]
    BY <1>4 DEF Leave
  <2> QED  BY <1>0, <1>1, <2>1
<1>5. ASSUME NEW c \in Clients, Take(c)
      PROVE  AnswerIsExact'
  BY <1>1, <1>5 DEF Take, clientVars, historyVars
<1>6. CASE Loses
  <2>1. cpc' = [cpc EXCEPT ![cur] = "lost"] /\ UNCHANGED <<answer, solved>>
    BY <1>6 DEF Loses
  <2> QED  BY <1>0, <1>1, <2>1
<1>7. CASE Serves
  <2>1. UNCHANGED <<cpc, answer>> /\ cpc[cur] = "asked"
    BY <1>7 DEF Serves, ServedInv
  <2>2. \A c \in Clients \ {cur} : solved'[c] = solved[c]
    <3>1. CASE Solved
      <4>1. PICK goal \in Solutions :
              /\ solved' = [solved EXCEPT ![cur] = goal]
              /\ LET doc == PkgsInsert(Created("ANSWER_OK"), goal) IN out' \in {doc, NoDep(doc)}
        BY <3>1 DEF Solved
      <4> QED  BY <1>0, <4>1
    <3>2. CASE ~Solved
      <4>1. CASE ReadPackages \/ ReadRepos \/ FoundLocally \/ DownloadStarts
        BY <4>1 DEF ReadPackages, ReadRepos, FoundLocally, DownloadStarts, historyVars
      <4>2. CASE Downloaded \/ DownloadFails \/ AddMetadata \/ FillSack \/ Query \/ AddJob
        BY <4>2 DEF Downloaded, DownloadFails, AddMetadata, FillSack, Query, AddJob, historyVars
      <4>3. CASE NotSolved \/ NoLists \/ Reply \/ Restart \/ Kill
        BY <4>3 DEF NotSolved, NoLists, Reply, Restart, Kill, historyVars
      <4>4. ASSUME NEW c \in Clients, Ask(c) \/ ReadAnswer(c) \/ Leave(c) \/ Take(c)
            PROVE  solved' = solved
        <5>1. CASE Ask(c) \/ ReadAnswer(c) \/ Take(c)
          BY <5>1 DEF Ask, ReadAnswer, Take, historyVars
        <5>2. CASE Leave(c)
          BY <1>7, <5>2 DEF Leave, Serves, Busy
        <5> QED  BY <4>4, <5>1, <5>2
      <4>5. CASE UNCHANGED vars
        BY <4>5 DEF vars, historyVars
      <4> QED  BY <3>2, <4>1, <4>2, <4>3, <4>4, <4>5 DEF Next, ServerStep, Done
    <3> QED  BY <3>1, <3>2
  <2> QED  BY <1>1, <2>1, <2>2
<1>8. CASE Reply
  <2>1. cpc' = [cpc EXCEPT ![cur] = "answered"] /\ UNCHANGED <<answer, solved>>
    BY <1>8 DEF Reply
  <2> QED  BY <1>0, <1>1, <2>1
<1>9. CASE Restart \/ UNCHANGED vars
  BY <1>1, <1>9 DEF Restart, vars, clientVars, historyVars
<1> QED  BY <1>2, <1>3, <1>4, <1>5, <1>6, <1>7, <1>8, <1>9, StepShapes

\* A client reads of each list the packages the goal came to, from the end of
\* the list to its beginning and behind one element that is nothing
\* (json_create.c:393, json_read.c:224).
THEOREM AnswersAreExact == Spec => []AnswerIsExact
<1> DEFINE Inv == /\ AskedInv /\ ServedInv /\ ReadInv /\ LoopInv /\ CacheInv
                  /\ SackInv /\ AnswerInv /\ AnswerIsExact
<1>1. Init => Inv
  <2>1. Init => AnswerIsExact
    BY DEF Init, AnswerIsExact
  <2> QED
    BY <2>1, AskedStart, ServedStart, ReadStart, LoopStart, CacheStart, SackStart, AnswerStart
<1>2. Inv /\ [Next]_vars => Inv'
  BY AskedStep, ServedStep, ReadStep, LoopStep, CacheStep, SackTypes, AnswerStep, ExactStep
<1>3. Inv => AnswerIsExact
  OBVIOUS
<1> QED  BY <1>1, <1>2, <1>3, PTL DEF Spec

-----------------------------------------------------------------------------
(***************************************************************************)
(* What an answer may name, and the service it is an answer of.            *)
(***************************************************************************)
\* Metadata is that of a repository of this request.
MetaInv ==
  \A k \in 1..Len(meta) : \E j \in 1..Len(repos) :
    meta[k].name = repos[j].name /\ meta[k].repo = repos[j].urls[1]

\* A package of a repository, as the cache has it.
IsFrom(kept, repo, p) ==
  LET url == kept[repo.name].url
  IN /\ kept[repo.name] # NoMeta
     /\ p.name \in Published[url.text] /\ p.release = url.release
     /\ p.repo = repo.urls[1]
     /\ p.base = IF p.name \in WithBase THEN url ELSE NoUrl

\* What is not installed in the sack is from the repositories of the request.
SourceInv ==
  spc \in {"query", "solve", "reply"} =>
    \A p \in sack : p \in Own \/ \E k \in 1..Len(repos) : IsFrom(cache, repos[k], p)

\* No two packages of a list agree in name and release.
AllDiffer(pkgs) ==
  \A j, k \in 1..Len(pkgs) :
    pkgs[j].name = pkgs[k].name /\ pkgs[j].release = pkgs[k].release => j = k

\* The lists a goal of an operation on a sack may come to.
GoalOf(goal, operation, ps) ==
  /\ goal["install"] \in Seq({p \in ps : ~IsOwn(p)})
  /\ goal["upgrade"] \in Seq({p \in ps \ Own : Upgrades(p)})
  /\ goal["erase"] \in Seq(Own) /\ goal["obsolete"] = <<>>
  /\ \A name \in Names4 : AllDiffer(goal[name])
  /\ IF operation = "erase" THEN goal["install"] = <<>> /\ goal["upgrade"] = <<>>
                            ELSE goal["erase"] = <<>>

SoundInv ==
  spc = "reply" /\ out.code = "ANSWER_OK" => GoalOf(solved[cur], op[cur], sack)

LEMMA MetaStart == Init => MetaInv
BY DEF Init, MetaInv

\* Metadata is added for the repository the loop is at.
LEMMA MetaStep ==
  ASSUME LoopInv, MetaInv, [Next]_vars
  PROVE  MetaInv'
<1>1. ASSUME meta' = Append(meta, MetaOf(i)), i <= Len(repos), repos' = repos
      PROVE  MetaInv'
  <2> DEFINE new == MetaOf(i)
  <2>1. new.name = repos[i].name /\ new.repo = repos[i].urls[1] /\ i \in 1..Len(repos)
    BY <1>1, HereIs DEF MetaOf
  <2>2. meta \in Seq([name : Ids, repo : Url]) /\ meta' = Append(meta, new)
    BY <1>1 DEF LoopInv
  <2> HIDE DEF new
  <2>3. /\ \A k \in 1..Len(meta) : meta'[k] = meta[k]
        /\ \A k \in 1..Len(meta') : k \in 1..Len(meta) \/ meta'[k] = new
    BY <2>2
  <2>4. ASSUME NEW k \in 1..Len(meta')
        PROVE  \E j \in 1..Len(repos) :
                 meta'[k].name = repos[j].name /\ meta'[k].repo = repos[j].urls[1]
    <3>1. CASE k \in 1..Len(meta)
      <4>1. PICK j \in 1..Len(repos) :
              meta[k].name = repos[j].name /\ meta[k].repo = repos[j].urls[1]
        BY <3>1 DEF MetaInv
      <4> QED  BY <2>3, <3>1, <4>1
    <3>2. CASE meta'[k] = new
      BY <2>1, <3>2
    <3> QED  BY <2>3, <3>1, <3>2
  <2> QED  BY <1>1, <2>4 DEF MetaInv
<1>2. CASE AddMetadata
  <2>1. i <= Len(repos) /\ repos' = repos
    BY <1>2 DEF AddMetadata, LoopInv
  <2>2. CASE spc' = "crashed"
    <3>1. meta' = meta
      BY <1>2, <2>2 DEF AddMetadata, GoTo
    <3> QED  BY <2>1, <3>1 DEF MetaInv
  <2>3. CASE spc' # "crashed"
    <3>1. meta' = Append(meta, MetaOf(i))
      BY <1>2, <2>3 DEF AddMetadata, Crash, GoTo, MetaOf, Folder
    <3> QED  BY <1>1, <2>1, <3>1
  <2> QED  BY <2>2, <2>3
<1>3. ASSUME meta' = <<>>
      PROVE  MetaInv'
  <2>1. 1..Len(meta') = {}
    BY <1>3
  <2> QED  BY <2>1 DEF MetaInv
<1>4. CASE DownloadFails
  BY <1>4 DEF DownloadFails, MetaInv
<1>5. CASE ReadRepos
  BY <1>3, <1>5 DEF ReadRepos, LoopInv
<1>6. CASE Reply \/ Restart
  BY <1>3, <1>6 DEF Reply, Restart, Forget
<1>7. CASE UNCHANGED <<repos, meta>>
  BY <1>7 DEF MetaInv
<1>8. ASSUME [Next]_vars, ~AddMetadata, ~DownloadFails, ~ReadRepos, ~Reply, ~Restart
      PROVE  UNCHANGED <<repos, meta>>
  <2>1. ASSUME NEW c \in Clients, Ask(c) \/ ReadAnswer(c) \/ Leave(c) \/ Take(c)
        PROVE  UNCHANGED <<repos, meta>>
    BY <2>1 DEF Ask, ReadAnswer, Leave, Take, requestVars
  <2>2. CASE ReadPackages \/ FoundLocally \/ DownloadStarts \/ Downloaded
    BY <2>2 DEF ReadPackages, FoundLocally, DownloadStarts, Downloaded, requestVars
  <2>3. CASE FillSack \/ Query \/ AddJob
    BY <2>3 DEF FillSack, Query, AddJob
  <2>4. CASE NotSolved \/ Solved \/ NoLists
    BY <2>4 DEF NotSolved, Solved, NoLists
  <2>5. CASE Kill \/ UNCHANGED vars
    BY <2>5 DEF Kill, vars, requestVars
  <2> QED  BY <1>8, <2>1, <2>2, <2>3, <2>4, <2>5 DEF Next, ServerStep, Done
<1> QED  BY <1>2, <1>4, <1>5, <1>6, <1>7, <1>8

\* A step that neither fills the sack nor is done with it.
LEMMA SourceKept ==
  ASSUME SourceInv, UNCHANGED <<repos, cache, sack>>,
         spc \in {"query", "solve", "reply"} \/ spc' \notin {"query", "solve", "reply"}
  PROVE  SourceInv'
BY DEF SourceInv

LEMMA SourceStart == Init => SourceInv
BY DEF Init, SourceInv

\* The sack is filled from the metadata of the request.
LEMMA SourceStep ==
  ASSUME ServedInv, LoopInv, CacheInv, MetaInv, SourceInv, [Next]_vars
  PROVE  SourceInv'
<1>1. ASSUME UNCHANGED <<spc, repos, cache, sack>>
      PROVE  SourceInv'
  BY <1>1 DEF SourceInv
<1>2. ASSUME spc' \notin {"query", "solve", "reply"} PROVE SourceInv'
  BY <1>2 DEF SourceInv
<1>3. ASSUME NEW c \in Clients, Ask(c) \/ ReadAnswer(c) \/ Leave(c) \/ Take(c)
      PROVE  SourceInv'
  <2>1. CASE Ask(c) \/ ReadAnswer(c) \/ Leave(c)
    BY <1>1, <2>1 DEF Ask, ReadAnswer, Leave, requestVars
  <2>2. CASE Take(c)
    BY <1>2, <2>2 DEF Take, GoTo
  <2> QED  BY <1>3, <2>1, <2>2
<1>4. CASE ReadPackages \/ ReadRepos \/ FoundLocally \/ DownloadStarts
  <2>1. spc' \in {"repos", "locate", "download", "found", "crashed"}
    BY <1>4 DEF ReadPackages, ReadRepos, FoundLocally, DownloadStarts, Locating, Crash, GoTo
  <2> QED  BY <1>2, <2>1
<1>5. CASE Downloaded \/ DownloadFails \/ AddMetadata \/ Reply \/ Restart \/ Kill
  <2>1. spc' \in {"found", "locate", "crashed", "idle", "down"}
    BY <1>5 DEF Downloaded, DownloadFails, AddMetadata, Reply, Restart, Kill, Crash, GoTo
  <2> QED  BY <1>2, <2>1
<1>6. CASE Query \/ AddJob \/ NotSolved \/ Solved \/ NoLists
  <2>1. UNCHANGED <<repos, cache, sack>> /\ spc \in {"query", "solve"}
    <3>1. CASE Query \/ AddJob
      BY <3>1 DEF Query, AddJob
    <3>2. CASE NotSolved \/ Solved
      BY <3>2 DEF NotSolved, Solved
    <3>3. CASE NoLists
      BY <3>3 DEF NoLists
    <3> QED  BY <1>6, <3>1, <3>2, <3>3
  <2> QED  BY <2>1, SourceKept
<1>7. CASE FillSack
  <2>1. PICK part \in [FirstLoaded..Len(meta) -> SUBSET Names] :
          /\ \A j \in FirstLoaded..Len(meta) :
               LET url == cache[meta[j].name].url
               IN IF cache[meta[j].name].state = "whole"
                  THEN part[j] = Published[url.text] ELSE part[j] \subseteq Published[url.text]
          /\ sack' = Own \cup UNION {Packages(meta[j], part[j]) : j \in FirstLoaded..Len(meta)}
    BY <1>7 DEF FillSack
  <2>2. UNCHANGED <<repos, cache>>
    BY <1>7 DEF FillSack
  <2>3. ASSUME NEW p \in sack', p \notin Own
        PROVE  \E k \in 1..Len(repos) : IsFrom(cache, repos[k], p)
    <3>1. PICK j \in 1..Len(meta) : p \in Packages(meta[j], part[j])
      BY <2>1, <2>3 DEF FirstLoaded
    <3>2. PICK k \in 1..Len(repos) :
            meta[j].name = repos[k].name /\ meta[j].repo = repos[k].urls[1]
      BY MetaInv DEF MetaInv
    <3> DEFINE url == cache[meta[j].name].url
    <3>3. part[j] \subseteq Published[url.text]
      BY <2>1 DEF FirstLoaded
    <3>4. PICK n \in part[j] :
            p = [name |-> n, release |-> url.release, repo |-> meta[j].repo,
                 base |-> IF n \in WithBase THEN url ELSE NoUrl]
      BY <3>1 DEF Packages
    <3>5. cache[meta[j].name] # NoMeta
      BY DEF CacheInv
    <3>6. /\ p.name = n /\ p.release = url.release /\ p.repo = meta[j].repo
          /\ p.base = IF n \in WithBase THEN url ELSE NoUrl
      BY <3>4
    <3>7. IsFrom(cache, repos[k], p)
      BY <3>2, <3>3, <3>4, <3>5, <3>6 DEF IsFrom
    <3> QED  BY <3>7
  <2> QED  BY <2>2, <2>3 DEF SourceInv
<1>8. CASE UNCHANGED vars
  BY <1>1, <1>8 DEF vars, requestVars
<1> QED  BY <1>3, <1>4, <1>5, <1>6, <1>7, <1>8 DEF Next, ServerStep, Done

\* A goal is one of its operation, and nothing is in it twice.
LEMMA SolutionIs ==
  ASSUME SackInv, NEW goal \in Solutions
  PROVE  GoalOf(goal, req.code, sack)
<1>1. PICK t \in (SUBSET {p \in sack : ~IsOwn(p)}) \X
                   (SUBSET {p \in sack \ Own : Upgrades(p)}) \X (SUBSET Own) :
        /\ goal = [install |-> SetToSeq(t[1]), upgrade |-> SetToSeq(t[2]),
                   erase |-> SetToSeq(t[3]), obsolete |-> <<>>]
        /\ OneOfEachName(t[1] \cup t[2])
        /\ CASE req.code = "erase" -> t[1] = {} /\ t[2] = {} /\ jobs \cap Own \subseteq t[3]
             [] req.code = "install" ->
                  /\ t[3] = {} /\ jobs \ Own \subseteq t[1] \cup t[2]
                  /\ \A o \in jobs \cap Own, p \in t[2] : p.name # o.name
             [] OTHER ->
                  /\ t[3] = {}
                  /\ \A p \in jobs : Upgrades(p) => \E q \in t[2] \cap jobs : q.name = p.name
  BY DEF Solutions
<1>2. IF req.code = "erase" THEN t[1] = {} /\ t[2] = {} ELSE t[3] = {}
  BY <1>1
<1>3. IsFiniteSet(t[1]) /\ IsFiniteSet(t[2]) /\ IsFiniteSet(t[3])
  <2>1. t[1] \in SUBSET sack /\ t[2] \in SUBSET sack /\ t[3] \in SUBSET Own
    BY <1>1
  <2>2. IsFiniteSet(sack) /\ IsFiniteSet(Own)
    BY SolvAssumption DEF SackInv
  <2> QED  BY <2>1, <2>2, FS_Subset
<1>4. /\ goal["install"] = SetToSeq(t[1]) /\ goal["upgrade"] = SetToSeq(t[2])
      /\ goal["erase"] = SetToSeq(t[3]) /\ goal["obsolete"] = <<>>
  BY <1>1
<1>5. /\ goal["install"] \in Seq(t[1]) /\ goal["upgrade"] \in Seq(t[2])
      /\ goal["erase"] \in Seq(t[3])
  BY <1>3, <1>4, SetToSeqIs
<1>6. SetToSeq({}) = <<>>
  <2>1. SetToSeq({}) \in Seq({})
    BY FS_EmptySet, SetToSeqIs
  <2>2. \A s \in Seq({}) : s = <<>>
    OBVIOUS
  <2> QED  BY <2>1, <2>2
<1>7. IF req.code = "erase" THEN goal["install"] = <<>> /\ goal["upgrade"] = <<>>
                            ELSE goal["erase"] = <<>>
  BY <1>2, <1>4, <1>6
<1>8. ASSUME NEW X, NEW s \in Seq(X), OneOfEachName(X), \A j, k \in 1..Len(s) : s[j] = s[k] => j = k
      PROVE  AllDiffer(s)
  <2>1. \A j \in 1..Len(s) : s[j] \in X
    BY <1>8
  <2> QED  BY <1>8, <2>1 DEF AllDiffer, OneOfEachName
<1>9. AllDiffer(goal["install"]) /\ AllDiffer(goal["upgrade"])
  <2>1. OneOfEachName(t[1]) /\ OneOfEachName(t[2])
    BY <1>1 DEF OneOfEachName
  <2>2. \A j, k \in 1..Len(goal["install"]) : goal["install"][j] = goal["install"][k] => j = k
    BY GoalIs DEF Names4
  <2>3. \A j, k \in 1..Len(goal["upgrade"]) : goal["upgrade"][j] = goal["upgrade"][k] => j = k
    BY GoalIs DEF Names4
  <2> QED  BY <1>5, <1>8, <2>1, <2>2, <2>3
<1>10. AllDiffer(goal["erase"])
  <2> DEFINE s == goal["erase"]
             O == [name : Names, release : Nat, repo : {System}, base : {NoUrl}]
  <2>1. \A j, k \in 1..Len(s) : s[j] = s[k] => j = k
    BY GoalIs DEF Names4
  <2>2. s \in Seq(Own) /\ Own \subseteq O
    BY GoalIs, SolvAssumption
  <2>3. \A p, q \in O : p.name = q.name /\ p.release = q.release => p = q
    OBVIOUS
  <2> HIDE DEF s, O
  <2>4. \A j \in 1..Len(s) : s[j] \in O
    BY <2>2
  <2>5. AllDiffer(s)
    BY <2>1, <2>3, <2>4 DEF AllDiffer
  <2> QED  BY <2>5 DEF s
<1>11. AllDiffer(goal["obsolete"])
  BY <1>4 DEF AllDiffer
<1> QED  BY <1>4, <1>7, <1>9, <1>10, <1>11, GoalIs DEF GoalOf, Names4

\* Lists with nothing in them are a goal of every operation.
LEMMA NoGoalFits ==
  ASSUME NEW operation, NEW ps
  PROVE  GoalOf(NoGoal, operation, ps)
<1>1. \A X : <<>> \in Seq(X)
  OBVIOUS
<1>2. AllDiffer(<<>>)
  BY DEF AllDiffer
<1>3. /\ NoGoal["install"] = <<>> /\ NoGoal["upgrade"] = <<>>
      /\ NoGoal["erase"] = <<>> /\ NoGoal["obsolete"] = <<>>
  BY NoGoalIs DEF Names4
<1> QED  BY <1>1, <1>2, <1>3 DEF GoalOf, Names4

LEMMA SoundStart == Init => SoundInv
BY DEF Init, SoundInv

\* An answer with lists has those of a goal of its request.
LEMMA SoundStep ==
  ASSUME AskedInv, ServedInv, SackInv, AnswerInv, SoundInv, [Next]_vars
  PROVE  SoundInv'
<1>0. /\ cur \in Clients /\ solved = [c \in Clients |-> solved[c]] /\ DOMAIN op = Clients
  BY DEF ServedInv, AskedInv, AnswerInv
<1>1. ASSUME spc' # "reply"
      PROVE  SoundInv'
  BY <1>1 DEF SoundInv
<1>2. ASSUME UNCHANGED <<spc, out, sack, cur>>, solved'[cur] = solved[cur], op'[cur] = op[cur]
      PROVE  SoundInv'
  BY <1>2 DEF SoundInv
<1>3. ASSUME NEW c \in Clients, Ask(c)
      PROVE  SoundInv'
  <2>1. spc' = "idle"
    BY <1>3 DEF Ask, ServedInv
  <2> QED  BY <1>1, <2>1
<1>4. ASSUME NEW c \in Clients, ReadAnswer(c)
      PROVE  SoundInv'
  BY <1>2, <1>4 DEF ReadAnswer, requestVars, historyVars
<1>5. ASSUME NEW c \in Clients, Leave(c) \/ Take(c)
      PROVE  SoundInv'
  <2>1. spc' # "reply"
    BY <1>5 DEF Leave, Take, GoTo
  <2> QED  BY <1>1, <2>1
<1>6. CASE ReadPackages \/ ReadRepos \/ FoundLocally \/ DownloadStarts
  <2>1. spc' \in {"repos", "locate", "download", "found", "crashed"}
    BY <1>6 DEF ReadPackages, ReadRepos, FoundLocally, DownloadStarts, Locating, Crash, GoTo
  <2> QED  BY <1>1, <2>1
<1>7. CASE Downloaded \/ DownloadFails \/ AddMetadata \/ FillSack \/ Reply \/ Restart \/ Kill
  <2>1. spc' \in {"found", "locate", "crashed", "query", "idle", "down"}
    BY <1>7 DEF Downloaded, DownloadFails, AddMetadata, FillSack, Reply, Restart, Kill, Crash, GoTo
  <2> QED  BY <1>1, <2>1
<1>8. CASE Query \/ AddJob
  <2>1. spc' # "reply"
    BY <1>8 DEF Query, AddJob, Crash, GoTo
  <2> QED  BY <1>1, <2>1
<1>9. CASE NotSolved
  <2>1. out' = NoDep(Created("ANSWER_OK"))
    BY <1>9 DEF NotSolved
  <2>2. out'.code = "ANSWER_NO_DEP"
    BY <2>1, CreatedIs, NoDepIs
  <2> QED  BY <2>2 DEF SoundInv
<1>10. CASE Solved
  <2>1. PICK goal \in Solutions :
          /\ solved' = [solved EXCEPT ![cur] = goal]
          /\ LET doc == PkgsInsert(Created("ANSWER_OK"), goal) IN out' \in {doc, NoDep(doc)}
    BY <1>10 DEF Solved
  <2>2. req.code = op[cur]
    BY <1>10 DEF Solved, ServedInv, Busy, Says
  <2>3. GoalOf(goal, op[cur], sack)
    BY <2>2, SolutionIs
  <2>4. UNCHANGED <<cur, sack, op>>
    BY <1>10 DEF Solved, clientVars
  <2>5. solved'[cur] = goal
    BY <1>0, <2>1
  <2> QED  BY <2>3, <2>4, <2>5 DEF SoundInv
<1>11. CASE NoLists
  <2>1. UNCHANGED <<cur, sack, op, solved>> /\ spc = "solve"
    BY <1>11 DEF NoLists, historyVars
  <2>2. cpc[cur] = "asked"
    BY <2>1 DEF ServedInv, Busy
  <2>3. solved[cur] = NoGoal
    BY <1>0, <2>1, <2>2 DEF AnswerInv
  <2> QED  BY <2>1, <2>3, NoGoalFits DEF SoundInv
<1>12. CASE UNCHANGED vars
  BY <1>2, <1>12 DEF vars, clientVars, requestVars, historyVars
<1> QED
  BY <1>3, <1>4, <1>5, <1>6, <1>7, <1>8, <1>9, <1>10, <1>11, <1>12 DEF Next, ServerStep, Done

-----------------------------------------------------------------------------
(***************************************************************************)
(* The service, seen through its mapping.                                  *)
(***************************************************************************)
\* How far a client is, as the service counts it.
RunOf(c) ==
  CASE cpc[c] = "told" -> "refused"
    [] cpc[c] = "listed" -> "answered"
    [] cpc[c] = "answered" /\ wire[c].code # "ANSWER_OK" -> "refused"
    [] OTHER -> cpc[c]

AsksOf(c) == [op |-> op[c], repos |-> Meant(c), want |-> want[c]]

Read4(doc) == [name \in ToSet(Lists) |-> ParseAnswer(doc, name)]

GetsOf(c) ==
  IF cpc[c] = "answered" /\ wire[c].code = "ANSWER_OK" THEN Read4(wire[c]) ELSE answer[c]

KnownOf(name) == [url |-> cache[name].url, whole |-> cache[name].state = "whole"]

SeenRun == [c \in Clients |-> RunOf(c)]
SeenAsks == [c \in Clients |-> AsksOf(c)]
SeenGets == [c \in Clients |-> GetsOf(c)]
SeenKnown == [name \in DOMAIN cache |-> KnownOf(name)]

seen == <<SeenRun, SeenAsks, SeenGets, SeenKnown>>

LEMMA SeenVars == Service!vars = seen
BY DEF Service!vars, seen, SeenRun, SeenAsks, SeenGets, SeenKnown, RunOf, AsksOf, GetsOf, KnownOf, Read4

LEMMA SeenVarsNext == (Service!vars)' = <<SeenRun', SeenAsks', SeenGets', SeenKnown'>>
BY SeenVars DEF Service!vars, seen, SeenRun, SeenAsks, SeenGets, SeenKnown, RunOf, AsksOf, GetsOf, KnownOf, Read4

LEMMA AskSeen ==
  ASSUME NEW c \in Clients, SeenRun[c] = "idle",
         SeenRun' = [SeenRun EXCEPT ![c] = "asked"],
         \A d \in Clients \ {c} : SeenAsks'[d] = SeenAsks[d],
         SeenGets' = SeenGets, SeenKnown' = SeenKnown
  PROVE  Service!Ask(c)
BY DEF Service!Ask, Service!Changes, SeenRun, SeenAsks, SeenGets, SeenKnown, RunOf, AsksOf, GetsOf, KnownOf, Read4

LEMMA FailSeen ==
  ASSUME NEW c \in Clients, SeenRun[c] = "asked", NEW why \in {"refused", "lost"},
         SeenRun' = [SeenRun EXCEPT ![c] = why],
         SeenAsks' = SeenAsks,
         SeenGets' = SeenGets, SeenKnown' = SeenKnown
  PROVE  Service!Fail(c)
BY DEF Service!Fail, SeenRun, SeenAsks, SeenGets, SeenKnown, RunOf, AsksOf, GetsOf, KnownOf, Read4

LEMMA LearnSeen ==
  ASSUME NEW c \in Clients, NEW k,
         SeenRun[c] = "asked", ~SeenKnown[SeenAsks[c].repos[k].name].whole,
         NEW j \in DOMAIN SeenAsks[c].repos[k].urls,
         SeenKnown' = [SeenKnown EXCEPT ![SeenAsks[c].repos[k].name] =
                         [url |-> SeenAsks[c].repos[k].urls[j], whole |-> FALSE]],
         SeenRun' = SeenRun, SeenAsks' = SeenAsks, SeenGets' = SeenGets
  PROVE  Service!Learn(c, k)
BY DEF Service!Learn, SeenRun, SeenAsks, SeenGets, SeenKnown, RunOf, AsksOf, GetsOf, KnownOf, Read4

LEMMA CompleteSeen ==
  ASSUME NEW name \in DOMAIN SeenKnown, SeenKnown[name].url # NoUrl,
         SeenKnown' = [SeenKnown EXCEPT ![name].whole = TRUE],
         SeenRun' = SeenRun, SeenAsks' = SeenAsks, SeenGets' = SeenGets
  PROVE  Service!Complete(name)
BY DEF Service!Complete, SeenRun, SeenAsks, SeenGets, SeenKnown, RunOf, AsksOf, GetsOf, KnownOf, Read4

LEMMA LeaveSeen ==
  ASSUME NEW c \in Clients, SeenRun[c] \in {"answered", "refused", "lost"},
         SeenRun' = [SeenRun EXCEPT ![c] = "gone"],
         SeenAsks' = [SeenAsks EXCEPT ![c] = [op |-> "install", repos |-> <<>>, want |-> <<>>]],
         SeenGets' = [SeenGets EXCEPT ![c] = NoGoal],
         SeenKnown' = SeenKnown
  PROVE  Service!Leave(c)
BY DEF Service!Leave, SeenRun, SeenAsks, SeenGets, SeenKnown, RunOf, AsksOf, GetsOf, KnownOf, Read4

\* A package a client reads, of a repository of its request.
ReadFrom(repo, pkg, knows) ==
  LET url == knows[repo.name].url
  IN /\ url # NoUrl
     /\ pkg.pkg_name \in Published[url.text] /\ pkg.pkg_loc = url.release
     /\ \/ pkg.base_url = url /\ pkg.metalink = NoUrl
        \/ pkg.base_url = NoUrl /\ pkg.metalink = repo.urls[1]

\* The lists a client reads, as the service has them.
Fits(request, lists, knows) ==
  /\ \A l \in DOMAIN lists : lists[l][1] = Nothing
  /\ \A l \in DOMAIN lists : \A j, k \in DOMAIN lists[l] :
       lists[l][j] = lists[l][k] => j = k
  /\ \A l \in {"install", "upgrade"} : \A j \in 2..Len(lists[l]) :
       \E k \in DOMAIN request.repos : ReadFrom(request.repos[k], lists[l][j], knows)
  /\ \A j \in 2..Len(lists["erase"]) : lists["erase"][j].pkg_name \in {p.name : p \in Own}
  /\ IF request.op = "erase" THEN Len(lists["install"]) + Len(lists["upgrade"]) = 2
                             ELSE Len(lists["erase"]) = 1

LEMMA AnswerSeen ==
  ASSUME NEW c \in Clients, SeenRun[c] = "asked",
         SeenRun' = [SeenRun EXCEPT ![c] = "answered"],
         \A d \in Clients \ {c} : SeenGets'[d] = SeenGets[d],
         Fits(SeenAsks[c], SeenGets'[c], SeenKnown),
         SeenAsks' = SeenAsks, SeenKnown' = SeenKnown
  PROVE  Service!Answer(c)
BY DEF Service!Answer, Service!Changes, Service!Sound, Service!FromRepo, Fits, ReadFrom,
       SeenRun, SeenAsks, SeenGets, SeenKnown, RunOf, AsksOf, GetsOf, KnownOf, Read4

LEMMA InitSeen ==
  ASSUME SeenRun = [c \in Clients |-> "idle"],
         SeenAsks = [c \in Clients |-> [op |-> "install", repos |-> <<>>, want |-> <<>>]],
         SeenGets = [c \in Clients |-> NoGoal],
         \A name \in DOMAIN SeenKnown : ~SeenKnown[name].whole /\ SeenKnown[name].url = NoUrl
  PROVE  Service!Init
BY DEF Service!Init, SeenRun, SeenAsks, SeenGets, SeenKnown, RunOf, AsksOf, GetsOf, KnownOf, Read4

\* A step of the service is one of the six.
LEMMA NextSeen ==
  ASSUME \/ \E c \in Clients :
              Service!Ask(c) \/ Service!Answer(c) \/ Service!Fail(c) \/ Service!Leave(c)
         \/ \E c \in Clients : \E k \in DOMAIN SeenAsks[c].repos : Service!Learn(c, k)
         \/ \E name \in DOMAIN SeenKnown : Service!Complete(name)
  PROVE  Service!Next
BY DEF Service!Next, SeenAsks, SeenKnown, AsksOf, KnownOf

-----------------------------------------------------------------------------
(***************************************************************************)
(* An answer is one of the service.                                        *)
(***************************************************************************)
\* What a client reads of a package is not the element that is nothing, and
\* tells it from any other of its list.
LEMMA PkgIsRead ==
  ASSUME NEW p, p.repo # NoUrl, NEW q
  PROVE  /\ ReadPkg(SolvedObject(p)) # Nothing
         /\ ReadPkg(SolvedObject(p)) = ReadPkg(SolvedObject(q)) =>
              p.name = q.name /\ p.release = q.release
<1>1. ReadPkg(SolvedObject(p)) =
        [pkg_name |-> p.name, pkg_loc |-> p.release, base_url |-> p.base,
         metalink |-> IF p.base = NoUrl THEN p.repo ELSE NoUrl]
  BY PkgIs
<1>2. ReadPkg(SolvedObject(q)) =
        [pkg_name |-> q.name, pkg_loc |-> q.release, base_url |-> q.base,
         metalink |-> IF q.base = NoUrl THEN q.repo ELSE NoUrl]
  BY PkgIs
<1> DEFINE x == ReadPkg(SolvedObject(p))
           y == ReadPkg(SolvedObject(q))
<1>3. /\ x.base_url = p.base /\ x.metalink = IF p.base = NoUrl THEN p.repo ELSE NoUrl
      /\ x.pkg_name = p.name /\ x.pkg_loc = p.release
  BY <1>1
<1>4. y.pkg_name = q.name /\ y.pkg_loc = q.release
  BY <1>2
<1>5. Nothing.base_url = NoUrl /\ Nothing.metalink = NoUrl
  BY DEF Nothing
<1> HIDE DEF x, y
<1>6. x # Nothing
  BY <1>3, <1>5
<1>7. x = y => p.name = q.name /\ p.release = q.release
  BY <1>3, <1>4
<1> QED  BY <1>6, <1>7 DEF x, y

\* Where a package of the sack is from is known.
LEMMA SomeRepo ==
  ASSUME SackInv, NEW p \in sack \cup Own
  PROVE  p.repo # NoUrl
<1>1. CASE p \in Own
  BY <1>1, SolvAssumption
<1>2. CASE p \in Found
  BY <1>2, SolvAssumption DEF Found
<1> QED  BY <1>1, <1>2 DEF SackInv

\* A package of the sack is read as one of the repository it was found in.
LEMMA FromIsRead ==
  ASSUME CacheInv, NEW repo, repo.name \in Ids, NEW p, IsFrom(cache, repo, p)
  PROVE  ReadFrom(repo, ReadPkg(SolvedObject(p)), SeenKnown)
<1> DEFINE url == cache[repo.name].url
<1>1. SeenKnown[repo.name].url = url
  BY DEF SeenKnown, KnownOf, CacheInv
<1>2. cache[repo.name] \in [url : Url, state : {"cut", "whole"}]
  BY DEF CacheInv, IsFrom
<1>3. url \in Url /\ url # NoUrl
  BY <1>2, SolvAssumption
<1>4. /\ p.name \in Published[url.text] /\ p.release = url.release
      /\ p.repo = repo.urls[1]
      /\ p.base = IF p.name \in WithBase THEN url ELSE NoUrl
  BY DEF IsFrom
<1> DEFINE x == ReadPkg(SolvedObject(p))
<1>5. /\ x.pkg_name = p.name /\ x.pkg_loc = p.release /\ x.base_url = p.base
      /\ x.metalink = IF p.base = NoUrl THEN p.repo ELSE NoUrl
  BY PkgIs
<1> HIDE DEF x, url
<1> QED  BY <1>1, <1>3, <1>4, <1>5 DEF ReadFrom, x

\* An answer with lists is one the service may give.
LEMMA AnswerFits ==
  ASSUME ServedInv, ReadInv, LoopInv, CacheInv, SackInv, AnswerInv, SourceInv, SoundInv,
         spc = "reply", out.code = "ANSWER_OK"
  PROVE  Fits(AsksOf(cur), Read4(out), SeenKnown)
<1> DEFINE goal == solved[cur]
           lists == Read4(out)
           n(l) == Len(goal[l])
<1>1. IsAnswer(out, goal) /\ GoalOf(goal, op[cur], sack)
  BY DEF AnswerInv, SoundInv
<1>2. \A l \in Names4 : goal[l] \in Seq(sack \cup Own)
  <2>1. \A X, Y : X \subseteq Y => \A s \in Seq(X) : s \in Seq(Y)
    OBVIOUS
  <2>2. /\ {p \in sack : ~IsOwn(p)} \subseteq sack \cup Own
        /\ {p \in sack \ Own : Upgrades(p)} \subseteq sack \cup Own
        /\ Own \subseteq sack \cup Own /\ <<>> \in Seq(sack \cup Own)
    OBVIOUS
  <2> QED  BY <1>1, <2>1, <2>2 DEF GoalOf, Names4
<1>3. DOMAIN lists = Names4 /\ \A l \in Names4 : lists[l] = ParseAnswer(out, l)
  BY ListsAre DEF Read4
<1>4. AsksOf(cur).op = op[cur] /\ AsksOf(cur).repos = repos
  BY DEF AsksOf, ReadInv, Read, Busy
<1> HIDE DEF goal, lists
<1>5. ASSUME NEW l \in Names4
      PROVE  /\ n(l) \in Nat /\ Len(lists[l]) = n(l) + 1 /\ lists[l][1] = Nothing
             /\ DOMAIN lists[l] = 1..(n(l) + 1)
             /\ \A j \in 2..(n(l) + 1) :
                  lists[l][j] = ReadPkg(SolvedObject(goal[l][n(l) - j + 2]))
  BY <1>1, <1>3, ListIsRead
<1>6. ASSUME NEW l \in Names4, NEW j \in 2..(n(l) + 1)
      PROVE  n(l) - j + 2 \in 1..n(l)
  BY <1>5
<1>7. ASSUME NEW l \in Names4, NEW j \in DOMAIN lists[l], NEW k \in DOMAIN lists[l],
             lists[l][j] = lists[l][k]
      PROVE  j = k
  <2>1. AllDiffer(goal[l])
    BY <1>1 DEF GoalOf
  <2>2. ASSUME NEW m \in 2..(n(l) + 1)
        PROVE  goal[l][n(l) - m + 2].repo # NoUrl
    <3>1. goal[l][n(l) - m + 2] \in sack \cup Own
      BY <1>2, <1>6
    <3> QED  BY <3>1, SomeRepo
  <2>3. ASSUME NEW m \in 2..(n(l) + 1)
        PROVE  lists[l][m] # Nothing
    <3>1. lists[l][m] = ReadPkg(SolvedObject(goal[l][n(l) - m + 2]))
      BY <1>5
    <3> QED  BY <2>2, <3>1, PkgIsRead
  <2>4. n(l) \in Nat /\ j \in 1..(n(l) + 1) /\ k \in 1..(n(l) + 1)
    BY <1>5
  <2>5. CASE j = 1 \/ k = 1
    <3>1. lists[l][1] = Nothing
      BY <1>5
    <3>2. ASSUME NEW m \in 1..(n(l) + 1), lists[l][m] = Nothing
          PROVE  m = 1
      <4>1. m = 1 \/ m \in 2..(n(l) + 1)
        BY <2>4
      <4> QED  BY <2>3, <3>2, <4>1
    <3> QED  BY <1>7, <2>4, <2>5, <3>1, <3>2
  <2>6. CASE j # 1 /\ k # 1
    <3>1. j \in 2..(n(l) + 1) /\ k \in 2..(n(l) + 1)
      BY <2>4, <2>6
    <3> DEFINE a == n(l) - j + 2
               b == n(l) - k + 2
    <3>2. a \in 1..n(l) /\ b \in 1..n(l)
      BY <1>6, <3>1
    <3>3. ReadPkg(SolvedObject(goal[l][a])) = ReadPkg(SolvedObject(goal[l][b]))
      BY <1>5, <1>7, <3>1
    <3>4. goal[l][a].repo # NoUrl
      BY <2>2, <3>1
    <3>5. a = b
      <4> HIDE DEF a, b
      <4>1. goal[l][a].name = goal[l][b].name /\ goal[l][a].release = goal[l][b].release
        BY <3>3, <3>4, PkgIsRead
      <4> QED  BY <2>1, <3>2, <4>1 DEF AllDiffer
    <3> QED  BY <2>4, <3>5
  <2> QED  BY <2>5, <2>6
<1>8. ASSUME NEW l \in {"install", "upgrade"}, NEW j \in 2..Len(lists[l])
      PROVE  \E k \in DOMAIN AsksOf(cur).repos :
               ReadFrom(AsksOf(cur).repos[k], lists[l][j], SeenKnown)
  <2>1. l \in Names4 /\ j \in 2..(n(l) + 1)
    BY <1>5, <1>8 DEF Names4
  <2> DEFINE p == goal[l][n(l) - j + 2]
  <2>2. p \in sack /\ p \notin Own
    <3>1. \A q \in Own : IsOwn(q)
      BY DEF IsOwn
    <3>2. goal[l] \in Seq(sack \ Own)
      <4>1. {q \in sack : ~IsOwn(q)} \subseteq sack \ Own
            /\ {q \in sack \ Own : Upgrades(q)} \subseteq sack \ Own
        BY <3>1
      <4>2. \A X, Y : X \subseteq Y => \A s \in Seq(X) : s \in Seq(Y)
        OBVIOUS
      <4> QED  BY <1>1, <1>8, <4>1, <4>2 DEF GoalOf
    <3>3. goal[l][n(l) - j + 2] \in sack \ Own
      BY <1>6, <2>1, <3>2
    <3> QED  BY <3>3
  <2>3. lists[l][j] = ReadPkg(SolvedObject(p))
    BY <1>5, <2>1
  <2> HIDE DEF p
  <2>4. PICK k \in 1..Len(repos) : IsFrom(cache, repos[k], p)
    BY <2>2 DEF SourceInv
  <2>5. repos[k].name \in Ids /\ k \in DOMAIN repos
    <3>1. \A r \in Local : r.name \in Ids
      BY DEF Local
    <3>2. repos \in Seq(Local)
      BY DEF LoopInv
    <3> QED  BY <3>1, <3>2
  <2>6. ReadFrom(repos[k], lists[l][j], SeenKnown)
    BY <2>3, <2>4, <2>5, FromIsRead
  <2> QED  BY <1>4, <2>5, <2>6
<1>9. ASSUME NEW j \in 2..Len(lists["erase"])
      PROVE  lists["erase"][j].pkg_name \in {p.name : p \in Own}
  <2>1. "erase" \in Names4
    BY DEF Names4
  <2>2. j \in 2..(n("erase") + 1)
    BY <1>5, <1>9, <2>1
  <2> DEFINE p == goal["erase"][n("erase") - j + 2]
  <2>3. p \in Own
    <3>1. goal["erase"] \in Seq(Own)
      BY <1>1 DEF GoalOf
    <3> QED  BY <1>6, <2>1, <2>2, <3>1
  <2>4. lists["erase"][j] = ReadPkg(SolvedObject(p))
    BY <1>5, <2>1, <2>2
  <2> HIDE DEF p
  <2>5. lists["erase"][j].pkg_name = p.name
    BY <2>4, PkgIs
  <2> QED  BY <2>3, <2>5
<1>10. IF op[cur] = "erase" THEN Len(lists["install"]) + Len(lists["upgrade"]) = 2
                            ELSE Len(lists["erase"]) = 1
  <2>1. IF op[cur] = "erase" THEN n("install") = 0 /\ n("upgrade") = 0 ELSE n("erase") = 0
    BY <1>1 DEF GoalOf
  <2>2. "install" \in Names4 /\ "upgrade" \in Names4 /\ "erase" \in Names4
    BY DEF Names4
  <2>3. /\ Len(lists["install"]) = n("install") + 1 /\ Len(lists["upgrade"]) = n("upgrade") + 1
        /\ Len(lists["erase"]) = n("erase") + 1
    BY <1>5, <2>2
  <2> HIDE DEF n
  <2> QED  BY <2>1, <2>3
<1>11. \A l \in DOMAIN lists : lists[l][1] = Nothing
  BY <1>3, <1>5
<1>12. \A l \in DOMAIN lists : \A j, k \in DOMAIN lists[l] : lists[l][j] = lists[l][k] => j = k
  BY <1>3, <1>7
<1>13. Fits(AsksOf(cur), lists, SeenKnown)
  BY <1>4, <1>8, <1>9, <1>10, <1>11, <1>12 DEF Fits
<1> QED  BY <1>13 DEF lists

-----------------------------------------------------------------------------
(***************************************************************************)
(* Every step is one of the service, or none.                              *)
(***************************************************************************)
LEMMA MeantEmpty ==
  ASSUME NEW c
  PROVE  /\ conf[c] = <<>> => Meant(c) = <<>>
         /\ conf'[c] = <<>> => Meant(c)' = <<>>
<1> DEFINE E == Enabled(<<>>)
<1>1. <<>> \in Seq(Repository) /\ EnabledOf(<<>>) = {}
  BY DEF EnabledOf, ToSet
<1>2. E \in Seq({})
  BY <1>1, EnabledIs
<1>3. E = <<>>
  <2>1. \A s \in Seq({}) : s = <<>>
    OBVIOUS
  <2> QED  BY <1>2, <2>1
<1>4. \A m : [j \in 1..Len(<<>>) |-> m[j]] = <<>>
  OBVIOUS
<1> HIDE DEF E
<1>5. ASSUME conf[c] = <<>>
      PROVE  Meant(c) = <<>>
  <2>1. Meant(c) = [j \in 1..Len(E) |-> MeantRepo(c, E[j])]
    BY <1>5, MeantIs DEF E
  <2> QED  BY <1>3, <2>1
<1>6. ASSUME conf'[c] = <<>>
      PROVE  Meant(c)' = <<>>
  <2>1. Meant(c)' = [j \in 1..Len(E) |-> MeantRepo(c, E[j])]
    BY <1>6 DEF Meant, MeantRepo, E
  <2> QED  BY <1>3, <2>1
<1> QED  BY <1>5, <1>6

\* A client of which nothing changes is seen as before.
LEMMA SameSeen ==
  ASSUME NEW c, cpc'[c] = cpc[c], wire'[c] = wire[c], answer'[c] = answer[c],
         op'[c] = op[c], conf'[c] = conf[c], want'[c] = want[c]
  PROVE  RunOf(c)' = RunOf(c) /\ AsksOf(c)' = AsksOf(c) /\ GetsOf(c)' = GetsOf(c)
<1>1. Meant(c)' = Meant(c)
  BY MeantSame
<1> QED  BY <1>1 DEF RunOf, AsksOf, GetsOf, Read4

LEMMA AllSame ==
  ASSUME UNCHANGED <<cpc, wire, answer, op, conf, want, cache>>
  PROVE  UNCHANGED Service!vars
<1>1. \A c \in Clients : RunOf(c)' = RunOf(c) /\ AsksOf(c)' = AsksOf(c) /\ GetsOf(c)' = GetsOf(c)
  BY SameSeen
<1>2. SeenRun' = SeenRun /\ SeenAsks' = SeenAsks /\ SeenGets' = SeenGets
  BY <1>1 DEF SeenRun, SeenAsks, SeenGets
<1>3. SeenKnown' = SeenKnown
  BY DEF SeenKnown, KnownOf
<1> QED  BY <1>2, <1>3, SeenVars, SeenVarsNext DEF seen

\* One client is seen otherwise, and what is known stays.
LEMMA OneSeen ==
  ASSUME NEW c \in Clients, cache' = cache,
         \A d \in Clients \ {c} :
           /\ cpc'[d] = cpc[d] /\ wire'[d] = wire[d] /\ answer'[d] = answer[d]
           /\ op'[d] = op[d] /\ conf'[d] = conf[d] /\ want'[d] = want[d]
  PROVE  /\ SeenKnown' = SeenKnown
         /\ SeenRun' = [SeenRun EXCEPT ![c] = RunOf(c)']
         /\ SeenAsks' = [SeenAsks EXCEPT ![c] = AsksOf(c)']
         /\ SeenGets' = [SeenGets EXCEPT ![c] = GetsOf(c)']
         /\ AsksOf(c)' = AsksOf(c) => SeenAsks' = SeenAsks
         /\ GetsOf(c)' = GetsOf(c) => SeenGets' = SeenGets
         /\ RunOf(c)' = RunOf(c) => SeenRun' = SeenRun
<1>1. \A d \in Clients \ {c} :
        RunOf(d)' = RunOf(d) /\ AsksOf(d)' = AsksOf(d) /\ GetsOf(d)' = GetsOf(d)
  BY SameSeen
<1>2. SeenRun' = [d \in Clients |-> RunOf(d)'] /\ SeenAsks' = [d \in Clients |-> AsksOf(d)']
      /\ SeenGets' = [d \in Clients |-> GetsOf(d)']
  BY DEF SeenRun, SeenAsks, SeenGets
<1>3. SeenRun = [d \in Clients |-> RunOf(d)] /\ SeenAsks = [d \in Clients |-> AsksOf(d)]
      /\ SeenGets = [d \in Clients |-> GetsOf(d)]
  BY DEF SeenRun, SeenAsks, SeenGets
<1>4. SeenKnown' = SeenKnown
  BY DEF SeenKnown, KnownOf
<1> QED  BY <1>1, <1>2, <1>3, <1>4

ServiceStep == Service!Next \/ UNCHANGED Service!vars

LEMMA AskIsSeen ==
  ASSUME AskedInv, NEW c \in Clients, Ask(c)
  PROVE  ServiceStep
<1>1. PICK rs \in Confs, o \in Operations, w \in Wanted :
        /\ o = "update_all" => w = <<>>
        /\ o = "update" => w # <<>>
        /\ conf' = [conf EXCEPT ![c] = rs]
        /\ want' = [want EXCEPT ![c] = w]
        /\ op' = [op EXCEPT ![c] = o]
        /\ wire' = [wire EXCEPT ![c] = Request(c, o, rs, w)]
  BY DEF Ask
<1>2. cpc[c] = "idle" /\ cpc' = [cpc EXCEPT ![c] = "asked"] /\ UNCHANGED <<answer, cache>>
  BY DEF Ask
<1>3. /\ DOMAIN cpc = Clients /\ DOMAIN conf = Clients /\ DOMAIN want = Clients
      /\ DOMAIN op = Clients /\ wire = [d \in Clients |-> wire[d]]
  BY DEF AskedInv
<1>4. \A d \in Clients \ {c} :
        /\ cpc'[d] = cpc[d] /\ wire'[d] = wire[d] /\ answer'[d] = answer[d]
        /\ op'[d] = op[d] /\ conf'[d] = conf[d] /\ want'[d] = want[d]
  BY <1>1, <1>2, <1>3
<1>5. cpc'[c] = "asked"
  BY <1>2, <1>3
<1>6. RunOf(c) = "idle" /\ RunOf(c)' = "asked" /\ GetsOf(c)' = GetsOf(c)
  BY <1>2, <1>5 DEF RunOf, GetsOf
<1>7. SeenRun[c] = "idle"
  BY <1>6 DEF SeenRun
<1>8. \A d \in Clients \ {c} : SeenAsks'[d] = SeenAsks[d]
  BY <1>4, SameSeen DEF SeenAsks
<1>9. Service!Ask(c)
  BY <1>2, <1>4, <1>6, <1>7, <1>8, OneSeen, AskSeen
<1> QED  BY <1>9, NextSeen DEF ServiceStep

LEMMA ReadIsSeen ==
  ASSUME AskedInv, AnswerInv, NEW c \in Clients, ReadAnswer(c)
  PROVE  ServiceStep
<1>1. /\ cpc[c] = "answered"
      /\ cpc' = [cpc EXCEPT ![c] = IF wire[c].code = "ANSWER_OK" THEN "listed" ELSE "told"]
      /\ wire' = [wire EXCEPT ![c] = NoDoc]
      /\ UNCHANGED <<conf, want, op, cache>>
  BY DEF ReadAnswer
<1>2. /\ DOMAIN cpc = Clients /\ wire = [d \in Clients |-> wire[d]]
      /\ answer = [d \in Clients |-> answer[d]]
  BY DEF AskedInv, AnswerInv
<1>3. IF wire[c].code = "ANSWER_OK"
      THEN /\ answer'[c] = Read4(wire[c]) /\ cpc'[c] = "listed"
           /\ \A d \in Clients \ {c} : answer'[d] = answer[d]
      ELSE answer' = answer /\ cpc'[c] = "told"
  BY <1>1, <1>2 DEF ReadAnswer, Read4
<1>4. \A d \in Clients \ {c} :
        /\ cpc'[d] = cpc[d] /\ wire'[d] = wire[d] /\ answer'[d] = answer[d]
        /\ op'[d] = op[d] /\ conf'[d] = conf[d] /\ want'[d] = want[d]
  BY <1>1, <1>2, <1>3
<1>5. RunOf(c)' = RunOf(c) /\ GetsOf(c)' = GetsOf(c)
  BY <1>1, <1>3 DEF RunOf, GetsOf
<1>6. AsksOf(c)' = AsksOf(c)
  BY <1>1, MeantSame DEF AsksOf
<1>7. UNCHANGED seen
  BY <1>1, <1>4, <1>5, <1>6, OneSeen DEF seen
<1> QED  BY <1>7, SeenVars, SeenVarsNext DEF ServiceStep, seen

LEMMA LeaveIsSeen ==
  ASSUME AskedInv, AnswerInv, NEW c \in Clients, Leave(c)
  PROVE  ServiceStep
<1>1. /\ cpc[c] \in {"listed", "told", "lost"}
      /\ cpc' = [cpc EXCEPT ![c] = "gone"]
      /\ conf' = [conf EXCEPT ![c] = <<>>] /\ want' = [want EXCEPT ![c] = <<>>]
      /\ op' = [op EXCEPT ![c] = "install"]
      /\ answer' = [answer EXCEPT ![c] = NoGoal]
      /\ UNCHANGED <<wire, cache>>
  BY DEF Leave
<1>2. /\ DOMAIN cpc = Clients /\ DOMAIN conf = Clients /\ DOMAIN want = Clients
      /\ DOMAIN op = Clients /\ answer = [d \in Clients |-> answer[d]]
  BY DEF AskedInv, AnswerInv
<1>3. \A d \in Clients \ {c} :
        /\ cpc'[d] = cpc[d] /\ wire'[d] = wire[d] /\ answer'[d] = answer[d]
        /\ op'[d] = op[d] /\ conf'[d] = conf[d] /\ want'[d] = want[d]
  BY <1>1, <1>2
<1>4. /\ cpc'[c] = "gone" /\ conf'[c] = <<>> /\ want'[c] = <<>> /\ op'[c] = "install"
      /\ answer'[c] = NoGoal
  BY <1>1, <1>2
<1>5. RunOf(c) \in {"answered", "refused", "lost"} /\ RunOf(c)' = "gone" /\ GetsOf(c)' = NoGoal
  BY <1>1, <1>4 DEF RunOf, GetsOf
<1>6. AsksOf(c)' = [op |-> "install", repos |-> <<>>, want |-> <<>>]
  BY <1>4, MeantEmpty DEF AsksOf
<1>7. SeenRun[c] \in {"answered", "refused", "lost"}
  BY <1>5 DEF SeenRun
<1>8. Service!Leave(c)
  BY <1>1, <1>3, <1>5, <1>6, <1>7, OneSeen, LeaveSeen
<1> QED  BY <1>8, NextSeen DEF ServiceStep

\* The request at hand is seen as one that waits.
LEMMA CurIsSeen ==
  ASSUME AskedInv, ServedInv, spc \in Busy
  PROVE  cur \in Clients /\ cpc[cur] = "asked" /\ SeenRun[cur] = "asked" /\ RunOf(cur) = "asked"
BY DEF ServedInv, SeenRun, RunOf

LEMMA LosesIsSeen ==
  ASSUME AskedInv, ServedInv, Loses
  PROVE  ServiceStep
<1>1. /\ cur \in Clients /\ cpc[cur] = "asked" /\ SeenRun[cur] = "asked"
      /\ cpc' = [cpc EXCEPT ![cur] = "lost"] /\ wire' = [wire EXCEPT ![cur] = NoDoc]
      /\ UNCHANGED <<conf, want, op, cache, answer>>
  BY CurIsSeen DEF Loses
<1>2. DOMAIN cpc = Clients /\ wire = [d \in Clients |-> wire[d]]
  BY DEF AskedInv
<1>3. PICK c \in Clients : c = cur
  BY <1>1
<1>4. \A d \in Clients \ {c} :
        /\ cpc'[d] = cpc[d] /\ wire'[d] = wire[d] /\ answer'[d] = answer[d]
        /\ op'[d] = op[d] /\ conf'[d] = conf[d] /\ want'[d] = want[d]
  BY <1>1, <1>2, <1>3
<1>5. cpc'[c] = "lost"
  BY <1>1, <1>2, <1>3
<1>6. RunOf(c)' = "lost" /\ GetsOf(c)' = GetsOf(c)
  BY <1>1, <1>3, <1>5 DEF RunOf, GetsOf
<1>7. AsksOf(c)' = AsksOf(c)
  BY <1>1, MeantSame DEF AsksOf
<1>8. Service!Fail(c)
  BY <1>1, <1>3, <1>4, <1>6, <1>7, OneSeen, FailSeen
<1> QED  BY <1>8, NextSeen DEF ServiceStep

LEMMA ReplyIsSeen ==
  ASSUME AskedInv, ServedInv, ReadInv, LoopInv, CacheInv, SackInv, AnswerInv, SourceInv,
         SoundInv, Reply
  PROVE  ServiceStep
<1>1. /\ cur \in Clients /\ cpc[cur] = "asked" /\ SeenRun[cur] = "asked" /\ spc = "reply"
      /\ cpc' = [cpc EXCEPT ![cur] = "answered"] /\ wire' = [wire EXCEPT ![cur] = out]
      /\ UNCHANGED <<conf, want, op, cache, answer>>
  BY CurIsSeen DEF Reply, Busy
<1>2. DOMAIN cpc = Clients /\ wire = [d \in Clients |-> wire[d]]
  BY DEF AskedInv
<1>3. PICK c \in Clients : c = cur
  BY <1>1
<1>4. \A d \in Clients \ {c} :
        /\ cpc'[d] = cpc[d] /\ wire'[d] = wire[d] /\ answer'[d] = answer[d]
        /\ op'[d] = op[d] /\ conf'[d] = conf[d] /\ want'[d] = want[d]
  BY <1>1, <1>2, <1>3
<1>5. cpc'[c] = "answered" /\ wire'[c] = out
  BY <1>1, <1>2, <1>3
<1>6. AsksOf(c)' = AsksOf(c)
  BY <1>1, MeantSame DEF AsksOf
<1>7. CASE out.code = "ANSWER_OK"
  <2>1. RunOf(c)' = "answered" /\ GetsOf(c)' = Read4(out)
    BY <1>5, <1>7 DEF RunOf, GetsOf
  <2>2. Fits(AsksOf(c), Read4(out), SeenKnown)
    BY <1>1, <1>3, <1>7, AnswerFits
  <2>3. SeenAsks[c] = AsksOf(c) /\ SeenGets'[c] = Read4(out)
    BY <2>1 DEF SeenAsks, SeenGets
  <2>4. \A d \in Clients \ {c} : SeenGets'[d] = SeenGets[d]
    BY <1>4, SameSeen DEF SeenGets
  <2>5. Service!Answer(c)
    BY <1>1, <1>3, <1>4, <1>6, <2>1, <2>2, <2>3, <2>4, OneSeen, AnswerSeen
  <2> QED  BY <2>5, NextSeen DEF ServiceStep
<1>8. CASE out.code # "ANSWER_OK"
  <2>1. RunOf(c)' = "refused" /\ GetsOf(c)' = GetsOf(c)
    BY <1>1, <1>3, <1>5, <1>8 DEF RunOf, GetsOf
  <2>2. Service!Fail(c)
    BY <1>1, <1>3, <1>4, <1>6, <2>1, OneSeen, FailSeen
  <2> QED  BY <2>2, NextSeen DEF ServiceStep
<1> QED  BY <1>7, <1>8

LEMMA DownloadIsSeen ==
  ASSUME AskedInv, ServedInv, ReadInv, LoopInv, CacheInv, DownloadStarts
  PROVE  ServiceStep
<1>1. CASE Loses
  BY <1>1, LosesIsSeen
<1>2. CASE Serves
  <2>1. /\ spc = "locate" /\ i <= Len(repos) /\ NotLocal(Folder(i))
        /\ UNCHANGED <<cpc, conf, want, op, wire, answer>>
    BY <1>2 DEF DownloadStarts, Locating, Serves
  <2>2. PICK url \in ToSet(repos[i].urls) :
          cache' = [cache EXCEPT ![Folder(i)] = [url |-> url, state |-> "cut"]]
    BY <1>2 DEF DownloadStarts, Crash, GoTo, Serves, Busy
  <2>3. cur \in Clients /\ SeenRun[cur] = "asked" /\ repos = Meant(cur)
    BY <2>1, CurIsSeen DEF ReadInv, Busy, Read
  <2>4. PICK c \in Clients, k \in 1..Len(repos) : c = cur /\ k = i
    BY <2>1, <2>3, HereIs
  <2> DEFINE name == repos[k].name
  <2>5. SeenAsks[c].repos = repos /\ k \in DOMAIN SeenAsks[c].repos
    <3>1. SeenAsks[c].repos = Meant(cur)
      BY <2>4 DEF SeenAsks, AsksOf
    <3>2. k \in DOMAIN repos
      BY DEF LoopInv
    <3> QED  BY <2>3, <3>1, <3>2
  <2>6. /\ name \in Ids /\ DOMAIN cache = Ids /\ cache[name].state # "whole"
        /\ cache' = [cache EXCEPT ![name] = [url |-> url, state |-> "cut"]]
    BY <2>1, <2>2, <2>4, HereIs DEF Folder, NotLocal, CacheInv
  <2>7. PICK j \in DOMAIN repos[k].urls : repos[k].urls[j] = url
    <3>1. url \in ToSet(repos[k].urls)
      BY <2>2, <2>4
    <3>2. repos[k].urls \in Seq(Url)
      BY <2>1, <2>4, HereIs DEF Local
    <3> DEFINE s == repos[k].urls
    <3> HIDE DEF s
    <3>3. \E j \in DOMAIN s : s[j] = url
      BY <3>1, <3>2 DEF ToSet, s
    <3> QED  BY <3>3 DEF s
  <2>8. ~SeenKnown[name].whole
    BY <2>6 DEF SeenKnown, KnownOf
  <2>9. SeenKnown' = [SeenKnown EXCEPT ![name] = [url |-> url, whole |-> FALSE]]
    <3> HIDE DEF name
    <3>1. DOMAIN cache' = Ids /\ cache'[name] = [url |-> url, state |-> "cut"]
          /\ \A m \in Ids \ {name} : cache'[m] = cache[m]
      BY <2>6
    <3>2. SeenKnown' = [m \in Ids |-> [url |-> cache'[m].url, whole |-> cache'[m].state = "whole"]]
      BY <3>1 DEF SeenKnown, KnownOf
    <3>3. SeenKnown = [m \in Ids |-> [url |-> cache[m].url, whole |-> cache[m].state = "whole"]]
      BY <2>6 DEF SeenKnown, KnownOf
    <3>4. [url |-> cache'[name].url, whole |-> cache'[name].state = "whole"]
            = [url |-> url, whole |-> FALSE]
      <4>1. cache'[name].url = url /\ (cache'[name].state = "whole") = FALSE
        BY <3>1
      <4> QED  BY <4>1, Zenon
    <3> QED  BY <2>6, <3>1, <3>2, <3>3, <3>4
  <2>10. SeenRun' = SeenRun /\ SeenAsks' = SeenAsks /\ SeenGets' = SeenGets
    BY <2>1, SameSeen DEF SeenRun, SeenAsks, SeenGets
  <2> HIDE DEF name
  <2>11. /\ SeenRun[c] = "asked" /\ SeenAsks[c].repos[k].name = name
         /\ j \in DOMAIN SeenAsks[c].repos[k].urls /\ SeenAsks[c].repos[k].urls[j] = url
    BY <2>3, <2>4, <2>5, <2>7 DEF name
  <2>12. Service!Learn(c, k)
    BY <2>8, <2>9, <2>10, <2>11, LearnSeen
  <2> QED  BY <2>5, <2>12, NextSeen DEF ServiceStep
<1> QED  BY <1>1, <1>2, ServerSteps

LEMMA DownloadedIsSeen ==
  ASSUME LoopInv, CacheInv, Downloaded
  PROVE  ServiceStep
<1>1. /\ spc = "download" /\ i <= Len(repos)
      /\ cache' = [cache EXCEPT ![Folder(i)].state = "whole"]
      /\ UNCHANGED <<cpc, conf, want, op, wire, answer>>
  BY DEF Downloaded, clientVars, LoopInv
<1>2. PICK name \in Ids : name = Folder(i)
  BY <1>1, HereIs
<1>3. cache[name] \in [url : Url, state : {"cut", "whole"}] /\ DOMAIN cache = Ids
  <2>1. cache[name].state = "cut" /\ NoMeta.state = "none"
    BY <1>1, <1>2 DEF CacheInv, NoMeta
  <2>2. cache[name] \in {NoMeta} \cup [url : Url, state : {"cut", "whole"}]
    BY DEF CacheInv
  <2> QED  BY <2>1, <2>2 DEF CacheInv
<1>4. cache' = [cache EXCEPT ![name] = [url |-> cache[name].url, state |-> "whole"]]
  <2>1. [cache[name] EXCEPT !.state = "whole"] = [url |-> cache[name].url, state |-> "whole"]
    BY <1>3
  <2> QED  BY <1>1, <1>2, <2>1
<1>5. /\ DOMAIN cache' = Ids
      /\ cache'[name].url = cache[name].url /\ cache'[name].state = "whole"
      /\ \A m \in Ids \ {name} : cache'[m] = cache[m]
  BY <1>3, <1>4
<1>6. SeenKnown = [m \in Ids |-> KnownOf(m)] /\ SeenKnown' = [m \in Ids |-> KnownOf(m)']
  BY <1>3, <1>5 DEF SeenKnown
<1>7. /\ KnownOf(name)' = [KnownOf(name) EXCEPT !.whole = TRUE]
      /\ \A m \in Ids \ {name} : KnownOf(m)' = KnownOf(m)
  <2>1. (cache'[name].state = "whole") = TRUE
    BY <1>5
  <2>2. KnownOf(name)' = [url |-> cache[name].url, whole |-> TRUE]
    BY <1>5, <2>1, Zenon DEF KnownOf
  <2>3. [KnownOf(name) EXCEPT !.whole = TRUE] = [url |-> cache[name].url, whole |-> TRUE]
    <3>1. \A u, w, v : [[url |-> u, whole |-> w] EXCEPT !.whole = v] = [url |-> u, whole |-> v]
      OBVIOUS
    <3> QED  BY <3>1, Zenon DEF KnownOf
  <2>4. \A m \in Ids \ {name} : KnownOf(m)' = KnownOf(m)
    BY <1>5 DEF KnownOf
  <2> QED  BY <2>2, <2>3, <2>4
<1>8. SeenKnown' = [SeenKnown EXCEPT ![name].whole = TRUE]
  BY <1>6, <1>7
<1>9. SeenKnown[name].url # NoUrl /\ name \in DOMAIN SeenKnown
  <2>1. cache[name].url \in Url
    BY <1>3
  <2> QED  BY <1>6, <2>1, SolvAssumption DEF KnownOf
<1>10. SeenRun' = SeenRun /\ SeenAsks' = SeenAsks /\ SeenGets' = SeenGets
  BY <1>1, SameSeen DEF SeenRun, SeenAsks, SeenGets
<1>11. Service!Complete(name)
  BY <1>8, <1>9, <1>10, CompleteSeen
<1> QED  BY <1>9, <1>11, NextSeen DEF ServiceStep

\* The other steps of the server are not seen.
LEMMA ServesIsSeen ==
  ASSUME Serves, UNCHANGED cache
  PROVE  ServiceStep
BY AllSame DEF Serves, ServiceStep

LEMMA StartSeen == Init => Service!Init
<1> SUFFICES ASSUME Init PROVE Service!Init
  OBVIOUS
<1>1. \A c \in Clients :
        /\ cpc[c] = "idle" /\ conf[c] = <<>> /\ want[c] = <<>> /\ op[c] = "install"
        /\ answer[c] = NoGoal
  BY DEF Init
<1>2. \A c \in Clients : RunOf(c) = "idle" /\ GetsOf(c) = NoGoal
  BY <1>1 DEF RunOf, GetsOf
<1>3. \A c \in Clients : AsksOf(c) = [op |-> "install", repos |-> <<>>, want |-> <<>>]
  BY <1>1, MeantEmpty DEF AsksOf
<1>4. \A name \in DOMAIN SeenKnown : ~SeenKnown[name].whole /\ SeenKnown[name].url = NoUrl
  <2>1. cache = [name \in Ids |-> NoMeta]
    BY DEF Init
  <2> QED  BY <2>1 DEF SeenKnown, KnownOf, NoMeta
<1> QED  BY <1>2, <1>3, <1>4, InitSeen DEF SeenRun, SeenAsks, SeenGets

\* Every step is one of the service, or is not seen.
LEMMA StepSeen ==
  ASSUME AskedInv, ServedInv, ReadInv, LoopInv, CacheInv, SackInv, AnswerInv, SourceInv,
         SoundInv, [Next]_vars
  PROVE  ServiceStep
<1>1. CASE UNCHANGED vars
  BY <1>1, AllSame DEF vars, clientVars, ServiceStep
<1>2. ASSUME NEW c \in Clients, Ask(c) \/ ReadAnswer(c) \/ Leave(c)
      PROVE  ServiceStep
  BY <1>2, AskIsSeen, ReadIsSeen, LeaveIsSeen
<1>3. ASSUME NEW c \in Clients, Take(c)
      PROVE  ServiceStep
  BY <1>3, AllSame DEF Take, clientVars, ServiceStep
<1>4. CASE Restart
  BY <1>4, AllSame DEF Restart, clientVars, ServiceStep
<1>5. CASE Reply
  BY <1>5, ReplyIsSeen
<1>6. CASE Loses
  BY <1>6, LosesIsSeen
<1>7. CASE Serves
  <2>1. CASE DownloadStarts \/ Downloaded
    BY <2>1, DownloadIsSeen, DownloadedIsSeen
  <2>2. CASE FoundLocally \/ DownloadFails
    <3>1. UNCHANGED cache
      BY <2>2 DEF FoundLocally, DownloadFails
    <3> QED  BY <1>7, <3>1, ServesIsSeen
  <2>3. CASE Elsewhere
    BY <1>7, <2>3, ServesIsSeen DEF Elsewhere
  <2> QED  BY <2>1, <2>2, <2>3, StepKinds
<1> QED  BY <1>1, <1>2, <1>3, <1>4, <1>5, <1>6, <1>7, StepShapes

\* The server implements the service: whatever was asked before, whatever
\* failed, was killed or crashed in between, an answer names packages of the
\* repositories of its own request, or installed ones, and what is remembered
\* is where metadata was found (server.c:218, repo_metadata.c:55).
THEOREM ServerIsTheService == Spec => ImplementsService
<1> DEFINE Inv == /\ AskedInv /\ ServedInv /\ ReadInv /\ LoopInv /\ CacheInv /\ SackInv
                  /\ AnswerInv /\ MetaInv /\ SourceInv /\ SoundInv
<1>1. Init => Inv
  BY AskedStart, ServedStart, ReadStart, LoopStart, CacheStart, SackStart, AnswerStart,
     MetaStart, SourceStart, SoundStart
<1>2. Inv /\ [Next]_vars => Inv'
  BY AskedStep, ServedStep, ReadStep, LoopStep, CacheStep, SackTypes, AnswerStep,
     MetaStep, SourceStep, SoundStep
<1>3. Inv /\ [Next]_vars => [Service!Next]_(Service!vars)
  BY StepSeen DEF ServiceStep
<1> QED  BY <1>1, <1>2, <1>3, StartSeen, PTL DEF Spec, ImplementsService, Service!Spec
=============================================================================
