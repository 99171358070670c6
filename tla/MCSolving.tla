----------------------------- MODULE MCSolving -----------------------------
EXTENDS Solving, TLC

CONSTANTS c1, c2, r1, r2, t1, t2, t3, a, lib, star, zz

MCRelease == (c1 :> 1) @@ (c2 :> 3)
MCPublished == (t1 :> {a, lib}) @@ (t2 :> {lib}) @@ (t3 :> {a})
MCNames == {a, lib}
MCGlobs == (a :> {a}) @@ (lib :> {lib}) @@ (star :> {a, lib}) @@ (zz :> {})
MCWanted == {<<>>, <<a>>, <<lib>>, <<star>>, <<zz>>, <<lib, zz>>}

Repo(id, enabled, mirrorlist, metalink, baseurl) ==
  [id |-> id, enabled |-> enabled, mirrorlist |-> mirrorlist, metalink |-> metalink,
   baseurl |-> baseurl]

MCConfs ==
  {<<Repo(r1, TRUE, t1, NoUrl, <<>>), Repo(r2, FALSE, NoUrl, NoUrl, <<t2>>)>>,
   <<Repo(r1, TRUE, NoUrl, NoUrl, <<t3, t1>>), Repo(r2, TRUE, t2, t1, <<>>)>>,
   <<Repo(r1, TRUE, NoUrl, NoUrl, <<t2, t2, t1>>)>>,
   <<Repo(r2, TRUE, NoUrl, NoUrl, <<>>)>>}

MCOwn == {[name |-> lib, release |-> 2, repo |-> System, base |-> NoUrl]}

MCInstalled == (c1 :> {}) @@ (c2 :> {lib})
=============================================================================
