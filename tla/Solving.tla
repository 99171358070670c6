------------------------------ MODULE Solving ------------------------------
(***************************************************************************)
(* One request from the repositories of a client to the lists it gets      *)
(* back: repo_handler.c and ssds_send_repo on the client; json_read.c,     *)
(* repo_metadata.c and solving.c on the server, in the order in which      *)
(* ssds_server_process calls them.  How the two documents travel is the    *)
(* subject of Rds.  librepo and hawkey are external: what they return is a *)
(* choice among what they may return.                                      *)
(***************************************************************************)
EXTENDS Json, FiniteSets, FiniteSetsExt

CONSTANTS
  Clients,
  Release,    \* of each client, what $releasever stands for: a number
  Confs,      \* the lists of repositories a client may have
  Wanted,     \* the package arguments of a run, as a sequence
  Names,      \* the names of packages
  Globs,      \* the names a package argument matches as a pattern
  Published,  \* the names of the packages behind each text of a URL
  Bare,       \* the texts behind which a file that is asked for is not listed
  WithBase,   \* the names whose metadata give a base URL
  Own,        \* the packages the machine of the server has installed,
  System,     \* and the name hawkey gives to where they are from
  Installed,  \* the names each client has installed itself
  MaxKills    \* how often the server is killed

Url == [text : DOMAIN Published, release : {Release[c] : c \in Clients}]

Ids == {r.id : r \in UNION {ToSet(l) : l \in Confs}}

\* What a client knows of a repository; an address that is not given is NoUrl.
Repository ==
  [id : Ids, enabled : BOOLEAN,
   mirrorlist : DOMAIN Published \cup {NoUrl}, metalink : DOMAIN Published \cup {NoUrl},
   baseurl : Seq(DOMAIN Published)]

ASSUME SolvAssumption ==
  /\ Confs \subseteq Seq(Repository)
  /\ Wanted \subseteq Seq(DOMAIN Globs)
  /\ IsFiniteSet(Clients) /\ \A c \in Clients : Release[c] \in Nat
  /\ IsFiniteSet(Names) /\ \A text \in DOMAIN Published : Published[text] \subseteq Names
  /\ Bare \subseteq DOMAIN Published
  /\ IsFiniteSet(Own)
  /\ Own \subseteq [name : Names, release : Nat, repo : {System}, base : {NoUrl}]
  /\ NoUrl \notin Url /\ NoUrl \notin DOMAIN Published
  /\ System \notin Url /\ System # NoUrl
  /\ MaxKills \in Nat

Operations == {"install", "update", "update_all", "erase"}
NoMeta == [url |-> NoUrl, state |-> "none"]
NoGoal == [name \in ToSet(Lists) |-> <<>>]

VARIABLES
  cpc, conf, want, op, answer,        \* of each client; answer as it was read
  wire,                               \* the document under way, of each client
  spc, fault,                         \* the server, and where it crashed
  cur, req, names, wild, repos,       \* the request it is at
  i, meta, sack, todo, jobs, out,
  cache,                              \* /tmp/ssds
  kills,
  failed, solved              \* history

clientVars == <<cpc, conf, want, op, answer>>
requestVars == <<cur, req, names, wild, repos, i, meta, sack, todo, jobs, out>>
historyVars == <<failed, solved>>
vars == <<clientVars, wire, spc, fault, requestVars, cache, kills, historyVars>>

NoDoc == Created("none")

\* Wrong: the list of the metadata is kept for the next request.
ForgetMutant ==
  /\ req' = NoDoc /\ names' = <<>> /\ wild' = FALSE /\ repos' = <<>> /\ i' = 1
  /\ meta' = meta /\ sack' = {} /\ todo' = {} /\ jobs' = {} /\ out' = NoDoc /\ failed' = {}

\* What was local to a request is gone.
Forget ==
  /\ req' = NoDoc /\ names' = <<>> /\ wild' = FALSE /\ repos' = <<>> /\ i' = 1
  /\ meta' = <<>> /\ sack' = {} /\ todo' = {} /\ jobs' = {} /\ out' = NoDoc /\ failed' = {}

Init ==
  /\ cpc = [c \in Clients |-> "idle"]
  /\ conf = [c \in Clients |-> <<>>]
  /\ want = [c \in Clients |-> <<>>]
  /\ op = [c \in Clients |-> "install"]
  /\ answer = [c \in Clients |-> NoGoal]
  /\ wire = [c \in Clients |-> NoDoc]
  /\ spc = "idle" /\ fault = "none" /\ cur \in Clients
  /\ req = NoDoc /\ names = <<>> /\ wild = FALSE /\ repos = <<>> /\ i = 1
  /\ meta = <<>> /\ sack = {} /\ todo = {} /\ jobs = {} /\ out = NoDoc /\ failed = {}
  /\ cache = [name \in Ids |-> NoMeta]
  /\ kills = 0
  /\ solved = [c \in Clients |-> NoGoal]

-----------------------------------------------------------------------------
(***************************************************************************)
(* The client.                                                             *)
(***************************************************************************)
\* lr_url_substitute: two clients may mean two addresses by one text.
Substituted(c, text) == [text |-> text, release |-> Release[c]]

\* Wrong: a mirrorlist is counted and a metalink is not.
ChosenMutant(r) ==
  IF r.baseurl # <<>> THEN [type |-> 1, texts |-> r.baseurl]
  ELSE IF r.metalink # NoUrl THEN [type |-> 3, texts |-> <<>>]
  ELSE IF r.mirrorlist # NoUrl THEN [type |-> 2, texts |-> <<r.mirrorlist>>]
  ELSE [type |-> 0, texts |-> <<>>]

\* Wrong: a mirrorlist counts more than a metalink.
ChosenFirstMutant(r) ==
  IF r.baseurl # <<>> THEN [type |-> 1, texts |-> r.baseurl]
  ELSE IF r.mirrorlist # NoUrl THEN [type |-> 2, texts |-> <<r.mirrorlist>>]
  ELSE IF r.metalink # NoUrl THEN [type |-> 3, texts |-> <<r.metalink>>]
  ELSE [type |-> 0, texts |-> <<>>]

\* Of three kinds of address the one that is looked at last is sent.
Chosen(r) ==
  IF r.baseurl # <<>> THEN [type |-> 1, texts |-> r.baseurl]
  ELSE IF r.metalink # NoUrl THEN [type |-> 3, texts |-> <<r.metalink>>]
  ELSE IF r.mirrorlist # NoUrl THEN [type |-> 2, texts |-> <<r.mirrorlist>>]
  ELSE [type |-> 0, texts |-> <<>>]

\* ssds_get_repo_urls
WithRepo(c, doc, r) ==
  LET urls == [j \in 1..Len(Chosen(r).texts) |-> Substituted(c, Chosen(r).texts[j])]
  IN IF r.enabled THEN AddRepo(doc, urls, r.id, Chosen(r).type) ELSE doc

\* The repositories of the client, one after the other.
WithRepos(c, doc, rs) ==
  LET after[k \in 0..Len(rs)] == IF k = 0 THEN doc ELSE WithRepo(c, after[k - 1], rs[k])
  IN after[Len(rs)]

Request(c, operation, rs, pkgs) ==
  AddPackages(WithRepos(c, Created(operation), rs), pkgs)

Ask(c) ==
  /\ \A d \in Clients : cpc[d] \in {"idle", "gone"}  \* bound: one at a time
  /\ cpc[c] = "idle"
  /\ \E rs \in Confs, o \in Operations, w \in Wanted :
       /\ o = "update_all" => w = <<>>
       /\ o = "update" => w # <<>>
       /\ conf' = [conf EXCEPT ![c] = rs]
       /\ want' = [want EXCEPT ![c] = w]
       /\ op' = [op EXCEPT ![c] = o]
       /\ wire' = [wire EXCEPT ![c] = Request(c, o, rs, w)]
  /\ cpc' = [cpc EXCEPT ![c] = "asked"]
  /\ UNCHANGED <<answer, spc, fault, requestVars, cache, kills, failed, solved>>

\* ssds_answer_process, up to the lists; the fourth is only counted.
ReadAnswer(c) ==
  /\ cpc[c] = "answered"
  /\ IF wire[c].code = "ANSWER_OK"
     THEN answer' = [answer EXCEPT ![c] =
                       [name \in ToSet(Lists) |-> ParseAnswer(wire[c], name)]]
     ELSE UNCHANGED answer
  /\ cpc' = [cpc EXCEPT ![c] = IF wire[c].code = "ANSWER_OK" THEN "listed" ELSE "told"]
  /\ wire' = [wire EXCEPT ![c] = NoDoc]
  /\ UNCHANGED <<conf, want, op, spc, fault, requestVars, cache, kills, historyVars>>

\* The run is over, whatever it made of its answer.
Leave(c) ==
  /\ cpc[c] \in {"listed", "told", "lost"}
  /\ spc = "idle"
  /\ cpc' = [cpc EXCEPT ![c] = "gone"]
  /\ conf' = [conf EXCEPT ![c] = <<>>] /\ want' = [want EXCEPT ![c] = <<>>]
  /\ op' = [op EXCEPT ![c] = "install"]
  /\ answer' = [answer EXCEPT ![c] = NoGoal]
  /\ solved' = [solved EXCEPT ![c] = NoGoal]
  /\ UNCHANGED <<wire, spc, fault, requestVars, cache, kills, failed>>

-----------------------------------------------------------------------------
(***************************************************************************)
(* The server.                                                             *)
(***************************************************************************)
\* n pointers fill what malloc gives for them, so that the NULL written after
\* them lands in the bookkeeping of the heap (glibc, 64 bit).
Fills(n) == n >= 3 /\ n % 2 = 1

GoTo(step) == spc' = step

\* A segmentation fault or an abort of the heap; the client is left alone.
Crash ==
  /\ GoTo("crashed")
  /\ fault' = spc
  /\ cpc' = [cpc EXCEPT ![cur] = "lost"]
  /\ wire' = [wire EXCEPT ![cur] = NoDoc]

Take(c) ==
  /\ spc = "idle"
  /\ cpc[c] = "asked"
  /\ cur' = c
  /\ req' = wire[c]
  /\ GoTo("packages")
  /\ UNCHANGED <<clientVars, wire, fault, names, wild, repos, i, meta, sack, todo, jobs, out,
                 cache, kills, historyVars>>

\* ssds_js_rd_get_packages.  One element too many is passed over before the
\* NULL is written: what ends the list, or is its only element, is not set.
ReadPackages ==
  LET count == GetCount(req, "req_pkgs")
      asked == req.code # "update_all"
  IN /\ spc = "packages"
     /\ names' = IF asked THEN Array(req, "req_pkgs") ELSE <<>>
     /\ wild' = (asked /\ count # 1)
     /\ \/ GoTo("repos") /\ UNCHANGED <<cpc, wire, fault>>
        \/ asked /\ Fills(count + 1) /\ Crash
     /\ UNCHANGED <<conf, want, op, answer, cur, req, repos, i, meta, sack, todo, jobs,
                    out, cache, kills, historyVars>>

\* ssds_js_rd_repo_info; strlen of an address that is null.
ReadRepos ==
  /\ spc = "repos"
  /\ IF NullUrl(req) THEN Crash /\ UNCHANGED repos
     ELSE GoTo("locate") /\ repos' = RepoInfo(req) /\ UNCHANGED <<cpc, wire, fault>>
  /\ UNCHANGED <<conf, want, op, answer, cur, req, names, wild, i, meta, sack, todo, jobs,
                 out, cache, kills, historyVars>>

\* full_path_to_metadata: the directory is that of the name.
Folder(k) == repos[k].name

\* The loop of ssds_locate_repo_metadata is at a repository.
Locating == spc = "locate" /\ i <= Len(repos)

\* local_repo_metadata looks by the name of the repository.  librepo may or
\* may not notice that files are cut.
FoundLocally ==
  /\ Locating
  /\ cache[Folder(i)].state \in {"whole", "cut"}
  /\ GoTo("found")
  /\ UNCHANGED <<clientVars, wire, fault, requestVars, cache, kills, historyVars>>

NotLocal(name) == cache[name].state \in {"none", "cut"}

\* download_repo_metadata_by_url: from any URL of a list of base URLs.
DownloadStarts ==
  /\ Locating
  /\ NotLocal(Folder(i))
  /\ \/ /\ \E url \in ToSet(repos[i].urls) :
             cache' = [cache EXCEPT ![Folder(i)] = [url |-> url, state |-> "cut"]]
        /\ GoTo("download")
        /\ UNCHANGED <<cpc, wire, fault>>
     \/ Fills(Len(repos[i].urls)) /\ Crash /\ UNCHANGED cache
  /\ UNCHANGED <<conf, want, op, answer, requestVars, kills, historyVars>>

Downloaded ==
  /\ spc = "download"
  /\ cache' = [cache EXCEPT ![Folder(i)].state = "whole"]
  /\ GoTo("found")
  /\ UNCHANGED <<clientVars, wire, fault, requestVars, kills, historyVars>>

\* Found or downloaded, the paths of its files are copied, strdup of NULL among
\* them; and it is named after the address that this client sent for it.
AddMetadata ==
  /\ spc = "found"
  /\ IF cache[Folder(i)].url.text \in Bare THEN Crash /\ UNCHANGED <<meta, i>>
     ELSE /\ meta' = Append(meta, [name |-> Folder(i), repo |-> repos[i].urls[1]])
          /\ i' = i + 1
          /\ GoTo("locate")
          /\ UNCHANGED <<cpc, wire, fault>>
  /\ UNCHANGED <<conf, want, op, answer, cur, req, names, wild, repos, sack, todo, jobs, out,
                 cache, kills, historyVars>>

\* Wrong: a failed download is tried again, for ever.
DownloadFailsMutant ==
  /\ spc = "download"
  /\ failed' = failed \cup {i}
  /\ GoTo("locate")
  /\ UNCHANGED <<clientVars, wire, fault, cur, req, names, wild, repos, i, meta, sack, todo, jobs,
                 out, cache, kills, solved>>

\* The repository is left out, and the request goes on without it.
DownloadFails ==
  /\ spc = "download"
  /\ failed' = failed \cup {i}
  /\ i' = i + 1
  /\ GoTo("locate")
  /\ UNCHANGED <<clientVars, wire, fault, cur, req, names, wild, repos, meta, sack, todo, jobs,
                 out, cache, kills, solved>>

\* Wrong: the loop starts at its second element.
FirstLoadedMutant == 2

FirstLoaded == 1

Packages(m, ns) ==
  {[name |-> n, release |-> cache[m.name].url.release, repo |-> m.repo,
    base |-> IF n \in WithBase THEN cache[m.name].url ELSE NoUrl] : n \in ns}

\* ssds_fill_sack, behind the packages of the server's own machine.  Of files
\* that are cut it loads a part, or nothing; nobody looks at the result.
FillSack ==
  /\ spc = "locate" /\ i > Len(repos)
  /\ \E part \in [FirstLoaded..Len(meta) -> SUBSET Names] :
       /\ \A j \in FirstLoaded..Len(meta) :
            LET url == cache[meta[j].name].url
            IN IF cache[meta[j].name].state = "whole"
               THEN part[j] = Published[url.text] ELSE part[j] \subseteq Published[url.text]
       /\ sack' = Own \cup UNION {Packages(meta[j], part[j]) : j \in FirstLoaded..Len(meta)}
  /\ GoTo("query")
  /\ UNCHANGED <<clientVars, wire, fault, cur, req, names, wild, repos, i, meta, todo, jobs, out,
                 cache, kills, historyVars>>

\* The packages of these names or, when there is none, by pattern.
Matching(ns) ==
  LET exact == {p \in sack : p.name \in ns}
  IN IF exact # {} THEN exact
     ELSE {p \in sack : \E w \in ns : p.name \in Globs[w]}

\* The names that are read behind a list without its end, and in place of one
\* that is empty.
Stale ==
  {ns \in SUBSET DOMAIN Globs : IF wild THEN names = <<>> => Cardinality(ns) <= 1 ELSE ns = {}}

\* hy_query_filter_latest_per_arch
Latest(ps) == {p \in ps : \A q \in ps : q.name = p.name => q.release <= p.release}

\* The query of ssds_dep_query.  Names that are not ended by a NULL are read
\* on until something is, or until what is read is no address.
Query ==
  /\ spc = "query"
  /\ IF req.code = "update_all"
     THEN GoTo("solve") /\ UNCHANGED <<todo, cpc, wire, fault>>
     ELSE \/ /\ \E stale \in Stale : todo' = Latest(Matching(ToSet(names) \cup stale))
             /\ GoTo("solve") /\ UNCHANGED <<cpc, wire, fault>>
          \/ wild /\ Crash /\ UNCHANGED todo
  /\ UNCHANGED <<conf, want, op, answer, cur, req, names, wild, repos, i, meta, sack, jobs,
                 out, cache, kills, historyVars>>

\* One more package in the goal, which is run each time.
AddJob ==
  /\ spc = "solve"
  /\ \E p \in todo : todo' = todo \ {p} /\ jobs' = jobs \cup {p}
  /\ UNCHANGED <<clientVars, wire, spc, fault, cur, req, names, wild, repos, i, meta, sack, out,
                 cache, kills, historyVars>>

NoDep(doc) == InsertCode(doc, "ANSWER_NO_DEP")

\* The run of a goal with a job fails: no list is put into the answer.
NotSolved ==
  /\ spc = "solve"
  /\ jobs # {}
  /\ out' = NoDep(Created("ANSWER_OK"))
  /\ GoTo("reply")
  /\ UNCHANGED <<clientVars, wire, fault, cur, req, names, wild, repos, i, meta, sack, todo, jobs,
                 cache, kills, historyVars>>

IsOwn(p) == \E o \in Own : o.name = p.name

\* p is newer than what the server has of it.
Upgrades(p) == \E o \in Own : o.name = p.name /\ p.release > o.release

\* libsolv installs no two packages of one name.
OneOfEachName(ps) == \A p, q \in ps : p.name = q.name => p = q

\* What a goal may come to: its jobs are done, and what else they need.  A job
\* for an installed package keeps that package.
Solutions ==
  {[install |-> SetToSeq(s[1]), upgrade |-> SetToSeq(s[2]), erase |-> SetToSeq(s[3]),
    obsolete |-> <<>>] :
     s \in {t \in (SUBSET {p \in sack : ~IsOwn(p)}) \X
                  (SUBSET {p \in sack \ Own : Upgrades(p)}) \X (SUBSET Own) :
              /\ OneOfEachName(t[1] \cup t[2])
              /\ CASE req.code = "erase" -> t[1] = {} /\ t[2] = {} /\ jobs \cap Own \subseteq t[3]
                   [] req.code = "install" ->
                        /\ t[3] = {} /\ jobs \ Own \subseteq t[1] \cup t[2]
                        /\ \A o \in jobs \cap Own, p \in t[2] : p.name # o.name
                   [] OTHER ->
                        /\ t[3] = {}
                        /\ \A p \in jobs : Upgrades(p) => \E q \in t[2] \cap jobs : q.name = p.name}}

\* ssds_dep_query falls off its end: the caller compares whatever it left
\* behind with -1.
Solved ==
  /\ spc = "solve"
  /\ todo = {}
  /\ jobs # {} \/ req.code = "update_all"
  /\ \E goal \in Solutions :
       /\ solved' = [solved EXCEPT ![cur] = goal]
       /\ LET doc == PkgsInsert(Created("ANSWER_OK"), goal) IN out' \in {doc, NoDep(doc)}
  /\ GoTo("reply")
  /\ UNCHANGED <<clientVars, wire, fault, cur, req, names, wild, repos, i, meta, sack, todo, jobs,
                 cache, kills, failed>>

\* Nothing matched, so that the goal was never run, or not everything can be
\* updated: there are no lists to be counted.
NoLists ==
  /\ spc = "solve"
  /\ todo = {} /\ jobs = {}
  /\ \/ Crash /\ UNCHANGED out
     \/ /\ out' = PkgsInsert(Created("ANSWER_OK"), NoGoal)
        /\ GoTo("reply")
        /\ UNCHANGED <<cpc, wire, fault>>
  /\ UNCHANGED <<conf, want, op, answer, cur, req, names, wild, repos, i, meta, sack, todo,
                 jobs, cache, kills, historyVars>>

Reply ==
  /\ spc = "reply"
  /\ wire' = [wire EXCEPT ![cur] = out]
  /\ cpc' = [cpc EXCEPT ![cur] = "answered"]
  /\ GoTo("idle")
  /\ Forget
  /\ UNCHANGED <<conf, want, op, answer, fault, cur, cache, kills, solved>>

\* The server is killed in the middle of a request.
Kill ==
  /\ spc \notin {"idle", "down", "crashed"}
  /\ kills < MaxKills
  /\ kills' = kills + 1
  /\ GoTo("down")
  /\ cpc' = [cpc EXCEPT ![cur] = "lost"]
  /\ wire' = [wire EXCEPT ![cur] = NoDoc]
  /\ UNCHANGED <<conf, want, op, answer, fault, requestVars, cache, historyVars>>

\* What is in /tmp/ssds is still there.
Restart ==
  /\ spc \in {"down", "crashed"}
  /\ GoTo("idle")
  /\ Forget /\ fault' = "none"
  /\ UNCHANGED <<clientVars, wire, cur, cache, kills, solved>>

ServerStep ==
  \/ \E c \in Clients : Take(c)
  \/ ReadPackages \/ ReadRepos
  \/ FoundLocally \/ DownloadStarts \/ Downloaded \/ DownloadFails \/ AddMetadata
  \/ FillSack \/ Query \/ AddJob \/ NotSolved \/ Solved \/ NoLists \/ Reply
  \/ Restart

Gone == \A c \in Clients : cpc[c] = "gone"
Done == Gone /\ spc = "idle" /\ UNCHANGED vars

Next ==
  \/ \E c \in Clients : Ask(c) \/ ReadAnswer(c) \/ Leave(c)
  \/ ServerStep \/ Kill
  \/ Done

\* The server goes on with what it can do, is started again when it is down,
\* and a client reads what has come.
Spec ==
  /\ Init /\ [][Next]_vars
  /\ WF_vars(ServerStep)
  /\ \A c \in Clients : WF_vars(ReadAnswer(c))

-----------------------------------------------------------------------------
\* Every variable stays in its type.
SolvTypeOK ==
  /\ \A c \in Clients : cpc[c] \in {"idle", "asked", "answered", "listed", "told", "lost", "gone"}
  /\ \A c \in Clients : op[c] \in Operations /\ conf[c] \in Confs \cup {<<>>}
  /\ spc \in {"idle", "packages", "repos", "locate", "download", "found", "query",
              "solve", "reply", "crashed", "down"}
  /\ cur \in Clients
  /\ fault \in {"none", "packages", "repos", "locate", "found", "query", "solve"}
  /\ wild \in BOOLEAN
  /\ i \in 1..(Len(repos) + 1)
  /\ \A j \in 1..Len(repos) : repos[j].type \in 1..3
  /\ \A name \in DOMAIN cache :
       cache[name] = NoMeta \/ cache[name] \in [url : Url, state : {"cut", "whole"}]
  /\ kills \in 0..MaxKills

\* The enabled ones of some repositories.
Enabled(rs) ==
  LET first[k \in 0..Len(rs)] ==
        IF k = 0 THEN <<>>
        ELSE IF rs[k].enabled THEN Append(first[k - 1], rs[k]) ELSE first[k - 1]
  IN first[Len(rs)]

\* The enabled repositories of a client, each with the kind of address that
\* counts: a base URL before a metalink before a mirrorlist.
Meant(c) ==
  LET enabled == Enabled(conf[c])
  IN [j \in 1..Len(enabled) |->
        LET r == enabled[j]
            one(u) == <<Substituted(c, u)>>
        IN [name |-> r.id,
            type |-> IF r.baseurl # <<>> THEN 1 ELSE IF r.metalink # NoUrl THEN 3 ELSE 2,
            urls |-> IF r.baseurl # <<>>
                     THEN [k \in 1..Len(r.baseurl) |-> Substituted(c, r.baseurl[k])]
                     ELSE IF r.metalink # NoUrl THEN one(r.metalink) ELSE one(r.mirrorlist)]]

\* All the steps of a request, the cache and its place in it, the two
\* documents, the crashes and restarts of the server, seen from outside.  An
\* answer is what the client reads of it, whether it has done so or not.
Service ==
  INSTANCE Service WITH
    NoRequest <- [op |-> "install", repos |-> <<>>, want |-> <<>>],
    NoAnswer <- NoGoal,
    Nobody <- Nothing,
    Erasable <- {p.name : p \in Own},
    Offers <- LAMBDA url : Published[url.text],
    ReleaseOf <- LAMBDA url : url.release,
    run <- [c \in Clients |->
              CASE cpc[c] = "told" -> "refused"
                [] cpc[c] = "listed" -> "answered"
                [] cpc[c] = "answered" /\ wire[c].code # "ANSWER_OK" -> "refused"
                [] OTHER -> cpc[c]],
    asks <- [c \in Clients |-> [op |-> op[c], repos |-> Meant(c), want |-> want[c]]],
    gets <- [c \in Clients |->
               IF cpc[c] = "answered" /\ wire[c].code = "ANSWER_OK"
               THEN [name \in ToSet(Lists) |-> ParseAnswer(wire[c], name)] ELSE answer[c]],
    known <- [name \in DOMAIN cache |->
                [url |-> cache[name].url, whole |-> cache[name].state = "whole"]]

\* The server implements that service: whatever was asked before, whatever
\* failed, was killed or crashed in between, an answer names packages of the
\* repositories of its own request, or installed ones, and what is remembered
\* is where metadata was found (server.c:218, repo_metadata.c:55).
ImplementsService == Service!Spec

\* The server works on what its client asked for: the repositories that are
\* enabled there, each with the addresses that count, in their order, and the
\* packages of the command line (json_create.c:326, json_read.c:122).
RequestArrives ==
  spc \in {"locate", "download", "found", "query", "solve", "reply"} =>
    /\ req.code = op[cur]
    /\ repos = Meant(cur)
    /\ names = want[cur]

\* What a request is solved with has, under the address that its client sent
\* first for it, every package behind each of its repositories, but for three
\* reasons: the download failed in this request, the files are known to be cut,
\* or what is kept under the name is from an address this client did not send
\* (repo_metadata.c:39, solving.c:39).
SackIsComplete ==
  spc \in {"query", "solve", "reply"} =>
    \A j \in 1..Len(repos) :
      LET m == cache[repos[j].name]
      IN \/ j \in failed \/ m.state # "whole" \/ m.url \notin ToSet(repos[j].urls)
         \/ \A n \in Published[m.url.text] : \E p \in sack :
              p.name = n /\ p.release = m.url.release /\ p.repo = repos[j].urls[1]

\* A client reads of each list the packages the goal came to, each once, from
\* the end of the list to its beginning and behind one element that is
\* nothing (json_create.c:393, json_read.c:224).
AnswerIsExact ==
  \A c \in Clients : cpc[c] = "listed" =>
    \A name \in ToSet(Lists) :
      /\ Len(answer[c][name]) = Len(solved[c][name]) + 1
      /\ answer[c][name][1] = Nothing
      /\ \A j \in 1..Len(solved[c][name]) :
           LET read == answer[c][name][Len(solved[c][name]) - j + 2]
               pkg == solved[c][name][j]
           IN /\ read.pkg_name = pkg.name /\ read.pkg_loc = pkg.release
              /\ read.base_url = pkg.base
              /\ read.metalink = IF pkg.base = NoUrl THEN pkg.repo ELSE NoUrl

\* A request crashes the server only for a reason that is in it or in what
\* its repositories offer: no package or several, a repository without an
\* address or with an odd number of them, one whose metadata lack a file,
\* nothing that matches, or an update of everything that cannot be solved
\* (json_read.c:118, repo_metadata.c:79).
CrashHasCause ==
  LET enabled == {r \in ToSet(conf[cur]) : r.enabled}
  IN spc = "crashed" =>
       CASE fault = "packages" -> Fills(Len(want[cur]) + 1)
         [] fault = "repos" -> \E r \in enabled :
              r.baseurl = <<>> /\ r.metalink = NoUrl /\ r.mirrorlist = NoUrl
         [] fault = "locate" -> \E r \in enabled : Fills(Len(r.baseurl))
         [] fault = "found" -> \E r \in enabled : cache[r.id].url.text \in Bare
         [] fault = "query" -> op[cur] # "update_all" /\ Len(want[cur]) # 1
         [] OTHER -> jobs = {} /\ (op[cur] = "update_all" \/ Matching(ToSet(names)) = {})

\* A client that asked is answered, or its connection is lost.
AskedIsAnswered ==
  \A c \in Clients : cpc[c] = "asked" ~> cpc[c] \in {"listed", "told", "lost"}

\* README.md:6 - the client gets "a list of packages that are needed to
\* proceed with the install process": at least the one it asked for, when one
\* of its repositories has it behind each address the client sent, the metadata of
\* all of them is whole, and the client has not installed it.
AnswerMeetsRequest ==
  \A c \in Clients :
    /\ cpc[c] = "listed" /\ op[c] = "install" /\ Len(want[c]) = 1
    /\ want[c][1] \notin Installed[c]
    /\ \A j \in 1..Len(Meant(c)) : cache[Meant(c)[j].name].state = "whole"
    /\ \E j \in 1..Len(Meant(c)) :
         \A url \in ToSet(Meant(c)[j].urls) : want[c][1] \in Published[url.text]
    =>
       \E list \in {"install", "upgrade"} : \E j \in 2..Len(answer[c][list]) :
         answer[c][list][j].pkg_name = want[c][1]
=============================================================================
