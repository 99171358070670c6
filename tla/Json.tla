-------------------------------- MODULE Json --------------------------------
(***************************************************************************)
(* The documents of json_create.c and json_read.c: a code and the members  *)
(* of "data".  A writer keeps a place in its document, the array it adds   *)
(* elements to and with it the object added last.  The text a document     *)
(* becomes and is parsed from again is the library's.                      *)
(***************************************************************************)
EXTENDS Integers, Sequences, SequencesExt

CONSTANTS NoUrl  \* a NULL where an address should be; null in a document

NoMembers == [name \in {} |-> NoUrl]

\* An object with the member, in place of one of that name.
With(object, name, value) ==
  [n \in DOMAIN object \cup {name} |-> IF n = name THEN value ELSE object[n]]

\* ssds_js_cr_init
Created(code) == [code |-> code, data |-> NoMembers, array |-> "none"]

InsertCode(doc, code) == [doc EXCEPT !.code = code]

Has(doc, name) == name \in DOMAIN doc.data

\* A member that is not there is made, an array that is there is gone on with.
WithArray(doc, name) ==
  [doc EXCEPT !.array = name,
              !.data = IF Has(doc, name) THEN @ ELSE With(@, name, <<>>)]

AddElement(doc, element) == [doc EXCEPT !.data[doc.array] = Append(@, element)]

AddObject(doc) == AddElement(doc, NoMembers)

\* The object added last has the member.
AddMember(doc, name, value) ==
  LET last == Len(doc.data[doc.array])
  IN [doc EXCEPT !.data[doc.array][last] = With(@, name, value)]

AddPackage(doc, package) == AddElement(WithArray(doc, "req_pkgs"), package)

\* One after the other.
AddPackages(doc, packages) ==
  LET after[k \in 0..Len(packages)] ==
        IF k = 0 THEN doc ELSE AddPackage(after[k - 1], packages[k])
  IN after[Len(packages)]

\* Only a list of base URLs may have more than one element, or none.
AddRepo(doc, urls, name, type) ==
  LET sent == IF type = 1 THEN urls ELSE <<IF urls = <<>> THEN NoUrl ELSE urls[1]>>
  IN AddMember(AddMember(AddMember(AddObject(WithArray(doc, "repolist")),
       "repo_url", sent), "name", name), "type", type)

Lists == <<"install", "upgrade", "erase", "obsolete">>

\* One package of a solved goal, with the name of the repository it is from;
\* the release stands for the rest of its place there.
AddSolved(doc, pkg) ==
  AddMember(AddMember(AddMember(AddMember(AddObject(doc), "pkg_name", pkg.name),
    "pkg_loc", pkg.release), "base_url", pkg.base), "metalink", pkg.repo)

\* Each list from its end.
AddList(doc, name, pkgs) ==
  LET after[k \in 0..Len(pkgs)] ==
        IF k = 0 THEN WithArray(doc, name) ELSE AddSolved(after[k - 1], pkgs[Len(pkgs) - k + 1])
  IN after[Len(pkgs)]

\* ssds_js_cr_pkgs_insert
PkgsInsert(doc, goal) ==
  LET add(d, k) == AddList(d, Lists[k], goal[Lists[k]])
  IN add(add(add(add(doc, 1), 2), 3), 4)

-----------------------------------------------------------------------------
\* ssds_js_rd_get_count; a member that is not there counts as empty.
Array(doc, name) == IF Has(doc, name) THEN doc.data[name] ELSE <<>>
GetCount(doc, name) == Len(Array(doc, name))

\* ssds_js_rd_repo_info, when no address is null.
RepoInfo(doc) ==
  [i \in 1..GetCount(doc, "repolist") |->
     LET object == doc.data["repolist"][i]
     IN [name |-> object["name"], type |-> object["type"], urls |-> object["repo_url"]]]

\* Wrong: a null is copied like any text.
NullUrlMutant(doc) == FALSE

NullUrl(doc) ==
  \E i \in 1..GetCount(doc, "repolist") : NoUrl \in ToSet(doc.data["repolist"][i]["repo_url"])

\* The element a GSList begins with when it is made by g_slist_alloc.
Nothing == [pkg_name |-> "NULL", pkg_loc |-> 0, base_url |-> NoUrl, metalink |-> NoUrl]

\* Wrong: the name of the repository is kept beside a base URL.
ReadPkgMutant(object) ==
  [pkg_name |-> object["pkg_name"], pkg_loc |-> object["pkg_loc"],
   base_url |-> object["base_url"], metalink |-> object["metalink"]]

\* A package is found by its base URL or, when that is null, by its repository.
ReadPkg(object) ==
  [pkg_name |-> object["pkg_name"],
   pkg_loc |-> object["pkg_loc"],
   base_url |-> object["base_url"],
   metalink |-> IF object["base_url"] = NoUrl THEN object["metalink"] ELSE NoUrl]

\* ssds_js_rd_parse_answer
ParseAnswer(doc, name) ==
  <<Nothing>> \o [i \in 1..GetCount(doc, name) |-> ReadPkg(doc.data[name][i])]
=============================================================================
