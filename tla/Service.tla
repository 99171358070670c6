------------------------------ MODULE Service ------------------------------
(***************************************************************************)
(* What a client of rds-server may rely on, as if a request were answered  *)
(* in one step: the answer names packages of the repositories of its own   *)
(* request, each with a place to fetch it from, or packages that are       *)
(* installed, and what the server remembers between two requests is only   *)
(* where it found the metadata of a repository.                            *)
(***************************************************************************)
EXTENDS Integers, Sequences

CONSTANTS
  Clients,
  NoRequest, NoAnswer,  \* of a client that has not asked, or has no answer
  NoUrl,                \* a place of which nothing is known
  Nobody,               \* what every list begins with
  Erasable,             \* the names that can be erased
  Offers(_),            \* the names of the packages behind an address
  ReleaseOf(_)          \* the release that an address is for

VARIABLES run,    \* of each client
          asks,   \* its request: [op, repos, want], a repository [name, urls]
          gets,   \* the lists it is given
          known   \* of each repository: [url, whole]

vars == <<run, asks, gets, known>>

Init ==
  /\ run = [c \in Clients |-> "idle"]
  /\ asks = [c \in Clients |-> NoRequest]
  /\ gets = [c \in Clients |-> NoAnswer]
  /\ \A name \in DOMAIN known : ~known[name].whole /\ known[name].url = NoUrl

\* Only the record of c changes.
Changes(c, f) == \A d \in Clients \ {c} : f'[d] = f[d]

Ask(c) ==
  /\ run[c] = "idle"
  /\ run' = [run EXCEPT ![c] = "asked"]
  /\ Changes(c, asks)
  /\ UNCHANGED <<gets, known>>

\* The server looks for metadata it has not, where a client told it to.
Learn(c, k) ==
  LET repo == asks[c].repos[k]
  IN /\ run[c] = "asked"
     /\ ~known[repo.name].whole
     /\ \E j \in DOMAIN repo.urls :
          known' = [known EXCEPT ![repo.name] = [url |-> repo.urls[j], whole |-> FALSE]]
     /\ UNCHANGED <<run, asks, gets>>

Complete(name) ==
  /\ known[name].url # NoUrl
  /\ known' = [known EXCEPT ![name].whole = TRUE]
  /\ UNCHANGED <<run, asks, gets>>

\* A package of repo: its name and release are there, and it is fetched from
\* where the metadata was found or from where this client would look.
FromRepo(repo, pkg) ==
  LET url == known[repo.name].url
  IN /\ url # NoUrl
     /\ pkg.pkg_name \in Offers(url) /\ pkg.pkg_loc = ReleaseOf(url)
     /\ \/ pkg.base_url = url /\ pkg.metalink = NoUrl
        \/ pkg.base_url = NoUrl /\ pkg.metalink = repo.urls[1]

\* What an answer to request may be.
Sound(request, lists) ==
  /\ \A l \in DOMAIN lists : lists[l][1] = Nobody
  /\ \A l \in DOMAIN lists : \A j, k \in DOMAIN lists[l] :
       lists[l][j] = lists[l][k] => j = k
  /\ \A l \in {"install", "upgrade"} : \A j \in 2..Len(lists[l]) :
       \E k \in DOMAIN request.repos : FromRepo(request.repos[k], lists[l][j])
  /\ \A j \in 2..Len(lists["erase"]) : lists["erase"][j].pkg_name \in Erasable
  /\ IF request.op = "erase" THEN Len(lists["install"]) + Len(lists["upgrade"]) = 2
                             ELSE Len(lists["erase"]) = 1

Answer(c) ==
  /\ run[c] = "asked"
  /\ run' = [run EXCEPT ![c] = "answered"]
  /\ Changes(c, gets)
  /\ Sound(asks[c], gets'[c])
  /\ UNCHANGED <<asks, known>>

\* It cannot be solved, or the server is lost.
Fail(c) ==
  /\ run[c] = "asked"
  /\ \E why \in {"refused", "lost"} : run' = [run EXCEPT ![c] = why]
  /\ UNCHANGED <<asks, gets, known>>

Leave(c) ==
  /\ run[c] \in {"answered", "refused", "lost"}
  /\ run' = [run EXCEPT ![c] = "gone"]
  /\ asks' = [asks EXCEPT ![c] = NoRequest]
  /\ gets' = [gets EXCEPT ![c] = NoAnswer]
  /\ UNCHANGED known

Next ==
  \/ \E c \in Clients :
       \/ Ask(c) \/ Answer(c) \/ Fail(c) \/ Leave(c)
       \/ \E k \in DOMAIN asks[c].repos : Learn(c, k)
  \/ \E name \in DOMAIN known : Complete(name)

Spec == Init /\ [][Next]_vars
=============================================================================
