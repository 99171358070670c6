---------------------------- MODULE Transaction ----------------------------
(***************************************************************************)
(* What the client does with an answer that names packages: the question,  *)
(* the download of all of them, the rpm transaction (ssds_answer_process   *)
(* from its lists on, ssds_download, ssds_rpm_process, packages.c).  The   *)
(* downloaded files and the rpm database outlive a run, which can be       *)
(* killed at any point, and another package manager changes the database   *)
(* whenever no transaction holds its lock.                                 *)
(***************************************************************************)
EXTENDS Integers, FiniteSets

CONSTANTS Pkgs,       \* names of packages
          Requires,   \* <<p, q>>: the package p needs q
          Obsoletes,  \* <<p, q>>: the new version of p takes the place of q
          Several,    \* the packages that may be installed in several versions at once
          Faults      \* which faults may happen

ASSUME TransAssumption == Requires \subseteq Pkgs \X Pkgs

Versions == {"absent", "old", "new"}
OnDisk == {"none", "part", "whole", "bad"}
Codes == {"none", "ANSWER_OK", "OK", "DOWNLOAD_ERROR", "ERASE_ERROR", "RPM"}
TransPc == {"idle", "question", "install_list", "update_list", "downloaded",
            "add_install", "add_update", "add_erase", "commit", "run"}

VARIABLES db,       \* the rpm database: the version of each package
          disk,     \* each package's file in DOWNLOAD_TARGET
          pc,       \* where the run is
          plan,     \* the lists of the answer
          said,     \* the user's answer
          todo,     \* what is left of the list in hand
          ts,       \* the transaction set
          failed,   \* an element of the transaction failed
          rc,       \* what the run returns
          meddled,  \* the packages another manager changed since the answer
          removed   \* the packages whose file was removed and not downloaded since

vars == <<db, disk, pc, plan, said, todo, ts, failed, rc, meddled, removed>>
outside == <<db, disk, meddled, removed>>

NoPlan == [install |-> {}, update |-> {}, erase |-> {}]
Plans == [install : SUBSET Pkgs, update : SUBSET Pkgs, erase : SUBSET Pkgs]

\* Every package that is there has what it requires.
Closed(d) ==
  \A pair \in Requires : d[pair[1]] # "absent" => d[pair[2]] # "absent"

ObsoletedBy(ps, d) ==
  {q \in Pkgs : d[q] # "absent" /\ \E p \in ps : <<p, q>> \in Obsoletes}

Changed(pl, gone, d) ==
  [p \in Pkgs |-> IF p \in pl.install \cup pl.update THEN "new"
                  ELSE IF p \in gone THEN "absent" ELSE d[p]]

\* What the solver means by its answer: whatever comes in takes the place of what
\* it obsoletes.
Meant(pl, d) == Changed(pl, pl.erase \cup ObsoletedBy(pl.install \cup pl.update, d), d)

\* What the transaction does: only what is added as an update does so.
Applied(pl, d) == Changed(pl, pl.erase \cup ObsoletedBy(pl.update, d), d)

\* What the server's solver answers for the packages it was told of: what is
\* obsoleted is in a list of its own, which the client only counts.
Solved(pl, d) ==
  /\ pl # NoPlan
  /\ \A p \in pl.install : d[p] = "absent"
  /\ \A p \in pl.update : d[p] = "old"
  /\ \A p \in pl.erase : d[p] # "absent"
  /\ pl.update \cap pl.erase = {}
  /\ \A p \in pl.install \cup pl.update, q \in pl.install \cup pl.update \cup pl.erase :
       <<p, q>> \notin Obsoletes
  /\ Closed(Meant(pl, d))

Init ==
  /\ db \in {d \in [Pkgs -> {"absent", "old"}] : Closed(d)}
  /\ disk = [p \in Pkgs |-> "none"]
  /\ pc = "idle"
  /\ plan = NoPlan
  /\ said = "no"
  /\ todo = {}
  /\ ts = {}
  /\ failed = FALSE
  /\ rc = "none"
  /\ meddled = {}
  /\ removed = {}

\* The run returns, and what it held is gone.
End(code) ==
  /\ pc' = "idle"
  /\ rc' = code
  /\ plan' = NoPlan /\ said' = "no" /\ todo' = {} /\ ts' = {}
  /\ failed' = FALSE /\ meddled' = {} /\ removed' = {}

-----------------------------------------------------------------------------
Answered ==
  /\ pc = "idle"
  /\ plan' \in {pl \in Plans : Solved(pl, db)}
  /\ pc' = "question"
  /\ rc' = "ANSWER_OK"
  /\ meddled' = {}
  /\ removed' = {}
  /\ UNCHANGED <<db, disk, said, todo, ts, failed>>

\* "Is it ok?"  Besides no: downloading only is not offered when there is nothing to download.
Choices ==
  IF plan.install \cup plan.update = {} THEN {"yes"} ELSE {"yes", "download"}

Question ==
  /\ pc = "question"
  /\ \/ End(rc)
     \/ /\ said' \in Choices
        /\ pc' = "install_list"
        /\ todo' = plan.install
        /\ UNCHANGED <<meddled, removed, plan, ts, failed, rc>>
  /\ UNCHANGED <<db, disk>>

\* lr_download_packages resumes what an earlier run left, and checks nothing.
Downloads(p) ==
  {IF disk[p] = "bad" THEN "bad" ELSE "whole"}
    \cup (IF "corrupt" \in Faults THEN {"bad"} ELSE {})

Download(p) ==
  /\ pc \in {"install_list", "update_list"}
  /\ p \in todo
  /\ \E got \in Downloads(p) : disk' = [disk EXCEPT ![p] = got]
  /\ todo' = todo \ {p}
  /\ removed' = removed \ {p}
  /\ UNCHANGED <<db, pc, plan, said, ts, failed, rc, meddled>>

DownloadFailsMutant(p) ==
  /\ "mirror" \in Faults
  /\ pc \in {"install_list", "update_list"}
  /\ p \in todo
  /\ \E got \in {disk[p], "part"} : disk' = [disk EXCEPT ![p] = got]
  /\ todo' = {}
  /\ UNCHANGED <<db, pc, plan, said, ts, failed, rc, meddled, removed>>
DownloadFails(p) ==
  /\ "mirror" \in Faults
  /\ pc \in {"install_list", "update_list"}
  /\ p \in todo
  /\ \E got \in {disk[p], "part"} : disk' = [disk EXCEPT ![p] = got]
  /\ End("DOWNLOAD_ERROR")
  /\ UNCHANGED db

\* The second list is downloaded only after the first.
ListDone ==
  /\ pc \in {"install_list", "update_list"}
  /\ todo = {}
  /\ IF pc = "install_list" THEN pc' = "update_list" /\ todo' = plan.update
                            ELSE pc' = "downloaded" /\ UNCHANGED todo
  /\ UNCHANGED <<outside, plan, said, ts, failed, rc>>

Downloaded ==
  /\ pc = "downloaded"
  /\ IF said = "download"
       THEN End("OK")
       ELSE /\ pc' = "add_install"
            /\ todo' = plan.install
            /\ rc' = "OK"
            /\ UNCHANGED <<plan, said, ts, failed, meddled, removed>>
  /\ UNCHANGED <<db, disk>>

-----------------------------------------------------------------------------
Add(p) == [op |-> "add", pkg |-> p, ver |-> "new"]
Erase(p) == [op |-> "erase", pkg |-> p, ver |-> db[p]]

\* ssds_add_to_transaction reads the header of the file.  What is added as an
\* update (SSDS_UPDATE) brings the erasure of what it obsoletes.
AddPackage(p) ==
  /\ pc \in {"add_install", "add_update"}
  /\ p \in todo
  /\ disk[p] = "whole"
  /\ ts' = ts \cup {Add(p)}
            \cup (IF pc = "add_update" THEN {Erase(q) : q \in ObsoletedBy({p}, db)} ELSE {})
  /\ todo' = todo \ {p}
  /\ UNCHANGED <<outside, pc, plan, said, failed, rc>>

\* Its result is dropped.
AddFails(p) ==
  /\ pc \in {"add_install", "add_update"}
  /\ p \in todo
  /\ disk[p] # "whole"
  /\ todo' = todo \ {p}
  /\ UNCHANGED <<outside, pc, plan, said, ts, failed, rc>>

\* ssds_add_to_erase adds what it finds in the database, perhaps nothing.
AddEraseMutant(p) ==
  /\ pc = "add_erase"
  /\ p \in todo
  /\ ts' = ts \cup {Erase(p)}
  /\ todo' = todo \ {p}
  /\ UNCHANGED <<outside, pc, plan, said, failed, rc>>
AddEraseAllMutant(p) ==
  /\ pc = "add_erase"
  /\ p \in todo
  /\ ts' = ts \cup {Erase(q) : q \in {r \in Pkgs : db[r] # "absent"}}
  /\ todo' = todo \ {p}
  /\ UNCHANGED <<outside, pc, plan, said, failed, rc>>
AddErase(p) ==
  /\ pc = "add_erase"
  /\ p \in todo
  /\ ts' = IF db[p] = "absent" THEN ts ELSE ts \cup {Erase(p)}
  /\ todo' = todo \ {p}
  /\ UNCHANGED <<outside, pc, plan, said, failed, rc>>

\* Of several records of one name only the last one's result is returned
\* (packages.c:71-79): where an earlier one fails, only a part of the package is
\* erased, it is still there, and nobody hears of it.
AddEraseMasked(p) ==
  /\ "element" \in Faults
  /\ pc = "add_erase"
  /\ p \in todo \cap Several
  /\ db[p] # "absent"
  /\ ts' = ts \cup {[op |-> "part", pkg |-> p, ver |-> db[p]]}
  /\ todo' = todo \ {p}
  /\ UNCHANGED <<outside, pc, plan, said, failed, rc>>

EraseFails(p) ==
  /\ "element" \in Faults
  /\ pc = "add_erase"
  /\ p \in todo
  /\ db[p] # "absent"
  /\ End("ERASE_ERROR")
  /\ UNCHANGED <<db, disk>>

\* After the packages to install those to update, then those to erase.
AddDone ==
  /\ pc \in {"add_install", "add_update", "add_erase"}
  /\ todo = {}
  /\ \/ pc = "add_install" /\ pc' = "add_update" /\ todo' = plan.update
     \/ pc = "add_update" /\ pc' = "add_erase" /\ todo' = plan.erase
     \/ pc = "add_erase" /\ pc' = "commit" /\ UNCHANGED todo
  /\ UNCHANGED <<outside, plan, said, ts, failed, rc>>

-----------------------------------------------------------------------------
\* rpmtsRun takes the lock and looks for problems before it changes anything:
\* a package that is installed already, conflicts, the space on the disk.
\* Dependencies are not among them, which rpmtsCheck would look at.
Problem(e) == e.op = "add" /\ db[e.pkg] = "new"

Run ==
  /\ pc = "commit"
  /\ ~ \E e \in ts : Problem(e)
  /\ pc' = "run"
  /\ todo' = ts
  /\ UNCHANGED <<outside, plan, said, ts, failed, rc>>

RunRefused ==
  /\ pc = "commit"
  /\ ts = {} \/ (\E e \in ts : Problem(e)) \/ "element" \in Faults
  /\ End("RPM")
  /\ UNCHANGED <<db, disk>>

\* The record to erase is found by the place it had when it was added.
RunElement(e) ==
  /\ pc = "run"
  /\ e \in todo
  /\ e.op # "add" => db[e.pkg] = e.ver
  /\ db' = [db EXCEPT ![e.pkg] = IF e.op = "erase" THEN "absent" ELSE e.ver]
  /\ todo' = todo \ {e}
  /\ UNCHANGED <<disk, pc, plan, said, ts, failed, rc, meddled, removed>>

ElementFails(e) ==
  /\ pc = "run"
  /\ e \in todo
  /\ (e.op # "add" /\ db[e.pkg] # e.ver) \/ "element" \in Faults
  /\ failed' = TRUE
  /\ todo' = todo \ {e}
  /\ UNCHANGED <<outside, pc, plan, said, ts, rc>>

RunEndsMutant ==
  /\ pc = "run"
  /\ todo = {}
  /\ End("OK")
  /\ UNCHANGED <<db, disk>>
RunEnds ==
  /\ pc = "run"
  /\ todo = {}
  /\ End(IF failed THEN "RPM" ELSE "OK")
  /\ UNCHANGED <<db, disk>>

-----------------------------------------------------------------------------
\* A signal or a crash: a file may be left in part, a transaction in the middle.
Killed ==
  /\ "kill" \in Faults
  /\ pc # "idle"
  /\ End("none")
  /\ IF pc \in {"install_list", "update_list"}
       THEN disk' \in {disk} \cup {[disk EXCEPT ![p] = "part"] : p \in todo}
       ELSE UNCHANGED disk
  /\ UNCHANGED db

\* Another package manager installs, updates or erases one package, and leaves
\* what was whole whole.
Manager(p) ==
  /\ "manager" \in Faults
  /\ pc # "run"
  /\ \E v \in {"absent", "new"} \ {db[p]} : db' = [db EXCEPT ![p] = v]
  /\ Closed(db) => Closed(db')
  /\ meddled' = IF pc = "idle" THEN {} ELSE meddled \cup {p}
  /\ UNCHANGED <<disk, pc, plan, said, todo, ts, failed, rc, removed>>

\* A file in DOWNLOAD_TARGET is removed.
Cleaned(p) ==
  /\ "clean" \in Faults
  /\ disk[p] # "none"
  /\ disk' = [disk EXCEPT ![p] = "none"]
  /\ removed' = IF pc = "idle" THEN {} ELSE removed \cup {p}
  /\ UNCHANGED <<db, pc, plan, said, todo, ts, failed, rc, meddled>>

TransNext ==
  \/ Answered \/ Question \/ ListDone \/ Downloaded \/ AddDone
  \/ Run \/ RunRefused \/ RunEnds \/ Killed
  \/ \E p \in Pkgs :
       \/ Download(p) \/ DownloadFails(p)
       \/ AddPackage(p) \/ AddFails(p) \/ AddErase(p) \/ AddEraseMasked(p)
       \/ EraseFails(p)
       \/ Manager(p) \/ Cleaned(p)
  \/ \E e \in ts : RunElement(e) \/ ElementFails(e)

TransSpec == Init /\ [][TransNext]_vars

-----------------------------------------------------------------------------
Elements == [op : {"add", "erase", "part"}, pkg : Pkgs, ver : {"old", "new"}]

\* The database and the files are what they can be, and a transaction holds
\* installations of the newest version and erasures of a recorded one.
TransTypeOK ==
  /\ db \in [Pkgs -> Versions]
  /\ disk \in [Pkgs -> OnDisk]
  /\ pc \in TransPc
  /\ plan \in Plans
  /\ said \in {"yes", "no", "download"}
  /\ IF pc = "run" THEN todo \subseteq Elements ELSE todo \subseteq Pkgs
  /\ ts \subseteq Elements
  /\ failed \in BOOLEAN
  /\ rc \in Codes
  /\ meddled \subseteq Pkgs
  /\ removed \subseteq Pkgs

AllThere ==
  \A p \in (plan.install \cup plan.update) \ removed : disk[p] \in {"whole", "bad"}

\* A transaction starts only when the user said yes and every package of both
\* lists has been downloaded by this or an earlier run (client.c:355, 437-458),
\* unless its file was removed since.
StartsComplete == [][Run => said = "yes" /\ AllThere]_vars

RunsOK == pc # "idle" /\ pc' = "idle" /\ rc' = "OK" /\ said = "yes"
AllReadable == \A p \in plan.install \cup plan.update : disk[p] = "whole"

Done(d) ==
  /\ \A p \in plan.install \cup plan.update : d[p] = "new"
  /\ \A p \in plan.erase \ (meddled \cup Several) : d[p] = "absent"
  /\ ObsoletedBy(plan.update, d) \subseteq meddled
  /\ meddled \cup (plan.erase \cap Several) \cup ObsoletedBy(plan.install, d) = {}
       => Closed(d)

\* A run that agreed, had whole files and ends with OK (client.c:471-551) has
\* changed every package of the answer that was still there to change, and what its
\* updates obsolete; when nobody else came in, the system is whole: after failing
\* elements, kills, and changes by another manager between any two steps.  It says
\* nothing of a package to erase in several versions, nor of a whole system where an
\* installed package obsoletes another one: the code drops what it is told of the
\* first and leaves the second where it is.
OKIsDone == [][RunsOK /\ AllReadable => Done(db')]_vars

\* Whatever the run meets, it changes a package only to what the answer says,
\* erases beyond that only what one of its updates obsoletes, and leaves everything
\* else alone (client.c:471-551).
OnlyAsAnswered ==
  [][pc = "run" => \A p \in Pkgs : db'[p] = db[p] \/ db'[p] = Applied(plan, db)[p]]_vars
=============================================================================
