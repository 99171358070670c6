------------------------- MODULE TransactionProofs -------------------------
(***************************************************************************)
(* Theorems about Transaction: when a transaction starts, what it changes, *)
(* and what an OK means, for any packages, dependencies and answers.       *)
(***************************************************************************)
EXTENDS Transaction, TLAPS

\* Where the transaction set is built, and where both lists are downloaded.
Adding == {"add_install", "add_update", "add_erase"}
AfterDownload == {"downloaded", "commit", "run"} \cup Adding

\* What an element of the transaction is there for.
ToErase(q) == q \in plan.erase \/ \E p \in plan.update : <<p, q>> \in Obsoletes
ElementOf(e) ==
  \/ e.op = "add" /\ e.ver = "new" /\ e.pkg \in plan.install \cup plan.update
  \/ e.op = "erase" /\ ToErase(e.pkg)
  \/ e.op = "part" /\ e.pkg \in plan.erase \cap Several

\* What the user said, which list is in hand, what the transaction holds.
Flow ==
  /\ pc \in {"idle", "question"} => said = "no"
  /\ pc \in {"install_list", "update_list", "downloaded"} => said \in {"yes", "download"}
  /\ pc \in Adding \cup {"commit", "run"} => said = "yes"
  /\ pc \notin Adding \cup {"commit", "run"} => ts = {}
  /\ pc # "run" => failed = FALSE
  /\ pc \in {"install_list", "add_install"} => todo \subseteq plan.install
  /\ pc \in {"update_list", "add_update"} => todo \subseteq plan.update
  /\ pc = "add_erase" => todo \subseteq plan.erase
  /\ pc = "run" => todo \subseteq ts
  /\ plan.erase \cap (plan.install \cup plan.update) = {}
  /\ \A p \in plan.install \cup plan.update, q \in plan.install \cup plan.update \cup plan.erase :
       <<p, q>> \notin Obsoletes
  /\ \A e \in ts : ElementOf(e)

FlowInv == TransTypeOK /\ Flow

\* The three lists of an answer are sets of packages.
LEMMA PlanFacts ==
  /\ NoPlan \in Plans
  /\ \A pl \in Plans : /\ pl.install \subseteq Pkgs
                       /\ pl.update \subseteq Pkgs
                       /\ pl.erase \subseteq Pkgs
BY DEF NoPlan, Plans

\* The invariant holds at the start.
LEMMA FlowInit == Init => FlowInv
<1> SUFFICES ASSUME Init PROVE FlowInv
  OBVIOUS
<1>1. db \in [Pkgs -> Versions] /\ disk \in [Pkgs -> OnDisk]
  BY DEF Init, Versions, OnDisk
<1>2. plan \in Plans /\ plan.erase = {} /\ plan.install = {} /\ plan.update = {}
  BY PlanFacts DEF Init, NoPlan
<1> QED  BY <1>1, <1>2 DEF Init, FlowInv, TransTypeOK, Flow, Adding, TransPc, Codes

\* A run that returns keeps the invariant, whatever it returns.
LEMMA EndFlow ==
  ASSUME FlowInv, NEW code \in Codes, End(code), db' = db, disk' \in [Pkgs -> OnDisk]
  PROVE  FlowInv'
<1>1. TransTypeOK'
  BY PlanFacts DEF FlowInv, TransTypeOK, End, TransPc
<1>2. Flow'
  BY DEF Flow, End, NoPlan, Adding
<1> QED  BY <1>1, <1>2 DEF FlowInv

\* Every step keeps it.
LEMMA FlowStep == FlowInv /\ [TransNext]_vars => FlowInv'
<1> SUFFICES ASSUME FlowInv, [TransNext]_vars PROVE FlowInv'
  OBVIOUS
<1> USE DEF outside
<1>0. /\ {"ANSWER_OK", "OK", "DOWNLOAD_ERROR", "ERASE_ERROR", "RPM", "none"} \subseteq Codes
      /\ rc \in Codes /\ disk \in [Pkgs -> OnDisk]
  BY DEF Codes, FlowInv, TransTypeOK
<1>1. CASE Answered
  <2>1. /\ plan' \in Plans /\ plan'.erase \cap (plan'.install \cup plan'.update) = {}
        /\ \A p \in plan'.install \cup plan'.update,
              q \in plan'.install \cup plan'.update \cup plan'.erase : <<p, q>> \notin Obsoletes
    BY <1>1 DEF Answered, Solved
  <2> QED
    BY <1>1, <2>1 DEF Answered, FlowInv, TransTypeOK, Flow, TransPc, Codes, Adding
<1>2. CASE Question
  <2>1. CASE End(rc)
    BY <1>2, <2>1, <1>0, EndFlow DEF Question
  <2>2. CASE ~End(rc)
    BY <1>2, <2>2, PlanFacts
       DEF Question, Choices, FlowInv, TransTypeOK, Flow, TransPc, Adding
  <2> QED  BY <2>1, <2>2
<1>3. CASE ListDone
  BY <1>3, PlanFacts DEF ListDone, FlowInv, TransTypeOK, Flow, TransPc, Adding
<1>4. CASE Downloaded
  <2>1. CASE said = "download"
    BY <1>4, <2>1, <1>0, EndFlow DEF Downloaded
  <2>2. CASE said # "download"
    BY <1>4, <2>2, PlanFacts
       DEF Downloaded, FlowInv, TransTypeOK, Flow, TransPc, Codes, Adding
  <2> QED  BY <2>1, <2>2
<1>5. CASE AddDone
  BY <1>5, PlanFacts DEF AddDone, FlowInv, TransTypeOK, Flow, TransPc, Adding, ElementOf, ToErase
<1>6. CASE Run
  BY <1>6 DEF Run, FlowInv, TransTypeOK, Flow, TransPc, Adding, ElementOf, ToErase
<1>7. CASE RunRefused
  BY <1>7, <1>0, EndFlow DEF RunRefused
<1>8. CASE RunEnds
  BY <1>8, <1>0, EndFlow DEF RunEnds
<1>9. CASE Killed
  <2>1. disk' \in [Pkgs -> OnDisk]
    BY <1>9, <1>0 DEF Killed, OnDisk
  <2> QED  BY <1>9, <2>1, <1>0, EndFlow DEF Killed
<1>10. ASSUME NEW p \in Pkgs, Download(p)
       PROVE  FlowInv'
  <2>1. Downloads(p) \subseteq OnDisk
    BY DEF Downloads, OnDisk
  <2> QED  BY <1>10, <2>1 DEF Download, FlowInv, TransTypeOK, Flow, Adding
<1>11. ASSUME NEW p \in Pkgs, DownloadFails(p)
       PROVE  FlowInv'
  <2>1. disk' \in [Pkgs -> OnDisk]
    BY <1>11, <1>0 DEF DownloadFails, OnDisk
  <2> QED  BY <1>11, <2>1, <1>0, EndFlow DEF DownloadFails
<1>12. ASSUME NEW p \in Pkgs, AddPackage(p)
       PROVE  FlowInv'
  <2> DEFINE gone == IF pc = "add_update" THEN ObsoletedBy({p}, db) ELSE {}
  <2>1. /\ ts' = (ts \cup {Add(p)}) \cup {Erase(q) : q \in gone}
        /\ p \in plan.install \cup plan.update /\ UNCHANGED plan
    BY <1>12 DEF AddPackage, FlowInv, Flow
  <2>2. Add(p) \in Elements /\ ElementOf(Add(p))
    BY <2>1 DEF Elements, Add, ElementOf
  <2>3. ASSUME NEW q \in gone
        PROVE  Erase(q) \in Elements /\ ElementOf(Erase(q))
    <3>0. pc = "add_update" /\ p \in plan.update
      BY <1>12, <2>3 DEF AddPackage, FlowInv, Flow
    <3>1. q \in Pkgs /\ db[q] # "absent" /\ <<p, q>> \in Obsoletes /\ p \in plan.update
      BY <2>3, <3>0 DEF ObsoletedBy
    <3> QED  BY <3>1 DEF Elements, Erase, ElementOf, ToErase, FlowInv, TransTypeOK, Versions
  <2> HIDE DEF gone
  <2>4. ts' \subseteq Elements /\ \A e \in ts' : ElementOf(e)
    BY <2>1, <2>2, <2>3 DEF FlowInv, TransTypeOK, Flow
  <2>5. (\A e \in ts : ElementOf(e))'
    BY <2>1, <2>4 DEF ElementOf, ToErase
  <2> QED  BY <1>12, <2>4, <2>5 DEF AddPackage, FlowInv, TransTypeOK, Flow, Adding
<1>13. ASSUME NEW p \in Pkgs, AddFails(p)
       PROVE  FlowInv'
  BY <1>13 DEF AddFails, FlowInv, TransTypeOK, Flow, Adding, ElementOf, ToErase
<1>14. ASSUME NEW p \in Pkgs, AddErase(p) \/ AddEraseMasked(p)
       PROVE  FlowInv'
  <2> DEFINE part == [op |-> "part", pkg |-> p, ver |-> db[p]]
  <2>1. p \in plan.erase /\ UNCHANGED plan
    BY <1>14 DEF AddErase, AddEraseMasked, FlowInv, Flow
  <2>2. db[p] # "absent" => /\ Erase(p) \in Elements /\ ElementOf(Erase(p))
                           /\ part \in Elements
                           /\ (p \in Several => ElementOf(part))
    BY <2>1 DEF Elements, Erase, ElementOf, ToErase, FlowInv, TransTypeOK, Versions
  <2>3. \/ ts' = ts
        \/ db[p] # "absent" /\ ts' = ts \cup {Erase(p)}
        \/ db[p] # "absent" /\ p \in Several /\ ts' = ts \cup {part}
    BY <1>14 DEF AddErase, AddEraseMasked
  <2>t. ts \subseteq Elements /\ \A e \in ts : ElementOf(e)
    BY DEF FlowInv, TransTypeOK, Flow
  <2> HIDE DEF part
  <2>4. ts' \subseteq Elements /\ \A e \in ts' : ElementOf(e)
    <3>1. CASE ts' = ts
      BY <2>t, <3>1
    <3>2. CASE db[p] # "absent" /\ ts' = ts \cup {Erase(p)}
      <4>1. Erase(p) \in Elements /\ ElementOf(Erase(p))
        BY <2>2, <3>2
      <4> QED  BY <2>t, <3>2, <4>1
    <3>3. CASE db[p] # "absent" /\ p \in Several /\ ts' = ts \cup {part}
      <4>1. part \in Elements /\ ElementOf(part)
        BY <2>2, <3>3
      <4> QED  BY <2>t, <3>3, <4>1
    <3> QED  BY <2>3, <3>1, <3>2, <3>3
  <2>5. (\A e \in ts : ElementOf(e))'
    BY <2>1, <2>4 DEF ElementOf, ToErase
  <2> QED
    BY <1>14, <2>4, <2>5
       DEF AddErase, AddEraseMasked, FlowInv, TransTypeOK, Flow, Adding
<1>15. ASSUME NEW p \in Pkgs, EraseFails(p)
       PROVE  FlowInv'
  BY <1>15, <1>0, EndFlow DEF EraseFails
<1>16. ASSUME NEW p \in Pkgs, Manager(p)
       PROVE  FlowInv'
  BY <1>16 DEF Manager, FlowInv, TransTypeOK, Flow, Versions, ElementOf, ToErase
<1>17. ASSUME NEW p \in Pkgs, Cleaned(p)
       PROVE  FlowInv'
  BY <1>17 DEF Cleaned, FlowInv, TransTypeOK, Flow, OnDisk, ElementOf, ToErase
<1>18. ASSUME NEW e \in ts, RunElement(e)
       PROVE  FlowInv'
  <2>1. e \in Elements /\ e.ver \in Versions /\ "absent" \in Versions
    BY DEF FlowInv, TransTypeOK, Elements, Versions
  <2> QED  BY <1>18, <2>1 DEF RunElement, FlowInv, TransTypeOK, Flow, Adding, ElementOf, ToErase
<1>19. ASSUME NEW e \in ts, ElementFails(e)
       PROVE  FlowInv'
  BY <1>19 DEF ElementFails, FlowInv, TransTypeOK, Flow, Adding, ElementOf, ToErase
<1>20. CASE UNCHANGED vars
  BY <1>20 DEF vars, FlowInv, TransTypeOK, Flow, ElementOf, ToErase
<1> QED
  BY <1>1, <1>2, <1>3, <1>4, <1>5, <1>6, <1>7, <1>8, <1>9, <1>10, <1>11, <1>12,
     <1>13, <1>14, <1>15, <1>16, <1>17, <1>18, <1>19, <1>20 DEF TransNext

\* The invariant holds in every state.
LEMMA FlowInvariant == TransSpec => []FlowInv
BY FlowInit, FlowStep, PTL DEF TransSpec

\* The database, the files and the transaction keep their types.
THEOREM TransTypeCorrect == TransSpec => []TransTypeOK
<1>1. FlowInv => TransTypeOK
  BY DEF FlowInv
<1> QED  BY <1>1, FlowInvariant, PTL

-----------------------------------------------------------------------------
\* A run changes a package only to what the answer says (client.c:471-551).
THEOREM ChangesOnlyAsAnswered == TransSpec => OnlyAsAnswered
<1>1. ASSUME FlowInv, [TransNext]_vars, pc = "run", NEW p \in Pkgs
      PROVE  db'[p] = db[p] \/ db'[p] = Applied(plan, db)[p]
  <2>1. ASSUME NEW e \in ts, RunElement(e)
        PROVE  db'[p] = db[p] \/ db'[p] = Applied(plan, db)[p]
    <3>1. CASE p # e.pkg
      BY <1>1, <2>1, <3>1 DEF RunElement, FlowInv, TransTypeOK
    <3>2. CASE p = e.pkg /\ e.op = "add"
      <4>1. e.ver = "new" /\ e.pkg \in plan.install \cup plan.update
        BY <1>1, <3>2 DEF FlowInv, Flow, ElementOf
      <4> QED
        BY <1>1, <2>1, <3>2, <4>1 DEF RunElement, FlowInv, TransTypeOK, Applied, Changed
    <3>3. CASE p = e.pkg /\ e.op = "erase" /\ db[p] # "absent"
      <4>1. ToErase(p)
        BY <1>1, <3>3 DEF FlowInv, Flow, ElementOf
      <4>2. p \notin plan.install \cup plan.update
        BY <1>1, <4>1 DEF FlowInv, Flow, ToErase
      <4>3. p \in plan.erase \cup ObsoletedBy(plan.update, db)
        BY <3>3, <4>1 DEF ToErase, ObsoletedBy
      <4>4. Applied(plan, db)[p] = "absent"
        BY <4>2, <4>3 DEF Applied, Changed
      <4> QED  BY <1>1, <2>1, <3>3, <4>4 DEF RunElement, FlowInv, TransTypeOK
    <3>4. CASE p = e.pkg /\ (e.op = "part" \/ (e.op = "erase" /\ db[p] = "absent"))
      BY <1>1, <2>1, <3>4 DEF RunElement, FlowInv, TransTypeOK
    <3>5. e.op = "add" \/ e.op = "erase" \/ e.op = "part"
      BY <1>1 DEF FlowInv, Flow, ElementOf
    <3> QED  BY <3>1, <3>2, <3>3, <3>4, <3>5
  <2>2. CASE db' = db
    BY <2>2
  <2>3. db' = db \/ \E e \in ts : RunElement(e)
    BY <1>1 DEF TransNext, vars, outside, Answered, Question, ListDone, Downloaded, AddDone,
       Run, RunRefused, RunEnds, Killed, Download, DownloadFails, AddPackage, AddFails,
       AddErase, AddEraseMasked, EraseFails, Manager, Cleaned, ElementFails
  <2> QED  BY <2>1, <2>2, <2>3
<1>2. FlowInv /\ [TransNext]_vars =>
        [pc = "run" => \A p \in Pkgs : db'[p] = db[p] \/ db'[p] = Applied(plan, db)[p]]_vars
  BY <1>1
<1> QED  BY <1>2, FlowInvariant, PTL DEF TransSpec, OnlyAsAnswered
-----------------------------------------------------------------------------
HasFile(p) == disk[p] \in {"whole", "bad"} \/ p \in removed

\* Which packages are downloaded when, but for those removed again.
There ==
  /\ pc = "install_list" => \A p \in plan.install \ todo : HasFile(p)
  /\ pc = "update_list" => \A p \in plan.install \cup (plan.update \ todo) : HasFile(p)
  /\ pc \in AfterDownload => AllThere

ThereInv == FlowInv /\ There

\* Every step keeps it.
LEMMA ThereStep == ThereInv /\ [TransNext]_vars => ThereInv'
<1> SUFFICES ASSUME ThereInv, [TransNext]_vars PROVE ThereInv'
  OBVIOUS
<1>0. FlowInv'
  BY FlowStep DEF ThereInv
<1> SUFFICES There'
  BY <1>0 DEF ThereInv
<1> USE DEF ThereInv, There, HasFile, AllThere, AfterDownload, Adding, outside
<1>1. CASE Answered
  BY <1>1 DEF Answered
<1>2. CASE Question
  BY <1>2 DEF Question, End
<1>3. CASE ListDone
  BY <1>3 DEF ListDone
<1>4. CASE Downloaded
  BY <1>4 DEF Downloaded, End
<1>5. CASE AddDone
  BY <1>5 DEF AddDone
<1>6. CASE Run
  BY <1>6 DEF Run
<1>7. CASE RunRefused \/ RunEnds \/ Killed
  BY <1>7 DEF RunRefused, RunEnds, Killed, End
<1>8. ASSUME NEW p \in Pkgs, Download(p)
      PROVE  There'
  <2>1. PICK got \in {"whole", "bad"} : disk' = [disk EXCEPT ![p] = got]
    BY <1>8 DEF Download, Downloads
  <2>2. \A q \in Pkgs : disk'[q] = IF q = p THEN got ELSE disk[q]
    BY <2>1 DEF FlowInv, TransTypeOK
  <2>3. plan.install \subseteq Pkgs /\ plan.update \subseteq Pkgs
    BY PlanFacts DEF FlowInv, TransTypeOK
  <2> QED  BY <1>8, <2>2, <2>3 DEF Download
<1>9. ASSUME NEW p \in Pkgs, DownloadFails(p) \/ EraseFails(p)
      PROVE  There'
  BY <1>9 DEF DownloadFails, EraseFails, End
<1>10. ASSUME NEW p \in Pkgs, AddPackage(p) \/ AddFails(p) \/ AddErase(p)
                              \/ AddEraseMasked(p) \/ Manager(p)
       PROVE  There'
  BY <1>10 DEF AddPackage, AddFails, AddErase, AddEraseMasked, Manager
<1>11. ASSUME NEW p \in Pkgs, Cleaned(p)
       PROVE  There'
  <2>1. pc # "idle" => \A q \in Pkgs : HasFile(q) => HasFile(q)'
    BY <1>11 DEF Cleaned, FlowInv, TransTypeOK
  <2>2. plan.install \subseteq Pkgs /\ plan.update \subseteq Pkgs
    BY PlanFacts DEF FlowInv, TransTypeOK
  <2> QED  BY <1>11, <2>1, <2>2 DEF Cleaned
<1>12. ASSUME NEW e \in ts, RunElement(e) \/ ElementFails(e)
       PROVE  There'
  BY <1>12 DEF RunElement, ElementFails
<1>13. CASE UNCHANGED vars
  BY <1>13 DEF vars
<1> QED
  BY <1>1, <1>2, <1>3, <1>4, <1>5, <1>6, <1>7, <1>8, <1>9, <1>10, <1>11, <1>12, <1>13
     DEF TransNext

\* The invariant holds in every state.
LEMMA ThereInvariant == TransSpec => []ThereInv
<1>1. Init => ThereInv
  BY FlowInit DEF Init, ThereInv, There, HasFile, AllThere, AfterDownload, Adding
<1>2. ThereInv /\ [TransNext]_vars => ThereInv'
  BY ThereStep
<1> QED  BY <1>1, <1>2, PTL DEF TransSpec

\* A transaction starts only after a yes, with every package downloaded
\* (client.c:355, 437-458).
THEOREM TransactionsStartComplete == TransSpec => StartsComplete
<1>1. ThereInv => [Run => said = "yes" /\ AllThere]_vars
  BY DEF ThereInv, FlowInv, Flow, There, AfterDownload, Adding, Run
<1> QED  BY <1>1, ThereInvariant, PTL DEF StartsComplete

-----------------------------------------------------------------------------
Added(p) == disk[p] = "whole" => Add(p) \in ts
Erasing(p) == \E e \in ts : e.op = "erase" /\ e.pkg = p
Cleared(p) ==
  disk[p] = "whole" =>
    \A q \in Pkgs : <<p, q>> \in Obsoletes =>
                      q \in meddled \/ db[q] = "absent" \/ Erasing(q)
Made(e) ==
  /\ e.op = "add" => db[e.pkg] = "new"
  /\ e.op = "erase" => db[e.pkg] = "absent"

\* How far the transaction has got, for whole files and for packages to erase that
\* nobody else has changed.
Progress ==
  /\ pc = "add_install" => \A p \in plan.install \ todo : Added(p)
  /\ pc = "add_update" => \A p \in plan.install \cup (plan.update \ todo) : Added(p)
  /\ pc = "add_update" => \A p \in plan.update \ todo : Cleared(p)
  /\ pc \in {"add_erase", "commit", "run"} =>
       /\ \A p \in plan.install \cup plan.update : Added(p)
       /\ \A p \in plan.update : Cleared(p)
  /\ pc \notin {"idle", "run"} => \A p \in plan.erase \ meddled : db[p] # "absent"
  /\ pc = "add_erase" =>
       \A p \in plan.erase \ (todo \cup meddled \cup Several) : Erasing(p)
  /\ pc \in {"commit", "run"} => \A p \in plan.erase \ (meddled \cup Several) : Erasing(p)
  /\ pc = "run" /\ ~failed => \A e \in ts \ todo : Made(e)
  /\ pc # "idle" /\ meddled = {} => Closed(Meant(plan, db))

DoneInv == FlowInv /\ Progress

\* A step of the transaction itself changes a package to what was asked of it, and
\* never away from what the solver meant.
LEMMA RunElementChanges ==
  ASSUME FlowInv, NEW e \in ts, RunElement(e)
  PROVE  /\ e.pkg \in Pkgs
         /\ \A p \in Pkgs : p # e.pkg => db'[p] = db[p]
         /\ e.op = "add" => db'[e.pkg] = "new"
         /\ e.op = "erase" => db'[e.pkg] = "absent"
         /\ e.op = "part" => db'[e.pkg] = db[e.pkg]
         /\ Meant(plan, db') = Meant(plan, db)
<1>1. e.pkg \in Pkgs /\ e.op \in {"add", "erase", "part"}
  BY DEF FlowInv, TransTypeOK, Elements
<1>2. ElementOf(e)
  BY DEF FlowInv, Flow
<1>3. /\ \A p \in Pkgs : p # e.pkg => db'[p] = db[p]
      /\ db'[e.pkg] = IF e.op = "erase" THEN "absent" ELSE e.ver
      /\ e.op = "part" => e.ver = db[e.pkg]
  BY <1>1 DEF RunElement, FlowInv, TransTypeOK
<1>4. e.op = "add" => e.ver = "new" /\ e.pkg \in plan.install \cup plan.update
  BY <1>2 DEF ElementOf
<1>5. e.op = "erase" => ToErase(e.pkg)
  BY <1>2 DEF ElementOf
<1> DEFINE in == plan.install \cup plan.update
           gone(d) == plan.erase \cup ObsoletedBy(in, d)
<1>6. ASSUME NEW p \in Pkgs
      PROVE  (IF p \in in THEN "new" ELSE IF p \in gone(db') THEN "absent" ELSE db'[p])
              = (IF p \in in THEN "new" ELSE IF p \in gone(db) THEN "absent" ELSE db[p])
  <2>1. CASE p # e.pkg \/ db'[p] = db[p]
    <3>1. db'[p] = db[p]
      BY <1>3, <2>1
    <3> QED  BY <3>1 DEF ObsoletedBy
  <2>2. CASE p = e.pkg /\ e.op = "add"
    BY <1>4, <2>2
  <2>3. CASE p = e.pkg /\ e.op = "erase" /\ db[p] # "absent"
    <3>1. db'[p] = "absent" /\ ToErase(p)
      BY <1>3, <1>5, <2>3
    <3>2. p \in gone(db)
      BY <2>3, <3>1 DEF ToErase, ObsoletedBy
    <3> QED  BY <3>1, <3>2
  <2>4. CASE p = e.pkg /\ e.op = "erase" /\ db[p] = "absent"
    BY <1>3, <2>1, <2>4
  <2> QED  BY <1>1, <1>3, <2>1, <2>2, <2>3, <2>4
<1>7. Meant(plan, db') = Meant(plan, db)
  BY <1>6 DEF Meant, Changed
<1> QED  BY <1>1, <1>3, <1>4, <1>7

\* No package is both added and erased.
LEMMA ElementsAgree ==
  ASSUME FlowInv, NEW e \in ts, NEW d \in ts, e.pkg = d.pkg, e.op = "add"
  PROVE  d.op = "add"
<1>1. ElementOf(e) /\ ElementOf(d)
  BY DEF FlowInv, Flow
<1>2. e.pkg \in plan.install \cup plan.update
  BY <1>1 DEF ElementOf
<1>3. ~ToErase(e.pkg)
  BY <1>2 DEF ToErase, FlowInv, Flow
<1>4. d.pkg \notin plan.erase
  BY <1>3 DEF ToErase
<1> QED  BY <1>1, <1>3, <1>4 DEF ElementOf

\* Every step keeps it.
LEMMA DoneStep == DoneInv /\ [TransNext]_vars => DoneInv'
<1> SUFFICES ASSUME DoneInv, [TransNext]_vars PROVE DoneInv'
  OBVIOUS
<1>0. FlowInv' /\ FlowInv
  BY FlowStep DEF DoneInv
<1>p. plan.install \subseteq Pkgs /\ plan.update \subseteq Pkgs /\ plan.erase \subseteq Pkgs
  BY <1>0, PlanFacts DEF FlowInv, TransTypeOK
<1> SUFFICES Progress'
  BY <1>0 DEF DoneInv
<1> USE DEF DoneInv, Progress, outside
<1>1. CASE Answered
  BY <1>1, <1>0 DEF Answered, Solved, FlowInv, Flow
<1>2. CASE Question
  BY <1>2 DEF Question, End
<1>3. CASE ListDone
  BY <1>3 DEF ListDone
<1>4. CASE Downloaded
  BY <1>4 DEF Downloaded, End
<1>5. CASE AddDone
  BY <1>5 DEF AddDone, Added, Erasing, Cleared
<1>6. CASE Run
  <2>1. ts \subseteq todo'
    BY <1>6 DEF Run
  <2> QED  BY <1>6, <2>1 DEF Run, Added, Erasing, Cleared
<1>7. CASE RunRefused \/ RunEnds \/ Killed
  BY <1>7 DEF RunRefused, RunEnds, Killed, End
<1>8. ASSUME NEW p \in Pkgs, Download(p)
      PROVE  Progress'
  BY <1>8 DEF Download
<1>9. ASSUME NEW p \in Pkgs, DownloadFails(p) \/ EraseFails(p)
      PROVE  Progress'
  BY <1>9 DEF DownloadFails, EraseFails, End
<1>10. ASSUME NEW p \in Pkgs, AddPackage(p)
       PROVE  Progress'
  <2>1. ts \subseteq ts' /\ Add(p) \in ts' /\ todo' = todo \ {p}
        /\ pc \in {"add_install", "add_update"}
        /\ UNCHANGED <<pc, plan, disk, db, meddled, failed>>
    BY <1>10 DEF AddPackage
  <2>2. Added(p)' /\ \A q \in Pkgs : Added(q) => Added(q)'
    BY <2>1 DEF Added, Add
  <2>3. ASSUME pc = "add_update", NEW q \in Pkgs, <<p, q>> \in Obsoletes, db[q] # "absent"
        PROVE  Erasing(q)'
    <3>1. q \in ObsoletedBy({p}, db)
      BY <2>3 DEF ObsoletedBy
    <3>2. Erase(q) \in ts'
      BY <1>10, <2>3, <3>1 DEF AddPackage
    <3>3. Erase(q).op = "erase" /\ Erase(q).pkg = q
      BY DEF Erase
    <3> QED  BY <3>2, <3>3 DEF Erasing
  <2>4. pc = "add_update" => Cleared(p)'
    BY <2>1, <2>3 DEF Cleared
  <2>5. \A q \in Pkgs : Cleared(q) => Cleared(q)'
    BY <2>1 DEF Cleared, Erasing
  <2> HIDE DEF Added, Cleared
  <2> QED  BY <1>p, <2>1, <2>2, <2>4, <2>5
<1>11. ASSUME NEW p \in Pkgs, AddFails(p)
       PROVE  Progress'
  BY <1>11 DEF AddFails, Added, Cleared, Erasing
<1>12. ASSUME NEW p \in Pkgs, AddErase(p) \/ AddEraseMasked(p)
       PROVE  Progress'
  <2>1. ts \subseteq ts' /\ todo' = todo \ {p} /\ pc = "add_erase"
        /\ UNCHANGED <<pc, plan, disk, db, meddled, failed>>
    BY <1>12 DEF AddErase, AddEraseMasked
  <2>2. \A q \in Pkgs : /\ Added(q) => Added(q)'
                        /\ Cleared(q) => Cleared(q)'
                        /\ Erasing(q) => Erasing(q)'
    BY <2>1 DEF Added, Add, Cleared, Erasing
  <2>3. ASSUME db[p] # "absent", p \notin Several
        PROVE  Erasing(p)'
    <3>1. Erase(p) \in ts'
      BY <1>12, <2>3 DEF AddErase, AddEraseMasked
    <3>2. Erase(p).op = "erase" /\ Erase(p).pkg = p
      BY DEF Erase
    <3> QED  BY <3>1, <3>2 DEF Erasing
  <2> HIDE DEF Added, Cleared, Erasing
  <2> QED  BY <1>p, <2>1, <2>2, <2>3
<1>13. ASSUME NEW p \in Pkgs, Manager(p)
       PROVE  Progress'
  <2>0. pc # "run" /\ UNCHANGED <<ts, pc, plan, todo, failed, disk>>
        /\ (pc # "idle" => meddled' = meddled \cup {p})
    BY <1>13 DEF Manager
  <2>1. \A q \in Pkgs : q # p => db'[q] = db[q]
    BY <1>13, <1>0 DEF Manager, FlowInv, TransTypeOK
  <2>2. \A q \in Pkgs : /\ Added(q) => Added(q)'
                        /\ Erasing(q) => Erasing(q)'
    BY <2>0 DEF Added, Erasing, Add
  <2>3. pc # "idle" => \A q \in Pkgs : Cleared(q) => Cleared(q)'
    BY <2>0, <2>1, <2>2 DEF Cleared
  <2> HIDE DEF Added, Cleared, Erasing
  <2> QED  BY <1>p, <2>0, <2>1, <2>2, <2>3
<1>14. ASSUME NEW p \in Pkgs, Cleaned(p)
       PROVE  Progress'
  <2>1. \A q \in Pkgs : disk'[q] = "whole" => disk[q] = "whole"
    BY <1>14, <1>0 DEF Cleaned, FlowInv, TransTypeOK
  <2>2. ts' = ts /\ pc' = pc /\ plan' = plan /\ meddled' = meddled /\ failed' = failed
        /\ db' = db /\ todo' = todo
    BY <1>14 DEF Cleaned
  <2>3. \A q \in Pkgs : /\ Added(q) => Added(q)'
                        /\ Cleared(q) => Cleared(q)'
    BY <2>1, <2>2 DEF Added, Add, Cleared, Erasing
  <2> HIDE DEF Added, Cleared
  <2> QED  BY <1>p, <2>2, <2>3 DEF Erasing, Made
<1>15. ASSUME NEW e \in ts, RunElement(e)
       PROVE  Progress'
  <2>1. /\ UNCHANGED <<ts, pc, plan, meddled, failed, disk>>
        /\ todo' = todo \ {e} /\ pc = "run"
    BY <1>15 DEF RunElement
  <2>2. /\ e.pkg \in Pkgs
        /\ \A p \in Pkgs : p # e.pkg => db'[p] = db[p]
        /\ e.op = "add" => db'[e.pkg] = "new"
        /\ e.op = "erase" => db'[e.pkg] = "absent"
        /\ e.op = "part" => db'[e.pkg] = db[e.pkg]
        /\ Meant(plan, db') = Meant(plan, db)
        /\ e.op \in {"add", "erase", "part"}
    BY <1>0, <1>15, RunElementChanges DEF FlowInv, TransTypeOK, Elements
  <2>3. ASSUME ~failed, NEW d \in ts \ todo'
        PROVE  Made(d)'
    <3>1. CASE d.pkg # e.pkg
      <4>1. Made(d) /\ d.pkg \in Pkgs
        BY <1>0, <2>1, <2>3, <3>1 DEF FlowInv, TransTypeOK, Elements
      <4> QED  BY <2>2, <3>1, <4>1 DEF Made
    <3>2. CASE d.pkg = e.pkg /\ d.op = "add"
      <4>1. e.op = "add"
        BY <1>0, <3>2, <2>3, ElementsAgree
      <4> QED  BY <2>2, <3>2, <4>1 DEF Made
    <3>3. CASE d.pkg = e.pkg /\ d.op # "add"
      <4>1. e.op # "add"
        BY <1>0, <3>3, <2>3, ElementsAgree
      <4>2. d # e => Made(d)
        BY <2>1, <2>3
      <4> QED  BY <2>2, <3>3, <4>1, <4>2 DEF Made
    <3> QED  BY <3>1, <3>2, <3>3
  <2>4. \A p \in Pkgs : Added(p) => Added(p)'
    BY <2>1 DEF Added, Add
  <2>5. ASSUME NEW p \in plan.update, Cleared(p)
        PROVE  Cleared(p)'
    <3>1. e.op = "add" => <<p, e.pkg>> \notin Obsoletes
      <4>1. e.op = "add" => e.pkg \in plan.install \cup plan.update
        BY <1>0 DEF FlowInv, Flow, ElementOf
      <4> QED  BY <1>0, <4>1 DEF FlowInv, Flow
    <3>2. ASSUME NEW q \in Pkgs, <<p, q>> \in Obsoletes, db[q] = "absent"
          PROVE  db'[q] = "absent"
      BY <2>2, <3>1, <3>2
    <3> QED  BY <2>1, <2>5, <3>2 DEF Cleared, Erasing
  <2> HIDE DEF Added, Cleared, Made
  <2> QED  BY <1>p, <2>1, <2>2, <2>3, <2>4, <2>5 DEF Erasing
<1>16. ASSUME NEW e \in ts, ElementFails(e)
       PROVE  Progress'
  BY <1>16 DEF ElementFails, Added, Erasing, Cleared
<1>17. CASE UNCHANGED vars
  BY <1>17 DEF vars, Added, Erasing, Made, Cleared
<1> QED
  BY <1>1, <1>2, <1>3, <1>4, <1>5, <1>6, <1>7, <1>8, <1>9, <1>10, <1>11, <1>12,
     <1>13, <1>14, <1>15, <1>16, <1>17 DEF TransNext

\* A run that agreed, had whole files and returns OK has done what the answer
\* says (client.c:471-551).
THEOREM OKMeansDone == TransSpec => OKIsDone
<1>1. Init => DoneInv
  BY FlowInit DEF Init, DoneInv, Progress
<1>2. DoneInv /\ [TransNext]_vars => DoneInv'
  BY DoneStep
<1>3. DoneInv /\ [TransNext]_vars => [RunsOK /\ AllReadable => Done(db')]_vars
  <2> SUFFICES ASSUME DoneInv, TransNext, RunsOK, AllReadable PROVE Done(db')
    OBVIOUS
  <2>0. FlowInv
    BY DEF DoneInv
  <2>1. RunEnds /\ ~failed
    BY <2>0 DEF TransNext, RunsOK, End, Answered, Question, ListDone, Downloaded, AddDone,
       Run, RunRefused, RunEnds, Killed, Download, DownloadFails, AddPackage, AddFails,
       AddErase, AddEraseMasked, EraseFails, Manager, Cleaned, RunElement, ElementFails, FlowInv, Flow,
       TransTypeOK, Adding
  <2>2. pc = "run" /\ todo = {} /\ db' = db
    BY <2>1 DEF RunEnds
  <2>3. \A e \in ts : Made(e)
    BY <2>1, <2>2 DEF DoneInv, Progress
  <2>e. \A p \in Pkgs : Erasing(p) => db[p] = "absent"
    BY <2>3 DEF Erasing, Made
  <2>p. plan.install \subseteq Pkgs /\ plan.update \subseteq Pkgs /\ plan.erase \subseteq Pkgs
    BY <2>0, PlanFacts DEF FlowInv, TransTypeOK
  <2>4. \A p \in plan.install \cup plan.update : db[p] = "new"
    <3>1. ASSUME NEW p \in plan.install \cup plan.update
          PROVE  db[p] = "new"
      <4>1. Added(p)
        BY <2>2 DEF DoneInv, Progress
      <4> QED  BY <4>1, <2>3 DEF Added, Add, Made, AllReadable
    <3> QED  BY <3>1
  <2>5. \A p \in plan.erase \ (meddled \cup Several) : db[p] = "absent"
    BY <2>2, <2>e, <2>p DEF DoneInv, Progress
  <2>6. ObsoletedBy(plan.update, db) \subseteq meddled
    <3>1. ASSUME NEW q \in Pkgs, NEW p \in plan.update, <<p, q>> \in Obsoletes,
                 db[q] # "absent"
          PROVE  q \in meddled
      <4>1. Cleared(p) /\ disk[p] = "whole"
        BY <2>2 DEF DoneInv, Progress, AllReadable
      <4> QED  BY <3>1, <4>1, <2>e DEF Cleared
    <3> QED  BY <3>1 DEF ObsoletedBy
  <2>7. ASSUME meddled \cup (plan.erase \cap Several) \cup ObsoletedBy(plan.install, db) = {}
        PROVE  Closed(db)
    <3>1. ObsoletedBy(plan.install \cup plan.update, db) = {}
      BY <2>6, <2>7 DEF ObsoletedBy
    <3>2. \A p \in Pkgs : Meant(plan, db)[p] = db[p]
      BY <2>4, <2>5, <2>7, <3>1 DEF Meant, Changed
    <3>3. Closed(Meant(plan, db))
      BY <2>2, <2>7 DEF DoneInv, Progress
    <3>4. \A pair \in Requires : pair[1] \in Pkgs /\ pair[2] \in Pkgs
      BY TransAssumption
    <3> QED  BY <3>2, <3>3, <3>4 DEF Closed
  <2> QED  BY <2>2, <2>4, <2>5, <2>6, <2>7 DEF Done
<1> QED  BY <1>1, <1>2, <1>3, PTL DEF TransSpec, OKIsDone
=============================================================================
