# A verification development for RDS (remote dependency solving)

RDS moves dependency solving from a client device to a server.  `rds-client`
sends the server its installed packages (`@System.solv`), its `yum.conf` and a
request; `rds-server` solves and answers with the packages to install, update
and erase; the client downloads them and runs the rpm transaction.  The two are
sequential C programs that talk over one TCP connection per run of the client.

This directory holds TLA+ models of these programs, TLC configurations that
check them on small instances, and theorems about them checked by TLAPS.  The
reference for every definition is the C source: `PROJECT.json` maps each
definition to the lines it models, and paths below are relative to `src/src`.

## 1. The system

| Component | State | Operations | Interacts with |
|---|---|---|---|
| server (`server/server.c`, `server_main.c`) | the connection it serves, the message being processed, `@System.solv` and `yum.conf` in its directory | accept, receive, parse, store a file, acknowledge and answer a request, close | the client over TCP; the solver; the collector |
| client (`client/client.c`, `client_main.c`) | where the run is, backups of both files in `/var/cache/ssds` | connect with retries, compare and send files, send the request, receive acknowledgement and answer, download, run the transaction | the server; librepo; librpm |
| network primitives (`common/network_util.c`) | none beyond the socket | `sock_recv`, `sock_solv_recv`, `secure_write`, `client_connect` | both programs |
| SSL layer (`common/network_security.c`) | contexts, a "connected" flag | `ssds_read`, `ssds_write`; plain `read`/`write` with `USE_SSL = 0` | network primitives |
| garbage collector (`common/mem_management.c`) | a linked list of allocations and sockets | malloc/realloc/free, socket/accept/close, cleanup, signal handler | every component, the signals of the process |
| JSON (`common/json_read.c`, `json_create.c`) | a parser and a root node; a document under construction | parse, getters, arrays of packages and repositories | server, client |
| configuration (`common/cfg_parsing.c`) | a text file with identifier, address, port | read, rewrite | start of both programs |
| command line (`common/params.c`) | the parsed options | parse | start of both programs |
| solving (`common/solving.c`) and metadata (`common/repo_metadata.c`) | metadata directories on the server | locate or download metadata, fill the sack, run the goal | server; hawkey, librepo |
| repositories (`common/repo_handler.c`, `detect_missing_repos.c`) | none | select the client's enabled repositories | client |
| packages, logging, utilities | none | wrappers | librpm, output |

### What is hard, and what makes it correct

* **A stream without messages.**  The client writes a file's header and its
  bytes one after the other, and a reader takes what one `read` of 2000 bytes
  returned for a whole message, unless the buffer was full.  Correct means: the
  server acts on the message of the client it serves; bytes are stored in order
  and belong to one client; neither side waits for the other for ever.
* **One server for all.**  It serves one connection at a time and keeps one copy
  of each file.  Correct means: every conversation ends, its connection is
  closed, and a file believed to be stored is stored.
* **Failure anywhere.**  Reads and writes fail, files cannot be opened, disks
  fill, clients leave, the server is killed and restarted.  Return codes of
  parse and write are mostly ignored.  Correct means that errors are told apart
  from answers.
* **Signals.**  The handler walks the collector's list from any point of the
  program.  Correct means: nothing released twice, nothing forgotten.
* **Texts read by characters.**  The configuration and the list of repositories
  are read by automata that count.  Correct means: what is read is what a line
  says, reading ends, and a rewrite loses nothing.
* **A document through four loops.**  A request goes from the command line and
  the repositories into JSON arrays, into C arrays, into a query and a goal, and
  its answer the same way back.  Correct means: it arrives, and nothing of one
  request is left for the next.
* **State kept across runs.**  Backups on the client, files and cached metadata
  on the server, the configuration: each is changed in several steps and can be
  stale when it is used.  Correct means: a backup never claims more than the
  server has, and a transaction reported as done is done.

`PROJECT.json` lists each hazard with its line and the properties aimed at it.

## 2. The modules

| Module | What it is |
|---|---|
| `RdsNet` | messages as sequences of bytes, a TCP connection per run, `ssds_read` and `ssds_write`, close and reset |
| `RdsClient` | one run of the client per member of `Clients`, from the connection to the answer |
| `RdsServer` | the accept loop and the processing of one message after another |
| `Rds` | the composition, and its properties |
| `MCRds` | instances of `Rds` for TLC |
| `RdsProofs` | theorems about `Rds` on any network: types, sockets, owners of files |
| `RdsLinkProofs` | what holds of one connection, and the order of what is stored |
| `RdsPromptProofs` | theorems about `Rds` on a network that delivers a write before the next |
| `Gc` | the garbage collector with signals, and its properties |
| `MCGc` | its instances |
| `GcProofs` | theorems about `Gc` |
| `SolvSync` | the two files, their backups and the server's copies over many runs of a client |
| `MCSolvSync`, `SolvSyncProofs` | its instances, and theorems about it |
| `Transaction` | an answer's packages from the question to the end of the rpm transaction, over many runs |
| `MCTransaction`, `TransactionProofs` | its instances, and theorems about it |
| `CfgText` | how `cfg_parsing.c` reads characters, values and keywords |
| `Params` | the command line of both programs |
| `Config` | the configuration: both readers, and the writer with its temporary file |
| `MissingRepos` | `check_for_missing_repos` |
| `Startup` | the composition of these four: starts of both programs, with writes in between; its properties |
| `MCStartup`, `StartupProofs` | its instances, and theorems about it |
| `Json` | documents: what `json_create.c` builds and `json_read.c` reads |
| `Solving` | one request from the repositories of a client through the metadata cache, the sack and the goal back to its lists |
| `MCSolving`, `SolvingProofs` | its instances, and theorems about it |
| `Ownership` | the abstract specification of a resource manager, implemented by `Gc` |
| `Service` | the abstract specification of a server that answers a request in one step, implemented by `Solving` |

Definitions whose names end in `Mutant` are wrong variants of the definition
that follows them.  No specification uses them; they are there to show that a
property notices such a mistake.

### Correspondence with the code: RDS

`inbox[s][c]` holds the bytes side `s` can read; `sock[s][c]` is the state of its
descriptor; `backlog` is the queue of `listen(2)`.  A byte remembers the message
it belongs to and its place in it.  This is how a property can say whose bytes a
file holds, and how `IsWhole` says that a text is JSON: one document, or two one
after another (json-glib's parser keeps the last root).  `Reads` gives the
results a `read` may have: a chunk of what has arrived, 0 at the end of the
connection, -1 after a reset.  With `Prompt = TRUE` a write waits until the peer
has read everything, and a read returns as much as it can.  This is the schedule
the programs were written for, and a fast network with small messages gives it.
With `Prompt = FALSE` writes coalesce and split freely, as TCP allows.

The client's program counter `cpc` names the calls of `main`: `connect`
(`client_connect`), `sync` (between the files), `content` (the `fread` loop of
`ssds_send_file`), `reply`, `check` and `answer` (the three uses of
`sock_recv`, each followed by the step that looks at the buffer: `replied`,
`checked`, `answered`), `done`.  Each error path is an action that ends in
`Finish`, which is the label `end:` with the collector's cleanup.

The server's `spc` follows `ssds_server_process`: `recv`, `parse`, `dispatch`
(the switch), `store` (the loop over `sock_solv_recv`), `reply`, `fclose`,
`solve`, `close`.  The solver is a choice of the answer and its length.  A parse
that fails leaves the root node uninitialised; `ParseResults` lets it be nothing
known, or the previous message (`prev`), and `Segfault` is the third outcome.

`Faults` selects what may go wrong in an instance; section 3 gives each run's.

### Correspondence with the code: the collector

`live` is what exists, `list` is the linked list from `top` on, `held` is what the
program has a pointer to.  Every call is split where a signal can make a
difference: an allocation before its push (`push`), a move before the old block
is out of the list (`moved`), a release after it is out (`release`), the cleanup
before and after each item.  Linking and unlinking one item is one step because
the handler only follows `next` from `top`, and each of them changes that chain
by a single assignment.  The handler calls `exit`, so an interruption replaces
the step it interrupts and never returns.  `Interruptible` is the set of points
at which a signal may arrive.  What is abstracted: sizes, the two counters that
are only logged, and the type of an item (an address never equals a descriptor,
so that `ssds_gc_search` ignores it without effect).

### Correspondence with the code: the files across runs

`Rds` follows the conversation of one run; `SolvSync` takes what a conversation
does to a file (it is stored, refused, or cut by a kill) and follows the three
copies of both files through any number of runs.  `orig` is what is at the
path, `backup` the file in `/var/cache/ssds`, `stored` the one in the server's
directory.  `pc` follows `main` lines 93-157: the comparison, the question,
opening the file, the header (which truncates the server's file), its bytes one
at a time, and `copy_file`, which opens both files again.  A kill can come
between any two bytes.  `CompareFiles` is the loop of `compare_files` with its
`char` variables, not equality.

`saw`, `seen` and `doubt` are history variables.  A backup can be right about
what was sent and still mislead, and `doubt` names each such case:

* a file that is replaced between being sent and being copied: the backup gets
  the newer content, the server has the older one;
* a file that returns to a content it had earlier: after a kill between storing
  and copying, the backup may hold just that content;
* a server that acknowledged and lost the file before it was flushed;
* another client, whose files replace this client's on the server.

A file leaves `doubt` when a run has stored and copied the same content.
`BackupIsTrusted` and `RequestIsSynced` say that there is no other case.
`Registered` is whether the configuration holds an identifier.  Nothing in the
source obtains one (`client_main.c:108` is a comment), so `FALSE` is what a
client has unless its user writes one; `sync` checks `TRUE`, the theorems cover
both.

### Correspondence with the code: the transaction

`db` is the rpm database, `disk` the directory of downloaded packages; both
outlive a run. `pc` follows `ssds_answer_process` from the question,
`ssds_download` with its two lists, `ssds_rpm_process` with its three loops, and
`rpmtsRun`. `Solved` is what a solver answers: a plan after which dependencies
hold. A download resumes what is on the disk and verifies nothing
(`LR_CHECKSUM_UNKNOWN`), so a mirror can leave a package `bad`, which
`rpmReadPackageFile` then refuses. `Obsoletes` says which packages take the
place of which: an update brings the erasure of what it obsoletes into the
transaction (`AddPackage`), a package to install does not, since it is added
with `SSDS_INSTALL` = 0 (`client.c:495`). `Several` are packages with several
records in the database: `ssds_add_to_erase` returns the result of the last one,
so that a `part` can be erased (`AddEraseMasked`). `rpmtsRun` is modelled from
its contract: it locks the database, refuses a package that is installed
already, and then does each element or fails at it. `Manager` is any other
program that changes the database while the lock is free; an empty transaction
may be refused too. Two history variables tell interference from mistakes:
`meddled`, what another manager touched since the answer, and `removed`, whose
file was deleted after its download. `OKIsDone` speaks of runs whose files could
be read, and makes an exception of packages in several versions and of what an
installed package obsoletes; section 3 says what happens with these.

### Correspondence with the code: a start

`ppc`, `rpc`, `wpc` and `mpc` say where the command line, a read of the
configuration, a write to it and the search for missing repositories are.  A
text is a sequence of characters, of which the automata tell few apart; the
newline is `"NL"`, and `"EOF"` is what `fgetc` returns at the end and no text
holds.  `fm` is the state variable of `read_cfg` with the keyword it is in; one
step is one turn of its loop, and `Compare` and `ReadValue` are what
`compare` and `file_read_value` do, positions included: a keyword is compared by
reading as many characters as it has, the end of the line among them when that is
too short.  `got` is what the caller of the reader gets; `Garbage` is the
pointer `main` never initialises, which is what `id` stays when there is no
file.  A stream that has begun to read holds the text as it was (`rtext`,
`wtext`), since files of this size are read at once.  A write interleaves with a
read only where one of them opens the file, which is all the other can see.

`write_to_cfg` looks for the last place a name is at (`at`), writes a temporary
file, removes the configuration and renames a file of another name
(`cfg_parsing.c:304`), so that the rename always fails; `PutBack` is the user
who repairs that.  It looks at no result of `fwrite`, `fputc` or `fclose`: what gets
to either file is any beginning of what was written (`AppendEntry`, `CloseTemp`),
and `cut` remembers that it was not all.  It may be killed at any point, with
what its stream still holds written or not (`WriterKilled`).

`check_for_missing_repos` reads the list, then the directory (`OpenDir`, or a crash
when `opendir` gives NULL to `readdir`), then searches.  It keeps the pointers
`readdir` gave it, so that the names in a directory of more than `DirMax` entries
are whatever is in that buffer at the end (`Pointed`, `local`).  No program calls
it or `write_to_cfg` yet (the tests do, and `client_main.c:108` is where the writer
would be).  Both are modelled from their code; where headers, tests and messages
say something else of them, section 3 says so.

### Correspondence with the code: a request

`cpc` follows `ssds_send_repo` and the first half of `ssds_answer_process`,
`spc` the calls of `ssds_server_process` in their order: `packages` and `repos`
(`json_read.c`), `locate`, `download` and `found` (`repo_metadata.c`, one
repository at a time), `query` and `solve` (`solving.c`), `reply`. `req`,
`names`, `repos`, `meta`, `sack`, `todo`, `jobs` and `out` are what is local to
a request, and `Forget` is what happens to them at its end. `cache` is
`/tmp/ssds`: for each name of a repository the address its files came from, and
whether they are whole; it outlives requests, kills and restarts. An address is
a text and the release it was made for, since clients substitute `$releasever`
themselves. The lookup is by name alone, so that `cache` may hold what another
client's address gave. A crash of the server is a step where the code has one:
`strlen` of a null address; the two lists whose terminator is written past their
end when the number of elements makes it hit the heap (`Fills`); the query that
reads such a list; `strdup` of the path of a file that the metadata do not list
(`Bare`), now and whenever these files are found again (`AddMetadata`); and the
count of lists of a goal that was never run. A list without its end that does
not crash the query adds names to it (`Stale`).

External are librepo (which addresses a download takes, whether it fails,
whether cut files are noticed) and hawkey (what a query matches and what a goal
comes to: any set of packages of the sack that does the jobs, upgrades only to
newer releases (`Upgrades`) and in which no name occurs twice, libsolv's rule
`OneOfEachName`; a job for a package that is installed keeps it). `failed` and
`solved` are history.

### The abstract specifications

`Ownership` has resources that exist, that the program has, and one under way; no
list, no cursor, no signal.  `Gc` implements it with `live`, `held`, `arg` (or
`new`, when a block has moved) and its program counter (`Promise`,
`KeepsPromise`).  A step of the list that changes nothing outside is a stutter;
releasing a resource twice is no step of `Ownership`, and neither is an end with
something left.

`Service` has, of each client, its request and its lists, and of each repository
the address its metadata is known from.  An answer is one step that depends on
these alone.  `Solving` implements it (`ImplementsService`): every step of the
server between taking a request and its reply is a stutter or a `Learn` or
`Complete`, a kill and a crash are `Fail`, and the answer is what the client
reads of the document.  State of one request that reaches another would be an
answer `Service` cannot give.  Both refinements are proved (section 4).

## 3. The runs

| Run | Checks | Shows |
|---|---|---|
| `stream` | `TypeOK`, `NoSocketLeak`, `OneOwnerPerFile`, `StoredInOrder` | over any TCP schedule and under every fault the server keeps track of its connections, never mixes two clients in a file, and stores bytes in order |
| `prompt` | `HandlesOwnMessage`, `ConfirmedWhenAsked`, `BackedUpIsStored`, `SolveAfterSync`, `NoMutualWait` | in the intended schedule, under every fault but a loss of unflushed data, the conversation means what it should |
| `served` | `AllServed`, `ServerComesBack` | without faults every run gets its answer, and the server comes back |
| `collector` | `GcTypeOK`, `ListIsHeap`, `ReleasedOnce`, `NothingLeftBehind`, `KeepsPromise`, `CleanupEnds` | the list is exact between calls, the cleanup complete and at its end in the end, with signals at `SafePoints`; the collector implements `Ownership` |
| `sync` | `TypeOK`, `BackupIsTrusted`, `RequestIsSynced` of `SolvSync` | with an identifier, outside the named doubts, a backup that compares equal means that the server has the file, and a request is solved with what the run saw |
| `transaction` | `TransTypeOK`, `StartsComplete`, `OKIsDone`, `OnlyAsAnswered` | under every fault a transaction starts only with all packages there, a package changes only to what the answer says, or an update obsoletes, and OK with whole files means that the answer is done, but for the exceptions below |
| `false_data` | `FalseDataRejected` is violated | a text that does not parse is processed as an earlier message (`server.c:105`) |
| `early_leaver` | `AskedIsAnswered` is violated | a run that leaves without a request keeps the server reading its closed socket for ever (`server.c:303`) |
| `even_length` | `NoMutualWait` is violated | a file whose length is a multiple of the buffer's blocks both sides (`network_util.c:101`) |
| `startup` | `StartupTypeOK`, `CommandIsMeant`, `ReadsWhatIsSaid`, `OnlyWholeLines`, `NothingLost`, `ZeroIsWritten`, `AllThereIsNone`, `ReadEnds` | over any number of starts with writes between them the command is the one given, a value is what a whole line says, a rewrite that gets through loses nothing but the place of the file, whatever the lines are like, and reading ends |
| `solving` | `SolvTypeOK`, `RequestArrives`, `SackIsComplete`, `AnswerIsExact`, `CrashHasCause`, `ImplementsService`, `AskedIsAnswered` of `Solving` | a request arrives as it was meant and its answer as it was solved, over failed downloads, crashes and a kill; what the sack lacks and what crashes the server has one of the reasons named; the server implements `Service` |
| `other_system` | `AnswerMeetsRequest` is violated | a package that the server's own machine has in a newer release is in neither list of the answer for a client that has not installed it (`server.c:272`) |

Each violated property quotes, in its comment and in `PROJECT.json`, the line of
a document, comment or message that states it.

The models follow the code in more places where it does not do what it says,
without a run of their own:

* `mem_management.c:203`: `ssds_realloc` takes a block out of the list after
  `realloc` has freed it; a signal in between frees it again (`Realloc` and
  `moved` of `Gc`; `collector` keeps signals out of this window, and with
  `Interruptible` all of `GcPc` TLC finds `ReleasedOnce` violated).
* `client.c:133`: `compare_files` keeps bytes in a `char`, so that a byte of value
  255 ends the comparison of two files (`Stops` of `SolvSync`; the contents in
  `sync` are without it, and the theorems assume `NoEOFByte`).
* `client.c:495`: a package that cannot be read is left out of the transaction,
  and the run returns `OK` (`OKIsDone` speaks of the others).  And since packages to
  install are added with `SSDS_INSTALL`, rpm does not erase what they obsolete
  (`Applied`, `AddPackage`).
* `client_main.c:74`: without a configuration file `id` keeps what the stack
  held, so that a client may take itself for registered (`ReadNoFile`,
  `Garbage`).
* `cfg_parsing.c:304`: the rename names a file nothing writes, so that a
  successful rewrite returns 1 and leaves no configuration (`RenameTemp`).
* `packages.c:74`: of several records of a package to erase only the last result is
  returned, against `client.h:136` ("Returns OK, otherwise error code."): when an
  earlier one fails, the run returns `OK` with the package still there
  (`AddEraseMasked`; without the exception of `Several` in `Done` TLC finds
  `OKIsDone` violated).
* `params.c:53` sets the command from the table, so that it is `install` after
  `--install emacs`; `tests/test_params.c:49` expects it to be -1.  The suite with
  this test is commented out (`tests/test_main.c:26`).  `CommandIsMeant` states
  what the code does.
* `cfg_parsing.c:315`: the entry goes behind the last character of the file; when
  the last line has no newline it becomes a part of it, and the function logs
  "written to configuration file" (`cfg_parsing.c:321`) and returns 0
  (`AppendEntry`; without `IsEnded` TLC finds `ZeroIsWritten` violated).
* `cfg_parsing.c:280-296` and `:316-323`: on a full disk the entry or the temporary
  file is cut, the function goes on, removes the configuration in the second case
  and returns 0 in the first (`cut`; without it TLC finds both `ZeroIsWritten` and
  `NothingLost` violated).
* `detect_missing_repos.c:99` returns 0 when all repositories are there, which
  `tests/test_missing_repos.c:53` expects; `detect_missing_repos.h:35` says it
  "returns 1 if everything is OK".  `AllThereIsNone` states the former.
* `detect_missing_repos.c:72` and `:42`: `found` is never reset and every name
  after the first loses a character; the two make up for each other when all
  repositories are there (`AllThereIsNone`), and hide what is missing otherwise,
  although the header promises a "number >=1 if that number of repos is missing"
  (line 36). A directory that cannot be opened ends the program
  (`OpenDirFails`), and one that does not fit in `readdir`'s buffer leaves names
  that are not its own (`Pointed`).
* `repo_metadata.c:55`: metadata are looked for by name, whichever client's
  address they came from; `solving.h:54` says the sack has "information from all
  repositories provided by client" (`FoundLocally`; with no package on the
  server's machine, `Own` = {}, TLC finds `AnswerMeetsRequest` violated by
  this).
* `repo_metadata.c:79` and `:172`: metadata without the path of one of the two files
  end the server, and are found again by the next request (`AddMetadata`).
* `solving.c:126`: `ssds_dep_query` returns nothing on success, so that lists may be
  sent under `ANSWER_NO_DEP`, and are not read then (`Solved`).
* `server.c:66`: a failing `accept` is logged and called again, a step that changes
  nothing (`Accept`).
* `network_util.c:153` decides by the number of attempts and not by the result
  of `connect`: a third attempt that succeeds is reported as "Unable to connect"
  (`Connect`, `Attempts`).
* `client.c:273` does not see a failed parse: a run whose server died counts no
  packages and reports "Nothing to do" (`Answered` of `RdsClient`).
* `client.c:280` returns `ANSWER_OK` and not `OK` when there is nothing to do or
  the user declines, against `client.h:117`.
* `mem_management.c:35`: the cleanup leaves what it has released in the list until
  its end, so a second signal, or one during the cleanup of `main`, releases items
  again (`Interruptible` with `clean` and `node`; `collector` leaves these out).

`Prompt` is a precondition of the properties of `prompt` and `served`, and not
one the code establishes: `false_data` and `even_length` show what happens
without it, or at the one length it does not help with.  `FileChunk` and the
sizes in `MCRds` keep the sizes of the files away from multiples of `MaxInput` in
those two runs, for the same reason.

### Bounds

Two clients, so that one waits while the other is served and leaves its files to
it; a third adds no new kind of interference, since the server keeps nothing of
a client but its files and the previous message.  `MaxInput` is 2 (the code's
2000): files of 1, 3 and 4 bytes are then shorter than a read, a full read and a
rest, and two writes of the client.  `FileChunk` 3 (131072) makes the longest
file take two writes.  Headers and bare answers have length 1 (`SmallLen`), so
that in `stream` one read can return a header together with file data.
Answers have 0 or 1 package and up to 3 bytes, one more than a read.  The
collector's run has three blocks and two sockets: lists long enough for an item
in front, in the middle and at the end, and a free address to move to; the
number of calls is not bounded.

`SolvSync` has two contents of each file, which with its absence are three states
a path can be in, enough for a content to leave and return; one is of two bytes
and can be cut.  The number of runs, replacements and kills is not bounded.
`Transaction` has an application and the library it needs: plans with two of the
three lists at once, and a dependency that a partial transaction breaks; the
library obsoletes the application, and the application may be installed twice.
With a third package, which the library obsoletes instead, TLC finds the same in
five million states; the theorems hold for any set.  Runs are again unbounded.

`Startup`: two arguments of a command line (`MaxArgs`), enough for two commands, a
command and a package, or either with each kind of mistake; keywords shortened to
two characters and a sign (the writer needs that many), with one digit less in a
port (`PortMax` 3); texts of up to two lines of ten kinds, with and without the
last newline, so that each kind of line meets each other as its neighbour; those
that are written to have at most `MaxText` = 8 characters.  Lists of up to three
repositories, so that a second and a third name are cut; directories of up to four
names, one more than `readdir`'s buffer holds (`DirMax` 3).  Starts and writes are
not bounded.

`Solving`: two clients of releases 1 and 3, between which the server's machine
has the library in release 2, so that it can be older and newer than what a
client's repositories have; one address whose metadata lack a file; four
configurations (a mirrorlist and a disabled repository, two repositories with
two base URLs and with a metalink over a mirrorlist, three base URLs, none of
the three), so that two repositories can come to hold the same files, requests
for no, one or two packages, a library and an application that needs it. One
request is on its way at a time, as the server serves one connection (`Rds` has
the queue), and each client makes one, so that the second meets what the first
left in the cache. One kill (`MaxKills`); crashes are not bounded.

Runs end (a client that is done does nothing more, a dead server without
`restart` neither), so deadlock is not checked; `NoMutualWait` states the
deadlock that matters.

### Fairness

`FairSpec` assumes weak fairness of each process as a whole: a program that can
take a step eventually takes one.  Both programs are single-threaded, wait only
in reads and in `accept`, and the kernel delivers what is written, so nothing
stronger is assumed and nothing about which outcome a read has.  Faults have no
fairness.  `served` needs the server's answer to be its own step after the
acknowledgement has been read, which `Prompt` gives.

`Startup` assumes weak fairness of the reader, `Solving` of the steps of the server
(its restart among them, which an administrator or init does) and of a client's
reading of its answer, `Gc` of the cleanup and the end of `main`: each is code of a
single thread that is not waiting.  Nothing is assumed of downloads succeeding,
of signals, kills or users.

## 4. The proofs

All theorems hold for every value of the constants that satisfies the named
assumptions (`NetAssumption`, `ClientAssumption`, `ServerAssumption`,
`GcAssumption`, `SyncAssumption`, `TransAssumption`, `ConfigAssumption`,
`MissingAssumption`, `StartupAssumption`, `SolvAssumption`), which TLC evaluates
in the runs of their modules.  Where a theorem has a hypothesis besides, it is
named below with what it rules out.  Every safety property of a passing run is
stated by a theorem; so are the action properties and both refinements.

### RDS

* `TypeCorrect`: `Spec => []TypeOK`.  The invariant is `TypeInv`: `TypeOK`
  together with `HasClient`, since the server indexes sockets by `cur` and files
  by the code of its message, which must then be a client and a file code.
* `NoSocketIsLeaked`: `Spec => []NoSocketLeak`.  `SocketInv` adds that the queue
  holds no connection twice and not the one being served, and that a run which
  has yet to connect has none: without these, accepting or connecting could
  break the equation.
* `FilesHaveOneOwner`: `Spec => []OneOwnerPerFile`.  A byte reaches a file through
  the inbox of the connection being served and the buffer of the read, so
  `OwnerInv` says that each inbox, the buffer and, while it is being written, the
  file belong to the client at hand.  This holds for any TCP schedule and any
  fault, and does not depend on the server having parsed the right message.
* `FilesAreInOrder`: `Spec => []StoredInOrder`, again on any network and under
  every fault.  `LinkInv` says what the two ends of a connection know of each
  other; `OrderInv`, that what is stored, what is in the server's buffer and
  what has not been read are one stream: bytes of one message that follow each
  other in it were written one after the other, wherever a read cuts the stream.
  The hard case is the failure of `fwrite` and a second file under the same
  name, after which the stream must still continue what is stored or begin anew.
* `ActsForItsClient`, `SolvesWhatIsSynced`, `ConfirmsWhenAsked`,
  `BackupsAreStored`, `NeverBothWait`: the five properties of `prompt`, under
  `PromptNet`, which is `Prompt` and that a header fits in a read (it has some
  70 characters of the 2000). Without `Prompt` the first fails, as `false_data`
  shows. `TalkInv` goes through the conversation: for each place of the client,
  what the server may be doing and what is between them (`Idle`, `Uploading`,
  `Awaiting`, `Served`, ...). It says that what the server parses is nothing at
  all or one whole message of its client, so that a previous message is left
  behind a failed parse only when that client has gone. `StoredInv` adds how
  much of a file is stored at each point of its way; `BackupsAreStored` assumes
  that no `"power"` is among `Faults`, since stdio then loses what the server
  has acknowledged. `WaitInv` adds how much of a read is still to come;
  `NeverBothWait` assumes `NothingFills`: no file is empty, and no request nor
  last piece of a file ends just where a read is full. This is the condition
  that `even_length` violates, and `prompt` satisfies it.

### The collector, the files, the transaction

* `ListIsTheHeap`, `NothingIsReleasedTwice`, `CleanupIsComplete`: the three
  properties of the collector, for signals at `SafePoints`.  `GcInv` says, for
  each point of a call, how list and heap differ there, and for each point of a
  cleanup which part of the list is still to be released.  `WithoutRemoves`
  shows what unlinking does to a list without duplicates.
* `GcTypeCorrect`, and `CollectorKeepsPromise`: `GcSpec => KeepsPromise`, the
  refinement of `Ownership`, step by step from `GcInv` and `ArgInv` (what `arg` is
  outside a call).  Here too signals come at `SafePoints` only: the theorem says
  nothing of a signal between `realloc` and the removal of the old block, nor of
  one during a cleanup, where the code does not keep the promise (section 3).
* `CompareIsEquality`: for files without a byte of value 255 the loop of
  `compare_files` decides equality.  The first place where it stops exists because
  the numbers are well-founded, and is the end of both files or a difference.
* `SyncTypeCorrect`, `BackupsAreTrusted`, `RequestsAreSynced`: the properties of
  `sync`.  `TypeInv` adds what has been seen at each step of a run.  `Trust` says,
  for a file out of doubt, that the server has whatever the run saw, and that a
  backup which could be taken for the current file, or for one that it has not
  been yet, is what the server has; this is why `seen` is needed.  The last two
  assume `NoEOFByte`, since they fail without it (section 3).
  `SyncAssumption` says that no content is another one cut short: else a short
  backup could be taken for a whole file.
* `TransTypeCorrect`, `ChangesOnlyAsAnswered`, from `FlowInv` (which list is in
  hand, and that elements of the transaction come from the plan);
  `TransactionsStartComplete` from `ThereInv` (what is downloaded when);
  `OKMeansDone` from `DoneInv` (how much of the plan is in the transaction, and of
  the transaction in the database).  All four hold under every fault, for any
  `Obsoletes` and `Several`, with the exceptions that `OKIsDone` makes.

### A start

* `ReadsOnlyWholeLines`: `OnlyWholeLines` for any keywords, files and writes to
  them.  `ScanInv` says where the automaton stands: behind the end of a line, or
  behind the first character of one when it expects a keyword.  `FileInv` says
  that both files are always texts or not there, wherever a writer was killed;
  its hardest part is that the place of the old value stays inside the text.
  `LineEndIs` is the existence of the end of a line, by well-foundedness.
  `ConfigAssumption` asks that no two keywords begin alike and none holds a
  newline, as is so in `globvar.h` and `cfg_parsing.c`.
* `ReadsWhatLinesSay`: `ReadsWhatIsSaid` for texts of any length.  `Said` selects
  the last line for a field; `SaidUpto` says the same of the lines before a place,
  so that `PlainInv` can say what has been read so far.  `PlainLineBegins` and
  `PlainLineGoesOn` follow the automaton along a line that says nothing,
  `PlainMismatch` one that only begins like a keyword, `PlainEntry` one that says
  something.
* `ZeroMeansWritten`, `NothingIsLost`: `ZeroIsWritten` and `NothingLost` for texts
  with any lines, under `OneLineValues`: no value that is written has a newline in
  it (else the line would not be one).  `FindInv` says where the writer expects a
  name: at a line, or at the value it has just found, which `IsSingle` keeps from
  being taken for the name.  Then `at` is the place of the value on a line that
  says the name.  `AppendedLines` and `UpdatedLines` follow every line of a text
  to its place in the changed one (`SameLine`), `SaidMoves` draws what is said
  from that.  What a full disk cuts is part of both: `NothingIsLost` speaks of
  writes that got through (`~cut`), `ZeroMeansWritten` of what any write leaves of
  the other fields, a beginning of an entry behind an ended line being no line for
  them (`PrefixSays`), and of the field itself when the entry got through.  The
  proofs use nothing of empty or cut-short lines.
* `CommandIsTheOneGiven`: `CommandIsMeant` for any number of arguments (the code's
  behaviour, which `tests/test_params.c:49` does not expect).  `MeantInv`
  carries which commands and operands were given so far, `Given` as a finite set.
* `StartupTypes`: `StartupTypeOK`; that the two files hold texts wherever a writer
  was killed is `FileInv`, that a count of missing repositories is not negative
  `CountInv`.
* `NoneIsReported`: `AllThereIsNone` for lists of any length.  `ListInv` carries
  that the first name is read as it is and that `found` stays true behind it.

### A request

* `RequestsArrive`, `AnswersAreExact`: a document that is built by loops is read
  back as what was put in, for lists of any length. The model writes these loops
  as folds or recursive functions, of which the prover knows nothing. The lemmas
  `PackagesOneByOne`, `ReposOneByOne`, `SolvedOneByOne` and `EnabledOneByOne`
  exhibit the states of a loop as a function of its turns; `UpTo` is induction
  over an interval, as a statement about sets (a least counterexample); and
  `AddElementIs`, `AddMemberIs` and their like say what one call of
  `json_create.c` does to a document. `AskedInv` then carries what the document
  on the wire says, `ServedInv` and `ReadInv` what the server has read of it,
  `AnswerInv` what the answer says.
* `SacksAreComplete`, from `LoopInv`, `FoundInv` and `CacheInv`: what the loop
  over the repositories has found, in which order. The theorem measures a
  repository by the first address its client sent for it; the cache may hold
  another client's under the name, which is the third of its reasons.
  `CrashesHaveCauses` from these and `TurnInv`; metadata that lack a file are
  among the causes. `SolvingTypes` from all of them and `GoalInv`.
* `ServerIsTheService`: `Spec => ImplementsService`. `MetaInv` says that a
  package of the sack comes from a repository of the request that is being
  served, `SourceInv` that the service knows the address it came from,
  `SoundInv` that an answer is a goal of the sack, in which no two packages have
  one name. Each kind of step has a lemma: taking and losing a request, a look
  at the cache, a download that ends, an answer, a failure, a client that
  leaves; all others change nothing the service sees. It was this proof that
  asked for libsolv's rule: with two repositories whose files came from the same
  address, the model let an answer name a package twice, and the instance had no
  such repositories. The rule is now part of `Solutions`, and the instance has
  them.

`SolvAssumption` says that names, clients and what is installed are finite, that
repositories are records of the shape `ssds_get_repo_urls` reads, and that the
two addresses which stand for none are no addresses.

Each proof has one lemma per component with a step per action.  The inductive
invariants (`SocketInv`, `OwnerInv`, `OrderInv`, `TalkInv`, `StoredInv`, `WaitInv`,
`GcInv`, `PlainInv`, `WrittenInv`, those of `SolvSync`, `Transaction` and `Solving`)
were checked by TLC before they were proved.

Only model-checked are the liveness properties (`AllServed`, `ServerComesBack`,
`CleanupEnds`, `ReadEnds`, `AskedIsAnswered`), which are out of the prover's
reach, as is `ENABLED`: the proofs about `Rds`, `Startup` and `Solving` are
about their steps and use nothing of their fairness. Induction over data is not
available as a rule, only for a set of numbers at a time, as above.

## 5. What is not modelled

The texts of messages and the log, and machine information (`util.c`): no other
part reads them.  hawkey, librepo, librpm and json-glib, which appear as choices
or, for json-glib, as documents.  `USE_SSL = 1`: the handshakes, the contexts and
the flag `_ssl_connected`, which the default build never uses.  Of `json_create.c`
the functions no program calls: `ssds_js_cr_pkgs_init`, `ssds_js_cr_gen_id` and
the general ones that switch and leave arrays and objects.  The components
marked `not_modelled` in `PROJECT.json`.  In `Solving` a download takes as long as
it takes: the timeouts are librepo's.  In `SolvSync` files are
replaced by renaming, as package tools and editors do; a file rewritten in place
while it is being sent, whose size no longer fits its header, is not modelled.
In `Transaction` an answer that names only obsolete packages, for which the code
runs an empty transaction, is left out, as is the branch for a target with an
error, which a download with `FAILFAST` never leaves.  `ssds_get_new_id` and the
`GET_DEPENDENCY` message are in the source but nothing sends them.  Stand-alone
examples, tests and build files are not part of the programs.

## 6. Plan

What is left, in this order:

1. The composition of `Rds` and `Solving`: the same request with the stream under
   it, implementing `Service` extended by the two files.
2. `USE_SSL = 1`: the handshake flags over two clients.
3. Files rewritten in place while they are sent.
