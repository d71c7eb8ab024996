# koba-mcp-bridge in TLA+

This directory holds TLA+ models of koba-mcp-bridge, the TLC configurations
that check them on small instances, and proofs of their main invariants that
the TLA+ proof system checks for every value of the constants.  Paths below are
relative to the repository (`src/...` is the Python package, `docs/...` and
`tests/...` lie beside it).

## 1. The system and its parts

The Bridge is a set of FastMCP servers in one deployment.  `bridge` forwards
tool calls to module servers (`files`, `curl`, `github`, `gitlab`, `analysis`,
`ghidra`); `management` keeps accounts, configuration and a log of tool calls
and runs periodic maintenance.  FastMCP runs synchronous tools in worker
threads, so within one process any number of calls of the same client object
are under way at once; `files`, `curl` and `management` are different processes
that open the same SQLite files and the same object directory.  GitHub and
GitLab are remote: every request sees the repository as it is at that moment.

| Component | State | Operations | Interacts with |
|---|---|---|---|
| file store (`modules/files/store_*.py`) | SQLite tables `files`, `aliases`, `file_refs`, `collections`, `collection_items`; one object file per digest | put (bytes, stream, file), delete, gc, add/release reference, extract, collection delete, readers | uploads, ingress, curl and management call it, in several processes |
| maintenance (`management/runtime.py`, `infrastructure/files.py`) | configuration row | cleanup of the log, cleanup of old unreferenced files, every interval | the file store |
| upload manager (`upload_manager.py`) | table `upload_sessions`, one part file per session | begin, write, status, finish, cancel, list, cleanup | puts into the file store |
| HTTP connection pool (`common/http_transport.py`) | LIFO queue of idle connections, a counter | request (acquire, send, retry once, release) | GitHub and GitLab clients |
| GitHub branch tools (`git_transaction.py`, `git_mutations.py`, `content_api.py`, `refs.py`, `github_admin.py`, `github_history*.py`, `pulls.py`, `github_review.py`, `github_collab.py`) | none of their own: the branches at GitHub | commit, put and delete file, fast-forward, create, delete, rename, reset, repoint, rewrite authors, merge a branch, update a pull request's head branch by a merge or a rebase | the HTTP pool, which may send a write twice |
| pull request merge (`github_actions.py`, `github_collab.py`, `pulls.py`) | none of their own: pull request, reviews, check runs at GitHub | merge, update base, review | the same |
| accounts and clients (`management/application/services.py`, `repositories.py`, `tool_context.py`) | table of accounts with their credentials; a cache of clients per module server | create, edit, update, set credential, delete; resolve, get the client | every GitHub and GitLab tool |
| caches of a GitHub client (`github_agent.py`) | installation ids, tokens with their expiry, repository metadata; one lock | look up, mint, refresh, list repositories | every GitHub tool, and the merge through the default branch |
| configuration and invocation log (`common/tool_telemetry.py`, `repositories.py`, Settings and Logs pages) | bounded set of pending tasks, table of invocations, configuration row | submit, append and trim, cleanup, clear, delete, save settings | middleware of every server; the maintenance loop |
| curl (`modules/curl`) | a process and temporary files per call | request, download, capture of a stream | puts into the file store |
| analysis, Ghidra, GitLab, bridge, admin pages, settings, ingress | little or none | | see section 8 |

What is hard in it:

* *Interleavings.* Threads and processes share the object directory and the
  tables and take no common lock; each SQLite transaction and each file-system
  call is atomic and nothing larger is (put against delete, extract against gc,
  finish against cleanup).
* *Check, then act, over the network.* Every branch tool and the merge look at
  GitHub in some requests and write in another; whoever pushes in between is
  seen or not depending on what GitHub itself compares.
* *Crashes.* Object files, part files and rows are written in separate steps.
* *Retries.* The pool sends a request again when the answer is lost; clients
  send a chunk or a `finish` again.
* *Limits.* The pool's counter, pages of reviews, sizes of uploads and responses.
* *Processes.* curl, the server it talks to, the clock and the thread that polls
  end a capture independently of each other.
* *Caches.* A client outlives changes of the account it was made from; its ids
  and tokens outlive what GitHub means by them; threads look a second time under
  the lock, and one writer takes none.
* *Configuration.* It is read before a transaction begins and used within it,
  while an administrator saves another.
* *Liveness.* The cleanup has to reach every old file although deletes and the
  trimming before it fail; the middleware must have room again although
  management does not answer.

What makes each component correct is stated as properties in the modules and
summarised in sections 4 and 6; `PROJECT.json` lists the hazards with the lines
where they bite and the properties that would catch them.

## 2. Modules

| Module | What it is |
|---|---|
| `FileStore` | the store: tables, object files, threads in operations |
| `FileMaintenance` | `FileStore` with the maintenance loop, its configuration and its failures, under fairness |
| `ResumableUpload` | what the upload manager promises: a session is opened, grows, and becomes a file or goes |
| `UploadSessions` | the upload manager; implements `ResumableUpload` |
| `HttpPool` | the connection pool |
| `GitRefs` | every tool that writes a branch, but for the merge of a pull request, against GitHub's rules for refs |
| `HistoryRewrite` | the two tools that rewrite authors, commit by commit, over graphs of commits |
| `PullMerge` | the merge of a pull request with its checks |
| `AccountClients` | accounts, the administrators' edits, and the clients cached by the module servers |
| `GitHubCaches` | the installation ids, tokens and metadata one client of a GitHub App keeps, and the list that repairs the ids |
| `InvocationLog` | the log of tool calls, from the middleware of a server to the table, with the settings that rule it |
| `CurlCapture` | the three curl tools, with the process they run and the time they give it |
| `FileStoreProofs`, `UploadProofs`, `HttpPoolProofs`, `GitRefsProofs`, `PullMergeProofs`, `GitHubProofs` (caches, rewrites), `ManagementProofs` (accounts, log), `CurlProofs` | theorems |
| `MC...` | values for the constants, for TLC |

Each component's module declares its bounds as constants and names what it
assumes of them.  An action is one operation or the part of one between two
points at which another thread may run: a SQLite transaction, a file-system
call, a critical section, a request.  `call[p]` is the record of the local
variables of thread `p` and of where it stands; an operation that only returns
an error is not an action.  Operators whose comment says "Mutant of X" are not
part of the model: they are plausible bugs which the runs must be able to tell
from X.

## 3. How state and actions correspond to the code

**FileStore.** `rows`, `refs`, `colls` and `items` are the tables; `older` is the
order of the rows by `created_at`, and `aged` are the rows older than the cleanup's
cutoff, the oldest first; `objects` the digests with an object file.
A file is its digest, so equal bytes are one element.  `LookUp`, `Publish`,
`Register`, `Acknowledge` are the steps of a put (`store_core.py`: the look at
`target.exists()`, `os.replace`, `INSERT OR IGNORE`, the closing `info`);
`Inspect`, `Remove`/`ForceRemove`, `Unlink` those of a delete (`info`, the
transaction with its blockers and the foreign keys that stop it, the unlink
after the commit).  `Sweep`, `SweepNext`, `SweepEnd` are the loops of gc and of
the cleanup, which differ in what a failing delete ends.  `Candidates` is their
query, `ORDER BY created_at LIMIT ?`: a list of the oldest rows, up to one of the
`Limits`, from which the cleanup then leaves out those without bytes (`Chosen`).
`Extract`, `ExtractMember` (a put per member) and `ExtractCommit` are `extract`;
`FirstAtPath` is what `INSERT OR IGNORE` on the key of collection and path keeps, the
first member at each path.  `Abort` is a crash, or an exception, at any point.

**FileMaintenance.** A cycle is `Wake`, which reads the configuration, `TrimLog` or
`TrimFail` (the cleanup of the log comes first, and its exception ends the cycle;
`failures` counts them, up to `MaxFailures`) and `CleanFiles`, which starts a cleanup
of the store with one of the `Limits`; `Toggle` is the administrator, who may change the configuration after the cycle has read it; the
client threads use the store meanwhile.

**UploadSessions.** `row` and `part` are the session's row and part file, `stored`
the contents in the store.  `Sound` and `Reconciled` are `_reconcile_open_row`,
the first act of every transaction; `Write` appends and records in one
transaction, `WriteTorn` is the append whose transaction did not commit; `finish`
is `FinishStatus`, `Hash`, `Store`, `Commit`, `Discard`, or `Receipt` for a session
already committed.  `Forget` is whoever collects files from the store.

**HttpPool.** `Take`, `Reserve`, `Create`, `Wait`, `TimeOut` are `_acquire`;
`Answer`, `Break`, `Escape` the exchange; `Drop`, `DropRaising` the release of a
connection that is not kept; `AfterFailure` the one retry.  `GoStale` is the
server that closes an idle connection.

**GitRefs.** A commit stands for its history along the first parents, a sequence of
trees and identities, so "ancestor" is "prefix".  `Start` is a call with its policy checks
(`Permitted`), `Begin`/`ReadFile`/`ReadOther` read the branch and plan the write,
`Recheck` is the second look, `Write` is the request together with what GitHub
accepts (`Accepted`) and does (`Written`), answered or lost (then sent again).
`Integrate` is the one request of `merge_branch` and of the two tools that update the
head branch of a pull request: GitHub merges (`MergeOf`) or rebases (`RebaseOf`) where
the files do not conflict.  Such an update names a pull request and no branch, and no
tool looks at the name of its head branch, so `Permitted` lets it be any branch.
`Push` and `Rewind` are everybody else.

**HistoryRewrite.** `objects` are the commit objects of the repository, a sha is
a place in it, and GitHub stores equal commits once (`Put`).  `path` and `order` are
`visiting` and `order` of the depth-first `visit` (`Descend` per parent, `Leave` when
all are done), or the current commit and the chain of the linear walk (`Follow`,
`ReachBase`, `WalkFails`); `new` is the values of `mapping` in the order of `order`.
`Reuse`, `Make` and `MakeRefused` are the three ends of a round of the second loop,
`Report` ends a dry run, `Recheck` and `Update` are the last two requests.  `GitRefs`
takes a rewrite as one plan on a linear history and adds what this module leaves
out: which branches may be rewritten, other callers, requests sent twice.  That
the tree, the message and the dates stay is one element, `tree`; signatures, which
a commit made again loses, are left out, so for the linear tool, which makes every
commit again, nothing is claimed of unchanged shas.

**PullMerge.** One action per request of `merge_pull_request`; `since` is a history
variable, the kinds of things that have changed at GitHub after the call asked
for them, and appears in no guard.

**AccountClients.** `row` is the table; `past` holds the records there ever were
and appears in no guard.  An edit loads the account and draws its time stamp
(`BeginEdit`; `BeginUpdate` is `AccountService.update` with its `save`, an upsert)
and commits later (`EndEdit`, `Written`): SQLAlchemy's UPDATE names only the
columns that differ from what was loaded, so two edits may mix.  `SetCredential`
writes the credential and leaves `updated_at` alone.  A tool call is
`ReadAccount`, `ReadCredential` (two transactions of `resolve`), `GetClient` under
the lock of the cache, `Return`.  Identifiers are UUIDs and are taken never to be
an alias; time stamps are taken to be strictly increasing.

**GitHubCaches.** A call is `LookUpId`, `LockId`, `AskId`, `FillId` (the look, the
second look under the lock, GitHub's answer, the write), `LookUpToken`, `LockToken`,
`Mint`, `StoreToken` in the same way, and the request, which is on its way until
`ArriveCall`, `ArriveMetadata` or `ArrivePage`.  `ReadMetadata` and `StoreMetadata` are
`_repository_metadata`, which takes no lock at all.  `list_repositories` is
`AskList` and, per page, `ArrivePage` and `RecordPage`.  `Permit` is the token that
`capabilities` has made for its permissions (`_installation_permissions`), without a
look at the cache, and throws away.  `Raise` is any failure of a request.  `Transfer`
is GitHub.  The clock is turned round: `tokens`, `left` and `fresh` are what remains,
`wait`, `age` and `way` what has passed, and `Tick` moves them all.  Nothing bounds how
long a request takes: the time-outs of `http_transport.py` are those of single socket
operations, in each of two attempts, so `wait` is counted up to `Wait`, beyond the
margin, and stays there.  The clocks of GitHub and of the server are taken to agree.

**InvocationLog.** `CallTool`, `Finish`, `Cancel` and `Answer`, `GiveUp` are the
middleware and its tasks, `Shutdown` the end of its process.  At management a
request is `Receive` (the event gets its date), `ReadForAppend`, `Append` or `Fail`;
a cleanup `ReadForCleanup`, `Cleanup` or `CleanupFail`.  Reading and writing are
apart because the driver begins a transaction at its first write.  `Trimmed` says
what a trim may keep; of records of the same date any may go.  `LoadSettings` and
`SaveSettings` are the form, whose UPDATE names the columns that differ from what
was loaded.  `since` and `explained` are history variables and appear in no guard.

**CurlCapture.** A call is `Begin` (its temporary files exist), `Spawn`, then
`Answered`, `Expire`, `Reap` (`subprocess.run`) or `Poll`, `Look`, `Collect`, `Kill`,
`GiveUp` (the loop of the capture and its two `communicate`), and `Check` or
`Measure`, `Hash`, `Admit`, `Preview`.  `Poll` and `Look` are apart because the
process may exit, or write, between `poll()` and the look at size and clock.
`Connect`, `Receive`, `Exit` are the process, `Elapse` the clock, `Forget` a delete
or a cleanup of the store.  Responses are prefixes of one stream, so an output is
the number of its bytes and its digest is itself.  `told` says whether an answer
speaks of a failure or a cut (`ok`, `body_truncated`, `stop_reason`).

## 4. Runs

| Run | Instance | What it shows |
|---|---|---|
| `store_races` | 2 threads, an archive with the same bytes at two paths, 1 consumer, force on and off, sweeps of up to 1 and 2 files, 1 crash | the tables are consistent; a collection has a file at every path or does not exist; bytes without a row are in a thread's hands while nothing fails; operations that do not overlap leave no row without bytes, whatever crashes; only a forced delete or a release ends a reference |
| `store_referenced_bytes` | 2 threads, 1 file | **violated**: a referenced file loses its bytes to an unforced delete |
| `maintenance` | the janitor and 1 client, 2 files, 1 consumer, sweeps of up to 1 and 2 files, 2 crashes and 1 failure of the trimming | every operation returns; an old unreferenced file goes, unless rows without bytes take up the places before it |
| `uploads` | 2 threads, two uploads (4 honest distinct bytes in chunks of at most 2; 1 arbitrary byte with a digest), 3 torn writes, failures or crashes | sessions can be resumed, nothing is spliced, only declared content is admitted and receipted, `ResumableUpload` is implemented |
| `pool` | 3 threads, limit 2, one retry, 2 faults | no connection is shared, the counter is exact, the limit holds, every request returns |
| `git` | 2 callers, branches `main` (reserved, default, protected by GitHub), `stable` (reserved), `dev` and `topic`, of which `main` and `dev` exist at first, 2 files with 2 contents, histories up to 3 commits, 4 calls, lost answers and outside changes | nothing pushed is dropped except by a forced update, deletion or renaming; a commit changes its file only; the second look narrows what a forced update destroys; a reserved branch changes only in the four ways that a check or its lack leaves open (created, reset, repointed if not the default, updated as the head of a pull request) |
| `history` | every repository of 3 commits with 2 contents, by the App or others, linear or with merges; any base, a limit of 3; a push or a merge of one more commit | after either rewrite the branch grew as before, identities apart, and its range is the App's; what needed no rewrite keeps its sha; each commit is made after its parents, from what they became; the limit counts what is to be rewritten |
| `pull_merge` | 1 caller, 3 commits, 2 bases, 2 checks, 2 reviewers, 3 reviews, 4 outside events | a merge rests on base, reviews and checks that were right unless they changed after being asked for |
| `accounts` | 2 accounts, 2 aliases, 2 threads, 2 administrators, 3 time stamps, 3 commits | a call works with settings that were in force at some time since it read the account, and with a credential that was |
| `caches` | 2 threads of one client, 1 repository on the second of 2 pages, 2 installations, a token's life of 3 with a margin of 1, requests of any length with their waits counted up to 2, metadata kept for 2 | a token is asked for only when there is none, but for `capabilities`; one arrives ended only if more than the margin has passed since it was taken; metadata are served for their time and that of their answer only; a quiet list repairs the ids |
| `log` | 2 calls, room for 1 task, 1 record there before, limits of 2 and 1, the loop as cleaner, 1 administrator with 2 forms | the log keeps to a limit in force, records only what was allowed, is again and again rid of what has expired; the middleware has room again |
| `curl` | 1 caller, responses of 0, 2 and 3 bytes, limits of 2 bytes, every exit of curl | a body passes for whole only if it is; the reason of a capture's end is true; what is stored is settled; temporary files go; every call ends |

The bounds are the smallest in which the cases of interest happen: a race in
the store takes two threads and one file, and a third only repeats one of
them; an archive member that is also a file of its own makes extraction and
deletion meet, and one file at two paths tells the key of a collection's items from
their file (different files at one path would be a third file, too many states: of
these `Wholeness` is proved only); a limit of one file makes rows without bytes take the
place of others; four distinct bytes in chunks of two make a lost, doubled or
swapped chunk visible; three threads on a limit of two make one wait while
another fails; two starts, a lost answer and a push are the four units of work
a late repetition needs; an approval by each reviewer, an objection and a push
are four events; three commits of a repository and a pushed fourth make
histories that meet and part, reach the limit and exceed it; three commits of the
table of accounts let two edits overlap and a credential
change between them; responses of two and three bytes with a limit of two are
at and beyond it; two threads of a client race for the lock, the cache and the
list, and the second of two pages is the one that comes late; two events and a
record exceed a limit of two in either order, and a form that lowers the limit
and stops the capture and one that stops the logging are what a trim and an append
may have missed; waits counted beyond the margin tell an answer within it from a later
one, and how much later is told by nothing.  `git` starts with the same history of two
commits on `main` and `dev`, which then fork, are merged and rebased.  One caller is
enough for `curl`: callers share only the set of stored files, and `Forget` removes any
of them at any time.  The symmetry of `accounts`, `history`, `pull_merge` and `git` is
sound since the runs check invariants and conditions on single steps that treat the
permuted values alike, and nothing of whole behaviours.  Deadlock is checked in all runs
but `uploads`, `git` and `pull_merge`, which may really stop, when their bounded work or
events are used up or every upload is gone.

### Violations

This run checks what the repository says of itself and the code does not keep.
`PROJECT.json` quotes the lines under "findings".

* `store_referenced_bytes`: `delete` unlinks the object after its transaction
  (`store_lifecycle.py:75`).  A put that finds the object still there registers the
  row anew, the file is referenced, and the unlink takes its bytes.

Seen while modelling and not made a run of their own: a committed session holds
no reference to its file, so gc or the cleanup may take it, and the repeated
`finish` then fails, although `docs/file-service.md:43` has it return the same file;
the merge request carries no sha, so GitHub merges whatever the head is by then,
with or without checks, and a pull request retargeted after its base was asked for
goes into a reserved branch (`Justified` exempts both, as changes after the
question); `delete_branch` and `rename_branch` name no head, so what was pushed after
the caller decided goes with the branch (`refs.py:278`); the head check "immediately
before the forced ref update" (`github_admin.py:41`) and those like it are a GET and
a later forced PATCH, and a push in between is dropped (the case that `Window`
leaves open); two commits that differ only in their identity become one when
rewritten, and their merge is then refused or has the same parent twice, for the
count check (`github_history_graph.py:195`) compares the commits with themselves;
a base exactly `max_commits` commits away is refused (`github_history.py:268`;
`LimitExact` allows for this one); `visit` recurses once per commit, so histories
shorter than the limit of 2000 may exceed the interpreter's (`Fail`); a retry of the pool may
draw a second stale connection and so fail without having reconnected
(`http_transport.py:53`); rows left without their bytes by a put that raced a
delete are skipped by every cleanup after they have taken their places on its limited
list, oldest first, so enough of them, or one with a limit of 1, keep it from
everything younger (`infrastructure/files.py:53`, `64`), and end every gc that comes to one
(`store_lifecycle.py:105`; `StaleFilesGo` allows for it); of two members of an archive
at one cleaned path the second is lost from the collection, while `files` counts both
(`store_collections.py:127`); a file put again keeps its old `created_at`, so the next
cleanup may take it (`store_core.py:141`); an update of a pull request's head branch, a
merge or a forced rebase, looks at no name, so it writes a reserved branch
(`pulls.py:253`, `github_review.py:48`), although `capabilities` reports
`reserved_branch_mutation_allowed` as False (`github_history.py:179`; `ReservedSafe` names
this way); only the oldest
page of reviews is read (`github_collab.py:51`); required checks are dropped while
CI has started neither on the head nor on the default branch (`pulls.py:335`);
`set_credential` does not touch `updated_at`, so clients with the old credential
stay in use (`CredentialOfTheCall` exempts exactly this); a capture whose last
writes overshoot `upload_max_bytes` is lost although the stop reason was
`max_bytes` (`operations.py:390`, `store_core.py:245`); a body of exactly
`max_response_bytes` is reported as truncated (`response.py:307`); a `copy-` file whose
copy fails stays in `tmp` (`store_core.py:262`); no call ever drops the id of an
installation that is gone, only `list_repositories` overwrites it, and two old
answers may still undo that (`github_agent.py:216`, `ListRepairs`); the later pages of
a list are asked for with its first page's token, however old (`github_agent.py:386`);
nothing bounds the time a request takes, for the time-outs are those of one wait for a
connection or for a socket, in each of two attempts, so more than the margin of 120
seconds may pass before a token arrives (`http_transport.py:91`; `NeverExpired` says
that this is the only way for it to arrive ended); `capabilities` has a token made each
time, whatever is cached (`github_history.py:105`); two administrators who
save the Settings at the same time may leave a mixture of both forms
(`repositories.py:291`); events of calls that were cancelled, of a full middleware and
of a server that stops are not recorded.

## 5. Fairness

Safety holds without any.  The four liveness runs assume:

* `maintenance`: weak fairness of each thread's own next step, for an operation
  that has been started is a running thread and takes no lock but SQLite's, and
  of `Wake`, `TrimLog` and `CleanFiles`, for the loop sleeps a finite interval
  (`runtime.py`) and SQLite's waits are bounded.  Nobody has
  to start an operation, crash, or change the configuration.  `StaleFilesGo` holds
  from the time on when references, memberships and collections are left alone;
  while they change, one late reference may end each cleanup early.  It exempts the
  times when rows without bytes take up all places of the list before the file.
* `pool`: weak fairness of each thread's own next step: sockets and the queue's
  `get` have time-outs, so a thread in a request always goes on.
* `log`: weak fairness, for each event, of the end of its task, `Answer` or
  `GiveUp`: `urlopen` has a time-out.  That management handles what it received is
  not assumed.  Of the maintenance loop, weak fairness of the read that begins a
  cleanup, for the loop catches every exception and sleeps a finite interval
  (`runtime.py:60`), and strong fairness of the cleanup's transaction: it may fail any
  number of times, but not every time.
* `curl`: weak fairness of the thread's own next step, of the passing of the time
  given to the call, and of the death of a process that was sent SIGKILL.  That
  the server answers, that curl keeps its `--max-time` or heeds SIGTERM is not
  assumed; the last matters because `run` waits for what it killed without limit.

## 6. Proofs

For every value of the constants that the modules assume of them
(`FileStoreAssumption`, `UploadAssumption`, `PoolAssumption`, `GitAssumption`,
`MergeAssumption`, `AccountAssumption`, `CurlAssumption`, `CacheAssumption`,
`LogAssumption`, `HistoryAssumption`; TLC evaluates each), TLAPS checks:

| Module | Theorems | Along |
|---|---|---|
| `FileStoreProofs` | `TypeCorrect`, `Integrity`, `Wholeness`, `OrphansOwned`, `BytesKept`, `ReferencesKept` | a lemma on what one thread's step does to its record, `LocalsOK` in the type invariant (what each step may assume of its local variables); `Wholeness` needs that the items of a collection are those of `FirstAtPath`, and that a member row cannot go while the collection stays; `BytesKept` needs `SoloInv`, since that `Register` adds a row with bytes rests on what an earlier step saw |
| | `OperationsBounded` | `StepsLeft`, a number for what a thread still has to do: every step of its operation lowers it, and no other thread's raises it.  What a sweep or an extract has still to do is the length of its list |
| | `StoreUnderMaintenance`, `LoopHarmless`, `MaintainedStore` | every step of the loop is a step of the store or leaves it (`TrimFail` has a counter of its own for that), so what is proved of the store holds beside the loop; `LoopSafe`, what the loop's thread may be doing, gives that it never takes a file that something references |
| `UploadProofs` | the invariants of `UploadSessions`, that the part file only grows, and that `ResumableUpload` is implemented | `UploadInv`: the invariants are not inductive one by one; `ThreadOK` says what a thread between two steps of finish, cancel or cleanup still knows |
| `HttpPoolProofs` | `TypeOK`, exclusiveness, the accounting, the limit | `PoolInv`: the limit follows from the accounting, the accounting from each connection being in one place |
| | `RequestsBounded`, `NoStandstill` | `StepsLeft` as in the store, seven steps for each attempt left; that a reserved place can be used is the accounting again: the live connections are fewer than the limit |
| `GitRefsProofs` | types and `Window`, `NothingDropped`, `OnlyItsFile`, `ReservedSafe`, `ContentKept` | `GitInv` with `Shaped`, what a call carries at each step; facts about prefixes of histories |
| `PullMergeProofs` | `TypeOK`, `Justified` | `Grounds`: for each request already answered, what was true then is true now unless it is in `since` |
| `ManagementProofs` | accounts: types and `SettingsOfTheCall`, `CredentialOfTheCall`, `CacheByVersion` | `AccountInv`: a time stamp stands for an unbroken run of an account's records, and each cached client and each call is explained by records of a run |
| | log: types, `LogBounded`, `RecordsAllowed` | `LogSafe`: what a worker has read is in its `since`, and `since` holds what is in force; `TrimmedFacts` says that a trim keeps to its limit |
| `GitHubProofs` | types, `NoNeedlessMint`, `NeverExpired`, `MetadataFresh`, `ListRepairs` | `CacheSafe`: the lock has one holder and it is where the code has the lock; what is left of a token and what has passed since it was taken are together more than the margin.  `ListRepairs` needs `AllCalmSafe`: while nothing has moved since the list began, every id written is right, and those of the installations and pages already recorded are there |
| | rewrites: types, `CommitByCommit` | `HistoryInv`: the order found has each commit once and its parents before it, a linear range is a chain, and what is being visited is not collected yet and gets older along the path |
| | rewrites: `SameHistory`, `OnlyOthersRewritten`, `LimitExact` | `Needed`, on top of `HistoryInv`: what a graph's walk collects was asked for by what it collects later or still visits, so nothing outside the head's history is there; what was refused as too much was too much.  Then induction along the age of commits (below) |
| | rewrites: `RewritesEnd` | `CallLeft`: three for each commit there is still room for; `HistoryInv` keeps the commits found and the path within the limit |
| `CurlProofs` | types and `WholeUnlessTold`, `StopReasonTrue`, `OutputSettled`, `DownloadsWhole`, `TempFilesGo` | `CurlInv`, one caller at a time: what is known of the process whatever the thread does, what the thread has made sure of at each step, what its answer rests on |
| | `CallsBounded`, `WaitsAreForKilled` | `Left`, nine steps at most, lowered by each step once the time is up (before, the loop may go round); that a thread waits without a limit only for a process it has killed |

The type invariant of each of these modules is proved (`...Types`, `TypeCorrect`) and
not run: its violation would show in the properties that are.  `PROJECT.json` lists
those of the store, the uploads and the rewrites.

What a commit grew from (`History`) and what it is apart from identities (`Bare`) are
recursive functions, and the induction theorems of the library take an operator,
which no installed prover can instantiate.  `GitHubProofs` takes another way: the
library's facts about well-founded relations name sets and no operators, and give that
a nonempty set of naturals has a least element (`LeastOf`); from this `Upward` and
`Downward` prove that a set holds all of `1..n`.  Parents are older than the commit,
so `HistoryEquation` and `BareEquation` show that the two functions satisfy their
defining equations in every repository, and the facts about whole histories follow one
commit at a time: a history is closed (`HistoryClosed`), it does not change when
objects are added (`HistoryStays`), made commits are the old ones apart from
identities (`MadeBare`) and what they grew from is made too (`MadeHistory`).

Not proved and only model-checked: liveness (fairness and ENABLED are beyond the
prover), that is `OperationsReturn`, `StaleFilesGo`, `RequestsReturn`, `CallsEnd`,
`RoomReturns` and `RetentionEnforced`.  Of `OperationsReturn`, `RequestsReturn` and
`CallsEnd` the half that is a safety property is proved, for any number of threads, files, connections and
attempts: an operation of the store (`StepsRunOut` of `FileStoreProofs`), a request
(`StepsRunOut` of `HttpPoolProofs`) and a call whose time is up (`NearerWhenDue`) have
a bounded number of steps of their own left, and no step of anyone else prolongs them.
What stays with the model checker is that fairness makes these steps happen.

Proved and not checked by a run: `OnlyAppends`, `CacheByVersion` and `DownloadsWhole`,
which lie behind properties that are checked; the two `StepsRunOut`, `NearerWhenDue`
and `CallRunsOut`, the bounds on steps; `NobodyStuck`, `WaitsForKilled` and
`LoopTakesUnreferenced`.  `NoStandstill` assumes besides that there are as many
connections as the pool may have, which is no restriction of the code.

## 7. How the parts fit together

`FileMaintenance` composes the store with the loop that cleans it; the loop's
other half is `ReadForCleanup`, `Cleanup` and `CleanupFail` of `InvocationLog`, which
`TrimLog` and `TrimFail` stand for; theorem `StoreUnderMaintenance` carries every
property of the store over to it.  Uploads and curl put into the store and see of
it only that a file may go at any time (`Forget`), which `FileStore` shows to be all
they may rely on while nothing references it.  `AccountClients` ends where a client
is handed out, and `GitHubCaches` begins there.  `GitRefs`, `HistoryRewrite` and
`PullMerge` take from the pool that a request may be sent twice, and `PullMerge` takes
the default branch as it is, where `MetadataFresh` says how old it may be.

## 8. Not modelled

* GitLab: almost every tool is one request whose conditions GitLab itself
  evaluates; `put_file` looks whether the file exists and then creates or updates,
  and GitLab refuses the one that no longer fits.  Its clients are in `AccountClients`.
* GitHub issues, workflow runs, reviews other than those a merge counts, and the
  reading tools: one request each and no decision.  Tags.
* The analysis module: the renaming of tools, arguments and answers is a
  translation of words, nothing of which a model would leave out; its provider
  forwards each call on its own.
* The bridge: it forwards calls and pages, keeps nothing, and does not retry.
* Ghidra, settings and start-up, data classes: no behaviour over several steps.
* The fetching of files (`file_ingress.py`), which ends in a put, and the writing
  and converting of temporary files.
* Payloads of the log: their redaction and truncation.
* Clients with a plain GitHub token, the identity of the bot, which never changes,
  and the App's JWT.
