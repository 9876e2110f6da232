# Canterbury: a verification project in TLA+

Canterbury gives tools controlled, audited access to a vault of Markdown notes.
A *sync worker* keeps a local mirror of the vault, the *vault service* serves
reads and searches of that mirror to authenticated callers and writes an audit
trail, and the *MCP gateway* forwards its clients to the vault service. In
development a fourth service mints the callers' tokens. This directory
holds models of that code, the TLC runs that check them, and proofs that TLAPS
checks. `PROJECT.json` maps every definition to the lines it models.

## Inventory

| part | state | operations | hard behaviour | what makes it correct |
|---|---|---|---|---|
| **Access path** (`internal/interfaces/vaultrpc`, `internal/app/vault`, `internal/domain/vault`) | nothing of its own: the request on its goroutine, the vault directory, the trail | interceptors (audit context, authentication), `ReadNote`, `SearchNotes` | concurrent requests; files replaced between walk, decision and answer; cancellation; audit failures at every step; crashes | nothing is disclosed without an event that says exactly that; disclosed versions are in scope; refusals are audited; requests end |
| **Authentication and scope mapping** (`internal/app/auth`, `internal/adapters/authjwt`, `authfs`) | mapping loaded at start, cached key set | verify a token, look up scopes, refresh keys | the issuer restarts under the cache; the context ends in the middle; ambiguous or empty grants | only unexpired tokens of a trusted key are accepted; good ones are; the grant is the one entry's |
| **Vault repository** (`internal/adapters/vaultfs`) | none: the file system is the state | read, walk, filter, sort, page | the directory changes under a walk, between a stat and a read, and between two pages | pages are exact while nothing changes; otherwise what is missed or repeated has a known cause; snippets show the match |
| **Audit recorder** (`internal/adapters/auditfs`, `internal/app/auditlog`) | daily JSON-lines files | `Record` | concurrent appends, short writes, failed fsync, crashes | an acknowledged record is durable and readable |
| **Sync worker** (`sync/`) | health state, write chain, child, shutdown state, health file | start, supervise `ob`, report, shut down; probe | interleaved callbacks, timers, signals, write failures; files left by earlier workers | "ready" is true; a report precedes the forwarded signal; no orphan; it stops |
| **MCP gateway** (`cmd/mcp-server`, `internal/interfaces/mcphttp`) | listener, serving status, requests in flight | configure, accept, authorize, forward, time out, shut down | graceful shutdown racing a late bind, calls, probes and their deadlines | it stops when told; a call sent in time is not cut; status zero means it was told to stop |
| **Vault service process** (`cmd/vault-service`, `internal/cliapp`) | the same, and what it loads first | configure, load, serve, shut down | the same; loading may fail; the container restarts it | the same |
| **Health** (`internal/app/health`, `internal/adapters/health*`, `internal/interfaces/health*`) | serving status | check, probe, healthcheck command | status against the life of the listener; checkers that fail or hang | a success was true of every service it stands for; a healthcheck ends |
| **Development authentication** (`cmd/dev-auth`, `internal/app/devauth`, ...) | one signing key per process | mint, publish keys | restart against cached keys; lifetimes that wrap around | a minted token lives as asked |
| **Scripts** (`scripts/`) | group of child processes | start, await readiness, stop | children that exit early, signals | no child is left |
| **Identifiers** (`internal/app/idgen`) | locked generator | next | none | monotonic |

How they interact: the gateway and other clients call the vault service by
Connect RPC with a bearer token. In the service every call passes the
audit-context interceptor, then the authentication interceptor, then the
handler, the service, the repository and the recorder, all on the goroutine of
the call. The sync worker shares only the directory with the service. The vault service
fetches the issuer's key set over HTTP. Probes read the worker's health file and
the services' health endpoints; the gateway's readiness check asks the vault service.

## Modules

| module | models | kind |
|---|---|---|
| `AuditTrail` | the recorder port (`internal/domain/audit/recorder.go`) as its callers rely on it | abstract specification |
| `AccessLedger` | what controlled access promises | abstract specification |
| `VaultAccess` | the access path, from the arrival of an RPC to its answer, on top of `AuditTrail` | component |
| `VaultAccessProofs` | safety theorems about `VaultAccess`; it implements `AccessLedger` | proofs |
| `AuditLog` | the filesystem recorder; implements `AuditTrail` | component |
| `AuditLogProofs` | safety theorems about `AuditLog`; where it implements `AuditTrail` | proofs |
| `SyncWorker` | `worker.js`, `health.js` and the exit of `sync.js` | component |
| `SyncWorkerProofs` | safety theorems about `SyncWorker` | proofs |
| `SyncForwardProofs` | the health file only goes forward | proofs |
| `NoteMatching` | filters and snippets of `vaultfs`, as operators | pure |
| `VaultSearch` | the walk, sort and cursor, and a client that pages while the vault changes | component |
| `NoteMatchingProofs` | lemmas about texts, byte offsets and snippets | proofs |
| `VaultSearchProofs` | safety theorems about `VaultSearch` | proofs |
| `CommandLine` | dispatch, settings and exit status of the two binaries, as operators | pure |
| `HealthStatus` | health statuses: how they resolve and travel, as operators | pure |
| `ServiceLifecycle` | gateway and vault service from start to exit, tool calls, a healthcheck; composes the two above | component |
| `LifecycleProofs` | safety theorems about `ServiceLifecycle` | proofs |
| `TokenTrust` | the development issuer, the cached keys, the mapping, one authentication | component |
| `TokenTrustProofs` | safety theorems about `TokenTrust` | proofs |
| `MCVaultAccess`, `MCAuditLog`, `MCVaultSearch`, `MCServiceLifecycle`, `MCTokenTrust` | instances for TLC | model checking |

`VaultAccess` INSTANCEs `AuditTrail` and conjoins its actions with its own
(`RecordWrites` is `Trail!Arrive` plus the service's step), so what is checked
about the access path holds for every recorder that keeps the promise.
`AuditLog` is shown to keep it, `VaultAccess` is shown to implement
`AccessLedger`. `VaultSearch` and `TokenTrust` open up two things that
`VaultAccess` leaves to a nondeterministic choice: which of the matching notes a
page shows in which order, and what a bearer token proves.

### VaultAccess

`pc[r]` is where the goroutine of request `r` is: `authenticate`, `handle`,
`load` (a read), `walk` (a search), `record`, `sync`, `respond`, `done`, `lost` in
a crash, or `aborted` by a panic. One action stands for what the code does between two points at which
another goroutine, the sync worker, or the client can make a difference: a file
read, a directory callback, the write of a line, its fsync, the answer. Errors
before the write are one action (`RecordFails`), those after it another
(`SyncFails`), because a crash and a reader of the trail can tell them apart.

*Abstractions.* A file is its readability, its access scopes and its version
(`history` keeps the earlier versions, so that an answer formed from an old
version can still be judged). A token is the subject it proves or a failure. A search
is the set of paths its other filters accept. A page is any subset of the matching
notes: the sort and the cursor choose one. A walk lists
a path (`ListNote`, from `todo` to `listed`) some time before it visits the file (`VisitNote`): what was not there when its
directory was listed is passed over, and a listed file that is gone or can no longer be read
fails the search (`WalkFails`). The panic of `buildSnippet` that `every_match_has_a_snippet` finds is an outcome
of any visit of a match (`SearchPanics`): nothing recovers before net/http does, which
breaks the connection off, so such a request has neither answer nor event. Of an event, its type,
the versions it names and the matched scopes are kept. `ErrVaultUnavailable`
and its code are not modelled because nothing in the repository returns it. `canceled`
stands for `deadline_exceeded` too.

### AuditLog

A daily file is the sequence of parts appended to it. `os.File.Write` repeats
the system call, so a line is appended whole or as a head and later a tail, and
another call's parts can come in between. A part is readable if it starts a
line and runs to its newline. `durable` is the length that the last fsync
covered; a machine crash keeps at least that prefix and perhaps the beginning
of the next part. That an fsync covers all earlier appends of the file, that data
survive in order, and that a new file's directory entry is durable with it are
assumptions about the file system. After a failed fsync nothing is assumed.

### SyncWorker

JavaScript runs to completion, so an action is one macrotask with every
promise reaction it causes. `main` is the await at which `runWorker` is
suspended, `queue` the snapshots chained on `#pendingWrite` with who waits for each,
`poisoned` the state of that chain once a write has been rejected. `shutdown` is
`no`, `reporting` (the report is queued), `armed` (the timer runs), `fired` or
`cleared`. The child is named by its command, and `child.state` stays set from its
exit to its `close` event. A probe evaluates the file at any moment with the real
liveness of the processes. The heartbeat is taken to be fresh, which is when a
probe can be wrong. That a signal cannot be delivered (EPERM) is not modelled.

### NoteMatching and VaultSearch

A note is a text, tags and scopes; a text is a sequence of runes whose width in
UTF-8 and whose lower case are constants, because the code finds the match by byte
offset in the text in lower case and cuts the snippet out of the text as it is. `VaultSearch`
steps through `Repository.SearchNotes` as the directory can change under it: a
directory is listed when the walk enters it (`OpenDirectory`), a note has its
time taken (`Stat`) and then its content (`Read`), and the walk over, `Answer`
sorts and cuts the page at the offset the cursor names. The client asks for page
after page with the token of the last. `Change` is the sync worker's: one file
appears, changes or goes at any moment. What the changes do to the notes nobody touched is kept in
history variables: `pulled` (some note moved forward in the results), `pushed`
(some moved back), and `torn` (a result has the time of one version and the text of
another). Directories are those above some path, and do not come and go. Of the reads that fail a search only that of a missing note is here;
the others (`WalkFails` of `VaultAccess`) end it the same way. Parsing of frontmatter and the
ellipses of snippets are abstracted. A sort is what it promises, a list of the set in
the order (`Arranged`), and a loop over a text is a recursive function of the runes read so far
(`ByteOffsets`, `Squeezed`): so both can be proved about.

Worth knowing: a tag filter of a lone `#` filters nothing; a term with several
blanks in a row matches the raw text but not the normalized text that snippets are cut from, so
`SnippetShowsTheMatch` speaks of terms without blanks.

### CommandLine, HealthStatus and ServiceLifecycle

`proc[p]` is a process of either binary: `boot` (settings), `init` (the vault
service loads), `selecting` (`serve` waits for the signal or the listener's
error), `withdrawn`, `draining` (inside `Shutdown`), `exited` with the reason. `bound`
is the listener's goroutine, which may bind late, fail, or find the server closed.
`call[c]` is a tool call in the gateway and `work[c]` its handler at the vault
service, which may outlive the call (`orphan`). `probe` is one run of a
healthcheck command with its command line, its deadline and, for the gateway's
readiness, the second question it leads to. `Next` conjoins `Witness`, which
keeps in `seen` who served at some time since the probe was sent.

Time is counted in ticks: `Tick` moves every running timer and waits for those
that are due, so a deadline of fewer ticks comes first. Messages, the MCP
protocol library and the details of HTTP are abstracted; an idle connection is not told from
none. Settings are which of the required variables are set, whether the key decodes and the
durations parse, and the URLs. The 408 of a health endpoint whose request has ended is left out, since
nobody is there to read it.

Worth knowing: the default request timeout and the grace period are both ten seconds, so
a call forwarded just as the gateway begins to drain may be cut by the end of
the grace period; `ForwardedInTimeIsNotCut` asks for a timeout below the grace
period. Calls that are forwarded while it already drains, and clients that never read their answer, are
cut in any case. A signal while the vault service loads
makes it end with an error.

### TokenTrust

`dev` is the development service with the key of its current start, `minted` its
tokens, `file` the mapping file, `vault` what the vault service has loaded: the
mapping of its start and a key set, fetched at start, refreshed by the key
function (`Refresh`) and once more for an unknown key (`FetchKey`, which the rate
limit, a cancelled context and the network may each prevent). `check` is one request on its
way through the parser, the key function, the claims and the mapping. Its context may end at any
moment (`EndContext`); it is looked at before the token is parsed (`Verify`) and before the
mapping is (`Resolve`), and not in between. A request refused for that has the verdict `canceled`, which the service does
not record as a failed authentication. A token
keeps what was asked for (`request`) and what the response said (`told`) as history. A
second has several ticks, because expiries are cut to seconds and clocks are not,
and durations wrap around at `MaxDuration`, as 64 bits of nanoseconds do.
Signatures are ideal: `ForeignAssumption` says nobody else signs with a key of the
development service. Its own graceful drain is not told from a stop.

Worth knowing: a key that was retired verifies until the next refresh, within the hour or at the first
unknown key; after the signal the key function fetches nothing more, so a token of a new key is refused while the service
drains; an edited mapping takes effect at the next start; a token may expire up to
a second before the response said; the reason recorded for an unknown key is
`principal_resolution_failed`.

## Runs

| run | shows | bounds and why |
|---|---|---|
| `vault_one` | typing; disclosures in scope; events true; no grant, nothing learned | one request, two notes, two scopes, each file may change once: the smallest instance with a page of several notes and a version that is replaced between its reading and its answer; requests influence each other only through the trail; notes are symmetric |
| `vault_pair` | ledger refinement; disclosures and refusals audited; every request ends | two requests of a caller with a grant, reads or searches of one note that may change, come or go once at any moment, also between its listing and its visit: audit failures, cancellations, panics and a common crash of both |
| `sync_worker` | truth of readiness; the file only goes forward and catches up; report before signal; no orphan; it stops | six queued writes when a heartbeat adds one, more than the chain of spawn, close and phase reports needs |
| `audit_trail` | acknowledged records are durable; refinement of `AuditTrail` | two records in one file, a third in another day's whose line can be cut |
| `vault_search` | exact pages; causes of missed and repeated notes; times and snippets; paging ends | three notes, two of them in a directory, pages of one and two, two changes at any moment: notes move forward and back, go and come back, also between the stat and the read of one, before, on and after the page that is being cut; five queries, one of each refusal and sort, and four cursors |
| `service_lifecycle` | exits, drains, deadlines and healthchecks of the two services | one call, one probe of nine command lines, a gateway that starts once and a vault service that may restart; deadlines of one, two and three ticks, started at different moments, so that any of them can be the first to expire |
| `token_rotation` | who is accepted and with which scopes; lifetimes; keys catch up | two starts of the issuer, one token, durations of five bits with two ticks a second (17 seconds wrap around to one), three mapping files, three foreign tokens |
| `every_match_has_a_snippet` | counterexample | the instance of `vault_search` |
| `allowed_means_returned` | counterexample | one request |
| `signal_is_the_status` | counterexample | two queued writes |
| `signals_are_forwarded` | counterexample | two queued writes |
| `acknowledged_is_a_line` | counterexample | three records on one day, each can be cut |

Deadlock is checked in `token_rotation`, where somebody can always act; elsewhere
requests, records, workers, clients and processes come to an end.

The five counterexamples are disagreements between the code and what its
documents or tests say, each listed with its quotation in `PROJECT.json`:

- An allowing event is recorded before the message is built. Frontmatter with no protobuf form makes the answer an error after that.
- A letter may take more bytes in lower case. The start of a snippet, half its
  length before the match in the text in lower case, can then lie past the end of the
  text, and the search panics.
- A signal taken while completion of the initial sync is being reported makes
  the continuous run reject while nobody awaits it, and the process exits with
  status 1.
- When the report of a spawned child's pid fails, the worker removes its signal handlers while the child runs.
- `os.File.Write` goes on after a short write, so a line can be written by two system
  calls. What another request appends between them stands behind a fragment, and
  is acknowledged although it does not begin a line; no call has to fail for that. If the rest of the
  first line then fails, the fragment stays.

The refinement of `AuditTrail` is therefore checked where a line that can be cut
is alone in its day's file, and the properties of the sync worker that write
failures break are stated for a chain that is not poisoned. Three smaller
differences have no run: invalid paths and queries are refused by the handlers,
before the service, which is where events are recorded; an audit failure is answered with the code `unknown`
where `docs/audit-v1-design.md` says internal, and the failure event of a
request whose context has ended is not written, since the recorder looks at that
context first.

### Fairness

`VaultAccess!FairSpec` (the specification of `vault_pair`): a goroutine that can take a step eventually does
(`WF_vars(Step(r))`): the scheduler of Go is fair, file system calls return.
Arrival, cancellation, file changes and crashes are owed to nobody.
`SyncWorker!FairSpec`: the event loop serves what is due (a finished write, a
close event, an expired timer, the end of the process), and a child that got
SIGKILL exits. Nothing is assumed of a child that got SIGTERM, or none.
`VaultSearch!Spec`: the service works on a search it has (`WF_vars(Service)`) and
a client that wants every page asks on (`WF_vars(Client)`); the vault need not change.
`ServiceLifecycle!Spec`: each process runs on, timers expire and time passes
(`Process`, `TimeOut`, `ProbeTimesOut`, `Tick`). Nothing is assumed of the vault
service's answers, of clients that read them, of operators or crashes: that is
what the deadlines and the grace period are for. `TokenTrust!Spec`: the key
function refreshes while its context lives (`Refresh`) and a request is worked on
(`CheckNext`).

## Proofs

Each theorem holds for all values of the constants that satisfy the named
assumptions of its module; TLC evaluates those in every run of it.

**`VaultAccess`** (`GrantsAssumption`, `BoundAssumption`, `AskedAssumption`):

- `TypeCorrect`: `Spec => []TypeOK`, action by action;
- `DisclosureIsAudited` and `RefusalIsAudited`, from the inductive invariant
  `AuditInv`. The properties speak of finished requests only, so they are not
  inductive: `AuditInv` adds, for every place of a goroutine, what is already
  known of its event (before `record` nothing has been told; in `sync` its
  line is in the trail and unanswered; in `respond` it is acknowledged) and that verdict, event
  type and named versions agree. A crash preserves it because `Trail!Lose` takes
  no acknowledged event.
- `DisclosureIsScoped` and `EventsAreTrue`, from the inductive invariant
  `ScopeInv`: everything in `seen` and in a reply is readable for the caller,
  everything an event names existed, and a request past authentication has a
  grant, without which an empty filter would match everything. The vault may change in any way because
  versions, once written, are stable (`VersionsAreStable`).

- `StrangersLearnNothing`, from `AuditInv` (who gets past authentication has a
  grant) and `StrangerInv` (everyone else is carried to the answer with the
  verdict of the authentication).
- `AccessImplementsLedger`: the initial states map to the
  ledger's, and every step is an `Enter`, `Disclose`, `Close`, `Fail` or a stutter. It
  needs `AuditInv` and `SilentInv`, that a request has been shown nothing before it is
  answered. The lemmas `LedgerEnters`, `LedgerDiscloses` and `LedgerCloses` lift
  what happens to one request's line to the functions of the abstract state.

**`AuditLog`**: `TypeCorrect` and `AcknowledgedSurvives`, for any calls, days and
cuts. A call is acknowledged only when it returns, so `CallInv` says of every call where its parts are
meanwhile: once `written` its line has reached its end, once `synced` that end is
within the durable part of its file. `AppendKeeps` and `RemainsOf` are what an
append and a crash do to that.
The recorder does not always implement `AuditTrail`: see the counterexample of
`acknowledged_is_a_line`. `RecorderImplementsTrail` says when it does: as long as nothing follows a fragment
(`NothingFollowsAFragment`, a condition on the files, not on the calls). `LineInv` is the invariant: a call that has written
nothing has no part in its file, the head of one that was cut short is the last part there,
and the line of one that wrote it all, or was acknowledged, can be read. `AppendLines` and
`CrashLines` say which lines an append and a crash make or break, and every step is then an `Arrive`,
`Acknowledge`, `Refuse`, `Lose` or a stutter. The condition is needed and
is not guaranteed by the code: any line can be cut by a full disk or a crash, and then the next
one follows a fragment. TLC checks the refinement without it in an instance in which that cannot happen.

**`SyncWorker`** (`QueueAssumption`): `TypeCorrect`, `ReadyIsSound`, `CatchesUp`,
`ReportsFirst` and `NoChildIsOrphaned`, for write queues of any length. The
properties speak of the file, which is written long after the worker took the snapshot: the
inductive invariant `Coherent` therefore relates the file, every queued snapshot and the
reporter's state. Each snapshot is honest (it claims no sync that did not succeed
and no child of another phase), from the report of a shutdown on every one is
that of a shutdown, and the last one is the reporter's state (`Told`). `MainInv`
adds where `runWorker` is: only at an await of its own does a child run while
writes succeed. Each lemma about a part of the code between two awaits (`Throws`, `Finishes`,
`Runs`, `Updates`) is used by every action that leads there.
`FileOnlyGoesForward` (in `SyncForwardProofs`) is the action property `FileGoesForward`.
Its invariant `Ahead` says that the file, the queued snapshots in their order and
the reporter's state never fall back; `Quiet` says that phases go with
the places of `runWorker` and that a worker that ended before it had a reporter
starts nothing, which is why no later step queues a lower snapshot.

**`ServiceLifecycle`** (`TimeoutAssumption`, `StartsAssumption`,
`CommandLineAssumption`, `ProbeTimeoutAssumption`): `TypeCorrect`, `ZeroIsAskedFor`,
`ForwardedCallsFinish`, `SuccessIsTrue` and `StoppingShortCircuits`, for any calls, command
lines, timeouts and numbers of starts. `ProcInv`: a process says that it serves only at its
select, listens from there until `Shutdown`, and leaves it for `Shutdown` only after a
signal. `CallInv`: with a request timeout below the grace period, a call that was forwarded before the drain has less
time left than the drain. `ProbeInv` and `SeenInv`: what a probe has been told so
far had a witness in `seen`.

**`VaultSearch`** (`PathAssumption`, `CollationAssumption`, `LimitAssumption`,
`TimeAssumption`, `NoteAssumption`, `QueryAssumption`, `ChangesAssumption`, `CursorAssumption`,
`VaultAssumption`, and those of `NoteMatching`): `TypeCorrect`, `PagesAreExact`, `MissesOnlyPulled`,
`RepeatsOnlyPushed`, `ContentIsNotOlder` and `SnippetsShowMatches`, for any vault, tree of directories,
order of the paths, limit, cursor, and number of changes.
The properties speak of the pages a client has; what makes them true happens in the walks
before. The inductive invariant `IInv` therefore has a part for each stage:

- `WalkInv`: no entry that is still to be visited is below another, and none
  leads to a note that is a result already, so the walk finds a note once at most.
- `SeenInv`: while no result is torn, a matching note nobody touched is a result as the vault has it, or
  still to come (`Covered`). `AheadInv`: a result ahead of such a note is ahead
  of it in the vault if no note was pulled forward, and the reverse if none was pushed back.
- `MissInv`: a note that has not been shown has a set *A* of notes ahead of it, each still
  to come or found ahead of it, and *A* is as large as the offset of the search. So the page that is cut at
  the offset begins at or before the note: it is shown, or the page is full and the next offset is
  as far behind. A count alone would not do, since the walk and the vault may disagree; a set
  that may lose nobody during the walk does.
- `RepeatInv` is its dual: around what is, or is found, ahead of a note that has been shown there
  is a set *B* smaller than the offset, so the next page begins behind the note.
- `ExactInv`: until something changes, the pages are a stretch of the results and
  stand at their ranks (`PlaceIsRank`: in what `Arranged` makes of a set, an element's place is the number of those before it).
- `VersionInv`: versions only grow, and the one `os.Stat` saw is no later than the one that is read.
- `SnippetInv`: what is a result matches and has the snippet `BuildSnippet` makes.
  `SnippetShows` (in `NoteMatchingProofs`) is about `BuildSnippet` itself, for any text, encoding and length: words without a blank
  survive the normalization (`WordsStay`), byte offsets agree in the text and its lower case when
  lower case keeps every letter's size (`SameOffsets`), the
  byte of a match leads back to its rune (`IndexIsPlace`), and at most half a snippet of runes is before it.

That a finite set can be arranged in a total order at all, and that the recursive functions exist, is proved
too (`SortingExists`, `Recursion`). These are inductions over data; the provers cannot instantiate
the library's induction theorems, but `Induction` states the principle for a set of
numbers, from the well-foundedness of `<`, and a set can be instantiated.

**`TokenTrust`** (`DurationAssumption`, `BoundAssumption`, `RequestAssumption`,
`DocumentAssumption`, `ForeignAssumption`): `TypeCorrect`, `RunningHasKeys`,
`LifetimesAreTrue`, `AcceptedIsMinted`, `GrantsAreUnambiguous` and `GoodTokensPass`.
`ServiceInv` ties a key to the start that generated it and the cached key set
to the start it was fetched from; `MintInv` says what a token holds, which rests on the
arithmetic of `AcceptedTTL` (a conversion that is accepted does not wrap around)
and `UnixBound`; `CheckInv` follows a request from its arrival to its verdict. `GoodTokensPass`
leaves three reasons to refuse a good token: it is within a second of its end, its key is not there, or
the context of its request has ended.

Only model-checked: the liveness properties (`EveryRequestEnds`, `StopsWhenAsked`,
`PagingEnds`, `StopsWhenTold`, `WaitingEnds`, `HealthcheckEnds`, `KeysCatchUp`), for which TLAPS has
no proof rule here. Neither `ImplementsLedger` nor `ImplementsTrail` asks for fairness, so both are
proved whole.

## Plan

1. *Done:* `AuditTrail`, `AccessLedger`, `VaultAccess`, `AuditLog`, `SyncWorker`,
   `VaultSearch`, `ServiceLifecycle`, `TokenTrust`, with the proofs above.
2. *Done:* the safety properties of `VaultSearch` as theorems, and
   `ImplementsTrail` where nothing follows a fragment.
3. Larger instances: two calls and a gateway that restarts in
   `ServiceLifecycle`.

## Not modelled

- The development scripts (`scripts/`): they drive Docker, registries and running
  services; only their process group has state, and nothing in the running system
  depends on it.
- Generated code (`gen/`), apart from the route of a tool call through the
  gateway's handler, vendored definitions (`third_party/`), manual requests
  (`bruno/`), images, compose files and sample data.
- The identifier generator, a library call under a lock.
- The formatting of events and messages, TOML, YAML and JWT parsing, and
  cryptography: a parsed value stands for each text.
