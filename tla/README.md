# Verification of the Kagura Memory SDK

TLA+ models of the concurrent and stateful parts of `src/src/kagura_memory`,
the TLC runs that check them on small instances, and machine-checked proofs of
the theorems that matter most. Paths below are relative to
`src/src/kagura_memory/` unless they start with `src/`.

## 1. The system

The SDK is a Python client of memory-cloud, a hosted memory service. Several of
its parts run at once: long-lived processes (applications that use
`KaguraClient` or a REST client, and the `kagura-mcp` stdio proxy) with many
asyncio tasks each, and short commands (`kagura auth ...`, `kagura secret ...`,
`kagura setup ...`). What they share is one file, `~/.kagura/credentials.json`;
what they talk to is the memory-cloud server, which is not in this repository.

### Components, their state and their hard parts

"Status" is how much of it is modelled; section 6 says what is left out.

| Component | Source | State | Operations | What is hard | Status |
|---|---|---|---|---|---|
| Credential file lock | `_filelock.py` | the marker `credentials.json.lock-v1`, the legacy marker of older SDKs | `file_lock`, `async_file_lock` | interleavings of file operations of several processes (and of the TypeScript SDK), crashes, failed writes, a person who removes a marker | modelled |
| Credentials store, token refresh | `auth/credentials.py` | `credentials.json`, the logout records, per process the shared credentials, the used-up token and an `asyncio.Lock` | `get_shared_state`, `KaguraOAuth`, `refresh_profile_locked`, `update_profile`, `delete_profile`, `set_default_profile` | a refresh token works once; processes, tasks and commands race; answers are lost, saves fail, processes die | modelled |
| `kagura auth` | `auth/cli.py` | none of its own | `login`, `logout [--all]`, `refresh [--scope]`, `token`, `use`, `list`, `status` | reads before the lock, writes after it; consent takes minutes | partly |
| Device flow | `auth/device_flow.py` | the polling interval and deadline | `authorize_device`, `poll_for_token` | `slow_down`, `Retry-After`, expiry, transient failures, invitations | modelled |
| MCP session of `KaguraClient` | `client.py` | `mcp-session-id`, the session lock, request ids | `_initialize_session`, `_open_session`, `_make_jsonrpc_request`, `_post_in_session` | concurrent first calls, sessions that expire under concurrent calls, retries that may repeat a tool call | modelled |
| Cursor paging | `client.py` | none | `_collect_pages`, `_iter_pages`, `_next_page_cursor` | servers that repeat a cursor, page limits, rows that move between pages | modelled |
| MCP proxy `kagura-mcp` | `mcp_proxy.py` | the upstream session, the remembered `initialize` | `forward`, `_reopen_session`, `_post_with_retry`, `serve` | every message has one line at most, and a request is only without one when the upstream ran it and sent no body | partly |
| Methods of the clients | `client.py`, `resource_client.py`, `workspace_client.py`, `agents_client.py`, `memory_client.py`, `secrets/client.py`, `files_client.py` | none | about 110 methods, one request each | an argument that is checked, dropped as falsy, or unknown to an older server | modelled |
| Editing a memory | `client.py`, `cli.py` | the memory | `update_memory`, the merge of `details_patch` for old servers | two editors, a server upgraded between two requests, lost replies | modelled |
| Secrets | `secrets/` | key pairs in the keychain, the registry of keys, versions of a secret | `keygen`, `enroll`, `put`, `grant`, `revoke`, `rotate`, `get` | read-modify-write of the recipients of a secret | modelled |
| Files client | `files_client.py`, `cli.py` | none | `upload` (presign, put, confirm) and the memory linked to it | a step fails after an earlier one took effect; lost replies; a retry after either | modelled |
| Ingest | `ingest/` | the records written so far | `ingest`: fetch, estimate, extract, summarise, archive, overview, sections | some of several sections fail; cancellation; a limit reached mid-way; a task for the archive | partly |
| Import of events | `cli.py`, `resource_client.py` | the count so far | `kagura resource import` | a batch created in part, or lost with its reply | modelled |
| Verbose logger | `logger.py` | none | `action`, `success`, `error`, ... | each operation ends with exactly one terminal event | partly |
| Credential resolution | `_auth.py`, `config.py`, `cli.py` | the warned-about profiles | `_resolve_auth`, `_check_profile_ambiguity` | precedence of explicit, environment, profile and file credentials; profiles edited meanwhile | modelled |
| REST base, HTTP errors | `_rest_base.py`, `_http.py`, `exceptions.py` | none | `_request`, `_map_status_error`, `mcp_session_expired` | a status maps to one exception; a body that is no JSON | partly |
| Command line | `cli.py` | none | some 55 commands | options that conflict, are blank or are lost on the way; a question; a second request to an older server | modelled |
| Setup commands | `setup_claude.py`, `setup_harness.py`, `claude_code.py`, `_guardrail_export.py` | files of other programs | `kagura setup claude`, `codex`, `hermes`, `openclaw` | a step fails between two files; another program's command that ends well without having done it | partly |
| Doctor | `doctor.py` | none | a report | reads only | not modelled |
| Models, versions | `models.py`, `_version.py` | none | validation, comparison of releases | no state | not modelled |

### How they interact

- Everything that authenticates resolves a profile (`_auth.py`) to a
  `KaguraOAuth`, which holds the process's shared state of
  `get_shared_state`. Its `async_auth_flow` runs before each HTTP request and
  may refresh the token; `mcp_proxy.py` calls `force_refresh` after a 401.
- `refresh_profile_locked`, the commands that change the file and
  `check_login_credentials` take the lock of `_filelock.py`; inside a process
  the `asyncio.Lock` of the shared state is taken first, so the order is always
  in-process lock, then file lock.
- `KaguraClient` and `mcp_proxy.py` each keep one MCP session with the server
  and reopen it when `mcp_session_expired` says so.
- A command resolves its credential, makes one client and calls one method of
  it; the methods differ in the request they make, not in their course. The
  commands with a course of their own are `update-memory`, `secret`, `files
  upload`, `ingest`, `resource import`, `auth` and `setup`.
- `FileIngestor` uploads the original through the files client, in a task of
  its own, while it summarises the sections.

## 2. Modules

| Module | Models | Used by |
|---|---|---|
| `Mutex` | what the credential lock promises (abstract) | `FileLock` implements it, `Credentials` uses its actions |
| `FileLock` | `_filelock.py`, one action per file operation | `MCFileLock`, `FileLockProofs` |
| `FileLockProofs` | proofs about `FileLock` | |
| `Credentials` | `auth/credentials.py` and `kagura auth`, with the token server | `MCCredentials`, `CredentialsProofs` |
| `CredentialsProofs` | proofs about `Credentials` | |
| `AtMostOnce` | what a call through an MCP session promises (abstract) | `McpSession` and `McpProxy` implement it |
| `McpSession` | the session of `KaguraClient` (`client.py`, `_http.py`), with the MCP endpoint | `MCMcpSession`, `McpSessionProofs` |
| `McpSessionProofs` | proofs about `McpSession` | |
| `McpProxy` | `kagura-mcp` (`mcp_proxy.py`), with the MCP endpoint | `MCMcpProxy`, `McpProxyProofs` |
| `McpProxyProofs` | proofs about `McpProxy` | |
| `CursorPaging` | the page loop of `client.py` and the lookup of `setup_claude.py` | `MCLoops`, `LoopsProofs` |
| `DeviceFlow` | the device login of `auth/device_flow.py` | `MCLoops`, `LoopsProofs` |
| `LoopsProofs` | proofs about both | |
| `MemoryEdits` | `kagura update-memory` against servers of five generations | `MCShared`, `SharedProofs` |
| `Secrets` | `kagura secret`, several members and terminals | `MCShared`, `SharedProofs` |
| `SharedProofs` | proofs about both | |
| `FileUpload` | `FilesClient.upload`, `kagura files upload`, with the object store | `Ingest` |
| `Ingest` | `FileIngestor.ingest`, which archives through `FileUpload` | `MCIngest`, `IngestProofs` |
| `ResourceImport` | `kagura resource import` | `MCIngest`, `IngestProofs` |
| `IngestProofs` | proofs about the three | |
| `ClientMethods`, `RestMethods` | what each client method checks and sends, one row each | `Calls` |
| `Commands` | which option of each command feeds which argument | `Calls` |
| `Calls` | the course of one call of any of those rows | `MCCommands`, `CommandsProofs` |
| `AuthResolution` | which credential, server and workspace a command gets | `MCCommands`, `CommandsProofs` |
| `ClaudeSetup` | `kagura setup claude`, with the `claude` program | `MCCommands`, `CommandsProofs` |
| `HarnessSetup` | `kagura setup codex`, `hermes`, `openclaw`, with their programs | `MCCommands`, `CommandsProofs` |
| `CommandsProofs` | proofs about the four | |
| `MCFileLock`, `MCCredentials`, `MCMcpSession`, `MCMcpProxy` | instances for TLC | |
| `MCShared`, `MCIngest`, `MCLoops`, `MCCommands` | instances of several modules, each checked while the others of the same instance rest | |

An abstraction links the lock and the store: `FileLock` shows in detail that the
marker protocol is a lock as long as nobody removes the marker of a living
client (`ImplementsMutex`, checked and proved), and `Credentials` takes the lock
through the actions of `Mutex` instead of repeating the file operations.

### FileLock

| TLA+ | Code |
|---|---|
| `marker` | `credentials.json.lock-v1`: absent, or there and made by the client with that owner string |
| `legacy` | `credentials.json.lock` of SDKs before 0.45.0 |
| `ticket[p]`, `next` | the owner string a client made (`uuid4`: never the same twice) |
| `pc[p]` | the place in `file_lock` / `_try_acquire` / `_release` |
| `late` | clients whose 90 s deadline has passed |
| `leaked` | history: a client that is gone left the marker |
| `misjudged`, `window` | history: how many markers a person removed from under a living client; whether one of them fell where the code cannot notice it |

`RefuseLegacy`, `Create`, `WriteOwner`, `CheckLegacy` and `Cleanup` are the
steps of `_try_acquire`; `Leave`, `ReadOwner`, `Unlink`, `UnlinkFails` those of
`_release`; `Cancel` and `DeadlinePasses` belong to `async_file_lock`; `Crash`,
`Retire`, `Misjudge` and `LegacyAppears` come from outside. A client compares the
marker only with its own owner string and only after writing it, so the model
need not say when the string is in the file. `Misjudge` is the mistake
`src/README.md:71-77` warns of: a person removes a marker while clients run, the
marker of a living client (`Owns`) at any point of its code included, up to
`MaxMisjudged` times. That client is then `Robbed`. `_release` compares the owner
before it unlinks, so it leaves the marker of the next client alone; but a removal
between that comparison and the unlink (`_filelock.py:66-67`), or before the unlink
of an acquisition that fails (`_filelock.py:58`), makes it remove the next client's
marker (`RemoveMarker` looks at nothing), and so on. `MarkerKept` and
`MutualExclusion` say what still holds then.

### Credentials

| TLA+ | Code |
|---|---|
| `file` | `CredentialsFile`: for each profile the credential, and `default_profile` |
| `tomb` | `.revocations-v1`: the profiles recorded as logged out |
| `mem[p]`, `used[p]`, `alock[p]` | `_SharedCredentialsState`: credentials, `used_refresh_token`, lock |
| `pc[x]`, `loc[x]` | where a request of a process or a command is, and its local variables |
| `holder` | the file lock |
| `issued`, `live`, `void`, `orphans`, `stale` | the server: responses so far, refresh tokens that work, access tokens it refuses, requests still under way that nobody waits for; access tokens near their expiry |
| `root`, `spent`, `reused`, `faulted`, `ended`, `touched` | history, for the properties |

A credential is the number of the token response it came from: access and
refresh token together, newer responses have larger numbers, `None` is no
credential. `Step` collects what a refresh does (`Acquire` to `SaveRefreshed`),
`TaskStep` what a request does with the answer, `CliStart` and `CliStep` the
commands. `CrashProc` and `CrashCli` can come between any two steps.

### McpSession

| TLA+ | Code |
|---|---|
| `session` | `self._session_id` |
| `lock`, `queue` | `self._session_lock` and its waiters, first come first served |
| `pc[c]`, `refused[c]`, `outcome[c]` | where the task of a call is, the session its first POST was refused in, what its caller got |
| `wire[c]` | the POST of a call, then its answer |
| `minted`, `live`, `runs[c]` | the server: sessions opened, sessions held, how often it dispatched a call |

`Start`, `Granted`, `Opened`, `OpenFails`, `Retry`, `Answered`, `Lost` and
`CancelQueued` are the stretches of code between two `await`s: a task is only
interrupted where it waits for the lock or for an answer. `EnsureSession` is
`_initialize_session` with the POST that follows, which runs without an `await`
in between when there is a session. `ServeInitialize`, `ServePost` and `Drop`
are the server's.

### McpProxy

| TLA+ | Code |
|---|---|
| `session`, `cached` | `_Upstream._session_id`, `_Upstream._initialize` |
| `cur`, `wire`, `refreshed` | the message `forward` works on, its POST (its own, the replay, the announcement or the retry) and whether a 401 was already answered with a refresh |
| `outcome`, `replies` | what was written back for each message |
| `opener`, `live`, `runs` | the upstream: who opened each session, which it holds, how often it ran each call |
| `late` | POSTs given up by the proxy that may still arrive |

`Read` is the loop of `serve`; `Refresh` and `Answered` are `_post_with_retry`;
`Reopen`, `Replayed`, `ReplayFails` and `Announced` are `_reopen_session`;
`Finish` ends `forward`; `Lost` is an exception, which `serve` turns into an
error reply. `Writes` says when there is a line: the body of a 2xx is written
whatever the message was, an error only for a message with an id, and a 202 or an
empty body gives none (outcome "silent"). A 2xx whose body is no JSON ("garbled")
raises after the upstream ran the message. `lapsed` is history: a replay failed
and no handshake was made since.

### CursorPaging and DeviceFlow

`list` is the server's list and changes at any time (`Create`, `Delete`,
`Move`); `Fetch` asks for a page, keeps its rows (`Keep`) and decides how to go
on (`Follow`), with `cursor`, `seen` and `pages` as in `_iter_pages`. `mode`
tells which caller walks: `_collect_pages` or `_find_context_by_name`.
`present`, `moved` and `shrunk` are history.

In `DeviceFlow`, `grant` is the server's code and `flow` the command: its
interval, its deadline, how long it waits next. `authorize_device` begins,
`_print_invite_prompt` chooses how an invitation is honoured, `PollStep` is one
turn of `poll_for_token` (sleep, ask, read the answer), `Decide` the person.
`asked` and `late` are history: the pause the last reply asked for, the polls
sent when the lifetime was over.

### MemoryEdits and Secrets

In `MemoryEdits`, `memory` records who wrote each part and `editor[e]` is where
a command is. The server is of one of five generations, by the releases 0.65.0
(dismissing a candidate), 0.82.0 (unknown arguments are refused), 0.113.0 (the
version) and 0.140.0 (the patch). `SingleCall` and `PatchCall` are its first
request, `Probe` its question about the server's release, `Read`, `MergedCall`
and `LateCall` the ways of an older server, on which a patch of the details is
merged by the client. `Upgrade` changes `generation` at any time. `applied`,
`seen` and `blind` are history: what took effect, and whether a write came after
another's; so is `began`, the generation an edit began with. A server before
0.65.0 drops `--dismiss-supersede-candidate` without a word, and the command's
list of what was dropped leaves it out as well, as the help of the option says
(`cli.py:1282-1287`): `Unsaid` is that exception.

In `Secrets`, `registry`, `secret` and `grants` are the server's, `keychain` the
members', `terminal[t]` the command a terminal runs, between its reads and its
write. Each command is an action or two of its name: what comes before its first
request, and what follows the answers.

### FileUpload, Ingest, ResourceImport

`FileUpload` has an action for each of the three requests and for the linked
memory; `file` is the server's entry with its stored object, `events` the
terminal events, `mine` how far the server took this attempt. `Ingest` adds the
ingestor: `ingest_file`, `_fetch`, `estimate_cost`,
`_transcribe_or_extract_and_chunk`, `_summarize_sections`, `ArchiveStep` and
`_archive_original`, `SummarizeOverview`, `_write_overview`, `_write_sections`,
and the per-section steps between two `await`s. `errors` holds the
`IngestErrorRecord`s, `stored` what the server has. `ResourceImport` sends the
rows of a file batch by batch.

### ClientMethods, RestMethods, Commands, Calls

A method is a row: which arguments always go on the wire, which only when given
or only when truthy, which are checked or exclude each other, and whether it
reads, writes or reaches a REST endpoint. A command is a row too: its method, the
argument and the conversion of each option, what must be given, what excludes
what, when it asks, where its context comes from. `Calls` is what they share:
`Parse`, `Resolve`, `ReadFirst`, `Ask`, `Send`, `Serve`, `Retry`, `Report`; the
run goes through every row. Values are of four classes: unset, blank, good, bad.

### AuthResolution

`FromArgument`, `FromEnvironment`, `FromProfile`, `CheckAmbiguity`, `FromConfig`
and `ForMcpEntry` are the lanes of `_resolve_auth` in their order, `Place` the
workspace, `Upload` the second client that an upload makes. `Edit` is another
process that logs in or out. A credential, a server and a workspace are named by
the source they come from, so that mixing two sources shows. `KAGURA_PROFILE`
may be unset, empty (`Blank`) or a name.

### ClaudeSetup and HarnessSetup

`entries` is the `kagura-memory` entry of each place Claude Code looks in,
`installed` the context that `.kagura.json`, each hook and each command file is
written with. The actions have the names of the functions they model, in the
order of `run_setup_claude`; `run_claude` is one call of the `claude` program,
which may fail or run out of time before or after its effect; `Add` is the second
half of `_write_mcp_entry`. `_write_json` empties a file before it writes it, so a
write that fails leaves what was there, nothing, or all of it; for `.mcp.json` that
is `CutOff`. In `HarnessSetup`, `held` is the entry the harness
has, `doc` the exported file, `MayHold` what the harness's own program may have
made of the request. Both begin again with other flags until `MaxSetups`,
`MaxRuns`.

## 3. What the runs check

| Run | Instance | Shows |
|---|---|---|
| `FileLock` | 3 clients, 3 owners, 2 misjudged removals, fair | `NoStrayMarker`: a failed acquisition leaves no marker; `MarkerKept`: outside the window of the owner check a client loses its marker to a person only; `WaitersEnd`: every waiter gets the lock or an error; `ImplementsMutex`: the refinement, and with it mutual exclusion, until the first misjudged removal |
| `CredFaults` | 2 processes, one profile; refused access tokens, lost answers, failing saves, crashes; 3 responses | `NoReuse`: a refresh token is sent once unless a fault hit its exchange; `FileRefreshable`; `RightToken`: an unsaved copy wins over the file, and a retry uses another token |
| `CredProfiles` | 2 commands, 2 profiles: login, logout --all, use, refresh --scope; failing saves | `DefaultExists`; `WritesKeepNewer`: no write puts an older credential back or touches another profile; `ConsentNotStale` |
| `CredLive` | 2 requests of one process, a logout or logout --all; crashes, failed saves, no network; fair | `LoggedOutStaysOut`, `Settles`: every request and command ends |
| `McpSession` | 3 calls, 2 sessions ended, fair | `NoOrphan`: no session is opened while another works or forgotten unused; `CallsEnd`; `ImplementsAtMostOnce` |
| `McpProxy` | 2 initializes, 1 request, 1 notification, 2 sessions ended, fair | `OneReply`: one line for a message at most, none too few but for an answer without a body, none from a replay; `HandshakeKept`: unless a replay failed, the session in use is that of the client's last accepted handshake; `RequestsAnswered`: every request ends, with its line or with such an answer; `ImplementsAtMostOnce` |
| `Shared` | memory: 2 editors, details of 2 keys, one upgrade; secret: 3 terminals of 2 members, 5 commands | `EditsTellTruth`: how an edit ends tells what became of it; `OthersKeysKept`: an edit changes what it names, and a lost update needs a write in between; `NoStranger`: only keys somebody named are recipients, and a grant has its ciphertext; `NothingLostInOrder`: commands one after the other lose no grant, value or revocation |
| `Ingest` | 3 sections, 2 at a time, 2 attempts at an upload; 5 rows in batches of 2 | `OneTerminalEvent`; `FlagsAreTrue`: what a failed upload says of the server is so; `SectionsAccounted`, `ArchiveAccounted`: whatever was begun is stored, recorded or reported; `ImportCounts`: the count an import stops at is where to resume |
| `Loops` | 3 rows in pages of one, 3 pages; a code of 20 s, interval 3 s, Retry-After of 1, 6 or 60 s, latency up to 1 s; fair | `WalkComplete`: a walk misses and repeats nothing that stayed in place; `PollsSpaced`: no poll comes before the pause the server asked for; `InviteKept`; `WalkEnds`, `PollEnds` |
| `Commands` | every method and command row with up to 2 options more than it needs; every mix of credential sources with 2 edits; two setups of each kind in a row | `EndTellsTruth`: a failed call left the server as it was, unless the answer was lost or said otherwise; `CauseIsNamed`; `SentHome`: no key goes to another source's server; `OneIdentity`; `NoSilentProfile`: a profile nobody named is announced; `SetupTellsTruth`, `DoneMeansSaved`: what a setup says at its end is true of the files |
| `IngestUnclosed`, `ClientSource` | the instances of `Ingest` and `Commands`, the latter without extra options | violations: see Findings |

**Bounds.** Two processes are the least that race for the file: a third adds no
new relation, since every rule relates the process that acts with the file and
with one other. Two tasks of one process race for its `asyncio.Lock`
(`CredLive`). Two commands suffice likewise, since each command touches the
file in at most two places. Three token responses let a profile be refreshed
twice, so a used-up token, its replacement and the replacement's replacement
exist. `MaxGen` is reached by making the server refuse, which it may always do.
`MaxTicket` bounds the owners: one for each of three clients. Two misjudged
removals are the least with which the client that lost its marker to a person and
the one that lost it to that client are both robbed again.
The commands are split over runs by the pair that matters; all of them at once
exceed what TLC can explore. `refresh` and `token` take the path of `refresh
--scope` and are in no run's set.
Three calls on one session are one that opens, one that waits and one that is
refused meanwhile; with two ended sessions the session of a retry may end too.
The proxy handles one message at a time, so two initializes, a request and a
notification show every change of session between two messages. Three rows in
pages of one take three pages, so there is a page after a page that was
shifted.
A lost update needs one other editor, a patch one key to change and one to
leave alone; the parts of an edit are combined where servers of different
generations know them. Five secret commands are an enrolment, an approval, a put, and two
that race. Three sections with two at a time are one written, one under way and
one that waits when a limit is reached; the second attempt at an upload meets
what the first left behind. Five rows in batches of two end in a short batch.
A lifetime of 20 s with an interval of 3 s has room for a `slow_down` and
for a `Retry-After` that ends past the deadline. Two options more than a row
needs are every pair that may exclude or shadow each other. The second of two
setups meets what the first left, finished or not.

**Deadlock** is checked where the system goes on for ever; the runs in which all
commands, calls, messages or walks may be done switch it off.

**Fairness.** `Fairness` asks for weak fairness of the code that can run
(asyncio and the operating system schedule it; HTTP requests have time-outs, so
a posted refresh ends; the lock has a deadline, so a waiter ends) and for strong
fairness of taking the `asyncio.Lock`, which serves its waiters in order. No
fairness is assumed of users, crashes, expiry, or the person who retires a
marker. `CredLive` therefore shows that requests end even when a crashed
process leaves the lock behind for good. `McpSession` and `McpProxy` assume that
the event loop runs a task that can run and that httpx ends a POST by an answer
or its time-out, `CursorPaging` that the caller keeps asking. The server owes
nothing.

## 4. What is proved

Every safety property and every action property of a passing run is a theorem,
for all values of the constants, and so are the three refinements. Each follows
from an inductive invariant; TLC also finds every one of them to hold on the instances
of section 3. What follows says why each is larger than
the properties.

`FileLockProofs` (any finite set of clients, any bounds):
- `Inductive`: `IInv`, that owner strings are unique (`TicketsUnique`), that a
  leaked marker is nobody's, that the clients inside without their marker are no
  more than the misjudged removals (`RobbedAreFew`), and that outside the window
  such a client still has the owner check ahead of it (`RobbedCanTell`). Counting
  is what makes exclusion inductive: a client that removes the next one's marker
  robs it, and leaves itself in the same step.
- `Exclusion` (`MutualExclusion`): inside is one client, and one more for each
  marker a person removed from under a living client. `NoStray`
  (`NoStrayMarker`), `Kept` (`MarkerKept`).
- `Refinement` (`ImplementsMutex`): the marker protocol implements `Mutex` until
  a person removes the marker of a living client; `ImplementsLock`: if nobody
  ever does (`MaxMisjudged = 0`), it implements `Mutex`'s whole specification.

`CredentialsProofs` (any processes, requests, commands, profiles and faults), in
two halves:
- `Inductive`: `IInv`. `NoReuse` says that a token is sent a second time only
  if its exchange was hit by a fault; to be inductive it needs that the file
  works (`FileRefreshable`), that whoever sends has the file as it is
  (`LockHeld`, `LoadedIsCurrent`), that a process refreshes in one task at a
  time (`OneRefresher`), that a response nobody saved yet is known to nobody
  else (`AnswerFresh`) and that the only copy of an unsaved credential stays
  with its process until that process uses it (`UnsavedMem`, `UnsavedLoc`).
- `TypeCorrect`, `OneExchange` (`NoReuse`), `Refreshable` (`FileRefreshable`).
- `StoreInductive`: `StoreInv`, on top of `IInv`. `LoggedOutStaysOut` is about
  the login that a token descends from, so its `Lineage` follows the login of
  each token there is: two profiles never come from one login (`OneLogin`), the
  response of a login under way has no successor (`NewLogin`), a refresh under
  way continues the login on file with a larger number (`SameLogin`), and so
  does a credential that could not be saved (`UnsavedLogin`). `ConsentInv`: what
  a command remembers while a person is asked is in no answer, so a profile that
  was changed meanwhile cannot become equal to it again. `RetryInv`: a rejected
  token is in no answer, and once the forced refresh is over neither in memory
  nor on file.
- `LogoutIsFinal` (`LoggedOutStaysOut`), `DefaultKept` (`DefaultExists`),
  `TokensAreRight` (`RightToken`), and of steps `NothingIsTakenBack`
  (`WritesKeepNewer`) and `ConsentIsCurrent` (`ConsentNotStale`). All five go
  through `NextEvolves`: each action changes the server's responses, the file,
  the history, a process and an actor in one of the few ways `Evolves` lists. In
  particular the file is only written with the lock held and nobody posting.

`McpSessionProofs` (any set of calls, any number of ended sessions):
- `Inductive`: `IInv`. `NoOrphan` and `FreshRetry` are not inductive alone: a
  call may forget the session only if that session is gone, and may open one
  only if there is none. So `IInv` adds that the lock is held exactly by the
  call that opens a session and only while there is none (`SingleFlight`), that
  a session answered as expired is not held any more and that a session nobody
  read yet was not refused to anybody (`RefusedAreGone`), and what travels for a
  call by where the call is (`WireFits`, `RunsMatchWire`, `Queued`).
- `NoOrphans`, `FreshRetries`: the two safety properties.
- `Refinement`: the session with its retry implements `AtMostOnce`.

`McpProxyProofs` (any messages, any number of ended sessions):
- `Inductive`: `IInv`. That nothing is run twice rests on `Forwarding` (one
  message at a time, each POST is for it, its replay or its announcement) and
  `RunsMatch` (a call ran once its POST was answered, a POST given up was not
  run). `HandshakeKept` needs `Restored` (the session kept was opened by the
  remembered initialize, unless a replay failed since) and `Sessions` (which
  sessions a replay, an announcement and a retry name).
- `EachAnsweredOnce` (`OneReply`): a message has at most one line, a request
  unless the upstream ran it and sent no body, a notification only if it ran and
  was sent one. `HandshakeRestored` (`HandshakeKept`), and `Refinement`: the proxy
  implements `AtMostOnce`.

`LoopsProofs` (any rows, page size and page limit; any lifetime and interval):
- `WalkInductive`, `NoRowMissed` (`WalkComplete`). A row that nobody moved only
  drifts towards the end of the list, so it is still listed (`StillListed`) and,
  once it is before the cursor, was read (`Behind`).
- `PollInductive`, `PollsAreSpaced`, `InviteIsKept`. Client and server count the
  same interval (`SameInterval`); the pause promised at each place of the loop
  is long enough or ends at the deadline (`Spaced`); only the last poll can be
  late (`LateEnds`).

`SharedProofs` (any editors, keys and upgrades; any members, terminals and keys):
- `EditInductive`, `EndsTellTruth` (`EditsTellTruth`), `OtherKeysKept`
  (`OthersKeysKept`). An edit meets no server older than the one it began with
  (`GenerationFits`), nothing is applied before its call, and a late merge follows
  a call that applied the rest, but for a dismissal that a server before 0.65.0
  dropped (`AppliedFits`); what was
  read is the memory while the version stands (`CurrentUnlessNewer`).
- `SecretInductive`, `NoStrangers` (`NoStranger`), `NothingLost`
  (`NothingLostInOrder`). Keys that commands keep, fetched or wait to write were
  named (`AllNamed`), and a key is registered from its own keychain
  (`RegistersOwn`).

`IngestProofs` (any sections, uploads, rows, batch size and number of requests at
a time):
- `UploadFlagsTrue` (`FlagsAreTrue`) from `UploadInv`, which ties the flags to how
  far the server took the attempt (`Progress`).
- `IngestInductive`, with `StreamsEndOnce` (`OneTerminalEvent`), `NoSectionLost`
  (`SectionsAccounted`) and `ArchiveInOverview` (`ArchiveAccounted`). `IngestInv`
  says what the run has done by where it is (`Course`, `Placed`), what its
  stream holds (`Closed`), and that a section's or the archive's state and its
  record say the same (`Recorded`, `Archived`). The number of refused requests
  is bounded because requests under way and refused ones together are
  (`Bounded`).
- `ImportInductive`, `CountsAreTheServers` (`ImportCounts`): until the import
  ends, its counts add up to the rows before the next batch (`Counted`).

`CommandsProofs` (any table of rows, flags, credential sources, answers and
failures):
- `CallInductive`, with `CallEndsTrue` (`EndTellsTruth`) and `CausesAreNamed`
  (`CauseIsNamed`). `CallInv` ties
  the server's effect to its reply, the reply to the error raised, and what is
  on the wire to the row.
- `AuthInductive`, with `KeysStayHome` (`SentHome`), `TasksAreOne`
  (`OneIdentity`) and `ProfilesAreNamed` (`NoSilentProfile`). `AuthInv` says that
  every credential used is one of `Rightful`: that of the environment, file and
  flags the task began with (`Resolution`), or after an edit of the file still
  one that was named.
- `SetupInductive`, `SetupIsTrue` (`SetupTellsTruth`). A setup's last words are
  about files written several steps before, so `SetupInv` follows the entry
  (`EntrySound`: only the asked place is written, and what may have to be put
  back is what was there, unless the write of `.mcp.json` broke off), the
  stronger places (`NotHidden`) and the hooks and skills written so far
  (`PartsSound`).
- `HarnessInductive`, `DoneIsTrue` (`DoneMeansSaved`), from what is and what may
  be written at each place (`Progressing`).

**Assumptions.** The proofs assume what the modules' `ASSUME`s say, which TLC
evaluates on the instances: names that stand for "nobody" are no actors, each task
has a process and each process a profile; in `Secrets` that `NoKey` is no terminal's
key, in `Ingest` that a document has finitely many sections, none called `None`,
in the setups that there is something to ask for, in `AuthResolution` that no
profile bears the name of another source, and in `Calls` that a row has one of
the five lanes and that each option feeds an argument of its method (the run
`Commands` evaluates that for every row of `ClientMethods`, `RestMethods` and
`Commands`). `Credentials` also assumes that the file lock is a `Mutex`, that is,
that nobody removes the marker of a living client: `ImplementsLock` proves it of
`FileLock` then.

**Only model-checked.** Liveness (`WaitersEnd`, `Settles`, `CallsEnd`,
`RequestsAnswered`, `WalkEnds`, `PollEnds`): it needs ENABLED, which the prover
does not handle. The two violations of section 5 are counterexamples, not
theorems. Recursive definitions would need induction over data, which the prover
cannot instantiate; none is used in a module with proofs.

## 5. Findings

- `IngestUnclosed`: `ingest/ingestor.py:258` says that the stream of events ends
  with exactly one terminal event even when an exception escapes. The fetch has a
  `try` of its own that catches two kinds of error (`ingest/ingestor.py:288`):
  Ctrl-C, or any other error during the fetch, leaves the stream open.
- `ClientSource`: `cli.py:346` says that `KaguraClient` runs the whole credential
  chain, environment before profile before `.kagura.json`. The commands pass the
  key of `.kagura.json` on as an explicit argument (`cli.py:360`), which comes
  first. A comment of `setup_claude.py:1442` expects the documented order too.

Known divergences that no run checks any more:

- `kagura auth logout` says it revokes the profile it deletes (`auth/cli.py:718`).
  It revokes the token it read before the lock (`auth/cli.py:747`); a refresh in
  between leaves the token that is deleted valid on the server.
- `auth/credentials.py:709-711` says a 401 and a skew refresh coalesce. The forced
  refresh captures the rejected token from the shared state
  (`auth/credentials.py:719`), so a refresh that finished before the 401 is
  handled is repeated.
- `mcp_proxy.py:141` says a message goes without a session only when nothing is
  cached. The session is forgotten before the replay (`mcp_proxy.py:147`), so
  after one failed replay every later message goes without one.
- `mcp_proxy.py:113-116` says that `forward` writes nothing back only for a
  notification. A request whose answer is a 202 or has no body gets no line
  either (`mcp_proxy.py:220-221`), so its client waits for ever; and the body of a
  2xx to a notification is written (`mcp_proxy.py:222`), though a notification
  "never gets a reply" (`mcp_proxy.py:213`).
- `_auth.py:62-66` says that the default profile is announced, or refused under
  `KAGURA_REQUIRE_PROFILE`, when no profile was named. An empty `KAGURA_PROFILE` is
  not None (`_auth.py:195`) and not a name (`auth/credentials.py:172`), so the
  default is used and neither happens.
- `setup_claude.py:286` calls a name unknown when no context has it. Contexts are
  listed in most-recently-used order, so one that is used between two pages is on
  neither (`setup_claude.py:274`).
- Two `keygen`s at once: both find no key (`secrets/keymanager.py:108`), and the
  second one stored (`secrets/keymanager.py:114`) replaces the first, although
  `enroll` says it "refuses to overwrite" an existing key
  (`secrets/keymanager.py:106`).

`OneReply` and `RequestsAnswered` name the line of a message, `NoSilentProfile` the
empty profile, as their exceptions.

Met while modelling, and promised by nobody: a person who removes a marker
between the owner check and the unlink, or before the unlink of a failed
acquisition (`_filelock.py:66-67`, `_filelock.py:58`), makes its client remove
the next one's. `_write_json` empties a file before it writes it
(`setup_claude.py:138-140`), so a write of `.mcp.json` that breaks off takes the
old entry and every other server with it; what then does not parse is read as
nothing (`claude_code.py:79`) and written over by the next setup. When `claude
mcp remove` runs out of time after it took effect, `kagura setup claude` stops
with that error and the old user-scope entry is gone (`setup_claude.py:826`);
only a failed *add* restores it. And an export to a file that did not exist is
not written through a copy (`_guardrail_export.py:111`): a full disk leaves half
a block, which the next export refuses to touch. `MarkerKept`, `SetupTellsTruth`
and `DoneMeansSaved` name these as their exceptions.

## 6. Not modelled

In `Credentials`: profiles without a refresh token and servers that omit
`refresh_token`; access and refresh token expire together; a hand-edited or
unreadable file; the lock `check_login_credentials` takes and releases without
changing anything; the wording and the exit codes of commands. The server
refuses every refresh once `MaxGen` is reached.

In `McpSession` and `McpProxy`: what the requests and results say, in
`McpSession` JSON that does not parse (an error answer like any other), and the
start-up of the proxy.
In `CursorPaging`: rows without an `id`, which `_collect_pages` always keeps.

In `Ingest`: what extractors, transcription and summaries produce, the choice of
a provider, redirects and size limits of the fetcher, and the prices behind the
estimate. In `Secrets`: the cryptography. In `Calls`: what a reply is parsed
into, output formats, and the normalisation of URLs and UUIDs. In the setups:
the text of entries, hooks and notes, the query settings of the MCP URL, a key
pressed to interrupt them, what else a file holds (other servers, hooks and
keys, which a write that breaks off loses with the entry), and a file that
somebody else edits while a setup runs, of which setup promises nothing.

Not at all: `doctor.py`, a report that changes nothing; `models.py`, the types of
replies; `_version.py` but for the comparison in `MemoryEdits`. They keep no
state, and what could be wrong in them a table of inputs shows better.

## 7. Plan

Done, in the order of the plan: the lock and the credentials; the MCP session; the
proxy; paging; uploads, ingest and import; the device flow, secrets, memory edits;
the choice of credentials; the client methods and the commands; the setups. The
safety and action properties of all of them are proved, and the three
refinements.

Left, most important first:

1. Proofs towards the liveness properties, as far as they are about single
   steps: a measure that every step of a walk, of a login and of an import
   decreases, and that whoever waits for a lock has a step to take.
2. The bigger in-process instance of `Credentials` (three requests in two
   processes) is left to the proofs.
3. Servers that omit `refresh_token`, and a credentials file that cannot be read.
