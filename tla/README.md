# Trae Relay: a TLA+ verification of its core

Trae Relay is a Windows program that offers a Trae account as an
OpenAI-compatible API on the local machine. This directory holds TLA+ modules
translated from its C++ sources, the TLC configurations that check them on small
instances, and proofs that the TLA+ proof system (TLAPS) checks for every
instance. `PROJECT.json` is the index: it maps every definition to the lines it
models and lists the runs, the hazards of the code, the mutants that show each
property can fail, the findings and the theorems.

    tlc -config MCRelayRequest.cfg MCRelayRequest.tla     # one run
    tlapm RelayRequest_proofs.tla                         # one proof module

Paths such as `AccountPool.cpp:85` are under `src/`; long names are in `PROJECT.json`.

## 1. Inventory

The program is one process with one window thread and many others:

    client --HTTP--> HttpServer --handler--> Facade / ResponsesApi
                                                |  acquire / release
                                                v
    window --switch, limit--> credentials --replaceActive--> AccountPool (one enabled account)
       |                          |  index.json, vault files      |  ensureFreshToken
       |                          v                               v
       |<--version, labels-- ModelCatalog (worker)          upstreamDispatch --HTTPS--> Trae
       |<--balances, log---- credits worker <--usageRecordPending, refreshCreditsAsync

| Part | State | Operations | What is hard | What makes it correct | Modules |
|---|---|---|---|---|---|
| Account pool (`accounts/AccountPool`) | the enabled account object, its slots `active`, `retired`, `credentialDirty`, `refreshMtx`, the limit | `acquire` (polls up to a deadline), `release`, `replaceActive`, `ensureFreshToken` | the account is replaced while requests wait for it, hold it or refresh its token; `shared_ptr` keeps retired objects alive | slots exact, no request on a replaced account, limit kept, one rotation of a token at a time, no deadlock of the three locks | AccountGate |
| Credential store (`accounts/Credentials`) | `index.json` (rows, active, source, generations), one encrypted vault file per row, `refreshing` | `add`, `enable`, `setSource`, `remove`, `persist`, `refreshAll`, `runAutoCheckins`, `initialize` | two files written one after the other, each write can fail, a crash between them, threads that write with objects of an earlier login | rows load, no older login comes back, a rotated token is not lost, deleted stays deleted | CredentialVault; its locks in AccountGate |
| HTTP server (`common/HttpServer`) | register of connections, counter of requests, listening socket | accept, keep-alive loop, request gate, `stop` | detached threads, stop at any moment, refusals at the limit, clients that neither send nor read | counter exact, nothing registered behind stop, stop ends and what it interrupts ends | HttpServer |
| Web login (`accounts/WebLogin`) | the newest attempt, its mutex and mark, one `pending` flag, a server, a timer | `start`, `stop`, the callback, the timer | a callback against the timer, against `stop`, against the next attempt; `stop` joins a thread that waits for another | one account saved per attempt, none once stopped, every login ends | WebLogin |
| Check-in (`AccountPool`, `Credentials`, `WindowTasks`) | check-in fields of a row in memory and in the file, `refreshing`, two workers | the button, the timer, the batch, `doCheckin` | an answer that is lost after the claim was accepted, midnight, a switch or a new login meanwhile, a save that fails | no claim repeated blindly, a row says what is true, no retry at once | CheckIn, UpstreamAnswer |
| Chat requests (`api/Facade`, `upstream/Upstream`, `UpstreamSolo`, `common/SseParser`) | per request: the settings it was resolved with, the stop filter's buffer, the text and tool calls so far, the attempt | `handleChatCompletions`, `upstreamDispatch`, `upstreamSolo` | events cut anywhere, errors in mid-stream, one retry, a client that leaves or stops reading, settings replaced meanwhile | stop sequences cut, truthful end, order of text and tool calls, slot given back, only what the model offers is asked for | RelayRequest, RequestSettings |
| Responses API (`api/ResponsesApi`) | a cache of answered responses, its file; per request: items, events, slot | `responsesHandle`, `SessionCache::get`, `put`, `ensureLoaded`, `persistLocked`, `normalizeInput` | eviction, a file that cannot be read or written, order of cache, last event and release, restarts with other settings | an id continues its conversation, what a client was told is complete is kept, events in order | ResponseSessions, ResponseInput |
| Credits and usage records (`AccountPool`) | `m_usagePending`, `m_creditQueue`, the worker and its busy flag | `usageRecordPending`, `refreshCreditsAsync`, `refreshCredits`, `usageFlushPending` | the worker quits while an account is queued; window and worker settle at once; exit | each record written once, a queue always has a worker | UsageLedger, UpstreamAnswer |
| Usage log (`AccountPool`) | daily files, the newest records in memory, counters of today | `usageAppend`, `usagePage`, `usageCountToday`, expiry | midnight between two steps, a file that cannot be opened, a restart | counters are of the day shown, newest records shown | UsageLog |
| Model catalog (`upstream/ModelCatalog`, `window/ModelsPage`) | models, their account, generation, version, attempted | worker rounds, `requestRefresh`, `all`, parsing and merging of lists, prices, the window's copy | a switch overtakes a round at every point of it; details of one model in several places | no foreign models, waiters answered, capabilities and prices true | ModelCatalog, ModelDetails |
| Settings (`Settings`, `Config`, `AutoStart`, `Service`) | a file, a snapshot behind a shared pointer, a registry value | `set`, load, save, start, stop | requests read the snapshot while the window replaces it | | the snapshot in RequestSettings, the limit in AccountGate |
| Http, Json, Crypto, Log, Stats, Storage, TokenRefresh, Saas | none that lasts, or one log file | conversions, upstream calls | data, not control | | outcomes only |
| Window, pages, ui, main | controls | messages of one thread | what it does to shared state | | only those effects |

The hazards, 40 of them with their lines, are in `PROJECT.json`.

## 2. Modules

    AccountLease            what the gate promises (abstract)
      ^ implements
    AccountGate             MCAccountGate, MCUsage                       AccountGate_proofs
    CredentialVault         MCCredentialVault (2 cfgs)                   CredentialVault_proofs
    HttpServer    WebLogin          MCHttpServer (2 cfgs)                HttpServer_proofs
    ModelCatalog  ModelDetails      MCModelCatalog (3 cfgs)              ModelCatalog_proofs
    RelayRequest  RequestSettings   MCRelayRequest                       RelayRequest_proofs
    ResponseSessions (extends ResponseInput)   MCResponseSessions        ResponseSessions_proofs
    UsageLedger   UsageLog          MCUsage                              Usage_proofs
    CheckIn       UpstreamAnswer    MCCheckIn                            CheckIn_proofs

A step is what a thread does between two points where another thread can
matter: a locked region, a write of a file, a call to the upstream, a write to
the client. Operators whose comment begins with "Mutant of" are changed versions of an
action or helper that the mutants in `PROJECT.json` put in its place; no
specification uses them.

An MC module with two parts in its row is a sum: one part moves while the other is as
it was in the beginning. The two share no variable (where both are extended, the names of the second
tell them apart: `LoginInit`, `LogNext`, `SettingsInit`, `DetailsInit`), so that an order between their
steps would mean nothing and would only multiply the states; a
counterexample of either part is a behaviour of the sum and the other way round. MCUsage has
AccountGate as a third part, by INSTANCE, with the liveness properties of the gate.

**AccountGate** composes AccountPool and credentials. `pool`, `active`,
`retired`, `dirty`, `rmtx` are the fields of the same name (`m_accounts` holds
at most one account); `enabled` is `registry["active"]`; `opPc` holds the
registry lock `guard` whenever it is not idle. A request goes `AcquireBegin`
(reads the limit), `AcquireSnapshot` (takes the account, unlocked), `AcquireTry`
(under the lock, with the check that it is still the one), polls, and is served;
`Ensure*` is `ensureFreshToken`, step by step under `refreshMtx`; `Release`
and `Enqueue` end it. `Op*` is `switchTo` and `add`: `try_lock` of `refreshMtx`,
load, `replaceActive`, commit; the order guard, refreshMtx, pool lock is the
code's. `Batch*` are `refreshAll` and `runAutoCheckins`, which refresh private
copies of the accounts that are not enabled. Object names are a supply: one to
which nothing refers can be used for a new object.

**CredentialVault** keeps what is on disk (`rows`, `enabled`, `source`,
`vaultLogin`, `vaultTurn`) beside what is in memory. A token is a login and the
number of rotations; `latest` is what the upstream accepts. `AddWrite` /
`AddCommit`, `SwitchCommit`, `RemoveCommit` / `RemoveFile` are the writes of an
operation in order, each of which may fail; `Exchange` and `PersistDone` are the
two halves of a rotation, and the answer of a rotation the upstream has made may be lost, after
which nobody has the login's token (`lost`); `Restart` is a crash at any step followed by
`initialize`. It takes the slots of AccountGate for granted (a busy account is
not replaced) and looks at the files instead.

**HttpServer**: `conns` is the register in order of registration, because
`unregisterConn` erases from a position to the end; `pc` is where each
detached thread is in the keep-alive loop; `gate` and `refuse` are the two
halves of "add first, compare then" on the counter, `SendBusy` sends the 503 after the counter
was rolled back. `stop` is five steps. `AtClient` are the places where a thread waits for its client, for
ever if the client wants: `::send` has no timeout (lines 47-55), and the loop over the header lines
(171-185) limits the time of each line only. A socket that was shut down ends the wait. So `ServerDrains` says that
`stop` ends, that each connection it has shut down ends, and that of the others, which finding 1 lets it miss, only those
are left that wait for their clients.

**WebLogin**: `win` is where the window's thread is in `start` or `stop`, `timer` where
the timer's is, `cb` and `of` where each callback is and of which attempt. `pending` is
the one global flag, `completed` the mark of each attempt. `Enter` takes the attempt's mutex,
which is held until `Answered`; `TimerCloses` wants the same mutex; `Join` is the
`join` in `stop`. Older attempts still have callbacks: the server closes, but a thread
that has read its request goes on. The answer is sent with the mutex held and without a timeout,
but it is a page of a few hundred bytes, which the socket's buffer takes at once: that is assumed.

**CheckIn**: time is counted in steps of 15 minutes, the time before a retry. `row` is
the registry in memory, `disk` is `index.json`. Both workers do `doCheckin` step by
step: token, status, claim, status again, save; the claim may be accepted and its answer lost.
`credited` is the upstream's truth, which an official client changes too. A restart is
possible at any step.

**UpstreamAnswer** is how the answers are read: which flag, code, balance or pack is found
when the same name stands at several levels of a JSON value. It holds the
conversions that CheckIn and UsageLedger take as outcomes.

**RelayRequest** is one request from `acquire` to the last frame. Texts are
sequences over a small alphabet; an event carries a `Chunk`. `Passed` and `Held`
are what one call of `StopFilter::feed` returns and keeps. `Emit` is the write
that may find the client gone, in which case the upstream is given up. `client` is also
"stalls" at any write (`Writing`): it stays connected and does not read, `::send` has no timeout, and the handler
does nothing until it reads again or leaves (`Free`); before `Release` and `GiveBack` it
keeps the slot that long. `RequestEnds` says that this is the only way not to end. `Return`
is `upstreamDispatch`: a refused token is retried once. `EndWith` writes the
closing frames one by one. Requests meet only in the slots (AccountGate) and
the records (UsageLedger), so that one is enough here.

**RequestSettings** is the choice before it: `settings` is the snapshot the window
replaces, `held` and `looked` are the snapshots the handler has asked for, `rs` the resolved
settings, `body` what is sent upstream. An effort level the catalog publishes is not
empty (`SettingsAssumption`), as the empty one would mean that nothing was asked for.

**ResponseSessions**: a request goes from the lookup of its earlier response over the slot,
the events of the upstream and `put` to the last event and the release. `cache`
is order and map of `SessionCache` in one sequence, `file` the file. A conversation is
the sequence of the responses that answered its turns, so that "the right history" is
a statement about `talk`, what the clients know. **ResponseInput** is the conversion of one input, item
by item, and of the list of tools, compared with what they mean (`Meaning`).

**UsageLedger**: `usageRecordPending`, `refreshCreditsAsync`, the worker
(`WorkerSwap`, `WorkerNext`, `WorkerRecheck`), a query (`QuerySend`,
`QueryAnswer`, `QuerySettle`, `QueryAppend`) by worker or window, and the exit.
Balances and the cost computed from them are left out, and so is the order of the records of a
list: `pending`, `rows` and `written` say how many of them are of each request, since only who writes which
record, and when, is asked.

**UsageLog**: every operation holds `m_usageMtx`, so that it is one action; the day may
change between any two, and a record is of the day it was made on, not of the day it is written on.
`hidden` and `uncounted` say which records no file had when one was read: those
the pages cannot show.

**ModelCatalog**: the worker's round with every point at which a switch can
overtake it (`PickAccount`, `ReadGeneration`, `Fetch`, `Commit`, `Settle`), the
switch in its two parts (`replaceActive` before `requestRefresh`), a request in
`all()`, and the window that reads the version, then the models.

**ModelDetails** is what a round makes of the lists: `capsFromModelJson`, `mergeCaps`,
the Max profile, price windows, and which models are visible. `CapabilitiesAreUnion`
compares with a definition that knows no order; `PriceOfNow` says that the price shown is the lowest
an account may have at that minute. Display names, output limits, provider and preset flags, which
no property here is about, are left out. Lists whose order nothing depends on (models, a model's levels and
windows) are sets; the types of the JSON fields that are looked into are in `DetailsAssumption`.

## 3. What the runs show

| Run | Instance | Question |
|---|---|---|
| `gate_safety` | 2 requests, both batches, 2 objects, 1 id, limit 1..2 | limit kept, no request on a replaced account (`AccountLease` implemented), tokens rotated by one thread and never for a retired object; no deadlock |
| `http_server` | 3 connections, limit 2; 2 logins, 2 callbacks; fairness | nothing behind stop, stop ends and so does what it interrupts; one account per login, none after its stop, logins end |
| `http_interrupt` (violated) | 2 connections | does stop interrupt every connection? No |
| `usage_ledger` | 2 requests, 2 accounts, one enterprise, fairness; 3 records, 3 days; the gate with 1 request, the credits worker, 2 objects, 1 id, fairness | records written once, none pending without a query; counters and pages right; acquire returns, operations on the accounts end |
| `check_in` | 2 credentials of one account, 2 days; some thousand answers | no blind claim, rows true, retries spaced, answers read right |
| `credential_vault` | a web and a directory account, 4 objects, 3 threads, 2 logins, 1 rotation each | files, rows and objects consistent through failures and crashes |
| `vault_busy_add` (violated) | 1 thread, 3 objects | are saved credentials kept when `add` answers "busy"? No |
| `model_catalog` | 2 objects of one login and one of another, 1 request, 2 switches; all pairs of 7 lists | no foreign models, waiters answered; capabilities and prices true |
| `catalog_sight` (violated) | the lists of `model_catalog` | are an entry's capabilities merged with its details'? Not its sign of images |
| `catalog_caps` (violated) | same, both accounts with the same labels | does the window have the capabilities of its version? No |
| `relay_request` | alphabet {a, b}, events of 1 or 2 letters, 5 letters, stops "ab" and "bba", 2 tools, a client that stalls or leaves, fairness; 4 snapshots | the client's text, end and slot; what the upstream is asked for |
| `response_sessions` | 2 requests, 3 names of responses, capacity 1..2, restarts; inputs of 4 items, lists of 3 tools | history right, completed kept, events in order, slot given back; input and tools |

Every property of a passing run has a mutant: a plausible bug put into one mapped
definition that makes TLC report the property violated on the same instance.

### Findings

With a run that shows them:

1. `unregisterConn` (HttpServer.cpp:80) calls `erase(find(c), end())`: a
   connection that ends takes all younger ones off the register, and `stop` does
   not interrupt them: they need not end while their clients wait. The safety that is left, that an
   ended connection is never on the register, is proved.
2. `add` (Credentials.cpp:96) promises that saved credentials are used on restart when
   the account is busy. The row keeps the old generation, so the busy request can write
   its rotated old token over them.
3. The window (ModelsPage.cpp:98) notes a catalog version as filled although it keeps the
   old capabilities when all labels are the same.
4. `capsFromModelJson` (ModelCatalog.cpp:313-316) sets `vision` from one object alone, the entry or the
   detail. The comment at line 462 says that the common capabilities stand in the entry and that the two
   layers are merged; an entry that refuses images, with a detail that says nothing of them, is
   published as taking images (`SightIsMerged`).

Met while modelling, with no run:

- Records are lost on exit: the window flushes before it stops the service
  (WindowEvents.cpp:378), and records made or held after the flush end with the process.
  `ExitLosesNone` of UsageLedger states the opposite and TLC finds it violated.
- A callback of an earlier login that waits for that login's mutex finds the `pending` flag of a
  later one, and ends the later one when it is answered (WebLogin.cpp:119, 137). `LoginIsOwn` of WebLogin
  states the opposite and TLC finds it violated. Its account is still saved once (`LoginOnce`).
- An error event with code 1001 in mid-stream is retried like a refused token
  (Upstream.cpp:189), although line 188 says that nothing has been sent by then. RelayRequest behaves
  as the code does; no property says otherwise.
- `clampMaxMode` (Upstream.cpp:138) is to take the largest window not above the chosen one;
  when every window is above it, it takes one that is (line 141). `SentIsOffered` asks only
  that the window is one the model offers.
- The Max mark of an entry is handed on to its details when it is called `max_mode` or
  `display_max_mode`, but not when it is `is_dollar_max`: that one is lost in a detail that has a mark of its own that says
  no (ModelCatalog.cpp:122-125, 473). `CapabilitiesAreUnion` leaves this case open (`SaysMax`, `MayMax`), as it
  does what an entry says of images.
- A chat request asks for the settings three times (Facade.cpp:14, 25, 319): it may be resolved with
  one snapshot and refused with another, and the pointer of line 319 is to a
  snapshot nobody holds, so that a `set` at that moment frees it. In RequestSettings
  what is then read is one of all outcomes.
- Whether a model is disabled is looked at for chat completions only (Facade.cpp:318-324), not for
  `/v1/responses`.
- A failure to create a connection's thread closes its socket twice (HttpServer.cpp:394).
- The timer of a login that ends at its 30 minutes may set its message after the
  callback has set that of success (WebLogin.cpp:144); texts are not modelled.

### Bounds

- AccountGate: an object nobody refers to is reused, so two objects are an
  unbounded number of switches: a third would need two retired objects held
  at once, by different threads, and no property relates two retired objects. Two
  requests are the first number at which slots and limits compete; the limit
  1..2 covers lowering it below what is in use. One id is logged in again and again; that
  the pool agrees with the registry over several ids is proved. The proofs lift all of these.
- CredentialVault: `MaxLogin` 2 is one login that replaces another; `MaxRotation`
  1 is one token that is stale. Four objects are the enabled one, a new one and
  two that threads hold.
- HttpServer: three connections against a limit of two have a refusal while both
  slots are used, and a register with a middle.
- WebLogin: two attempts and two callbacks have a callback that is late for its own attempt and
  meets the next one, and two of the same attempt.
- CheckIn: two steps to a day and three steps in all have midnight at every point of a worker and a
  retry on the same day; two credentials of one account are the case in which one's claim makes the
  other's status. UpstreamAnswer: values of one wrapper, one array and a tower just
  within and just below the depth the search goes to.
- ModelCatalog: `MaxSwitch` 2 has a switch away and back, which a check of
  the account alone would miss; `MaxVersion` only stops the hourly round from
  counting for ever. ModelDetails: the seven lists have each kind of profile once, and every
  pair of lists occurs.
- RelayRequest: `MaxText` 5 holds a stop sequence of three letters that is cut
  over three events with text before and after; the two stop sequences overlap
  ("ab" ends where "bba" may begin). With `MaxStop` 3 the filter holds two
  letters back. RequestSettings: `MaxApply` 2 puts a change before and one between the three looks.
- UsageLedger: two requests on one account are settled together or one by one;
  on two accounts the queue has two entries. UsageLog: three records with room for two, three days of which two are kept.
- ResponseSessions: three names with a capacity of one or two have an eviction of a session that
  another request is about to continue; a name nobody refers to is used again.
  `MaxItems` 4 has reasoning, call, output and answer in every order; `MaxTools` 3 two names
  that become one beside a third.

`SYMMETRY` is used over requests, objects and responses, which no definition tells
apart, and only in runs without liveness properties. A `VIEW` leaves out what
nothing reads again: `GateView` and `Seen` the fields of objects that nothing refers to,
which are set again before the name is reused; `CheckInView` the results of other days and of
workers that are done; `SessionView` the items and events of a response once they have been
looked at and only the end matters. Two action constraints cut down `response_sessions`: `GoesOn` lets a handler of
`/v1/responses` that is at a point where it touches nothing shared go on before another one moves; with `SaysLess`
the events of a response are looked at before a first one is stored; after that only how a response ends matters.
`CHECK_DEADLOCK FALSE` is used where the system stops: a stopped server, an ended process, a finished request.

### Fairness

- Threads are scheduled: weak fairness of each thread's next step. The timer of
  WebLogin wants the mutex that callbacks take and leave again and again, and needs strong
  fairness: a mutex that is free infinitely often is obtained.
- AccountGate: only a thread in `acquire` and the operation are scheduled. Nothing is asked of
  a request that holds its slot or of a thread that holds `refreshMtx`: both may stay for ever, and
  acquire and the operations end nevertheless, by deadline and by `try_lock`.
- HttpServer: a thread at its client (`AtClient`) is asked to go on only once its socket is shut
  down, when `recv` returns 0 and `send` fails; the handler then ends by its failing writes and its upstream timeouts.
- RelayRequest: the handler's steps exclude those of a client that stalls. They have strong fairness: a frame is
  finite, so that a client that reads again and again takes it in, although it stalls again and again. A client
  that stalls for ever disables them and is the exception `RequestEnds` names.
- Upstream calls end, because each has a timeout (Http.cpp). In RelayRequest `WF(UpstreamEnds)` stands for
  readLine's timeout and the upstream closing; an upstream that sends events for
  ever is excluded, the code has no limit on the whole stream.
- The clock goes on (WebLogin's 30 minutes).
- Nothing is assumed of the user, of clients and the browser (they need not send, read or leave; see
  WebLogin for its small answer), of connections that come, or of hourly rounds.
- In the sum of HttpServer and WebLogin the fairness of each part is that of its steps while
  the other rests: neither is asked to move once the other has begun.
- CheckIn, CredentialVault, ResponseSessions and `gate_safety` check safety only and assume none.

## 4. What is proved

The proofs hold for any number of requests, objects, accounts, connections, callbacks,
letters and events, and for lists of models of any length, from the named assumptions of each module (sets do not
contain `None`, limits are positive, stop sequences are not empty and of bounded
length). Each follows the usual argument: a type invariant, an inductive
invariant that strengthens the properties, one lemma per group of actions, and
PTL for the temporal step.

- **AccountGate** (`Invariance`): the slot of an object counts its holders;
  the operator's old object is the pool's, locked by it; batches work on
  objects that are not the pool's; whoever is inside the refresh owns the lock of
  an object that is not retired. From it: LimitRespected, RefreshedIsLive,
  OneRefreshPerCredential, and that every step of the gate is a step or a
  stutter of AccountLease; and what no run asks: TypeOK, SlotAccounting (slots are exact),
  HeldIsEnabled (a request holds the enabled account), EnabledAgrees (pool and registry). LimitRespected is not
  inductive: it needs that a request's limit is read before its slot is counted, for every k at once.
- **HttpServer** (`ServerInvariance`): the counter is the number of threads
  inside the gate (HandlersBounded), the register has no duplicates and holds only threads that
  run (EndedIsUnregistered), and is final once the accept thread is joined (NoConnectionAfterStop).
- **WebLogin** (`LoginInvariance`): a login is pending only between the moment the window says so and
  the moment the timer has a reason to end; those with a mutex are alone with it; whoever is at work is so
  for an attempt that has saved nothing, and not for the newest attempt before its timer or after it.
  From it LoginOnce.
- **CredentialVault** (`VaultInvariance`): how far the operation in progress has
  come decides which of rows and files is ahead; tokens of objects never run ahead
  of the upstream's; an object may write only in its row's generation. TokenKept needs more: who holds
  the newest token of a login, that only one thread at a time rotates an object and only one
  operation writes a row, that an object with a token not written yet is known to be dirty, and that an exchange is
  never begun with such an object, so that a lost answer costs no token that a dirty object holds.
- **CheckIn** (`CheckInInvariance`): the button and the batch exclude each other, days only go on, and
  what a worker has read stays true until midnight; a claim that was sent is followed by a row that does not
  let the next one be sent blindly. From it NoBlindClaim, SavedIsTrue and RetrySpaced.
- **UsageLedger** (`LedgerSafe`): there is a worker exactly while `busy` is set, it goes back to the queue when
  its batch is done, and only a thread that has settled has records to write. From it RecordedOnce
  and PendingHasQuery.
- **UsageLog** (`LogSafe`): a record is settled once; the file of a day has records of that day in the
  order in which they were settled; the list is in order. `ReadInOrder` proves, by induction over the
  days, that the files read one after the other make such a list, whatever files cannot be opened. From it
  NewestShown, and CountIsOfDay, which needs that the lines of a file are distinct records.
- **ModelCatalog** (`CatalogInvariance`): a round that began in the current
  generation has the enabled account or an account object that is retired, and
  an error belongs to the generation it is stored in (ErrorIsCurrent); the window's list is of the
  version it has noted (WindowFollows).
- **ModelDetails** (`DetailsInvariance`), in the same proof module: whatever has been read of the lists, there is one
  model for each name, and it is the union of the profiles read under that name (`Good`). The induction is over
  the details of an entry and the entries of a list (`EntryRuns`, `ListRuns`, then `ReadEntryKeeps`, `ReadKeeps`);
  its step is that a profile is the union of itself (`ProfileIs`), that merging two unions gives that of both
  (`MergeIs`), and that a merge leaves the other models alone (`MergedKeeps`). `PriceIsLeast` says that the price
  shown is the least of those an account may have, for all prices, windows, days and minutes. From them
  ModelsAreTrue (DetailsAreTrue): of Max and of images it gives a lower and an upper bound, which are the same but for
  an entry's `is_dollar_max` and its refusal of images.
- **RelayRequest**: `SlotInv` places each program point before or after the
  release; `CallInv` says that a request with a tool call sent holds no text back
  and has no error, so that it is not retried (ToolsAfterText). `TextIsCut` proves StopCut, that
  the client's text holds no stop sequence and is the upstream's up to the first.
  That is not inductive as it stands: `FilterInv` adds that as long as the
  upstream may still speak, either nothing has been sent or exactly `HoldMax`
  letters are held back, and that text sent and text held, put together, hold
  no stop sequence. `NoNewStop` is the heart: an occurrence in the new client
  text lies in the buffer, before its first one, or in the old text and what was held back.
  `EndIsTold` proves EndingIsTrue: which end the client is told follows from how the upstream ended.
- **RequestSettings** (`SettingsInvariance`), in the same proof module, for all models, settings and requests:
  the model that was found is one of the account's (`FoundIsModel`), and what the request was
  resolved to is what that model offers (`EffortIs`, `MaxModeIs`), the client's wishes first. The invariant says
  nothing of the settings, which is why replacing them between the three looks cannot disturb it. From it SentIsOffered.
- **ResponseSessions** (`SessionInvariance`): where a request is decides whether it has a slot and a name,
  and which events are still to come (`Followable`, `Adding`, `AllDone`); names are not reused while
  something refers to them; a session, and a request that continues one, has the turns of `talk`, with
  the images of every turn this process has answered (`Whole`). For CompletedIsKept and SavedComesBack
  it is not enough that `put` evicts the oldest: sessions are in the order in which they were stored and *at
  least as far apart as* in that order (`Spaced`), because the file may miss some and a restart may
  cut the cache; so whoever is evicted has as many after it as the cache holds (`Evicted`), and
  keeps them (`Far`).
- **ResponseInput**, in the same proof module, for inputs and lists of tools of any length: an induction
  over how many items the code has read (`ReachesBound`, from the well-founded order of the
  numbers). `Keeps` says what the state of `normalizeInput` means after n items: the messages are those the first
  n items mean, the reasoning that is pending is what ends at item n, and the last message is adjacent exactly if
  item n is one of the assistant's, when it is that of its turn. `ItemStep` proves that each kind of item
  keeps this; the hard one is a call that opens no turn, which joins a message that is already made
  (`JoinMessage`) and must not change another. That the recursions have values at all is
  `RecursionExists`. From it InputKeepsTurns, and by the same induction over the tools (`ToolsApart`) ToolsComeBack.
  The names of tools stay those of `Tools`, which `sanitizeToolName` is modelled on.

TLC checked each inductive invariant's consequences first.

**Only model-checked**: all liveness (AcquireReturns, OperationReturns, ServerDrains, LoginEnds,
QueuedIsQueried, WaitersAnswered, RequestEnds), which is outside the prover's reach; and the property of
UpstreamAnswer, which searches a JSON value recursively.

## 5. Not modelled

- `TokenRefresh`, `Storage`, `Saas`: requests and file formats. The models have their outcomes
  (rotated, refused, failed; which login a file holds).
- JSON, HTTP client, encryption, signatures, the log, counters: libraries without control of their own.
- The configuration file with its defaults, the registry value of AutoStart, `Service`'s start and stop
  on the window's thread.
- Drawing, layout and message handling of the window, but for what it does to shared state.
- The conversion of OpenAI messages to the upstream's form (Facade.cpp:326-392, UpstreamSolo.cpp:13-140):
  data passed through field by field. The handlers of `/health` and `/v1/status`, the API key.
- Enterprise usage, sums of tokens and credits, the cost of a record: arithmetic on values no property
  tells apart.
- The fields of a row that are only shown (names, plan), the migration of an old directory.
- A failure to create a thread outside HttpServer, memory exhaustion, and
  exceptions thrown in a chat handler: no destructor releases the slot there, so
  that an exception would keep it.
- UTF-8: a letter of RelayRequest is a whole character; `utf8SafeCut`
  keeps the filter's cut off the middle of one.
- Time itself outside CheckIn, UsageLog and ModelDetails: deadlines and timeouts are events that may come
  at any moment.
- `ResponseSessions` has every response with at least one message; one without any is not kept by the file.

What is left is data or one thread's work, and no further module is planned.

## 6. Possible next steps

1. A run that states the comment of Upstream.cpp:188, and one for the exit (`ExitLosesNone`).
2. The composition of AccountGate and UsageLedger: a record pending on a retired account waits
   for the exit (AccountPool.cpp:309).
