# Switch Hub (CoopInsight): TLA+ models, checks and proofs

Switch Hub is the operations portal of a bank's card switch. A Go backend
(`src/backend`: Gin, MongoDB, the switch's Oracle databases, SSH to the switch
hosts) serves a React frontend (`src/frontend`) and runs a few things of its own
in the background: it indexes the electronic journals (EJ) that ATMs write, and
it follows the switch's monitor logs over SSH and fans them out to browsers.

This directory holds TLA+ modules of the parts of that program in which several
actors meet, TLC configurations that check them on small instances, and proofs
checked by TLAPS.

## 1. Inventory

| Part | State | Operations | Meets | Here |
|---|---|---|---|---|
| EJ indexer (`service/ej_indexer_service.go`, `ej_watcher_service.go`, `cmd/ej-indexer`, `repository/mongodb/ej_transaction_repository.go`) | `ej_files` rows, `ej_transactions` documents, the watcher's tick count | poll a day or everything, index one journal: skip, first parse, append, full reparse | the file system (ATMs append, operators cut), MongoDB, another indexer | modelled |
| EJ block parser (`service/ejparser/parser.go`) | none | parse from an offset, detect the format | indexer | framing and offsets modelled |
| Switch SSH client (`infrastructure/sshswitch/client.go`) | one cached connection | Tail, Follow, Run, Exec, reset | every collector | Tail, Follow, reset modelled |
| IST health collector (`sshswitch/ist_collector.go`, `ist_parser.go`, `handler/ist_monitoring_handler.go`, the IST page) | latest snapshot, live flag, subscribers' channels, the half-read cycle | loop, seed, follow, subscribe, publish, setStatus | SSH client, websocket handlers, browsers | modelled, values of a cycle left out |
| Switch event collectors (`sshswitch/collector.go`) | ring of recent events, live flag, channels | loop, subscribe, broadcast | SSH client, websocket handlers; the page removes repeated ids | planned |
| Switch commands (`sshswitch/command.go`, `switch_command_service.go`, `mas_ssh_service.go`) | none beyond a client | one request, one remote command | SSH | not modelled |
| Users, sessions, account requests (`user_service.go`, `auth/auth.go`, `middleware/auth.go`) | `users`, `account_requests`, signed tokens | login, refresh, register, update, suspend, unsuspend, delete, request, approve | MongoDB, roles | modelled, without LDAP, tokens and profiles |
| Roles and permissions (`role_service.go`, `permission_service.go`) | `roles`, `permissions` with their `Assigned` flag | create, update, delete | users | roles modelled, permissions planned |
| Activity log | append-only records | write, list | every service | not modelled |
| Visa settlement import (`visa_settlement_service.go`) | settlement records, batch summaries | upload, re-upload, bulk write | MongoDB | planned |
| Mastercard IPM files and unsettled matching | none (files in, matches out) | parse, match | Oracle | planned as a pure algorithm |
| EJ search, browse, coverage | none | read-only queries | the EJ collections | not modelled |
| Reports over Oracle (cleared, settled, SAF, cards, ...) | none | read-only SQL | Oracle | not modelled |
| Embedding middleware, migrations, configuration | rate-limit buckets; applied migrations | | | not modelled; the limiter and the migrations are candidates |
| API routes (`delivery/http/router/*.go`, `middleware/auth.go`) | none | admit a call by role or permission | every page | the routes the pages call |
| Frontend: request slices and their screens (`features/*_slice.ts`, the pages that dispatch their thunks, the home pages) | the Redux store: rows, loading, error, owner of each slot; requests under way | pending, fulfilled, rejected, clear; ask, page loop, load more, leave | the API, the user | all slots that hold an answer |
| Frontend: what the screens show (tables, tiles, charts, sheets, export buttons) | none | render | the slots | modelled, without columns and formats |
| Frontend: session and navigation (`user_slice.ts`, `lib/api.ts`, `lib/auth-session.ts`, `App.tsx`, `app-sidebar.tsx`, `require-permission.tsx`) | localStorage, shared by the tabs; in each tab the signed-in user, the page, calls and a refresh under way | sign in, sign out, open, follow a link, call, refresh, end the session | the API's users and permissions | modelled, without history-back |
| Frontend: live pages | the frames shown | | websockets | only what the IST page does with a frame |

What is hard, and what makes each part correct:

- **EJ indexer.** No step on one document is atomic with the next, and the
  journal can grow between the `os.Stat` that is registered and the parser's own
  open. A pass can fail anywhere, run into its deadline, or die with the process;
  the registry row is the only memory. Correct means: a complete transaction is
  never skipped for good, an append resumes exactly at a block boundary, a row
  that claims the current schema has no document of an older parser under it, a
  transaction is stored twice only where the code cannot help it, and everything
  complete becomes searchable.
- **SSH client.** Any user that fails closes the connection that is cached *by
  then*, which may be one that somebody else dialled since. Correct means: the
  stream comes back and is not closed for ever by the failures of others.
- **IST collector.** The lock covers the fields and not the sends: frames of the
  loop, of a greeting and of a subscriber's own seeding race for a channel of one
  slot. Correct means: no snapshot mixes two cycles, what is published is shown, a
  lost stream is shown as lost, and a browser does not wait for the next cycle
  when there is a snapshot.
- **Users and roles.** Every call reads documents, changes them in memory and writes
  them back; checks come first and writes afterwards, with no transaction and no
  version, only the updates' filters and two unique indexes. Correct means:
  names are unique whatever races, an account that is deleted stays as it is, a blocked
  account opens only by an administrator's write, SUPERADMIN is never lost, a
  request that is closed has its account, and an account that was used is not deleted.
- **Request slots.** Requests are asynchronous, the user does not wait for them, and
  some sixty slots guard against late answers in half a dozen ways: comparing the
  request's id, aborting, comparing a channel or a branch, or not at all. Lists are
  fetched page by page up to a limit. Correct means: a screen shows the answer to what
  its controls say, a list that stops early says so and is not exported as if it were
  whole, a spinner ends, and after a failure nothing old passes for an answer.
- **Session and navigation.** Tabs share one stored session and none is told what
  another stores; refreshes, logins and calls are under way while somebody signs out;
  rights change on the server while a token carries the old ones. Permissions are
  written down three times: at a page's links, at its route, at the API behind it.
  Correct means: a call goes out in the name of the user who made it, no session is left
  behind, calls end, tabs that are left alone come to agree with the server, a link
  leads where it says, and a page's own calls are not refused.
- **Settlement import** (planned). An unordered bulk write that fails has stored
  part of the records, and a second upload of the same report meets them.

`PROJECT.json` lists the hazards one by one, each at its line, with the property
that covers it or the reason why none does yet.

## 2. Modules

| Module | What it is |
|---|---|
| `EJParser` | operators: which blocks of a journal are complete, which give a transaction, where parsing resumes |
| `EJIndex` | the abstract specification of what the index of one journal promises to somebody who searches it |
| `EJIndexer` | EXTENDS `EJParser`: any number of indexers over any number of journals, the two collections, environment and faults; implements `EJIndex` for each journal |
| `MCEJIndexer` | instances for TLC |
| `EJIndexerTypes`, `EJResumeProofs`, `EJCopiesProofs` | theorems about `EJIndexer`, each module EXTENDing the one before: the types, what each step changes and the schema; the resume point, what is not lost and the refinement of `EJIndex`; how often a transaction is stored |
| `SSHClient` | the shared connection as a component without a behaviour of its own: actions that its users compose |
| `ISTCollector` | EXTENDS `SSHClient`: the collector's loop, subscribers, channels, browsers and the monitor |
| `MCISTCollector` | instances for TLC |
| `ISTProofs` | theorems about `ISTCollector` |
| `UserAdmin` | accounts, roles and requests under concurrent calls of the API |
| `MCUserAdmin` | instances for TLC and the symmetry |
| `UserAdminProofs` | theorems about `UserAdmin` |
| `LatestAnswer` | the abstract specification of what a screen promises about the data it shows |
| `RequestSlot` | one slot of the store, its requests and its screens, for any table of habits; implements `LatestAnswer` |
| `SlotHabits`, `ListSlots`, `ReportSlots`, `SearchSlots`, `AdminSlots`, `HomeScreens` | the tables: every slot of the code with its habits (the last one also with its views) |
| `Sight` | EXTENDS `RequestSlot`: what a view's markup makes of the store, and what the user may conclude |
| `ViewHabits`, `ListViews`, `ReportViews`, `SearchViews`, `AdminViews` | the tables of the views |
| `MCScreens` | composes `Sight` with all tables for TLC |
| `RequestSlotProofs` | theorems about `RequestSlot` |
| `SightProofs` | EXTENDS it: theorems about `Sight` |
| `Navigation` | the routes of `App.tsx` with their permissions, the hubs' tabs, redirects: where an address lands |
| `Links` | EXTENDS `Navigation`: the links a user is shown on each page |
| `Gateway` | EXTENDS `Links`: the API's gates, and the calls each page makes |
| `Session` | EXTENDS `Gateway`: tabs, localStorage, calls, refreshes, people, an administrator |
| `MCPortal` | worlds for TLC, and the dead links and refused calls that are known |
| `SessionProofs` | theorems about `Session` |

Mutated forms of an operator (`Name_Something`, preceded by a comment that starts
with "Mutant:") are used by no specification. They are the plausible bugs that
show that a property can fail.

### 2.1 The EJ indexer

`data[f]` is the journal as a sequence of lines. A line is one of four kinds, which
is all the two block expressions of `parser.go` tell apart: `"start"`, `"end"`,
`"text"` (anything that gives a block a card, an authorisation number or an
amount) and `"blank"`. Sizes and offsets count lines where the code counts bytes;
every line therefore ends in exactly one newline, and the line number registered
beside an offset equals that offset when it is right. A block is named by the
position of its END line: as journals only grow, or are cut and rebuilt, that name
is stable.

`row[f]` is the `ej_files` document with the fields `indexOne` reads: size, mtime,
parsed offset, line count, schema version, ATM type, transaction count.
`stored[f][e]` counts the copies of block `e` in `ej_transactions` (up to
`MaxCopies`), and `oldDocs[f]` are the blocks whose document an older parser
wrote. `torn[f]` is a history variable: documents are stored that the row does not account
for, because an append reached `ej_transactions` and its row write did not, or because a
first parse that found nothing kept what an earlier first insert had stored before its
row was lost.

One action per step at which another actor can get in:

| Action | Code |
|---|---|
| `StartPass`, `EndPass` | `pollLoop`/`poll` of the watcher: the two passes of a start, then today's journals, everything once in `FullEvery` ticks; `walk` of the command |
| `StartFile` | `ej-indexer -file` |
| `Stat` | `os.Stat`, the first thing known of a journal |
| `Skip`, `Find` | the row is read; `Plan` is `indexOne`'s chain of early returns: first, skip, append, full |
| `Parse` | `ParseFromOffset` on the file as it is now |
| `Delete`, `Insert` | the two halves of `ReplaceFileTransactions`, and `AppendTransactions` |
| `Upsert` | the row is written, without any condition |
| `FailFile` | a call returns an error, with none, part or all of its effect; the walk goes on |
| `Timeout` | the pass's deadline: the call in flight fails and the rest of the walk is skipped |
| `Crash` | the process dies in any step and starts again |
| `Grow`, `Cut`, `Midnight` | the environment |

`Init` holds every state an older release can have left: no row, or a row of an
older schema with its documents and with an offset where that release's parser may
have stopped (the first releases kept none).

Two restrictions of the environment, both in `Grow`'s guard `Settled`: a journal
that was cut is not written again before a pass has rebuilt its row. Nothing in the
code can tell a cut and regrown journal from one that only grew, so without it no
property about offsets can hold. It is listed as a hazard.

### 2.2 The SSH client and the IST collector

`client` is the cached connection, `session[u]` the session of each goroutine on it.
`Reset(u)` is `Client.reset` followed by the end of `u`'s session: it closes
whatever is cached, and all other sessions on it die.

Of the monitor's log only the two lines that delimit a cycle matter. A line carries
its cycle's number; the last number, `MaxCycle`, stands for every later cycle.
`log` holds the last `TailLines` lines, which is what `tail -n` shows. A snapshot is
the pair of the numbers of its BEGIN and its END line, so that a snapshot made of
two halves is visible as such.

`pc[Loop]` walks through seed, tail, tailed, follow, read, down; a subscriber through out,
seed, tail, tailed, reread, in. Between tail and publication (tailed) others may publish
something newer. A guest is a browser that is gone before its socket is open, while
`Subscribe` still tails the log for it: nobody reads its channel, and what is left of it is
what its tail sends to the others. `faulty` says whether anything may fail; it is chosen
once. `sends[u]` are the frames a goroutine still has to send,
after the lock is released, in an order of the subscribers that Go's map iteration
may choose. `SendStep` is one channel operation: `send` gives up on a full slot,
`sendLatest` tries, throws away what is buffered and tries again, and another
goroutine may get in between any two of these operations.

| Action | Code |
|---|---|
| `TailOpen`, `TailShown`, `TailFailed`, `TailPublished` | `seedFromTail` over `Client.Tail` and its `publish`, by the loop and by a browser that finds no snapshot |
| `FollowStarts`, `FollowFails`, `HandleLine`, `FollowEnds`, `GoDown` | `loop` and `Client.Follow` with its callbacks; the backoff is the time before the next step |
| `Subscribe`, `Reread`, `Leave` | `Subscribe`, its goroutine and its cancel |
| `Visit` | `Subscribe` for a browser whose upgrade to a websocket will fail |
| `Deliver` | the websocket handler takes a frame and the page shows it |
| `SendStep` | `send` and `sendLatest` |
| `Write`, `Drop` | the monitor's next line; the connection breaks |

### 2.3 Users, roles and requests

`users`, `roles` and `tickets` are the three collections: a document that is not stored
has status `"absent"`, a deleted one stays as `"deleted"`. Of a user the model keeps
name, status, role, whether a login was recorded, and who created, updated and deleted
it, because `HasActivity` looks for exactly these. Names of roles are spellings, and
`Fold` says what a comparison without regard to case makes of one.

`call[w]` is what a request's goroutine holds between two calls to the store: the operation,
the step it is at, and the fields it was given or has read. One action per call to
the store, named for the repository's method or for the check that follows it:

| Actions | Code |
|---|---|
| `Login`, `Stamp`, `Promote`, `LoginEnds` | `findEligibleUser`, the two updates of `UpdateLastLogin`, and `issueSessionResponse`, which gives a session also when the login could not be recorded |
| `UpdateUser`, `Suspend`, `Unsuspend`, `CheckRole`, `WriteUser` | the calls of the same names: `GetByID` with its checks, `FindByID` of the role, the repository's `Update`, which writes role and status back |
| `DeleteUser`, `NoActivity`, `RemoveUser` | `Delete`; `NoActivity` is one of the queries of `HasActivity` that found nothing (permissions, which are not modelled, are left out) |
| `RequestAccount`, `CheckPending`, `InsertTicket` | `RequestAccount` |
| `Register`, `CheckRole`, `CheckTicket`, `CheckUsername`, `InsertUser`, `WriteUser`, `Fulfil` | `Register`: from nothing, from a request, or for an imported user without a role |
| `CreateRole`, `InsertRole` / `UpdateRole`, `CheckRoleName`, `WriteRole` / `DeleteRole`, `CountByRole`, `RemoveRole` | `roleService`'s `Create`, `Update`, `Delete` |
| `Stop` | a call is refused, fails or dies with the server at any step: what it has written stays |

`Create`, `UniqueUsername` and `UniqueRoleName` are the inserts under the indexes of migration 001.
The first spans deleted users too; the second compares spellings, and active roles only.

`Init` is what seeds 002 and 003 leave, with the administrator signed in, one more role, one more user
in any state or none, imported without a role among them, and perhaps a pending request. The name a
registration gives is free, also when it answers a request: `Register` compares `req.Username` with nothing of the
request (`user_service.go:720-741`), and the page's disabled field (`create-user.tsx:416`) can be filled by a
late answer about another request (`account_request_slice.ts:115-119`, `create-user.tsx:120-149`).
LDAP is a read that may refuse, which is `Stop`.

### 2.4 Request slots and what their screens show

A slot is the part of a Redux slice that holds the answer to one kind of request:
rows, loading, error, the id or argument of the request it belongs to. `store` is that
part, `flight` the requests that are not settled, `asked` what the controls of the open
screen say. `slot` is chosen by `Init` and never changes: a behaviour is about one slot
of the tables, and the properties hold of each.

A slot is described by its *habits*, read off its thunk, its reducers and every screen
that uses it; the head of `RequestSlot` explains them. The reducers are `Pending`,
`Fulfilled`, `Rejected` and `Cleared`; they are written once, and the tables say which
parts of them a slice has; `Prepared` is what the card sheet dispatches before a new question, `prepareCardDetails`. The same holds of the screens: `Opens`, `Ask`, `AskNothing`,
`LoadMore` and `Leave` are what a user does, with the guards (a disabled button) and the
cleanups (an abort, a cancelled loop) that the screen's habits name.

| Action | Code |
|---|---|
| `Opens`, `Ask` | an effect or a submit handler that dispatches the thunk; `Send` is the dispatch with its pending reducer |
| `AskNothing`, `Leave` | controls emptied, page left: the effect's cleanup and the slice's clear action |
| `LoadMore` | the button for the next page |
| `Refresh`, `FollowingPage` | the buttons of the card sheet (`card-detail-sheet.tsx:204-221`) and of the success browse sheet, which has the first only; `ByButton` is `load`, which stops the loop by a new request id and returns its answer to nobody |
| `Answer` | fulfilled; the page loop that awaited it asks for the next page in the same turn of the event loop |
| `Reject` | an error, a timeout, an abort that takes effect |

The habits differ more than one would expect. Most lists and searches compare the
request's id. Some report pages only abort, so their slots must ignore an aborted
request. The terminal success rate compares the channel and not the range
(`report_slice.ts:1064`). The administration lists and the card sheet do nothing.
`Protected` names the slots in which a habit keeps late answers away; the strong
properties are about these, and `OnlyOverlapsMislead` says of all the others that they are
right as long as no two requests overlap.

`Sight` adds the views. A view is a screen's markup for a slot: each part of it (table,
tile, chart, text) covers its rows with a skeleton while loading or not, says that
there is nothing or leaves a blank, shows the error instead of the rows, beside them or
not at all; the view announces failures with a toast or not, has a notice for a list that
stopped at the limit, and an export that is enabled in some phases.
The views that cannot keep a promise are named in `MCScreens`: `Silent` (no sign of
loading or of a failure: the administration lists, the terminal success rate,
`terminal-success-rate.tsx:254`), `Lingering` (an older answer stays under the toast
of a failure) and `Endless` (the skeleton of the trends stays after a failure, and so
does the spinner of the role form until the page leaves by itself).

What was noticed on the way and is in the tables rather than in a property: *Clear* of
the EJ browser during a pending list lets the late answer appear
(`ej-by-terminal`); the edit forms of users, roles and permissions take over a late
answer about another record and save it under the id of the open one
(`edit-user.tsx:176`); the card sheet never marks a list as truncated by
its reducer, and shows a notice of its own at the page limit (`card-detail-sheet.tsx:176`); while a slot that keeps its rows is loading, the export
still offers the previous range (the exception in `ExportsAreWhole`).

### 2.5 Session and navigation

`Navigation`, `Links` and `Gateway` hold tables and no state: the 80 routes of
`App.tsx` with what `RequirePermission` asks for at each, where an address lands a user
with given rights (redirects, the tabs of the clearing and settlement hubs, `/home` for
want of a permission), every link with the condition under which it is rendered, and the
API's routes with what `AuthorizeRolesOrPermissions` asks for.

`Session` gives them a behaviour. `stored` is the session in localStorage; for each tab
`auth` is the session in its memory, `page` what it shows, `logging` the logins and
`refreshing` the refresh under way, `authLoading` whether the login form's button is
disabled, and `calls` holds the calls under way with the user who made each (`asker`),
the session whose token it carries (`token`), the number of attempts, and whether it
waits for a refresh. A tab may have several logins under way: `logout` clears
`authLoading` (`user_slice.ts:422`) and cancels nothing, so a second one can be sent
beside the first, and whichever settles last decides the session.

| Action | Code |
|---|---|
| `Open` | an address typed or a tab reloaded: `initialState` reads localStorage |
| `Follow` | a link; `RequirePermission` decides where it lands |
| `Login`, `LoginOk`, `LoginFails` | `loginUser` with its three reducers; the failure signs out whoever was signed in |
| `Logout` | `nav-user.tsx` and the `logout` reducer; nothing under way is cancelled |
| `Ask` | a call through `lib/api.ts`; its interceptor takes the token from localStorage, whoever the tab shows |
| `Succeeds`, `Fails` | an answer; a saved avatar or profile writes the tab's session to localStorage |
| `Expires`, `ExpiresAgain` | the response interceptor on 401: wait for the one refresh of the tab, or give up on the second attempt |
| `RefreshOk`, `RefreshFails` | `doRefresh` and `endSession`, which reloads the login page |
| `Tick` | `useAccessTokenRefresh` |
| `ChangeRights` | `userService.Update`, or a suspension: the next refresh brings the new rights, or fails |

A session is a user and the rights in the token. Access tokens may expire at any
moment; a refresh token is good as long as its user is.

What the tables and the model show, and the properties name as exceptions
(`DeadLinks`, `HalfOpen`, `crossed`):

- The menu entry `/atm-monitoring` has no route. Home shows `/pos-terminal-success-rate`
  for `pos-overall` while the route asks for `pos-acquiring`, shows the link to every
  clearing and settlement hub for any one of their permissions, and the forms of the
  administration go back to lists that their user may not see. `analytics:view`, which
  the menu asks for, is not among the seeded permissions, and `/analytics` itself asks
  for nothing.
- `/deposit-per-terminal` is admitted by `report:view-deposit-per-terminal`, which the
  seeded roles PAYSWITCH and ATMMONITORING have; its call, `/tests/test`, is for SUPERADMIN
  only ("Diagnostic oracle probe", `test_router.go:12`). Pages of users and roles ask for lists that need
  `role:view` or `permission:view`. The Visa settlement API asks for no permission.
- A login that fails, or a refresh that fails, removes the session of the other tabs. A refresh under way
  undoes a logout. A tab may come to act as another tab's user, and two tabs with two users
  can hand localStorage back and forth. `OwnName` and `Converges` therefore speak of
  browsers in which no user signs in beside another.

## 3. What TLC checks

| Run | Bounds | Shows |
|---|---|---|
| `ej_faults` | 1 journal of up to 6 lines, fresh rows and rows of two older schemas, 1 watcher, 2 faults | `TypeOK`, `NoSilentLoss`, `ResumePointExact`, `SchemaHonest`, `DuplicatesOnlyWhenTorn`, `CountMatches` |
| `ej_cuts` | 1 journal of up to 5 lines, no blank ones, the command by walk and by file, 1 cut, 1 fault | `DuplicatesOnlyWhenTorn`, `KeepsIndex` when a journal shrinks at any moment |
| `ej_live` | 2 journals of two days and both formats, midnight, full walk every second tick, 1 fault | `EventuallySearchable` |
| `ej_two_indexers` | watcher and command on 1 journal, no fault | *violation* of `NoLossAtRest` |
| `ej_sticky` | an NCR journal that starts empty | *violation* of `EventuallySearchable` |
| `ist_live` | loop and 1 subscriber, 4 lines of tail, 2 cycle numbers; either faults without end or a guest (`FaultsAmongGuests` is FALSE) | `TypeOK`, `WholeCycles`, `EventuallyLive`, `EventuallyShown`, `EventuallyDown` |
| `ist_empty` | loop and 1 subscriber, no fault | *violation* of `NeverLeftEmpty` |
| `user_admin` | 2 concurrent calls of any kind, 3 users, 3 roles, 2 names, 2 requests | `TypeOK`, `NamesUnique`, `SuperKept`, `ClosedHonestly`, `DeletedForGood`, `OnlyAdminsUnblock` |
| `user_traces` | the same | *violation* of `DeletedUnused` |
| `screens` | every slot and view of the tables, 3 questions in 2 groups, answers of up to 3 pages with a page limit of 2, 2 requests under way | `TypeOK`, `ShowsWhatIsAsked`, `OnlyOverlapsMislead`, `WholeOrMarked`, `SpinnerHasRequest`, `SeenIsTrue`, `FailureLeavesNothingOld`, `WaitsForSomething`, `ExportsAreWhole`, `KeepsPromise`, `SpinnerEnds` |
| `late_page` | the slot of the card sheet, same bounds | *violation* of `NeverMixes` |
| `portal` | one tab with each of the 77 seeded permissions, each seeded role and SUPERADMIN on every page; two tabs and two users; two users signing in to one tab at once; two tabs of a user whose rights change; one tab with two calls and two logins | `TypeOK`, `OwnName`, `SignedOutMeansForgotten`, `OnlyAdmitted`, `LinksLand`, `Welcomed`, `WaitersAreWoken`, `CallsEnd`, `Converges` |

Why the bounds are enough for the interesting cases:

- Six lines hold two complete blocks, a block that yields no transaction beside one
  that does, or a block and an open one, so that appends resume behind a block,
  inside none, and in front of an unfinished one. Two faults let the retry fail
  too. All six properties are proved without any of these bounds.
- One cut at any moment of five lines reaches a cut between stat and parse, between
  delete and insert, and under a registered offset. The fifth line is needed: a first
  insert that lost its row, a cut to a block without a transaction, and the
  transaction written again make the only way to a duplicate that is not a lost append.
- Two journals, of which one is never of today, with one midnight, make the full
  walk necessary; `FullEvery = 2` is the least value at which the two kinds of pass
  differ.
- Two cycle numbers tell a snapshot's halves apart, and the last number saturates, so
  that the monitor never stops in the liveness runs. Four lines of tail hold two cycles, so that
  `tail -F` repeats an older one after a reconnect, or half a cycle on both sides of a
  whole one. One subscriber and the loop are two goroutines on the
  connection and on one channel, and a guest is the third party: its tail, fetched before,
  is published after the loop's newer cycle, and its frames take the slot from the loop's. Two
  subscribers in full have more than 20 million states, beyond what TLC's liveness
  check can do, and so have faults and a guest in one behaviour; the theorems have no such bound.
- Each hazard of users and roles is a race of two calls against a store one of them may
  have changed, and `Init` holds the states that earlier calls lead to, so two calls
  (`MaxCalls`) reach every such race. Three user documents are the administrator, a user or a
  free one, and a free one, so that two inserts can race; three roles and two ordinary names of roles
  let a rename race a creation; two requests let one name be requested twice. Names, free
  documents and workers are interchangeable, which the symmetry uses (the properties are
  safety only). A run ends when the
  calls are used up, so deadlock is not checked there; the theorems have no such bounds.

- Three questions, of which two share a group (a channel, a branch), tell a slice that
  compares arguments from one that compares ids. Two requests under way are the least
  that overlap; a third would be older than the older one. Two pages are the least
  limit that a loop can reach after a page it appended, and the third page is what it
  then leaves out. Slots of equal habits are one initial state. The theorems about
  `RequestSlot` have none of these bounds.
- In `portal` the tables are checked in worlds in which one user does one thing at a
  time ("patient"), because what a link or a call is allowed depends on the rights alone; a
  single permission is the least right that opens a page and the one that most
  easily finds a link or a call that asks for another. The races are checked in worlds
  with few pages: two tabs are the least that share a storage, one change of rights is
  enough for a token to be stale, two calls are enough to share a refresh, two logins to overlap. `Shared` and `Hasty`
  (one tab) stop their people when two users' sessions have met, because what comes after is excluded from `OwnName` and
  `Converges`; the other invariants are proved without the bound. Deadlock is not checked:
  everybody may have signed out.

### Fairness

`FairSpec` of `EJIndexer` asks for weak fairness of each watcher's own steps: its
goroutine is scheduled, its ticker ticks, and the file system and the database
answer in the end (a call may fail, which is a fault, and faults of the indexer are bounded).
Nothing is asked of the ATMs, of midnight, of the command or of faults.

`FairSpec` of `ISTCollector` asks for weak fairness of the loop's steps, of a
subscriber's seeding and greeting and of a guest's seeding, and for strong fairness of `Deliver`: a handler
that waits at its channel takes the next frame directly, but in the model the slot is
empty again for a moment whenever `sendLatest` throws the buffered frame away.
The monitor owes no line, no browser has to come or go.

`EventuallyLive` and `EventuallyShown` have an antecedent, `Settles`: from some moment on no browser is
about to tail the log, and no fault comes. Without the first part `EventuallyLive` is false: a subscriber
that keeps coming back while there is no snapshot and fails late closes the loop's new connection, whose
failure closes the subscriber's, and so on. Without the second a stream may break for ever in the
middle of the older cycles that `tail -F` repeats. A session that dies with a connection that somebody
else has closed is no fault of its own (`Fault`), so the failures that follow from one another are covered.

`FairSpec` of `RequestSlot` asks that a request settles if its thunk passes a timeout to
axios, or if it was aborted. A request without a timeout may stay under way, and
`SpinnerEnds` claims nothing of it.

`FairSpec` of `Session` asks that a login, a refresh and a call end, and that the refresh
timer fires: the back end puts a timeout on every route of these calls
(`router.go:152-173`). People owe nothing. The two liveness properties have the antecedent
`LeftAlone`: from some moment on nobody touches the tabs and no rights change.

### Properties, in words

- `NoSilentLoss`: every complete transaction before the registered offset is
  searchable, unless the row itself asks for a rebuild. `NoLossAtRest` says the
  same of the moments at which no indexer works on the journal.
- `KeepsIndex`: the indexer implements `EJIndex` for each journal, with the documents a search
  finds and the offset its row vouches for (0 without a row, or when the row asks for a rebuild). It says of
  steps what `NoSilentLoss` says of states: no step takes a transaction away while the row vouches for the
  journal, moves the offset over one that is not stored, or moves it back other than to the
  start, and what is written or cut lies behind it. A restart is always allowed: that the index
  catches up again is `EventuallySearchable`.
- `ResumePointExact`: the blocks found from the offset are exactly the later blocks
  of the whole journal, and the line numbers continue.
- `SchemaHonest`: a row of the current schema has no document of an older parser.
- `DuplicatesOnlyWhenTorn`: two copies of a transaction mean a lost row write (of an
  append, or of a first insert whose documents a first parse without a transaction has
  kept), or a row that asks for a rebuild.
- `CountMatches`: at rest the registered count is the number of stored transactions
  before the offset.
- `EventuallySearchable`: every complete transaction becomes searchable. In
  `ej_live` every journal's first START marker is there when it is first seen;
  `ej_sticky` shows what happens otherwise.
- `WholeCycles`: no snapshot is made of two cycles.
- `EventuallyLive`: when no more faults come and nobody new tails the log, the stream comes back
  and stays.
- `EventuallyShown`: then what the loop publishes to a greeted subscriber is shown, or something
  newer, without the monitor's next cycle, although `tail -F` repeats older cycles and frames compete
  for one slot. `Overtaken` is its exception: another browser's tail has an older cycle to send.
- `EventuallyDown`: a stream that stays down is shown as down.
- `NeverLeftEmpty`: a subscriber has a snapshot when the collector has one and nothing is on its way.

- `NamesUnique`: no two live accounts have one name, no two active roles one spelling.
- `SuperKept`: SUPERADMIN is there, under that name in some spelling.
- `DeletedForGood`: no step changes a deleted account.
- `OnlyAdminsUnblock`: a step that lets a blocked account sign in again is the write of an
  administrator's call on it, never the end of its owner's login.
- `ClosedHonestly`: a closed request has an account, inserted by whoever closed it, and no two requests
  share one. It does not say that the account has the request's name, as nothing in the server compares them.
- `DeletedUnused`: a deleted account has never been signed in to.

- `ShowsWhatIsAsked`, `OnlyOverlapsMislead`: the rows are pages 1, 2, ... of the answer to
  what the controls say; in a slot without protection, if no other request was under way, and no
  button has since added a page to what a late answer left.
- `WholeOrMarked`: a list that a loop fetched is complete when the loading ends, or marked.
- `SpinnerHasRequest`, `SpinnerEnds`, `WaitsForSomething`: what turns has a request that
  will end it, and ends.
- `KeepsPromise`: a protected slot implements `LatestAnswer`: the next thing shown is the
  next page, or the failure, of the last question.
- `SeenIsTrue`, `FailureLeavesNothingOld`, `ExportsAreWhole`: the same of what the markup
  shows: every row seen answers the controls, "No results" was said by the server, a
  failure leaves nothing old, an export is the whole answer or something says otherwise, until the
  user takes over from the loop by a button of the sheet (`TakenOver`).
- `NeverMixes`: the rows of a list come from one answer.
- `OwnName`: every call carries the token of the user who made it, and no tab shows a user
  while another one is stored.
- `SignedOutMeansForgotten`: when no tab is signed in, no session is stored.
- `OnlyAdmitted`: however the rights change under a tab, it shows no page that the rights it
  holds do not admit.
- `LinksLand`, `Welcomed`: a link that is shown lands where it says; a call that a page
  makes for rights it knows is one the API admits.
- `WaitersAreWoken`: a call in the queue behind a refresh has used up its retry, and a refresh of
  its tab is under way, even when the tab has meanwhile signed out, signed in or moved to another page.
- `CallsEnd`, `Converges`: in tabs that are left alone every call ends, and every tab comes
  to show the stored session, with the rights the server has, on a page they admit.

### What the code does not do as its documents say

1. `ej_two_indexers`. `cmd/ej-indexer/README.md:92` offers a scheduled run beside the
   poller as "a second safety net". Two indexers of one journal are not ordered: a
   slow one that parsed a shorter journal deletes and replaces what a fast one
   stored, while the fast one's row, written later, has moved the resume point past
   it. A complete transaction is then missing for good.
2. `ej_sticky`. A journal first seen without a START marker is registered as CRM, and
   the registered type is used for every later parse. If it is an NCR journal, its
   transactions never become searchable.
3. `ist_empty`. The greeting sends the status and then the snapshot into a channel of one
   slot, and the second is dropped when the first still waits: the page that
   `ist_collector.go:68` does not want "stuck on an empty page" stays empty until
   the next cycle.
4. `user_traces`. The users page says that "users who have logged in or taken action in
   CoopInsight cannot be deleted" (`columns.tsx:181`). `HasActivity` reads the last login first and
   asks four more questions; `Delete` then writes with a filter on the status alone. A first login in
   between is recorded, gives a session, and the account is deleted.
5. `late_page`. The card sheet's request id "guards against a late page appending itself to a
   list the user has already navigated away from" (`card-detail-sheet.tsx:82`). It stops the page loop
   and does not abort the request, and the reducer adopts every answer: closed and opened on
   another number while a page is under way, the sheet shows the old list's late first page, followed by
   the second page of the new list, which the loop asks for, or the user: the late answer ends the
   loading and enables *Load more* (`card-detail-sheet.tsx:204-213`).

Four more divergences are named by what properties that hold leave out:

- `EventuallyShown`, by `Overtaken`. "Latest-wins: always keep the newest snapshot"
  (`ist_collector.go:14`) and "the newest health state wins" (line 239) hold of what was published last, not of
  what the monitor wrote last. A browser's tail that was fetched before and is published or sent after the
  loop's next cycle puts the older cycle into `latest`, into the slot and onto the page, until the monitor's
  next cycle.
- `ClosedHonestly`, which says nothing of names. The form says "Taken from the account request."
  (`create-user.tsx:409-424`), but `Register` closes whatever request the call names, under whatever user name it gives
  (`user_service.go:687`, `720-741`).
- `ExportsAreWhole`, by `TakenOver`. *Refresh* on the card sheet asks for page one and nobody goes on: the sheet
  counts, shows and exports that page, with no other sign than its *Load more* button
  (`card-detail-sheet.tsx:204-221`).
- `OnlyOverlapsMislead`, by `overlapped`. In the card sheet a late answer to an earlier question stays when the new question
  fails, and *Load more* then appends a page of the new one, although no two requests are under way at that time.

## 4. What is proved

TLAPS checks the theorems below for every value of the constants that satisfies the
assumptions of the modules they are about:

| Module | Assumptions | Leave open |
|---|---|---|
| `EJIndexer` | `ConstantsAssumption` | any number of journals, indexers, lines, cuts, faults and days |
| `ISTCollector` | `ISTAssumption` | any finite number of subscribers, any length of tail and number of cycles |
| `UserAdmin` | `UserAdminAssumption` | any number of users, roles, names, requests, workers and calls, any folding of spellings |
| `RequestSlot` | `SlotAssumption`, `HabitAssumption`, `LoopAssumption`, `ClearAssumption` | any table of slots whose habits go together as these say, any questions, pages and requests under way |
| `Sight` | `ViewAssumption`, `SignAssumption`, `ExportAssumption` | any table of views whose signs go together, with any exceptions |
| `Session` | `RouteAssumption`, `WorldAssumption`, `NoneAssumption`, `LinkAssumption`, `CallAssumption` | any users, tabs and worlds: any sets of rights, seeded or not, any changes of them, any order of what people do |

Assumptions about tables are facts of the code: `SlotAssumption` to `ExportAssumption` and
`RouteAssumption`, `LinkAssumption` and `CallAssumption` are evaluated by TLC on the code's own
tables, entry by entry and without any bound, and the theorems carry them to every behaviour.

| Theorem | States |
|---|---|
| `TypeCorrect` (`EJIndexerTypes`) | `Spec => []TypeOK` |
| `SchemaHonesty` (`EJIndexerTypes`) | `Spec => []SchemaHonest` |
| `ResumeExact` (`EJResumeProofs`) | `Spec => []ResumePointExact` |
| `NothingLost` (`EJResumeProofs`) | `Spec => []NoSilentLoss`, assuming a single indexer |
| `ImplementsIndex` (`EJResumeProofs`) | `Spec => KeepsIndex`, assuming a single indexer |
| `StoredOnce` (`EJCopiesProofs`) | `Spec => []DuplicatesOnlyWhenTorn`, assuming a single indexer |
| `CountedOnce` (`EJCopiesProofs`) | `Spec => []CountMatches`, assuming a single indexer |
| `AccountTypes` (`UserAdminProofs`) | `Spec => []TypeOK` |
| `NamesStayUnique` (`UserAdminProofs`) | `Spec => []NamesUnique` |
| `SuperStays` (`UserAdminProofs`) | `Spec => []SuperKept` |
| `DeletedStay` (`UserAdminProofs`) | `Spec => DeletedForGood` |
| `BlockedStayBlocked` (`UserAdminProofs`) | `Spec => OnlyAdminsUnblock` |
| `RequestsCloseHonestly` (`UserAdminProofs`) | `Spec => []ClosedHonestly` |
| `TypeCorrect` (`RequestSlotProofs`) | `Spec => []TypeOK` |
| `ShowsLatest` (`RequestSlotProofs`) | `Spec => []ShowsWhatIsAsked` |
| `ImplementsLatestAnswer` (`RequestSlotProofs`) | `Spec => KeepsPromise` |
| `OverlapsAloneMislead` (`RequestSlotProofs`) | `Spec => []OnlyOverlapsMislead` |
| `ListsWholeOrMarked` (`RequestSlotProofs`) | `Spec => []WholeOrMarked` |
| `SpinnersEndWithRequests` (`RequestSlotProofs`) | `Spec => []SpinnerHasRequest` |
| `ScreensTellTheTruth` (`SightProofs`) | `Spec => []SeenIsTrue` |
| `FailuresClearTheScreen` (`SightProofs`) | `Spec => []FailureLeavesNothingOld` |
| `WaitsEnd` (`SightProofs`) | `Spec => []WaitsForSomething` |
| `ExportsWholeOrMarked` (`SightProofs`) | `Spec => []ExportsAreWhole` |
| `TypeCorrect` (`ISTProofs`) | `Spec => []TypeOK` |
| `OnlyWholeCycles` (`ISTProofs`) | `Spec => []WholeCycles` |
| `Forgotten` (`SessionProofs`) | `Spec => []SignedOutMeansForgotten` |
| `NameKept` (`SessionProofs`) | `Spec => []OwnName` |
| `TypeCorrect` (`SessionProofs`) | `Spec => []TypeOK` |
| `PagesAreAdmitted` (`SessionProofs`) | `Spec => []OnlyAdmitted` |
| `LinksLeadWhereTheySay` (`SessionProofs`) | `Spec => []LinksLand` |
| `CallsAreWelcome` (`SessionProofs`) | `Spec => []Welcomed` |
| `NobodyWaitsForNothing` (`SessionProofs`) | `Spec => []WaitersAreWoken` |

The arguments:

- **`SchemaHonesty`.** `SchemaHonest` is not inductive: an `Upsert` writes the current
  schema, so one must know that no old document is left *when it happens*.
  `OldDocsInv` adds that: old documents exist only under a row that asks for a
  rebuild (`RowDocsInv`), and an indexer past its delete works on a journal without any
  (`JobDocsInv`). Only `Delete` and its partial failure change `oldDocs`, and they only
  remove, which is why it holds with any number of concurrent indexers.
- **`ResumeExact`.** The inductive fact is that the registered offset *and the offset
  every job is about to register* are block boundaries of the journal as it is now
  (`BoundaryInv`). A journal only grows behind a boundary (`BoundaryPrefix`), a prefix's
  blocks are blocks of the whole (`TxnPrefix`), the parser's new offset is a boundary
  (`NewOffsetBoundary`), and a cut either leaves the offset inside the file or makes
  the row ask for a rebuild.
- **`NothingLost`.** `LossInv` adds to `NoSilentLoss` what is known of a job at each step
  (`JobInv`): what stat saw beyond the end of the file still lies beyond it, and the job's mode
  is still what the row asks for (`JobRowInv`); the parse found every complete transaction
  between the offset it started from and the new one (`JobParseInv`); behind the insert they
  are all searchable (`JobStoreInv`). During a replacement nothing is searchable, and the
  theorem holds because the row then asks for a rebuild or its offset is 0. A second indexer
  can change the row and the documents that a job relies on. The assumption `SingleIndexer` is
  in the theorem's statement, and `ej_two_indexers` shows that it is needed.
- **`ImplementsIndex`.** `BoundaryInv` and `LossInv` together say, for every step, which action of the
  abstract index it is. An append or a cut is a `Write`: behind a boundary the complete transactions
  stay what they were (`TxnPrefix`, `CompleteKept`), and a cut below the offset makes the row ask for a rebuild, so that
  `reached` falls to 0. An insert is a `Store`. A write of the row is an `Advance`: an append's new offset is not before the old one
  (`EndAtBoundary`), and `LossInv` after the step has all that lies before it stored. It is a `Restart` when
  the journal was cut after the stat, as the row then asks for a rebuild. A delete, whole or in part, is a `Clear`:
  by `JobRowInv` a job deletes only when the row asks for a rebuild or its offset is 0, so nothing is vouched for. All else stutters.
- **`StoredOnce`, `CountedOnce`.** One invariant carries both: a journal that is not `Astray` (known
  to history, or asking for a rebuild) has every transaction once, none behind the registered
  offset, and as many before it as the row counts (`RowCopies`). It is disturbed by an append
  between its insert and its row (`Adding`), so `JobCopiesInv` says what is stored then: what was
  there before the offset the job resumed from, and what it found, which a parse finds behind that
  offset (`TxnsBetween`); the two are counted apart (`CountApart`). A job that resumed elsewhere
  did so because the journal had been cut below the offset, and the size it saw at its stat, which it is
  about to register, then lies beyond the end and makes its row ask for a rebuild. A replacement
  has deleted everything before it inserts, and whatever interrupts it the row asks for a rebuild or has no
  offset (`Replacing`). Both theorems rest on `LossInv` and its assumption: two
  indexers can each insert what both have found.
- **`UserAdmin`.** `TypeOK` needs `CallInv`: which fields a call holds at which step, as a write
  stores them. Every step then is a change of the one call that moves (`Moves`) and at most one
  write (`WritesOf`), and each invariant is shown for the writes that can disturb it.
  `SuperKept` needs `SuperInv`: a rename of SUPERADMIN in flight keeps its name, no deletion in
  flight aims at it, which holds because it cannot lose its name after the call has read it.
  `NamesUnique` needs `NamesInv`, where the names of deleted accounts stay taken: the index spans them, and
  without that a second account of the name could be inserted. `OnlyAdminsUnblock` needs
  `AskerInv`: behind each call that can open an account stands somebody signed in. `ClosedHonestly` needs
  `TicketInv`: an approval that has inserted its account and not yet closed its request
  holds an account that it has inserted itself, and that no other approval and no request has.
- **`ISTCollector`.** `WholeCycles` says nothing of the frames that goroutines have yet to send,
  and depends on lines nobody has read. `FeedOK` asks of every frame on its way that it is whole, and
  `CollectorOK` of what a browser's tail has fetched and not yet published.
  `LinesOK` says that the log and the pipe alternate between BEGIN and END of one number, and that a
  parser inside a cycle has the END of that cycle at the head of the pipe. When the pipe is empty the next line
  comes from the monitor: `InStep` says that as long as the stream is up, the pipe ends as the log ends,
  and a parser that has read everything stands after the log's last line. Nothing is known of it when
  the stream is down, and nothing is needed, as `GoDown` and `FollowStarts` start a new parser.
- **`RequestSlot`.** What a screen shows is right because of what is under way, so the invariant
  `Latest` speaks of the requests: in a protected slot with a question, the owner in the store is
  that question, the rows are fresh (`Fresh`: pages of what is asked unless the slot is loading or has
  failed), at most one request is *due* (`Due`: its answer would be adopted, or is not to be
  ignored), and that one waits for exactly the next page (`Waits`). Every other request changes nothing when it settles
  (`NotDue`). A slot that compares ids and a slot that aborts satisfy this for different reasons,
  and `HabitAssumption` says which habits must go together for it: where a slot relies on aborts it
  must ignore aborted requests, a loop must stop with its question, a list that grows by a
  button must start from nothing. `ImplementsLatestAnswer` maps each step under the invariant to
  a step of `LatestAnswer` or to a stutter. The same `Latest` speaks of every slot while its last
  question overlaps with nothing (`Calm`), which gives `OverlapsAloneMislead`, and says of a loop that stopped that
  it met the end or the limit, or was stopped by a button where more is known to follow (`Ended`), which gives `ListsWholeOrMarked`. `LoopAssumption` is needed for `Kept`, what
  a protected slot keeps from one question to the next: a second screen that neither aborts nor
  compares could let an old loop go on, and so could the buttons of a sheet, which protected slots do not have. Spinners have an invariant of their own, `SpinInv`, because they
  must end also where late answers are adopted; `ClearAssumption` excludes the one combination of habits in
  which emptied controls leave a spinner that no request will stop.
- **`Sight`.** A view has no state, so the invariant of `RequestSlot` is enough. What is added is the step from
  the store to the markup: a part covered, marked or replaced by an error makes the screen `Busy` or in
  `Trouble` (`SignFacts`), rows that answer the question pass the comparison with the controls (`SightFacts`), and
  `SignAssumption` and `ExportAssumption` say what the views of the code have in common, `Silent`,
  `Lingering` and `Endless` ones excepted.
- **`Session`: who is signed in.** Neither property is inductive. `Forgotten` needs `Inside`: on a page of the
  layout somebody is signed in, so that what can write to localStorage signs its tab in as well, or
  was started in a tab that is. `NameKept` needs `OneUser`: until two users meet, all that is in memory, under way
  or stored belongs to one user (`AllOf`), the calls' tokens and refreshes included; `Login` is the only
  action that could bring in a second one, and it then sets `crossed`.
- **`Session`: pages, links and calls.** `PageInv` says that every tab shows a page of the route table to which the
  rights in its memory admit it, and that every call under way is one its page makes for the rights of its
  asker. The difficulty is that a page is a condition on *any* set of rights. `LandsFacts`,
  `LandsOnce`, `AdmittedIsShown` and `ShownIsAdmitted` reduce it to the table of needs: an address lands
  at a page of the table, landing there again stays there (so a reload moves nobody), and whoever is shown a
  page or a hub's tab has one of its needs. `LinksAreOffers` and `CallsAreOffers` do the same for the links
  and calls of the home page, whose conditions depend on each other. What remains is a comparison of
  finite tables, `LinkAssumption` and `CallAssumption`: the needs of a link, or those of the page it is on, are
  among those of its target, and in the same way for calls and gates. TLC decides both exactly; the run
  `portal` tries single permissions and the seeded roles, the theorems hold for every set. `PagesAreAdmitted` holds
  because each action that changes a tab's rights also routes it anew (`Rerouted`, `Loaded`).
- **`Session`: who waits.** `WaitersAreWoken` is inductive, and the proof is by what a step does to
  the refresh of each tab: one that leaves it there keeps its waiters, and one that ends it leaves no
  waiter behind. A refresh that succeeds sends them all again, one that fails gives up every one of them
  (`EndSession` with `WaitingIn`), and a page that is loaded anew takes its calls along. Where `EndSession` gives up
  only one call, or none (`Expires`, `Tick`), no refresh was under way, so by the invariant nobody waited.
  A user's logout and login touch neither.

Every invariant, action property and refinement that a passing run checks is a theorem. Only model-checked
are the liveness properties (`EventuallySearchable`; `EventuallyLive`, `EventuallyShown`, `EventuallyDown`;
`SpinnerEnds`; `CallsEnd`, `Converges`), whose fairness and ENABLED are out of this prover's reach, and the
properties that the code violates. Induction over data is out of reach too: where a proof needs what
a recursive definition computes, the model uses sets and bounded quantifiers instead.

## 5. What is not modelled

- The fields of a transaction, the camera lines, the values of an IST section: data that
  no property tells apart.
- `lastErr` texts and wording of status frames; rotation of the monitor's log.
- Branches that cannot be reached: the inner unchanged check of the legacy branch
  (`ej_indexer_service.go:168`), which the outer check precedes, and the parser's peek at
  the head of the file (`parser.go:166`), as a positive offset comes with a known type.
- In the collector, the start of a follow and its `setStatus(true)` are one step, and
  what is still in the pipe when a stream ends is read or lost.
- What users see of documents stored before their journal has a row: the properties speak
  of journals with a row.
- Of users and roles: permissions and their `Assigned` flag, lists of permissions, tokens and
  their expiry, profiles, avatars, the activity log (written after the fact and read by nothing).
- Of the frontend: how a row is laid out (columns, formats, sorting, filtering, selecting: the
  table keeps its selection by index when the rows are replaced), the fields of forms,
  the thunks that change something on the server, uploads with their batch lists, the
  live feeds (`live-switch-feed.tsx`), SAF monitoring with its silent polls and the `error` that its two calls share,
  the export loop of `terminal-recon-export.tsx`, and the embedded pages.
- Of the session: the browser's history and the buttons that go back in it, rotation of
  refresh tokens and clocks (a token may expire at any moment), the card page's
  memory of one permission (`card-activity-page.tsx:11`), and more than one browser. Tabs are reloaded but never
  closed.
- Everything else the inventory marks as not modelled: read-only queries and reports without
  state of their own, wiring, the server's side of switch commands and imports.

## 6. Plan

1. EJ indexer and its theorems: done.
2. SSH client and IST collector with their theorems: done.
3. `UserAdmin`: done for users, roles and requests, with theorems. To follow:
   permissions with their `Assigned` flag, which roles and users refer to.
4. Request slots, views, session and navigation of the frontend: done. To follow: the
   live pages (with 5), SAF monitoring, the recon export's loop, `CallsEnd` under a bound on
   expiries as a safety theorem.
5. `SwitchCollector` over `SSHClient`: the event feeds, with their ring of recent events,
   greeting and replay, and the page that removes repeated ids. Runs: every event is shown,
   none twice, in spite of reconnects; order of what is shown.
6. `VisaSettlement`: upload, partial bulk write, upload again; the counts of a batch
   against what is stored.
7. `EJIndex`, and `EJIndexer` of a single indexer implementing it: done.
8. Mastercard matching as a pure algorithm against a reference definition; the embed rate
   limiter; the migration runner.
