# Contribution Tracker in TLA+

Contribution Tracker is a Go service, with a PostgreSQL database and a browser
front end, that reports what the members of a team contributed to the team's
repositories on GitHub and GitLab. This directory models the parts of it whose
correctness depends on order, concurrency and failure, checks them with TLC,
and proves the central theorems with TLAPS. Paths below are relative to the
repository root; `application`, `presentation` and `persistence` stand for the
packages under `src/internal` (`persistence` is under `infrastructure`).

## 1. The system

| Component | State | Operations | Interacts with |
|---|---|---|---|
| Report service (`application/report_service.go`) | per request: team snapshot, roster, groups by (platform, token), `allActivities`, mutex, WaitGroup | `GenerateReport`, `fetchMemberReport`, worker goroutines | tables (reads), repository store (discovery upserts), fetchers, event channel |
| Report handler, SSE (`presentation/report_handler.go`, `sse.go`) | event channel of 16, the response | `StreamReport`, `WriteEvent` | service by channel, browser by SSE, request context |
| Admin handlers (`presentation/admin_handler.go`) | none of their own; tables users, accounts, teams, members, leaders | create and delete users and teams, add and remove members and leaders, derive the `TEAM_LEADER` role | repositories, one SQL statement or transaction at a time |
| Persistence (`persistence/pgx_*.go`) | the tables, with cascading foreign keys | finders, upserts, deletes; `Save` of a team and `Restore` are transactions | PostgreSQL, through a pool of 10 connections |
| Team handlers (`presentation/team_handler.go`) | repositories, team_repositories | list teams, add and remove a repository, reuse of tokens | repository store |
| Authentication (`application/auth_service.go`, `presentation/middleware.go`) | none; JWT with the roles, valid 24 h | login, validate, role checks, team-leader check | accounts, teams |
| Backup (`application/backup_service.go`, `persistence/pgx_backup_repo.go`) | the backup file | export (five reads), restore (one transaction) | all tables |
| Migrator and start-up (`persistence/migrator.go`, `cmd/api/main.go`, `src/migrations`) | schema_migrations | run the missing migrations at start | all replicas' start |
| Fetchers (`infrastructure/github`, `infrastructure/gitlab`) | none | fetch, search, discover, pagination | git servers |
| Front end (`presentation/frontend/app.js`) | selected team, current stream, tokens | generate a report, filter, administer | all routes |

The hard parts, and what makes each component correct:

* **Reports.** A goroutine per (platform, token) group appends to one slice;
  the service, the handler and the browser are coupled by a bounded channel and
  a context; any statement and any call may fail, and git servers may hang.
  Right means: a report holds exactly what was fetched for its member; the
  stream has one report per person, then one ending; callers see only whom they
  may; a hang-up releases everything; and reporting does not change
  configuration.
* **Administration.** Handlers run concurrently and without transactions around
  their checks, each check and each write being a statement of its own, and a
  client that hangs up cancels what is left of the handler. Right means: a team
  keeps a leader, leaders are members, the `TEAM_LEADER` role follows
  leadership, and what was deleted stays deleted.
* **Repositories of teams.** A request reads the links of a team, then their
  tokens, and writes two tables in two statements, behind a check of its own;
  discovery writes the same rows. Right means: only those who lead a team act
  for it; a token goes to repositories of its platform, and a team uses no
  token that it neither supplied nor had; "added" is true.
* **Backup.** The export reads table after table, the restore is one
  transaction at READ COMMITTED, and others write meanwhile. Right means: the
  tables are consistent at all times, a restore happens as a whole or not at
  all, and what is backed up and restored in peace is what there was.
* **Start-up.** Replicas of several releases migrate one database at the same
  time and exit on any error. Right means: each script takes effect once, nobody
  serves before the scripts of its release, and somebody does serve.
* **Everything else** is listed with its status in `PROJECT.json`.

## 2. Modules and plan

What is there:

| Module | What it is |
|---|---|
| `ReportStream` | one report request: service, workers, handler, browser |
| `ReportPromise` | what a stream promises; `ReportStream` implements it |
| `ReportStreamProofs` | proofs about `ReportStream` |
| `TeamAdmin` | the administration handlers and their SQL statements |
| `Leadership` | the leadership policy; `TeamAdmin` implements it serially |
| `TeamAdminProofs`, `TeamAdminSerialProofs` | proofs for any handlers, and for handlers one after the other |
| `ReportView` | the report page of the front end |
| `ReportViewProofs` | proofs about `ReportView` |
| `GitFetch` | what a worker asks of GitHub or GitLab, request by request |
| `GitFetchProofs` | proofs about `GitFetch` |
| `TeamRepositories` | adding and removing a team's repositories, behind the checks of the middleware |
| `RepositoryBook` | what is promised about repositories and tokens; `TeamRepositories` implements it |
| `TeamRepositoriesProofs` | proofs about `TeamRepositories` |
| `Backup`, `BackupProofs` | export and restore among other handlers' writes, and proofs about them |
| `Migrations`, `MigrationsProofs` | replicas that migrate and start to serve, and proofs about them |
| `MCReportStream`, `MCTeamAdmin`, `MCReportView`, `MCGitFetch`, `MCTeamRepositories`, `MCBackup`, `MCMigrations` | instances for TLC |

The order was chosen by what the system is for (reports), by what protects its
data (administration), by who sees both (the page), and by what the numbers are
made of (the fetchers); then the repositories and their tokens, the backup and
the start of the replicas, which write the same tables from elsewhere. What
is left, in this order:

1. A composition of `TeamAdmin` with login and `RequireRole`, for roles that
   change under a token; today no route takes `ADMIN` away.
2. The graceful shutdown, which cuts streams that are open after five seconds.

Every safety property that a run checks is also proved (section 12).

Runs stay few, one per question.

## 3. Reports: `ReportStream` and `ReportPromise`

| In the model | In the code |
|---|---|
| `pc`, `team`, `roster`, `todo`, `groups`, `member`, `left`, `group`, `found` | where `GenerateReport` and `fetchMemberReport` are, and their locals |
| `wpc`, `wleft`, `wjob`, `wlocal` | a worker goroutine per group: its next step, its repositories, the slice it appends to |
| `wg`, `mu`, `acc` | `WaitGroup`, `Mutex`, `allActivities` |
| `chan`, `closed`, `hpc`, `wire` | the event channel, the handler, what the browser has received |
| `client`, `ctx` | the browser, and the context its hang-up cancels |
| `teamRow`, `leaders`, `members`, `users`, `tracked`, `store` | the tables |
| `called`, `fetched` | history: the calls made, and those that succeeded |

The six reads that load the report are six steps, between which other requests
delete users, leaders and the team (rows that others insert meanwhile are left
out, as are removals of members only). Each may fail, and with `DbFaults` its rows
may break off, which no caller notices because none looks at `rows.Err()`.
`NextMember`, `NextGroup`, `Discover`, `UpsertDiscovered`, `Spawn` and `Wait`
are the loops; a worker makes a call, locks, appends and unlocks for each
repository and then for the search. `append` is two steps (`LockMu` takes the
slice, `AppendUnlock` stores the longer one), so that the mutex is what makes
it whole. An API call returns a batch or an error; a batch is named by member,
group and job, so that the properties can tell whose it is and where it came
from. `acc` is a set of batches: an append that is lost shows, the same batch
appended twice would not. What is in a batch belongs to `GitFetch`, which also shows
(`AllOrNothing`) that a call yields its batch or nothing.

`ReportPromise` is the stream as its reader sees it: settle whom the report is
about, deliver one report per person, then finish; or refuse. The refinement
mapping takes `roster` for the people promised, the people reported on the wire
for those delivered, and the last event on the wire for the phase
(`KeepsPromise`).

## 4. Administration: `TeamAdmin` and `Leadership`

Each handler is a process `p`; `pc[p]` is its next SQL statement. A statement
is atomic, a handler is not. `Write`, `Select`, `Fails` and `Refused` are the
four ways a statement is run: it changes the tables (and its answer may be
lost), it reads (and its rows may break off, `Cut`), it fails, or a constraint
refuses it. `OnError` is what the handler does next, which differs:
`CreateUser` deletes the user it has just inserted, `DeleteUser` *skips* its
last-leader check when a read fails, the role checks are given up silently.
`HangUp` cancels a context; every later statement of that handler fails. `Proc`
bounds the handlers that run at once, `MaxFaults` the statements that go wrong,
`User` and `Team` the ids that will ever be issued (an id is a UUID, so none is
issued twice).

A request that creates a user asks for some roles, `TEAM_LEADER` among them if
that box of the form is ticked (`frontend/index.html:233`), and for
`TEAM_MEMBER` if it names none (`admin_handler.go:105`), which is why no set in
`Offered` is empty. `granted` remembers them, and `led` who has ever led a
team: a user who was created with `TEAM_LEADER` holds it without a team until a
team was led and lost, and for ever if it is the only role, since a row without
roles is refused (`RoleRefused`). `RoleDerived` exempts these two and nobody
else (`Unearned`). The documents exempt neither; that the second keeps the role
after its last team is the finding `RoleRemoved`.

`seen[p]` holds what a handler remembers from its reads: the teams it has still
to look at, whether it found what it looked for, who the leaders were, the copy
of an account that it will save.

`Leadership` is the policy of `doc/ARCHITECTURE.md`: each decision, with its
condition, as one step. With one handler at a time each write of `TeamAdmin` is
such a step (`KeepsPolicy`). With two it is not: see section 13.

## 5. The report page: `ReportView`

JavaScript runs one continuation at a time, so a step of the model is the code
between two `await`s. A call `c` of `generateReport` waits for the response
(`pc[c] = "response"`), for the body of an error, or for the next piece of the
stream. `current` is `currentAbort`; `view` is the call whose status bar is in
the results area, with `cards`, `summaries` and the bar's class `status`.
Clearing the area takes the bar out of it: from then on `insertBefore` throws
for that call, and the event is skipped by the catch around it. `mounts` counts
calls of `mountApp` that wait for the teams; they may come back after a
sign-out or a later sign-in. What a stream carries is what `ReportPromise`
allows.

The page is that of team leaders, since they have the selector and the forms
for repositories. `teamData` is the list of teams, `selectedTeamIndex` the
position in it, `options` what the selector lists, `getTeam` the team that a
report is asked for. `mountApp` and `refreshTeams` (after `addRepo` and
`removeRepo`, of which `refreshes` wait) replace the list by an answer of the
server, any of `Lists`: users come and go, teams too, and `FindByMemberID`
sorts nothing. Only `mountApp` resets position and selector. `moved` remembers
that a refresh has brought another list since: until then what is shown is
about the team that the selector shows (`ViewSelected`); afterwards it may not
be (`ReportOfChoice`, section 13). A call that asks for no team, because the list
was empty, gets an ERROR (`Delivers`).

The text in the status bar is left out. It is looked up by its id, so that an
error body that arrives late is written into the *next* call's bar
(app.js:591); the class, which the model has, goes to the call's own.

## 6. The git servers: `GitFetch`

One worker goes through `Calls`: `FetchForUser` for each tracked repository,
then `SearchActivities`. A call is an `agenda` of HTTP requests. `Start` fills
it (`Agendas`: which requests there are depends on the platform and the
requested types; the order of GitHub's searches on a map), `Answered` takes one
answer in and puts `FollowUps` in front: the next page when the request is one
that `GetAll` makes, a request for the reviews of each pull request found.
`Fails` is any failed request and drops the `batch`; `Returns` appends it to
`allActivities` (`report`, which counts how often an item is in it).

The servers are external, modelled by the queries sent to them: `Selects` is
what a query's parameters select, `Keeps` what the fetcher retains of the
answer. Together they must amount to `Asked`; each platform splits the work
differently (GitLab is searched across all projects, and the fetcher filters by
repository; GitHub by pull request, and the fetcher filters the reviews by date
and author). Time has four classes, since these filters tell no more apart:
before the period, inside it, on its last day, after it. The last day is one of
its own because `until` is midnight: instants of that day come after it, its
date does not.

`listed` is the server's listing, newest first; a page is cut from it at the
time of the request, so that `Appears` shifts the pages not yet read, and
`Vanishes` closes the gap. What is not found by design is left out of
`NothingMissed` by name: a page that `Get` does not turn (`OnePage`), and
reviews on requests of another time (`Visible`). That `Item` is listed by one
order, whatever the endpoint, is a simplification: the filters make the
listings of different endpoints disjoint.

## 7. Repositories and tokens: `TeamRepositories` and `RepositoryBook`

| In the model | In the code |
|---|---|
| `req[p]` | the request that `p` serves: at the check of the middleware, or admitted, with its next statement, team, repository, token and the repositories it has read |
| `users`, `teams`, `leaders` | the tables that `Validate` and `RequireTeamLeaderOrAdmin` ask |
| `token`, `links` | `repositories.api_token` by repository, `team_repositories` |
| `ever`, `known`, `origin`, `led`, `alone` | history: repositories a team ever had, tokens it knows, for whom a token was put, whether the sender led the team at some moment of the request, whether nobody interfered |

`Request` is `Validate` (the account and the user are there; signature and
expiry are taken for granted), `Guard` is the middleware and the decoding of
the body. `AddRepository` is `ReadLinks`, `ReadTokens`, `Upsert`, `Link`,
`Added`; `RemoveRepository` is `Unlink`. An error at any statement returns
(`Fails`); `Upsert` and `Link` may also take effect and lose their answer. When
the *reads* for a reusable token fail the handler goes on and then refuses for
want of a token, which is the same for the tables. A repository is named by its
full name and platform, for that is the key of the upsert. Promotion, demotion,
deletion of users and teams, and discovery by a running report come in between,
each as its one statement.

`RepositoryBook` is the promise: a team *knows* the tokens it supplied and those
that stood at repositories it has or had, and a repository is stored with a
token that its team knows, of its platform. `KeepsBook` is the refinement, the
variables being the same. `known` is deliberately generous: a request that read
a link may use its token after the link was cut, and a token that was put at a
repository for one team is known to all that share the repository.

## 8. Backup and restore: `Backup`

A database `db` maps keys of rows to values; `Table`, `Owner`, `Parents` and
`Rivals` say in which table a key is, in whose entry of the file it is held,
what it refers to and what a unique index excludes beside it. `BackupAssumption`
binds these to the schema of `migrations/001` and `004`.

`Export` fills an `agenda` of statements, which `Read` takes in the order of the
code: users, the usernames of each, accounts, teams, for each team its leaders,
members and links, repositories, configuration. Each reads the tables as they
are at that moment, and its rows may break off unnoticed, since no finder looks
at `rows.Err()`. `Encode` puts tokens in base64, `Decode` takes them out.

`Restore` is a transaction: `gone` are the rows it has deleted, `mine` those it
has inserted, `Seen` what it sees under READ COMMITTED: its own changes and
everything others have committed. `Clear` deletes one table, with what
cascades; `Insert` a row, in the order of the code; `Refused` is a key that
will not have the row, `RestoreFails` any other error, and both roll back;
`Commit` makes `gone` and `mine` the database's.

`Others` are the statements of other handlers: a `Put` inserts or updates a row
(or the three rows of a new team), a `Delete` deletes one with its dependants.
They wait for rows that are `Locked`, which in a model of steps means that they
come after the transaction, and otherwise take effect at once, between two
statements of it. New users and teams have random ids, which no file holds.

`quiet`, `whole` and `fresh` are history: whether others interfered, the
database that a file is of when nobody did, and what others wrote while a
restore ran. `RoundTrip` is about quiet; `LeftoversAreNew` and
`RestoreAllOrNothing` are about all behaviours. They say no more than the code
does: "Restore overwrites all operational data" (doc/ARCHITECTURE.md:364) is not
true of rows that others insert into a table after it was cleared, which stay.

## 9. Start-up: `Migrations`

A replica goes from `down` through `create` and `creating` (`CREATE TABLE IF NOT
EXISTS` looks, then creates, and fails if another session was faster), then for
each script of its image `check`, and if it is not recorded `exec`, `record`,
`commit`, to `serving`. `image[r]` is how many scripts its release has; a
restart may bring another release. An open transaction has `pending` rows, and
a second one that executes the same script waits for it, since scripts lock the
same table or insert the same keys; afterwards `Record` finds the file name taken and the
replica exits. `Fails` is any statement that fails and any kill, at any point,
and `CommitUnanswered` a commit that took effect while its answer was lost.

Of the scripts only what can make them fail is kept: the demo rows, what these
refer to, and whether the script says ON CONFLICT DO NOTHING (002 does, 004 does
not). Serving replicas of the old release delete demo rows (`Remove`), which
matters because `004` makes `u-carol` leader of `t-eng`
(`migrations/004_add_team_leaders.sql:7`). If either was deleted before, 004
violates its foreign key on every start and no replica of the new release comes
up. `Unspoilt` says that this has not happened; it is a hypothesis of both
liveness properties, and without it TLC shows the replicas that never serve.

## 10. Runs

| Run | Instance | States | What it shows |
|---|---|---|---|
| `report_load` | 2 users, 2 repositories on two platforms of which one has no factory, one of them tracked, the other or the same one found by discovery, channel of 2, `DbFaults` | 4.1 M | whoever asks, whatever the tables hold and whatever fails or is deleted meanwhile: the promised stream, about people the caller may see |
| `report_workers` | 2 users, 2 repositories in 2 groups on one host, channel of 1, tables that stay | 0.7 M | every interleaving of two workers, their failures, the handler and a hang-up: reports are exact, streams end, a hang-up releases everything |
| `report_tokens` | as above, with discovery of a repository that is tracked | violation | discovery erases a token |
| `admin_serial` | 1 handler, 2 users created with or without `TEAM_LEADER`, 2 teams, hang-ups, no other fault | 3.4 M | every write is allowed by the policy; the role follows leadership, but for accounts created with it that have led nothing yet or have no other role |
| `admin_lastrole` | 1 handler, 2 users created with no role but `TEAM_LEADER`, 1 team | violation | the last role cannot be taken away |
| `admin_concurrent` | 2 handlers, 2 users, 1 team, 1 fault | 3.0 M | stale writes bring nothing back and touch no other role |
| `admin_leaderless` | 2 handlers, 2 users, 1 team | violation | a team without leader |
| `view` | 2 calls, 1 person, 2 teams in three lists (both, one, none), 2 mounts, 1 refresh | 1.0 M | calls that overtake each other leave one whole report, until the list changes of the team that the selector shows |
| `fetch` | 3 items, 3 repositories of which 2 tracked, pages of 1, 1 change on the server | 1.2 M | whatever fails or changes, nothing foreign, nothing of a failed call, nothing missed |
| `repositories` | 2 requests at a time and 3 in all, 2 users of whom 1 administrator, 2 teams, 3 repositories and 3 tokens on 2 platforms, 1 statement of others | 1.8 M | tokens go and come only where the team may take them |
| `backup` | 10 rows over all 9 tables, 3 databases to begin with, 3 statements of others or answers cut short | 0.9 M | whatever comes in between: consistent, all or nothing; in peace: the identity |
| `migrations` | 3 replicas, releases of 3 and 4 scripts, 3 demo rows, 2 faults | 0.6 M | once, not early, and not nobody |

Why the bounds are enough for what is asked: two users give a member before and
a member after the one at work, so that a straggling worker, a break out of the
loop or a report for the wrong person show. Two groups are two concurrent
writers of one slice; two repositories give a worker a loop. A channel of 1
blocks the service at every report, one of 2 lets it run ahead, as 16 does. Two
handlers are enough for a check and a write to be separated by another
handler's; every race of section 13 needs two. Two calls of `generateReport`
give an old one that still waits while a new one runs; a third only repeats
this (it exceeds the time of a run). Two mounts and a refresh may answer in any
order, with a list that is longer or shorter than the one before, or empty.
Three items make three pages of one, with a change before, between or after them; each item is right or wrong in exactly
one respect (`AlmostRight`), so that every filter decides alone; a third,
untracked repository is there to be filtered out. The bounds themselves are
`ChanCap`, `MaxFaults`, `Proc`, `MaxMounts`, `MaxRefreshes`, `MaxChanges`, `PageSize` and the
sizes of the sets; the proofs hold for every value of them.

Two requests about repositories give one that reads a token while the other
replaces it, and three in all give it something to read first. Two platforms
give a token that must not be reused. The rows of `backup` have one of each
table and two users of one name; three statements of others come at any three
places of an export and the restore after it. Three replicas give one that
applies a script, one that waits for it and one of the release before; two
faults are a kill and a lost answer. `MaxRequests`, `MaxOthers`, `MaxUpsets`
and `MaxFaults` are bounds of the models; reaching them stops `TeamRepositories`,
and in `migrations` all replicas may serve with nothing left to remove, so that
these two runs do not ask for deadlock.

Symmetry is used in `admin_concurrent`, for handlers and users, and in
`repositories`, for requests, teams and what is alike on one platform; no
property of theirs tells these apart, and none is about liveness.

## 11. Fairness

`Scheduling` (module `ReportStream`): the Go scheduler runs every goroutine
that can run; the database answers or fails; `net/http` notices a closed
connection; a call whose context is cancelled returns. It does *not* say that a
git server answers: both HTTP clients are built without a timeout. That git
servers answer is a separate assumption, `GitServersAnswer`, under which
`StreamEnds` is stated; `HangUpReleasesAll` does without. Weak fairness is
enough: what disables a step, another worker that holds the mutex for instance,
happens finitely often in one request. Nothing obliges the browser or an
administrator to act.

`EventLoop` (module `ReportView`): the browser resumes a call that was aborted.
`ServerEnds`, a hypothesis of `ViewSettles` only, is `StreamEnds` seen from the
page. `TeamAdmin` states no liveness: a handler is a finite sequence of
statements, and so are the requests of `TeamRepositories` and `Backup`.
`GitFetch` states none either: that calls return is `GitServersAnswer`.

`Fairness` (module `Migrations`): a replica that has begun goes on, for every
statement of the migrator is answered or fails, and waiting for another's
transaction ends with it. Nothing starts a replica: podman-compose is given no
restart policy, so that a replica that loses a race stays down. Therefore
`SomeServe` promises one server only, and `AllServe` takes it as a hypothesis
that replicas that exit are started again.

## 12. Proofs

All theorems hold for every value of the constants that satisfies the named
assumption of the module (`ReportAssumption`, `AdminAssumption`,
`ViewAssumption`, `FetchAssumption`, `RepositoriesAssumption`,
`BackupAssumption`, `MigrationsAssumption`).

* `ReportStreamProofs`. `TypeCorrect`; `ReportsAreExact` and
  `WaitLeavesNobody`, from `ExactCorrect`. Exactness is not inductive: that a
  report holds what was fetched depends on where every worker is. `LoopInv`
  ties the loops to the workers and the WaitGroup to the number that run;
  `CallsInv` says that the calls made for the current member are those of the
  started workers, less what they have still to do; `AppendInv` that
  `allActivities` holds what was fetched, less what is in a worker's hands, and
  that whoever holds the mutex has the current slice; `EventsInv` that reports
  are about members the loop has left. When the WaitGroup is zero, `CallsInv`
  and `AppendInv` collapse to the claim.
  `StreamKeepsShape`, from `StreamInv`: the argument is about `Pipe`, what the
  browser has received followed by what is in the channel, which is a stream of
  the right shape at every moment (`PipeInv`), whether the handler forwards its
  head or drops it for a browser that is gone; and of the roster, those the loop
  is done with have been reported (`RosterInv`). `StreamKeepsPromise` is the
  refinement of `ReportPromise`: the read of the users, a forward to a browser
  that is there and a hang-up are its steps, all others stutter. `OthersStayPrivate` by `OwnInv` (a
  caller whom no read finds among the leaders is the whole roster) and
  `CompleteIsComplete` by `CoverInv` (members who stay are among those read,
  then on the roster). The latter has the hypothesis `~DbFaults`, for with it
  the property is false: see section 13.
* `TeamAdminProofs`, for any number of handlers, faults and hang-ups.
  `TypeCorrect`, which includes the foreign keys; `DeletedUsersStayDeleted` by
  `FreshInv` (an id about to be inserted was never in the table);
  `OnlyLeaderRoleMoves` by `CopyInv` (a stale copy differs in `TEAM_LEADER` at
  most); `AccountsComeAndGoWithUsers` by `HalfInv` and `CalmInv` (a user
  without an account is in the hands of a handler that will finish).
* `TeamAdminSerialProofs`, under `Alone` (one handler at a time) and, where it
  is stated, `NoFaults`. `LeadersStayMembers` by `MemberInv` and `TeamsStayLed`
  by `LedInv`: what was checked still holds at the write. `PolicyKept`:
  `TeamAdmin` implements `Leadership`, step by step, with `FoundInv` besides.
  `LeaderRoleIsDerived` needs `Alone` only, since it speaks of undisturbed runs.
  `RoleInv` says whose role is not yet right: the users a handler *owes* a check
  (`Owed`: former leaders to come, and the one in hand). Everybody else is
  settled; those who are owed one hold the role if they lead, except the one it
  is being granted to (`OwedInv`); and what the check has found, or is about to
  save, agrees with the leaders (`CheckInv`). It leans on `FreshInv` (who is
  being created leads nothing and never has), `FoundInv` (a new team has no leaders to lose),
  `CopyInv` and `CalmInv` (what fails, fails for a reason that disturbs).
  `RoleIsLeadership` is the case in which no request asks for the role.
  The hypotheses are needed: without either the runs and the notes below show
  violations.
* `ReportViewProofs`. `AreaIsWhole`, `AreaIsOfSelection`, `OneStream`,
  `SigningOutEndsStreams` and `TypeCorrect`, from `ViewInv`: `UnusedInv` (a
  call not yet made shows nothing), `OpenInv` (no summary before the last
  event), `OutInv` (signing out leaves nothing) and `ListInv` (while no refresh
  has brought another list, the selector, if there is one, lists the teams of
  `teamData`) make the properties inductive. `AreaIsOfSelection`
  is `ViewSelected`, with its condition that no refresh has brought another list;
  without the condition TLC refutes it (section 13).
* `GitFetchProofs`. `NothingForeign` and `FailuresLeaveNothing`, from
  `FetchInv`: every request on the agenda is due to the running call (`AllDue`:
  its type was asked for, and unless the answer will be filtered its repository
  is tracked), what is in the batch was asked for and belongs to that call
  (`BatchInv`), and what is reported comes from calls that started, have ended
  and did not fail (`ReportInv`). `KeptIsAsked` does the work: selected by the
  server and kept by the fetcher means asked for. The rest counts positions in
  the listing. `PagesInv`: nothing is listed twice, and no page asked for lies
  beyond the last there can be; with it `FetchTypes`. An item is `Ahead` of a
  request if it is on its page or one that follows. `EachCountedOnce`, from
  `OnceInv`: at most one request on the agenda `Claims` an item that is not in
  the batch, and none one that is, which rests on the searches and listings of
  an agenda being disjoint, and on an answer handing what it does not bring to
  its follow-ups. `NothingIsMissed`, from `FoundInv`: what is sought is in the
  batch, or some request on the agenda `Awaits` it, or its call has ended and
  reported it; an item that appears only pushes others to pages still to come.
* `TeamRepositoriesProofs`. From `RepInv`: the repositories a team has it ever
  had, and their tokens it knows (`RowsInv`); a request in flight carries a
  token that its team knows, of the platform of its repository, was led at some
  moment, and, unless somebody interfered, the row and the link are what it
  wrote (`Handled`). `TypeCorrect`, `OnlyEntitledWrite`, `AddedIsTrue`,
  `TokensStayOnPlatform` and `TokensKeptByHandlers` follow; `BookKept` is the
  refinement, for any number of requests.
* `BackupProofs`. From `BackupInv`. What the transaction sees is consistent
  (`SeenConsistent`), because others wait for its rows, which makes the commit
  consistent; a table that was cleared holds only what came since (`Swept`);
  while nobody else writes, what is in the file is right and what is not is
  still to be read (`Copying`, with `Due`), so that a quiet export is complete;
  and a quiet restore of it is refused by no key (`NeverRefused`), because each
  row comes after those it refers to.
* `MigrationsProofs`. From `MigrationsInv`: a replica has left out nothing
  before the script it has come to (`Position`); of two transactions on one
  script one has ended (`OneTx`), so that none commits what is recorded; rows,
  those that were removed too, belong to recorded scripts (`Origin`).

`LeadersStayMembers`, `WaitLeavesNobody`, `TokensStayOnPlatform` and
`TokensKeptByHandlers` are proved and not asked of a run, because what their
runs check (`KeepsPolicy`, `ReportExact`, `KeepsBook`) says as much of the
instance.

Only model-checked is all liveness: `StreamEnds`, `HangUpReleasesAll`,
`ViewSettles`, `SomeServe` and `AllServe` need fairness and ENABLED, which are
beyond the prover.

## 13. Findings

Where the code and its documents disagree, each shown by a run:

* `TokensKept` (`report_tokens`): discovery upserts repositories with an empty
  token over the one a leader configured
  (`persistence/pgx_repository_store.go:70`).
* `TeamsLed` (`admin_leaderless`): checks of the last leader and the deletes
  they guard are separate statements; two requests empty a team.
* `RoleRemoved` (`admin_lastrole`): an account without another role keeps
  `TEAM_LEADER` after its last team, for the empty role set is sent as NULL and
  the error dropped (`persistence/pgx_user_account_repo.go:97`).

TLC shows more, in instances that are no runs of their own, by adding the named
definition to a configuration, for the first two with an Init that has rows:

* `LeadersAreMembers` of `TeamAdmin`, with two handlers, the users and the team
  there from the start: the checks of `AddLeader`
  (`presentation/admin_handler.go:304`) and `RemoveMember`
  (`persistence/pgx_team_repo.go:169`) and their writes are separate statements
  as well; two requests leave a leader who is no member, where
  doc/design_domain.puml:113 says "Team leaders are members who hold the
  TEAM_LEADER role."
* `RoleDerived`, with two handlers and two teams, likewise: `DeleteTeam` takes
  `TEAM_LEADER` from the leaders it has read
  (`presentation/admin_handler.go:227`, 239); one that `AddLeader` inserts
  since is granted the role after the team is gone, and keeps it, against
  doc/ARCHITECTURE.md:107.
* `ReportOfChoice` of `ReportView`, with lists in any order: `refreshTeams`
  replaces `teamData` and leaves `selectedTeamIndex` and the selector as they
  are (`presentation/frontend/app.js:350`). The answer has the teams of the
  user of the moment in no particular order (`persistence/pgx_team_repo.go:35`
  has no ORDER BY), so that the next report may be of another team than the one
  selected; a repository is added to or removed from the team at that position
  too. README.md:11 says "leaders select which team to view when generating
  reports", doc/ARCHITECTURE.md:114 "allowing them to choose which team to
  view".
* `LastDayCounts` of `GitFetch`, with `MaxChanges = 0`: the end of a period is
  taken for midnight of its last day (`presentation/report_handler.go:38`), so
  that "Last 7 days" (`frontend/index.html:127`) counts commits of six.
* `CompleteCoversTeam` of `ReportStream`, with `DbFaults`: no reader looks at
  `rows.Err()`, so a result set that breaks off passes for a complete one, and
  COMPLETE comes without a member. A backup drops rows in the same way.
* `TeamsLed` with one handler and a fault: a read of `DeleteUser` fails, and the
  error is ignored (`presentation/admin_handler.go:163`).
* `CountedOnce` without its `changes = 0`: an item that appears while pages are
  read makes another come twice.
* `SomeServe` without `Unspoilt`: a new release that never starts (section 9).
* `LeftoversAreNew` without `fresh`: rows that survive a restore (section 8).

Documents that the code contradicts, with nothing to check: "API tokens in the
backup are stored in plaintext" (doc/ARCHITECTURE.md:375) while they are encoded
in base64 (README.md:14, `persistence/pgx_backup_repo.go:54`); and the demo's
**devops** team (README.md:71), which no script creates.

## 14. Not modelled

`PROJECT.json` lists every component with its status and, under `hazards`, what
may go wrong where; those that no property covers have a note that says why.
Two more are not in that list, for they have no state in any module: an error
body that arrives late and is written into the next report's status text
(app.js:591), and the shutdown that cuts open streams
(`cmd/api/main.go:114`). Login and `RequireRole` read once and change nothing.
A backup file edited by hand is not modelled: what `Restore` does with it is
what it does with any file, but `Backup` puts only exported ones in. Two
administrators who restore at once are not either. Passwords, hashing
and signing, HTTP routing, formats of dates and events, configuration and
logging are left out: they keep no state that the properties could be about.
Rendering is not state. The metrics of a report (`computeScore`) are a sum of
products, which tests reach.
