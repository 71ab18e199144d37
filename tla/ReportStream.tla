---------------------------- MODULE ReportStream ----------------------------
(***************************************************************************)
(* One request to POST /api/reports/stream.                                *)
(*                                                                         *)
(* Four kinds of process take steps: the goroutine that runs               *)
(* ReportService.GenerateReport, the worker goroutines fetchMemberReport   *)
(* starts (one per (platform, token) group of repositories), the HTTP      *)
(* handler that drains the event channel onto the SSE stream, and the      *)
(* world outside: the browser, which may hang up, and the other requests   *)
(* that delete users, leaders and the team while the report is loaded.      *)
(*                                                                         *)
(* Data is abstract: the activities one API call returns are one batch,    *)
(* named by the member, the group and the repository it was made for.      *)
(***************************************************************************)
EXTENDS Integers, Sequences, FiniteSets

CONSTANTS
    User,        \* ids of the users table
    Repo,        \* ids of the repositories table
    Platform,    \* git platforms a repository may name
    Registered,  \* the platforms main.go registers a factory for
    PlatformOf,  \* the platform of each repository
    Owned,       \* the repositories discovery may list for a member
    Token,       \* API tokens
    NoToken,     \* the empty token
    None,        \* the empty memberId of a query; the user of a closing event
    ChanCap,     \* capacity of the event channel (16 in the code)
    DbFaults     \* TRUE when a result set may break off while it is read

(* The key of GenerateReport's groupMap.                                   *)
Group == Platform \X Token

(* The job of a worker that is not about one repository.                   *)
Search == "search"

ASSUME ReportAssumption ==
    /\ Registered \subseteq Platform
    /\ PlatformOf \in [Repo -> Platform]
    /\ Owned \subseteq Repo
    /\ NoToken \notin Token
    /\ Search \notin Repo
    /\ None \notin User /\ None \notin Group
    /\ ChanCap \in Nat \ {0}
    /\ DbFaults \in BOOLEAN

(* What a worker is asked to do: one call per repository of its group,     *)
(* then one search across all of them.                                     *)
Job    == Repo \cup {Search}
Batch  == User \X Group \X Job

Event == [kind : {"USER_REPORT", "COMPLETE", "ERROR"},
          user : User \cup {None},
          activities : SUBSET Batch]

UserReport(u, acts) == [kind |-> "USER_REPORT", user |-> u, activities |-> acts]
Complete == [kind |-> "COMPLETE", user |-> None, activities |-> {}]
Error    == [kind |-> "ERROR", user |-> None, activities |-> {}]

VARIABLES
    query,                            \* caller, role, requested member
    teamRow, leaders, members, users, \* the tables the report reads
    tracked, store,                   \* team_repositories; token per repository
    client, ctx,                      \* the browser; the request context
    pc, team, roster, todo,           \* GenerateReport
    groups, member, left, group,      \*   and its loops
    found,                            \* repositories discovery returned
    wg, mu, acc,                      \* WaitGroup, Mutex, allActivities
    wpc, wleft, wjob, wlocal,         \* the workers
    called, fetched,                  \* history: calls made, calls that succeeded
    chan, closed,                     \* the event channel
    hpc, wire                         \* the handler; what the browser received

database == <<teamRow, leaders, members, users, tracked>>
service  == <<team, roster, todo, groups, member, left, group, found>>
workers  == <<wg, mu, acc, wpc, wleft, wjob, wlocal, called, fetched>>
stream   == <<chan, closed, hpc, wire>>
vars == <<query, database, store, client, ctx, pc, service, workers, stream>>

(* The reads of GenerateReport, one SQL statement each, in their order.    *)
Reading == {"teamRow", "leaders", "members", "repoIds", "users", "repos"}
PerMember == {"nextGroup", "discover", "upsert", "wait", "send"}

Init ==
    /\ users \in SUBSET User
    /\ members \in SUBSET users
    /\ leaders \in SUBSET members
    /\ tracked \in SUBSET Repo
    /\ store \in [Repo -> Token \cup {NoToken}]
    /\ query \in [caller : users, admin : BOOLEAN, member : User \cup {None}]
    /\ teamRow \in BOOLEAN
    /\ ~teamRow => members = {} /\ tracked = {}
    /\ client = "connected"
    /\ ctx = "live"
    /\ pc = "teamRow"
    /\ team = [leaders |-> {}, members |-> {}, repos |-> {}]
    /\ roster = {}
    /\ todo = {}
    /\ groups = [g \in Group |-> {}]
    /\ member = None
    /\ left = {}
    /\ group = None
    /\ found = {}
    /\ wg = 0
    /\ mu = None
    /\ acc = {}
    /\ wpc = [g \in Group |-> "idle"]
    /\ wleft = [g \in Group |-> {}]
    /\ wjob = [g \in Group |-> Search]
    /\ wlocal = [g \in Group |-> {}]
    /\ called = {}
    /\ fetched = {}
    /\ chan = <<>>
    /\ closed = FALSE
    /\ hpc = "recv"
    /\ wire = <<>>

-----------------------------------------------------------------------------
(* GenerateReport: loading.  A statement on a cancelled context fails; on  *)
(* a live one it returns its rows, and because no caller looks at          *)
(* rows.Err() a result set that breaks off passes for a shorter one.       *)

Rows(S) == IF DbFaults THEN SUBSET S ELSE {S}

Statement(at, next) ==
    /\ pc = at
    /\ ctx = "live"
    /\ pc' = next
    /\ UNCHANGED <<query, database, store, client, ctx, workers, stream>>

ReadTeamRow ==
    /\ Statement("teamRow", IF teamRow THEN "leaders" ELSE "fail")
    /\ UNCHANGED service

ReadLeaders ==
    /\ Statement("leaders", "members")
    /\ \E S \in Rows(leaders) : team' = [team EXCEPT !.leaders = S]
    /\ UNCHANGED <<roster, todo, groups, member, left, group, found>>

ReadMembers ==
    /\ Statement("members", "repoIds")
    /\ \E S \in Rows(members) : team' = [team EXCEPT !.members = S]
    /\ UNCHANGED <<roster, todo, groups, member, left, group, found>>

ReadRepoIDs ==
    /\ Statement("repoIds", "users")
    /\ \E S \in Rows(tracked) : team' = [team EXCEPT !.repos = S]
    /\ UNCHANGED <<roster, todo, groups, member, left, group, found>>

(* Whom the report is about: isOnlyMember, the MemberID filter, the team.  *)
OnlyMember == ~query.admin /\ query.caller \notin team.leaders

(* Mutant of Scope: the memberId filter is looked at before the role.      *)
ScopeFilterFirst == IF query.member # None THEN {query.member}
                    ELSE IF OnlyMember THEN {query.caller} ELSE team.members

Scope == IF OnlyMember THEN {query.caller}
         ELSE IF query.member # None THEN {query.member}
         ELSE team.members

(* users.FindByIDs: an id without a row is silently absent.                *)
ReadUsers ==
    /\ Statement("users", "repos")
    /\ \E S \in Rows(Scope \cap users) : roster' = S /\ todo' = S
    /\ UNCHANGED <<team, groups, member, left, group, found>>

(* repos.FindByIDs and the grouping by (platform, token), which drops the  *)
(* repositories that carry no token.                                       *)
ReadRepos ==
    /\ Statement("repos", "nextMember")
    /\ \E S \in Rows(team.repos \cap tracked) :
          groups' = [g \in Group |-> {r \in S : <<PlatformOf[r], store[r]>> = g}]
    /\ UNCHANGED <<team, roster, todo, member, left, group, found>>

(* A read that returns an error ends the report.                           *)
ReadFails ==
    /\ pc \in Reading
    /\ pc' = "fail"
    /\ UNCHANGED <<query, database, store, client, ctx, service, workers, stream>>

-----------------------------------------------------------------------------
(* GenerateReport: one member after the other, in the order of the rows.   *)

(* Mutant of NextMember: the loop ends after the first member.             *)
NextMemberBreaks ==
    /\ pc = "nextMember"
    /\ \E m \in todo : member' = m /\ todo' = {}
    /\ left' = {g \in Group : groups[g] # {}}
    /\ wg' = 0 /\ mu' = None /\ acc' = {}
    /\ pc' = "nextGroup"
    /\ UNCHANGED <<query, database, store, client, ctx, team, roster, groups, group,
                   found, wpc, wleft, wjob, wlocal, called, fetched, stream>>

(* fetchMemberReport starts: fresh allActivities, mutex and WaitGroup.     *)
NextMember ==
    /\ pc = "nextMember"
    /\ \E m \in todo : member' = m /\ todo' = todo \ {m}
    /\ left' = {g \in Group : groups[g] # {}}
    /\ wg' = 0 /\ mu' = None /\ acc' = {}
    /\ pc' = "nextGroup"
    /\ UNCHANGED <<query, database, store, client, ctx, team, roster, groups, group,
                   found, wpc, wleft, wjob, wlocal, called, fetched, stream>>

(* The groups come in the arbitrary order of a map iteration; one whose    *)
(* platform has no factory is skipped.                                     *)
NextGroup ==
    /\ pc = "nextGroup"
    /\ \E g \in left :
          /\ left' = left \ {g}
          /\ group' = g
          /\ pc' = IF g[1] \in Registered THEN "discover" ELSE "nextGroup"
    /\ UNCHANGED <<query, database, store, client, ctx, team, roster, todo, groups,
                   member, found, workers, stream>>

(* DiscoverUserRepos: any repositories of the platform, none on an error.  *)
Discover ==
    /\ pc = "discover"
    /\ \E D \in SUBSET {r \in Owned : PlatformOf[r] = group[1]} :
          /\ ctx = "cancelled" => D = {}
          /\ found' = D
    /\ pc' = "upsert"
    /\ UNCHANGED <<query, database, store, client, ctx, team, roster, todo, groups,
                   member, left, group, workers, stream>>

(* Upsert overwrites the token of a known repository with the empty one a  *)
(* discovered repository carries; its error is ignored.                    *)
UpsertDiscovered ==
    /\ pc = "upsert"
    /\ \E r \in found :
          /\ found' = found \ {r}
          /\ \/ UNCHANGED store
             \/ ctx = "live" /\ store' = [store EXCEPT ![r] = NoToken]
    /\ UNCHANGED <<query, database, client, ctx, pc, team, roster, todo, groups,
                   member, left, group, workers, stream>>

(* wg.Add(1) in the loop, before the goroutine exists.                     *)
Spawn ==
    /\ pc = "upsert"
    /\ found = {}
    /\ wg' = wg + 1
    /\ wpc' = [wpc EXCEPT ![group] = "call"]
    /\ wleft' = [wleft EXCEPT ![group] = groups[group]]
    /\ pc' = "nextGroup"
    /\ UNCHANGED <<query, database, store, client, ctx, service, mu, acc, wjob,
                   wlocal, called, fetched, stream>>

AllSpawned ==
    /\ pc = "nextGroup"
    /\ left = {}
    /\ pc' = "wait"
    /\ UNCHANGED <<query, database, store, client, ctx, service, workers, stream>>

Wait ==
    /\ pc = "wait"
    /\ wg = 0
    /\ pc' = "send"
    /\ UNCHANGED <<query, database, store, client, ctx, service, workers, stream>>

(* Mutant of Send: the channel is taken to be unbounded.                   *)
SendUnbounded(e) ==
    /\ chan' = Append(chan, e)
    /\ UNCHANGED <<query, database, store, client, ctx, service, workers, closed,
                   hpc, wire>>

(* A send blocks while the channel is full.                                *)
Send(e) ==
    /\ Len(chan) < ChanCap
    /\ chan' = Append(chan, e)
    /\ UNCHANGED <<query, database, store, client, ctx, service, workers, closed,
                   hpc, wire>>

(* Mutant of SendComplete: COMPLETE without waiting for the last member.   *)
SendCompleteEarly == pc = "nextMember" /\ pc' = "close" /\ Send(Complete)

(* Mutant of SendError: the return after the event is missing.             *)
SendErrorNoReturn == pc = "fail" /\ pc' = "nextMember" /\ Send(Error)

SendReport   == pc = "send" /\ pc' = "nextMember" /\ Send(UserReport(member, acc))
SendComplete == pc = "nextMember" /\ todo = {} /\ pc' = "close" /\ Send(Complete)
SendError    == pc = "fail" /\ pc' = "close" /\ Send(Error)

(* The deferred close(out).                                                *)
Close ==
    /\ pc = "close"
    /\ closed' = TRUE
    /\ pc' = "done"
    /\ UNCHANGED <<query, database, store, client, ctx, service, workers, chan, hpc,
                   wire>>

-----------------------------------------------------------------------------
(* The worker goroutine of a group.                                        *)

NextJob(g) == IF wleft[g] # {} THEN wleft[g] ELSE {Search}
AfterJob(job) == IF job = Search THEN "exit" ELSE "call"

(* FetchForUser or SearchActivities returns.  An error is logged and the   *)
(* worker goes on; a cancelled context makes every call an error.          *)
CallReturns(g, ok) ==
    /\ wpc[g] = "call"
    /\ ok => ctx = "live"
    /\ \E job \in NextJob(g) :
          /\ wleft' = [wleft EXCEPT ![g] = @ \ {job}]
          /\ wjob' = [wjob EXCEPT ![g] = job]
          /\ wpc' = [wpc EXCEPT ![g] = IF ok THEN "lock" ELSE AfterJob(job)]
          /\ called' = called \cup {<<member, g, job>>}
          /\ fetched' = IF ok THEN fetched \cup {<<member, g, job>>} ELSE fetched
    /\ UNCHANGED <<query, database, store, client, ctx, pc, service, wg, mu, acc,
                   wlocal, stream>>

(* Mutant of LockMu: the append is not protected by the mutex.             *)
NoLock(g) ==
    /\ wpc[g] = "lock"
    /\ mu' = g
    /\ wlocal' = [wlocal EXCEPT ![g] = acc]
    /\ wpc' = [wpc EXCEPT ![g] = "append"]
    /\ UNCHANGED <<query, database, store, client, ctx, pc, service, wg, acc, wleft,
                   wjob, called, fetched, stream>>

(* append reads the slice header and writes it back: two steps, between    *)
(* which only the mutex keeps the other workers out.                       *)
LockMu(g) ==
    /\ wpc[g] = "lock"
    /\ mu = None
    /\ mu' = g
    /\ wlocal' = [wlocal EXCEPT ![g] = acc]
    /\ wpc' = [wpc EXCEPT ![g] = "append"]
    /\ UNCHANGED <<query, database, store, client, ctx, pc, service, wg, acc, wleft,
                   wjob, called, fetched, stream>>

AppendUnlock(g) ==
    /\ wpc[g] = "append"
    /\ acc' = wlocal[g] \cup {<<member, g, wjob[g]>>}
    /\ mu' = None
    /\ wpc' = [wpc EXCEPT ![g] = AfterJob(wjob[g])]
    /\ UNCHANGED <<query, database, store, client, ctx, pc, service, wg, wleft, wjob,
                   wlocal, called, fetched, stream>>

(* Mutant of WorkerExits: wg.Done() is skipped when the search failed.     *)
ExitsWithoutDone(g) ==
    /\ wpc[g] = "exit"
    /\ wg' = IF <<member, g, Search>> \in fetched THEN wg - 1 ELSE wg
    /\ wpc' = [wpc EXCEPT ![g] = "idle"]
    /\ UNCHANGED <<query, database, store, client, ctx, pc, service, mu, acc, wleft,
                   wjob, wlocal, called, fetched, stream>>

(* The deferred wg.Done().                                                 *)
WorkerExits(g) ==
    /\ wpc[g] = "exit"
    /\ wg' = wg - 1
    /\ wpc' = [wpc EXCEPT ![g] = "idle"]
    /\ UNCHANGED <<query, database, store, client, ctx, pc, service, mu, acc, wleft,
                   wjob, wlocal, called, fetched, stream>>

WorkerSteps(g) == LockMu(g) \/ AppendUnlock(g) \/ WorkerExits(g)

-----------------------------------------------------------------------------
(* The handler ranges over the channel.  A write to a browser that is gone *)
(* is lost, and its error ignored: the loop goes on draining.              *)

Forward ==
    /\ hpc = "recv"
    /\ chan # <<>>
    /\ chan' = Tail(chan)
    /\ wire' = IF client = "connected" THEN Append(wire, Head(chan)) ELSE wire
    /\ UNCHANGED <<query, database, store, client, ctx, pc, service, workers, closed,
                   hpc>>

EndOfEvents ==
    /\ hpc = "recv"
    /\ chan = <<>>
    /\ closed
    /\ hpc' = "done"
    /\ UNCHANGED <<query, database, store, client, ctx, pc, service, workers, chan,
                   closed, wire>>

-----------------------------------------------------------------------------
(* Outside.  The browser hangs up (AbortController, a closed tab) at any   *)
(* time; net/http then cancels the request context.                        *)

HangUp ==
    /\ client = "connected"
    /\ hpc # "done"
    /\ client' = "gone"
    /\ UNCHANGED <<query, database, store, ctx, pc, service, workers, stream>>

(* Mutant of CancelContext: the service is given context.Background().     *)
BackgroundContext ==
    /\ client = "gone"
    /\ ctx = "live"
    /\ UNCHANGED vars

CancelContext ==
    /\ client = "gone"
    /\ ctx = "live"
    /\ ctx' = "cancelled"
    /\ UNCHANGED <<query, database, store, client, pc, service, workers, stream>>

(* Other requests, while this one still reads the tables they delete from. *)
OtherRequest ==
    /\ pc \in Reading
    /\ UNCHANGED <<query, store, client, ctx, pc, service, workers, stream>>

(* DELETE /api/admin/users/{u}, with the foreign keys' cascade.            *)
UserDeleted(u) ==
    /\ OtherRequest
    /\ u \in users
    /\ users' = users \ {u}
    /\ members' = members \ {u}
    /\ leaders' = leaders \ {u}
    /\ UNCHANGED <<teamRow, tracked>>

(* DELETE /api/admin/teams/{t}/leaders/{u}.                                *)
LeaderRemoved(u) ==
    /\ OtherRequest
    /\ u \in leaders
    /\ leaders' = leaders \ {u}
    /\ UNCHANGED <<teamRow, members, users, tracked>>

(* DELETE /api/admin/teams/{t}, with the cascade.                          *)
TeamDeleted ==
    /\ OtherRequest
    /\ teamRow
    /\ teamRow' = FALSE
    /\ members' = {}
    /\ leaders' = {}
    /\ tracked' = {}
    /\ UNCHANGED users

-----------------------------------------------------------------------------
LoadStep == \/ ReadTeamRow \/ ReadLeaders \/ ReadMembers \/ ReadRepoIDs
            \/ ReadUsers \/ ReadRepos \/ ReadFails

LocalStep == \/ NextMember \/ NextGroup \/ UpsertDiscovered \/ Spawn \/ AllSpawned
             \/ Wait \/ SendReport \/ SendComplete \/ SendError \/ Close

Handler == Forward \/ EndOfEvents

Outside == \/ HangUp \/ CancelContext \/ TeamDeleted
           \/ \E u \in User : UserDeleted(u) \/ LeaderRemoved(u)

Finished == pc = "done" /\ hpc = "done"

(* The request is over; the process lives on.                              *)
Over == Finished /\ UNCHANGED vars

Next == \/ LoadStep \/ LocalStep \/ Discover
        \/ \E g \in Group : WorkerSteps(g) \/ \E ok \in BOOLEAN : CallReturns(g, ok)
        \/ Handler \/ Outside \/ Over

Spec == Init /\ [][Next]_vars

(***************************************************************************)
(* Fairness.  The Go scheduler runs every goroutine that can run, the      *)
(* database answers or fails, and net/http notices a closed connection.    *)
(* The http.Clients of both fetchers have no timeout: an API call is only  *)
(* sure to return once its context is cancelled.  Nothing makes the        *)
(* browser hang up or an administrator act.                                *)
(***************************************************************************)
Scheduling ==
    /\ WF_vars(LoadStep)
    /\ WF_vars(LocalStep)
    /\ WF_vars(ctx = "cancelled" /\ Discover)
    /\ \A g \in Group : /\ WF_vars(WorkerSteps(g))
                        /\ WF_vars(ctx = "cancelled" /\ CallReturns(g, FALSE))
    /\ WF_vars(Handler)
    /\ WF_vars(CancelContext)

(* The git servers answer every call, with activities or with an error.    *)
GitServersAnswer ==
    /\ WF_vars(Discover)
    /\ \A g \in Group : WF_vars(\E ok \in BOOLEAN : CallReturns(g, ok))

FairSpec == Spec /\ Scheduling

-----------------------------------------------------------------------------
(* Properties.                                                             *)

Reports(s) == {s[i] : i \in {j \in DOMAIN s : s[j].kind = "USER_REPORT"}}
Reported   == {e.user : e \in Reports(wire)}
EventsOut  == Reports(chan) \cup Reports(wire)
OnWire(kind) == \E i \in DOMAIN wire : wire[i].kind = kind

(* How the stream ended, as far as the browser can tell.                   *)
Outcome == IF OnWire("COMPLETE") THEN "complete"
           ELSE IF OnWire("ERROR") THEN "error" ELSE "open"

(* Every variable has the type its declaration in the Go code gives it,    *)
(* and the channel never holds more than its capacity.                     *)
TypeTables ==
    /\ query \in [caller : User, admin : BOOLEAN, member : User \cup {None}]
    /\ teamRow \in BOOLEAN
    /\ leaders \subseteq User /\ members \subseteq User /\ users \subseteq User
    /\ tracked \subseteq Repo
    /\ store \in [Repo -> Token \cup {NoToken}]
    /\ client \in {"connected", "gone"}
    /\ ctx \in {"live", "cancelled"}

TypeService ==
    /\ pc \in Reading \cup PerMember \cup {"nextMember", "fail", "close", "done"}
    /\ team \in [leaders : SUBSET User, members : SUBSET User, repos : SUBSET Repo]
    /\ roster \subseteq User /\ todo \subseteq User
    /\ groups \in [Group -> SUBSET Repo]
    /\ member \in User \cup {None} /\ (pc \in PerMember => member \in User)
    /\ left \subseteq Group
    /\ group \in Group \cup {None} /\ (pc \in {"discover", "upsert"} => group \in Group)
    /\ found \subseteq Repo

TypeWorkers ==
    /\ wg \in Int
    /\ mu \in Group \cup {None}
    /\ acc \subseteq Batch
    /\ wpc \in [Group -> {"idle", "call", "lock", "append", "exit"}]
    /\ wleft \in [Group -> SUBSET Repo]
    /\ wjob \in [Group -> Job]
    /\ wlocal \in [Group -> SUBSET Batch]
    /\ (\E g \in Group : wpc[g] # "idle") => member \in User
    /\ called \subseteq Batch
    /\ fetched \subseteq called

TypeStream ==
    /\ chan \in Seq(Event) /\ Len(chan) <= ChanCap
    /\ closed \in BOOLEAN
    /\ hpc \in {"recv", "done"}
    /\ wire \in Seq(Event)

TypeOK == TypeTables /\ TypeService /\ TypeWorkers /\ TypeStream

(* What the browser receives is the stream ADR-10 describes: no person is  *)
(* reported twice, nothing follows COMPLETE or ERROR, an ERROR comes alone *)
(* and a COMPLETE means that everybody on the roster was reported.         *)
StreamShape ==
    /\ \A i, j \in DOMAIN wire :
          i < j => /\ wire[i].kind = "USER_REPORT"
                   /\ wire[j].kind # "ERROR"
                   /\ wire[i].user # wire[j].user
    /\ \A i \in DOMAIN wire : wire[i].kind = "COMPLETE" => Reported = roster

(* The calls a report about u has to make: in every group with a factory,  *)
(* each repository of the group, and the search.                           *)
Work(u) == {b \in Batch : /\ b[1] = u
                          /\ b[2][1] \in Registered
                          /\ groups[b[2]] # {}
                          /\ b[3] \in groups[b[2]] \cup {Search}}

(* fetchMemberReport loses nothing and mixes nothing up: a report that was *)
(* sent had made all of its calls, and holds exactly the batches of those  *)
(* that succeeded, whatever the interleaving of its workers.               *)
ReportExact ==
    \A e \in EventsOut :
        /\ Work(e.user) = {b \in called : b[1] = e.user}
        /\ e.activities = {b \in fetched : b[1] = e.user}

(* wg.Wait() leaves no goroutine behind: outside fetchMemberReport no      *)
(* worker runs, so none can write into the next member's report.           *)
NoStragglers ==
    pc \notin PerMember \/ pc = "send" => \A g \in Group : wpc[g] = "idle"

(* A caller who is neither an administrator nor, when the request arrives, *)
(* a leader of the team never receives a report about anybody else.        *)
OwnReportOnly ==
    (~query.admin /\ query.caller \notin leaders) => [](Reported \subseteq {query.caller})

(* A report that completes covers the team: with no memberId, an           *)
(* administrator gets a report for every member who stays on the team.     *)
CompleteCoversTeam ==
    (query.admin /\ query.member = None /\ Outcome = "complete")
        => members \subseteq Reported

(* A configured token is configuration: making a report does not change it.*)
TokensKept == [][\A r \in Repo : store[r] # NoToken => store'[r] = store[r]]_vars

Promise == INSTANCE ReportPromise WITH
    promised <- roster, delivered <- Reported, phase <- Outcome

(* The stream implements ReportPromise, step by step.                      *)
KeepsPromise == Promise!Spec

(* When the git servers answer, the stream of a browser that stays ends    *)
(* with COMPLETE or ERROR.                                                 *)
StreamEnds == GitServersAnswer => <>(client = "gone" \/ Outcome # "open")

(* A hang-up releases everything, even when a git server never answers:    *)
(* the service, its workers and the handler all return.                    *)
HangUpReleasesAll ==
    client = "gone" ~> Finished /\ \A g \in Group : wpc[g] = "idle"

-----------------------------------------------------------------------------
(* The inductive invariant behind ReportExact and NoStragglers.            *)

Active == {g \in Group : wpc[g] # "idle"}

(* The groups whose worker has been started for the current member.        *)
Spawned(g) == /\ groups[g] # {}
              /\ g[1] \in Registered
              /\ g \notin left
              /\ pc \in {"discover", "upsert"} => g # group

(* The jobs a worker has still to do, and whether it holds a batch that it *)
(* has fetched and not yet appended.                                       *)
Holding(g) == wpc[g] \in {"lock", "append"}
Pending(g) == IF wpc[g] = "call" \/ (Holding(g) /\ wjob[g] # Search)
              THEN wleft[g] \cup {Search} ELSE {}

(* Where the loops are: workers run between Spawn and Wait only, the       *)
(* WaitGroup counts them, and nobody is fetched for or reported early.     *)
LoopInv ==
    /\ IsFiniteSet(Active) /\ wg = Cardinality(Active)
    /\ \A g \in Active : /\ pc \in PerMember \ {"send"}
                         /\ Spawned(g)
                         /\ wleft[g] \subseteq groups[g]
    /\ pc \in {"wait", "send"} => left = {}
    /\ pc \in {"discover", "upsert"} => group[1] \in Registered /\ groups[group] # {}
    /\ pc \in {"discover", "upsert"} => group \notin left
    /\ pc \in PerMember => member \notin todo /\ \A g \in left : groups[g] # {}
    /\ pc \in Reading => called = {} /\ EventsOut = {}
    /\ \A b \in called : b[1] \notin todo

(* The calls made for the current member are those of the started workers, *)
(* less the ones they have still to make.                                  *)
CallsInv ==
    pc \in PerMember =>
        \A g \in Group, job \in Job :
            <<member, g, job>> \in called
                <=> Spawned(g) /\ job \in (groups[g] \cup {Search}) \ Pending(g)

(* allActivities holds what was fetched for the current member, less the   *)
(* batches in the hands of a worker; an append works on the current slice. *)
AppendInv ==
    /\ pc \in PerMember =>
        /\ \A b \in acc : b[1] = member
        /\ \A g \in Group, job \in Job :
              <<member, g, job>> \in acc
                  <=> <<member, g, job>> \in fetched /\ ~(Holding(g) /\ job = wjob[g])
    /\ \A g \in Group :
        /\ Holding(g) => /\ <<member, g, wjob[g]>> \in fetched
                         /\ wjob[g] \notin wleft[g]
                         /\ wjob[g] = Search => wleft[g] = {}
        /\ wpc[g] = "append" => mu = g /\ wlocal[g] = acc

(* Reports are about people the loop is done with.                         *)
EventsInv ==
    \A e \in EventsOut : /\ e \in Event /\ e.user \in User
                         /\ e.user \notin todo
                         /\ pc \in PerMember => e.user # member

(* The four parts together are inductive, and imply both properties.       *)
ExactInv == LoopInv /\ CallsInv /\ AppendInv /\ EventsInv /\ ReportExact
=============================================================================
