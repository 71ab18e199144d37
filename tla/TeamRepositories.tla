-------------------------- MODULE TeamRepositories --------------------------
(***************************************************************************)
(* The repositories of the teams: the requests that add one to a team or   *)
(* remove one (team_handler.go), behind the token check and the check for  *)
(* a leader of the team (auth_service.go, middleware.go), on the tables    *)
(* repositories and team_repositories.                                     *)
(*                                                                         *)
(* A request is a process, a statement an atomic step.  While a request is *)
(* between two statements, others are served, leaders come and go, users   *)
(* and teams are deleted, and reports that are running upsert what they    *)
(* discover, without a token.                                              *)
(*                                                                         *)
(* Any statement may fail, with its effect or without: the database is     *)
(* away, rows break off, the browser has hung up.  Every failure ends the  *)
(* request with an error, so failures need no bound.                       *)
(*                                                                         *)
(* A repository is named by what makes its row unique, the full name and   *)
(* the platform; ids are left out, for Upsert returns the id of the row.   *)
(***************************************************************************)
EXTENDS Integers, FiniteSets

CONSTANTS
    User,       \* users who may send requests
    Admin,      \* those whose login token carries the role ADMIN
    Team,
    Repo,       \* repositories that requests and discovery may name
    Token,      \* API tokens that a request may carry
    Platform,   \* the platform of a repository, or of a token
    NoToken,    \* the empty token
    NoRow,      \* repository that has no row
    Proc,       \* requests that may be served at the same time
    None,       \* no request
    MaxRequests, \* bound: requests that are admitted
    MaxOthers   \* bound: other statements that change these tables

(* A request that has passed the check of its login token: its sender, the  *)
(* team in its path, and as history whether the sender led the team at some *)
(* moment of it.                                                            *)
Arrivals == [at : {"guard"}, user : User, team : Team, led : BOOLEAN]

Statements == {"readLinks", "readTokens", "upsert", "link", "unlink"}

(* An admitted one: its next statement, what it asks for, the repositories  *)
(* it has read; and as history led, and whether nobody interfered since it  *)
(* wrote the repository.                                                    *)
Requests == [at : Statements \cup {"added"}, team : Team, repo : Repo,
             token : Token \cup {NoToken}, seen : SUBSET Repo,
             led : BOOLEAN, alone : BOOLEAN]

ASSUME RepositoriesAssumption ==
    /\ Admin \subseteq User
    /\ NoToken \notin Token /\ NoRow \notin Token /\ NoToken # NoRow
    /\ None \notin Arrivals \cup Requests
    /\ MaxRequests \in Nat /\ MaxOthers \in Nat

VARIABLES
    users, teams, leaders,  \* users (with their accounts), teams, team_leaders
    token, links,           \* repositories, with api_token; team_repositories
    ever, known,            \* history: repositories a team ever had; tokens
                            \*   that came with them or with its requests
    origin,                 \* history: the team that a token was put for
    req,                    \* the requests that are being served
    admitted, others        \* requests admitted, other statements so far

tables  == <<users, teams, leaders, token, links>>
history == <<ever, known, origin>>
vars    == <<tables, history, req, admitted, others>>

(* RequireTeamLeaderOrAdmin: the role from the token, leaders from the table. *)
Entitled(u, t) == u \in Admin \/ u \in leaders[t]

Init ==
    /\ users = User
    /\ teams = Team
    /\ leaders \in [Team -> SUBSET User]
    /\ token = [r \in Repo |-> NoRow]
    /\ links = [t \in Team |-> {}]
    /\ ever = [t \in Team |-> {}]
    /\ known = [t \in Team |-> {}]
    /\ origin = [r \in Repo |-> None]
    /\ req = [p \in Proc |-> None]
    /\ admitted = 0
    /\ others = 0

-----------------------------------------------------------------------------
At(p, statement) == req[p] # None /\ req[p].at = statement

Goto(p, next) == req' = [req EXCEPT ![p].at = next]

(* The handler returns, mostly with an error.                              *)
Return(p) == req' = [req EXCEPT ![p] = None]

(* What the teams come to know when the tokens are tk and the repositories *)
(* they ever had are ev.                                                   *)
Learnt(tk, ev) == [t \in Team |-> known[t] \cup ({tk[r] : r \in ev[t]} \cap Token)]

(* Somebody else writes what the requests S rely on.                       *)
Interfered(S) == [q \in Proc |-> IF q \in S THEN [req[q] EXCEPT !.alone = FALSE] ELSE req[q]]

Busy         == {q \in Proc : req[q] # None /\ req[q].at # "guard"}
OnRow(r)     == {q \in Busy : req[q].repo = r}
OnTeam(t)    == {q \in Busy : req[q].team = t}
OnLink(t, r) == OnTeam(t) \cap OnRow(r)

(* A request arrives and its login token is validated: the account and its *)
(* user are there.                                                         *)
Request(p) ==
    /\ req[p] = None
    /\ \E u \in users, t \in Team :
          req' = [req EXCEPT ![p] = [at |-> "guard", user |-> u, team |-> t,
                                     led |-> Entitled(u, t)]]
    /\ UNCHANGED <<tables, history, admitted>>

(* Mutant of Admits: any leader passes, as under RequireRole(TEAM_LEADER).  *)
AdmitsLeaders(q) == q.user \in Admin \/ \E t \in Team : q.user \in leaders[t]

(* RequireTeamLeaderOrAdmin lets the request through.                      *)
Admits(q) == Entitled(q.user, q.team)

(* RequireTeamLeaderOrAdmin; a team without a row has no leaders either.   *)
(* The admitted request adds a repository, with a token of its platform or *)
(* without one, or removes one; any other changes nothing.                 *)
Guard(p) ==
    LET q == req[p]
        Asks(at, r, k) ==
            /\ req' = [req EXCEPT ![p] = [at |-> at, team |-> q.team, repo |-> r, token |-> k,
                                          seen |-> {}, led |-> q.led, alone |-> FALSE]]
            /\ known' = [known EXCEPT ![q.team] = @ \cup ({k} \cap Token)]
    IN
    /\ At(p, "guard")
    /\ \/ /\ Admits(q)
          /\ admitted < MaxRequests /\ admitted' = admitted + 1
          /\ \E r \in Repo :
                \/ \E k \in Token : Platform[k] = Platform[r] /\ Asks("upsert", r, k)
                \/ Asks("readLinks", r, NoToken)
                \/ Asks("unlink", r, NoToken)
       \/ /\ ~Admits(q)
          /\ Return(p)
          /\ UNCHANGED <<known, admitted>>
    /\ UNCHANGED <<tables, ever, origin>>

(* Mutant of ReadLinks: looks at all repositories, not the team's.         *)
ReadAllRows(p) ==
    /\ At(p, "readLinks")
    /\ req' = [req EXCEPT ![p].at = "readTokens", ![p].seen = Repo]
    /\ UNCHANGED <<tables, history, admitted>>

(* AddRepository without a token: the repositories of the team.            *)
ReadLinks(p) ==
    LET found == links[req[p].team] IN
    /\ At(p, "readLinks")
    /\ IF found = {} THEN Return(p)
       ELSE req' = [req EXCEPT ![p].at = "readTokens", ![p].seen = found]
    /\ UNCHANGED <<tables, history, admitted>>

(* Rows that the request has read whose token serves for its repository.   *)
Reusable(q) == {r \in q.seen : Platform[r] = Platform[q.repo] /\ token[r] \in Token}

(* The first of the rows, in no particular order, that has a token of the  *)
(* platform; without one the request is refused.                           *)
ReadTokens(p) ==
    /\ At(p, "readTokens")
    /\ \/ \E r \in Reusable(req[p]) :
             req' = [req EXCEPT ![p].at = "upsert", ![p].token = token[r], ![p].seen = {}]
       \/ Reusable(req[p]) = {} /\ Return(p)
    /\ UNCHANGED <<tables, history, admitted>>

(* Mutant of Upsert: ON CONFLICT DO NOTHING, which keeps the row there is.  *)
InsertOnly(p) ==
    LET q == req[p] IN
    /\ At(p, "upsert")
    /\ token' = [token EXCEPT ![q.repo] = IF @ = NoRow THEN q.token ELSE @]
    /\ known' = Learnt(token', ever)
    /\ origin' = [origin EXCEPT ![q.repo] = q.team]
    /\ \E next \in {None, [q EXCEPT !.at = "link", !.alone = TRUE]} :
          req' = [Interfered(OnRow(q.repo)) EXCEPT ![p] = next]
    /\ UNCHANGED <<users, teams, leaders, links, ever, admitted>>

(* Upsert: a new row, or the token of the row there is.  The answer may be *)
(* lost.                                                                   *)
Upsert(p) ==
    LET q == req[p] IN
    /\ At(p, "upsert")
    /\ token' = [token EXCEPT ![q.repo] = q.token]
    /\ known' = Learnt(token', ever)
    /\ origin' = [origin EXCEPT ![q.repo] = q.team]
    /\ \E next \in {None, [q EXCEPT !.at = "link", !.alone = TRUE]} :
          req' = [Interfered(OnRow(q.repo)) EXCEPT ![p] = next]
    /\ UNCHANGED <<users, teams, leaders, links, ever, admitted>>

(* The link, for which the foreign key wants the team to be there.         *)
Link(p) ==
    LET q == req[p] IN
    /\ At(p, "link")
    /\ \/ /\ q.team \in teams
          /\ links' = [links EXCEPT ![q.team] = @ \cup {q.repo}]
          /\ ever' = [ever EXCEPT ![q.team] = @ \cup {q.repo}]
          /\ known' = Learnt(token, ever')
          /\ Goto(p, "added") \/ Return(p)
       \/ /\ q.team \notin teams
          /\ Return(p)
          /\ UNCHANGED <<links, ever, known>>
    /\ UNCHANGED <<users, teams, leaders, token, origin, admitted>>

(* The handler answers that the repository was added.                      *)
Added(p) ==
    /\ At(p, "added")
    /\ Return(p)
    /\ UNCHANGED <<tables, history, admitted>>

(* RemoveRepository takes the link away; the row of the repository stays.  *)
Unlink(p) ==
    LET q == req[p] IN
    /\ At(p, "unlink")
    /\ links' = [links EXCEPT ![q.team] = @ \ {q.repo}]
    /\ req' = [Interfered(OnLink(q.team, q.repo)) EXCEPT ![p] = None]
    /\ UNCHANGED <<users, teams, leaders, token, history, admitted>>

(* A statement fails and changes nothing.                                  *)
Fails(p) ==
    /\ \E statement \in Statements \cup {"guard"} : At(p, statement)
    /\ Return(p)
    /\ UNCHANGED <<tables, history, admitted>>

Serve(p) ==
    \/ Request(p) \/ Guard(p)
    \/ ReadLinks(p) \/ ReadTokens(p) \/ Upsert(p) \/ Link(p) \/ Added(p)
    \/ Unlink(p)
    \/ Fails(p)

-----------------------------------------------------------------------------
(* What else the server does to these tables in the meantime, each of it   *)
(* one statement.                                                          *)

Promote(t, u) ==
    /\ t \in teams /\ u \in users
    /\ leaders' = [leaders EXCEPT ![t] = @ \cup {u}]
    /\ req' = [q \in Proc |-> IF At(q, "guard") /\ req[q].team = t /\ req[q].user = u
                              THEN [req[q] EXCEPT !.led = TRUE] ELSE req[q]]
    /\ UNCHANGED <<users, teams, token, links, origin>>

Demote(t, u) ==
    /\ leaders' = [leaders EXCEPT ![t] = @ \ {u}]
    /\ UNCHANGED <<users, teams, token, links, req, origin>>

DeleteUser(u) ==
    /\ users' = users \ {u}
    /\ leaders' = [t \in Team |-> leaders[t] \ {u}]
    /\ UNCHANGED <<teams, token, links, req, origin>>

(* Mutant of DeleteTeam: team_repositories does not cascade.               *)
DeleteTeamOnly(t) ==
    /\ teams' = teams \ {t}
    /\ leaders' = [leaders EXCEPT ![t] = {}]
    /\ req' = Interfered(OnTeam(t))
    /\ UNCHANGED <<users, token, links, origin>>

DeleteTeam(t) ==
    /\ teams' = teams \ {t}
    /\ leaders' = [leaders EXCEPT ![t] = {}]
    /\ links' = [links EXCEPT ![t] = {}]
    /\ req' = Interfered(OnTeam(t))
    /\ UNCHANGED <<users, token, origin>>

(* DiscoverUserRepos: the repositories of a member, none with a token.     *)
Discover(r) ==
    /\ token' = [token EXCEPT ![r] = NoToken]
    /\ origin' = [origin EXCEPT ![r] = None]
    /\ req' = Interfered(OnRow(r))
    /\ UNCHANGED <<users, teams, leaders, links>>

Others ==
    /\ others < MaxOthers /\ others' = others + 1
    /\ \/ \E t \in Team, u \in User : Promote(t, u) \/ Demote(t, u)
       \/ \E u \in User : DeleteUser(u)
       \/ \E t \in Team : DeleteTeam(t)
       \/ \E r \in Repo : Discover(r)
    /\ UNCHANGED <<ever, known, admitted>>

Next ==
    \/ \E p \in Proc : Serve(p) /\ UNCHANGED others
    \/ Others

Spec == Init /\ [][Next]_vars

-----------------------------------------------------------------------------
(* Types, and the foreign keys: links of teams to rows that exist.         *)
TypeOK ==
    /\ users \subseteq User
    /\ teams \subseteq Team
    /\ leaders \in [Team -> SUBSET users]
    /\ token \in [Repo -> Token \cup {NoToken, NoRow}]
    /\ links \in [Team -> SUBSET Repo]
    /\ \A t \in Team \ teams : leaders[t] = {} /\ links[t] = {}
    /\ \A t \in Team : \A r \in links[t] : token[r] # NoRow
    /\ ever \in [Team -> SUBSET Repo]
    /\ known \in [Team -> SUBSET Token]
    /\ origin \in [Repo -> Team \cup {None}]
    /\ req \in [Proc -> Arrivals \cup Requests \cup {None}]
    /\ admitted \in 0..MaxRequests
    /\ others \in 0..MaxOthers

(* The API token of a repository is one of its platform, whoever supplied  *)
(* it and for whichever repository: AddRepository reuses tokens of the     *)
(* same platform only (team_handler.go:131).                               *)
TokensOnPlatform ==
    \A r \in Repo : token[r] \in Token => Platform[token[r]] = Platform[r]

(* Nothing is written for a team unless the sender led it, or is an        *)
(* administrator, at some moment of this very request: neither the token   *)
(* of the login nor an earlier request is enough (middleware.go:98).       *)
WritesEntitled ==
    \A p \in Busy : req[p].led

(* "added" means added: the team has the repository, with the token given  *)
(* or found, unless somebody wrote the row or cut the link after the       *)
(* request's own upsert (team_handler.go:158-169).                         *)
AddedStands ==
    \A p \in Busy : req[p].at = "added" /\ req[p].alone =>
        /\ req[p].repo \in links[req[p].team]
        /\ token[req[p].repo] = req[p].token

(* No request takes the token of a repository away, it can only be         *)
(* replaced; discovery alone erases tokens (pgx_repository_store.go:70).   *)
HandlersKeepTokens ==
    [][others' = others => \A r \in Repo : token[r] \in Token => token'[r] \in Token]_vars

(* What the book of repositories promises, for the tables and the history. *)
Book == INSTANCE RepositoryBook

(* Every step is one of the book: a token reaches a repository from a      *)
(* request for the team or from a repository the team has or had, never    *)
(* from another team's alone.                                              *)
KeepsBook == Book!Spec
=============================================================================
