------------------------------ MODULE TeamAdmin ------------------------------
(***************************************************************************)
(* The handlers that administer users, teams, members and leaders          *)
(* (admin_handler.go), and the SQL statements of the repositories they     *)
(* call.                                                                   *)
(*                                                                         *)
(* Every handler is a process.  PostgreSQL runs each statement atomically, *)
(* but only Save of a team is a transaction of several: between a check    *)
(* and the write it guards, any other handler may run.  A statement may    *)
(* fail, its effect may stay while its answer is lost, and its rows may    *)
(* break off unnoticed (nobody looks at rows.Err()); MaxFaults bounds how  *)
(* often.  A browser that hangs up cancels what is left of its handler.    *)
(*                                                                         *)
(* Data is abstract: a user's account is the roles it holds; names,        *)
(* passwords and everything else in the rows is left out.                  *)
(***************************************************************************)
EXTENDS Integers, FiniteSets

CONSTANTS
    User,        \* user ids that uuid.New may ever produce
    Team,        \* team ids, likewise
    Role,        \* roles an account may hold
    TeamLeader,  \* the derived role TEAM_LEADER
    Offered,     \* the role sets a CreateUser request may ask for; one that
                 \*   carries none asks for TEAM_MEMBER
    Proc,        \* handlers that may run at the same time
    None,        \* no user, no team
    MaxFaults,   \* bound: statements that fail, lose an answer or lose rows
    HangUps      \* TRUE when browsers may hang up

ASSUME AdminAssumption ==
    /\ IsFiniteSet(User)
    /\ TeamLeader \in Role
    /\ Offered \subseteq SUBSET Role /\ {} \notin Offered
    /\ None \notin User /\ None \notin Team
    /\ User \cap Team = {}
    /\ MaxFaults \in Nat
    /\ HangUps \in BOOLEAN

VARIABLES
    users, accounts, roles,   \* users; user_accounts, with their roles
    teams, members, leaders,  \* teams, team_members, team_leaders
    issued,                   \* ids generated so far
    deleted, granted, led,    \* history: users deleted; roles at creation; users
    hungUp,                   \*   that have led a team; whether a browser hung up
    pc, ctx,                  \* a handler's next statement and its context
    job, seen,                \* the request, and what the handler has read
    faults

tables   == <<users, accounts, roles, teams, members, leaders>>
history  == <<issued, deleted, granted, led, hungUp>>
handlers == <<pc, ctx, job, seen>>
vars     == <<tables, history, handlers, faults>>

Nothing == [todo |-> {}, hit |-> FALSE, former |-> {}, copy |-> {}]
NoJob   == [user |-> None, team |-> None]

(* The statements that decide about TEAM_LEADER after a change of leaders. *)
RoleCheck == {"listTeams", "loadLeaders", "grantRead", "revokeRead", "saveRole"}

Statements == RoleCheck \cup
    {"saveUser", "saveAccount", "undoUser",                   \* CreateUser
     "findTeams", "loadTeams", "delAccount", "delUser",       \* DeleteUser
     "findUser", "saveTeam",                                  \* CreateTeam
     "findTeam", "readLeaders", "delTeam",                    \* DeleteTeam
     "insMember",                                             \* AddMember
     "checkLeader", "delMember",                              \* RemoveMember
     "findForLeader", "readMembers", "insLeader",             \* AddLeader
     "countLeaders", "delLeader"}                             \* RemoveLeader

(* What the handler does about a statement that returns an error: CreateUser *)
(* deletes the user again, DeleteUser skips its check, the role checks are   *)
(* given up, everything else answers with an error.                          *)
OnError(at) == IF at = "saveAccount" THEN "undoUser"
               ELSE IF at \in {"findTeams", "loadTeams"} THEN "delAccount"
               ELSE IF at \in RoleCheck THEN "nextRole"
               ELSE "reply"

Init ==
    /\ users \in SUBSET User
    /\ accounts = users
    /\ teams \in SUBSET Team
    /\ members \in [Team -> SUBSET users]
    /\ leaders \in [Team -> SUBSET users]
    /\ \A t \in Team : /\ leaders[t] \subseteq members[t]
                       /\ IF t \in teams THEN leaders[t] # {} ELSE members[t] = {}
    /\ granted \in [User -> Offered]
    /\ roles \in [User -> SUBSET Role]
    /\ \A u \in User :
          IF \E t \in Team : u \in leaders[t] THEN roles[u] = granted[u] \cup {TeamLeader}
          ELSE roles[u] \in {granted[u], granted[u] \ {TeamLeader}} \ {{}}
    /\ issued = users \cup teams
    /\ deleted = {}
    /\ led = UNION {leaders[t] : t \in Team}
    /\ hungUp = FALSE
    /\ pc = [p \in Proc |-> "idle"]
    /\ ctx = [p \in Proc |-> "live"]
    /\ job = [p \in Proc |-> NoJob]
    /\ seen = [p \in Proc |-> Nothing]
    /\ faults = 0

-----------------------------------------------------------------------------
(* How statements are run.                                                 *)

Goto(p, next) == pc' = [pc EXCEPT ![p] = next]

(* A statement that changes the tables: the handler hears of its success,  *)
(* or the answer is lost and the handler takes it for an error.            *)
Write(p, at, next) ==
    /\ pc[p] = at /\ ctx[p] = "live"
    /\ \/ Goto(p, next) /\ UNCHANGED faults
       \/ Goto(p, OnError(at)) /\ faults < MaxFaults /\ faults' = faults + 1
    /\ UNCHANGED <<ctx, job>>

(* A SELECT: the handler goes on according to what it was given.           *)
Select(p, at, next) ==
    /\ pc[p] = at /\ ctx[p] = "live"
    /\ Goto(p, next)
    /\ UNCHANGED <<tables, history, ctx>>

(* R is what the handler sees of the rows S.                               *)
Cut(R, S) == \/ R = S /\ UNCHANGED faults
             \/ R # S /\ faults < MaxFaults /\ faults' = faults + 1

(* A statement fails and changes nothing: on a cancelled context, or by a  *)
(* fault.                                                                  *)
Fails(p) ==
    /\ pc[p] \in Statements
    /\ IF ctx[p] = "cancelled" THEN UNCHANGED faults
       ELSE faults < MaxFaults /\ faults' = faults + 1
    /\ Goto(p, OnError(pc[p]))
    /\ UNCHANGED <<tables, history, ctx, job, seen>>

(* A statement that the schema refuses: a foreign key, NOT NULL or UNIQUE. *)
Refused(p, at) ==
    /\ pc[p] = at /\ ctx[p] = "live"
    /\ Goto(p, OnError(at))
    /\ UNCHANGED <<tables, history, ctx, job, seen, faults>>

(* A request reaches a handler.                                            *)
Starts(p, at, u, t) ==
    /\ pc[p] = "idle"
    /\ Goto(p, at)
    /\ job' = [job EXCEPT ![p] = [user |-> u, team |-> t]]
    /\ UNCHANGED <<tables, deleted, led, hungUp, ctx, seen, faults>>

(* The handler returns.                                                    *)
Reply(p) ==
    /\ pc[p] = "reply"
    /\ Goto(p, "idle")
    /\ ctx' = [ctx EXCEPT ![p] = "live"]
    /\ job' = [job EXCEPT ![p] = NoJob]
    /\ seen' = [seen EXCEPT ![p] = Nothing]
    /\ UNCHANGED <<tables, history, faults>>

HangUp(p) ==
    /\ HangUps
    /\ pc[p] \notin {"idle", "reply"}
    /\ ctx[p] = "live"
    /\ ctx' = [ctx EXCEPT ![p] = "cancelled"]
    /\ hungUp' = TRUE
    /\ UNCHANGED <<tables, issued, deleted, granted, led, pc, job, seen, faults>>

(* Mutant of UserRowGone: team_leaders does not cascade.                   *)
NoLeaderCascade(u) ==
    /\ users' = users \ {u}
    /\ accounts' = accounts \ {u}
    /\ members' = [t \in Team |-> members[t] \ {u}]
    /\ deleted' = deleted \cup ({u} \cap users)
    /\ UNCHANGED <<roles, teams, leaders, issued, granted, led, hungUp>>

(* Mutant of UserRowGone: user_accounts does not cascade.                  *)
NoAccountCascade(u) ==
    /\ users' = users \ {u}
    /\ members' = [t \in Team |-> members[t] \ {u}]
    /\ leaders' = [t \in Team |-> leaders[t] \ {u}]
    /\ deleted' = deleted \cup ({u} \cap users)
    /\ UNCHANGED <<accounts, roles, teams, issued, granted, led, hungUp>>

(* DELETE FROM users, with the cascade of the foreign keys.                *)
UserRowGone(u) ==
    /\ users' = users \ {u}
    /\ accounts' = accounts \ {u}
    /\ members' = [t \in Team |-> members[t] \ {u}]
    /\ leaders' = [t \in Team |-> leaders[t] \ {u}]
    /\ deleted' = deleted \cup ({u} \cap users)
    /\ UNCHANGED <<roles, teams, issued, granted, led, hungUp>>

-----------------------------------------------------------------------------
(* CreateUser.                                                             *)

CreateUser(p) ==
    \E u \in User \ issued, R \in Offered :
        /\ Starts(p, "saveUser", u, None)
        /\ issued' = issued \cup {u}
        /\ granted' = [granted EXCEPT ![u] = R]

SaveUser(p) ==
    /\ Write(p, "saveUser", "saveAccount")
    /\ users' = users \cup {job[p].user}
    /\ UNCHANGED <<accounts, roles, teams, members, leaders, history, seen>>

(* The user name is taken.                                                 *)
UserNameTaken(p) == Refused(p, "saveUser")

SaveAccount(p) ==
    LET u == job[p].user IN
    /\ u \in users
    /\ Write(p, "saveAccount", "reply")
    /\ accounts' = accounts \cup {u}
    /\ roles' = [roles EXCEPT ![u] = granted[u]]
    /\ UNCHANGED <<users, teams, members, leaders, history, seen>>

(* The user was deleted in the meantime.                                   *)
AccountRefused(p) == job[p].user \notin users /\ Refused(p, "saveAccount")

(* The compensation when the account could not be saved.                   *)
UndoUser(p) ==
    /\ Write(p, "undoUser", "reply")
    /\ UserRowGone(job[p].user)
    /\ UNCHANGED seen

-----------------------------------------------------------------------------
(* DeleteUser.                                                             *)

DeleteUser(p) ==
    \E u \in User : Starts(p, "findTeams", u, None) /\ UNCHANGED <<issued, granted>>

(* FindByMemberID: the teams the user is a member of ...                   *)
FindTeams(p) ==
    LET S == {t \in teams : job[p].user \in members[t]} IN
    /\ Select(p, "findTeams", "loadTeams")
    /\ \E R \in SUBSET S : Cut(R, S) /\ seen' = [seen EXCEPT ![p].todo = R]
    /\ UNCHANGED job

(* Mutant of LoadTeam: the last team decides.                              *)
LoadTeamLast(p) ==
    /\ Select(p, "loadTeams", "loadTeams")
    /\ \E t \in seen[p].todo : \E R \in SUBSET leaders[t] :
          /\ Cut(R, leaders[t])
          /\ seen' = [seen EXCEPT ![p].todo = @ \ {t}, ![p].hit = R = {job[p].user}]
    /\ UNCHANGED job

(* ... and the leaders of each, one statement per team.                    *)
LoadTeam(p) ==
    /\ Select(p, "loadTeams", "loadTeams")
    /\ \E t \in seen[p].todo : \E R \in SUBSET leaders[t] :
          /\ Cut(R, leaders[t])
          /\ seen' = [seen EXCEPT ![p].todo = @ \ {t},
                                  ![p].hit = @ \/ R = {job[p].user}]
    /\ UNCHANGED job

(* Refused when the user is the only leader of one of them.                *)
CheckSole(p) ==
    /\ pc[p] = "loadTeams"
    /\ seen[p].todo = {}
    /\ Goto(p, IF seen[p].hit THEN "reply" ELSE "delAccount")
    /\ UNCHANGED <<tables, history, ctx, job, seen, faults>>

DelAccount(p) ==
    /\ Write(p, "delAccount", "delUser")
    /\ accounts' = accounts \ {job[p].user}
    /\ UNCHANGED <<users, roles, teams, members, leaders, history, seen>>

DelUser(p) ==
    /\ Write(p, "delUser", "reply")
    /\ UserRowGone(job[p].user)
    /\ UNCHANGED seen

-----------------------------------------------------------------------------
(* CreateTeam and DeleteTeam.                                              *)

CreateTeam(p) ==
    \E t \in Team \ issued, u \in User :
        /\ Starts(p, "findUser", u, t)
        /\ issued' = issued \cup {t}
        /\ UNCHANGED granted

FindUser(p) ==
    /\ Select(p, "findUser", IF job[p].user \in users THEN "saveTeam" ELSE "reply")
    /\ UNCHANGED <<job, seen, faults>>

(* Save: one transaction, with the leader as the only member.              *)
SaveTeam(p) ==
    LET u == job[p].user  t == job[p].team IN
    /\ u \in users
    /\ Write(p, "saveTeam", "grantRead")
    /\ teams' = teams \cup {t}
    /\ members' = [members EXCEPT ![t] = {u}]
    /\ leaders' = [leaders EXCEPT ![t] = {u}]
    /\ led' = led \cup {u}
    /\ UNCHANGED <<users, accounts, roles, issued, deleted, granted, hungUp, seen>>

(* The leader was deleted in the meantime.                                 *)
TeamRefused(p) == job[p].user \notin users /\ Refused(p, "saveTeam")

DeleteTeam(p) ==
    \E t \in Team : Starts(p, "findTeam", None, t) /\ UNCHANGED <<issued, granted>>

(* FindByID; a team that does not exist is a 404.                          *)
FindTeam(p, at, next) ==
    /\ Select(p, at, IF job[p].team \in teams THEN next ELSE "reply")
    /\ UNCHANGED <<job, seen, faults>>

ReadLeaders(p) ==
    LET S == leaders[job[p].team] IN
    /\ Select(p, "readLeaders", "delTeam")
    /\ \E R \in SUBSET S : Cut(R, S) /\ seen' = [seen EXCEPT ![p].former = R]
    /\ UNCHANGED job

DelTeam(p) ==
    LET t == job[p].team IN
    /\ Write(p, "delTeam", "nextRole")
    /\ teams' = teams \ {t}
    /\ members' = [members EXCEPT ![t] = {}]
    /\ leaders' = [leaders EXCEPT ![t] = {}]
    /\ UNCHANGED <<users, accounts, roles, history, seen>>

-----------------------------------------------------------------------------
(* AddMember and RemoveMember.                                             *)

RowsExist(p) == job[p].team \in teams /\ job[p].user \in users

AddMember(p) ==
    \E t \in Team, u \in User :
        Starts(p, "insMember", u, t) /\ UNCHANGED <<issued, granted>>

InsMember(p) ==
    /\ RowsExist(p)
    /\ Write(p, "insMember", "reply")
    /\ members' = [members EXCEPT ![job[p].team] = @ \cup {job[p].user}]
    /\ UNCHANGED <<users, accounts, roles, teams, leaders, history, seen>>

MemberRefused(p) == ~RowsExist(p) /\ Refused(p, "insMember")

RemoveMember(p) ==
    \E t \in Team, u \in User :
        Starts(p, "checkLeader", u, t) /\ UNCHANGED <<issued, granted>>

(* Mutant of CheckLeader: leaders may be removed.                          *)
NoLeaderCheck(p) ==
    /\ Select(p, "checkLeader", "delMember")
    /\ UNCHANGED <<job, seen, faults>>

CheckLeader(p) ==
    /\ Select(p, "checkLeader",
              IF job[p].user \in leaders[job[p].team] THEN "reply" ELSE "delMember")
    /\ UNCHANGED <<job, seen, faults>>

DelMember(p) ==
    /\ Write(p, "delMember", "reply")
    /\ members' = [members EXCEPT ![job[p].team] = @ \ {job[p].user}]
    /\ UNCHANGED <<users, accounts, roles, teams, leaders, history, seen>>

-----------------------------------------------------------------------------
(* AddLeader and RemoveLeader.                                             *)

AddLeader(p) ==
    \E t \in Team, u \in User :
        Starts(p, "findForLeader", u, t) /\ UNCHANGED <<issued, granted>>

(* The members FindByID loads must hold the new leader.                    *)
ReadMembers(p) ==
    LET S == members[job[p].team] IN
    /\ pc[p] = "readMembers"
    /\ \E R \in SUBSET S :
          /\ Cut(R, S)
          /\ Select(p, "readMembers",
                    IF job[p].user \in R THEN "insLeader" ELSE "reply")
    /\ UNCHANGED <<job, seen>>

InsLeader(p) ==
    /\ RowsExist(p)
    /\ Write(p, "insLeader", "grantRead")
    /\ leaders' = [leaders EXCEPT ![job[p].team] = @ \cup {job[p].user}]
    /\ led' = led \cup {job[p].user}
    /\ UNCHANGED <<users, accounts, roles, teams, members, issued, deleted, granted,
                   hungUp, seen>>

LeaderRefused(p) == ~RowsExist(p) /\ Refused(p, "insLeader")

RemoveLeader(p) ==
    \E t \in Team, u \in User :
        Starts(p, "countLeaders", u, t) /\ UNCHANGED <<issued, granted>>

CountLeaders(p) ==
    /\ Select(p, "countLeaders",
              IF Cardinality(leaders[job[p].team]) <= 1 THEN "reply" ELSE "delLeader")
    /\ UNCHANGED <<job, seen, faults>>

(* Mutant of DelLeader: the role is not looked after.                      *)
DelLeaderOnly(p) ==
    /\ Write(p, "delLeader", "nextRole")
    /\ leaders' = [leaders EXCEPT ![job[p].team] = @ \ {job[p].user}]
    /\ UNCHANGED <<users, accounts, roles, teams, members, history, seen>>

DelLeader(p) ==
    /\ Write(p, "delLeader", "nextRole")
    /\ leaders' = [leaders EXCEPT ![job[p].team] = @ \ {job[p].user}]
    /\ seen' = [seen EXCEPT ![p].former = {job[p].user}]
    /\ UNCHANGED <<users, accounts, roles, teams, members, history>>

-----------------------------------------------------------------------------
(* The derived role: ensureLeaderRole, removeLeaderRoleIfOrphaned.         *)

(* FindAll of the accounts, and the copy of the user's row that the role is *)
(* added to or taken from.  Rows that break off before that row are like a   *)
(* statement that fails.                                                     *)
CopyAccount(p, at, wanted, copy) ==
    /\ Select(p, at, IF job[p].user \in accounts /\ wanted THEN "saveRole" ELSE "nextRole")
    /\ seen' = [seen EXCEPT ![p].copy = IF pc'[p] = "saveRole" THEN copy ELSE @]
    /\ UNCHANGED <<job, faults>>

(* Mutant of GrantRead: the role set is made anew.                         *)
GrantAlone(p) ==
    CopyAccount(p, "grantRead", TeamLeader \notin roles[job[p].user], {TeamLeader})

GrantRead(p) ==
    LET R == roles[job[p].user] IN
    CopyAccount(p, "grantRead", TeamLeader \notin R, R \cup {TeamLeader})

RevokeRead(p) ==
    LET R == roles[job[p].user] IN
    CopyAccount(p, "revokeRead", TeamLeader \in R, R \ {TeamLeader})

(* Mutant of SaveRole: user_accounts has no foreign key.                   *)
SaveRoleUnguarded(p) ==
    LET u == job[p].user IN
    /\ seen[p].copy # {}
    /\ Write(p, "saveRole", "nextRole")
    /\ accounts' = accounts \cup {u}
    /\ roles' = [roles EXCEPT ![u] = seen[p].copy]
    /\ UNCHANGED <<users, teams, members, leaders, history, seen>>

(* Save writes the whole row, inserting it when it is gone.                *)
SaveRole(p) ==
    LET u == job[p].user IN
    /\ u \in users /\ seen[p].copy # {}
    /\ Write(p, "saveRole", "nextRole")
    /\ accounts' = accounts \cup {u}
    /\ roles' = [roles EXCEPT ![u] = seen[p].copy]
    /\ UNCHANGED <<users, teams, members, leaders, history, seen>>

(* The user is gone; or no role is left, and the nil slice is sent as NULL. *)
RoleRefused(p) ==
    (job[p].user \notin users \/ seen[p].copy = {}) /\ Refused(p, "saveRole")

(* removeLeaderRoleIfOrphaned for each former leader, in any order.        *)
NextRole(p) ==
    /\ pc[p] = "nextRole"
    /\ IF seen[p].former = {}
       THEN Goto(p, "reply") /\ UNCHANGED <<job, seen>>
       ELSE \E u \in seen[p].former :
              /\ Goto(p, "listTeams")
              /\ job' = [job EXCEPT ![p].user = u]
              /\ seen' = [seen EXCEPT ![p].former = @ \ {u}, ![p].hit = FALSE]
    /\ UNCHANGED <<tables, history, ctx, faults>>

(* FindAll of the teams, then the leaders of each.                         *)
ListTeams(p) ==
    /\ Select(p, "listTeams", "loadLeaders")
    /\ \E R \in SUBSET teams : Cut(R, teams) /\ seen' = [seen EXCEPT ![p].todo = R]
    /\ UNCHANGED job

LoadLeaders(p) ==
    /\ Select(p, "loadLeaders", "loadLeaders")
    /\ \E t \in seen[p].todo : \E R \in SUBSET leaders[t] :
          /\ Cut(R, leaders[t])
          /\ seen' = [seen EXCEPT ![p].todo = @ \ {t},
                                  ![p].hit = @ \/ job[p].user \in R]
    /\ UNCHANGED job

(* Still a leader somewhere: the role stays.                               *)
CheckOrphaned(p) ==
    /\ pc[p] = "loadLeaders"
    /\ seen[p].todo = {}
    /\ Goto(p, IF seen[p].hit THEN "nextRole" ELSE "revokeRead")
    /\ UNCHANGED <<tables, history, ctx, job, seen, faults>>

-----------------------------------------------------------------------------
Request(p) == \/ CreateUser(p) \/ DeleteUser(p) \/ CreateTeam(p) \/ DeleteTeam(p)
              \/ AddMember(p) \/ RemoveMember(p) \/ AddLeader(p) \/ RemoveLeader(p)

UserStep(p) == \/ SaveUser(p) \/ UserNameTaken(p) \/ SaveAccount(p)
               \/ AccountRefused(p) \/ UndoUser(p)
               \/ FindTeams(p) \/ LoadTeam(p) \/ CheckSole(p)
               \/ DelAccount(p) \/ DelUser(p)

TeamStep(p) == \/ FindUser(p) \/ SaveTeam(p) \/ TeamRefused(p)
               \/ FindTeam(p, "findTeam", "readLeaders") \/ ReadLeaders(p) \/ DelTeam(p)

MemberStep(p) == \/ InsMember(p) \/ MemberRefused(p) \/ CheckLeader(p) \/ DelMember(p)

LeaderStep(p) == \/ FindTeam(p, "findForLeader", "readMembers") \/ ReadMembers(p)
                 \/ InsLeader(p) \/ LeaderRefused(p) \/ CountLeaders(p) \/ DelLeader(p)

RoleStep(p) == \/ GrantRead(p) \/ RevokeRead(p) \/ SaveRole(p) \/ RoleRefused(p)
               \/ NextRole(p) \/ ListTeams(p) \/ LoadLeaders(p) \/ CheckOrphaned(p)

Next == \E p \in Proc : \/ Request(p) \/ Reply(p) \/ Fails(p) \/ HangUp(p)
                        \/ UserStep(p) \/ TeamStep(p) \/ MemberStep(p)
                        \/ LeaderStep(p) \/ RoleStep(p)

Spec == Init /\ [][Next]_vars

-----------------------------------------------------------------------------
(* Properties.                                                             *)

(* The variables have the types of their declarations in Go and SQL, and   *)
(* the rows refer to rows that exist, as the schema's foreign keys say.    *)
TypeTables ==
    /\ users \subseteq User /\ accounts \subseteq users
    /\ roles \in [User -> SUBSET Role]
    /\ teams \subseteq Team
    /\ members \in [Team -> SUBSET users] /\ leaders \in [Team -> SUBSET users]
    /\ \A t \in Team \ teams : members[t] = {} /\ leaders[t] = {}

TypeHistory ==
    /\ issued \subseteq User \cup Team
    /\ deleted \subseteq User
    /\ granted \in [User -> SUBSET Role]
    /\ led \subseteq User
    /\ hungUp \in BOOLEAN

(* The statements that are about no single user, and those about a team.   *)
NoUser  == {"findTeam", "readLeaders", "delTeam"}
ForTeam == NoUser \cup {"findUser", "saveTeam", "insMember", "checkLeader", "delMember",
                        "findForLeader", "readMembers", "insLeader", "countLeaders",
                        "delLeader"}

TypeHandlers ==
    /\ pc \in [Proc -> Statements \cup {"idle", "nextRole", "reply"}]
    /\ ctx \in [Proc -> {"live", "cancelled"}]
    /\ job \in [Proc -> [user : User \cup {None}, team : Team \cup {None}]]
    /\ seen \in [Proc -> [todo : SUBSET Team, hit : BOOLEAN,
                          former : SUBSET User, copy : SUBSET Role]]
    /\ faults \in 0..MaxFaults
    /\ \A p \in Proc : /\ pc[p] \in Statements \ NoUser => job[p].user \in User
                       /\ pc[p] \in ForTeam => job[p].team \in Team

TypeOK == TypeTables /\ TypeHistory /\ TypeHandlers

(* No handler, however late its write, brings back anything of a user that *)
(* was deleted: not the row, nor the account, a membership or a leadership.*)
DeletedStaysDeleted ==
    \A u \in deleted : /\ u \notin users \cup accounts
                       /\ \A t \in Team : u \notin members[t] \cup leaders[t]

(* The role checks write whole account rows from copies read earlier; yet  *)
(* no interleaving changes any role but TEAM_LEADER.                       *)
RolesAsGranted ==
    \A u \in accounts : roles[u] \ {TeamLeader} = granted[u] \ {TeamLeader}

AtRest == \A p \in Proc : pc[p] = "idle"

(* Nothing has gone wrong so far.                                          *)
Undisturbed == faults = 0 /\ ~hungUp

(* CreateUser and DeleteUser write two tables without a transaction, and a *)
(* stale Save of the account may come between; yet once all handlers are   *)
(* done, and nothing disturbed them, every user has an account.            *)
UsersHaveAccounts == AtRest /\ Undisturbed => accounts = users

(* A leader is a member of the team.                                       *)
LeadersAreMembers == \A t \in Team : leaders[t] \subseteq members[t]

(* A team has a leader.                                                    *)
TeamsLed == \A t \in teams : leaders[t] # {}

Leads(u) == \E t \in teams : u \in leaders[t]

(* Who holds TEAM_LEADER without leading a team: users that were created    *)
(* with it and have led none yet; and users that have no other role, from   *)
(* whom it cannot be taken (RoleRefused).                                   *)
Unearned(u) == TeamLeader \in granted[u] /\ (u \notin led \/ granted[u] = {TeamLeader})

Settled(u) ==
    /\ Leads(u) => TeamLeader \in roles[u]
    /\ TeamLeader \in roles[u] => Leads(u) \/ Unearned(u)

(* TEAM_LEADER is derived: once all handlers are done, and nothing         *)
(* disturbed them, whoever has an account and leads a team holds the role, *)
(* and whoever holds it leads a team, or has never led one and was created  *)
(* with it, or has no other role.                                          *)
RoleDerived == AtRest /\ Undisturbed => \A u \in accounts : Settled(u)

(* The role is "removed when they no longer lead any team"                 *)
(* (doc/ARCHITECTURE.md), however the account came by it.                  *)
RoleRemoved ==
    AtRest /\ Undisturbed =>
        \A u \in accounts \cap led : TeamLeader \in roles[u] => Leads(u)

Policy == INSTANCE Leadership

(* Handlers that run one after the other implement the policy: each write  *)
(* is a decision the policy allows at the moment of the write.             *)
KeepsPolicy == Policy!Spec

-----------------------------------------------------------------------------
(* Inductive invariants.                                                   *)

(* An id is issued once: the row it is meant for is not there before, and  *)
(* nobody else is about to insert it.                                      *)
FreshInv ==
    /\ users \cup deleted \subseteq issued
    /\ users \cap deleted = {} /\ led \subseteq users \cup deleted
    /\ \A p \in Proc : pc[p] = "saveUser" =>
          /\ job[p].user \in issued \ (users \cup deleted)
          /\ \A q \in Proc : pc[q] = "saveUser" /\ job[q].user = job[p].user => q = p

(* A copy that is about to be saved is stale in TEAM_LEADER at most.       *)
CopyInv ==
    /\ RolesAsGranted
    /\ \A p \in Proc : pc[p] = "saveRole" =>
          /\ job[p].user \in issued
          /\ seen[p].copy \ {TeamLeader} = granted[job[p].user] \ {TeamLeader}

(* A user without an account is being created or deleted.                  *)
HalfInv ==
    \A u \in users \ accounts : \E p \in Proc :
        job[p].user = u /\ pc[p] \in {"saveAccount", "undoUser", "delUser"}

(* When handlers run one after the other, what AddLeader and RemoveMember  *)
(* have checked still holds when they write.                               *)
MemberInv ==
    /\ LeadersAreMembers
    /\ \A p \in Proc :
          /\ pc[p] = "insLeader" => job[p].user \in members[job[p].team]
          /\ pc[p] = "delMember" => job[p].user \notin leaders[job[p].team]

(* And so does what RemoveLeader and DeleteUser have checked, if no        *)
(* statement fails but by a hang-up, which lets none succeed afterwards.   *)
Dispensable(u) == \A t \in teams : leaders[t] # {u}

LedInv ==
    /\ TeamsLed
    /\ \A p \in Proc :
          /\ pc[p] = "delLeader" => \E u \in leaders[job[p].team] : u # job[p].user
          /\ pc[p] = "loadTeams" /\ ~seen[p].hit =>
                \A t \in teams : leaders[t] = {job[p].user} => t \in seen[p].todo
          /\ pc[p] \in {"delAccount", "delUser", "undoUser"} /\ ctx[p] = "live" =>
                Dispensable(job[p].user)
=============================================================================
