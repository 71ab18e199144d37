--------------------------- MODULE TeamAdminProofs ---------------------------
(***************************************************************************)
(* Theorems about TeamAdmin, for every set of users, teams, roles and      *)
(* handlers and every number of faults.                                    *)
(***************************************************************************)
EXTENDS TeamAdmin, FiniteSetTheorems, TLAPS

(* The steps that read, decide or fail: they leave the tables alone.       *)
Quiet(p) ==
    \/ Reply(p) \/ Fails(p)
    \/ UserNameTaken(p) \/ AccountRefused(p) \/ FindTeams(p) \/ LoadTeam(p) \/ CheckSole(p)
    \/ FindUser(p) \/ TeamRefused(p) \/ FindTeam(p, "findTeam", "readLeaders")
    \/ ReadLeaders(p) \/ MemberRefused(p) \/ CheckLeader(p)
    \/ FindTeam(p, "findForLeader", "readMembers") \/ ReadMembers(p) \/ LeaderRefused(p)
    \/ CountLeaders(p) \/ GrantRead(p) \/ RevokeRead(p) \/ RoleRefused(p) \/ NextRole(p)
    \/ ListTeams(p) \/ LoadLeaders(p) \/ CheckOrphaned(p)

(* The steps that write.                                                   *)
Writes(p) ==
    \/ SaveUser(p) \/ SaveAccount(p) \/ UndoUser(p) \/ DelAccount(p) \/ DelUser(p)
    \/ SaveTeam(p) \/ DelTeam(p) \/ InsMember(p) \/ DelMember(p)
    \/ InsLeader(p) \/ DelLeader(p) \/ SaveRole(p)

LEMMA Steps ==
    ASSUME Next
    PROVE  \E p \in Proc : Request(p) \/ HangUp(p) \/ Quiet(p) \/ Writes(p)
  BY DEF Next, UserStep, TeamStep, MemberStep, LeaderStep, RoleStep, Quiet, Writes

(* Where an error leads.                                                   *)
LEMMA ErrorFacts ==
    /\ OnError("saveAccount") = "undoUser"
    /\ OnError("findTeams") = "delAccount" /\ OnError("loadTeams") = "delAccount"
    /\ \A at \in RoleCheck : OnError(at) = "nextRole"
    /\ \A at \in Statements \ (RoleCheck \cup {"saveAccount", "findTeams", "loadTeams"}) :
          OnError(at) = "reply"
  BY DEF OnError, RoleCheck, Statements

(* The shape of every step of a handler that runs: it moves on to a        *)
(* statement of its own, and leaves the other handlers alone.              *)
LEMMA QuietFrame ==
    ASSUME NEW p \in Proc, Quiet(p)
    PROVE  /\ UNCHANGED <<tables, history>>
           /\ \E n : pc' = [pc EXCEPT ![p] = n]
  BY DEF Quiet, Reply, Fails, UserNameTaken, AccountRefused, Refused, FindTeams, LoadTeam,
         CheckSole, FindUser, TeamRefused, FindTeam, ReadLeaders, MemberRefused, CheckLeader,
         ReadMembers, LeaderRefused, CountLeaders, GrantRead, RevokeRead, CopyAccount,
         RoleRefused, NextRole, ListTeams, LoadLeaders, CheckOrphaned, Select, Goto

(***************************************************************************)
(* Type correctness.                                                       *)
(***************************************************************************)

LEMMA InitType == Init => TypeOK
  <1> SUFFICES ASSUME Init PROVE TypeOK
    OBVIOUS
  <1>1. TypeTables
    BY AdminAssumption DEF Init, TypeTables
  <1>2. TypeHistory
    <2>1. granted \in [User -> Offered] /\ Offered \subseteq SUBSET Role
      BY AdminAssumption DEF Init
    <2>2. /\ users \subseteq User /\ teams \subseteq Team /\ issued = users \cup teams
          /\ deleted = {} /\ hungUp = FALSE
      BY DEF Init
    <2>3. granted \in [User -> SUBSET Role]
      BY <2>1
    <2>4. led \subseteq users
      <3>1. leaders \in [Team -> SUBSET users] /\ led = UNION {leaders[t] : t \in Team}
        BY DEF Init
      <3> QED
        BY <3>1
    <2> QED
      BY <2>2, <2>3, <2>4 DEF TypeHistory
  <1>3. TypeHandlers
    <2> USE DEF Init
    <2>1. \A p \in Proc : pc[p] \notin Statements \cup ForTeam
      BY DEF Statements, RoleCheck, ForTeam, NoUser
    <2>2. job \in [Proc -> [user : User \cup {None}, team : Team \cup {None}]]
      BY DEF NoJob
    <2>3. seen \in [Proc -> [todo : SUBSET Team, hit : BOOLEAN,
                            former : SUBSET User, copy : SUBSET Role]]
      BY DEF Nothing
    <2>4. /\ pc \in [Proc -> Statements \cup {"idle", "nextRole", "reply"}]
          /\ ctx \in [Proc -> {"live", "cancelled"}] /\ faults \in 0..MaxFaults
      BY AdminAssumption
    <2> QED
      BY <2>1, <2>2, <2>3, <2>4 DEF TypeHandlers
  <1> QED
    BY <1>1, <1>2, <1>3 DEF TypeOK

SeenType == [todo : SUBSET Team, hit : BOOLEAN, former : SUBSET User, copy : SUBSET Role]
JobType  == [user : User \cup {None}, team : Team \cup {None}]
Labels   == Statements \cup {"idle", "nextRole", "reply"}

(* What has to be shown of a step of a single handler.                     *)
LEMMA HandlerMoves ==
    ASSUME TypeHandlers, NEW p \in Proc, NEW n \in Labels,
           pc' = [pc EXCEPT ![p] = n],
           ctx' \in [Proc -> {"live", "cancelled"}],
           job' \in [Proc -> JobType], seen' \in [Proc -> SeenType],
           faults' \in 0..MaxFaults,
           \A q \in Proc \ {p} : job'[q] = job[q],
           n \in Statements \ NoUser => job'[p].user \in User,
           n \in ForTeam => job'[p].team \in Team
    PROVE  TypeHandlers'
  BY DEF TypeHandlers, SeenType, JobType, Labels

(* A step that leaves the request as it is and goes on to a statement that *)
(* needs no more of it.                                                    *)
LEMMA HandlerGoesOn ==
    ASSUME TypeHandlers, NEW p \in Proc, NEW n \in Labels,
           pc' = [pc EXCEPT ![p] = n],
           UNCHANGED <<ctx, job>>, seen' \in [Proc -> SeenType],
           faults' \in 0..MaxFaults,
           n \in Statements \ NoUser => pc[p] \in Statements \ NoUser,
           n \in ForTeam => pc[p] \in ForTeam
    PROVE  TypeHandlers'
  <1>1. job \in [Proc -> JobType] /\ ctx \in [Proc -> {"live", "cancelled"}]
    BY DEF TypeHandlers, JobType
  <1>2. /\ pc[p] \in Statements \ NoUser => job[p].user \in User
        /\ pc[p] \in ForTeam => job[p].team \in Team
    BY DEF TypeHandlers
  <1> QED
    BY <1>1, <1>2, HandlerMoves

LEMMA SeenFacts ==
    ASSUME TypeHandlers, NEW p \in Proc
    PROVE  /\ seen \in [Proc -> SeenType] /\ job \in [Proc -> JobType]
           /\ seen[p] \in SeenType
           /\ seen[p].todo \subseteq Team /\ seen[p].former \subseteq User
           /\ seen[p].hit \in BOOLEAN /\ seen[p].copy \subseteq Role
           /\ faults \in Nat /\ faults \in 0..MaxFaults
           /\ faults < MaxFaults => faults + 1 \in 0..MaxFaults
           /\ ctx \in [Proc -> {"live", "cancelled"}] /\ pc \in [Proc -> Labels]
  BY AdminAssumption DEF TypeHandlers, SeenType, JobType, Labels

LEMMA CutFacts ==
    ASSUME TypeHandlers, NEW R, NEW S, Cut(R, S)
    PROVE  faults' \in 0..MaxFaults
  BY AdminAssumption DEF TypeHandlers, Cut

(* Steps that read or decide, by what they do to job and seen.             *)
LEMMA QuietType ==
    ASSUME TypeOK, NEW p \in Proc, Quiet(p)
    PROVE  TypeOK'
  <1>1. TypeTables' /\ TypeHistory'
    BY QuietFrame DEF TypeOK, TypeTables, TypeHistory, tables, history
  <1>2. TypeHandlers'
    <2> TypeHandlers
      BY DEF TypeOK
    <2> USE SeenFacts DEF Statements, RoleCheck, NoUser, ForTeam, Labels
    <2>1. CASE Fails(p)
      <3> DEFINE n == OnError(pc[p])
      <3>1. /\ pc[p] \in Statements /\ pc' = [pc EXCEPT ![p] = n]
            /\ UNCHANGED <<ctx, job, seen>>
        BY <2>1 DEF Fails, Goto
      <3>2. faults' \in 0..MaxFaults
        BY <2>1 DEF Fails
      <3>3. n \in Labels /\ n \notin ForTeam
        BY <3>1 DEF OnError
      <3>4. n \in Statements \ NoUser => pc[p] \in Statements \ NoUser
        BY <3>1 DEF OnError
      <3>5. seen' \in [Proc -> SeenType]
        BY <3>1
      <3> HIDE DEF n
      <3> QED
        BY <3>1, <3>2, <3>3, <3>4, <3>5, HandlerGoesOn
    <2>2. CASE UserNameTaken(p) \/ AccountRefused(p) \/ TeamRefused(p) \/ MemberRefused(p)
               \/ LeaderRefused(p) \/ RoleRefused(p)
      <3>1. PICK at \in {"saveUser", "saveAccount", "saveTeam", "insMember", "insLeader", "saveRole"} :
               Refused(p, at)
        BY <2>2 DEF UserNameTaken, AccountRefused, TeamRefused, MemberRefused,
              LeaderRefused, RoleRefused
      <3> QED
        BY <3>1, HandlerGoesOn DEF Refused, Goto, OnError
    <2>3. CASE CheckSole(p) \/ CheckOrphaned(p)
      BY <2>3, HandlerGoesOn DEF CheckSole, CheckOrphaned, Goto
    <2>4. CASE FindUser(p) \/ CheckLeader(p) \/ CountLeaders(p)
      BY <2>4, HandlerGoesOn DEF FindUser, CheckLeader, CountLeaders, Select, Goto
    <2>5. CASE FindTeam(p, "findTeam", "readLeaders") \/ FindTeam(p, "findForLeader", "readMembers")
      BY <2>5, HandlerGoesOn DEF FindTeam, Select, Goto
    <2>6. CASE ReadMembers(p)
      BY <2>6, HandlerGoesOn, CutFacts DEF ReadMembers, Select, Goto
    <2>7. CASE Reply(p)
      <3>1. Nothing \in SeenType /\ NoJob \in JobType
        BY DEF Nothing, NoJob, SeenType, JobType
      <3> QED
        BY <2>7, <3>1, HandlerMoves DEF Reply, Goto
    <2>8. CASE NextRole(p)
      <3>1. CASE seen[p].former = {}
        BY <2>8, <3>1, HandlerGoesOn DEF NextRole, Goto
      <3>2. CASE seen[p].former # {}
        <4>1. PICK u \in seen[p].former :
                 /\ pc' = [pc EXCEPT ![p] = "listTeams"]
                 /\ job' = [job EXCEPT ![p].user = u]
                 /\ seen' = [seen EXCEPT ![p].former = @ \ {u}, ![p].hit = FALSE]
          BY <2>8, <3>2 DEF NextRole, Goto
        <4>2. job' \in [Proc -> JobType] /\ job'[p].user \in User
          BY <4>1 DEF JobType
        <4>3. seen' \in [Proc -> SeenType]
          BY <4>1 DEF SeenType
        <4> QED
          BY <2>8, <4>1, <4>2, <4>3, HandlerMoves DEF NextRole
      <3> QED
        BY <3>1, <3>2
    <2>9. CASE FindTeams(p) \/ ListTeams(p)
      <3>1. PICK R \in SUBSET Team : /\ seen' = [seen EXCEPT ![p].todo = R]
                                     /\ faults' \in 0..MaxFaults
        BY <2>9, CutFacts DEF FindTeams, ListTeams, TypeOK, TypeTables
      <3>2. seen' \in [Proc -> SeenType]
        BY <3>1 DEF SeenType
      <3> QED
        BY <2>9, <3>1, <3>2, HandlerGoesOn DEF FindTeams, ListTeams, Select, Goto
    <2>10. CASE LoadTeam(p) \/ LoadLeaders(p)
      <3>1. PICK t \in Team, h \in BOOLEAN :
               /\ seen' = [seen EXCEPT ![p].todo = @ \ {t}, ![p].hit = h]
               /\ faults' \in 0..MaxFaults
        BY <2>10, CutFacts DEF LoadTeam, LoadLeaders
      <3>2. seen' \in [Proc -> SeenType]
        BY <3>1 DEF SeenType
      <3> QED
        BY <2>10, <3>1, <3>2, HandlerGoesOn DEF LoadTeam, LoadLeaders, Select, Goto
    <2>11. CASE ReadLeaders(p)
      <3>1. job[p].team \in Team
        BY <2>11 DEF ReadLeaders, Select, TypeHandlers
      <3>2. PICK R \in SUBSET User : /\ seen' = [seen EXCEPT ![p].former = R]
                                     /\ faults' \in 0..MaxFaults
        <4>1. leaders[job[p].team] \subseteq User
          BY <3>1 DEF TypeOK, TypeTables
        <4>2. PICK R \in SUBSET leaders[job[p].team] :
                 /\ Cut(R, leaders[job[p].team])
                 /\ seen' = [seen EXCEPT ![p].former = R]
          BY <2>11 DEF ReadLeaders
        <4> QED
          BY <4>1, <4>2, CutFacts
      <3>3. seen' \in [Proc -> SeenType]
        BY <3>2 DEF SeenType
      <3> QED
        BY <2>11, <3>2, <3>3, HandlerGoesOn DEF ReadLeaders, Select, Goto
    <2>12. CASE GrantRead(p) \/ RevokeRead(p)
      <3>1. job[p].user \in User
        BY <2>12 DEF GrantRead, RevokeRead, CopyAccount, Select, TypeHandlers
      <3>2. PICK c \in SUBSET Role : seen' = [seen EXCEPT ![p].copy = c]
        <4>1. roles[job[p].user] \subseteq Role
          BY <3>1 DEF TypeOK, TypeTables
        <4>2. PICK c \in SUBSET Role :
                 seen' = [seen EXCEPT ![p].copy = IF pc'[p] = "saveRole" THEN c ELSE @]
          BY <2>12, <4>1, AdminAssumption DEF GrantRead, RevokeRead, CopyAccount
        <4> QED
          BY <4>2
      <3>3. seen' \in [Proc -> SeenType]
        BY <3>2 DEF SeenType
      <3> QED
        BY <2>12, <3>3, HandlerGoesOn DEF GrantRead, RevokeRead, CopyAccount, Select, Goto
    <2> QED
      BY <2>1, <2>2, <2>3, <2>4, <2>5, <2>6, <2>7, <2>8, <2>9, <2>10, <2>11, <2>12 DEF Quiet
  <1> QED
    BY <1>1, <1>2 DEF TypeOK

(* The end of a write: the handler moves on, its request unchanged.        *)
LEMMA WriteFrame ==
    ASSUME NEW p \in Proc, NEW at, NEW next, Write(p, at, next)
    PROVE  /\ pc[p] = at /\ ctx[p] = "live"
           /\ \E n \in {next, OnError(at)} : pc' = [pc EXCEPT ![p] = n]
           /\ UNCHANGED <<ctx, job>>
  BY DEF Write, Goto

LEMMA WriteHandlers ==
    ASSUME TypeOK, NEW p \in Proc, Writes(p)
    PROVE  TypeHandlers'
  <1> TypeHandlers
    BY DEF TypeOK
  <1>1. PICK at \in {"saveUser", "saveAccount", "undoUser", "delAccount", "delUser", "saveTeam",
                     "delTeam", "insMember", "delMember", "insLeader", "delLeader", "saveRole"},
             next \in {"saveAccount", "reply", "delUser", "grantRead", "nextRole"} :
          /\ Write(p, at, next)
          /\ next = "saveAccount" => at = "saveUser"
          /\ next = "delUser" => at = "delAccount"
          /\ next = "grantRead" => at \in {"saveTeam", "insLeader"}
    BY DEF Writes, SaveUser, SaveAccount, UndoUser, DelAccount, DelUser, SaveTeam, DelTeam,
           InsMember, DelMember, InsLeader, DelLeader, SaveRole
  <1>2. seen' \in [Proc -> SeenType]
    <2>1. CASE DelLeader(p)
      <3>1. job[p].user \in User
        BY <2>1 DEF DelLeader, Write, TypeHandlers, Statements, NoUser
      <3> QED
        BY <2>1, <3>1, SeenFacts DEF DelLeader, SeenType
    <2>2. CASE UNCHANGED seen
      BY <2>2, SeenFacts
    <2> QED
      BY <2>1, <2>2 DEF Writes, SaveUser, SaveAccount, UndoUser, DelAccount, DelUser, SaveTeam,
            DelTeam, InsMember, DelMember, InsLeader, DelLeader, SaveRole
  <1>3. faults' \in 0..MaxFaults
    BY <1>1, SeenFacts DEF Write
  <1>4. PICK n \in {next, OnError(at)} : pc' = [pc EXCEPT ![p] = n]
    BY <1>1, WriteFrame
  <1>5. n \in Labels /\ (n \in Statements \ NoUser => at \in Statements \ NoUser)
        /\ (n \in ForTeam => at \in ForTeam)
    BY <1>1, <1>4 DEF OnError, Labels, Statements, RoleCheck, NoUser, ForTeam
  <1>6. pc[p] = at /\ UNCHANGED <<ctx, job>>
    BY <1>1, WriteFrame
  <1> QED
    BY <1>2, <1>3, <1>4, <1>5, <1>6, HandlerGoesOn

LEMMA WriteType ==
    ASSUME TypeOK, NEW p \in Proc, Writes(p)
    PROVE  TypeOK'
  <1> USE DEF TypeOK
  <1>0. TypeHandlers'
    BY WriteHandlers
  <1>1. CASE SaveUser(p)
    <2>2. job[p].user \in User
      BY <1>1 DEF SaveUser, Write, TypeHandlers, Statements, NoUser
    <2>3. TypeTables' /\ TypeHistory'
      BY <1>1, <2>2 DEF SaveUser, TypeTables, TypeHistory, history
    <2> QED BY <1>0, <2>3
  <1>2. CASE SaveAccount(p)
    <2>2. TypeTables' /\ TypeHistory'
      BY <1>2 DEF SaveAccount, TypeTables, TypeHistory, history
    <2> QED BY <1>0, <2>2
  <1>3. CASE UndoUser(p) \/ DelUser(p)
    <2>2. UserRowGone(job[p].user)
      BY <1>3 DEF UndoUser, DelUser
    <2>3. TypeTables'
      BY <2>2 DEF UserRowGone, TypeTables
    <2>4. TypeHistory'
      BY <2>2 DEF UserRowGone, TypeTables, TypeHistory
    <2> QED BY <1>0, <2>3, <2>4
  <1>4. CASE DelAccount(p)
    <2>2. TypeTables' /\ TypeHistory'
      BY <1>4 DEF DelAccount, TypeTables, TypeHistory, history
    <2> QED BY <1>0, <2>2
  <1>5. CASE SaveTeam(p)
    <2>2. job[p].team \in Team
      BY <1>5 DEF SaveTeam, Write, TypeHandlers, ForTeam
    <2>3. TypeTables' /\ TypeHistory'
      BY <1>5, <2>2 DEF SaveTeam, TypeTables, TypeHistory, history
    <2> QED BY <1>0, <2>3
  <1>6. CASE DelTeam(p)
    <2>2. TypeTables' /\ TypeHistory'
      BY <1>6 DEF DelTeam, TypeTables, TypeHistory, history
    <2> QED BY <1>0, <2>2
  <1>7. CASE InsMember(p) \/ DelMember(p)
    <2>2. TypeTables' /\ TypeHistory'
      BY <1>7 DEF InsMember, DelMember, RowsExist, TypeTables, TypeHistory, history
    <2> QED BY <1>0, <2>2
  <1>8. CASE InsLeader(p) \/ DelLeader(p)
    <2>2. TypeTables' /\ TypeHistory'
      BY <1>8 DEF InsLeader, DelLeader, RowsExist, TypeTables, TypeHistory, history
    <2> QED BY <1>0, <2>2
  <1>9. CASE SaveRole(p)
    <2>2. TypeTables' /\ TypeHistory'
      BY <1>9 DEF SaveRole, TypeTables, TypeHistory, TypeHandlers, history
    <2> QED BY <1>0, <2>2
  <1> QED
    BY <1>1, <1>2, <1>3, <1>4, <1>5, <1>6, <1>7, <1>8, <1>9 DEF Writes

LEMMA RequestType ==
    ASSUME TypeOK, NEW p \in Proc, Request(p) \/ HangUp(p)
    PROVE  TypeOK'
  <1> USE DEF TypeOK
  <1>1. TypeTables'
    BY DEF Request, CreateUser, DeleteUser, CreateTeam, DeleteTeam, AddMember, RemoveMember,
           AddLeader, RemoveLeader, Starts, HangUp, TypeTables, tables
  <1>2. TypeHistory'
    BY AdminAssumption
       DEF Request, CreateUser, DeleteUser, CreateTeam, DeleteTeam, AddMember, RemoveMember,
           AddLeader, RemoveLeader, Starts, HangUp, TypeHistory
  <1>3. TypeHandlers'
    <2>1. CASE HangUp(p)
      BY <2>1 DEF HangUp, TypeHandlers
    <2>2. CASE Request(p)
      <3>1. PICK at \in {"saveUser", "findTeams", "findUser", "findTeam", "insMember",
                         "checkLeader", "findForLeader", "countLeaders"},
                 u \in User \cup {None}, t \in Team \cup {None} :
              /\ Starts(p, at, u, t)
              /\ at \in Statements \ NoUser => u \in User
              /\ at \in ForTeam => t \in Team
        BY <2>2 DEF Request, CreateUser, DeleteUser, CreateTeam, DeleteTeam, AddMember,
              RemoveMember, AddLeader, RemoveLeader, Statements, NoUser, ForTeam
      <3> QED
        BY <3>1 DEF Starts, Goto, TypeHandlers, Statements
    <2> QED
      BY <2>1, <2>2
  <1> QED
    BY <1>1, <1>2, <1>3

LEMMA StutterType == TypeOK /\ UNCHANGED vars => TypeOK'
  BY DEF TypeOK, TypeTables, TypeHistory, TypeHandlers, vars, tables, history, handlers

(* The variables keep their types and the rows refer to rows that exist,   *)
(* whatever the handlers do at the same time.                              *)
THEOREM TypeCorrect == Spec => []TypeOK
  <1>1. TypeOK /\ [Next]_vars => TypeOK'
    BY Steps, QuietType, WriteType, RequestType, StutterType
  <1> QED
    BY InitType, <1>1, PTL DEF Spec

(***************************************************************************)
(* What deleted users and saved copies may do, with any handlers at once.  *)
(***************************************************************************)

(* A step of one handler is no step of another.                            *)
LEMMA Others ==
    ASSUME TypeOK, NEW p \in Proc, Request(p) \/ HangUp(p) \/ Quiet(p) \/ Writes(p),
           NEW q \in Proc \ {p}
    PROVE  pc'[q] = pc[q] /\ ctx'[q] = ctx[q] /\ job'[q] = job[q] /\ seen'[q] = seen[q]
  <1> USE DEF TypeOK, TypeHandlers
  <1>1. CASE Request(p) \/ HangUp(p)
    BY <1>1 DEF Request, CreateUser, DeleteUser, CreateTeam, DeleteTeam, AddMember,
          RemoveMember, AddLeader, RemoveLeader, Starts, HangUp, Goto
  <1>2. CASE Quiet(p)
    BY <1>2 DEF Quiet, Reply, Fails, UserNameTaken, AccountRefused, Refused, FindTeams,
          LoadTeam, CheckSole, FindUser, TeamRefused, FindTeam, ReadLeaders, MemberRefused,
          CheckLeader, ReadMembers, LeaderRefused, CountLeaders, GrantRead, RevokeRead,
          CopyAccount, RoleRefused, NextRole, ListTeams, LoadLeaders, CheckOrphaned, Select, Goto
  <1>3. CASE Writes(p)
    BY <1>3 DEF Writes, SaveUser, SaveAccount, UndoUser, DelAccount, DelUser, SaveTeam, DelTeam,
          InsMember, DelMember, InsLeader, DelLeader, SaveRole, Write, Goto
  <1> QED
    BY <1>1, <1>2, <1>3

(* Where each step leads.                                                  *)
LEMMA Targets ==
    ASSUME TypeOK, NEW p \in Proc
    PROVE  /\ Fails(p) => pc'[p] \in {"undoUser", "delAccount", "nextRole", "reply"}
           /\ UserNameTaken(p) => pc'[p] = "reply"
           /\ AccountRefused(p) => pc'[p] = "undoUser"
           /\ TeamRefused(p) \/ MemberRefused(p) \/ LeaderRefused(p) => pc'[p] = "reply"
           /\ RoleRefused(p) => pc'[p] = "nextRole"
           /\ Reply(p) => pc'[p] = "idle"
           /\ NextRole(p) => pc'[p] \in {"listTeams", "reply"}
           /\ CheckSole(p) => pc'[p] \in {"delAccount", "reply"}
           /\ CheckOrphaned(p) => pc'[p] \in {"revokeRead", "nextRole"}
           /\ FindTeams(p) \/ LoadTeam(p) => pc'[p] = "loadTeams"
           /\ FindUser(p) => pc'[p] \in {"saveTeam", "reply"}
           /\ FindTeam(p, "findTeam", "readLeaders") => pc'[p] \in {"readLeaders", "reply"}
           /\ ReadLeaders(p) => pc'[p] = "delTeam"
           /\ CheckLeader(p) => pc'[p] \in {"delMember", "reply"}
           /\ FindTeam(p, "findForLeader", "readMembers") => pc'[p] \in {"readMembers", "reply"}
           /\ ReadMembers(p) => pc'[p] \in {"insLeader", "reply"}
           /\ CountLeaders(p) => pc'[p] \in {"delLeader", "reply"}
           /\ GrantRead(p) \/ RevokeRead(p) => pc'[p] \in {"saveRole", "nextRole"}
           /\ ListTeams(p) \/ LoadLeaders(p) => pc'[p] = "loadLeaders"
  <1> USE ErrorFacts DEF TypeOK, TypeHandlers, Goto, Select, Refused
  <1>1. Fails(p) => pc'[p] \in {"undoUser", "delAccount", "nextRole", "reply"}
    BY DEF Fails, OnError
  <1>2. UserNameTaken(p) => pc'[p] = "reply"
    BY DEF UserNameTaken, Statements, RoleCheck
  <1>3. AccountRefused(p) => pc'[p] = "undoUser"
    BY DEF AccountRefused
  <1>4. TeamRefused(p) \/ MemberRefused(p) \/ LeaderRefused(p) => pc'[p] = "reply"
    <2>1. TeamRefused(p) => pc'[p] = "reply"
      BY DEF TeamRefused, RoleCheck
    <2>2. MemberRefused(p) => pc'[p] = "reply"
      BY DEF MemberRefused, RoleCheck
    <2>3. LeaderRefused(p) => pc'[p] = "reply"
      BY DEF LeaderRefused, RoleCheck
    <2> QED
      BY <2>1, <2>2, <2>3
  <1>5. RoleRefused(p) => pc'[p] = "nextRole"
    BY DEF RoleRefused, RoleCheck
  <1>6. /\ Reply(p) => pc'[p] = "idle"
        /\ NextRole(p) => pc'[p] \in {"listTeams", "reply"}
        /\ CheckSole(p) => pc'[p] \in {"delAccount", "reply"}
        /\ CheckOrphaned(p) => pc'[p] \in {"revokeRead", "nextRole"}
    BY DEF Reply, NextRole, CheckSole, CheckOrphaned
  <1>7. /\ FindTeams(p) \/ LoadTeam(p) => pc'[p] = "loadTeams"
        /\ FindUser(p) => pc'[p] \in {"saveTeam", "reply"}
        /\ FindTeam(p, "findTeam", "readLeaders") => pc'[p] \in {"readLeaders", "reply"}
        /\ ReadLeaders(p) => pc'[p] = "delTeam"
    BY DEF FindTeams, LoadTeam, FindUser, FindTeam, ReadLeaders
  <1>8. /\ CheckLeader(p) => pc'[p] \in {"delMember", "reply"}
        /\ FindTeam(p, "findForLeader", "readMembers") => pc'[p] \in {"readMembers", "reply"}
        /\ ReadMembers(p) => pc'[p] \in {"insLeader", "reply"}
        /\ CountLeaders(p) => pc'[p] \in {"delLeader", "reply"}
    BY DEF CheckLeader, FindTeam, ReadMembers, CountLeaders
  <1>9. /\ GrantRead(p) \/ RevokeRead(p) => pc'[p] \in {"saveRole", "nextRole"}
        /\ ListTeams(p) \/ LoadLeaders(p) => pc'[p] = "loadLeaders"
    BY DEF GrantRead, RevokeRead, CopyAccount, ListTeams, LoadLeaders
  <1> QED
    BY <1>1, <1>2, <1>3, <1>4, <1>5, <1>6, <1>7, <1>8, <1>9

(* Which step a handler comes from when it is about to write.              *)
LEMMA QuietTargets ==
    ASSUME TypeOK, NEW p \in Proc, Quiet(p)
    PROVE  /\ pc'[p] \notin {"saveUser", "delUser"}
           /\ pc'[p] = "saveRole" => GrantRead(p) \/ RevokeRead(p)
           /\ pc'[p] = "insLeader" => ReadMembers(p)
           /\ pc'[p] = "delMember" => CheckLeader(p)
           /\ pc'[p] = "delLeader" => CountLeaders(p)
           /\ pc'[p] = "delAccount" => CheckSole(p) \/ Fails(p)
           /\ pc'[p] = "undoUser" => AccountRefused(p) \/ Fails(p)
           /\ pc'[p] = "loadTeams" => FindTeams(p) \/ LoadTeam(p)
  BY Targets DEF Quiet

LEMMA WriteTargets ==
    ASSUME TypeOK, NEW p \in Proc, Writes(p)
    PROVE  /\ pc'[p] \in {"saveAccount", "undoUser", "delUser", "grantRead", "nextRole", "reply"}
           /\ pc'[p] = "saveAccount" => SaveUser(p)
           /\ pc'[p] = "undoUser" => SaveAccount(p)
           /\ pc'[p] = "delUser" => DelAccount(p)
           /\ UNCHANGED <<ctx, job>> /\ ctx[p] = "live"
  <1> USE ErrorFacts DEF TypeOK, TypeHandlers
  <1>1. SaveUser(p) => pc'[p] \in {"saveAccount", "reply"}
    BY DEF SaveUser, Write, Goto, Statements, RoleCheck
  <1>2. SaveAccount(p) => pc'[p] \in {"undoUser", "reply"}
    BY DEF SaveAccount, Write, Goto
  <1>3. DelAccount(p) => pc'[p] \in {"delUser", "reply"}
    BY DEF DelAccount, Write, Goto, Statements, RoleCheck
  <1>4. UndoUser(p) \/ DelUser(p) \/ InsMember(p) \/ DelMember(p) => pc'[p] = "reply"
    <2> USE DEF Write, Goto, OnError, RoleCheck
    <2>1. UndoUser(p) \/ DelUser(p) => pc'[p] = "reply"
      BY DEF UndoUser, DelUser
    <2>2. InsMember(p) \/ DelMember(p) => pc'[p] = "reply"
      BY DEF InsMember, DelMember
    <2> QED
      BY <2>1, <2>2
  <1>5. SaveTeam(p) \/ InsLeader(p) => pc'[p] \in {"grantRead", "reply"}
    BY DEF SaveTeam, InsLeader, Write, Goto, OnError, RoleCheck
  <1>6. DelTeam(p) \/ DelLeader(p) \/ SaveRole(p) => pc'[p] \in {"nextRole", "reply"}
    <2>1. DelTeam(p) => pc'[p] \in {"nextRole", "reply"}
      BY DEF DelTeam, Write, Goto
    <2>2. DelLeader(p) => pc'[p] \in {"nextRole", "reply"}
      BY DEF DelLeader, Write, Goto
    <2>3. SaveRole(p) => pc'[p] \in {"nextRole", "reply"}
      BY DEF SaveRole, Write, Goto
    <2> QED
      BY <2>1, <2>2, <2>3
  <1>7. UNCHANGED <<ctx, job>> /\ ctx[p] = "live"
    BY DEF Writes, SaveUser, SaveAccount, UndoUser, DelAccount, DelUser, SaveTeam, DelTeam,
           InsMember, DelMember, InsLeader, DelLeader, SaveRole, Write
  <1> QED
    BY <1>1, <1>2, <1>3, <1>4, <1>5, <1>6, <1>7 DEF Writes

LEMMA FreshInit == Init => FreshInv
  BY AdminAssumption DEF Init, FreshInv

LEMMA FreshStep ==
    ASSUME TypeOK, FreshInv, NEW p \in Proc, Request(p) \/ HangUp(p) \/ Quiet(p) \/ Writes(p)
    PROVE  FreshInv'
  <1>1. CASE /\ pc'[p] # "saveUser" /\ UNCHANGED <<users, deleted>>
                /\ issued \subseteq issued' /\ led' \subseteq led \cup users
    BY <1>1, Others DEF FreshInv
  <1>2. CASE Quiet(p)
    BY <1>2, <1>1, QuietFrame, QuietTargets DEF tables, history
  <1>3. CASE HangUp(p)
    BY <1>3 DEF HangUp, FreshInv, tables
  <1>4. CASE Request(p)
    <2>1. CASE CreateUser(p)
      <3>1. PICK u \in User \ issued :
               /\ pc' = [pc EXCEPT ![p] = "saveUser"]
               /\ job' = [job EXCEPT ![p] = [user |-> u, team |-> None]]
               /\ issued' = issued \cup {u} /\ UNCHANGED <<users, deleted, led>>
        BY <2>1 DEF CreateUser, Starts, Goto, tables
      <3>2. pc'[p] = "saveUser" /\ job'[p].user = u
        BY <3>1 DEF TypeOK, TypeHandlers
      <3> QED
        BY <3>1, <3>2, Others, <1>4 DEF FreshInv
    <2>2. CASE ~CreateUser(p)
      BY <2>2, <1>4, <1>1 DEF Request, DeleteUser, CreateTeam, DeleteTeam, AddMember,
            RemoveMember, AddLeader, RemoveLeader, Starts, Goto, tables, TypeOK, TypeHandlers
    <2> QED
      BY <2>1, <2>2
  <1>5. CASE Writes(p)
    <2>1. pc'[p] # "saveUser" /\ job' = job
      BY <1>5, WriteTargets
    <2>2. CASE SaveUser(p)
      <3>1. /\ pc[p] = "saveUser" /\ users' = users \cup {job[p].user}
            /\ UNCHANGED <<deleted, issued, led>>
        BY <2>2 DEF SaveUser, Write, history
      <3> QED
        BY <3>1, <2>1, <1>5, Others DEF FreshInv
    <2>3. CASE UndoUser(p) \/ DelUser(p)
      <3>1. PICK u : users' = users \ {u} /\ deleted' = deleted \cup ({u} \cap users)
                     /\ UNCHANGED <<issued, led>>
        BY <2>3 DEF UndoUser, DelUser, UserRowGone
      <3> QED
        BY <3>1, <2>1, <1>5, Others DEF FreshInv
    <2>4. CASE ~(SaveUser(p) \/ UndoUser(p) \/ DelUser(p))
      BY <2>4, <1>5, <2>1, <1>1
      DEF Writes, SaveAccount, DelAccount, SaveTeam, DelTeam, InsMember, DelMember, InsLeader,
          RowsExist, DelLeader, SaveRole, history
    <2> QED
      BY <2>2, <2>3, <2>4
  <1> QED
    BY <1>2, <1>3, <1>4, <1>5

LEMMA FreshCorrect == Spec => [](TypeOK /\ FreshInv)
  <1>1. Init => TypeOK /\ FreshInv
    BY InitType, FreshInit
  <1>2. TypeOK /\ FreshInv /\ [Next]_vars => FreshInv'
    <2>1. TypeOK /\ FreshInv /\ Next => FreshInv'
      BY Steps, FreshStep
    <2>2. FreshInv /\ UNCHANGED vars => FreshInv'
      BY DEF FreshInv, vars, tables, history, handlers
    <2> QED
      BY <2>1, <2>2
  <1> QED
    BY <1>1, <1>2, TypeCorrect, PTL DEF Spec

(* However late a handler writes, nothing of a deleted user comes back.    *)
THEOREM DeletedUsersStayDeleted == Spec => []DeletedStaysDeleted
  <1>1. TypeOK /\ FreshInv => DeletedStaysDeleted
    BY DEF TypeOK, TypeTables, FreshInv, DeletedStaysDeleted
  <1> QED
    BY <1>1, FreshCorrect, PTL

LEMMA CopyInit == Init => CopyInv
  BY AdminAssumption DEF Init, CopyInv, RolesAsGranted

(* Reads: the copy is that of a row that is there, less or plus the role.  *)
LEMMA CopyQuiet ==
    ASSUME TypeOK, FreshInv, CopyInv, NEW p \in Proc, Quiet(p)
    PROVE  CopyInv'
  <1>1. UNCHANGED <<accounts, roles, issued, granted>>
    BY QuietFrame DEF tables, history
  <1>2. ASSUME NEW q \in Proc, pc'[q] = "saveRole"
        PROVE  /\ job'[q].user \in issued
               /\ seen'[q].copy \ {TeamLeader} = granted[job'[q].user] \ {TeamLeader}
    <2>1. CASE q # p
      BY <2>1, <1>2, Others DEF CopyInv
    <2>2. CASE q = p
      <3>1. GrantRead(p) \/ RevokeRead(p)
        BY <2>2, <1>2, QuietTargets
      <3>2. /\ job' = job /\ job[p].user \in accounts
            /\ \/ seen'[p].copy = roles[job[p].user] \cup {TeamLeader}
               \/ seen'[p].copy = roles[job[p].user] \ {TeamLeader}
        BY <3>1, <2>2, <1>2, SeenFacts
        DEF GrantRead, RevokeRead, CopyAccount, Select, Goto, TypeOK, TypeHandlers, SeenType
      <3>3. accounts \subseteq issued
        BY DEF TypeOK, TypeTables, FreshInv
      <3> QED
        BY <3>2, <3>3, <2>2 DEF CopyInv, RolesAsGranted
    <2> QED
      BY <2>1, <2>2
  <1> QED
    BY <1>1, <1>2 DEF CopyInv, RolesAsGranted

(* Writes: a row is inserted as granted, or a copy is saved.               *)
LEMMA CopyWrite ==
    ASSUME TypeOK, FreshInv, CopyInv, NEW p \in Proc, Writes(p)
    PROVE  CopyInv'
  <1>1. pc'[p] # "saveRole" /\ job' = job
    BY WriteTargets
  <1>2. issued' = issued /\ granted' = granted
    BY DEF Writes, SaveUser, SaveAccount, UndoUser, DelAccount, DelUser, SaveTeam, DelTeam,
           InsMember, DelMember, InsLeader, DelLeader, SaveRole, UserRowGone, history
  <1>3. \A q \in Proc : pc'[q] = "saveRole" =>
           /\ pc[q] = "saveRole" /\ seen'[q] = seen[q]
    BY <1>1, Others
  <1>4. RolesAsGranted'
    <2>1. CASE SaveAccount(p)
      BY <2>1, <1>2 DEF SaveAccount, CopyInv, RolesAsGranted, TypeOK, TypeTables
    <2>2. CASE SaveRole(p)
      <3>1. pc[p] = "saveRole" /\ job[p].user \in users
            /\ accounts' = accounts \cup {job[p].user}
            /\ roles' = [roles EXCEPT ![job[p].user] = seen[p].copy]
        BY <2>2 DEF SaveRole, Write
      <3> QED
        BY <3>1, <1>2 DEF CopyInv, RolesAsGranted, TypeOK, TypeTables
    <2>3. CASE ~(SaveAccount(p) \/ SaveRole(p))
      <3>1. accounts' \subseteq accounts /\ roles' = roles
        BY <2>3 DEF Writes, SaveUser, UndoUser, DelAccount, DelUser, SaveTeam, DelTeam,
              InsMember, DelMember, InsLeader, DelLeader, UserRowGone
      <3> QED
        BY <3>1, <1>2 DEF CopyInv, RolesAsGranted
    <2> QED
      BY <2>1, <2>2, <2>3
  <1> QED
    BY <1>1, <1>2, <1>3, <1>4 DEF CopyInv

LEMMA CopyRequest ==
    ASSUME TypeOK, FreshInv, CopyInv, NEW p \in Proc, Request(p) \/ HangUp(p)
    PROVE  CopyInv'
  <1>1. accounts \subseteq issued
    BY DEF TypeOK, TypeTables, FreshInv
  <1>2. UNCHANGED <<accounts, roles, seen>> /\ issued \subseteq issued'
    BY DEF Request, CreateUser, DeleteUser, CreateTeam, DeleteTeam, AddMember, RemoveMember,
           AddLeader, RemoveLeader, Starts, HangUp, tables
  <1>3. \A u \in issued : granted'[u] = granted[u]
    <2>1. CASE CreateUser(p)
      BY <2>1 DEF CreateUser, TypeOK, TypeHistory
    <2>2. CASE ~CreateUser(p)
      BY <2>2 DEF Request, DeleteUser, CreateTeam, DeleteTeam, AddMember, RemoveMember,
            AddLeader, RemoveLeader, HangUp
    <2> QED
      BY <2>1, <2>2
  <1>4. pc'[p] = "saveRole" => pc[p] = "saveRole" /\ job' = job
    <2>1. CASE HangUp(p)
      BY <2>1 DEF HangUp
    <2>2. CASE Request(p)
      <3>1. pc'[p] # "saveRole"
        BY <2>2 DEF Request, CreateUser, DeleteUser, CreateTeam, DeleteTeam, AddMember,
              RemoveMember, AddLeader, RemoveLeader, Starts, Goto, TypeOK, TypeHandlers
      <3> QED
        BY <3>1
    <2> QED
      BY <2>1, <2>2
  <1>5. \A q \in Proc : pc'[q] = "saveRole" => pc[q] = "saveRole" /\ job'[q] = job[q]
    BY <1>4, Others
  <1> QED
    BY <1>1, <1>2, <1>3, <1>5 DEF CopyInv, RolesAsGranted

(* What is about to be saved differs from the row in TEAM_LEADER at most.  *)
LEMMA CopyCorrect == Spec => [](TypeOK /\ FreshInv /\ CopyInv)
  <1>1. TypeOK /\ FreshInv /\ CopyInv /\ [Next]_vars => CopyInv'
    <2>1. TypeOK /\ FreshInv /\ CopyInv /\ Next => CopyInv'
      BY Steps, CopyQuiet, CopyWrite, CopyRequest
    <2>2. CopyInv /\ UNCHANGED vars => CopyInv'
      BY DEF CopyInv, RolesAsGranted, vars, tables, history, handlers
    <2> QED
      BY <2>1, <2>2
  <1> QED
    BY CopyInit, <1>1, FreshCorrect, PTL DEF Spec

(* No interleaving of the handlers changes a role but TEAM_LEADER.         *)
THEOREM OnlyLeaderRoleMoves == Spec => []RolesAsGranted
  <1>1. CopyInv => RolesAsGranted
    BY DEF CopyInv
  <1> QED
    BY <1>1, CopyCorrect, PTL

(***************************************************************************)
(* Users and accounts, when nothing disturbs the handlers.                 *)
(***************************************************************************)

(* Without faults and hang-ups every context is live.                      *)
CalmInv == Undisturbed => /\ \A p \in Proc : ctx[p] = "live"
                          /\ HalfInv

(* An undisturbed step: nothing was wrong before it, and it is none of the *)
(* steps that are caused by a fault or a hang-up.                          *)
LEMMA CalmFacts ==
    ASSUME TypeOK, CalmInv, NEW p \in Proc, Request(p) \/ HangUp(p) \/ Quiet(p) \/ Writes(p),
           Undisturbed'
    PROVE  /\ Undisturbed /\ faults' = faults
           /\ HalfInv /\ \A q \in Proc : ctx[q] = "live"
           /\ ~Fails(p) /\ ~HangUp(p) /\ ctx'[p] = "live"
  <1> USE DEF TypeOK, TypeHandlers
  <1>1. faults <= faults' /\ (hungUp => hungUp')
    <2>1. CASE Request(p) \/ HangUp(p)
      BY <2>1 DEF Request, CreateUser, DeleteUser, CreateTeam, DeleteTeam, AddMember,
            RemoveMember, AddLeader, RemoveLeader, Starts, HangUp
    <2>2. CASE Quiet(p)
      <3>1. hungUp' = hungUp
        BY <2>2, QuietFrame DEF history
      <3>2. \/ faults' = faults \/ faults' = faults + 1
        BY <2>2
        DEF Quiet, Reply, Fails, UserNameTaken, AccountRefused, Refused, FindTeams, LoadTeam,
            CheckSole, FindUser, TeamRefused, FindTeam, ReadLeaders, MemberRefused, CheckLeader,
            ReadMembers, LeaderRefused, CountLeaders, GrantRead, RevokeRead, CopyAccount,
            RoleRefused, NextRole, ListTeams, LoadLeaders, CheckOrphaned, Cut
      <3> QED
        BY <3>1, <3>2, SeenFacts
    <2>3. CASE Writes(p)
      <3>1. hungUp' = hungUp
        BY <2>3 DEF Writes, SaveUser, SaveAccount, UndoUser, DelAccount, DelUser, SaveTeam,
              DelTeam, InsMember, DelMember, InsLeader, DelLeader, SaveRole, UserRowGone, history
      <3>2. \/ faults' = faults \/ faults' = faults + 1
        BY <2>3 DEF Writes, SaveUser, SaveAccount, UndoUser, DelAccount, DelUser, SaveTeam,
              DelTeam, InsMember, DelMember, InsLeader, DelLeader, SaveRole, Write
      <3> QED
        BY <3>1, <3>2, SeenFacts
    <2> QED
      BY <2>1, <2>2, <2>3
  <1>2. Undisturbed /\ faults' = faults /\ ~hungUp'
    BY <1>1, AdminAssumption DEF Undisturbed, TypeHistory
  <1>3. (\A q \in Proc : ctx[q] = "live") /\ HalfInv
    BY <1>2 DEF CalmInv
  <1>4. ~Fails(p) /\ ~HangUp(p)
    BY <1>2, <1>3, AdminAssumption DEF Fails, HangUp
  <1>5. ctx'[p] = "live"
    BY <1>3, <1>4, WriteTargets
    DEF Request, CreateUser, DeleteUser, CreateTeam, DeleteTeam, AddMember,
        RemoveMember, AddLeader, RemoveLeader, Starts,
        Quiet, Reply, UserNameTaken, AccountRefused, Refused, FindTeams, LoadTeam,
        CheckSole, FindUser, TeamRefused, FindTeam, ReadLeaders, MemberRefused, CheckLeader,
        ReadMembers, LeaderRefused, CountLeaders, GrantRead, RevokeRead, CopyAccount,
        RoleRefused, NextRole, ListTeams, LoadLeaders, CheckOrphaned, Select
  <1> QED
    BY <1>2, <1>3, <1>4, <1>5

LEMMA CalmStep ==
    ASSUME TypeOK, CalmInv, NEW p \in Proc, Request(p) \/ HangUp(p) \/ Quiet(p) \/ Writes(p)
    PROVE  CalmInv'
  <1> SUFFICES ASSUME Undisturbed' PROVE (\A q \in Proc : ctx'[q] = "live") /\ HalfInv'
    BY DEF CalmInv
  <1>1. Undisturbed /\ faults' = faults
    BY CalmFacts
  <1>2. (\A q \in Proc : ctx[q] = "live") /\ HalfInv
    BY CalmFacts
  <1>3. ~Fails(p) /\ ~HangUp(p)
    BY CalmFacts
  <1>4. ctx'[p] = "live"
    BY CalmFacts
  <1> USE DEF TypeOK, TypeHandlers
  <1>5. \A q \in Proc : ctx'[q] = "live"
    BY <1>2, <1>4, Others
  <1> DEFINE Half(q) == pc[q] \in {"saveAccount", "undoUser", "delUser"}
  <1>6. \A u \in users' \ accounts' : \E q \in Proc :
           job'[q].user = u /\ pc'[q] \in {"saveAccount", "undoUser", "delUser"}
    <2>1. CASE UNCHANGED <<users, accounts>> /\ ~Half(p)
      <3> SUFFICES ASSUME NEW u \in users \ accounts
                   PROVE  \E q \in Proc : job'[q].user = u
                             /\ pc'[q] \in {"saveAccount", "undoUser", "delUser"}
        BY <2>1
      <3>1. PICK q \in Proc : job[q].user = u /\ Half(q)
        BY <1>2 DEF HalfInv
      <3> QED
        BY <3>1, <2>1, Others
    <2>2. CASE Request(p)
      <3>1. pc[p] = "idle" /\ UNCHANGED <<users, accounts>>
        BY <2>2 DEF Request, CreateUser, DeleteUser, CreateTeam, DeleteTeam, AddMember,
              RemoveMember, AddLeader, RemoveLeader, Starts, tables
      <3> QED
        BY <3>1, <2>1
    <2>3. CASE Quiet(p)
      <3>1. UNCHANGED <<users, accounts>>
        BY <2>3, QuietFrame DEF tables
      <3>2. CASE AccountRefused(p)
        <4>1. job[p].user \notin users
          BY <3>2 DEF AccountRefused
        <4> SUFFICES ASSUME NEW u \in users \ accounts
                     PROVE  \E q \in Proc : job'[q].user = u
                               /\ pc'[q] \in {"saveAccount", "undoUser", "delUser"}
          BY <3>1
        <4>2. PICK q \in Proc : job[q].user = u /\ Half(q)
          BY <1>2 DEF HalfInv
        <4> QED
          BY <4>1, <4>2, Others, <2>3
      <3>3. CASE ~AccountRefused(p)
        <4>1. ~Half(p)
          BY <3>3, <2>3, <1>3 DEF Quiet, Reply, UserNameTaken, Refused, FindTeams, LoadTeam,
                CheckSole, FindUser, TeamRefused, FindTeam, ReadLeaders, MemberRefused,
                CheckLeader, ReadMembers, LeaderRefused, CountLeaders, GrantRead, RevokeRead,
                CopyAccount, RoleRefused, NextRole, ListTeams, LoadLeaders, CheckOrphaned, Select
        <4> QED
          BY <4>1, <3>1, <2>1
      <3> QED
        BY <3>2, <3>3
    <2>4. CASE Writes(p)
      <3>1. job' = job
        BY <2>4, WriteTargets
      <3>2. CASE SaveUser(p)
        <4>1. /\ pc[p] = "saveUser" /\ pc'[p] = "saveAccount"
              /\ users' = users \cup {job[p].user} /\ accounts' = accounts
          BY <3>2, <1>1 DEF SaveUser, Write, Goto
        <4> SUFFICES ASSUME NEW u \in users' \ accounts
                     PROVE  \E q \in Proc : job[q].user = u
                               /\ pc'[q] \in {"saveAccount", "undoUser", "delUser"}
          BY <4>1, <3>1
        <4>2. CASE u = job[p].user
          BY <4>1, <4>2
        <4>3. CASE u \in users
          <5>1. PICK q \in Proc : job[q].user = u /\ Half(q)
            BY <1>2, <4>3 DEF HalfInv
          <5> QED
            BY <5>1, <4>1, Others, <2>4
        <4> QED
          BY <4>1, <4>2, <4>3
      <3>3. CASE DelAccount(p)
        <4>1. /\ pc[p] = "delAccount" /\ pc'[p] = "delUser"
              /\ accounts' = accounts \ {job[p].user} /\ users' = users
          BY <3>3, <1>1 DEF DelAccount, Write, Goto
        <4> SUFFICES ASSUME NEW u \in users \ accounts'
                     PROVE  \E q \in Proc : job[q].user = u
                               /\ pc'[q] \in {"saveAccount", "undoUser", "delUser"}
          BY <4>1, <3>1
        <4>2. CASE u = job[p].user
          BY <4>1, <4>2
        <4>3. CASE u \notin accounts
          <5>1. PICK q \in Proc : job[q].user = u /\ Half(q)
            BY <1>2, <4>3 DEF HalfInv
          <5> QED
            BY <5>1, <4>1, Others, <2>4
        <4> QED
          BY <4>1, <4>2, <4>3
      <3>4. CASE ~(SaveUser(p) \/ DelAccount(p))
        <4>1. /\ users' \ accounts' \subseteq users \ accounts
              /\ Half(p) => job[p].user \notin users' \ accounts'
          <5>1. CASE SaveAccount(p)
            BY <5>1 DEF SaveAccount, Write
          <5>2. CASE UndoUser(p) \/ DelUser(p)
            BY <5>2 DEF UndoUser, DelUser, UserRowGone
          <5>3. CASE SaveRole(p)
            BY <5>3 DEF SaveRole, Write
          <5>4. CASE SaveTeam(p) \/ DelTeam(p) \/ InsMember(p) \/ DelMember(p)
                     \/ InsLeader(p) \/ DelLeader(p)
            BY <5>4 DEF SaveTeam, DelTeam, InsMember, DelMember, InsLeader, DelLeader, Write
          <5> QED
            BY <3>4, <2>4, <5>1, <5>2, <5>3, <5>4 DEF Writes
        <4> SUFFICES ASSUME NEW u \in users' \ accounts'
                     PROVE  \E q \in Proc : job[q].user = u
                               /\ pc'[q] \in {"saveAccount", "undoUser", "delUser"}
          BY <3>1
        <4>2. PICK q \in Proc : job[q].user = u /\ Half(q)
          BY <1>2, <4>1 DEF HalfInv
        <4>3. q # p
          BY <4>1, <4>2
        <4> QED
          BY <4>2, <4>3, Others, <2>4
      <3> QED
        BY <3>2, <3>3, <3>4
    <2> QED
      BY <1>3, <2>2, <2>3, <2>4
  <1> QED
    BY <1>5, <1>6 DEF HalfInv

(* Undisturbed, no handler is cancelled and no account is missing for long.*)
LEMMA CalmCorrect == Spec => [](TypeOK /\ CalmInv)
  <1>1. Init => CalmInv
    BY DEF Init, CalmInv, HalfInv
  <1>2. TypeOK /\ CalmInv /\ [Next]_vars => CalmInv'
    <2>1. TypeOK /\ CalmInv /\ Next => CalmInv'
      BY Steps, CalmStep
    <2>2. CalmInv /\ UNCHANGED vars => CalmInv'
      BY DEF CalmInv, HalfInv, Undisturbed, vars, tables, history, handlers
    <2> QED
      BY <2>1, <2>2
  <1> QED
    BY <1>1, <1>2, TypeCorrect, PTL DEF Spec

(* CreateUser and DeleteUser, undisturbed, leave no user without account,  *)
(* whatever the other handlers write between their two statements.         *)
THEOREM AccountsComeAndGoWithUsers == Spec => []UsersHaveAccounts
  <1>1. TypeOK /\ CalmInv => UsersHaveAccounts
    <2> SUFFICES ASSUME TypeOK, CalmInv, AtRest, Undisturbed PROVE accounts = users
      BY DEF UsersHaveAccounts
    <2>1. accounts \subseteq users
      BY DEF TypeOK, TypeTables
    <2>2. users \ accounts = {}
      BY DEF CalmInv, HalfInv, AtRest
    <2> QED
      BY <2>1, <2>2
  <1> QED
    BY <1>1, CalmCorrect, PTL
=============================================================================
