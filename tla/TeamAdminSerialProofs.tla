------------------------ MODULE TeamAdminSerialProofs ------------------------
(***************************************************************************)
(* Theorems about TeamAdmin when its handlers run one after the other: the *)
(* checks they make before they write then still hold at the write.        *)
(***************************************************************************)
EXTENDS TeamAdminProofs

(* There is one handler at most.                                           *)
Alone == \A p, q \in Proc : p = q

(* No statement fails on a live context, and none loses answer or rows.    *)
NoFaults == MaxFaults = 0

(* A request starts at a check, never at a write it has to guard.          *)
LEMMA RequestTargets ==
    ASSUME TypeOK, NEW p \in Proc, Request(p)
    PROVE  /\ pc'[p] \in {"saveUser", "findTeams", "findUser", "findTeam", "insMember",
                          "checkLeader", "findForLeader", "countLeaders"}
           /\ UNCHANGED <<tables, ctx, seen, faults>>
  BY DEF Request, CreateUser, DeleteUser, CreateTeam, DeleteTeam, AddMember, RemoveMember,
         AddLeader, RemoveLeader, Starts, Goto, TypeOK, TypeHandlers

(***************************************************************************)
(* Leaders are members.                                                    *)
(***************************************************************************)

LEMMA MemberInit == Init => MemberInv
  BY DEF Init, MemberInv, LeadersAreMembers

LEMMA MemberPreserved ==
    ASSUME TypeOK, Alone, MemberInv, NEW p \in Proc,
           Request(p) \/ HangUp(p) \/ Quiet(p) \/ Writes(p)
    PROVE  MemberInv'
  <1> USE DEF TypeOK
  <1>1. \A q \in Proc : q = p
    BY DEF Alone
  <1>2. CASE Request(p)
    BY <1>1, <1>2, RequestTargets DEF MemberInv, LeadersAreMembers, tables
  <1>3. CASE HangUp(p)
    BY <1>3 DEF HangUp, MemberInv, LeadersAreMembers, tables
  <1>4. CASE Quiet(p)
    <2>1. UNCHANGED <<members, leaders>>
      BY <1>4, QuietFrame DEF tables
    <2>2. pc'[p] = "insLeader" => job'[p].user \in members[job'[p].team]
      BY <1>4, QuietTargets DEF ReadMembers, Select, Goto, TypeHandlers
    <2>3. pc'[p] = "delMember" => job'[p].user \notin leaders[job'[p].team]
      BY <1>4, QuietTargets DEF CheckLeader, Select, Goto, TypeHandlers
    <2> QED
      BY <1>1, <2>1, <2>2, <2>3 DEF MemberInv, LeadersAreMembers
  <1>5. CASE Writes(p)
    <2>1. pc'[p] \notin {"insLeader", "delMember"}
      BY <1>5, WriteTargets
    <2>2. LeadersAreMembers'
      <3>1. CASE InsLeader(p)
        <4>1. pc[p] = "insLeader"
          BY <3>1 DEF InsLeader, Write
        <4> QED
          BY <3>1, <4>1 DEF InsLeader, MemberInv, LeadersAreMembers, TypeTables
      <3>2. CASE DelMember(p)
        <4>1. pc[p] = "delMember"
          BY <3>2 DEF DelMember, Write
        <4> QED
          BY <3>2, <4>1 DEF DelMember, MemberInv, LeadersAreMembers, TypeTables
      <3>3. CASE UndoUser(p) \/ DelUser(p)
        BY <3>3 DEF UndoUser, DelUser, UserRowGone, MemberInv, LeadersAreMembers
      <3>4. CASE SaveTeam(p) \/ DelTeam(p)
        BY <3>4 DEF SaveTeam, DelTeam, MemberInv, LeadersAreMembers, TypeTables
      <3>5. CASE InsMember(p) \/ DelLeader(p)
        BY <3>5 DEF InsMember, DelLeader, MemberInv, LeadersAreMembers, TypeTables
      <3>6. CASE SaveUser(p) \/ SaveAccount(p) \/ DelAccount(p) \/ SaveRole(p)
        BY <3>6 DEF SaveUser, SaveAccount, DelAccount, SaveRole, MemberInv, LeadersAreMembers
      <3> QED
        BY <1>5, <3>1, <3>2, <3>3, <3>4, <3>5, <3>6 DEF Writes
    <2> QED
      BY <1>1, <2>1, <2>2 DEF MemberInv
  <1> QED
    BY <1>2, <1>3, <1>4, <1>5

LEMMA MemberCorrect ==
    ASSUME Alone
    PROVE  Spec => [](TypeOK /\ MemberInv)
  <1>1. TypeOK /\ MemberInv /\ [Next]_vars => MemberInv'
    <2>1. TypeOK /\ MemberInv /\ Next => MemberInv'
      BY Steps, MemberPreserved
    <2>2. MemberInv /\ UNCHANGED vars => MemberInv'
      BY DEF MemberInv, LeadersAreMembers, vars, tables, handlers
    <2> QED
      BY <2>1, <2>2
  <1> QED
    BY MemberInit, <1>1, TypeCorrect, PTL DEF Spec

(* One after the other, AddLeader and RemoveMember keep the leaders of a   *)
(* team among its members, whatever fails and whoever hangs up.            *)
THEOREM LeadersStayMembers ==
    ASSUME Alone
    PROVE  Spec => []LeadersAreMembers
  <1>1. MemberInv => LeadersAreMembers
    BY DEF MemberInv
  <1> QED
    BY <1>1, MemberCorrect, PTL

(***************************************************************************)
(* Teams have leaders.                                                     *)
(***************************************************************************)

(* Without faults only a hang-up makes a statement fail, every answer      *)
(* arrives and no rows are lost.                                           *)
LEMMA NoFaultFacts ==
    ASSUME TypeOK, NoFaults
    PROVE  /\ ~(faults < MaxFaults)
           /\ \A R, S : Cut(R, S) => R = S
           /\ \A p \in Proc : Fails(p) => ctx[p] = "cancelled"
           /\ \A p \in Proc : \A at, next : Write(p, at, next) => pc'[p] = next
  BY DEF TypeOK, TypeHandlers, NoFaults, Cut, Fails, Write, Goto

LEMMA LedInit == Init => LedInv
  BY DEF Init, LedInv, TeamsLed

(* Two leaders at least: one of them is somebody else.                     *)
LEMMA AnotherLeader ==
    ASSUME NEW S, IsFiniteSet(S), ~(Cardinality(S) <= 1), NEW u
    PROVE  \E v \in S : v # u
  <1> SUFFICES ASSUME S \subseteq {u} PROVE FALSE
    OBVIOUS
  <1>1. Cardinality(S) <= Cardinality({u}) /\ Cardinality(S) \in Nat
    BY FS_Subset, FS_Singleton, FS_CardinalityType
  <1>2. Cardinality({u}) = 1
    BY FS_Singleton
  <1> QED
    BY <1>1, <1>2

LEMMA LedQuiet ==
    ASSUME TypeOK, Alone, NoFaults, MemberInv, LedInv, NEW p \in Proc, Quiet(p)
    PROVE  LedInv'
  <1> USE DEF TypeOK
  <1>1. \A q \in Proc : q = p
    BY DEF Alone
  <1>2. UNCHANGED <<users, teams, members, leaders>>
    BY QuietFrame DEF tables
  <1>3. ASSUME pc'[p] = "delLeader"
        PROVE  \E u \in leaders[job'[p].team] : u # job'[p].user
    <2>1. /\ job' = job /\ job[p].team \in Team
          /\ ~(Cardinality(leaders[job[p].team]) <= 1)
      BY <1>3, QuietTargets DEF CountLeaders, Select, Goto, TypeHandlers, ForTeam
    <2>2. IsFiniteSet(leaders[job[p].team])
      BY <2>1, AdminAssumption, FS_Subset DEF TypeTables
    <2> QED
      BY <2>1, <2>2, AnotherLeader
  <1>4. ASSUME pc'[p] = "loadTeams", ~seen'[p].hit, NEW t \in teams,
               leaders[t] = {job'[p].user}
        PROVE  t \in seen'[p].todo
    <2>1. CASE FindTeams(p)
      <3>1. /\ job' = job
            /\ seen'[p].todo = {s \in teams : job[p].user \in members[s]}
        BY <2>1, NoFaultFacts, SeenFacts DEF FindTeams, SeenType
      <3> QED
        BY <3>1, <1>4 DEF MemberInv, LeadersAreMembers, TypeTables
    <2>2. CASE LoadTeam(p)
      <3>1. pc[p] = "loadTeams" /\ job' = job
        BY <2>2 DEF LoadTeam, Select
      <3>2. PICK s \in seen[p].todo :
               seen' = [seen EXCEPT ![p].todo = @ \ {s},
                                    ![p].hit = @ \/ leaders[s] = {job[p].user}]
        BY <2>2, NoFaultFacts DEF LoadTeam
      <3>3. /\ seen'[p].todo = seen[p].todo \ {s}
            /\ seen'[p].hit = (seen[p].hit \/ leaders[s] = {job[p].user})
        BY <3>2, SeenFacts DEF SeenType
      <3> QED
        BY <3>1, <3>3, <1>4 DEF LedInv
    <2> QED
      BY <1>4, <2>1, <2>2, QuietTargets
  <1>5. ASSUME pc'[p] \in {"delAccount", "delUser", "undoUser"}, ctx'[p] = "live"
        PROVE  \A t \in teams : leaders[t] # {job'[p].user}
    <2>1. ~Fails(p)
      BY <1>5, NoFaultFacts DEF Fails
    <2>2. CASE CheckSole(p)
      <3>1. pc[p] = "loadTeams" /\ seen[p].todo = {} /\ ~seen[p].hit /\ job' = job
        BY <2>2, <1>5 DEF CheckSole, Goto, TypeHandlers
      <3> QED
        BY <3>1 DEF LedInv
    <2>3. CASE AccountRefused(p)
      BY <2>3 DEF AccountRefused, Refused, TypeTables
    <2> QED
      BY <1>5, <2>1, <2>2, <2>3, QuietTargets
  <1> QED
    BY <1>1, <1>2, <1>3, <1>4, <1>5 DEF LedInv, TeamsLed, Dispensable

LEMMA LedWrite ==
    ASSUME TypeOK, Alone, NoFaults, LedInv, NEW p \in Proc, Writes(p)
    PROVE  LedInv'
  <1> USE DEF TypeOK
  <1>1. \A q \in Proc : q = p
    BY DEF Alone
  <1>2. TeamsLed'
    <2>1. CASE UndoUser(p) \/ DelUser(p)
      <3>1. Dispensable(job[p].user) /\ UserRowGone(job[p].user)
        BY <2>1 DEF UndoUser, DelUser, Write, LedInv
      <3> QED
        BY <3>1 DEF Dispensable, UserRowGone, LedInv, TeamsLed, TypeTables
    <2>2. CASE DelLeader(p)
      <3>1. \E u \in leaders[job[p].team] : u # job[p].user
        BY <2>2 DEF DelLeader, Write, LedInv
      <3> QED
        BY <2>2, <3>1 DEF DelLeader, LedInv, TeamsLed, TypeTables
    <2>3. CASE SaveTeam(p)
      <3>1. job[p].team \in Team
        BY <2>3 DEF SaveTeam, Write, TypeHandlers, ForTeam
      <3> QED
        BY <2>3, <3>1 DEF SaveTeam, LedInv, TeamsLed, TypeTables
    <2>4. CASE DelTeam(p) \/ InsLeader(p)
      BY <2>4 DEF DelTeam, InsLeader, LedInv, TeamsLed, TypeTables
    <2>5. CASE UNCHANGED <<teams, leaders>>
      BY <2>5 DEF LedInv, TeamsLed
    <2> QED
      BY <2>1, <2>2, <2>3, <2>4, <2>5
      DEF Writes, SaveUser, SaveAccount, DelAccount, InsMember, DelMember, SaveRole
  <1>3. pc'[p] \notin {"delLeader", "loadTeams", "delAccount"}
    BY WriteTargets
  <1>4. ASSUME pc'[p] \in {"delUser", "undoUser"}
        PROVE  DelAccount(p)
    <2>1. SaveAccount(p) => pc'[p] = "reply"
      BY NoFaultFacts DEF SaveAccount
    <2> QED
      BY <1>4, <2>1, WriteTargets
  <1>5. DelAccount(p) => Dispensable(job[p].user) /\ UNCHANGED <<teams, leaders, job>>
    BY DEF DelAccount, Write, LedInv
  <1> QED
    BY <1>1, <1>2, <1>3, <1>4, <1>5 DEF LedInv, Dispensable

LEMMA LedRequest ==
    ASSUME TypeOK, Alone, LedInv, NEW p \in Proc, Request(p) \/ HangUp(p)
    PROVE  LedInv'
  <1>1. \A q \in Proc : q = p
    BY DEF Alone
  <1>2. CASE Request(p)
    BY <1>1, <1>2, RequestTargets DEF LedInv, TeamsLed, Dispensable, tables
  <1>3. CASE HangUp(p)
    <2>1. ctx'[p] = "cancelled" /\ UNCHANGED <<teams, leaders, pc, job, seen>>
      BY <1>3 DEF HangUp, tables, TypeOK, TypeHandlers
    <2> QED
      BY <1>1, <2>1 DEF LedInv, TeamsLed, Dispensable
  <1> QED
    BY <1>2, <1>3

LEMMA LedCorrect ==
    ASSUME Alone, NoFaults
    PROVE  Spec => [](TypeOK /\ MemberInv /\ LedInv)
  <1>1. TypeOK /\ MemberInv /\ LedInv /\ [Next]_vars => LedInv'
    <2>1. TypeOK /\ MemberInv /\ LedInv /\ Next => LedInv'
      BY Steps, LedQuiet, LedWrite, LedRequest
    <2>2. LedInv /\ UNCHANGED vars => LedInv'
      BY DEF LedInv, TeamsLed, Dispensable, vars, tables, handlers
    <2> QED
      BY <2>1, <2>2
  <1> QED
    BY LedInit, <1>1, MemberCorrect, PTL DEF Spec

(* One after the other, and unless a statement fails by itself, no handler *)
(* leaves a team without a leader.                                         *)
THEOREM TeamsStayLed ==
    ASSUME Alone, NoFaults
    PROVE  Spec => []TeamsLed
  <1>1. LedInv => TeamsLed
    BY DEF LedInv
  <1> QED
    BY <1>1, LedCorrect, PTL

(***************************************************************************)
(* The handlers implement the policy.                                      *)
(***************************************************************************)

(* The team about to be created is not there yet.                          *)
FoundInv ==
    /\ teams \subseteq issued
    /\ \A p \in Proc : pc[p] \in {"findUser", "saveTeam"} =>
          job[p].team \in issued \ teams

LEMMA FoundPreserved ==
    ASSUME TypeOK, Alone, FoundInv, NEW p \in Proc,
           Request(p) \/ HangUp(p) \/ Quiet(p) \/ Writes(p)
    PROVE  FoundInv'
  <1> USE DEF TypeOK
  <1>1. \A q \in Proc : q = p
    BY DEF Alone
  <1>2. CASE CreateTeam(p)
    <2>1. PICK t \in Team \ issued, u \in User :
             /\ job' = [job EXCEPT ![p] = [user |-> u, team |-> t]]
             /\ issued' = issued \cup {t} /\ UNCHANGED teams
      BY <1>2 DEF CreateTeam, Starts, tables
    <2>2. job'[p].team = t
      BY <2>1 DEF TypeHandlers
    <2> QED
      BY <1>1, <2>1, <2>2 DEF FoundInv
  <1>3. CASE Request(p) /\ ~CreateTeam(p)
    <2>1. pc'[p] \notin {"findUser", "saveTeam"}
      BY <1>3 DEF Request, CreateUser, DeleteUser, DeleteTeam, AddMember, RemoveMember,
            AddLeader, RemoveLeader, Starts, Goto, TypeHandlers
    <2>2. issued \subseteq issued' /\ UNCHANGED teams
      BY <1>3 DEF Request, CreateUser, DeleteUser, DeleteTeam, AddMember, RemoveMember,
            AddLeader, RemoveLeader, Starts, tables
    <2> QED
      BY <1>1, <2>1, <2>2 DEF FoundInv
  <1>4. CASE HangUp(p)
    BY <1>4 DEF HangUp, FoundInv, tables
  <1>5. CASE Quiet(p)
    <2>1. UNCHANGED <<teams, issued>>
      BY <1>5, QuietFrame DEF tables, history
    <2>2. pc'[p] # "findUser" /\ (pc'[p] = "saveTeam" => FindUser(p))
      BY <1>5, Targets DEF Quiet
    <2>3. FindUser(p) => pc[p] = "findUser" /\ job' = job
      BY DEF FindUser, Select
    <2> QED
      BY <1>1, <2>1, <2>2, <2>3 DEF FoundInv
  <1>6. CASE Writes(p)
    <2>1. pc'[p] \notin {"findUser", "saveTeam"}
      BY <1>6, WriteTargets
    <2>2. CASE SaveTeam(p)
      <3>1. pc[p] = "saveTeam" /\ teams' = teams \cup {job[p].team} /\ issued' = issued
        BY <2>2 DEF SaveTeam, Write, history
      <3> QED
        BY <1>1, <2>1, <3>1 DEF FoundInv
    <2>3. CASE ~SaveTeam(p)
      <3>1. teams' \subseteq teams /\ issued' = issued
        BY <1>6, <2>3 DEF Writes, SaveUser, SaveAccount, UndoUser, DelAccount, DelUser, DelTeam,
              InsMember, DelMember, InsLeader, DelLeader, SaveRole, UserRowGone, history
      <3> QED
        BY <1>1, <2>1, <3>1 DEF FoundInv
    <2> QED
      BY <2>2, <2>3
  <1> QED
    BY <1>2, <1>3, <1>4, <1>5, <1>6

(* Each write is a decision that the policy allows.                        *)
LEMMA WriteAllowed ==
    ASSUME TypeOK, MemberInv, LedInv, FoundInv, NEW p \in Proc, Writes(p)
    PROVE  Policy!Next \/ UNCHANGED Policy!vars
  <1> DEFINE u == job[p].user
             t == job[p].team
  <1> USE DEF TypeOK
  <1>1. CASE SaveUser(p)
    <2>1. u \in User /\ Policy!Hire(u)
      BY <1>1 DEF SaveUser, Write, TypeHandlers, Statements, NoUser, Policy!Hire
    <2> QED
      BY <2>1 DEF Policy!Next
  <1>2. CASE UndoUser(p) \/ DelUser(p)
    <2>1. u \in User /\ Dispensable(u)
      BY <1>2 DEF UndoUser, DelUser, Write, TypeHandlers, Statements, NoUser, LedInv
    <2>2. Policy!Dismiss(u)
      BY <1>2, <2>1 DEF UndoUser, DelUser, UserRowGone, Dispensable, Policy!Dismiss
    <2> QED
      BY <2>1, <2>2 DEF Policy!Next
  <1>3. CASE SaveTeam(p)
    <2>1. t \in Team /\ u \in users /\ users \subseteq User /\ t \notin teams
      BY <1>3 DEF SaveTeam, Write, TypeHandlers, ForTeam, TypeTables, FoundInv
    <2>2. Policy!Found(t, u)
      BY <1>3, <2>1 DEF SaveTeam, Policy!Found
    <2> QED
      BY <2>1, <2>2 DEF Policy!Next
  <1>4. CASE DelTeam(p)
    <2>1. t \in Team /\ Policy!Dissolve(t)
      BY <1>4 DEF DelTeam, Write, TypeHandlers, ForTeam, NoUser, Policy!Dissolve
    <2> QED
      BY <2>1 DEF Policy!Next
  <1>5. CASE InsMember(p)
    <2>1. t \in Team /\ u \in User /\ Policy!Join(t, u)
      BY <1>5 DEF InsMember, RowsExist, TypeTables, Policy!Join
    <2> QED
      BY <2>1 DEF Policy!Next
  <1>6. CASE DelMember(p)
    <2>1. t \in Team /\ u \in User /\ u \notin leaders[t]
      BY <1>6 DEF DelMember, Write, TypeHandlers, ForTeam, Statements, NoUser, MemberInv
    <2>2. Policy!Leave(t, u)
      BY <1>6, <2>1 DEF DelMember, Policy!Leave
    <2> QED
      BY <2>1, <2>2 DEF Policy!Next
  <1>7. CASE InsLeader(p)
    <2>1. t \in teams /\ teams \subseteq Team /\ u \in User /\ u \in members[t]
      BY <1>7 DEF InsLeader, RowsExist, Write, TypeTables, MemberInv
    <2>2. Policy!Promote(t, u)
      BY <1>7, <2>1 DEF InsLeader, Policy!Promote
    <2> QED
      BY <2>1, <2>2 DEF Policy!Next
  <1>8. CASE DelLeader(p)
    <2>1. t \in Team /\ u \in User /\ leaders[t] # {u}
      BY <1>8 DEF DelLeader, Write, TypeHandlers, ForTeam, Statements, NoUser, LedInv
    <2>2. Policy!Demote(t, u)
      BY <1>8, <2>1 DEF DelLeader, Policy!Demote
    <2> QED
      BY <2>1, <2>2 DEF Policy!Next
  <1>9. CASE SaveAccount(p) \/ DelAccount(p) \/ SaveRole(p)
    BY <1>9 DEF SaveAccount, DelAccount, SaveRole, Policy!vars
  <1> QED
    BY <1>1, <1>2, <1>3, <1>4, <1>5, <1>6, <1>7, <1>8, <1>9 DEF Writes

(* The handlers implement the policy: each write is, at its moment, one of *)
(* the decisions that the policy allows.                                   *)
THEOREM PolicyKept ==
    ASSUME Alone, NoFaults
    PROVE  Spec => KeepsPolicy
  <1>1. Init => Policy!Init
    BY DEF Init, Policy!Init
  <1>2. Init => FoundInv
    BY DEF Init, FoundInv
  <1>3. TypeOK /\ FoundInv /\ [Next]_vars => FoundInv'
    <2>1. TypeOK /\ FoundInv /\ Next => FoundInv'
      BY Steps, FoundPreserved
    <2>2. FoundInv /\ UNCHANGED vars => FoundInv'
      BY DEF FoundInv, vars, tables, history, handlers
    <2> QED
      BY <2>1, <2>2
  <1>4. TypeOK /\ MemberInv /\ LedInv /\ FoundInv /\ [Next]_vars
           => [Policy!Next]_(Policy!vars)
    <2>1. ASSUME TypeOK, NEW p \in Proc, Request(p) \/ HangUp(p) \/ Quiet(p)
          PROVE  UNCHANGED Policy!vars
      BY <2>1, RequestTargets, QuietFrame DEF HangUp, tables, Policy!vars
    <2>2. UNCHANGED vars => UNCHANGED Policy!vars
      BY DEF vars, tables, Policy!vars
    <2> QED
      BY <2>1, <2>2, Steps, WriteAllowed
  <1> QED
    BY <1>1, <1>2, <1>3, <1>4, LedCorrect, PTL DEF Spec, KeepsPolicy, Policy!Spec

(***************************************************************************)
(* TEAM_LEADER is derived.                                                 *)
(***************************************************************************)

(* The users whose role the handler has yet to look after.                 *)
Owed(p) ==
    (IF pc[p] \in RoleCheck \cup {"nextRole"} THEN seen[p].former ELSE {})
    \cup (IF pc[p] \in RoleCheck THEN {job[p].user} ELSE {})

(* What a check has found so far, and what it is about to write, agree     *)
(* with the leaders.                                                       *)
CheckInv(p) ==
    LET u == job[p].user IN
    /\ pc[p] = "listTeams" => ~seen[p].hit
    /\ pc[p] = "loadLeaders" =>
          IF seen[p].hit THEN Leads(u)
          ELSE \A t \in teams : u \in leaders[t] => t \in seen[p].todo
    /\ pc[p] = "grantRead" => Leads(u)
    /\ pc[p] = "revokeRead" => ~Leads(u)
    /\ pc[p] = "saveRole" =>
          /\ u \in accounts
          /\ TeamLeader \in seen[p].copy <=> Leads(u)
          /\ seen[p].copy = {} => granted[u] = {TeamLeader}

(* The users owed a check may hold the role in vain; only the one the role *)
(* is being granted to may be without it.                                  *)
OwedInv(p) ==
    \A v \in Owed(p) \cap accounts :
        Leads(v) => \/ TeamLeader \in roles[v]
                    \/ v = job[p].user /\ pc[p] \in {"grantRead", "saveRole"}

(* A handler about to create an account, to delete a team, or with checks   *)
(* to make.                                                                *)
RoleAt(p) ==
    /\ pc[p] \in {"saveUser", "saveAccount"} =>
          ~Leads(job[p].user) /\ job[p].user \notin led
    /\ pc[p] = "delTeam" => leaders[job[p].team] \subseteq seen[p].former
    /\ OwedInv(p)
    /\ CheckInv(p)

(* The roles of those who are owed no check are settled.                   *)
Derived ==
    /\ \A u \in accounts : (\A p \in Proc : u \notin Owed(p)) => Settled(u)
    /\ \A p \in Proc : RoleAt(p)

(* The inductive invariant, and what an account may have been created with.*)
RoleInv == Undisturbed => Derived

GrantInv == granted \in [User -> Offered]

(* With a single handler the invariant is about that handler.              *)
LEMMA Solo ==
    ASSUME Alone, Derived, NEW p \in Proc
    PROVE  /\ RoleAt(p)
           /\ \A u \in accounts \ Owed(p) : Settled(u)
           /\ \A u \in accounts : pc[p] \notin RoleCheck \cup {"nextRole"} => Settled(u)
  <1>1. \A q \in Proc : q = p
    BY DEF Alone
  <1> QED
    BY <1>1 DEF Derived, Owed

(* Who leads nothing but teams that are there leads users that are there.  *)
LEMMA LeadsFacts ==
    ASSUME TypeOK
    PROVE  /\ \A u : Leads(u) => u \in users
           /\ \A u : Leads(u) <=> \E t \in Team : u \in leaders[t]
  BY DEF TypeOK, TypeTables, Leads

(* A step that leaves no role to be looked after: all of them are settled. *)
LEMMA Outside ==
    ASSUME Alone, NEW p \in Proc, TypeOK', pc'[p] \notin RoleCheck \cup {"nextRole"},
           \A u \in accounts' : Settled(u)',
           pc'[p] \in {"saveUser", "saveAccount"} =>
              (~Leads(job[p].user) /\ job[p].user \notin led)',
           pc'[p] = "delTeam" => leaders'[job'[p].team] \subseteq seen'[p].former
    PROVE  Derived'
  <1>1. \A q \in Proc : q = p
    BY DEF Alone
  <1>2. Owed(p)' = {}
    BY DEF Owed
  <1>3. OwedInv(p)'
    BY <1>2 DEF OwedInv
  <1>4. CheckInv(p)'
    BY DEF CheckInv, RoleCheck
  <1>5. RoleAt(p)'
    BY <1>3, <1>4 DEF RoleAt
  <1> QED
    BY <1>1, <1>5 DEF Derived

(* A step within the checks.                                               *)
LEMMA Within ==
    ASSUME Alone, NEW p \in Proc, pc'[p] \in RoleCheck \cup {"nextRole"},
           \A u \in accounts' \ Owed(p)' : Settled(u)',
           OwedInv(p)', CheckInv(p)'
    PROVE  Derived'
  <1>1. \A q \in Proc : q = p
    BY DEF Alone
  <1>2. RoleAt(p)'
    BY DEF RoleAt, RoleCheck
  <1> QED
    BY <1>1, <1>2 DEF Derived

(* The tables that matter, unchanged.                                      *)
LEMMA SettledFrame ==
    ASSUME UNCHANGED <<roles, teams, leaders, granted, led>>, NEW u
    PROVE  /\ Leads(u)' <=> Leads(u)
           /\ Settled(u)' <=> Settled(u)
  BY DEF Leads, Settled, Unearned

(* A request changes nothing yet; a new user leads nothing.                *)
LEMMA RoleRequest ==
    ASSUME TypeOK, TypeOK', Alone, FreshInv, Derived, NEW p \in Proc, Request(p)
    PROVE  Derived'
  <1>1. pc[p] = "idle" /\ UNCHANGED <<accounts, roles, teams, leaders, led>>
    BY RequestTargets DEF tables, Request, CreateUser, DeleteUser, CreateTeam, DeleteTeam,
        AddMember, RemoveMember, AddLeader, RemoveLeader, Starts
  <1>2. pc'[p] \notin RoleCheck \cup {"nextRole", "delTeam", "saveAccount"}
    BY RequestTargets DEF RoleCheck
  <1>3. ASSUME NEW u \in accounts'
        PROVE  Settled(u)'
    <2>1. u \in issued /\ Settled(u)
      BY <1>1, Solo DEF RoleCheck, FreshInv, TypeOK, TypeTables
    <2>2. granted'[u] = granted[u]
      <3>1. CASE CreateUser(p)
        BY <2>1, <3>1 DEF CreateUser, TypeOK, TypeHistory
      <3>2. CASE ~CreateUser(p)
        BY <3>2 DEF Request, DeleteUser, CreateTeam, DeleteTeam, AddMember, RemoveMember,
              AddLeader, RemoveLeader
      <3> QED
        BY <3>1, <3>2
    <2> QED
      BY <1>1, <2>1, <2>2 DEF Settled, Unearned, Leads
  <1>4. ASSUME pc'[p] = "saveUser"
        PROVE  (~Leads(job[p].user) /\ job[p].user \notin led)'
    <2>1. CreateUser(p)
      BY <1>4 DEF Request, DeleteUser, CreateTeam, DeleteTeam, AddMember,
        RemoveMember, AddLeader, RemoveLeader, Starts, Goto, TypeOK, TypeHandlers
    <2>2. PICK u \in User \ issued : job'[p].user = u
      BY <2>1 DEF CreateUser, Starts, TypeOK, TypeHandlers
    <2>3. ~Leads(u) /\ u \notin led
      BY <2>2, LeadsFacts DEF FreshInv
    <2>4. ~Leads(u)' /\ u \notin led'
      BY <1>1, <2>3 DEF Leads
    <2> QED
      BY <2>2, <2>4
  <1> QED
    BY <1>2, <1>3, <1>4, Outside

(* The statements a handler reads or decides with before it changes roles. *)
LEMMA QuietOutside ==
    ASSUME TypeOK, TypeOK', Alone, Derived, NEW p \in Proc, Quiet(p), ~Fails(p),
           faults' = faults, pc[p] \notin RoleCheck \cup {"nextRole"}
    PROVE  Derived'
  <1>1. UNCHANGED <<accounts, roles, teams, leaders, granted, led>>
    BY QuietFrame DEF tables, history
  <1>2. pc'[p] \notin RoleCheck \cup {"nextRole", "saveUser", "saveAccount"}
    BY Targets DEF Quiet, RoleCheck, RoleRefused, Refused, NextRole, CheckOrphaned,
       GrantRead, RevokeRead, CopyAccount, ListTeams, LoadLeaders, Select
  <1>3. \A u \in accounts' : Settled(u)'
    BY <1>1, Solo, SettledFrame
  <1>4. ASSUME pc'[p] = "delTeam"
        PROVE  leaders'[job'[p].team] \subseteq seen'[p].former
    <2>1. ReadLeaders(p)
      BY <1>4, Targets DEF Quiet
    <2>2. job' = job /\ seen' = [seen EXCEPT ![p].former = leaders[job[p].team]]
      <3>1. faults' # faults + 1
        BY SeenFacts DEF TypeOK
      <3> QED
        BY <2>1, <3>1 DEF ReadLeaders, Cut
    <2>3. seen'[p].former = leaders[job[p].team]
      BY <2>2, SeenFacts DEF TypeOK, SeenType
    <2> QED
      BY <1>1, <2>2, <2>3
  <1> QED
    BY <1>2, <1>3, <1>4, Outside

(* One user after the other: the one that is checked next is owed a check. *)
LEMMA RoleNext ==
    ASSUME TypeOK, TypeOK', Alone, Derived, NEW p \in Proc, NextRole(p)
    PROVE  Derived'
  <1>1. pc[p] = "nextRole" /\ UNCHANGED <<accounts, roles, teams, leaders, granted, led>>
    BY DEF NextRole, tables, history
  <1>2. /\ \A u \in accounts \ seen[p].former : Settled(u)
        /\ \A v \in seen[p].former \cap accounts : Leads(v) => TeamLeader \in roles[v]
    BY <1>1, Solo DEF RoleAt, OwedInv, Owed, RoleCheck
  <1>3. CASE seen[p].former = {}
    <2>1. pc'[p] = "reply"
      BY <1>3 DEF NextRole, Goto, TypeOK, TypeHandlers
    <2>2. \A u \in accounts' : Settled(u)'
      BY <1>1, <1>2, <1>3, SettledFrame
    <2> QED
      BY <2>1, <2>2, Outside DEF RoleCheck
  <1>4. CASE seen[p].former # {}
    <2>1. PICK u \in seen[p].former :
             /\ pc' = [pc EXCEPT ![p] = "listTeams"]
             /\ job' = [job EXCEPT ![p].user = u]
             /\ seen' = [seen EXCEPT ![p].former = @ \ {u}, ![p].hit = FALSE]
      BY <1>4 DEF NextRole, Goto
    <2>2. /\ pc'[p] = "listTeams" /\ job'[p].user = u
          /\ seen'[p].former = seen[p].former \ {u} /\ ~seen'[p].hit
      BY <2>1, SeenFacts DEF TypeOK, SeenType, JobType, TypeHandlers
    <2>3. Owed(p)' = seen[p].former
      BY <2>2 DEF Owed, RoleCheck
    <2>4. \A v \in accounts' \ Owed(p)' : Settled(v)'
      BY <1>1, <1>2, <2>3, SettledFrame
    <2>5. OwedInv(p)'
      BY <1>1, <1>2, <2>3, SettledFrame DEF OwedInv
    <2>6. CheckInv(p)'
      BY <2>2 DEF CheckInv
    <2> QED
      BY <2>2, <2>4, <2>5, <2>6, Within DEF RoleCheck
  <1> QED
    BY <1>3, <1>4

(* ListTeams, LoadLeaders, CheckOrphaned: a user is found to lead a team,  *)
(* or all of the teams have been looked at.                                *)
LEMMA RoleLook ==
    ASSUME TypeOK, TypeOK', Alone, Derived, NEW p \in Proc, faults' = faults,
           ListTeams(p) \/ LoadLeaders(p) \/ CheckOrphaned(p)
    PROVE  Derived'
  <1> DEFINE u == job[p].user
  <1>1. /\ pc[p] \in {"listTeams", "loadLeaders"} /\ job' = job
        /\ UNCHANGED <<accounts, roles, teams, leaders, granted, led>>
    BY DEF ListTeams, LoadLeaders, CheckOrphaned, Select, tables, history
  <1>2. seen'[p].former = seen[p].former
    <2>1. CASE ListTeams(p)
      BY <2>1, SeenFacts DEF ListTeams, TypeOK, SeenType
    <2>2. CASE LoadLeaders(p)
      BY <2>2, SeenFacts DEF LoadLeaders, TypeOK, SeenType
    <2>3. CASE CheckOrphaned(p)
      BY <2>3 DEF CheckOrphaned
    <2> QED
      BY <2>1, <2>2, <2>3
  <1>3. /\ Owed(p) = seen[p].former \cup {u}
        /\ \A v \in accounts \ Owed(p) : Settled(v)
        /\ \A v \in Owed(p) \cap accounts : Leads(v) => TeamLeader \in roles[v]
        /\ CheckInv(p)
    BY <1>1, Solo DEF RoleAt, OwedInv, Owed, RoleCheck
  <1>4. faults' # faults + 1
    BY SeenFacts DEF TypeOK
  <1>5. CASE pc'[p] \in RoleCheck
    <2>1. Owed(p)' = Owed(p)
      BY <1>1, <1>2, <1>3, <1>5 DEF Owed
    <2>2. \A v \in accounts' \ Owed(p)' : Settled(v)'
      BY <1>1, <1>3, <2>1, SettledFrame
    <2>3. OwedInv(p)'
      BY <1>1, <1>3, <2>1, SettledFrame DEF OwedInv
    <2>4. CheckInv(p)'
      <3>1. CASE ListTeams(p)
        <4>1. pc[p] = "listTeams" /\ pc'[p] = "loadLeaders"
          BY <3>1, Targets DEF ListTeams, Select
        <4>2. seen' = [seen EXCEPT ![p].todo = teams]
          BY <3>1, <1>4 DEF ListTeams, Cut
        <4>3. seen'[p].todo = teams /\ seen'[p].hit = seen[p].hit
          BY <4>2, SeenFacts DEF TypeOK, SeenType
        <4>4. ~seen[p].hit
          BY <1>3, <4>1 DEF CheckInv
        <4> QED
          BY <1>1, <4>1, <4>3, <4>4 DEF CheckInv
      <3>2. CASE LoadLeaders(p)
        <4>1. pc[p] = "loadLeaders" /\ pc'[p] = "loadLeaders"
          BY <3>2, Targets DEF LoadLeaders, Select
        <4>2. PICK t \in seen[p].todo :
                 seen' = [seen EXCEPT ![p].todo = @ \ {t}, ![p].hit = @ \/ u \in leaders[t]]
          BY <3>2, <1>4 DEF LoadLeaders, Cut
        <4>3. /\ seen'[p].todo = seen[p].todo \ {t}
              /\ seen'[p].hit = (seen[p].hit \/ u \in leaders[t])
          BY <4>2, SeenFacts DEF TypeOK, SeenType
        <4>4. IF seen[p].hit THEN Leads(u)
              ELSE \A s \in teams : u \in leaders[s] => s \in seen[p].todo
          BY <1>3, <4>1 DEF CheckInv
        <4>5. u \in leaders[t] => Leads(u)
          <5>1. t \in Team
            BY <4>2, SeenFacts DEF TypeOK
          <5> QED
            BY <5>1, LeadsFacts
        <4>6. IF seen'[p].hit THEN Leads(u)
              ELSE \A s \in teams : u \in leaders[s] => s \in seen'[p].todo
          BY <4>3, <4>4, <4>5
        <4>7. Leads(u)' <=> Leads(u)
          BY <1>1 DEF Leads
        <4> QED
          BY <1>1, <4>1, <4>6, <4>7 DEF CheckInv
      <3>3. CASE CheckOrphaned(p)
        <4>1. /\ pc[p] = "loadLeaders" /\ seen[p].todo = {}
              /\ pc'[p] = IF seen[p].hit THEN "nextRole" ELSE "revokeRead"
          BY <3>3 DEF CheckOrphaned, Goto, TypeOK, TypeHandlers
        <4>2. pc'[p] = "revokeRead" /\ ~seen[p].hit
          BY <4>1, <1>5 DEF RoleCheck
        <4>3. ~Leads(u)
          BY <1>3, <4>1, <4>2 DEF CheckInv, Leads
        <4>4. (~Leads(job[p].user))'
          BY <1>1, <4>3 DEF Leads
        <4> QED
          BY <4>2, <4>4 DEF CheckInv
      <3> QED
        BY <3>1, <3>2, <3>3
    <2> QED
      BY <1>5, <2>2, <2>3, <2>4, Within
  <1>6. CASE pc'[p] \notin RoleCheck
    <2>1. CheckOrphaned(p)
      BY <1>6, Targets DEF RoleCheck
    <2>2. pc[p] = "loadLeaders" /\ pc'[p] = "nextRole" /\ seen[p].hit
      BY <2>1, <1>6 DEF CheckOrphaned, Goto, TypeOK, TypeHandlers, RoleCheck
    <2>3. Leads(u)
      BY <1>3, <2>2 DEF CheckInv
    <2>4. Owed(p)' = seen[p].former
      BY <1>2, <2>2 DEF Owed, RoleCheck
    <2>5. \A v \in accounts' \ Owed(p)' : Settled(v)'
      <3>1. ASSUME NEW v \in accounts \ seen[p].former
            PROVE  Settled(v)
        BY <1>3, <2>3 DEF Settled, Unearned
      <3> QED
        BY <1>1, <2>4, <3>1, SettledFrame
    <2>6. OwedInv(p)'
      BY <1>1, <1>3, <2>4, SettledFrame DEF OwedInv
    <2>7. CheckInv(p)'
      BY <2>2 DEF CheckInv
    <2> QED
      BY <2>2, <2>5, <2>6, <2>7, Within
  <1> QED
    BY <1>5, <1>6

(* GrantRead, RevokeRead: the row agrees with the leaders, or a copy that  *)
(* does is about to replace it.  A copy without any role is of an account  *)
(* that was created with TEAM_LEADER only.                                 *)
LEMMA RoleRead ==
    ASSUME TypeOK, TypeOK', Alone, RolesAsGranted, GrantInv, Derived,
           NEW p \in Proc, GrantRead(p) \/ RevokeRead(p)
    PROVE  Derived'
  <1> DEFINE u == job[p].user
  <1>1. /\ pc[p] \in {"grantRead", "revokeRead"} /\ job' = job
        /\ UNCHANGED <<accounts, roles, teams, leaders, granted, led>>
    BY DEF GrantRead, RevokeRead, CopyAccount, Select, tables, history
  <1>2. u \in User
    BY <1>1 DEF TypeOK, TypeHandlers, Statements, RoleCheck, NoUser
  <1>3. /\ Owed(p) = seen[p].former \cup {u}
        /\ \A v \in accounts \ Owed(p) : Settled(v)
        /\ \A v \in Owed(p) \cap accounts :
              Leads(v) => TeamLeader \in roles[v] \/ (v = u /\ pc[p] = "grantRead")
        /\ CheckInv(p)
    BY <1>1, Solo DEF RoleAt, OwedInv, Owed, RoleCheck
  <1>4. GrantRead(p) => pc[p] = "grantRead" /\ Leads(u)
    BY <1>3 DEF GrantRead, CopyAccount, Select, CheckInv
  <1>5. RevokeRead(p) => pc[p] = "revokeRead" /\ ~Leads(u)
    BY <1>3 DEF RevokeRead, CopyAccount, Select, CheckInv
  <1>6. seen'[p].former = seen[p].former
    BY SeenFacts DEF GrantRead, RevokeRead, CopyAccount, TypeOK, SeenType
  <1>7. CASE pc'[p] = "saveRole"
    <2>1. /\ u \in accounts
          /\ seen'[p].copy = IF GrantRead(p) THEN roles[u] \cup {TeamLeader}
                             ELSE roles[u] \ {TeamLeader}
      <3>1. u \in accounts
        BY <1>7 DEF GrantRead, RevokeRead, CopyAccount, Select, Goto, TypeOK, TypeHandlers
      <3>2. GrantRead(p) => seen'[p].copy = roles[u] \cup {TeamLeader}
        BY <1>7, SeenFacts DEF GrantRead, CopyAccount, TypeOK, SeenType
      <3>3. RevokeRead(p) => seen'[p].copy = roles[u] \ {TeamLeader}
        BY <1>7, SeenFacts DEF RevokeRead, CopyAccount, TypeOK, SeenType
      <3> QED
        BY <3>1, <3>2, <3>3
    <2>2. roles[u] \ {TeamLeader} = {} => granted[u] = {TeamLeader}
      <3>1. granted[u] # {}
        BY <1>2, AdminAssumption DEF GrantInv
      <3>2. roles[u] \ {TeamLeader} = granted[u] \ {TeamLeader}
        BY <2>1 DEF RolesAsGranted
      <3> QED
        BY <3>1, <3>2
    <2>3. /\ TeamLeader \in seen'[p].copy <=> Leads(u)
          /\ seen'[p].copy = {} => granted'[u] = {TeamLeader}
      BY <1>1, <1>4, <1>5, <2>1, <2>2
    <2>4. Owed(p)' = Owed(p)
      BY <1>1, <1>3, <1>6, <1>7 DEF Owed, RoleCheck
    <2>5. \A v \in accounts' \ Owed(p)' : Settled(v)'
      BY <1>1, <1>3, <2>4, SettledFrame
    <2>6. OwedInv(p)'
      BY <1>1, <1>3, <1>7, <2>4, SettledFrame DEF OwedInv
    <2>7. CheckInv(p)'
      <3>1. Leads(u)' <=> Leads(u)
        BY <1>1 DEF Leads
      <3> QED
        BY <1>1, <1>7, <2>1, <2>3, <3>1 DEF CheckInv
    <2> QED
      BY <1>7, <2>5, <2>6, <2>7, Within DEF RoleCheck
  <1>8. CASE pc'[p] # "saveRole"
    <2>1. pc'[p] = "nextRole"
      BY <1>8, Targets
    <2>2. u \in accounts => Settled(u)
      <3>1. ASSUME GrantRead(p), u \in accounts
            PROVE  TeamLeader \in roles[u]
        BY <1>8, <3>1 DEF GrantRead, CopyAccount, Select, Goto, TypeOK, TypeHandlers
      <3>2. ASSUME RevokeRead(p), u \in accounts
            PROVE  TeamLeader \notin roles[u]
        BY <1>8, <3>2 DEF RevokeRead, CopyAccount, Select, Goto, TypeOK, TypeHandlers
      <3> QED
        BY <1>4, <1>5, <3>1, <3>2 DEF Settled, Unearned
    <2>3. Owed(p)' = seen[p].former
      BY <1>6, <2>1 DEF Owed, RoleCheck
    <2>4. \A v \in accounts' \ Owed(p)' : Settled(v)'
      <3>1. ASSUME NEW v \in accounts \ seen[p].former
            PROVE  Settled(v)
        BY <1>3, <2>2
      <3> QED
        BY <1>1, <2>3, <3>1, SettledFrame
    <2>5. OwedInv(p)'
      <3>1. ASSUME NEW v \in seen[p].former \cap accounts, Leads(v)
            PROVE  TeamLeader \in roles[v]
        BY <1>3, <2>2, <3>1 DEF Settled, Unearned
      <3> QED
        BY <1>1, <2>3, <3>1, SettledFrame DEF OwedInv
    <2>6. CheckInv(p)'
      BY <2>1 DEF CheckInv
    <2> QED
      BY <2>1, <2>4, <2>5, <2>6, Within
  <1> QED
    BY <1>7, <1>8

(* RoleRefused: the schema wants a role.  The account keeps TEAM_LEADER,   *)
(* the only role it was created with.                                      *)
LEMMA RoleStays ==
    ASSUME TypeOK, TypeOK', Alone, Derived, NEW p \in Proc, RoleRefused(p)
    PROVE  Derived'
  <1> DEFINE u == job[p].user
  <1>1. /\ pc[p] = "saveRole" /\ job' = job /\ seen' = seen
        /\ UNCHANGED <<accounts, roles, teams, leaders, granted, led>>
    BY DEF RoleRefused, Refused, tables, history
  <1>2. pc'[p] = "nextRole"
    BY Targets
  <1>3. /\ Owed(p) = seen[p].former \cup {u}
        /\ \A v \in accounts \ Owed(p) : Settled(v)
        /\ \A v \in Owed(p) \cap accounts : Leads(v) => TeamLeader \in roles[v] \/ v = u
        /\ CheckInv(p)
    BY <1>1, Solo DEF RoleAt, OwedInv, Owed, RoleCheck
  <1>4. u \in accounts /\ (TeamLeader \in seen[p].copy <=> Leads(u))
        /\ (seen[p].copy = {} => granted[u] = {TeamLeader})
    BY <1>1, <1>3 DEF CheckInv
  <1>5. seen[p].copy = {}
    BY <1>4 DEF RoleRefused, TypeOK, TypeTables
  <1>6. ~Leads(u) /\ granted[u] = {TeamLeader}
    BY <1>4, <1>5
  <1>7. Owed(p)' = seen[p].former
    BY <1>1, <1>2 DEF Owed, RoleCheck
  <1>8. \A v \in accounts' \ Owed(p)' : Settled(v)'
    <2>1. ASSUME NEW v \in accounts \ seen[p].former
          PROVE  Settled(v)
      BY <1>3, <1>6 DEF Settled, Unearned
    <2> QED
      BY <1>1, <1>7, <2>1, SettledFrame
  <1>9. OwedInv(p)'
    <2>1. ASSUME NEW v \in seen[p].former \cap accounts, Leads(v)
          PROVE  TeamLeader \in roles[v]
      BY <1>3, <1>6, <2>1
    <2> QED
      BY <1>1, <1>7, <2>1, SettledFrame DEF OwedInv
  <1>10. CheckInv(p)'
    BY <1>2 DEF CheckInv
  <1> QED
    BY <1>2, <1>8, <1>9, <1>10, Within

(* Where a write leads whose answer arrives.                               *)
LEMMA Answered ==
    ASSUME TypeOK, NEW p \in Proc, NEW at, NEW next, Write(p, at, next), faults' = faults
    PROVE  pc[p] = at /\ pc'[p] = next /\ job' = job
  <1>1. faults' # faults + 1
    BY SeenFacts DEF TypeOK
  <1> QED
    BY <1>1 DEF Write, Goto, TypeOK, TypeHandlers

(* Writes of users and accounts: a row goes with the leaderships, and one  *)
(* that comes is of a user who leads nothing.                              *)
LEMMA RoleUserWrite ==
    ASSUME TypeOK, TypeOK', Alone, Derived,
           NEW p \in Proc, faults' = faults,
           \/ SaveUser(p) \/ SaveAccount(p) \/ UndoUser(p) \/ DelAccount(p) \/ DelUser(p)
           \/ InsMember(p) \/ DelMember(p)
    PROVE  Derived'
  <1>1. CASE SaveUser(p)
    <2>1. pc[p] = "saveUser" /\ pc'[p] = "saveAccount" /\ job' = job
      BY <1>1, Answered DEF SaveUser
    <2>2. UNCHANGED <<accounts, roles, teams, leaders, granted, led>>
      BY <1>1 DEF SaveUser, history
    <2>3. \A u \in accounts' : Settled(u)'
      BY <2>1, <2>2, Solo, SettledFrame DEF RoleCheck
    <2>4. (~Leads(job[p].user) /\ job[p].user \notin led)'
      BY <2>1, <2>2, Solo DEF RoleAt, Leads
    <2> QED
      BY <2>1, <2>3, <2>4, Outside DEF RoleCheck
  <1>2. CASE SaveAccount(p)
    <2> DEFINE a == job[p].user
    <2>1. pc[p] = "saveAccount" /\ pc'[p] = "reply" /\ job' = job
      BY <1>2, Answered DEF SaveAccount
    <2>2. /\ a \in users /\ accounts' = accounts \cup {a}
          /\ roles' = [roles EXCEPT ![a] = granted[a]]
          /\ UNCHANGED <<teams, leaders, granted, led>>
      BY <1>2 DEF SaveAccount, history
    <2>3. ~Leads(a) /\ a \notin led
      BY <2>1, Solo DEF RoleAt
    <2>4. roles'[a] = granted[a]
      BY <2>2 DEF TypeOK, TypeTables
    <2>5. ASSUME NEW u \in accounts'
          PROVE  Settled(u)'
      <3>1. Leads(u)' <=> Leads(u)
        BY <2>2 DEF Leads
      <3>2. CASE u = a
        BY <2>2, <2>3, <2>4, <3>1, <3>2 DEF Settled, Unearned
      <3>3. CASE u # a
        <4>1. Settled(u) /\ roles'[u] = roles[u]
          BY <2>1, <2>2, <3>3, Solo DEF RoleCheck, TypeOK, TypeTables
        <4> QED
          BY <2>2, <3>1, <4>1 DEF Settled, Unearned
      <3> QED
        BY <3>2, <3>3
    <2> QED
      BY <2>1, <2>5, Outside DEF RoleCheck
  <1>3. CASE UndoUser(p) \/ DelUser(p)
    <2> DEFINE a == job[p].user
    <2>1. pc[p] \in {"undoUser", "delUser"} /\ pc'[p] = "reply"
      <3>1. UndoUser(p) => pc[p] = "undoUser" /\ pc'[p] = "reply"
        BY Answered DEF UndoUser
      <3>2. DelUser(p) => pc[p] = "delUser" /\ pc'[p] = "reply"
        BY Answered DEF DelUser
      <3> QED
        BY <1>3, <3>1, <3>2
    <2>2. /\ accounts' = accounts \ {a} /\ UNCHANGED <<roles, teams, granted, led>>
          /\ leaders' = [t \in Team |-> leaders[t] \ {a}]
      BY <1>3 DEF UndoUser, DelUser, UserRowGone
    <2>3. ASSUME NEW u \in accounts'
          PROVE  Settled(u)'
      <3>1. Settled(u) /\ u # a
        BY <2>1, <2>2, Solo DEF RoleCheck
      <3>2. Leads(u)' <=> Leads(u)
        BY <2>2, <3>1 DEF Leads, TypeOK, TypeTables
      <3> QED
        BY <2>2, <3>1, <3>2 DEF Settled, Unearned
    <2> QED
      BY <2>1, <2>3, Outside DEF RoleCheck
  <1>4. CASE DelAccount(p)
    <2>1. pc[p] = "delAccount" /\ pc'[p] = "delUser"
      BY <1>4, Answered DEF DelAccount
    <2>2. accounts' \subseteq accounts /\ UNCHANGED <<roles, teams, leaders, granted, led>>
      BY <1>4 DEF DelAccount, history
    <2>3. \A u \in accounts' : Settled(u)'
      BY <2>1, <2>2, Solo, SettledFrame DEF RoleCheck
    <2> QED
      BY <2>1, <2>3, Outside DEF RoleCheck
  <1>5. CASE InsMember(p) \/ DelMember(p)
    <2>1. pc[p] \in {"insMember", "delMember"} /\ pc'[p] = "reply"
      <3>1. InsMember(p) => pc[p] = "insMember" /\ pc'[p] = "reply"
        BY Answered DEF InsMember
      <3>2. DelMember(p) => pc[p] = "delMember" /\ pc'[p] = "reply"
        BY Answered DEF DelMember
      <3> QED
        BY <1>5, <3>1, <3>2
    <2>2. UNCHANGED <<accounts, roles, teams, leaders, granted, led>>
      BY <1>5 DEF InsMember, DelMember, history
    <2>3. \A u \in accounts' : Settled(u)'
      BY <2>1, <2>2, Solo, SettledFrame DEF RoleCheck
    <2> QED
      BY <2>1, <2>3, Outside DEF RoleCheck
  <1> QED
    BY <1>1, <1>2, <1>3, <1>4, <1>5

(* A new leadership: the leader is owed the role, nobody else is touched.  *)
LEMMA RoleLeaderComes ==
    ASSUME TypeOK, TypeOK', Alone, FoundInv, Derived, NEW p \in Proc, faults' = faults,
           SaveTeam(p) \/ InsLeader(p)
    PROVE  Derived'
  <1> DEFINE u == job[p].user
             t == job[p].team
  <1>1. pc[p] \in {"saveTeam", "insLeader"} /\ pc'[p] = "grantRead" /\ job' = job
    <2>1. SaveTeam(p) => pc[p] = "saveTeam" /\ pc'[p] = "grantRead" /\ job' = job
      BY Answered DEF SaveTeam
    <2>2. InsLeader(p) => pc[p] = "insLeader" /\ pc'[p] = "grantRead" /\ job' = job
      BY Answered DEF InsLeader
    <2> QED
      BY <2>1, <2>2
  <1>2. t \in Team
    BY <1>1 DEF TypeOK, TypeHandlers, ForTeam
  <1>3. led' = led \cup {u} /\ UNCHANGED <<accounts, roles, granted, seen>>
    BY DEF SaveTeam, InsLeader, history
  <1>4. /\ t \in teams' /\ teams' = teams \cup {t}
        /\ leaders' = [leaders EXCEPT ![t] = leaders[t] \cup {u}]
    <2>1. CASE SaveTeam(p)
      <3>1. t \notin teams
        BY <2>1, <1>1 DEF SaveTeam, Write, FoundInv
      <3>2. leaders[t] = {}
        BY <1>2, <3>1 DEF TypeOK, TypeTables
      <3> QED
        BY <2>1, <3>2 DEF SaveTeam
    <2>2. CASE InsLeader(p)
      BY <2>2 DEF InsLeader, RowsExist
    <2> QED
      BY <2>1, <2>2
  <1>5. \A s \in Team : leaders'[s] = IF s = t THEN leaders[s] \cup {u} ELSE leaders[s]
    BY <1>2, <1>4 DEF TypeOK, TypeTables
  <1>6. \A v : v # u => (Leads(v)' <=> Leads(v))
    <2>1. \A v : Leads(v)' <=> \E s \in Team : v \in leaders'[s]
      BY DEF Leads, TypeOK, TypeTables
    <2> QED
      BY <1>5, <2>1, LeadsFacts
  <1>7. (Leads(job[p].user))'
    BY <1>1, <1>2, <1>4, <1>5 DEF Leads
  <1>8. \A v \in accounts : Settled(v)
    BY <1>1, Solo DEF RoleCheck
  <1>9. u \in Owed(p)' /\ u = job'[p].user
    BY <1>1 DEF Owed, RoleCheck
  <1>10. \A v \in accounts' \ Owed(p)' : Settled(v)'
    BY <1>3, <1>6, <1>8, <1>9 DEF Settled, Unearned
  <1>11. OwedInv(p)'
    BY <1>1, <1>3, <1>6, <1>8, <1>9 DEF OwedInv, Settled, Unearned
  <1>12. CheckInv(p)'
    BY <1>1, <1>7 DEF CheckInv
  <1> QED
    BY <1>1, <1>10, <1>11, <1>12, Within DEF RoleCheck

(* A leadership ends: those who lose it are owed a check, and nobody loses *)
(* the role before.                                                        *)
LEMMA RoleLeaderGoes ==
    ASSUME TypeOK, TypeOK', Alone, Derived, NEW p \in Proc, faults' = faults,
           DelTeam(p) \/ DelLeader(p)
    PROVE  Derived'
  <1> DEFINE t == job[p].team
  <1>1. pc[p] \in {"delTeam", "delLeader"} /\ pc'[p] = "nextRole"
    <2>1. DelTeam(p) => pc[p] = "delTeam" /\ pc'[p] = "nextRole"
      BY Answered DEF DelTeam
    <2>2. DelLeader(p) => pc[p] = "delLeader" /\ pc'[p] = "nextRole"
      BY Answered DEF DelLeader
    <2> QED
      BY <2>1, <2>2
  <1>2. t \in Team
    BY <1>1 DEF TypeOK, TypeHandlers, ForTeam, NoUser
  <1>3. UNCHANGED <<accounts, roles, granted, led>>
    BY DEF DelTeam, DelLeader, history
  <1>4. /\ \A s \in Team : leaders'[s] \subseteq leaders[s]
        /\ \A s \in Team : leaders[s] \subseteq leaders'[s] \cup seen'[p].former
    <2>1. CASE DelTeam(p)
      <3>1. leaders[t] \subseteq seen[p].former
        BY <2>1, Solo DEF DelTeam, Write, RoleAt
      <3>2. seen' = seen /\ leaders' = [leaders EXCEPT ![t] = {}]
        BY <2>1 DEF DelTeam
      <3> QED
        BY <1>2, <3>1, <3>2 DEF TypeOK, TypeTables
    <2>2. CASE DelLeader(p)
      <3>1. seen'[p].former = {job[p].user}
        BY <2>2, SeenFacts DEF DelLeader, TypeOK, SeenType
      <3>2. leaders' = [leaders EXCEPT ![t] = leaders[t] \ {job[p].user}]
        BY <2>2 DEF DelLeader
      <3> QED
        BY <1>2, <3>1, <3>2 DEF TypeOK, TypeTables
    <2> QED
      BY <2>1, <2>2
  <1>5. /\ \A v : Leads(v)' => Leads(v)
        /\ \A v : v \notin seen'[p].former => (Leads(v) => Leads(v)')
    <2>1. \A v : Leads(v)' <=> \E s \in Team : v \in leaders'[s]
      BY DEF Leads, TypeOK, TypeTables
    <2> QED
      BY <1>4, <2>1, LeadsFacts
  <1>6. \A v \in accounts : Settled(v)
    BY <1>1, Solo DEF RoleCheck
  <1>7. Owed(p)' = seen'[p].former
    BY <1>1 DEF Owed, RoleCheck
  <1>8. \A v \in accounts' \ Owed(p)' : Settled(v)'
    BY <1>3, <1>5, <1>6, <1>7 DEF Settled, Unearned
  <1>9. OwedInv(p)'
    BY <1>3, <1>5, <1>6 DEF OwedInv, Settled, Unearned
  <1>10. CheckInv(p)'
    BY <1>1 DEF CheckInv
  <1> QED
    BY <1>1, <1>8, <1>9, <1>10, Within

(* The copy is saved: the user's row agrees with the leaders.              *)
LEMMA RoleSaved ==
    ASSUME TypeOK, TypeOK', Alone, Derived, NEW p \in Proc, faults' = faults, SaveRole(p)
    PROVE  Derived'
  <1> DEFINE u == job[p].user
  <1>1. pc[p] = "saveRole" /\ pc'[p] = "nextRole"
    BY Answered DEF SaveRole
  <1>2. /\ u \in users /\ roles' = [roles EXCEPT ![u] = seen[p].copy]
        /\ UNCHANGED <<teams, leaders, granted, led, seen>>
    BY DEF SaveRole, history
  <1>3. /\ Owed(p) = seen[p].former \cup {u}
        /\ \A v \in accounts \ Owed(p) : Settled(v)
        /\ \A v \in Owed(p) \cap accounts : Leads(v) => TeamLeader \in roles[v] \/ v = u
        /\ CheckInv(p)
    BY <1>1, Solo DEF RoleAt, OwedInv, Owed, RoleCheck
  <1>4. u \in accounts /\ (TeamLeader \in seen[p].copy <=> Leads(u))
    BY <1>1, <1>3 DEF CheckInv
  <1>5. accounts' = accounts
    BY <1>4 DEF SaveRole
  <1>6. /\ roles'[u] = seen[p].copy
        /\ \A v \in accounts \ {u} : roles'[v] = roles[v]
    BY <1>2 DEF TypeOK, TypeTables
  <1>7. \A v : Leads(v)' <=> Leads(v)
    BY <1>2 DEF Leads
  <1>8. Owed(p)' = seen[p].former
    BY <1>1, <1>2 DEF Owed, RoleCheck
  <1>9. \A v \in accounts : v = u => Settled(v)'
    BY <1>2, <1>4, <1>6, <1>7 DEF Settled, Unearned
  <1>10. \A v \in accounts' \ Owed(p)' : Settled(v)'
    <2>1. ASSUME NEW v \in accounts \ seen[p].former, v # u
          PROVE  Settled(v)'
      BY <1>2, <1>3, <1>6, <1>7, <2>1 DEF Settled, Unearned
    <2> QED
      BY <1>5, <1>8, <1>9, <2>1
  <1>11. OwedInv(p)'
    <2>1. ASSUME NEW v \in seen[p].former \cap accounts, Leads(v)'
          PROVE  TeamLeader \in roles'[v]
      BY <1>3, <1>4, <1>6, <1>7, <2>1
    <2> QED
      BY <1>5, <1>8, <2>1 DEF OwedInv
  <1>12. CheckInv(p)'
    BY <1>1 DEF CheckInv
  <1> QED
    BY <1>1, <1>10, <1>11, <1>12, Within

(* Undisturbed, every step of the only handler keeps the roles derived.    *)
LEMMA RoleMoves ==
    ASSUME TypeOK, TypeOK', Alone, FreshInv, RolesAsGranted, CalmInv, FoundInv,
           GrantInv, RoleInv, NEW p \in Proc, Request(p) \/ HangUp(p) \/ Quiet(p) \/ Writes(p)
    PROVE  RoleInv'
  <1> SUFFICES ASSUME Undisturbed' PROVE Derived'
    BY DEF RoleInv
  <1>1. Derived /\ faults' = faults /\ ~Fails(p) /\ ~HangUp(p)
    BY CalmFacts DEF RoleInv
  <1>2. CASE Request(p)
    BY <1>1, <1>2, RoleRequest
  <1>3. CASE Quiet(p) /\ pc[p] \notin RoleCheck \cup {"nextRole"}
    BY <1>1, <1>3, QuietOutside
  <1>4. CASE Quiet(p) /\ pc[p] \in RoleCheck \cup {"nextRole"}
    <2>1. \/ NextRole(p) \/ ListTeams(p) \/ LoadLeaders(p) \/ CheckOrphaned(p)
          \/ GrantRead(p) \/ RevokeRead(p) \/ RoleRefused(p)
      BY <1>1, <1>4
      DEF Quiet, Reply, UserNameTaken, AccountRefused, Refused, FindTeams, LoadTeam,
          CheckSole, FindUser, TeamRefused, FindTeam, ReadLeaders, MemberRefused, CheckLeader,
          ReadMembers, LeaderRefused, CountLeaders, Select, RoleCheck
    <2> QED
      BY <1>1, <2>1, RoleNext, RoleLook, RoleRead, RoleStays
  <1>5. CASE Writes(p)
    BY <1>1, <1>5, RoleUserWrite, RoleLeaderComes, RoleLeaderGoes, RoleSaved DEF Writes
  <1> QED
    BY <1>1, <1>2, <1>3, <1>4, <1>5

(* At first the roles follow from the leaders and from the requests.       *)
LEMMA RoleInit == Init => RoleInv
  <1> SUFFICES ASSUME Init PROVE Derived
    BY DEF RoleInv
  <1>1. TypeOK
    BY InitType
  <1>2. ASSUME NEW u \in accounts
        PROVE  Settled(u)
    <2>1. Leads(u) <=> \E t \in Team : u \in leaders[t]
      BY <1>1, LeadsFacts
    <2>2. u \in User /\ granted[u] \subseteq Role
      BY <1>1, <1>2 DEF TypeOK, TypeTables, TypeHistory
    <2> QED
      BY <2>1, <2>2 DEF Init, Settled, Unearned
  <1>3. ASSUME NEW p \in Proc
        PROVE  RoleAt(p)
    <2>1. pc[p] = "idle"
      BY DEF Init
    <2> QED
      BY <2>1 DEF RoleAt, OwedInv, Owed, CheckInv, RoleCheck
  <1> QED
    BY <1>2, <1>3 DEF Derived

(* What is granted is what a request asked for.                            *)
LEMMA GrantCorrect == Spec => []GrantInv
  <1>1. Init => GrantInv
    BY DEF Init, GrantInv
  <1>2. GrantInv /\ [Next]_vars => GrantInv'
    <2>1. ASSUME GrantInv, NEW p \in Proc, CreateUser(p)
          PROVE  GrantInv'
      BY <2>1 DEF CreateUser, GrantInv
    <2>2. ASSUME NEW p \in Proc,
                 (Request(p) /\ ~CreateUser(p)) \/ HangUp(p) \/ Quiet(p) \/ Writes(p)
          PROVE  granted' = granted
      BY <2>2, QuietFrame
      DEF Request, DeleteUser, CreateTeam, DeleteTeam, AddMember, RemoveMember, AddLeader,
          RemoveLeader, HangUp, Writes, SaveUser, SaveAccount, UndoUser, DelAccount, DelUser,
          SaveTeam, DelTeam, InsMember, DelMember, InsLeader, DelLeader, SaveRole, UserRowGone,
          history
    <2>3. UNCHANGED vars => granted' = granted
      BY DEF vars, history
    <2> QED
      BY <2>1, <2>2, <2>3, Steps DEF GrantInv
  <1> QED
    BY <1>1, <1>2, PTL DEF Spec

(* One after the other and undisturbed, the handlers leave TEAM_LEADER     *)
(* with whoever leads a team, and with nobody else but those it was asked  *)
(* for: ensureLeaderRole and removeLeaderRoleIfOrphaned miss nobody,       *)
(* however many leaders and teams there are.                               *)
THEOREM LeaderRoleIsDerived ==
    ASSUME Alone
    PROVE  Spec => []RoleDerived
  <1>1. Init => FoundInv /\ RoleInv
    BY RoleInit DEF Init, FoundInv
  <1>2. TypeOK /\ FoundInv /\ [Next]_vars => FoundInv'
    <2>1. FoundInv /\ UNCHANGED vars => FoundInv'
      BY DEF FoundInv, vars, tables, history, handlers
    <2> QED
      BY <2>1, Steps, FoundPreserved
  <1>3. TypeOK /\ TypeOK' /\ FreshInv /\ CopyInv /\ CalmInv /\ FoundInv /\ GrantInv /\ RoleInv
           /\ [Next]_vars => RoleInv'
    <2>1. RoleInv /\ UNCHANGED vars => RoleInv'
      BY DEF RoleInv, Undisturbed, Derived, Settled, Unearned, Leads, Owed, RoleAt, OwedInv, CheckInv,
             vars, tables, history, handlers
    <2>2. CopyInv => RolesAsGranted
      BY DEF CopyInv
    <2> QED
      BY <2>1, <2>2, Steps, RoleMoves
  <1>4. RoleInv => RoleDerived
    <2> SUFFICES ASSUME RoleInv, AtRest, Undisturbed, NEW u \in accounts PROVE Settled(u)
      BY DEF RoleDerived, Settled, Unearned, Leads
    <2>1. \A p \in Proc : Owed(p) = {}
      BY DEF AtRest, Owed, RoleCheck
    <2> QED
      BY <2>1 DEF RoleInv, Derived
  <1> QED
    BY <1>1, <1>2, <1>3, <1>4, CopyCorrect, CalmCorrect, GrantCorrect, PTL DEF Spec

(* When no request asks for TEAM_LEADER, the role is exactly leadership.   *)
THEOREM RoleIsLeadership ==
    ASSUME Alone, \A R \in Offered : TeamLeader \notin R
    PROVE  Spec => [](AtRest /\ Undisturbed =>
                         \A u \in accounts : TeamLeader \in roles[u] <=> Leads(u))
  <1>1. TypeOK /\ GrantInv /\ RoleDerived =>
           (AtRest /\ Undisturbed =>
               \A u \in accounts : TeamLeader \in roles[u] <=> Leads(u))
    <2>1. TypeOK => accounts \subseteq User
      BY DEF TypeOK, TypeTables
    <2>2. GrantInv => \A u \in User : TeamLeader \notin granted[u]
      BY DEF GrantInv
    <2> QED
      BY <2>1, <2>2 DEF RoleDerived, Settled, Unearned
  <1> QED
    BY <1>1, TypeCorrect, GrantCorrect, LeaderRoleIsDerived, PTL
=============================================================================
