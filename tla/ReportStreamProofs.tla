------------------------- MODULE ReportStreamProofs -------------------------
(***************************************************************************)
(* Theorems about ReportStream, for every set of users, repositories,      *)
(* platforms and tokens and every capacity of the channel.                 *)
(***************************************************************************)
EXTENDS ReportStream, FiniteSetTheorems, TLAPS

(* Appending to and taking from the event channel keeps it a sequence of   *)
(* events.                                                                 *)
LEMMA SeqFacts ==
    ASSUME NEW S, NEW s \in Seq(S), NEW e \in S
    PROVE  /\ Append(s, e) \in Seq(S)
           /\ Len(Append(s, e)) = Len(s) + 1
           /\ s # <<>> => /\ Tail(s) \in Seq(S)
                          /\ Head(s) \in S
                          /\ Len(Tail(s)) = Len(s) - 1
  OBVIOUS

LEMMA EventFacts ==
    /\ Complete \in Event /\ Complete.kind = "COMPLETE"
    /\ Error \in Event /\ Error.kind = "ERROR"
    /\ \A u \in User, acts \in SUBSET Batch : UserReport(u, acts) \in Event
  BY DEF Complete, Error, UserReport, Event

(* The initial tables are arbitrary; everything else starts empty.         *)
LEMMA InitType == Init => TypeOK
  <1> SUFFICES ASSUME Init PROVE TypeOK
    OBVIOUS
  <1> USE ReportAssumption DEF Init
  <1>1. TypeTables
    BY DEF TypeTables
  <1>2. TypeService
    BY DEF TypeService, Reading, PerMember
  <1>3. TypeWorkers
    BY DEF TypeWorkers, Job
  <1>4. TypeStream
    <2>1. chan = <<>> /\ wire = <<>> /\ hpc = "recv" /\ closed = FALSE
      OBVIOUS
    <2>2. 0 <= ChanCap
      OBVIOUS
    <2> HIDE DEF Init
    <2>3. chan \in Seq(Event) /\ wire \in Seq(Event) /\ Len(chan) = 0
      BY <2>1
    <2> QED BY <2>1, <2>2, <2>3 DEF TypeStream
  <1> QED
    BY <1>1, <1>2, <1>3, <1>4 DEF TypeOK

(* Every step of GenerateReport's loading phase.                           *)
LEMMA LoadType == TypeOK /\ LoadStep => TypeOK'
  <1> SUFFICES ASSUME TypeOK, LoadStep PROVE TypeOK'
    OBVIOUS
  <1> USE DEF TypeOK
  <1>1. /\ pc \in Reading /\ pc' \in Reading \cup {"nextMember", "fail"}
        /\ UNCHANGED <<query, database, store, client, ctx, workers, stream>>
    BY DEF LoadStep, ReadTeamRow, ReadLeaders, ReadMembers, ReadRepoIDs, ReadUsers,
           ReadRepos, ReadFails, Statement, Reading
  <1>2. TypeTables'
    BY <1>1 DEF TypeTables, database
  <1>3. TypeService'
    <2> USE <1>1 DEF TypeService, Reading, PerMember, service
    <2>1. CASE ReadTeamRow BY <2>1 DEF ReadTeamRow, Statement
    <2>2. CASE ReadLeaders BY <2>2 DEF ReadLeaders, Rows, TypeTables
    <2>3. CASE ReadMembers BY <2>3 DEF ReadMembers, Rows, TypeTables
    <2>4. CASE ReadRepoIDs BY <2>4 DEF ReadRepoIDs, Rows, TypeTables
    <2>5. CASE ReadUsers BY <2>5 DEF ReadUsers, Rows, TypeTables
    <2>6. CASE ReadRepos BY <2>6 DEF ReadRepos, Rows, TypeTables
    <2>7. CASE ReadFails BY <2>7 DEF ReadFails
    <2> QED
      BY <2>1, <2>2, <2>3, <2>4, <2>5, <2>6, <2>7 DEF LoadStep
  <1>4. member' = member
    BY DEF LoadStep, ReadTeamRow, ReadLeaders, ReadMembers, ReadRepoIDs, ReadUsers,
           ReadRepos, ReadFails, service
  <1>5. TypeWorkers'
    BY <1>1, <1>4 DEF TypeWorkers, workers
  <1>6. TypeStream'
    BY <1>1 DEF TypeStream, stream
  <1> QED
    BY <1>2, <1>3, <1>5, <1>6

(* Every other step of the goroutine that runs GenerateReport.             *)
LEMMA LocalType == TypeOK /\ (LocalStep \/ Discover) => TypeOK'
  <1> SUFFICES ASSUME TypeOK, LocalStep \/ Discover PROVE TypeOK'
    OBVIOUS
  <1> USE DEF TypeOK
  <1>1. CASE NextMember
    <2> USE <1>1 DEF NextMember
    <2>1. TypeTables' BY DEF TypeTables, database
    <2>2. TypeService' BY DEF TypeService, PerMember
    <2>3. TypeWorkers' BY DEF TypeWorkers, TypeService
    <2>4. TypeStream' BY DEF TypeStream, stream
    <2> QED BY <2>1, <2>2, <2>3, <2>4
  <1>2. CASE NextGroup \/ AllSpawned \/ Wait \/ Discover
    <2> USE <1>2 DEF NextGroup, AllSpawned, Wait, Discover
    <2>1. TypeTables' BY DEF TypeTables, database
    <2>2. TypeService' BY ReportAssumption DEF TypeService, PerMember, service
    <2>3. TypeWorkers' BY DEF TypeWorkers, workers, service
    <2>4. TypeStream' BY DEF TypeStream, stream
    <2> QED BY <2>1, <2>2, <2>3, <2>4
  <1>3. CASE UpsertDiscovered
    <2> USE <1>3 DEF UpsertDiscovered
    <2>1. TypeTables' BY DEF TypeTables, database
    <2>2. TypeService' BY DEF TypeService, PerMember
    <2>3. TypeWorkers' BY DEF TypeWorkers, workers
    <2>4. TypeStream' BY DEF TypeStream, stream
    <2> QED BY <2>1, <2>2, <2>3, <2>4
  <1>4. CASE Spawn
    <2> USE <1>4 DEF Spawn
    <2>1. TypeTables' BY DEF TypeTables, database
    <2>2. TypeService' BY DEF TypeService, PerMember, service
    <2>3. TypeWorkers' BY DEF TypeWorkers, TypeService, PerMember, service
    <2>4. TypeStream' BY DEF TypeStream, stream
    <2> QED BY <2>1, <2>2, <2>3, <2>4
  <1>5. CASE SendReport \/ SendComplete \/ SendError
    <2>1. PICK e \in Event : /\ Send(e)
                             /\ pc' \in {"nextMember", "close"}
      <3>1. CASE SendReport
        <4>1. UserReport(member, acc) \in Event
          BY <3>1, EventFacts DEF SendReport, TypeService, TypeWorkers, PerMember
        <4> QED BY <3>1, <4>1 DEF SendReport
      <3>2. CASE SendComplete \/ SendError
        BY <3>2, EventFacts DEF SendComplete, SendError
      <3> QED BY <1>5, <3>1, <3>2
    <2> USE <2>1 DEF Send
    <2>2. TypeTables' BY DEF TypeTables, database
    <2>3. TypeService' BY DEF TypeService, service, PerMember
    <2>4. TypeWorkers' BY DEF TypeWorkers, workers, service
    <2>5. TypeStream' BY SeqFacts, ReportAssumption DEF TypeStream
    <2> QED BY <2>2, <2>3, <2>4, <2>5
  <1>6. CASE Close
    <2> USE <1>6 DEF Close
    <2>1. TypeTables' BY DEF TypeTables, database
    <2>2. TypeService' BY DEF TypeService, PerMember, service
    <2>3. TypeWorkers' BY DEF TypeWorkers, workers, service
    <2>4. TypeStream' BY DEF TypeStream
    <2> QED BY <2>1, <2>2, <2>3, <2>4
  <1> QED
    BY <1>1, <1>2, <1>3, <1>4, <1>5, <1>6 DEF LocalStep

(* The steps of a worker.                                                  *)
LEMMA WorkerType ==
    ASSUME TypeOK, NEW g \in Group, NEW ok \in BOOLEAN, WorkerSteps(g) \/ CallReturns(g, ok)
    PROVE  TypeOK'
  <1> USE DEF TypeOK
  <1>1. /\ UNCHANGED <<query, database, store, client, ctx, pc, service, stream>>
        /\ wpc[g] # "idle"
    BY DEF WorkerSteps, CallReturns, LockMu, AppendUnlock, WorkerExits
  <1>2. TypeTables' BY <1>1 DEF TypeTables, database
  <1>3. TypeService' BY <1>1 DEF TypeService, service
  <1>4. TypeStream' BY <1>1 DEF TypeStream, stream
  <1>5. member \in User /\ member' = member
    BY <1>1 DEF TypeWorkers, service
  <1>6. TypeWorkers'
    <2> USE <1>5 DEF TypeWorkers
    <2>1. CASE CallReturns(g, ok)
      <3>1. PICK job \in NextJob(g) :
              /\ wleft' = [wleft EXCEPT ![g] = @ \ {job}]
              /\ wjob' = [wjob EXCEPT ![g] = job]
              /\ wpc' = [wpc EXCEPT ![g] = IF ok THEN "lock" ELSE AfterJob(job)]
              /\ called' = called \cup {<<member, g, job>>}
              /\ fetched' = IF ok THEN fetched \cup {<<member, g, job>>} ELSE fetched
        BY <2>1 DEF CallReturns
      <3>2. job \in Job /\ <<member, g, job>> \in Batch
        BY DEF NextJob, Job, Batch
      <3> QED BY <2>1, <3>1, <3>2 DEF CallReturns, AfterJob
    <2>2. CASE LockMu(g) BY <2>2 DEF LockMu
    <2>3. CASE AppendUnlock(g)
      <3>1. <<member, g, wjob[g]>> \in Batch BY DEF Batch
      <3> QED BY <2>3, <3>1 DEF AppendUnlock, AfterJob
    <2>4. CASE WorkerExits(g) BY <2>4 DEF WorkerExits
    <2> QED BY <2>1, <2>2, <2>3, <2>4 DEF WorkerSteps
  <1> QED BY <1>2, <1>3, <1>4, <1>6

(* The handler and the world outside.                                      *)
LEMMA OtherType == TypeOK /\ (Handler \/ Outside \/ UNCHANGED vars) => TypeOK'
  <1> SUFFICES ASSUME TypeOK, Handler \/ Outside \/ UNCHANGED vars PROVE TypeOK'
    OBVIOUS
  <1> USE DEF TypeOK
  <1>1. UNCHANGED <<query, store, pc, service, workers>>
    BY DEF Handler, Outside, Forward, EndOfEvents, HangUp, CancelContext, UserDeleted,
           LeaderRemoved, TeamDeleted, OtherRequest, vars
  <1>2. TypeTables'
    BY <1>1 DEF TypeTables, database, vars, Handler, Outside, Forward, EndOfEvents,
                HangUp, CancelContext, UserDeleted, LeaderRemoved, TeamDeleted,
                OtherRequest
  <1>3. TypeService' BY <1>1 DEF TypeService, service
  <1>4. TypeWorkers' BY <1>1 DEF TypeWorkers, workers, service
  <1>5. TypeStream'
    <2> USE DEF TypeStream
    <2>1. CASE Forward
      <3>1. Tail(chan) \in Seq(Event) /\ Head(chan) \in Event /\ Len(Tail(chan)) = Len(chan) - 1
        BY <2>1, SeqFacts DEF Forward
      <3>2. Append(wire, Head(chan)) \in Seq(Event)
        BY <3>1, SeqFacts
      <3> QED BY <2>1, <3>1, <3>2, ReportAssumption DEF Forward
    <2>2. CASE EndOfEvents BY <2>2 DEF EndOfEvents
    <2>3. CASE Outside \/ UNCHANGED vars
      BY <2>3 DEF Outside, HangUp, CancelContext, UserDeleted, LeaderRemoved,
                  TeamDeleted, OtherRequest, vars, stream
    <2> QED BY <2>1, <2>2, <2>3 DEF Handler
  <1> QED BY <1>2, <1>3, <1>4, <1>5

LEMMA NextType == TypeOK /\ [Next]_vars => TypeOK'
  BY LoadType, LocalType, WorkerType, OtherType DEF Next, Over

(* The variables always have their types and the channel never overflows,  *)
(* whatever the tables, the failures and the interleaving.                 *)
THEOREM TypeCorrect == Spec => []TypeOK
  BY InitType, NextType, PTL DEF Spec

-----------------------------------------------------------------------------
(* What the reports in a sequence become when it grows or shrinks.         *)
LEMMA ReportsAppend ==
    ASSUME NEW s \in Seq(Event), NEW e \in Event
    PROVE  Reports(Append(s, e)) = Reports(s) \cup {x \in {e} : x.kind = "USER_REPORT"}
  <1>1. \A i \in DOMAIN s : Append(s, e)[i] = s[i]
    OBVIOUS
  <1>2. DOMAIN Append(s, e) = DOMAIN s \cup {Len(s) + 1}
    OBVIOUS
  <1>3. Append(s, e)[Len(s) + 1] = e
    OBVIOUS
  <1> QED
    BY <1>1, <1>2, <1>3 DEF Reports

LEMMA ReportsTail ==
    ASSUME NEW s \in Seq(Event), s # <<>>
    PROVE  /\ Reports(Tail(s)) \subseteq Reports(s)
           /\ Head(s).kind = "USER_REPORT" => Head(s) \in Reports(s)
  <1>1. \A i \in DOMAIN Tail(s) : i + 1 \in DOMAIN s /\ Tail(s)[i] = s[i + 1]
    OBVIOUS
  <1>2. 1 \in DOMAIN s /\ Head(s) = s[1]
    OBVIOUS
  <1> QED
    BY <1>1, <1>2 DEF Reports

(* A request begins with nothing called, sent or running.                  *)
LEMMA InitExact == Init => ExactInv
  <1> SUFFICES ASSUME Init PROVE ExactInv
    OBVIOUS
  <1>1. Active = {} /\ called = {} /\ wg = 0 /\ pc = "teamRow"
        /\ chan = <<>> /\ wire = <<>> /\ wpc = [g \in Group |-> "idle"]
    BY DEF Init, Active
  <1>2. EventsOut = {}
    BY <1>1 DEF EventsOut, Reports
  <1>3. LoopInv
    BY <1>1, <1>2, FS_EmptySet DEF LoopInv, PerMember
  <1>4. CallsInv /\ AppendInv
    BY <1>1 DEF CallsInv, AppendInv, PerMember, Holding
  <1>5. EventsInv /\ ReportExact
    BY <1>2 DEF EventsInv, ReportExact
  <1> QED
    BY <1>3, <1>4, <1>5 DEF ExactInv

(* While the tables are read nothing has been called, sent or started.     *)
LEMMA LoadExact == TypeOK /\ ExactInv /\ LoadStep => ExactInv'
  <1> SUFFICES ASSUME TypeOK, ExactInv, LoadStep PROVE ExactInv'
    OBVIOUS
  <1>1. /\ pc \in Reading /\ pc' \in Reading \cup {"nextMember", "fail"}
        /\ UNCHANGED <<workers, stream>>
    BY DEF LoadStep, ReadTeamRow, ReadLeaders, ReadMembers, ReadRepoIDs, ReadUsers,
           ReadRepos, ReadFails, Statement, Reading
  <1>2. Active = {} /\ called = {} /\ EventsOut = {}
    BY <1>1 DEF ExactInv, LoopInv, Reading, PerMember
  <1>3. Active' = {} /\ called' = {} /\ EventsOut' = {}
        /\ wg' = wg /\ wpc' = wpc /\ wlocal' = wlocal /\ wjob' = wjob /\ mu' = mu
    BY <1>1, <1>2 DEF Active, EventsOut, Reports, workers, stream
  <1>4. LoopInv'
    BY <1>1, <1>2, <1>3 DEF ExactInv, LoopInv, Reading, PerMember
  <1>5. CallsInv' /\ AppendInv'
    BY <1>1, <1>3 DEF CallsInv, AppendInv, Reading, PerMember, Active, Holding
  <1>6. EventsInv' /\ ReportExact'
    BY <1>3 DEF EventsInv, ReportExact
  <1> QED
    BY <1>4, <1>5, <1>6 DEF ExactInv

(* fetchMemberReport starts: what is left of the previous member is out of *)
(* the way, since no worker runs and the new member has no calls yet.      *)
LEMMA NextMemberExact == TypeOK /\ ExactInv /\ NextMember => ExactInv'
  <1> SUFFICES ASSUME TypeOK, ExactInv, NextMember PROVE ExactInv'
    OBVIOUS
  <1>1. /\ pc = "nextMember" /\ pc' = "nextGroup"
        /\ member' \in todo /\ todo' = todo \ {member'}
        /\ left' = {g \in Group : groups[g] # {}} /\ wg' = 0 /\ acc' = {}
        /\ groups' = groups /\ wpc' = wpc /\ wjob' = wjob /\ called' = called
        /\ fetched' = fetched /\ chan' = chan /\ wire' = wire
    BY DEF NextMember, stream
  <1>2. Active = {} /\ Active' = {}
    BY <1>1 DEF ExactInv, LoopInv, Active, PerMember
  <1>3. EventsOut' = EventsOut /\ \A b \in called : b[1] \notin todo
    BY <1>1 DEF EventsOut, Reports, ExactInv, LoopInv
  <1>4. \A g \in Group : ~Spawned(g)' /\ ~Holding(g)'
    BY <1>1, <1>2 DEF Spawned, Holding, Active
  <1>5. \A g \in Group, job \in Job : <<member', g, job>> \notin called
    BY <1>1, <1>3
  <1>6. LoopInv'
    BY <1>1, <1>2, <1>3, FS_EmptySet DEF LoopInv, Reading, PerMember
  <1>7. CallsInv'
    BY <1>1, <1>4, <1>5 DEF CallsInv
  <1>8. AppendInv'
    BY <1>1, <1>2, <1>4, <1>5 DEF AppendInv, TypeOK, TypeWorkers, Active
  <1>9. EventsInv'
    BY <1>1, <1>3 DEF EventsInv, ExactInv
  <1>10. ReportExact'
    BY <1>1, <1>3 DEF ReportExact, ExactInv, Work
  <1> QED
    BY <1>6, <1>7, <1>8, <1>9, <1>10 DEF ExactInv

(* The loop over the groups moves on; no worker is affected.               *)
LEMMA LoopExact ==
    TypeOK /\ ExactInv /\ (NextGroup \/ Discover \/ UpsertDiscovered \/ AllSpawned \/ Wait)
        => ExactInv'
  <1> SUFFICES ASSUME TypeOK, ExactInv,
                      NextGroup \/ Discover \/ UpsertDiscovered \/ AllSpawned \/ Wait
               PROVE  ExactInv'
    OBVIOUS
  <1>1. /\ UNCHANGED <<workers, stream, groups, member, todo>>
        /\ pc \in PerMember /\ pc' \in PerMember
    BY DEF NextGroup, Discover, UpsertDiscovered, AllSpawned, Wait, PerMember, service
  <1>2. /\ UNCHANGED <<wg, mu, acc, wpc, wleft, wjob, wlocal, called, fetched>>
        /\ Active' = Active /\ Active \subseteq Group /\ EventsOut' = EventsOut
        /\ \A g \in Group : Holding(g)' = Holding(g) /\ Pending(g)' = Pending(g)
    BY <1>1 DEF workers, stream, Active, EventsOut, Reports, Holding, Pending
  <1>3. \A g \in Group : Spawned(g)' = Spawned(g)
    <2> SUFFICES ASSUME NEW g \in Group PROVE Spawned(g)' = Spawned(g)
      OBVIOUS
    <2>1. CASE NextGroup BY <1>1, <2>1 DEF NextGroup, Spawned
    <2>2. CASE Discover \/ UpsertDiscovered \/ AllSpawned \/ Wait
      BY <1>1, <2>2 DEF Discover, UpsertDiscovered, AllSpawned, Wait, Spawned, service
    <2> QED BY <2>1, <2>2
  <1>4. LoopInv'
    <2> USE <1>1, <1>2, <1>3 DEF LoopInv, ExactInv, Reading, PerMember
    <2>1. CASE NextGroup BY <2>1 DEF NextGroup
    <2>2. CASE Discover BY <2>2 DEF Discover
    <2>3. CASE UpsertDiscovered BY <2>3 DEF UpsertDiscovered
    <2>4. CASE AllSpawned BY <2>4 DEF AllSpawned, service
    <2>5. CASE Wait
      <3>1. Active = {} BY <2>5, FS_EmptySet DEF Wait
      <3> QED BY <2>5, <3>1 DEF Wait, service
    <2> QED BY <2>1, <2>2, <2>3, <2>4, <2>5
  <1>5. CallsInv'
    BY <1>1, <1>2, <1>3 DEF CallsInv, ExactInv
  <1>6. AppendInv'
    BY <1>1, <1>2 DEF AppendInv, ExactInv
  <1>7. EventsInv' /\ ReportExact'
    BY <1>1, <1>2 DEF EventsInv, ReportExact, Work, ExactInv
  <1> QED
    BY <1>4, <1>5, <1>6, <1>7 DEF ExactInv

(* A new worker joins: it was idle, and has all of its jobs before it.     *)
LEMMA SpawnExact == TypeOK /\ ExactInv /\ Spawn => ExactInv'
  <1> SUFFICES ASSUME TypeOK, ExactInv, Spawn PROVE ExactInv'
    OBVIOUS
  <1>1. /\ pc = "upsert" /\ pc' = "nextGroup" /\ group \in Group
        /\ wg' = wg + 1
        /\ wpc' = [wpc EXCEPT ![group] = "call"]
        /\ wleft' = [wleft EXCEPT ![group] = groups[group]]
        /\ UNCHANGED <<groups, member, todo, left, group, mu, acc, wjob, wlocal, called,
                       fetched, chan, wire>>
        /\ wpc \in [Group -> {"idle", "call", "lock", "append", "exit"}]
        /\ wleft \in [Group -> SUBSET Repo]
    BY DEF Spawn, service, stream, TypeOK, TypeService, TypeWorkers
  <1>2. EventsOut' = EventsOut
    BY <1>1 DEF EventsOut, Reports
  <1>3. wpc[group] = "idle" /\ group \notin Active /\ Active \subseteq Group
    BY <1>1 DEF ExactInv, LoopInv, Active, Spawned
  <1>4. Active' = Active \cup {group}
    BY <1>1, <1>3 DEF Active
  <1>5. \A g \in Group : Spawned(g)' <=> Spawned(g) \/ g = group
    BY <1>1 DEF Spawned, ExactInv, LoopInv
  <1>6. ~Spawned(group)
    BY <1>1 DEF Spawned
  <1>7. /\ \A g \in Group : Holding(g)' = Holding(g)
        /\ \A g \in Group : g # group => Pending(g)' = Pending(g)
        /\ \A g \in Group : g = group => Pending(g)' = groups[g] \cup {Search}
    BY <1>1, <1>3 DEF Holding, Pending
  <1>8. LoopInv'
    <2>1. IsFiniteSet(Active') /\ wg' = Cardinality(Active')
      BY <1>1, <1>3, <1>4, FS_AddElement DEF ExactInv, LoopInv
    <2>2. \A g \in Active' : Spawned(g)' /\ wleft'[g] \subseteq groups'[g]
      BY <1>1, <1>3, <1>4, <1>5 DEF ExactInv, LoopInv
    <2> QED
      BY <1>1, <1>2, <2>1, <2>2 DEF ExactInv, LoopInv, PerMember, Reading
  <1>9. CallsInv'
    <2> SUFFICES ASSUME NEW g \in Group, NEW job \in Job
                 PROVE  <<member, g, job>> \in called <=>
                            Spawned(g)' /\ job \in (groups[g] \cup {Search}) \ Pending(g)'
      BY <1>1 DEF CallsInv
    <2>1. <<member, g, job>> \in called <=>
             Spawned(g) /\ job \in (groups[g] \cup {Search}) \ Pending(g)
      BY <1>1 DEF ExactInv, CallsInv, PerMember
    <2>2. CASE g = group
      <3>1. Pending(g)' = groups[g] \cup {Search} /\ ~Spawned(g)
        BY <1>6, <1>7, <2>2
      <3> QED BY <2>1, <3>1
    <2>3. CASE g # group
      <3>1. Pending(g)' = Pending(g) /\ (Spawned(g)' <=> Spawned(g))
        BY <1>5, <1>7, <2>3
      <3> QED BY <2>1, <3>1
    <2> QED
      BY <2>2, <2>3
  <1>10. AppendInv'
    BY <1>1, <1>3, <1>7 DEF ExactInv, AppendInv, PerMember, Holding
  <1>11. EventsInv' /\ ReportExact'
    BY <1>1, <1>2 DEF ExactInv, EventsInv, ReportExact, Work, PerMember
  <1> QED
    BY <1>8, <1>9, <1>10, <1>11 DEF ExactInv

(* The report that is sent is exact: every group's worker is through.      *)
LEMMA SendReportExact == TypeOK /\ ExactInv /\ SendReport => ExactInv'
  <1> SUFFICES ASSUME TypeOK, ExactInv, SendReport PROVE ExactInv'
    OBVIOUS
  <1> DEFINE e == UserReport(member, acc)
  <1>1. /\ pc = "send" /\ pc' = "nextMember" /\ member \in User /\ acc \subseteq Batch
        /\ chan' = Append(chan, e) /\ chan \in Seq(Event) /\ e \in Event
        /\ UNCHANGED <<wg, mu, acc, wpc, wleft, wjob, wlocal, called, fetched, groups,
                       member, todo, left, group, wire>>
    BY EventFacts DEF SendReport, Send, service, workers, TypeOK, TypeService, TypeWorkers,
                      TypeStream, PerMember
  <1>2. e.kind = "USER_REPORT" /\ e.user = member /\ e.activities = acc
    BY DEF UserReport
  <1>3. EventsOut' = EventsOut \cup {e}
    BY <1>1, <1>2, ReportsAppend DEF EventsOut, Reports
  <1>4. Active = {} /\ Active' = {} /\ left = {} /\ member \notin todo
    BY <1>1 DEF ExactInv, LoopInv, PerMember, Active
  <1>5. \A g \in Group : ~Holding(g) /\ Pending(g) = {} /\ ~Holding(g)'
    BY <1>1, <1>4 DEF Holding, Pending, Active
  <1>6. Work(member) = {b \in called : b[1] = member}
    <2>1. \A g \in Group, job \in Job :
             <<member, g, job>> \in called <=>
                 /\ groups[g] # {} /\ g[1] \in Registered
                 /\ job \in groups[g] \cup {Search}
      BY <1>1, <1>4, <1>5 DEF ExactInv, CallsInv, PerMember, Spawned
    <2>2. called \subseteq Batch
      BY DEF TypeOK, TypeWorkers
    <2> QED
      BY <2>1, <2>2 DEF Work, Batch
  <1>7. acc = {b \in fetched : b[1] = member}
    <2>1. /\ \A g \in Group, job \in Job :
                <<member, g, job>> \in acc <=> <<member, g, job>> \in fetched
          /\ \A b \in acc : b[1] = member
      BY <1>1, <1>5 DEF ExactInv, AppendInv, PerMember
    <2>2. fetched \subseteq Batch /\ acc \subseteq Batch
      BY DEF TypeOK, TypeWorkers
    <2> QED
      BY <2>1, <2>2 DEF Batch
  <1>8. LoopInv'
    BY <1>1, <1>3, <1>4 DEF ExactInv, LoopInv, PerMember, Reading
  <1>9. CallsInv'
    BY <1>1 DEF CallsInv, PerMember
  <1>10. AppendInv'
    BY <1>1, <1>4, <1>5 DEF AppendInv, PerMember, Active
  <1>11. EventsInv'
    BY <1>1, <1>2, <1>3, <1>4 DEF ExactInv, EventsInv, PerMember
  <1>12. ReportExact'
    <2> HIDE DEF e
    <2>1. \A u \in User : Work(u)' = Work(u)
      BY <1>1 DEF Work
    <2>2. called' = called /\ fetched' = fetched
      BY <1>1
    <2>3. \A x \in EventsOut : x.user \in User
      BY DEF ExactInv, EventsInv
    <2>4. ASSUME NEW x \in EventsOut'
          PROVE  /\ Work(x.user)' = {b \in called : b[1] = x.user}
                 /\ x.activities = {b \in fetched : b[1] = x.user}
      <3>1. CASE x = e
        BY <3>1, <1>1, <1>2, <1>6, <1>7, <2>1
      <3>2. CASE x \in EventsOut
        BY <3>2, <2>1, <2>3 DEF ExactInv, ReportExact
      <3> QED
        BY <3>1, <3>2, <1>3
    <2> QED
      BY <2>2, <2>4 DEF ReportExact
  <1> QED
    BY <1>8, <1>9, <1>10, <1>11, <1>12 DEF ExactInv

(* COMPLETE, ERROR and the closing of the channel add no report.           *)
LEMMA EndExact == TypeOK /\ ExactInv /\ (SendComplete \/ SendError \/ Close) => ExactInv'
  <1> SUFFICES ASSUME TypeOK, ExactInv, SendComplete \/ SendError \/ Close PROVE ExactInv'
    OBVIOUS
  <1>1. /\ pc \in {"nextMember", "fail", "close"} /\ pc' \in {"close", "done"}
        /\ UNCHANGED <<wg, mu, acc, wpc, wleft, wjob, wlocal, called, fetched, groups,
                       member, todo, left, group, wire>>
    BY DEF SendComplete, SendError, Close, Send, service, workers
  <1>2. EventsOut' = EventsOut
    <2>1. CASE SendComplete \/ SendError
      <3>1. PICK e \in {Complete, Error} : chan' = Append(chan, e)
        BY <2>1 DEF SendComplete, SendError, Send
      <3>2. e \in Event /\ e.kind # "USER_REPORT"
        BY <3>1, EventFacts
      <3>3. chan \in Seq(Event)
        BY DEF TypeOK, TypeStream
      <3>4. Reports(Append(chan, e)) = Reports(chan)
        <4>1. {x \in {e} : x.kind = "USER_REPORT"} = {}
          BY <3>2
        <4>2. Reports(Append(chan, e)) = Reports(chan) \cup {x \in {e} : x.kind = "USER_REPORT"}
          BY <3>2, <3>3, ReportsAppend
        <4> QED BY <4>1, <4>2
      <3> QED BY <1>1, <3>1, <3>4 DEF EventsOut, Reports
    <2>2. CASE Close BY <1>1, <2>2 DEF Close, EventsOut, Reports
    <2> QED BY <2>1, <2>2
  <1>3. Active = {} /\ Active' = {}
    BY <1>1 DEF ExactInv, LoopInv, PerMember, Active
  <1>4. LoopInv'
    BY <1>1, <1>2, <1>3 DEF ExactInv, LoopInv, PerMember, Reading
  <1>5. CallsInv' /\ AppendInv'
    BY <1>1, <1>3 DEF CallsInv, AppendInv, PerMember, Active, Holding
  <1>6. EventsInv' /\ ReportExact'
    BY <1>1, <1>2 DEF ExactInv, EventsInv, ReportExact, Work, PerMember
  <1> QED
    BY <1>4, <1>5, <1>6 DEF ExactInv

(* A call returns: its job is done, and its batch is in the worker's hands *)
(* if it succeeded.                                                        *)
LEMMA CallExact ==
    ASSUME TypeOK, ExactInv, NEW g \in Group, NEW ok \in BOOLEAN, CallReturns(g, ok)
    PROVE  ExactInv'
  <1>1. PICK job \in NextJob(g) :
          /\ wleft' = [wleft EXCEPT ![g] = wleft[g] \ {job}]
          /\ wjob' = [wjob EXCEPT ![g] = job]
          /\ wpc' = [wpc EXCEPT ![g] = IF ok THEN "lock" ELSE AfterJob(job)]
          /\ called' = called \cup {<<member, g, job>>}
          /\ fetched' = IF ok THEN fetched \cup {<<member, g, job>>} ELSE fetched
    BY DEF CallReturns
  <1>2. /\ UNCHANGED <<pc, wg, mu, acc, wlocal, groups, member, todo, left, group, chan, wire>>
        /\ wpc[g] = "call"
    BY DEF CallReturns, service, stream
  <1>3. /\ wpc \in [Group -> {"idle", "call", "lock", "append", "exit"}]
        /\ wleft \in [Group -> SUBSET Repo] /\ wjob \in [Group -> Job]
        /\ called \subseteq Batch /\ fetched \subseteq called
        /\ Search \notin Repo
    BY ReportAssumption DEF TypeOK, TypeWorkers
  <1>4. /\ g \in Active /\ pc \in PerMember \ {"send"} /\ Spawned(g)
        /\ wleft[g] \subseteq groups[g]
    BY <1>2 DEF Active, ExactInv, LoopInv
  <1>5. /\ job \in Job /\ job \in groups[g] \cup {Search}
        /\ job = Search => wleft[g] = {}
        /\ job # Search => job \in wleft[g]
    BY <1>3, <1>4 DEF NextJob, Job
  <1>6. Active' = Active /\ Active \subseteq Group /\ EventsOut' = EventsOut
    BY <1>1, <1>2, <1>3, <1>4 DEF Active, AfterJob, EventsOut, Reports
  <1>7. \A h \in Group : Spawned(h)' = Spawned(h)
    BY <1>2 DEF Spawned
  <1>8. /\ \A h \in Group : h # g => Pending(h)' = Pending(h) /\ Holding(h)' = Holding(h)
        /\ Holding(g)' = ok /\ ~Holding(g)
        /\ Pending(g) = wleft[g] \cup {Search}
    BY <1>1, <1>2, <1>3 DEF Pending, Holding, AfterJob
  <1>9. Pending(g)' = Pending(g) \ {job}
    BY <1>1, <1>2, <1>3, <1>5 DEF Pending, Holding, AfterJob
  <1>10. LoopInv'
    <2>1. \A h \in Active' : wleft'[h] \subseteq wleft[h]
      BY <1>1, <1>3, <1>6
    <2>2. member \notin todo
      BY <1>4 DEF ExactInv, LoopInv
    <2> QED
      BY <1>1, <1>2, <1>4, <1>6, <1>7, <2>1, <2>2
      DEF ExactInv, LoopInv, PerMember, Reading
  <1>11. CallsInv'
    <2> SUFFICES ASSUME NEW h \in Group, NEW j \in Job
                 PROVE  <<member, h, j>> \in called' <=>
                           Spawned(h) /\ j \in (groups[h] \cup {Search}) \ Pending(h)'
      BY <1>2, <1>7 DEF CallsInv
    <2>1. <<member, h, j>> \in called <=>
             Spawned(h) /\ j \in (groups[h] \cup {Search}) \ Pending(h)
      BY <1>4 DEF ExactInv, CallsInv
    <2>2. <<member, h, j>> \in called' <=> <<member, h, j>> \in called \/ (h = g /\ j = job)
      BY <1>1
    <2>3. CASE h = g
      BY <1>4, <1>5, <1>9, <2>1, <2>2, <2>3
    <2>4. CASE h # g
      <3>1. Pending(h)' = Pending(h) BY <1>8, <2>4
      <3> QED BY <2>1, <2>2, <2>4, <3>1
    <2> QED BY <2>3, <2>4
  <1>12. <<member, g, job>> \notin called /\ <<member, g, job>> \notin fetched
    <2>1. job \in Pending(g)
      BY <1>5, <1>8
    <2> QED
      BY <1>3, <1>4, <1>5, <2>1 DEF ExactInv, CallsInv
  <1>13. AppendInv'
    <2>1. ASSUME NEW h \in Group, NEW j \in Job
          PROVE  <<member, h, j>> \in acc <=>
                    <<member, h, j>> \in fetched' /\ ~(Holding(h)' /\ j = wjob'[h])
      <3>1. <<member, h, j>> \in acc <=>
               <<member, h, j>> \in fetched /\ ~(Holding(h) /\ j = wjob[h])
        BY <1>4 DEF ExactInv, AppendInv
      <3>2. CASE h # g
        <4>1. wjob'[h] = wjob[h] /\ Holding(h)' = Holding(h)
          BY <1>1, <1>3, <1>8, <3>2
        <4>2. <<member, h, j>> \in fetched' <=> <<member, h, j>> \in fetched
          BY <1>1, <3>2
        <4> QED BY <3>1, <4>1, <4>2
      <3>3. CASE h = g
        <4>1. wjob'[g] = job
          BY <1>1, <1>3, <1>5
        <4>2. <<member, g, j>> \in acc <=> <<member, g, j>> \in fetched
          BY <1>8, <3>1, <3>3
        <4>3. CASE ok
          BY <1>1, <1>8, <1>12, <3>3, <4>1, <4>2, <4>3
        <4>4. CASE ~ok
          BY <1>1, <1>8, <3>3, <4>1, <4>2, <4>4
        <4> QED BY <4>3, <4>4
      <3> QED BY <3>2, <3>3
    <2>2. ASSUME NEW h \in Group, Holding(h)'
          PROVE  /\ <<member, h, wjob'[h]>> \in fetched'
                 /\ wjob'[h] \notin wleft'[h]
                 /\ wjob'[h] = Search => wleft'[h] = {}
      <3>1. CASE h # g
        <4>1. Holding(h) /\ wjob'[h] = wjob[h] /\ wleft'[h] = wleft[h]
          BY <1>1, <1>3, <1>8, <2>2, <3>1
        <4> QED BY <1>1, <4>1 DEF ExactInv, AppendInv
      <3>2. CASE h = g
        <4>1. ok /\ wjob'[g] = job /\ wleft'[g] = wleft[g] \ {job}
          BY <1>1, <1>3, <1>5, <1>8, <2>2, <3>2
        <4> QED BY <1>1, <1>5, <3>2, <4>1
      <3> QED BY <3>1, <3>2
    <2>3. ASSUME NEW h \in Group, wpc'[h] = "append"
          PROVE  mu' = h /\ wlocal'[h] = acc'
      <3>1. h # g /\ wpc[h] = "append"
        BY <1>1, <1>2, <1>3, <2>3 DEF AfterJob
      <3> QED BY <1>2, <3>1 DEF ExactInv, AppendInv
    <2>4. \A b \in acc : b[1] = member
      BY <1>4 DEF ExactInv, AppendInv
    <2> QED
      BY <1>2, <2>1, <2>2, <2>3, <2>4 DEF AppendInv
  <1>14. EventsInv'
    BY <1>2, <1>6 DEF ExactInv, EventsInv
  <1>15. ReportExact'
    <2>1. \A e \in EventsOut : e.user # member
      BY <1>4 DEF ExactInv, EventsInv
    <2> QED
      BY <1>1, <1>2, <1>6, <2>1 DEF ExactInv, ReportExact, Work
  <1> QED
    BY <1>10, <1>11, <1>13, <1>14, <1>15 DEF ExactInv

(* A worker takes the mutex and reads allActivities.                       *)
LEMMA LockExact ==
    ASSUME TypeOK, ExactInv, NEW g \in Group, LockMu(g)
    PROVE  ExactInv'
  <1>1. /\ wpc[g] = "lock" /\ mu = None /\ mu' = g
        /\ wlocal' = [wlocal EXCEPT ![g] = acc]
        /\ wpc' = [wpc EXCEPT ![g] = "append"]
        /\ UNCHANGED <<pc, wg, acc, wleft, wjob, called, fetched, groups, member, todo, left,
                       group, chan, wire>>
        /\ wpc \in [Group -> {"idle", "call", "lock", "append", "exit"}]
        /\ wlocal \in [Group -> SUBSET Batch]
    BY DEF LockMu, service, stream, TypeOK, TypeWorkers
  <1>2. Active' = Active /\ Active \subseteq Group /\ EventsOut' = EventsOut
    BY <1>1 DEF Active, EventsOut, Reports
  <1>3. \A h \in Group : /\ Spawned(h)' = Spawned(h)
                         /\ Holding(h)' = Holding(h)
                         /\ Pending(h)' = Pending(h)
    BY <1>1 DEF Spawned, Holding, Pending
  <1>4. LoopInv' /\ CallsInv'
    BY <1>1, <1>2, <1>3 DEF ExactInv, LoopInv, CallsInv
  <1>5. \A h \in Group : wpc[h] # "append"
    <2>1. \A h \in Group : h # None
      BY ReportAssumption
    <2> QED
      BY <1>1, <2>1 DEF ExactInv, AppendInv
  <1>6. AppendInv'
    BY <1>1, <1>3, <1>5 DEF ExactInv, AppendInv
  <1>7. EventsInv' /\ ReportExact'
    BY <1>1, <1>2 DEF ExactInv, EventsInv, ReportExact, Work
  <1> QED
    BY <1>4, <1>6, <1>7 DEF ExactInv

(* It writes the slice back with its batch, and gives the mutex up: no     *)
(* other worker appended in between.                                       *)
LEMMA AppendExact ==
    ASSUME TypeOK, ExactInv, NEW g \in Group, AppendUnlock(g)
    PROVE  ExactInv'
  <1> DEFINE b == <<member, g, wjob[g]>>
  <1>1. /\ wpc[g] = "append" /\ mu' = None
        /\ acc' = wlocal[g] \cup {b}
        /\ wpc' = [wpc EXCEPT ![g] = AfterJob(wjob[g])]
        /\ UNCHANGED <<pc, wg, wlocal, wleft, wjob, called, fetched, groups, member, todo,
                       left, group, chan, wire>>
        /\ wpc \in [Group -> {"idle", "call", "lock", "append", "exit"}]
        /\ wjob \in [Group -> Job]
    BY DEF AppendUnlock, service, stream, TypeOK, TypeWorkers
  <1>2. Active' = Active /\ Active \subseteq Group /\ EventsOut' = EventsOut /\ g \in Active
    BY <1>1 DEF Active, EventsOut, Reports, AfterJob
  <1>3. Holding(g) /\ ~Holding(g)'
    BY <1>1 DEF Holding, AfterJob
  <1>4. acc' = acc \cup {b} /\ b \in fetched /\ mu = g
        /\ wjob[g] \notin wleft[g] /\ (wjob[g] = Search => wleft[g] = {})
    BY <1>1, <1>3 DEF ExactInv, AppendInv
  <1>5. \A h \in Group : /\ Spawned(h)' = Spawned(h)
                         /\ h # g => Holding(h)' = Holding(h) /\ Pending(h)' = Pending(h)
                         /\ h = g => Pending(h)' = Pending(h)
    BY <1>1 DEF Spawned, Holding, Pending, AfterJob
  <1>6. LoopInv'
    BY <1>1, <1>2, <1>5 DEF ExactInv, LoopInv
  <1>7. CallsInv'
    BY <1>1, <1>5 DEF ExactInv, CallsInv
  <1>8. pc \in PerMember
    BY <1>2 DEF ExactInv, LoopInv
  <1>9. AppendInv'
    <2>1. \A x \in acc' : x[1] = member
      BY <1>4, <1>8 DEF ExactInv, AppendInv
    <2>2. ASSUME NEW h \in Group, NEW j \in Job
          PROVE  <<member, h, j>> \in acc' <=>
                    <<member, h, j>> \in fetched /\ ~(Holding(h)' /\ j = wjob[h])
      <3>1. <<member, h, j>> \in acc <=>
               <<member, h, j>> \in fetched /\ ~(Holding(h) /\ j = wjob[h])
        BY <1>8 DEF ExactInv, AppendInv
      <3>2. CASE h = g
        BY <1>3, <1>4, <3>1, <3>2
      <3>3. CASE h # g
        <4>1. Holding(h)' = Holding(h) BY <1>5, <3>3
        <4>2. <<member, h, j>> # b BY <3>3
        <4> QED BY <1>4, <3>1, <4>1, <4>2
      <3> QED BY <3>2, <3>3
    <2>3. ASSUME NEW h \in Group, Holding(h)'
          PROVE  h # g /\ Holding(h)
      BY <1>3, <1>5, <2>3
    <2>4. ASSUME NEW h \in Group, wpc'[h] = "append"
          PROVE  FALSE
      <3>1. h # g /\ wpc[h] = "append"
        BY <1>1, <2>4 DEF AfterJob
      <3>2. mu = h
        BY <3>1 DEF ExactInv, AppendInv
      <3> QED BY <1>4, <3>1, <3>2
    <2> QED
      BY <1>1, <2>1, <2>2, <2>3, <2>4 DEF ExactInv, AppendInv
  <1>10. EventsInv' /\ ReportExact'
    BY <1>1, <1>2 DEF ExactInv, EventsInv, ReportExact, Work
  <1> QED
    BY <1>6, <1>7, <1>9, <1>10 DEF ExactInv

(* A worker that is through leaves, and the WaitGroup counts one less.     *)
LEMMA ExitExact ==
    ASSUME TypeOK, ExactInv, NEW g \in Group, WorkerExits(g)
    PROVE  ExactInv'
  <1>1. /\ wpc[g] = "exit" /\ wg' = wg - 1
        /\ wpc' = [wpc EXCEPT ![g] = "idle"]
        /\ UNCHANGED <<pc, mu, acc, wlocal, wleft, wjob, called, fetched, groups, member, todo,
                       left, group, chan, wire>>
        /\ wpc \in [Group -> {"idle", "call", "lock", "append", "exit"}]
    BY DEF WorkerExits, service, stream, TypeOK, TypeWorkers
  <1>2. Active' = Active \ {g} /\ Active \subseteq Group /\ EventsOut' = EventsOut /\ g \in Active
    BY <1>1 DEF Active, EventsOut, Reports
  <1>3. \A h \in Group : /\ Spawned(h)' = Spawned(h)
                         /\ Holding(h)' = Holding(h)
                         /\ Pending(h)' = Pending(h)
    BY <1>1 DEF Spawned, Holding, Pending
  <1>4. LoopInv'
    <2>1. IsFiniteSet(Active') /\ wg' = Cardinality(Active')
      BY <1>1, <1>2, FS_RemoveElement DEF ExactInv, LoopInv
    <2> QED
      BY <1>1, <1>2, <1>3, <2>1 DEF ExactInv, LoopInv
  <1>5. CallsInv'
    BY <1>1, <1>3 DEF ExactInv, CallsInv
  <1>6. AppendInv'
    BY <1>1, <1>3 DEF ExactInv, AppendInv
  <1>7. EventsInv' /\ ReportExact'
    BY <1>1, <1>2 DEF ExactInv, EventsInv, ReportExact, Work
  <1> QED
    BY <1>4, <1>5, <1>6, <1>7 DEF ExactInv

(* The handler only moves events on, and the world outside touches nothing *)
(* the invariant is about.                                                 *)
LEMMA OtherExact == TypeOK /\ ExactInv /\ (Handler \/ Outside \/ UNCHANGED vars) => ExactInv'
  <1> SUFFICES ASSUME TypeOK, ExactInv, Handler \/ Outside \/ UNCHANGED vars PROVE ExactInv'
    OBVIOUS
  <1>1. UNCHANGED <<pc, wg, mu, acc, wpc, wlocal, wleft, wjob, called, fetched, groups, member,
                    todo, left, group>>
    BY DEF Handler, Outside, Forward, EndOfEvents, HangUp, CancelContext, UserDeleted,
           LeaderRemoved, TeamDeleted, OtherRequest, vars, service, workers
  <1>2. EventsOut' \subseteq EventsOut
    <2>1. CASE Forward
      <3>1. chan \in Seq(Event) /\ wire \in Seq(Event) /\ chan # <<>> /\ Head(chan) \in Event
        BY <2>1, SeqFacts DEF Forward, TypeOK, TypeStream
      <3>2. Reports(Tail(chan)) \subseteq Reports(chan)
            /\ (Head(chan).kind = "USER_REPORT" => Head(chan) \in Reports(chan))
        BY <3>1, ReportsTail
      <3>3. Reports(Append(wire, Head(chan))) \subseteq Reports(wire) \cup Reports(chan)
        BY <3>1, <3>2, ReportsAppend
      <3>4. chan' = Tail(chan) /\ wire' \in {wire, Append(wire, Head(chan))}
        BY <2>1 DEF Forward
      <3>5. Reports(chan') = Reports(Tail(chan))
            /\ Reports(wire') \in {Reports(wire), Reports(Append(wire, Head(chan)))}
        BY <3>4
      <3>6. EventsOut' = Reports(chan') \cup Reports(wire')
        BY DEF EventsOut, Reports
      <3> QED
        BY <3>2, <3>3, <3>5, <3>6 DEF EventsOut
    <2>2. CASE EndOfEvents \/ Outside \/ UNCHANGED vars
      BY <2>2 DEF EndOfEvents, Outside, HangUp, CancelContext, UserDeleted, LeaderRemoved,
                  TeamDeleted, OtherRequest, vars, stream, EventsOut, Reports
    <2> QED BY <2>1, <2>2 DEF Handler
  <1>3. Active' = Active /\ Active \subseteq Group
        /\ \A g \in Group : /\ Spawned(g)' = Spawned(g)
                             /\ Holding(g)' = Holding(g)
                             /\ Pending(g)' = Pending(g)
    BY <1>1 DEF Active, Spawned, Holding, Pending
  <1>4. LoopInv'
    BY <1>1, <1>2, <1>3 DEF ExactInv, LoopInv
  <1>5. CallsInv' /\ AppendInv'
    BY <1>1, <1>3 DEF ExactInv, CallsInv, AppendInv
  <1>6. EventsInv' /\ ReportExact'
    BY <1>1, <1>2 DEF ExactInv, EventsInv, ReportExact, Work
  <1> QED
    BY <1>4, <1>5, <1>6 DEF ExactInv

LEMMA NextExact == TypeOK /\ ExactInv /\ [Next]_vars => ExactInv'
  <1> SUFFICES ASSUME TypeOK, ExactInv, [Next]_vars PROVE ExactInv'
    OBVIOUS
  <1>1. CASE LoadStep BY <1>1, LoadExact
  <1>2. CASE LocalStep \/ Discover
    BY <1>2, NextMemberExact, LoopExact, SpawnExact, SendReportExact, EndExact DEF LocalStep
  <1>3. ASSUME NEW g \in Group, WorkerSteps(g) \/ \E ok \in BOOLEAN : CallReturns(g, ok)
        PROVE  ExactInv'
    BY <1>3, CallExact, LockExact, AppendExact, ExitExact DEF WorkerSteps
  <1>4. CASE Handler \/ Outside \/ Over \/ UNCHANGED vars
    BY <1>4, OtherExact DEF Over
  <1> QED
    BY <1>1, <1>2, <1>3, <1>4 DEF Next

LEMMA ExactCorrect == Spec => []ExactInv
  BY TypeCorrect, InitExact, NextExact, PTL DEF Spec

(* Every report that is sent had made all of its member's calls and holds  *)
(* exactly the batches of those that succeeded: the mutex loses no append, *)
(* the WaitGroup ends no report early, and nothing of one member gets into *)
(* the report of another.                                                  *)
THEOREM ReportsAreExact == Spec => []ReportExact
  <1>1. ExactInv => ReportExact
    BY DEF ExactInv
  <1> QED
    BY <1>1, ExactCorrect, PTL

(* wg.Wait() is the end of every worker of fetchMemberReport.              *)
THEOREM WaitLeavesNobody == Spec => []NoStragglers
  <1>1. ExactInv => NoStragglers
    BY DEF ExactInv, LoopInv, Active, NoStragglers, PerMember
  <1> QED
    BY <1>1, ExactCorrect, PTL

-----------------------------------------------------------------------------
(* Events are on their way from the channel to the browser: what has been  *)
(* received, followed by what is still in the channel.                     *)
Pipe == wire \o chan

(* The stream of ADR-10, of any sequence of events.                        *)
Shaped(s) == \A i, j \in DOMAIN s :
    i < j => /\ s[i].kind = "USER_REPORT"
             /\ s[j].kind # "ERROR"
             /\ s[i].user # s[j].user

About(S) == {e.user : e \in S}
Current == IF pc \in PerMember THEN {member} ELSE {}

(* Nothing is sent while the tables are read, nothing but reports before   *)
(* the service closes the channel, and COMPLETE only after the last member.*)
PipeInv ==
    /\ Shaped(Pipe)
    /\ pc \in Reading \cup {"fail"} => Pipe = <<>>
    /\ \A i \in DOMAIN Pipe :
          /\ Pipe[i].kind # "USER_REPORT" => pc \in {"close", "done"}
          /\ Pipe[i].kind = "COMPLETE" => todo = {}

(* Of the roster, those the loop is done with have been reported, and all  *)
(* of them are on their way as long as the browser is there.               *)
RosterInv ==
    /\ todo \cup Current \subseteq roster
    /\ About(EventsOut) \subseteq roster \ (todo \cup Current)
    /\ client = "connected" => About(EventsOut) = roster \ (todo \cup Current)
    /\ OnWire("COMPLETE") => Reported = roster

StreamInv == PipeInv /\ RosterInv

(* Both parts of a well-shaped stream are well-shaped.                     *)
LEMMA ShapedPrefix ==
    ASSUME NEW s \in Seq(Event), NEW t \in Seq(Event), Shaped(s \o t)
    PROVE  Shaped(s) /\ Shaped(t)
  <1>1. \A i \in DOMAIN s : i \in DOMAIN (s \o t) /\ (s \o t)[i] = s[i]
    OBVIOUS
  <1>2. \A i \in DOMAIN t : i + Len(s) \in DOMAIN (s \o t) /\ (s \o t)[i + Len(s)] = t[i]
    OBVIOUS
  <1>3. Shaped(s)
    BY <1>1 DEF Shaped
  <1>4. Shaped(t)
    <2> SUFFICES ASSUME NEW i \in DOMAIN t, NEW j \in DOMAIN t, i < j
                 PROVE  /\ t[i].kind = "USER_REPORT"
                        /\ t[j].kind # "ERROR"
                        /\ t[i].user # t[j].user
      BY DEF Shaped
    <2>1. i + Len(s) < j + Len(s)
      OBVIOUS
    <2> QED
      BY <1>2, <2>1 DEF Shaped
  <1> QED
    BY <1>3, <1>4

(* So is one event more, when it may follow the others.                    *)
LEMMA ShapedAppend ==
    ASSUME NEW s \in Seq(Event), NEW e \in Event, Shaped(s),
           \A i \in DOMAIN s : s[i].kind = "USER_REPORT" /\ s[i].user # e.user,
           s # <<>> => e.kind # "ERROR"
    PROVE  Shaped(Append(s, e))
  <1>1. /\ \A i \in DOMAIN s : Append(s, e)[i] = s[i]
        /\ Append(s, e)[Len(s) + 1] = e
        /\ DOMAIN Append(s, e) = DOMAIN s \cup {Len(s) + 1}
        /\ DOMAIN s = 1 .. Len(s) /\ Len(s) \in Nat
        /\ s = <<>> => Len(s) = 0
    OBVIOUS
  <1> HIDE DEF Shaped
  <1>2. ASSUME NEW i \in DOMAIN Append(s, e), NEW j \in DOMAIN Append(s, e), i < j
        PROVE  /\ Append(s, e)[i].kind = "USER_REPORT"
               /\ Append(s, e)[j].kind # "ERROR"
               /\ Append(s, e)[i].user # Append(s, e)[j].user
    <2>1. i \in DOMAIN s
      BY <1>1, <1>2
    <2>2. CASE j = Len(s) + 1
      BY <1>1, <2>1, <2>2
    <2>3. CASE j \in DOMAIN s
      BY <1>1, <1>2, <2>1, <2>3 DEF Shaped
    <2> QED BY <1>1, <2>2, <2>3
  <1> QED
    BY <1>2 DEF Shaped

(* How the pipe moves: events enter at its end, pass from the channel to   *)
(* the browser in the middle, or are lost there.                           *)
LEMMA PipeFacts ==
    ASSUME NEW s \in Seq(Event), NEW t \in Seq(Event), NEW e \in Event
    PROVE  /\ s \o t \in Seq(Event)
           /\ s \o Append(t, e) = Append(s \o t, e)
           /\ t # <<>> => Append(s, Head(t)) \o Tail(t) = s \o t
           /\ s \o t = <<>> <=> s = <<>> /\ t = <<>>
           /\ \A i \in DOMAIN s : i \in DOMAIN (s \o t) /\ (s \o t)[i] = s[i]
           /\ \A i \in DOMAIN t : i + Len(s) \in DOMAIN (s \o t) /\ (s \o t)[i + Len(s)] = t[i]
           /\ \A i \in DOMAIN (s \o t) :
                 (\E j \in DOMAIN s : (s \o t)[i] = s[j]) \/ (\E j \in DOMAIN t : (s \o t)[i] = t[j])
  <1>1. s \o t \in Seq(Event)
    OBVIOUS
  <1>2. s \o Append(t, e) = Append(s \o t, e)
    OBVIOUS
  <1>3. t # <<>> => Append(s, Head(t)) \o Tail(t) = s \o t
    OBVIOUS
  <1>4. s \o t = <<>> <=> s = <<>> /\ t = <<>>
    OBVIOUS
  <1>5. \A i \in DOMAIN s : i \in DOMAIN (s \o t) /\ (s \o t)[i] = s[i]
    OBVIOUS
  <1>6. \A i \in DOMAIN t : i + Len(s) \in DOMAIN (s \o t) /\ (s \o t)[i + Len(s)] = t[i]
    OBVIOUS
  <1>7. \A i \in DOMAIN (s \o t) :
                 (\E j \in DOMAIN s : (s \o t)[i] = s[j]) \/ (\E j \in DOMAIN t : (s \o t)[i] = t[j])
    <2> TAKE i \in DOMAIN (s \o t)
    <2>1. CASE i <= Len(s)
      BY <2>1
    <2>2. CASE i > Len(s)
      <3>1. i - Len(s) \in DOMAIN t /\ (s \o t)[i] = t[i - Len(s)]
        BY <2>2
      <3> QED BY <3>1
    <2> QED BY <2>1, <2>2
  <1> QED
    BY <1>1, <1>2, <1>3, <1>4, <1>5, <1>6, <1>7

(* An event of the pipe that is lost shifts the events behind it by one.   *)
LEMMA LossFacts ==
    ASSUME NEW s \in Seq(Event), NEW t \in Seq(Event), t # <<>>
    PROVE  \A i \in DOMAIN (s \o Tail(t)) :
              \E k \in DOMAIN (s \o t) : /\ k = IF i <= Len(s) THEN i ELSE i + 1
                                       /\ (s \o Tail(t))[i] = (s \o t)[k]
  <1>1. \A i \in DOMAIN (s \o Tail(t)) :
           LET k == IF i <= Len(s) THEN i ELSE i + 1
           IN  k \in DOMAIN (s \o t) /\ (s \o Tail(t))[i] = (s \o t)[k]
    OBVIOUS
  <1> QED
    BY <1>1

(* So a stream that loses an event keeps its shape.                        *)
LEMMA ShapedLoss ==
    ASSUME NEW s \in Seq(Event), NEW t \in Seq(Event), t # <<>>, Shaped(s \o t)
    PROVE  Shaped(s \o Tail(t))
  <1> SUFFICES ASSUME NEW i \in DOMAIN (s \o Tail(t)), NEW j \in DOMAIN (s \o Tail(t)), i < j
               PROVE  /\ (s \o Tail(t))[i].kind = "USER_REPORT"
                      /\ (s \o Tail(t))[j].kind # "ERROR"
                      /\ (s \o Tail(t))[i].user # (s \o Tail(t))[j].user
    BY DEF Shaped
  <1>1. PICK k \in DOMAIN (s \o t) : /\ k = IF i <= Len(s) THEN i ELSE i + 1
                                    /\ (s \o Tail(t))[i] = (s \o t)[k]
    BY LossFacts
  <1>2. PICK l \in DOMAIN (s \o t) : /\ l = IF j <= Len(s) THEN j ELSE j + 1
                                    /\ (s \o Tail(t))[j] = (s \o t)[l]
    BY LossFacts
  <1>3. k < l
    <2>1. i \in Nat /\ j \in Nat /\ Len(s) \in Nat
      OBVIOUS
    <2> QED
      BY <1>1, <1>2, <2>1
  <1> QED
    BY <1>1, <1>2, <1>3 DEF Shaped

(* A step that neither sends nor receives, and settles nothing about the   *)
(* roster, keeps the invariant.                                            *)
LEMMA StreamFrame ==
    ASSUME StreamInv, UNCHANGED <<chan, wire, todo, roster>>, Current' = Current,
           pc' \in Reading \cup {"fail"} => pc \in Reading \cup {"fail"},
           pc \in {"close", "done"} => pc' \in {"close", "done"},
           client' = "connected" => client = "connected"
    PROVE  StreamInv'
  <1>1. Pipe' = Pipe /\ EventsOut' = EventsOut /\ Reported' = Reported
        /\ OnWire("COMPLETE")' = OnWire("COMPLETE")
    BY DEF Pipe, EventsOut, Reports, Reported, OnWire
  <1>2. Shaped(Pipe)' = Shaped(Pipe) /\ About(EventsOut)' = About(EventsOut)
    BY <1>1 DEF Shaped, About
  <1>3. PipeInv'
    BY <1>1, <1>2 DEF StreamInv, PipeInv
  <1>4. RosterInv'
    BY <1>1, <1>2 DEF StreamInv, RosterInv
  <1> QED
    BY <1>3, <1>4 DEF StreamInv

(* A request begins with an empty pipe and nobody on the roster.           *)
LEMMA InitStream == Init => StreamInv
  <1> SUFFICES ASSUME Init PROVE StreamInv
    OBVIOUS
  <1>1. chan = <<>> /\ wire = <<>> /\ pc = "teamRow" /\ roster = {} /\ todo = {}
    BY DEF Init
  <1>2. Pipe = <<>> /\ EventsOut = {} /\ ~OnWire("COMPLETE") /\ Current = {}
    BY <1>1 DEF Pipe, EventsOut, Reports, OnWire, Current, PerMember
  <1>3. PipeInv
    BY <1>2 DEF PipeInv, Shaped
  <1>4. RosterInv
    BY <1>1, <1>2 DEF RosterInv, About
  <1> QED
    BY <1>3, <1>4 DEF StreamInv

(* While the tables are read the roster may change, but nothing was sent.  *)
LEMMA LoadStream == TypeOK /\ ExactInv /\ StreamInv /\ LoadStep => StreamInv'
  <1> SUFFICES ASSUME TypeOK, ExactInv, StreamInv, LoadStep PROVE StreamInv'
    OBVIOUS
  <1>1. /\ pc \in Reading /\ pc' \in Reading \cup {"nextMember", "fail"}
        /\ UNCHANGED <<client, chan, wire>>
    BY DEF LoadStep, ReadTeamRow, ReadLeaders, ReadMembers, ReadRepoIDs, ReadUsers,
           ReadRepos, ReadFails, Statement, Reading, stream
  <1>2. Pipe = <<>> /\ Pipe' = <<>>
    BY <1>1 DEF StreamInv, PipeInv, Pipe
  <1>3. wire = <<>> /\ chan = <<>>
    BY <1>2, PipeFacts DEF Pipe, TypeOK, TypeStream
  <1>4. EventsOut' = {} /\ EventsOut = {} /\ ~OnWire("COMPLETE")'
    BY <1>1, <1>3 DEF EventsOut, Reports, OnWire
  <1>5. Current = {} /\ Current' = {}
    BY <1>1 DEF Current, Reading, PerMember
  <1>6. todo' \subseteq roster' /\ (client' = "connected" => roster' = todo')
    <2>1. CASE ReadUsers
      BY <2>1 DEF ReadUsers
    <2>2. CASE ~ReadUsers
      <3>1. UNCHANGED <<roster, todo>>
        BY <2>2 DEF LoadStep, ReadTeamRow, ReadLeaders, ReadMembers, ReadRepoIDs,
                    ReadRepos, ReadFails, service
      <3> QED
        BY <1>1, <1>4, <1>5, <3>1 DEF StreamInv, RosterInv, About
    <2> QED BY <2>1, <2>2
  <1>7. PipeInv'
    BY <1>2 DEF PipeInv, Shaped
  <1>8. RosterInv'
    BY <1>4, <1>5, <1>6 DEF RosterInv, About
  <1> QED
    BY <1>7, <1>8 DEF StreamInv

(* The loops: NextMember moves a member from todo to the one worked on.    *)
LEMMA LoopStream ==
    ASSUME StreamInv,
           \/ NextMember \/ NextGroup \/ Discover \/ UpsertDiscovered \/ Spawn
           \/ AllSpawned \/ Wait
    PROVE  StreamInv'
  <1>1. CASE NextMember
    <2>1. /\ pc = "nextMember" /\ pc' = "nextGroup" /\ member' \in todo
          /\ todo' = todo \ {member'} /\ UNCHANGED <<client, roster, chan, wire>>
      BY <1>1 DEF NextMember, stream
    <2>2. Pipe' = Pipe /\ EventsOut' = EventsOut /\ Reported' = Reported
          /\ OnWire("COMPLETE")' = OnWire("COMPLETE")
      BY <2>1 DEF Pipe, EventsOut, Reports, Reported, OnWire
    <2>3. Current = {} /\ Current' = {member'}
      BY <2>1 DEF Current, PerMember
    <2>4. todo' \cup Current' = todo \cup Current
      BY <2>1, <2>3
    <2>5. PipeInv'
      BY <2>1, <2>2 DEF StreamInv, PipeInv, Shaped, Reading
    <2>6. RosterInv'
      BY <2>1, <2>2, <2>4 DEF StreamInv, RosterInv, About
    <2> QED
      BY <2>5, <2>6 DEF StreamInv
  <1>2. CASE NextGroup \/ Discover \/ UpsertDiscovered \/ Spawn \/ AllSpawned \/ Wait
    <2>1. /\ UNCHANGED <<client, todo, roster, member, chan, wire>>
          /\ pc \in PerMember /\ pc' \in PerMember
      BY <1>2 DEF NextGroup, Discover, UpsertDiscovered, Spawn, AllSpawned, Wait, PerMember,
                  service, stream
    <2> QED
      BY <2>1, StreamFrame DEF Current, PerMember, Reading
  <1> QED
    BY <1>1, <1>2

(* What is taken from the head of a sequence is the report it loses.       *)
LEMMA ReportsHead ==
    ASSUME NEW s \in Seq(Event), s # <<>>
    PROVE  Reports(s) = Reports(Tail(s)) \cup {x \in {Head(s)} : x.kind = "USER_REPORT"}
  <1>1. \A i \in DOMAIN s : i = 1 \/ (i - 1 \in DOMAIN Tail(s) /\ Tail(s)[i - 1] = s[i])
    OBVIOUS
  <1>2. 1 \in DOMAIN s /\ Head(s) = s[1]
    OBVIOUS
  <1>3. ASSUME NEW e \in Reports(s)
        PROVE  e \in Reports(Tail(s)) \/ (e = Head(s) /\ e.kind = "USER_REPORT")
    <2>1. PICK i \in DOMAIN s : s[i] = e /\ e.kind = "USER_REPORT"
      BY <1>3 DEF Reports
    <2>2. CASE i = 1
      BY <1>2, <2>1, <2>2
    <2>3. CASE i # 1
      BY <1>1, <2>1, <2>3 DEF Reports
    <2> QED BY <2>2, <2>3
  <1> QED
    BY <1>3, ReportsTail

(* Every event of the pipe is in the channel or on the wire, and a report  *)
(* among them is one of EventsOut.                                         *)
LEMMA PipeReports ==
    ASSUME TypeOK, ExactInv, NEW i \in DOMAIN Pipe, Pipe[i].kind = "USER_REPORT"
    PROVE  Pipe[i] \in EventsOut /\ Pipe[i].user \in User /\ Pipe[i].user \in About(EventsOut)
  <1>1. wire \in Seq(Event) /\ chan \in Seq(Event)
    BY DEF TypeOK, TypeStream
  <1>2. (\E j \in DOMAIN wire : Pipe[i] = wire[j]) \/ (\E j \in DOMAIN chan : Pipe[i] = chan[j])
    BY <1>1, PipeFacts, EventFacts DEF Pipe
  <1>3. Pipe[i] \in EventsOut
    BY <1>2 DEF EventsOut, Reports
  <1> QED
    BY <1>3 DEF ExactInv, EventsInv, About

(* An event that follows reports about others only keeps the stream's      *)
(* shape.                                                                  *)
LEMMA PipeGrows ==
    ASSUME TypeOK, StreamInv, NEW e \in Event,
           pc \notin {"close", "done"}, wire' = wire, chan' = Append(chan, e),
           \A i \in DOMAIN Pipe : Pipe[i].user # e.user,
           e.kind = "ERROR" => Pipe = <<>>,
           e.kind = "COMPLETE" => todo' = {},
           pc' = IF e.kind = "USER_REPORT" THEN "nextMember" ELSE "close"
    PROVE  PipeInv'
  <1>1. wire \in Seq(Event) /\ chan \in Seq(Event)
    BY DEF TypeOK, TypeStream
  <1>2. Pipe \in Seq(Event) /\ Pipe' = Append(Pipe, e)
    BY <1>1, PipeFacts DEF Pipe
  <1>3. \A i \in DOMAIN Pipe : Pipe[i].kind = "USER_REPORT"
    BY DEF StreamInv, PipeInv
  <1>4. Shaped(Append(Pipe, e))
    BY <1>2, <1>3, ShapedAppend DEF StreamInv, PipeInv
  <1>5. \A i \in DOMAIN Append(Pipe, e) :
           \/ i \in DOMAIN Pipe /\ Append(Pipe, e)[i] = Pipe[i]
           \/ Append(Pipe, e)[i] = e
    BY <1>2
  <1>6. Shaped(Pipe)' = Shaped(Append(Pipe, e))
    BY <1>2 DEF Shaped
  <1>7. \A i \in DOMAIN Pipe' : /\ Pipe'[i].kind # "USER_REPORT" => pc' \in {"close", "done"}
                                /\ Pipe'[i].kind = "COMPLETE" => todo' = {}
    BY <1>2, <1>3, <1>5
  <1>8. pc' \notin Reading \cup {"fail"}
    BY DEF Reading
  <1> QED
    BY <1>4, <1>6, <1>7, <1>8 DEF PipeInv

(* A report is sent: nobody was sent this member's before.                 *)
LEMMA SendReportStream ==
    ASSUME TypeOK, ExactInv, StreamInv, SendReport
    PROVE  StreamInv'
  <1> DEFINE e == UserReport(member, acc)
  <1>1. /\ pc = "send" /\ pc' = "nextMember" /\ member \in User /\ e \in Event
        /\ chan' = Append(chan, e) /\ chan \in Seq(Event)
        /\ UNCHANGED <<client, roster, todo, member, wire>>
    BY EventFacts DEF SendReport, Send, service, TypeOK, TypeService, TypeWorkers,
                      TypeStream, PerMember
  <1>2. e.kind = "USER_REPORT" /\ e.user = member
    BY DEF UserReport
  <1> HIDE DEF e
  <1>3. member \notin About(EventsOut) /\ member \notin todo /\ member \in roster
    BY <1>1 DEF ExactInv, EventsInv, LoopInv, PerMember, About, StreamInv, RosterInv, Current
  <1>4. PipeInv'
    <2>1. \A i \in DOMAIN Pipe : Pipe[i].kind = "USER_REPORT"
      BY <1>1 DEF StreamInv, PipeInv
    <2>2. \A i \in DOMAIN Pipe : Pipe[i].user # e.user
      BY <1>2, <1>3, <2>1, PipeReports
    <2> QED
      BY <1>1, <1>2, <2>2, PipeGrows
  <1>5. About(EventsOut') = About(EventsOut) \cup {member}
    <2>1. Reports(Append(chan, e)) = Reports(chan) \cup {e}
      BY <1>1, <1>2, ReportsAppend
    <2>2. EventsOut' = EventsOut \cup {e}
      BY <1>1, <2>1 DEF EventsOut, Reports
    <2> QED
      BY <1>2, <2>2 DEF About
  <1>6. Current = {member} /\ Current' = {}
    BY <1>1 DEF Current, PerMember
  <1>7. OnWire("COMPLETE")' = OnWire("COMPLETE") /\ Reported' = Reported
    BY <1>1 DEF OnWire, Reported, Reports
  <1>8. RosterInv'
    <2>1. About(EventsOut)' = About(EventsOut')
      BY DEF About
    <2> QED
      BY <1>1, <1>3, <1>5, <1>6, <1>7, <2>1 DEF StreamInv, RosterInv
  <1> QED
    BY <1>4, <1>8 DEF StreamInv

(* A closing event is sent, or the channel is closed.                      *)
LEMMA EndStream ==
    ASSUME TypeOK, ExactInv, StreamInv, SendComplete \/ SendError \/ Close
    PROVE  StreamInv'
  <1>1. CASE Close
    <2>1. /\ UNCHANGED <<client, todo, roster, member, chan, wire>>
          /\ pc = "close" /\ pc' = "done"
      BY <1>1 DEF Close, service
    <2> QED
      BY <2>1, StreamFrame DEF Current, PerMember, Reading
  <1>2. CASE SendComplete \/ SendError
    <2>1. PICK e \in {Complete, Error} :
            /\ chan' = Append(chan, e) /\ pc \in {"nextMember", "fail"} /\ pc' = "close"
            /\ e = Complete => pc = "nextMember" /\ todo = {}
            /\ e = Error => pc = "fail"
            /\ UNCHANGED <<client, roster, todo, member, wire>>
      BY <1>2, EventFacts DEF SendComplete, SendError, Send, service
    <2>2. /\ e \in Event /\ e.kind # "USER_REPORT" /\ e.user = None
          /\ e.kind = "COMPLETE" => e = Complete
          /\ e.kind = "ERROR" => e = Error
      BY <2>1 DEF Complete, Error, Event
    <2>3. wire \in Seq(Event) /\ chan \in Seq(Event) /\ None \notin User
      BY ReportAssumption DEF TypeOK, TypeStream
    <2>4. PipeInv'
      <3>1. \A i \in DOMAIN Pipe : Pipe[i].user # e.user
        <4>1. \A i \in DOMAIN Pipe : Pipe[i].kind = "USER_REPORT"
          BY <2>1 DEF StreamInv, PipeInv
        <4> QED
          BY <2>2, <2>3, <4>1, PipeReports
      <3>2. e.kind = "ERROR" => Pipe = <<>>
        BY <2>1, <2>2 DEF StreamInv, PipeInv
      <3> QED
        BY <2>1, <2>2, <3>1, <3>2, PipeGrows
    <2>5. EventsOut' = EventsOut
      <3>1. Reports(Append(chan, e)) = Reports(chan)
        <4>1. {x \in {e} : x.kind = "USER_REPORT"} = {}
          BY <2>2
        <4>2. Reports(Append(chan, e)) = Reports(chan) \cup {x \in {e} : x.kind = "USER_REPORT"}
          BY <2>2, <2>3, ReportsAppend
        <4> QED BY <4>1, <4>2
      <3> QED BY <2>1, <3>1 DEF EventsOut, Reports
    <2>6. /\ Current = {} /\ Current' = {} /\ About(EventsOut)' = About(EventsOut)
          /\ OnWire("COMPLETE")' = OnWire("COMPLETE") /\ Reported' = Reported
      BY <2>1, <2>5 DEF Current, PerMember, About, OnWire, Reported, Reports
    <2>7. RosterInv'
      BY <2>1, <2>6 DEF StreamInv, RosterInv
    <2> QED
      BY <2>4, <2>7 DEF StreamInv
  <1> QED
    BY <1>1, <1>2

(* The steps of the workers touch neither the stream nor the loops.        *)
LEMMA WorkerStream ==
    ASSUME StreamInv, NEW g \in Group, NEW ok \in BOOLEAN, WorkerSteps(g) \/ CallReturns(g, ok)
    PROVE  StreamInv'
  <1>1. UNCHANGED <<client, pc, roster, todo, member, chan, wire>>
    BY DEF WorkerSteps, CallReturns, LockMu, AppendUnlock, WorkerExits, service, stream
  <1> QED
    BY <1>1, StreamFrame DEF Current

(* The first event of the channel reaches a browser that is there: after   *)
(* COMPLETE the channel is empty, so that all reports are on the wire.     *)
LEMMA ForwardStream ==
    ASSUME TypeOK, ExactInv, StreamInv, Forward
    PROVE  StreamInv'
  <1>1. /\ chan # <<>> /\ chan' = Tail(chan)
        /\ wire' = IF client = "connected" THEN Append(wire, Head(chan)) ELSE wire
        /\ UNCHANGED <<client, pc, roster, todo, member>>
        /\ wire \in Seq(Event) /\ chan \in Seq(Event)
    BY DEF Forward, service, TypeOK, TypeStream
  <1>2. Head(chan) \in Event /\ Tail(chan) \in Seq(Event)
    BY <1>1, SeqFacts
  <1>3. Current' = Current
    BY <1>1 DEF Current
  <1>4. CASE client = "connected"
    <2>1. Pipe' = Pipe
      BY <1>1, <1>2, <1>4, PipeFacts DEF Pipe
    <2>2. PipeInv'
      BY <1>1, <2>1 DEF StreamInv, PipeInv, Shaped
    <2>3. Reports(chan') \cup Reports(wire') = EventsOut
      <3> DEFINE h == Head(chan)
      <3>1. Reports(Append(wire, h)) = Reports(wire) \cup {x \in {h} : x.kind = "USER_REPORT"}
        BY <1>1, <1>2, ReportsAppend
      <3>2. Reports(chan) = Reports(Tail(chan)) \cup {x \in {h} : x.kind = "USER_REPORT"}
        BY <1>1, ReportsHead
      <3> QED
        BY <1>1, <1>4, <3>1, <3>2 DEF EventsOut
    <2>4. EventsOut' = EventsOut
      BY <2>3 DEF EventsOut, Reports
    <2>5. About(EventsOut)' = About(EventsOut)
      BY <2>4 DEF About
    <2>6. ASSUME OnWire("COMPLETE")'
          PROVE  Reported' = roster
      <3>1. PICK i \in DOMAIN wire' : wire'[i].kind = "COMPLETE"
        BY <2>6 DEF OnWire
      <3>2. i \in DOMAIN Pipe' /\ Pipe'[i] = wire'[i]
        BY <1>1, <1>2, <1>4, <3>1, SeqFacts, PipeFacts DEF Pipe
      <3>3. pc \in {"close", "done"} /\ todo = {}
        BY <1>1, <3>1, <3>2, <2>2 DEF PipeInv
      <3>4. chan' = <<>>
        <4> SUFFICES ASSUME chan' # <<>> PROVE FALSE
          OBVIOUS
        <4>1. wire' \in Seq(Event) /\ chan' \in Seq(Event)
          BY <1>1, <1>2, <1>4, SeqFacts
        <4>2. 1 \in DOMAIN chan' /\ i < 1 + Len(wire')
          BY <3>1, <4>1
        <4>3. 1 + Len(wire') \in DOMAIN Pipe'
          BY <4>1, <4>2, PipeFacts, EventFacts DEF Pipe
        <4> QED
          BY <2>2, <3>1, <3>2, <4>2, <4>3 DEF PipeInv, Shaped
      <3>5. EventsOut' = Reports(wire')
        BY <3>4 DEF EventsOut, Reports
      <3>6. Reported' = About(EventsOut)
        BY <2>4, <3>5 DEF Reported, About, Reports
      <3> QED
        BY <1>4, <3>3, <3>6 DEF StreamInv, RosterInv, Current, PerMember
    <2>7. RosterInv'
      BY <1>1, <1>3, <2>5, <2>6 DEF StreamInv, RosterInv
    <2> QED
      BY <2>2, <2>7 DEF StreamInv
  <1>5. CASE client # "connected"
    <2>1. wire' = wire /\ Pipe' = wire \o Tail(chan)
      BY <1>1, <1>5 DEF Pipe
    <2>2. Shaped(wire \o Tail(chan))
      BY <1>1, ShapedLoss DEF StreamInv, PipeInv, Pipe
    <2>3. Pipe # <<>>
      BY <1>1, PipeFacts, EventFacts DEF Pipe
    <2>4. \A i \in DOMAIN (wire \o Tail(chan)) :
             \E j \in DOMAIN Pipe : (wire \o Tail(chan))[i] = Pipe[j]
      BY <1>1, LossFacts DEF Pipe
    <2>5. PipeInv'
      <3>1. Shaped(Pipe)'
        BY <2>1, <2>2 DEF Shaped
      <3>2. (pc \in Reading \cup {"fail"} => Pipe = <<>>)'
        BY <1>1, <2>3 DEF StreamInv, PipeInv
      <3>3. ASSUME NEW i \in DOMAIN Pipe'
            PROVE  /\ Pipe'[i].kind # "USER_REPORT" => pc' \in {"close", "done"}
                   /\ Pipe'[i].kind = "COMPLETE" => todo' = {}
        <4>1. PICK j \in DOMAIN Pipe : Pipe'[i] = Pipe[j]
          BY <2>1, <2>4
        <4> QED
          BY <1>1, <4>1 DEF StreamInv, PipeInv
      <3> QED
        BY <3>1, <3>2, <3>3 DEF PipeInv
    <2>6. EventsOut' \subseteq EventsOut
      <3>1. Reports(Tail(chan)) \subseteq Reports(chan)
        BY <1>1, ReportsHead
      <3> QED
        BY <1>1, <2>1, <3>1 DEF EventsOut, Reports
    <2>7. About(EventsOut)' \subseteq About(EventsOut)
      BY <2>6 DEF About
    <2>8. OnWire("COMPLETE")' = OnWire("COMPLETE") /\ Reported' = Reported
      BY <2>1 DEF OnWire, Reported, Reports
    <2>9. RosterInv'
      BY <1>1, <1>3, <1>5, <2>7, <2>8 DEF StreamInv, RosterInv
    <2> QED
      BY <2>5, <2>9 DEF StreamInv
  <1> QED
    BY <1>4, <1>5

(* The end of the range loop, and the world outside: the tables change,    *)
(* the browser goes; the stream does not.                                  *)
LEMMA OutsideStream ==
    ASSUME StreamInv, EndOfEvents \/ Outside \/ UNCHANGED vars
    PROVE  StreamInv'
  <1>1. /\ UNCHANGED <<pc, roster, todo, member, chan, wire>>
        /\ client' = "connected" => client = "connected"
    BY DEF EndOfEvents, Outside, HangUp, CancelContext, UserDeleted, LeaderRemoved,
           TeamDeleted, OtherRequest, vars, service, stream
  <1> QED
    BY <1>1, StreamFrame DEF Current

(* Every step of the request keeps the invariant.                          *)
LEMMA NextStream == TypeOK /\ ExactInv /\ StreamInv /\ [Next]_vars => StreamInv'
  <1> SUFFICES ASSUME TypeOK, ExactInv, StreamInv, [Next]_vars PROVE StreamInv'
    OBVIOUS
  <1>1. CASE LoadStep BY <1>1, LoadStream
  <1>2. CASE LocalStep \/ Discover
    BY <1>2, LoopStream, SendReportStream, EndStream DEF LocalStep
  <1>3. ASSUME NEW g \in Group, WorkerSteps(g) \/ \E ok \in BOOLEAN : CallReturns(g, ok)
        PROVE  StreamInv'
    BY <1>3, WorkerStream
  <1>4. CASE Handler \/ Outside \/ Over \/ UNCHANGED vars
    BY <1>4, ForwardStream, OutsideStream DEF Over, Handler
  <1> QED
    BY <1>1, <1>2, <1>3, <1>4 DEF Next

LEMMA StreamCorrect == Spec => []StreamInv
  BY TypeCorrect, ExactCorrect, InitStream, NextStream, PTL DEF Spec

(* The stream the browser receives has the shape of ADR-10: one report per *)
(* person, a single closing event and only at the end, ERROR only alone,   *)
(* COMPLETE only when the whole roster was reported; for any roster, any   *)
(* capacity of the channel, and a browser that may hang up at any time.    *)
THEOREM StreamKeepsShape == Spec => []StreamShape
  <1>1. TypeOK /\ StreamInv => StreamShape
    <2> SUFFICES ASSUME TypeOK, StreamInv PROVE StreamShape
      OBVIOUS
    <2>1. Shaped(wire)
      BY ShapedPrefix DEF StreamInv, PipeInv, Pipe, TypeOK, TypeStream
    <2> QED
      BY <2>1 DEF StreamInv, RosterInv, Shaped, StreamShape, OnWire
  <1> QED
    BY <1>1, TypeCorrect, StreamCorrect, PTL

-----------------------------------------------------------------------------
(* The refinement: a step of the stream is a step of ReportPromise or      *)
(* leaves what the promise is about alone.                                 *)
LEMMA InitPromise == Init => Promise!Init
  <1> SUFFICES ASSUME Init PROVE Promise!Init
    OBVIOUS
  <1>1. wire = <<>> /\ roster = {} /\ client = "connected"
    BY DEF Init
  <1>2. Reported = {} /\ Outcome = "open"
    BY <1>1 DEF Reported, Reports, Outcome, OnWire
  <1> QED
    BY <1>1, <1>2 DEF Promise!Init

(* ReadUsers settles whom the report is about, seen or unseen.             *)
LEMMA SettlePromise ==
    ASSUME TypeOK, StreamInv, ReadUsers
    PROVE  Promise!Next
  <1>1. /\ pc \in Reading /\ UNCHANGED <<client, wire>>
        /\ roster' \subseteq users
        /\ wire \in Seq(Event) /\ chan \in Seq(Event)
    BY DEF ReadUsers, Statement, Reading, Rows, stream, TypeOK, TypeStream
  <1>2. wire = <<>>
    BY <1>1, PipeFacts, EventFacts DEF StreamInv, PipeInv, Pipe
  <1>3. Reported = {} /\ Outcome = "open" /\ Reported' = {} /\ Outcome' = "open"
    BY <1>1, <1>2 DEF Reported, Reports, Outcome, OnWire
  <1>4. roster' \in SUBSET User /\ client \in {"connected", "gone"}
    BY <1>1 DEF TypeOK, TypeTables
  <1>5. CASE client = "connected"
    BY <1>1, <1>3, <1>4, <1>5 DEF Promise!Next, Promise!Settle, Promise!Open
  <1>6. CASE client = "gone"
    BY <1>1, <1>3, <1>4, <1>6 DEF Promise!Next, Promise!SettleUnseen
  <1> QED
    BY <1>4, <1>5, <1>6

(* An event that reaches the browser delivers a report that is due, or     *)
(* ends the stream in one of its two ways.                                 *)
LEMMA ForwardPromise ==
    ASSUME TypeOK, ExactInv, StreamInv, StreamInv', Forward, client = "connected"
    PROVE  Promise!Next
  <1> DEFINE h == Head(chan)
  <1>1. /\ chan # <<>> /\ wire' = Append(wire, h) /\ h \in Event
        /\ UNCHANGED <<client, roster>>
        /\ wire \in Seq(Event) /\ chan \in Seq(Event)
    BY SeqFacts DEF Forward, service, TypeOK, TypeStream
  <1>2. /\ Len(wire) + 1 \in DOMAIN Pipe /\ Pipe[Len(wire) + 1] = h
        /\ \A i \in DOMAIN wire : i \in DOMAIN Pipe /\ Pipe[i] = wire[i] /\ i < Len(wire) + 1
    <2>1. 1 \in DOMAIN chan /\ chan[1] = h /\ Len(wire) \in Nat
          /\ \A i \in DOMAIN wire : i < Len(wire) + 1
      BY <1>1
    <2> QED
      BY <1>1, <2>1, PipeFacts DEF Pipe
  <1> HIDE DEF h
  <1>3. \A i \in DOMAIN wire : /\ wire[i].kind = "USER_REPORT"
                               /\ h.kind # "ERROR"
                               /\ wire[i].user # h.user
    BY <1>2 DEF StreamInv, PipeInv, Shaped
  <1>4. /\ \A i \in DOMAIN wire : i \in DOMAIN wire' /\ wire'[i] = wire[i]
        /\ Len(wire) + 1 \in DOMAIN wire' /\ wire'[Len(wire) + 1] = h
        /\ \A i \in DOMAIN wire' : (i \in DOMAIN wire /\ wire'[i] = wire[i]) \/ wire'[i] = h
    BY <1>1
  <1>5. Outcome = "open" /\ Promise!Open
    BY <1>3 DEF Outcome, OnWire, Promise!Open
  <1>6. Reported' = Reported \cup {x.user : x \in {y \in {h} : y.kind = "USER_REPORT"}}
    <2>1. Reports(wire') = Reports(wire) \cup {y \in {h} : y.kind = "USER_REPORT"}
      BY <1>1, ReportsAppend
    <2>2. Reported' = {x.user : x \in Reports(wire')}
      BY DEF Reported, Reports
    <2> QED
      BY <2>1, <2>2 DEF Reported
  <1>7. CASE h.kind = "USER_REPORT"
    <2>1. Reported' = Reported \cup {h.user}
      BY <1>6, <1>7
    <2>2. h.user \notin Reported
      BY <1>3 DEF Reported, Reports
    <2>3. h.user \in roster /\ h.user \in User
      BY <1>2, <1>7, PipeReports DEF StreamInv, RosterInv
    <2>4. Outcome' = Outcome
      BY <1>3, <1>4, <1>5, <1>7 DEF Outcome, OnWire
    <2> QED
      BY <1>1, <1>5, <2>1, <2>2, <2>3, <2>4 DEF Promise!Next, Promise!Deliver
  <1>8. CASE h.kind = "COMPLETE"
    <2>1. Reported' = Reported
      BY <1>6, <1>8
    <2>2. OnWire("COMPLETE")'
      BY <1>4, <1>8 DEF OnWire
    <2>3. Outcome' = "complete"
      BY <2>2 DEF Outcome, OnWire
    <2>4. Reported = roster
      BY <1>1, <2>1, <2>2 DEF StreamInv, RosterInv
    <2> QED
      BY <1>1, <1>5, <2>1, <2>3, <2>4 DEF Promise!Next, Promise!Finish
  <1>9. CASE h.kind = "ERROR"
    <2>1. Reported' = Reported /\ Reported = {}
      BY <1>3, <1>6, <1>9 DEF Reported, Reports
    <2>2. Outcome' = "error"
      BY <1>3, <1>4, <1>9 DEF Outcome, OnWire
    <2> QED
      BY <1>1, <1>5, <2>1, <2>2 DEF Promise!Next, Promise!Refuse
  <1> QED
    BY <1>1, <1>7, <1>8, <1>9 DEF Event

(* Every step is one of the promise, or one it does not see.               *)
LEMMA NextPromise ==
    ASSUME TypeOK, ExactInv, StreamInv, StreamInv', [Next]_vars
    PROVE  [Promise!Next]_(Promise!vars)
  <1>1. CASE ReadUsers
    BY <1>1, SettlePromise
  <1>2. CASE Forward /\ client = "connected"
    BY <1>2, ForwardPromise
  <1>3. CASE HangUp
    <2>1. UNCHANGED <<roster, wire>> /\ client = "connected" /\ client' = "gone"
      BY <1>3 DEF HangUp, service, stream
    <2>2. Reported' = Reported /\ Outcome' = Outcome
      BY <2>1 DEF Reported, Reports, Outcome, OnWire
    <2> QED
      BY <2>1, <2>2 DEF Promise!Next, Promise!HangUp
  <1>4. CASE ~ReadUsers /\ ~(Forward /\ client = "connected") /\ ~HangUp
    <2>1. UNCHANGED <<roster, wire, client>>
      <3>1. CASE LoadStep
        BY <1>4, <3>1 DEF LoadStep, ReadTeamRow, ReadLeaders, ReadMembers, ReadRepoIDs,
                          ReadRepos, ReadFails, Statement, service, stream
      <3>2. CASE LocalStep \/ Discover
        BY <3>2 DEF LocalStep, NextMember, NextGroup, Discover, UpsertDiscovered, Spawn,
                    AllSpawned, Wait, SendReport, SendComplete, SendError, Send, Close,
                    service, stream
      <3>3. ASSUME NEW g \in Group, NEW ok \in BOOLEAN, WorkerSteps(g) \/ CallReturns(g, ok)
            PROVE  UNCHANGED <<roster, wire, client>>
        BY <3>3 DEF WorkerSteps, CallReturns, LockMu, AppendUnlock, WorkerExits, service, stream
      <3>4. CASE Handler
        BY <1>4, <3>4 DEF Handler, Forward, EndOfEvents, service
      <3>5. CASE Outside \/ Over \/ UNCHANGED vars
        BY <1>4, <3>5 DEF Outside, CancelContext, UserDeleted, LeaderRemoved, TeamDeleted,
                          OtherRequest, Over, vars, service, stream
      <3> QED
        BY <3>1, <3>2, <3>3, <3>4, <3>5 DEF Next, WorkerSteps
    <2>2. Reported' = Reported /\ Outcome' = Outcome
      BY <2>1 DEF Reported, Reports, Outcome, OnWire
    <2> QED
      BY <2>1, <2>2 DEF Promise!vars
  <1> QED
    BY <1>1, <1>2, <1>3, <1>4

(* The report stream implements ReportPromise: what the browser sees is    *)
(* who the report is about, one delivery each, and one of two endings.     *)
THEOREM StreamKeepsPromise == Spec => KeepsPromise
  BY TypeCorrect, ExactCorrect, StreamCorrect, InitPromise, NextPromise, PTL
  DEF Spec, KeepsPromise, Promise!Spec

-----------------------------------------------------------------------------
(* What the report is about, of a caller who is not to see the others.     *)
OwnInv == /\ ~query.admin
          /\ query.caller \notin leaders
          /\ query.caller \notin team.leaders
          /\ roster \subseteq {query.caller}

(* The steps that read the tables or change them; every other leaves the   *)
(* query, the tables, the team and the roster alone.                       *)
LEMMA TablesFrame ==
    ASSUME [Next]_vars, ~LoadStep,
           ~(TeamDeleted \/ \E u \in User : UserDeleted(u) \/ LeaderRemoved(u))
    PROVE  UNCHANGED <<query, database, team, roster>>
  <1>1. CASE LocalStep \/ Discover
    BY <1>1 DEF LocalStep, NextMember, NextGroup, Discover, UpsertDiscovered, Spawn,
                AllSpawned, Wait, SendReport, SendComplete, SendError, Send, Close, service
  <1>2. ASSUME NEW g \in Group, NEW ok \in BOOLEAN, WorkerSteps(g) \/ CallReturns(g, ok)
        PROVE  UNCHANGED <<query, database, team, roster>>
    BY <1>2 DEF WorkerSteps, CallReturns, LockMu, AppendUnlock, WorkerExits, service
  <1>3. CASE Handler \/ HangUp \/ CancelContext \/ Over \/ UNCHANGED vars
    BY <1>3 DEF Handler, Forward, EndOfEvents, HangUp, CancelContext, Over, vars, service
  <1> QED
    BY <1>1, <1>2, <1>3 DEF Next, WorkerSteps, Outside

(* Nobody becomes a leader while the report is made, and a caller whom     *)
(* neither read finds among the leaders is the whole roster.               *)
LEMMA NextOwn == TypeOK /\ OwnInv /\ [Next]_vars => OwnInv'
  <1> SUFFICES ASSUME TypeOK, OwnInv, [Next]_vars PROVE OwnInv'
    OBVIOUS
  <1>1. CASE LoadStep
    <2>1. UNCHANGED <<query, leaders>>
      BY <1>1 DEF LoadStep, ReadTeamRow, ReadLeaders, ReadMembers, ReadRepoIDs, ReadUsers,
                  ReadRepos, ReadFails, Statement, database
    <2>2. query.caller \notin team'.leaders
      <3>1. CASE ReadLeaders
        BY <3>1 DEF ReadLeaders, Rows, OwnInv, TypeOK, TypeService
      <3>2. CASE ~ReadLeaders
        BY <1>1, <3>2 DEF LoadStep, ReadTeamRow, ReadMembers, ReadRepoIDs, ReadUsers,
                  ReadRepos, ReadFails, service, OwnInv, TypeOK, TypeService
      <3> QED BY <3>1, <3>2
    <2>3. roster' \subseteq {query.caller}
      <3>1. CASE ReadUsers
        <4>1. Scope = {query.caller}
          BY DEF OwnInv, OnlyMember, Scope
        <4> QED
          BY <3>1, <4>1 DEF ReadUsers, Rows
      <3>2. CASE ~ReadUsers
        BY <1>1, <3>2 DEF LoadStep, ReadTeamRow, ReadLeaders, ReadMembers, ReadRepoIDs,
                  ReadRepos, ReadFails, service, OwnInv
      <3> QED BY <3>1, <3>2
    <2> QED
      BY <2>1, <2>2, <2>3 DEF OwnInv
  <1>2. CASE TeamDeleted \/ \E u \in User : UserDeleted(u) \/ LeaderRemoved(u)
    BY <1>2 DEF TeamDeleted, UserDeleted, LeaderRemoved, OtherRequest, service, OwnInv
  <1>3. CASE ~LoadStep /\ ~(TeamDeleted \/ \E u \in User : UserDeleted(u) \/ LeaderRemoved(u))
    BY <1>3, TablesFrame DEF OwnInv, database
  <1> QED
    BY <1>1, <1>2, <1>3

(* A caller who is neither an administrator nor a leader when the request  *)
(* arrives never receives a report about anybody else, whatever is deleted *)
(* while the tables are read and wherever a result set breaks off.         *)
THEOREM OthersStayPrivate == Spec => OwnReportOnly
  <1>1. Init /\ ~query.admin /\ query.caller \notin leaders => OwnInv
    BY DEF Init, OwnInv
  <1>2. StreamInv /\ OwnInv => Reported \subseteq {query.caller}
    <2>1. Reported \subseteq About(EventsOut)
      BY DEF Reported, About, EventsOut
    <2> QED
      BY <2>1 DEF StreamInv, RosterInv, OwnInv
  <1> QED
    BY <1>1, <1>2, NextOwn, TypeCorrect, StreamCorrect, PTL DEF Spec, OwnReportOnly

(* The members who stay on the team are among those that were read, and    *)
(* from then on among those on the roster.                                 *)
CoverInv ==
    /\ members \subseteq users
    /\ (query.admin /\ query.member = None) =>
          /\ pc \in {"repoIds", "users"} => members \subseteq team.members
          /\ pc \in {"repos", "nextMember"} \cup PerMember => members \subseteq roster
          /\ \A i \in DOMAIN Pipe : Pipe[i].kind = "COMPLETE" => members \subseteq roster

(* Each statement returns the rows that are there when it runs.            *)
LEMMA LoadCover ==
    ASSUME ~DbFaults, TypeOK, StreamInv, CoverInv, LoadStep
    PROVE  CoverInv'
  <1>1. /\ pc \in Reading /\ UNCHANGED <<query, members, users, chan, wire>>
    BY DEF LoadStep, ReadTeamRow, ReadLeaders, ReadMembers, ReadRepoIDs, ReadUsers,
           ReadRepos, ReadFails, Statement, Reading, database, stream
  <1>2. Pipe' = <<>>
    BY <1>1 DEF StreamInv, PipeInv, Pipe
  <1>3. CASE ReadMembers
    BY <1>1, <1>2, <1>3 DEF ReadMembers, Statement, Rows, CoverInv, PerMember, TypeOK, TypeService
  <1>4. CASE ReadUsers
    <2>1. query.admin /\ query.member = None => Scope = team.members
      BY DEF Scope, OnlyMember
    <2> QED
      BY <1>1, <1>2, <1>4, <2>1 DEF ReadUsers, Statement, Rows, CoverInv, PerMember
  <1>5. CASE ReadTeamRow \/ ReadLeaders \/ ReadRepoIDs \/ ReadRepos \/ ReadFails
    <2>1. /\ team'.members = team.members /\ roster' = roster
          /\ pc' \in {"repoIds", "users"} => pc \in {"repoIds", "users"}
          /\ pc' \in {"repos", "nextMember"} \cup PerMember => pc \in {"repos", "nextMember"}
      BY <1>5 DEF ReadTeamRow, ReadLeaders, ReadRepoIDs, ReadRepos, ReadFails, Statement,
                  service, PerMember, TypeOK, TypeService
    <2> QED
      BY <1>1, <1>2, <2>1 DEF CoverInv
  <1> QED
    BY <1>3, <1>4, <1>5 DEF LoadStep

(* The loop runs from the roster to COMPLETE.                              *)
LEMMA LocalCover ==
    ASSUME TypeOK, StreamInv, CoverInv, LocalStep \/ Discover
    PROVE  CoverInv'
  <1>1. UNCHANGED <<query, members, users, team, roster, wire>>
    BY DEF LocalStep, NextMember, NextGroup, Discover, UpsertDiscovered, Spawn,
           AllSpawned, Wait, SendReport, SendComplete, SendError, Send, Close, service,
           database, stream
  <1>2. /\ pc' \notin {"repoIds", "users"}
        /\ pc' \in {"repos", "nextMember"} \cup PerMember => pc \in {"repos", "nextMember"} \cup PerMember
    BY DEF LocalStep, NextMember, NextGroup, Discover, UpsertDiscovered, Spawn,
           AllSpawned, Wait, SendReport, SendComplete, SendError, Close, PerMember
  <1>3. CASE SendReport \/ SendComplete \/ SendError
    <2>1. PICK e \in Event : /\ chan' = Append(chan, e)
                             /\ e.kind = "COMPLETE" => pc = "nextMember"
      BY <1>3, EventFacts DEF SendReport, SendComplete, SendError, Send, TypeOK, TypeService,
                              TypeWorkers, PerMember, UserReport, Error, Complete
    <2>2. Pipe \in Seq(Event) /\ Pipe' = Append(Pipe, e)
      BY <1>1, <2>1, PipeFacts DEF Pipe, TypeOK, TypeStream
    <2>3. \A i \in DOMAIN Pipe' : (i \in DOMAIN Pipe /\ Pipe'[i] = Pipe[i]) \/ Pipe'[i] = e
      BY <2>2
    <2> QED
      BY <1>1, <1>2, <2>1, <2>3 DEF CoverInv
  <1>4. CASE ~(SendReport \/ SendComplete \/ SendError)
    <2>1. Pipe' = Pipe
      BY <1>4 DEF LocalStep, NextMember, NextGroup, Discover, UpsertDiscovered, Spawn,
                  AllSpawned, Wait, Close, stream, Pipe
    <2> QED
      BY <1>1, <1>2, <2>1 DEF CoverInv
  <1> QED
    BY <1>3, <1>4

(* Members leave the team or the users table, and never join either; and   *)
(* the pipe loses events at most.                                          *)
LEMMA OtherCover ==
    ASSUME TypeOK, CoverInv,
           \/ Handler \/ Outside \/ Over \/ UNCHANGED vars
           \/ \E g \in Group : WorkerSteps(g) \/ \E ok \in BOOLEAN : CallReturns(g, ok)
    PROVE  CoverInv'
  <1>1. CASE Forward
    <2>1. /\ UNCHANGED <<query, members, users, team, roster, pc>>
          /\ chan # <<>> /\ chan' = Tail(chan)
          /\ wire' \in {wire, Append(wire, Head(chan))}
          /\ wire \in Seq(Event) /\ chan \in Seq(Event) /\ Head(chan) \in Event
      BY <1>1, SeqFacts DEF Forward, service, database, TypeOK, TypeStream
    <2>2. \A i \in DOMAIN Pipe' : \E k \in DOMAIN Pipe : Pipe'[i] = Pipe[k]
      <3>1. CASE wire' = wire
        <4>1. \A i \in DOMAIN (wire \o Tail(chan)) :
                 \E k \in DOMAIN (wire \o chan) : (wire \o Tail(chan))[i] = (wire \o chan)[k]
          BY <2>1, LossFacts
        <4> QED
          BY <2>1, <3>1, <4>1 DEF Pipe
      <3>2. CASE wire' = Append(wire, Head(chan))
        <4>1. Pipe' = Pipe
          BY <2>1, <3>2, PipeFacts DEF Pipe
        <4> QED BY <4>1
      <3> QED BY <2>1, <3>1, <3>2
    <2> QED
      BY <2>1, <2>2 DEF CoverInv
  <1>2. CASE \/ EndOfEvents \/ Outside \/ Over \/ UNCHANGED vars
             \/ \E g \in Group : WorkerSteps(g) \/ \E ok \in BOOLEAN : CallReturns(g, ok)
    <2>1. UNCHANGED <<query, team, roster, pc, chan, wire>> /\ members' \subseteq members
      BY <1>2 DEF EndOfEvents, Outside, HangUp, CancelContext, UserDeleted, LeaderRemoved,
                  TeamDeleted, OtherRequest, Over, vars, WorkerSteps, CallReturns, LockMu,
                  AppendUnlock, WorkerExits, service, stream, database
    <2>2. members' \subseteq users'
      BY <1>2 DEF EndOfEvents, Outside, HangUp, CancelContext, UserDeleted, LeaderRemoved,
                  TeamDeleted, OtherRequest, Over, vars, WorkerSteps, CallReturns, LockMu,
                  AppendUnlock, WorkerExits, database, CoverInv
    <2>3. Pipe' = Pipe
      BY <2>1 DEF Pipe
    <2> QED
      BY <2>1, <2>2, <2>3 DEF CoverInv
  <1> QED
    BY <1>1, <1>2 DEF Handler

(* The invariant behind CompleteCoversTeam.                                *)
LEMMA CoverCorrect ==
    ASSUME ~DbFaults
    PROVE  Spec => []CoverInv
  <1>1. Init => CoverInv
    BY DEF Init, CoverInv, Pipe, PerMember
  <1>2. TypeOK /\ StreamInv /\ CoverInv /\ [Next]_vars => CoverInv'
    BY LoadCover, LocalCover, OtherCover DEF Next
  <1> QED
    BY <1>1, <1>2, TypeCorrect, StreamCorrect, PTL DEF Spec

(* When result sets do not break off, a report that completes covers the   *)
(* team: an administrator who names no member gets one for each member     *)
(* who stays on the team, whatever is deleted while the tables are read.   *)
THEOREM CompleteIsComplete ==
    ASSUME ~DbFaults
    PROVE  Spec => []CompleteCoversTeam
  <1>1. TypeOK /\ StreamInv /\ CoverInv => CompleteCoversTeam
    <2> SUFFICES ASSUME TypeOK, StreamInv, CoverInv, query.admin, query.member = None,
                        Outcome = "complete"
                 PROVE  members \subseteq Reported
      BY DEF CompleteCoversTeam
    <2>1. PICK i \in DOMAIN wire : wire[i].kind = "COMPLETE"
      BY DEF Outcome, OnWire
    <2>2. i \in DOMAIN Pipe /\ Pipe[i] = wire[i]
      BY PipeFacts, EventFacts DEF Pipe, TypeOK, TypeStream
    <2> QED
      BY <2>1, <2>2 DEF StreamInv, RosterInv, CoverInv, OnWire
  <1> QED
    BY <1>1, TypeCorrect, StreamCorrect, CoverCorrect, PTL
=============================================================================
