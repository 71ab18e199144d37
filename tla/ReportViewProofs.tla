-------------------------- MODULE ReportViewProofs --------------------------
(***************************************************************************)
(* Proofs about ReportView, for any calls, people, teams, lists of teams    *)
(* and number of waiting mounts and refreshes.                             *)
(***************************************************************************)
EXTENDS ReportView, SequenceTheorems, TLAPS

(* A call that was not made yet has collected nothing, and its bar is      *)
(* nowhere.                                                                *)
UnusedInv ==
    \A c \in Call : pc[c] = "unused" =>
        view # c /\ allReports[c] = {} /\ phase[c] = "open"

(* Until the stream of the report on display has had its last event, there *)
(* is no summary.                                                          *)
OpenInv ==
    view # None /\ phase[view] = "open" => summaries = {} /\ status # "done"

(* Signing out leaves neither a stream nor a report behind.                *)
OutInv == ~session => current = None /\ view = None

(* Until a refresh brings another list, the selector lists the teams that   *)
(* the position is a position of.                                          *)
ListInv == ~moved /\ options # <<>> => options = teamData

ViewInv ==
    /\ TypeOK
    /\ ListInv
    /\ UnusedInv
    /\ OpenInv
    /\ OutInv
    /\ OneLiveCall
    /\ ViewWhole
    /\ ViewSelected

(* Then a report is asked for about the team that the page is about.       *)
LEMMA ShownIsGetTeam ==
    ASSUME TypeOK, ListInv, ~moved
    PROVE  Shown = getTeam
<1>1. CASE options # <<>>
  <2>1. options = teamData /\ options \in Seq(Team)
    BY <1>1, ViewAssumption DEF ListInv, TypeOK
  <2>2. Len(options) \in Nat \ {0} /\ DOMAIN options = 1..Len(options)
    BY <1>1, <2>1, EmptySeq
  <2>3. selectedTeamIndex < Len(options)
    BY <2>2 DEF TypeOK
  <2> QED
    BY <1>1, <2>1, <2>3 DEF Shown, getTeam
<1>2. CASE options = <<>>
    BY <1>2 DEF Shown
<1> QED
    BY <1>1, <1>2

(* getTeam finds a team of the list, or none.                              *)
LEMMA GetTeamType == TypeOK => getTeam \in Team \cup {NoTeam}
<1> SUFFICES ASSUME TypeOK, teamData # <<>> PROVE getTeam \in Team
    BY DEF getTeam
<1>1. teamData \in Seq(Team)
    BY ViewAssumption DEF TypeOK
<1>2. Len(teamData) \in Nat \ {0} /\ \A i \in 1..Len(teamData) : teamData[i] \in Team
    BY <1>1, EmptySeq
<1>3. selectedTeamIndex \in Nat
    BY DEF TypeOK
<1> QED
    BY <1>2, <1>3 DEF getTeam

(* What the page is about stays while the teams do.                        *)
LEMMA ShownFrame == UNCHANGED teams => Shown' = Shown /\ moved' = moved
  BY DEF teams, Shown, getTeam

(* What the view must be before anything is shown satisfies ViewInv.       *)
LEMMA InitViewInv == Init => ViewInv
<1> SUFFICES ASSUME Init PROVE ViewInv
    OBVIOUS
<1> USE ViewAssumption DEF Init
<1>1. TypeOK
  <2>1. /\ mounts \in 0..MaxMounts /\ refreshes \in 0..MaxRefreshes
        /\ team \in [Call -> Team \cup {NoTeam}]
    OBVIOUS
  <2>2. /\ pc \in [Call -> Waiting \cup {"unused", "over"}]
        /\ phase \in [Call -> {"open", "ended"}]
        /\ aborted \in [Call -> BOOLEAN]
    OBVIOUS
  <2>3. allReports \in [Call -> SUBSET User] /\ promised \in [Call -> SUBSET User]
    OBVIOUS
  <2> QED
    BY <2>1, <2>2, <2>3 DEF TypeOK
<1>2. ListInv /\ UnusedInv /\ OpenInv /\ OutInv
    BY DEF ListInv, UnusedInv, OpenInv, OutInv
<1>3. OneLiveCall
    BY DEF OneLiveCall, Live, Waiting
<1>4. ViewWhole /\ ViewSelected
    BY DEF ViewWhole, ViewSelected
<1> QED
    BY <1>1, <1>2, <1>3, <1>4 DEF ViewInv

(* Every step keeps ViewInv.                                               *)
LEMMA NextViewInv == ViewInv /\ [Next]_vars => ViewInv'
<1> SUFFICES ASSUME ViewInv, [Next]_vars PROVE ViewInv'
    OBVIOUS
<1> USE ViewAssumption DEF ViewInv
<1> DEFINE Rest == (ListInv /\ UnusedInv /\ OpenInv /\ OutInv /\ OneLiveCall /\ ViewWhole /\ ViewSelected)'
<1>1. CASE Login
  <2>1. TypeOK'
    BY <1>1 DEF Login, TypeOK, Waiting, teams, calls, streams, area
  <2>2. Rest
    BY <1>1, ShownFrame DEF Login, ListInv, teams, UnusedInv, OpenInv, OutInv, OneLiveCall, Live, ViewWhole,
        ViewSelected, calls, streams, area
  <2> QED
    BY <2>1, <2>2
<1>2. CASE MountReturns
  <2> USE <1>2 DEF MountReturns, Answer, ClearArea
  <2>1. TypeOK'
    <3>1. teamData' \in Lists /\ options' \in Lists
      BY DEF TypeOK
    <3>2. selectedTeamIndex' = 0 /\ moved' = FALSE /\ mounts > 0 /\ mounts' = mounts - 1
      OBVIOUS
    <3>3. /\ view' \in {view, None}
          /\ cards' \in {cards, {}} /\ summaries' \in {summaries, {}}
          /\ status' \in {status, "open"}
      BY DEF area
    <3>4. UNCHANGED <<session, refreshes, current, pc, aborted, team, allReports,
                      promised, phase>>
      BY DEF calls, streams
    <3> HIDE <1>2 DEF MountReturns, Answer, ClearArea
    <3>5. mounts' \in 0..MaxMounts
      BY <3>2 DEF TypeOK
    <3>6. /\ view' \in Call \cup {None} /\ status' \in {"open", "done", "error"}
          /\ cards' \subseteq Call \X User /\ summaries' \subseteq SUBSET User
      BY <3>3 DEF TypeOK
    <3> QED
      BY <3>1, <3>2, <3>4, <3>5, <3>6 DEF TypeOK, Waiting
  <2>2. view' = None
    BY DEF OutInv, area
  <2>3. ListInv'
    BY DEF ListInv
  <2>4. (UnusedInv /\ OpenInv /\ OutInv /\ OneLiveCall)'
    BY <2>2 DEF UnusedInv, OpenInv, OutInv, OneLiveCall, Live, calls, streams
  <2>5. (ViewWhole /\ ViewSelected)'
    BY <2>2 DEF ViewWhole, ViewSelected, OutInv, area
  <2> QED
    BY <2>1, <2>3, <2>4, <2>5
<1>3. CASE Logout
  <2>1. TypeOK'
    BY <1>3 DEF Logout, AbortCurrent, ClearArea, TypeOK, Waiting, teams, streams
  <2>2. OneLiveCall'
    BY <1>3 DEF Logout, AbortCurrent, OneLiveCall, Live, TypeOK
  <2>3. (ListInv /\ UnusedInv /\ OpenInv /\ OutInv /\ ViewWhole /\ ViewSelected)'
    BY <1>3, ShownFrame DEF Logout, ClearArea, ListInv, teams, UnusedInv, OpenInv, OutInv, ViewWhole, ViewSelected, streams
  <2> QED
    BY <2>1, <2>2, <2>3
<1>4. CASE TeamChange
  <2> USE <1>4 DEF TeamChange, ClearArea
  <2>1. TypeOK'
    <3>1. options \in Seq(Team)
      BY ViewAssumption DEF TypeOK
    <3>2. selectedTeamIndex' \in Nat /\ selectedTeamIndex' < Len(options)
      <4>1. PICK i \in DOMAIN options : selectedTeamIndex' = i - 1
        OBVIOUS
      <4> QED
        BY <3>1, <4>1
    <3> QED
      BY <3>2 DEF TypeOK, Waiting, teams, calls, streams
  <2>2. Rest
    BY DEF ListInv, UnusedInv, OpenInv, OutInv, OneLiveCall, Live, ViewWhole, ViewSelected,
        calls, streams
  <2> QED
    BY <2>1, <2>2
<1>5. CASE NoDates
  <2>1. TypeOK'
    BY <1>5 DEF NoDates, AbortCurrent, ClearArea, TypeOK, Waiting, teams, streams
  <2>2. OneLiveCall'
    BY <1>5 DEF NoDates, AbortCurrent, OneLiveCall, Live, TypeOK
  <2>3. (ListInv /\ UnusedInv /\ OpenInv /\ OutInv /\ ViewWhole /\ ViewSelected)'
    BY <1>5, ShownFrame DEF NoDates, ClearArea, ListInv, teams, UnusedInv, OpenInv, OutInv, ViewWhole, ViewSelected, streams
  <2> QED
    BY <2>1, <2>2, <2>3
<1>6. ASSUME NEW c \in Call, Generate(c) PROVE ViewInv'
  <2>1. TypeOK'
    BY <1>6, GetTeamType DEF Generate, AbortCurrent, TypeOK, Waiting, teams, streams
  <2>2. OneLiveCall'
    BY <1>6 DEF Generate, AbortCurrent, OneLiveCall, Live, TypeOK, Waiting
  <2>3. (ListInv /\ UnusedInv /\ OpenInv /\ OutInv)'
    BY <1>6 DEF Generate, ListInv, teams, UnusedInv, OpenInv, OutInv, TypeOK, streams
  <2>4. ViewWhole'
    BY <1>6 DEF Generate, UnusedInv, ViewWhole, TypeOK, streams
  <2>5. ViewSelected'
    <3>1. view' = c /\ team'[c] = getTeam /\ session' /\ UNCHANGED teams
      BY <1>6 DEF Generate, TypeOK
    <3> QED
      BY <3>1, ShownIsGetTeam, ShownFrame DEF ViewSelected
  <2> QED
    BY <2>1, <2>2, <2>3, <2>4, <2>5
<1>7. ASSUME NEW c \in Call, Response(c) \/ Refused(c) PROVE ViewInv'
  <2>1. TypeOK'
    <3>1. /\ pc[c] = "response" /\ pc' \in {[pc EXCEPT ![c] = "stream"],
                                            [pc EXCEPT ![c] = "errorBody"]}
          /\ UNCHANGED <<session, mounts, refreshes, teamData, selectedTeamIndex, options,
                         moved, current, aborted, team, allReports, streams, area>>
      BY <1>7 DEF Response, Refused, Resumed, teams
    <3> QED
      BY <3>1 DEF TypeOK, Waiting, streams, area
  <2>2. OneLiveCall'
    BY <1>7 DEF Response, Refused, Resumed, OneLiveCall, Live, TypeOK, Waiting
  <2>3. (ListInv /\ UnusedInv /\ OpenInv /\ OutInv /\ ViewWhole /\ ViewSelected)'
    BY <1>7, ShownFrame DEF Response, Refused, Resumed, ListInv, teams, UnusedInv, OpenInv, OutInv, ViewWhole,
        ViewSelected, TypeOK, streams, area
  <2> QED
    BY <2>1, <2>2, <2>3
<1>8. ASSUME NEW c \in Call, Unauthorised(c) PROVE ViewInv'
  <2>1. TypeOK'
    BY <1>8 DEF Unauthorised, AbortCurrent, ClearArea, TypeOK, Waiting, teams, streams
  <2>2. OneLiveCall'
    BY <1>8 DEF Unauthorised, AbortCurrent, OneLiveCall, Live, TypeOK, Waiting
  <2>3. (ListInv /\ UnusedInv /\ OpenInv /\ OutInv /\ ViewWhole /\ ViewSelected)'
    BY <1>8, ShownFrame DEF Unauthorised, ClearArea, ListInv, teams, UnusedInv, OpenInv, OutInv, ViewWhole,
        ViewSelected, TypeOK, streams
  <2> QED
    BY <2>1, <2>2, <2>3
<1>9. ASSUME NEW c \in Call, ErrorBody(c) \/ EndOfStream(c) \/ ConnectionError(c) \/ Aborted(c)
      PROVE  ViewInv'
  <2> USE <1>9 DEF ErrorBody, EndOfStream, ConnectionError, Aborted, Resumed, Finally, SetStatus
  <2>1. /\ pc[c] \in Waiting
        /\ pc' = [pc EXCEPT ![c] = "over"]
        /\ current' = IF current = c THEN None ELSE current
        /\ status' \in {status, "error"}
        /\ UNCHANGED <<session, mounts, refreshes, teams, aborted, team, allReports, promised,
                       phase, view, cards, summaries>>
    BY DEF Waiting, streams, area
  <2>2. TypeOK'
    BY <2>1 DEF TypeOK, Waiting, teams
  <2>3. OneLiveCall'
    BY <2>1 DEF OneLiveCall, Live, TypeOK, Waiting
  <2>4. (ListInv /\ UnusedInv /\ OpenInv /\ OutInv /\ ViewWhole /\ ViewSelected)'
    BY <2>1, ShownFrame DEF ListInv, teams, UnusedInv, OpenInv, OutInv, ViewWhole, ViewSelected, TypeOK, Waiting
  <2> QED
    BY <2>2, <2>3, <2>4
<1>10. ASSUME NEW c \in Call, NEW u \in User, UserReport(c, u) PROVE ViewInv'
  <2> USE <1>10 DEF UserReport, Delivers, Resumed, streams
  <2>1. TypeOK'
    BY DEF TypeOK, Waiting, teams
  <2>2. OneLiveCall'
    BY DEF OneLiveCall, Live, TypeOK, Waiting
  <2>3. (ListInv /\ UnusedInv /\ OpenInv /\ OutInv /\ ViewSelected)'
    BY ShownFrame DEF ListInv, teams, UnusedInv, OpenInv, OutInv, ViewSelected, TypeOK
  <2>4. ViewWhole'
    <3>1. CASE view = c
      <4>1. view' = c /\ view # None
        BY <3>1
      <4>2. allReports'[c] = allReports[c] \cup {u}
        BY DEF TypeOK
      <4>3. cards' = {c} \X (allReports[c] \cup {u})
        BY <3>1, <4>1 DEF ViewWhole
      <4>4. summaries' = {} /\ status' # "done"
        BY <3>1, <4>1 DEF OpenInv
      <4> QED
        BY <4>1, <4>2, <4>3, <4>4 DEF ViewWhole
    <3>2. CASE view # c
      BY <3>2 DEF ViewWhole, TypeOK
    <3> QED
      BY <3>1, <3>2
  <2> QED
    BY <2>1, <2>2, <2>3, <2>4
<1>11. ASSUME NEW c \in Call, Complete(c) PROVE ViewInv'
  <2> USE <1>11 DEF Complete, Delivers, Resumed, SetStatus
  <2>1. TypeOK'
    BY DEF TypeOK, Waiting, teams
  <2>2. OneLiveCall'
    BY DEF OneLiveCall, Live, TypeOK, Waiting
  <2>3. (ListInv /\ UnusedInv /\ OpenInv /\ OutInv /\ ViewSelected)'
    BY ShownFrame DEF ListInv, teams, UnusedInv, OpenInv, OutInv, ViewSelected, TypeOK
  <2>4. ViewWhole'
    BY DEF ViewWhole, OpenInv, TypeOK
  <2> QED
    BY <2>1, <2>2, <2>3, <2>4
<1>12. ASSUME NEW c \in Call, Error(c) PROVE ViewInv'
  <2> USE <1>12 DEF Error, Resumed, SetStatus
  <2>1. TypeOK'
    BY DEF TypeOK, Waiting, teams
  <2>2. OneLiveCall'
    BY DEF OneLiveCall, Live, TypeOK, Waiting
  <2>3. (ListInv /\ UnusedInv /\ OpenInv /\ OutInv /\ ViewSelected /\ ViewWhole)'
    BY ShownFrame DEF ListInv, teams, UnusedInv, OpenInv, OutInv, ViewSelected, ViewWhole, TypeOK
  <2> QED
    BY <2>1, <2>2, <2>3
<1>13. CASE Refresh
  <2>1. TypeOK'
    BY <1>13 DEF Refresh, TypeOK, Waiting, teams, calls, streams, area
  <2>2. Rest
    BY <1>13, ShownFrame DEF Refresh, ListInv, teams, UnusedInv, OpenInv, OutInv,
        OneLiveCall, Live, ViewWhole, ViewSelected, calls, streams, area
  <2> QED
    BY <2>1, <2>2
<1>14. CASE RefreshReturns
  <2> USE <1>14 DEF RefreshReturns
  <2>1. TypeOK'
    BY DEF Answer, TypeOK, Waiting, teams, calls, streams, area
  <2>2. ListInv'
    BY DEF ListInv
  <2>3. (UnusedInv /\ OpenInv /\ OutInv /\ OneLiveCall /\ ViewWhole)'
    BY DEF UnusedInv, OpenInv, OutInv, OneLiveCall, Live, ViewWhole, calls, streams, area
  <2>4. ViewSelected'
    <3>1. CASE moved'
      BY <3>1 DEF ViewSelected, area
    <3>2. CASE ~moved'
      <4>1. ~moved /\ UNCHANGED teams
        BY <3>2 DEF teams, TypeOK
      <4> QED
        BY <4>1, ShownFrame DEF ViewSelected, calls, area
    <3> QED
      BY <3>1, <3>2
  <2> QED
    BY <2>1, <2>2, <2>3, <2>4
<1>15. CASE UNCHANGED vars
  <2>1. TypeOK'
    BY <1>15 DEF TypeOK, Waiting, teams, vars, calls, streams, area
  <2>2. Rest
    BY <1>15, ShownFrame DEF ListInv, teams, UnusedInv, OpenInv, OutInv, OneLiveCall, Live, ViewWhole, ViewSelected,
        vars, calls, streams, area
  <2> QED
    BY <2>1, <2>2
<1> QED
    BY <1>1, <1>2, <1>3, <1>4, <1>5, <1>6, <1>7, <1>8, <1>9, <1>10, <1>11, <1>12, <1>13,
       <1>14, <1>15
    DEF Next, FromServer

-----------------------------------------------------------------------------
(* currentAbort is the controller of a call that still waits, and the      *)
(* other variables hold what app.js assigns them.                          *)
THEOREM TypeCorrect == Spec => []TypeOK
<1>1. ViewInv => TypeOK
    BY DEF ViewInv
<1> QED
    BY <1>1, InitViewInv, NextViewInv, PTL DEF Spec

(* However calls of generateReport overtake each other, the results area   *)
(* shows the report of one of them, whole so far, or nothing.              *)
THEOREM AreaIsWhole == Spec => []ViewWhole
<1>1. ViewInv => ViewWhole
    BY DEF ViewInv
<1> QED
    BY <1>1, InitViewInv, NextViewInv, PTL DEF Spec

(* Through changes of team, late mounts and late events, a report on        *)
(* display was asked for about the team that the page is about, until a     *)
(* refresh brings another list of teams; it never outlasts the session.     *)
THEOREM AreaIsOfSelection == Spec => []ViewSelected
<1>1. ViewInv => ViewSelected
    BY DEF ViewInv
<1> QED
    BY <1>1, InitViewInv, NextViewInv, PTL DEF Spec

(* generateReport, doLogout and the finally block together keep at most    *)
(* one stream live, the one that currentAbort can abort.                   *)
THEOREM OneStream == Spec => []OneLiveCall
<1>1. ViewInv => OneLiveCall
    BY DEF ViewInv
<1> QED
    BY <1>1, InitViewInv, NextViewInv, PTL DEF Spec

(* After signing out no stream is live.                                    *)
THEOREM SigningOutEndsStreams == Spec => []SignedOut
<1>1. ViewInv => SignedOut
  <2> SUFFICES ASSUME ViewInv, ~session, NEW c \in Call, Live(c) PROVE FALSE
    BY DEF SignedOut
  <2>1. current = c /\ current = None
    BY DEF ViewInv, OneLiveCall, OutInv
  <2> QED
    BY <2>1, ViewAssumption
<1> QED
    BY <1>1, InitViewInv, NextViewInv, PTL DEF Spec
=============================================================================
