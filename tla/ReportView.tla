----------------------------- MODULE ReportView -----------------------------
(***************************************************************************)
(* The report page of the front end (app.js): the list of teams and the    *)
(* team selector, the results area, and the calls of generateReport that   *)
(* write into it.                                                          *)
(*                                                                         *)
(* JavaScript runs one continuation at a time.  A call of generateReport   *)
(* is suspended where it awaits: for the response, for an error's body,    *)
(* for the next piece of the stream.  In between, the user starts another  *)
(* report, selects another team, signs out and in again, and mountApp,     *)
(* refreshTeams and older calls come back from their own awaits.           *)
(*                                                                         *)
(* The page is that of team leaders, who have the selector and the forms   *)
(* for repositories.  GET /api/teams answers with the teams of the user of *)
(* the moment, in any order (FindByMemberID sorts nothing).  What a stream *)
(* carries is what ReportStream promises: one report per person, then      *)
(* COMPLETE, or ERROR alone.                                               *)
(***************************************************************************)
EXTENDS Naturals, Sequences

CONSTANTS
    Call,       \* the calls of generateReport
    User,       \* people a report may be about
    Team,       \* the teams
    NoTeam,     \* no team, '' in a request
    Lists,      \* the lists that GET /api/teams may answer with
    None,       \* no call
    MaxMounts,  \* bounds: calls of mountApp and of refreshTeams
    MaxRefreshes \*   that wait at the same time

ASSUME ViewAssumption ==
    /\ NoTeam \notin Team
    /\ Lists \subseteq Seq(Team) /\ <<>> \in Lists
    /\ None \notin Call
    /\ MaxMounts \in Nat /\ MaxRefreshes \in Nat

VARIABLES
    session,        \* signed in
    mounts, refreshes, \* calls of mountApp, refreshTeams that wait for the teams
    teamData,       \* the list of teams
    selectedTeamIndex, \* the position in it that is selected, from 0
    options,        \* what the selector lists; nothing when it is hidden
    moved,          \* history: a refresh brought another list since the selector
                    \*   was made
    current,        \* currentAbort: the call it belongs to
    pc, aborted,    \* the calls: where they wait; their AbortController
    team,           \*   the team they asked for
    allReports,     \*   whose reports they have collected
    promised, phase, \* the streams: whom they are about; how far they are
    view,           \* the call whose status bar is in the results area
    cards, summaries, \* the cards of people there; the summary cards
    status          \* the class of the status bar there

calls   == <<pc, aborted, team, allReports>>
streams == <<promised, phase>>
area    == <<view, cards, summaries, status>>
teams   == <<teamData, selectedTeamIndex, options, moved>>
vars    == <<session, mounts, refreshes, teams, current, calls, streams, area>>

Waiting == {"response", "errorBody", "stream"}

Init ==
    /\ session = FALSE
    /\ mounts = 0
    /\ refreshes = 0
    /\ teamData = <<>> /\ selectedTeamIndex = 0 /\ options = <<>>
    /\ moved = FALSE
    /\ current = None
    /\ pc = [c \in Call |-> "unused"]
    /\ aborted = [c \in Call |-> FALSE]
    /\ team = [c \in Call |-> NoTeam]
    /\ allReports = [c \in Call |-> {}]
    /\ promised \in [Call -> SUBSET User]
    /\ phase = [c \in Call |-> "open"]
    /\ view = None
    /\ cards = {}
    /\ summaries = {}
    /\ status = "open"

-----------------------------------------------------------------------------
(* What the functions have in common.                                      *)

(* The team at the selected position of the list of the moment, or else    *)
(* its first.                                                              *)
getTeam ==
    IF teamData = <<>> THEN NoTeam
    ELSE IF selectedTeamIndex < Len(teamData) THEN teamData[selectedTeamIndex + 1]
    ELSE teamData[1]

(* results-area.innerHTML = ''                                             *)
ClearArea ==
    /\ view' = None
    /\ cards' = {}
    /\ summaries' = {}
    /\ status' = "open"

(* if (currentAbort) { currentAbort.abort(); currentAbort = null; }        *)
AbortCurrent ==
    aborted' = [c \in Call |-> aborted[c] \/ c = current]

(* Mutant of Finally: it is not looked at whose controller it is.          *)
FinallyAny(c) ==
    /\ pc' = [pc EXCEPT ![c] = "over"]
    /\ current' = None

(* Mutant of Finally: the controller is kept.                              *)
FinallyKeeps(c) ==
    /\ pc' = [pc EXCEPT ![c] = "over"]
    /\ UNCHANGED current

(* A call ends; it forgets its own controller only.                        *)
Finally(c) ==
    /\ pc' = [pc EXCEPT ![c] = "over"]
    /\ current' = IF current = c THEN None ELSE current

(* The status bar of a call, which may have left the area.                 *)
SetStatus(c, class) == status' = IF view = c THEN class ELSE status

-----------------------------------------------------------------------------
(* Signing in and out.                                                     *)

(* doLogin has its answer and calls mountApp, which waits for the teams.   *)
Login ==
    /\ mounts < MaxMounts
    /\ session' = TRUE
    /\ mounts' = mounts + 1
    /\ UNCHANGED <<refreshes, teams, current, calls, streams, area>>

(* The list is replaced by the answer; it stays when the answer is not OK. *)
Answer == teamData' \in Lists \cup {teamData}

(* mountApp has the teams, none when the fetch has failed.  The selector is *)
(* for several teams only.  When the user has signed out meanwhile, it      *)
(* stops at renderRepos, for there is no session to read the roles from.    *)
MountReturns ==
    /\ mounts > 0
    /\ mounts' = mounts - 1
    /\ Answer
    /\ selectedTeamIndex' = 0
    /\ options' = IF Len(teamData') > 1 THEN teamData' ELSE <<>>
    /\ moved' = FALSE
    /\ IF session THEN ClearArea ELSE UNCHANGED area
    /\ UNCHANGED <<session, refreshes, current, calls, streams>>

(* Mutant of Logout: the stream goes on.                                   *)
LogoutOnly ==
    /\ session' = FALSE
    /\ current' = None
    /\ ClearArea
    /\ UNCHANGED <<mounts, refreshes, teams, calls, streams>>

(* doLogout: by the button, or when any request is answered with 401.      *)
Logout ==
    /\ session' = FALSE
    /\ AbortCurrent
    /\ current' = None
    /\ ClearArea
    /\ UNCHANGED <<mounts, refreshes, teams, pc, team, allReports, streams>>

-----------------------------------------------------------------------------
(* The teams.                                                              *)

(* addRepo or removeRepo was answered, and refreshTeams asks for the teams. *)
Refresh ==
    /\ session /\ teamData # <<>>
    /\ refreshes < MaxRefreshes
    /\ refreshes' = refreshes + 1
    /\ UNCHANGED <<session, mounts, teams, current, calls, streams, area>>

(* refreshTeams replaces the list, but neither the position nor the         *)
(* selector; the answers of several come in any order.                      *)
RefreshReturns ==
    /\ refreshes > 0
    /\ refreshes' = refreshes - 1
    /\ Answer
    /\ moved' = (moved \/ teamData' # teamData)
    /\ UNCHANGED <<session, mounts, selectedTeamIndex, options, current, calls,
                   streams, area>>

(* Mutant of TeamChange: the old team's results stay.                      *)
TeamChangeOnly ==
    /\ session
    /\ selectedTeamIndex' \in {i - 1 : i \in DOMAIN options}
    /\ UNCHANGED <<session, mounts, refreshes, teamData, options, moved, current, calls,
                   streams, area>>

(* onTeamChange; a stream in flight is left alone.                         *)
TeamChange ==
    /\ session
    /\ selectedTeamIndex' \in {i - 1 : i \in DOMAIN options}
    /\ ClearArea
    /\ UNCHANGED <<session, mounts, refreshes, teamData, options, moved, current, calls,
                   streams>>

-----------------------------------------------------------------------------
(* generateReport.                                                         *)

Generate(c) ==
    /\ session
    /\ pc[c] = "unused"
    /\ AbortCurrent
    /\ current' = c
    /\ pc' = [pc EXCEPT ![c] = "response"]
    /\ team' = [team EXCEPT ![c] = getTeam]
    /\ view' = c /\ cards' = {} /\ summaries' = {} /\ status' = "open"
    /\ UNCHANGED <<session, mounts, refreshes, teams, allReports, streams>>

(* Without a date range the call ends at once.                             *)
NoDates ==
    /\ session
    /\ AbortCurrent
    /\ current' = None
    /\ ClearArea
    /\ UNCHANGED <<session, mounts, refreshes, teams, pc, team, allReports, streams>>

(* A call that waits is resumed, and not because it was aborted.           *)
Resumed(c, at) ==
    /\ pc[c] = at
    /\ ~aborted[c]
    /\ UNCHANGED <<session, mounts, refreshes, teams, aborted, team>>

Response(c) ==
    /\ Resumed(c, "response")
    /\ pc' = [pc EXCEPT ![c] = "stream"]
    /\ UNCHANGED <<current, allReports, streams, area>>

Refused(c) ==
    /\ Resumed(c, "response")
    /\ pc' = [pc EXCEPT ![c] = "errorBody"]
    /\ UNCHANGED <<current, allReports, streams, area>>

(* The response is a 401: doLogout, which aborts the call itself.          *)
Unauthorised(c) ==
    /\ pc[c] = "response" /\ ~aborted[c]
    /\ session' = FALSE
    /\ AbortCurrent
    /\ current' = None
    /\ pc' = [pc EXCEPT ![c] = "over"]
    /\ ClearArea
    /\ UNCHANGED <<mounts, refreshes, teams, team, allReports, streams>>

(* The error's body is there, or reading it fails, be it by an abort.      *)
ErrorBody(c) ==
    /\ pc[c] = "errorBody"
    /\ Finally(c)
    /\ SetStatus(c, "error")
    /\ UNCHANGED <<session, mounts, refreshes, teams, aborted, team, allReports, streams,
                   view, cards, summaries>>

(* The service finds the team; asked for none, it answers with ERROR.       *)
Delivers(c) == phase[c] = "open" /\ team[c] # NoTeam

(* Mutant of UserReport: the card is appended to the area.                 *)
UserReportAppends(c, u) ==
    /\ Resumed(c, "stream")
    /\ Delivers(c) /\ u \in promised[c] \ allReports[c]
    /\ allReports' = [allReports EXCEPT ![c] = @ \cup {u}]
    /\ cards' = cards \cup {<<c, u>>}
    /\ UNCHANGED <<current, pc, streams, view, summaries, status>>

(* The card goes before the status bar; insertBefore throws when the bar   *)
(* has left the area, and the event is skipped.                            *)
UserReport(c, u) ==
    /\ Resumed(c, "stream")
    /\ Delivers(c) /\ u \in promised[c] \ allReports[c]
    /\ allReports' = [allReports EXCEPT ![c] = @ \cup {u}]
    /\ cards' = IF view = c THEN cards \cup {<<c, u>>} ELSE cards
    /\ UNCHANGED <<current, pc, streams, view, summaries, status>>

(* COMPLETE: the summary of what was collected.                            *)
Complete(c) ==
    /\ Resumed(c, "stream")
    /\ Delivers(c) /\ allReports[c] = promised[c]
    /\ phase' = [phase EXCEPT ![c] = "ended"]
    /\ summaries' = IF view = c THEN summaries \cup {allReports[c]} ELSE summaries
    /\ SetStatus(c, "done")
    /\ UNCHANGED <<current, pc, allReports, promised, view, cards>>

(* Mutant of Error: the event is skipped.                                  *)
ErrorSkipped(c) ==
    /\ Resumed(c, "stream")
    /\ phase[c] = "open" /\ allReports[c] = {}
    /\ phase' = [phase EXCEPT ![c] = "ended"]
    /\ UNCHANGED <<current, pc, allReports, promised, area>>

Error(c) ==
    /\ Resumed(c, "stream")
    /\ phase[c] = "open" /\ allReports[c] = {}
    /\ phase' = [phase EXCEPT ![c] = "ended"]
    /\ SetStatus(c, "error")
    /\ UNCHANGED <<current, pc, allReports, promised, view, cards, summaries>>

(* The end of the stream after its last event.                             *)
EndOfStream(c) ==
    /\ Resumed(c, "stream")
    /\ phase[c] = "ended"
    /\ Finally(c)
    /\ UNCHANGED <<allReports, streams, area>>

(* The connection is lost.                                                 *)
ConnectionError(c) ==
    /\ \E at \in {"response", "stream"} : Resumed(c, at)
    /\ Finally(c)
    /\ SetStatus(c, "error")
    /\ UNCHANGED <<allReports, streams, view, cards, summaries>>

(* An AbortError: the call ends and leaves the area as it is.              *)
Aborted(c) ==
    /\ pc[c] \in {"response", "stream"}
    /\ aborted[c]
    /\ Finally(c)
    /\ UNCHANGED <<session, mounts, refreshes, teams, aborted, team, allReports, streams, area>>

-----------------------------------------------------------------------------
FromServer(c) == \/ Response(c) \/ Refused(c) \/ Unauthorised(c)
                 \/ \E u \in User : UserReport(c, u)
                 \/ Complete(c) \/ Error(c) \/ EndOfStream(c)

Next == \/ Login \/ MountReturns \/ Logout
        \/ Refresh \/ RefreshReturns \/ TeamChange \/ NoDates
        \/ \E c \in Call : \/ Generate(c) \/ FromServer(c) \/ ErrorBody(c)
                           \/ ConnectionError(c) \/ Aborted(c)

Spec == Init /\ [][Next]_vars

(* The event loop resumes a call that was aborted.                         *)
EventLoop == \A c \in Call : WF_vars(Aborted(c)) /\ WF_vars(aborted[c] /\ ErrorBody(c))

(* The server answers, and ends what it streams: StreamEnds of ReportStream *)
ServerEnds == \A c \in Call : WF_vars(FromServer(c) \/ ErrorBody(c))

FairSpec == Spec /\ EventLoop

-----------------------------------------------------------------------------
(* Properties.                                                             *)

(* The variables hold what app.js assigns them, and currentAbort is the    *)
(* controller of a call that still waits.                                  *)
TypeOK ==
    /\ session \in BOOLEAN
    /\ mounts \in 0..MaxMounts
    /\ refreshes \in 0..MaxRefreshes
    /\ teamData \in Lists /\ options \in Lists /\ moved \in BOOLEAN
    /\ selectedTeamIndex \in Nat
    /\ selectedTeamIndex = 0 \/ selectedTeamIndex < Len(options)
    /\ current \in {c \in Call : pc[c] \in Waiting} \cup {None}
    /\ pc \in [Call -> Waiting \cup {"unused", "over"}]
    /\ aborted \in [Call -> BOOLEAN]
    /\ team \in [Call -> Team \cup {NoTeam}]
    /\ allReports \in [Call -> SUBSET User]
    /\ promised \in [Call -> SUBSET User]
    /\ phase \in [Call -> {"open", "ended"}]
    /\ view \in Call \cup {None}
    /\ cards \subseteq Call \X User
    /\ summaries \subseteq SUBSET User
    /\ status \in {"open", "done", "error"}

Live(c) == pc[c] \in Waiting /\ ~aborted[c]

(* The results area shows one report, from its beginning, or nothing: no   *)
(* card of an older call, none missing, and a summary only of all of them  *)
(* and of everybody the report is about.                                   *)
ViewWhole ==
    IF view = None THEN cards = {} /\ summaries = {}
    ELSE /\ cards = {view} \X allReports[view]
         /\ status = "done" => summaries # {}
         /\ summaries # {} => /\ summaries = {promised[view]}
                             /\ allReports[view] = promised[view]

(* The team the page is about: the one the selector shows, or without a    *)
(* selector the one whose repositories renderRepos lists.                  *)
Shown == IF options # <<>> THEN options[selectedTeamIndex + 1] ELSE getTeam

(* The report on display was asked for about the team that the page is     *)
(* about, through changes of team, late mounts and late events, as long as *)
(* no refresh has brought another list than the selector was made from;    *)
(* and nothing is shown when nobody is signed in.                          *)
ViewSelected == view # None => session /\ (~moved => team[view] = Shown)

(* Leaders select which team to view when generating reports (README): the *)
(* people on display are those of the team that the selector shows,        *)
(* whatever a refresh has brought.                                         *)
ReportOfChoice == cards # {} /\ options # <<>> => team[view] = Shown

(* A call that is still being streamed can be aborted, so that there is    *)
(* never more than one of them.                                            *)
OneLiveCall == \A c \in Call : Live(c) => current = c

(* Nothing goes on after signing out.                                      *)
SignedOut == ~session => \A c \in Call : ~Live(c)

(* A report on display comes to an end, if the server's streams do.        *)
ViewSettles ==
    ServerEnds => \A c \in Call : view = c ~> (view # c \/ status # "open")

=============================================================================
