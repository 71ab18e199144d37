----------------------- MODULE TeamRepositoriesProofs -----------------------
(***************************************************************************)
(* Proofs about TeamRepositories, for any number of requests, users,       *)
(* teams, repositories and tokens, and without bounds on what else the     *)
(* server does.                                                            *)
(***************************************************************************)
EXTENDS TeamRepositories, TLAPS

(* A repository that a team has, it ever had; its row is there; and the    *)
(* token in the row is known to the team.                                  *)
RowsInv ==
    \A t \in Team :
        /\ links[t] \subseteq ever[t]
        /\ \A r \in ever[t] : /\ token[r] # NoRow
                              /\ token[r] \in Token => token[r] \in known[t]

(* The tokens that a request may put, and whose repositories it may read.  *)
Handled(q) ==
    /\ q.led
    /\ q.at = "readTokens" => q.seen \subseteq ever[q.team]
    /\ q.at \in {"upsert", "link", "added"} =>
          /\ q.token \in known[q.team]
          /\ Platform[q.token] = Platform[q.repo]
    /\ q.at \in {"link", "added"} =>
          /\ token[q.repo] # NoRow
          /\ q.alone => token[q.repo] = q.token
    /\ q.at = "added" /\ q.alone => q.repo \in links[q.team]

Arrived(q) == Entitled(q.user, q.team) => q.led

ReqOK(q) == \/ q = None
            \/ q \in Arrivals /\ Arrived(q)
            \/ q \in Requests /\ Handled(q)

RepInv ==
    /\ TypeOK
    /\ RowsInv
    /\ TokensOnPlatform
    /\ \A p \in Proc : ReqOK(req[p])

LEMMA ReqKinds ==
    ASSUME NEW q \in Arrivals \cup Requests
    PROVE  /\ q # None
           /\ q.at = "guard" => q \in Arrivals /\ q \notin Requests
           /\ q.at # "guard" => q \in Requests /\ q \notin Arrivals
BY RepositoriesAssumption DEF Arrivals, Requests, Statements

(* An empty store satisfies the invariant.                                 *)
LEMMA InitRepInv == Init => RepInv
BY RepositoriesAssumption
   DEF Init, RepInv, TypeOK, RowsInv, TokensOnPlatform, ReqOK

(* A step that changes but one request keeps the invariant if the request  *)
(* it leaves is in order.                                                  *)
LEMMA OneRequest ==
    ASSUME RepInv, NEW p \in Proc, NEW q \in Arrivals \cup Requests \cup {None},
           ReqOK(q), req' = [req EXCEPT ![p] = q],
           UNCHANGED <<tables, history>>,
           admitted' \in 0..MaxRequests, others' \in 0..MaxOthers
    PROVE  RepInv'
<1>1. TypeOK'
    BY DEF RepInv, TypeOK, tables, history
<1>2. (RowsInv /\ TokensOnPlatform)'
    BY DEF RepInv, RowsInv, TokensOnPlatform, tables, history
<1>3. ASSUME NEW x \in Proc PROVE ReqOK(req[x])'
  <2>1. ReqOK(req[x]) /\ req \in [Proc -> Arrivals \cup Requests \cup {None}]
    BY DEF RepInv, TypeOK
  <2>2. req'[x] = IF x = p THEN q ELSE req[x]
    BY <2>1
  <2>3. ASSUME NEW y, ReqOK(y), req'[x] = y PROVE ReqOK(req[x])'
    BY <2>3 DEF ReqOK, Handled, Arrived, Entitled, tables, history
  <2> QED
    BY <2>1, <2>2, <2>3
<1> QED
    BY <1>1, <1>2, <1>3 DEF RepInv

LEMMA Returns ==
    ASSUME RepInv, NEW p \in Proc, Return(p), UNCHANGED <<tables, history>>,
           admitted' \in 0..MaxRequests, others' \in 0..MaxOthers
    PROVE  RepInv'
BY OneRequest DEF Return, ReqOK

(* What the invariant says of a request at one of its statements.          *)
LEMMA AtStatement ==
    ASSUME RepInv, NEW p \in Proc, NEW at, At(p, at)
    PROVE  /\ at = "guard" => req[p] \in Arrivals /\ Arrived(req[p])
           /\ at # "guard" => req[p] \in Requests /\ Handled(req[p])
           /\ req[p].at = at
<1>1. req[p] # None /\ ReqOK(req[p]) /\ req[p].at = at
    BY DEF RepInv, At
<1>2. req[p] \in Arrivals \cup Requests
    BY <1>1 DEF ReqOK
<1> QED
    BY <1>1, <1>2, ReqKinds DEF ReqOK

-----------------------------------------------------------------------------
(* Steps that change no table.                                             *)

LEMMA RequestKeeps == ASSUME RepInv, NEW p \in Proc, Request(p), others' = others PROVE RepInv'
<1>1. PICK u \in users, t \in Team :
         req' = [req EXCEPT ![p] = [at |-> "guard", user |-> u, team |-> t,
                                    led |-> Entitled(u, t)]]
    BY DEF Request
<1> DEFINE q == [at |-> "guard", user |-> u, team |-> t, led |-> Entitled(u, t)]
<1>2. Entitled(u, t) \in BOOLEAN /\ u \in User
    BY DEF Entitled, RepInv, TypeOK
<1>3. q \in Arrivals /\ Arrived(q)
    BY <1>2 DEF Arrivals, Arrived
<1> QED
    BY <1>1, <1>3, OneRequest DEF Request, ReqOK, RepInv, TypeOK

LEMMA ReadsKeep ==
    ASSUME RepInv, NEW p \in Proc, ReadLinks(p) \/ ReadTokens(p), others' = others
    PROVE  RepInv'
<1> USE DEF TypeOK
<1>0. UNCHANGED <<tables, history>> /\ admitted' \in 0..MaxRequests /\ others' \in 0..MaxOthers
    BY DEF ReadLinks, ReadTokens, RepInv
<1>1. CASE Return(p)
    BY <1>0, <1>1, Returns
<1>2. CASE ReadLinks(p) /\ ~Return(p)
  <2> DEFINE q == [req[p] EXCEPT !.at = "readTokens", !.seen = links[req[p].team]]
  <2>1. req[p] \in Requests /\ Handled(req[p])
    BY <1>2, AtStatement DEF ReadLinks
  <2>2. links[req[p].team] \subseteq ever[req[p].team] /\ links[req[p].team] \subseteq Repo
    BY <2>1 DEF RepInv, RowsInv, Requests
  <2>3. q \in Requests /\ Handled(q)
    BY <2>1, <2>2 DEF Requests, Statements, Handled
  <2>4. req' = [req EXCEPT ![p] = q]
    BY <1>2 DEF ReadLinks, RepInv
  <2> QED
    BY <1>0, <2>3, <2>4, OneRequest DEF ReqOK
<1>3. CASE ReadTokens(p) /\ ~Return(p)
  <2>1. PICK r \in Reusable(req[p]) :
           req' = [req EXCEPT ![p].at = "upsert", ![p].token = token[r], ![p].seen = {}]
    BY <1>3 DEF ReadTokens
  <2> DEFINE q == [req[p] EXCEPT !.at = "upsert", !.token = token[r], !.seen = {}]
  <2>2. req[p] \in Requests /\ Handled(req[p]) /\ req[p].at = "readTokens"
    <3>1. At(p, "readTokens")
        BY <1>3 DEF ReadTokens
    <3> QED
        BY <3>1, AtStatement
  <2>3. /\ r \in ever[req[p].team] /\ r \in Repo /\ token[r] \in Token
        /\ Platform[r] = Platform[req[p].repo]
    BY <2>1, <2>2 DEF Reusable, Handled, Requests
  <2>4. token[r] \in known[req[p].team] /\ Platform[token[r]] = Platform[r]
    BY <2>2, <2>3 DEF RepInv, RowsInv, TokensOnPlatform, Requests
  <2>5. q \in Requests /\ Handled(q)
    BY <2>2, <2>3, <2>4 DEF Requests, Statements, Handled
  <2>6. req' = [req EXCEPT ![p] = q]
    BY <2>1 DEF RepInv
  <2> QED
    BY <1>0, <2>5, <2>6, OneRequest DEF ReqOK
<1> QED
    BY <1>1, <1>2, <1>3

LEMMA EndsKeep ==
    ASSUME RepInv, NEW p \in Proc, Added(p) \/ Fails(p), others' = others
    PROVE  RepInv'
BY Returns DEF Added, Fails, RepInv, TypeOK

LEMMA GuardKeeps ==
    ASSUME RepInv, NEW p \in Proc, Guard(p), others' = others
    PROVE  RepInv'
<1> USE RepositoriesAssumption
<1>1. req[p] \in Arrivals /\ Arrived(req[p])
  <2>1. At(p, "guard")
    BY DEF Guard
  <2> QED
    BY <2>1, AtStatement
<1>2. CASE ~Admits(req[p])
  <2>1. UNCHANGED <<tables, history>> /\ Return(p) /\ admitted' \in 0..MaxRequests
    BY <1>2 DEF Guard, history, RepInv, TypeOK
  <2> QED
    BY <2>1, Returns DEF RepInv, TypeOK
<1>3. CASE Admits(req[p])
  <2> DEFINE team == req[p].team
  <2>1. PICK at \in {"upsert", "readLinks", "unlink"}, r \in Repo, k \in Token \cup {NoToken} :
           /\ at = "upsert" => k \in Token /\ Platform[k] = Platform[r]
           /\ req' = [req EXCEPT ![p] = [at |-> at, team |-> team, repo |-> r, token |-> k,
                                         seen |-> {}, led |-> req[p].led, alone |-> FALSE]]
           /\ known' = [known EXCEPT ![team] = @ \cup ({k} \cap Token)]
    BY <1>3 DEF Guard
  <2> DEFINE q == [at |-> at, team |-> team, repo |-> r, token |-> k,
                   seen |-> {}, led |-> req[p].led, alone |-> FALSE]
  <2>2. team \in Team /\ req[p].led = TRUE
    BY <1>1, <1>3 DEF Arrivals, Arrived, Admits
  <2>3. /\ UNCHANGED <<tables, ever, origin, others>>
        /\ admitted' \in 0..MaxRequests
    BY <1>3 DEF Guard, RepInv, TypeOK
  <2>4. known' \in [Team -> SUBSET Token] /\ \A t \in Team : known[t] \subseteq known'[t]
    BY <2>1, <2>2 DEF RepInv, TypeOK
  <2>5. q \in Requests
    BY <2>1, <2>2 DEF Requests, Statements
  <2>6. Handled(q)'
    BY <2>1, <2>2, <2>5 DEF Handled, RepInv, TypeOK
  <2>7. TypeOK'
    BY <2>1, <2>3, <2>4, <2>5 DEF RepInv, TypeOK, tables
  <2>8. (RowsInv /\ TokensOnPlatform)'
    BY <2>3, <2>4 DEF RepInv, RowsInv, TokensOnPlatform, TypeOK, tables
  <2>9. ASSUME NEW x \in Proc PROVE ReqOK(req[x])'
    <3>1. req'[x] = IF x = p THEN q ELSE req[x]
        BY <2>1 DEF RepInv, TypeOK
    <3>2. CASE x = p
        BY <3>1, <3>2, <2>5, <2>6 DEF ReqOK
    <3>3. CASE x # p
      <4>1. ReqOK(req[x]) /\ req'[x] = req[x]
        BY <3>1, <3>3 DEF RepInv
      <4>2. ASSUME NEW y \in Requests, Handled(y) PROVE Handled(y)'
        BY <2>3, <2>4, <4>2 DEF Handled, Requests, tables
      <4>3. ASSUME NEW y, Arrived(y) PROVE Arrived(y)'
        BY <2>3, <4>3 DEF Arrived, Entitled, tables
      <4> QED
        BY <4>1, <4>2, <4>3 DEF ReqOK
    <3> QED
        BY <3>2, <3>3
  <2> QED
    BY <2>7, <2>8, <2>9 DEF RepInv
<1> QED
    BY <1>2, <1>3

-----------------------------------------------------------------------------
(* Steps that change the tables of repositories.                           *)

(* Who is interfered with is still a request of its kind.                  *)
LEMMA Interference ==
    ASSUME RepInv, NEW S \in SUBSET Busy, NEW x \in Proc
    PROVE  /\ Interfered(S)[x] \in Arrivals \cup Requests \cup {None}
           /\ x \notin S => Interfered(S)[x] = req[x]
           /\ x \in S => /\ req[x] \in Requests
                         /\ Interfered(S)[x] = [req[x] EXCEPT !.alone = FALSE]
<1>1. Interfered(S)[x] = IF x \in S THEN [req[x] EXCEPT !.alone = FALSE] ELSE req[x]
    BY DEF Interfered
<1>2. req[x] \in Arrivals \cup Requests \cup {None}
    BY DEF RepInv, TypeOK
<1>3. x \in S => req[x] \in Requests
    BY <1>2, ReqKinds DEF Busy
<1>4. x \in S => [req[x] EXCEPT !.alone = FALSE] \in Requests
    BY <1>3 DEF Requests
<1> QED
    BY <1>1, <1>2, <1>3, <1>4

LEMMA UpsertKeeps ==
    ASSUME RepInv, NEW p \in Proc, Upsert(p), others' = others
    PROVE  RepInv'
<1> DEFINE q == req[p]
<1>1. q \in Requests /\ Handled(q) /\ q.at = "upsert"
  <2>1. At(p, "upsert")
    BY DEF Upsert
  <2> QED
    BY <2>1, AtStatement
<1>2. /\ q.repo \in Repo /\ q.team \in Team /\ q.token \in known[q.team] /\ q.token \in Token
      /\ Platform[q.token] = Platform[q.repo]
    BY <1>1 DEF Handled, Requests, RepInv, TypeOK
<1>3. /\ UNCHANGED <<users, teams, leaders, links, ever, admitted>>
      /\ token' = [token EXCEPT ![q.repo] = q.token]
      /\ known' = Learnt(token', ever)
      /\ origin' = [origin EXCEPT ![q.repo] = q.team]
    BY DEF Upsert
<1>4. PICK next \in {None, [q EXCEPT !.at = "link", !.alone = TRUE]} :
         req' = [Interfered(OnRow(q.repo)) EXCEPT ![p] = next]
    BY DEF Upsert
<1>5. OnRow(q.repo) \in SUBSET Busy
    BY DEF OnRow
<1>6. /\ known' \in [Team -> SUBSET Token]
      /\ \A t \in Team : known[t] \subseteq known'[t]
      /\ \A t \in Team : \A r \in ever[t] : token'[r] \in Token => token'[r] \in known'[t]
    BY <1>3 DEF Learnt, RepInv, TypeOK
<1>7. /\ \A r \in Repo : token'[r] = IF r = q.repo THEN q.token ELSE token[r]
      /\ q.token # NoRow
    BY <1>2, <1>3, RepositoriesAssumption DEF RepInv, TypeOK
<1>8. /\ \A t \in Team : ever[t] \subseteq Repo
      /\ RowsInv /\ TokensOnPlatform
    BY DEF RepInv, TypeOK
<1>9. next \in Requests \cup {None}
    BY <1>1, <1>4 DEF Requests, Statements
<1>10. /\ req' \in [Proc -> Arrivals \cup Requests \cup {None}]
       /\ \A x \in Proc : req'[x] = IF x = p THEN next ELSE Interfered(OnRow(q.repo))[x]
  <2>1. Interfered(OnRow(q.repo)) \in [Proc -> Arrivals \cup Requests \cup {None}]
    <3>1. Interfered(OnRow(q.repo)) = [x \in Proc |-> Interfered(OnRow(q.repo))[x]]
        BY DEF Interfered
    <3> QED
        BY <3>1, <1>5, Interference
  <2> QED
    BY <2>1, <1>4, <1>9
<1>11. TypeOK'
  <2>1. token' \in [Repo -> Token \cup {NoToken, NoRow}] /\ origin' \in [Repo -> Team \cup {None}]
    BY <1>2, <1>3 DEF RepInv, TypeOK
  <2>2. \A t \in Team : \A r \in links'[t] : token'[r] # NoRow
    BY <1>3, <1>7 DEF RepInv, TypeOK
  <2>3. /\ users' \subseteq User /\ teams' \subseteq Team
        /\ leaders' \in [Team -> SUBSET users'] /\ links' \in [Team -> SUBSET Repo]
        /\ \A t \in Team \ teams' : leaders'[t] = {} /\ links'[t] = {}
        /\ ever' \in [Team -> SUBSET Repo]
        /\ admitted' \in 0..MaxRequests /\ others' \in 0..MaxOthers
    BY <1>3 DEF RepInv, TypeOK
  <2> QED
    BY <1>6, <1>10, <2>1, <2>2, <2>3 DEF TypeOK
<1>12. RowsInv' /\ TokensOnPlatform'
  <2>1. RowsInv'
    BY <1>3, <1>6, <1>7, <1>8 DEF RowsInv
  <2>2. TokensOnPlatform'
    BY <1>2, <1>7, <1>8 DEF TokensOnPlatform
  <2> QED
    BY <2>1, <2>2
<1>13. ASSUME NEW x \in Proc PROVE ReqOK(req[x])'
  <2>1. CASE x = p
    <3>1. req'[p] = next
        BY <1>10
    <3>2. next # None => /\ next.led = q.led /\ next.at = "link" /\ next.repo = q.repo
                         /\ next.team = q.team /\ next.token = q.token
        BY <1>1, <1>4 DEF Requests
    <3>3. next # None => Handled(next)'
        BY <1>1, <1>2, <1>6, <1>7, <3>2 DEF Handled
    <3> QED
        BY <2>1, <3>1, <3>3, <1>9 DEF ReqOK
  <2>2. CASE x # p /\ x \in OnRow(q.repo)
    <3>1. req'[x] = [req[x] EXCEPT !.alone = FALSE] /\ req[x] \in Requests
        BY <2>2, <1>5, <1>10, Interference
    <3>2. Handled(req[x])
        BY <3>1, ReqKinds DEF RepInv, ReqOK
    <3>3. /\ req'[x].alone = FALSE /\ req'[x].led = req[x].led /\ req'[x].at = req[x].at
          /\ req'[x].repo = req[x].repo /\ req'[x].team = req[x].team
          /\ req'[x].token = req[x].token /\ req'[x].seen = req[x].seen
          /\ req'[x] \in Requests
        BY <3>1 DEF Requests
    <3>4. req[x].team \in Team /\ req[x].repo \in Repo
        BY <3>1 DEF Requests
    <3>5. token[req[x].repo] # NoRow => token'[req[x].repo] # NoRow
        BY <3>4, <1>7
    <3>6. Handled(req[x])'
        BY <3>2, <3>3, <3>4, <3>5, <1>3, <1>6 DEF Handled
    <3> QED
        BY <3>3, <3>6 DEF ReqOK
  <2>3. CASE x # p /\ x \notin OnRow(q.repo)
    <3>1. req'[x] = req[x] /\ ReqOK(req[x])
        BY <2>3, <1>5, <1>10, Interference DEF RepInv
    <3>2. CASE req[x] \in Requests /\ Handled(req[x])
      <4>1. req[x].repo # q.repo /\ req[x].team \in Team /\ req[x].repo \in Repo
        BY <2>3, <3>2, ReqKinds DEF OnRow, Busy, Requests
      <4>2. token'[req[x].repo] = token[req[x].repo]
        BY <4>1, <1>3 DEF RepInv, TypeOK
      <4>3. Handled(req[x])'
        BY <3>1, <3>2, <4>1, <4>2, <1>3, <1>6 DEF Handled
      <4> QED
        BY <3>1, <3>2, <4>3 DEF ReqOK
    <3>3. CASE req[x] \in Arrivals /\ Arrived(req[x])
        BY <3>1, <3>3, <1>3 DEF ReqOK, Arrived, Entitled
    <3> QED
        BY <3>1, <3>2, <3>3 DEF ReqOK
  <2> QED
    BY <2>1, <2>2, <2>3
<1> QED
    BY <1>11, <1>12, <1>13 DEF RepInv

LEMMA LinkKeeps ==
    ASSUME RepInv, NEW p \in Proc, Link(p), others' = others
    PROVE  RepInv'
<1> DEFINE q == req[p]
<1>1. q \in Requests /\ Handled(q) /\ q.at = "link"
  <2>1. At(p, "link")
    BY DEF Link
  <2> QED
    BY <2>1, AtStatement
<1>2. CASE q.team \notin teams
  <2>1. Return(p) /\ UNCHANGED <<tables, history, admitted>>
    BY <1>2 DEF Link, tables, history
  <2> QED
    BY <2>1, Returns DEF RepInv, TypeOK
<1>3. CASE q.team \in teams
  <2>1. /\ UNCHANGED <<users, teams, leaders, token, origin, admitted>>
        /\ links' = [links EXCEPT ![q.team] = @ \cup {q.repo}]
        /\ ever' = [ever EXCEPT ![q.team] = @ \cup {q.repo}]
        /\ known' = Learnt(token, ever')
        /\ Goto(p, "added") \/ Return(p)
    BY <1>3 DEF Link
  <2>2. /\ q.repo \in Repo /\ q.team \in Team /\ token[q.repo] # NoRow
        /\ q.alone => token[q.repo] = q.token
    BY <1>1 DEF Requests, Handled
  <2>3. /\ links' \in [Team -> SUBSET Repo] /\ ever' \in [Team -> SUBSET Repo]
        /\ \A t \in Team : links[t] \subseteq links'[t] /\ ever[t] \subseteq ever'[t]
        /\ q.repo \in links'[q.team]
    BY <2>1, <2>2 DEF RepInv, TypeOK
  <2>4. /\ known' \in [Team -> SUBSET Token]
        /\ \A t \in Team : known[t] \subseteq known'[t]
        /\ \A t \in Team : \A r \in ever'[t] : token[r] \in Token => token[r] \in known'[t]
    BY <2>1, <2>3 DEF Learnt, RepInv, TypeOK
  <2>5. RowsInv'
    <3>1. \A t \in Team : links'[t] \subseteq ever'[t]
        BY <2>1, <2>2 DEF RepInv, RowsInv, TypeOK
    <3>2. \A t \in Team : \A r \in ever'[t] : r \in ever[t] \/ r = q.repo
        BY <2>1, <2>2 DEF RepInv, TypeOK
    <3>3. \A t \in Team : \A r \in ever'[t] : token[r] # NoRow
        BY <2>2, <3>2 DEF RepInv, RowsInv
    <3> QED
        BY <2>1, <2>4, <3>1, <3>3 DEF RowsInv
  <2>6. PICK next \in {None, [q EXCEPT !.at = "added"]} : req' = [req EXCEPT ![p] = next]
    BY <2>1 DEF Goto, Return, RepInv, TypeOK
  <2>7. next \in Requests \cup {None}
    BY <1>1, <2>6 DEF Requests, Statements
  <2>8. /\ req' \in [Proc -> Arrivals \cup Requests \cup {None}]
        /\ \A x \in Proc : req'[x] = IF x = p THEN next ELSE req[x]
    BY <2>6, <2>7 DEF RepInv, TypeOK
  <2>9. TypeOK'
    <3>1. \A t \in Team : \A r \in links'[t] : token[r] # NoRow
        BY <2>1, <2>2 DEF RepInv, TypeOK
    <3>2. \A t \in Team \ teams : leaders[t] = {} /\ links'[t] = {}
        BY <1>3, <2>1 DEF RepInv, TypeOK
    <3>3. /\ users' \subseteq User /\ teams' \subseteq Team
          /\ leaders' \in [Team -> SUBSET users']
          /\ token' \in [Repo -> Token \cup {NoToken, NoRow}]
          /\ origin' \in [Repo -> Team \cup {None}]
          /\ admitted' \in 0..MaxRequests /\ others' \in 0..MaxOthers
        BY <2>1 DEF RepInv, TypeOK
    <3> QED
        <4>1. teams' = teams /\ token' = token /\ leaders' = leaders
            BY <2>1
        <4>2. known' \in [Team -> SUBSET Token]
            BY <2>4
        <4>3. links' \in [Team -> SUBSET Repo] /\ ever' \in [Team -> SUBSET Repo]
            BY <2>3
        <4>4. req' \in [Proc -> Arrivals \cup Requests \cup {None}]
            BY <2>8
        <4>5. /\ \A t \in Team : \A r \in links'[t] : token'[r] # NoRow
              /\ \A t \in Team \ teams' : leaders'[t] = {} /\ links'[t] = {}
            BY <3>1, <3>2, <4>1
        <4> QED
            BY <3>3, <4>2, <4>3, <4>4, <4>5 DEF TypeOK
  <2>10. TokensOnPlatform'
    BY <2>1 DEF RepInv, TokensOnPlatform
  <2>11. ASSUME NEW y \in Requests, Handled(y) PROVE Handled(y)'
    BY <2>1, <2>3, <2>4, <2>11 DEF Handled, Requests
  <2>12. ASSUME NEW x \in Proc PROVE ReqOK(req[x])'
    <3>1. CASE x = p /\ next # None
      <4>1. /\ next.led = q.led /\ next.at = "added" /\ next.repo = q.repo
            /\ next.team = q.team /\ next.token = q.token /\ next.alone = q.alone
        BY <1>1, <2>6, <3>1 DEF Requests
      <4>2. Handled(next)'
        BY <1>1, <2>1, <2>2, <2>3, <2>4, <4>1 DEF Handled
      <4> QED
        BY <2>7, <2>8, <3>1, <4>2 DEF ReqOK
    <3>2. CASE x = p /\ next = None
        BY <2>8, <3>2 DEF ReqOK
    <3>3. CASE x # p
      <4>1. req'[x] = req[x] /\ ReqOK(req[x])
        BY <2>8, <3>3 DEF RepInv
      <4>2. Arrived(req[x]) => Arrived(req[x])'
        BY <2>1, <4>1 DEF Arrived, Entitled
      <4> QED
        BY <2>11, <4>1, <4>2 DEF ReqOK
    <3> QED
        BY <3>1, <3>2, <3>3
  <2> QED
    BY <2>5, <2>9, <2>10, <2>12 DEF RepInv
<1> QED
    BY <1>2, <1>3

(* Links are cut, as Unlink and DeleteTeam do, of requests that count as   *)
(* interfered with: the other requests rely on none of them.               *)
LEMMA CutKeeps ==
    ASSUME RepInv, NEW S \in SUBSET Busy, NEW R \in [Proc -> Arrivals \cup Requests \cup {None}],
           \A x \in Proc : R[x] = None \/ R[x] = Interfered(S)[x],
           req' = R,
           UNCHANGED <<token, ever, known>>,
           \A t \in Team : links'[t] \subseteq links[t],
           \A t \in Team : leaders'[t] \subseteq leaders[t],
           \A x \in Busy \ S : req[x].repo \in links[req[x].team] =>
                                  req[x].repo \in links'[req[x].team]
    PROVE  RowsInv' /\ TokensOnPlatform' /\ \A x \in Proc : ReqOK(req[x])'
<1>1. RowsInv' /\ TokensOnPlatform'
    BY DEF RepInv, RowsInv, TokensOnPlatform
<1>2. ASSUME NEW x \in Proc PROVE ReqOK(req[x])'
  <2>1. CASE R[x] = None
    BY <2>1 DEF ReqOK
  <2>2. CASE R[x] # None /\ x \in S
    <3>1. req'[x] = [req[x] EXCEPT !.alone = FALSE] /\ req[x] \in Requests
        BY <2>2, Interference
    <3>2. Handled(req[x])
        BY <3>1, ReqKinds DEF RepInv, ReqOK
    <3>3. /\ req'[x].alone = FALSE /\ req'[x].led = req[x].led /\ req'[x].at = req[x].at
          /\ req'[x].repo = req[x].repo /\ req'[x].team = req[x].team
          /\ req'[x].token = req[x].token /\ req'[x].seen = req[x].seen
          /\ req'[x] \in Requests
        BY <3>1 DEF Requests
    <3>4. Handled(req[x])'
        BY <3>2, <3>3 DEF Handled
    <3> QED
        BY <3>3, <3>4 DEF ReqOK
  <2>3. CASE R[x] # None /\ x \notin S
    <3>1. req'[x] = req[x] /\ ReqOK(req[x]) /\ req[x] # None
        BY <2>3, Interference DEF RepInv
    <3>2. CASE req[x] \in Requests /\ Handled(req[x])
      <4>1. x \in Busy
        BY <3>2, ReqKinds DEF Busy
      <4>2. Handled(req[x])'
        BY <2>3, <3>1, <3>2, <4>1 DEF Handled
      <4> QED
        BY <3>1, <3>2, <4>2 DEF ReqOK
    <3>3. CASE req[x] \in Arrivals /\ Arrived(req[x])
      <4>1. req[x].team \in Team
        BY <3>3 DEF Arrivals
      <4>2. Arrived(req[x])'
        BY <3>1, <3>3, <4>1 DEF Arrived, Entitled
      <4> QED
        BY <3>1, <3>3, <4>2 DEF ReqOK
    <3> QED
        BY <3>1, <3>2, <3>3 DEF ReqOK
  <2> QED
    BY <2>1, <2>2, <2>3
<1> QED
    BY <1>1, <1>2

(* Marking requests, and ending one of them, leaves requests.              *)
LEMMA InterferedType ==
    ASSUME RepInv, NEW S \in SUBSET Busy, NEW p \in Proc
    PROVE  /\ Interfered(S) \in [Proc -> Arrivals \cup Requests \cup {None}]
           /\ [Interfered(S) EXCEPT ![p] = None] \in [Proc -> Arrivals \cup Requests \cup {None}]
<1>1. Interfered(S) = [x \in Proc |-> Interfered(S)[x]]
    BY DEF Interfered
<1>2. Interfered(S) \in [Proc -> Arrivals \cup Requests \cup {None}]
    BY <1>1, Interference
<1> QED
    BY <1>2

LEMMA UnlinkKeeps ==
    ASSUME RepInv, NEW p \in Proc, Unlink(p), others' = others
    PROVE  RepInv'
<1> DEFINE q == req[p]
           S == OnLink(q.team, q.repo)
           R == [Interfered(S) EXCEPT ![p] = None]
<1>1. q \in Requests
  <2>1. At(p, "unlink")
    BY DEF Unlink
  <2> QED
    BY <2>1, AtStatement
<1>2. /\ UNCHANGED <<users, teams, leaders, token, ever, known, origin, admitted>>
      /\ links' = [links EXCEPT ![q.team] = @ \ {q.repo}]
      /\ req' = R
    BY DEF Unlink, history
<1>3. S \in SUBSET Busy
    BY DEF OnLink, OnTeam, OnRow
<1>4. R \in [Proc -> Arrivals \cup Requests \cup {None}]
    BY <1>3, InterferedType
<1>5. \A x \in Proc : R[x] = None \/ R[x] = Interfered(S)[x]
    BY <1>3, InterferedType
<1>6. links' \in [Team -> SUBSET Repo] /\ \A t \in Team : links'[t] \subseteq links[t]
    BY <1>2 DEF RepInv, TypeOK
<1>7. ASSUME NEW x \in Busy \ S, req[x].repo \in links[req[x].team]
      PROVE  req[x].repo \in links'[req[x].team]
    BY <1>2, <1>7 DEF OnLink, OnTeam, OnRow, RepInv, TypeOK
<1>8. TypeOK'
    BY <1>2, <1>4, <1>6 DEF RepInv, TypeOK
<1> HIDE DEF R, S
<1> QED
    BY <1>2, <1>3, <1>4, <1>5, <1>6, <1>7, <1>8, CutKeeps DEF RepInv

-----------------------------------------------------------------------------
(* What else the server does.                                              *)

LEMMA LeadersKeep ==
    ASSUME RepInv, NEW t \in Team, NEW u \in User,
           Promote(t, u) \/ Demote(t, u) \/ DeleteUser(u),
           UNCHANGED <<ever, known, admitted>>, others' \in 0..MaxOthers
    PROVE  RepInv'
<1>1. UNCHANGED <<teams, token, links, ever, known, origin, admitted>>
    BY DEF Promote, Demote, DeleteUser
<1>2. (RowsInv /\ TokensOnPlatform)'
    BY <1>1 DEF RepInv, RowsInv, TokensOnPlatform
<1>3. ASSUME NEW y \in Requests, Handled(y) PROVE Handled(y)'
    BY <1>1, <1>3 DEF Handled
<1>4. CASE Promote(t, u)
  <2>1. /\ t \in teams /\ u \in users
        /\ leaders' = [leaders EXCEPT ![t] = @ \cup {u}]
        /\ users' = users
        /\ req' = [q \in Proc |-> IF At(q, "guard") /\ req[q].team = t /\ req[q].user = u
                                  THEN [req[q] EXCEPT !.led = TRUE] ELSE req[q]]
    BY <1>4 DEF Promote
  <2>2. ASSUME NEW x \in Proc
        PROVE  ReqOK(req[x])' /\ req'[x] \in Arrivals \cup Requests \cup {None}
    <3>1. ReqOK(req[x]) /\ req[x] \in Arrivals \cup Requests \cup {None}
        BY DEF RepInv, TypeOK
    <3>2. CASE At(x, "guard") /\ req[x].team = t /\ req[x].user = u
      <4>1. req[x] \in Arrivals /\ req'[x] = [req[x] EXCEPT !.led = TRUE]
        BY <2>1, <3>2, AtStatement
      <4>2. req'[x] \in Arrivals /\ req'[x].led = TRUE
        BY <4>1 DEF Arrivals
      <4> QED
        BY <4>2 DEF ReqOK, Arrived
    <3>3. CASE ~(At(x, "guard") /\ req[x].team = t /\ req[x].user = u)
      <4>1. req'[x] = req[x]
        BY <2>1, <3>3
      <4>2. CASE req[x] \in Arrivals /\ Arrived(req[x])
        <5>1. At(x, "guard") /\ req[x].team \in Team /\ req[x].user \in User
            BY <4>2, ReqKinds DEF At, Arrivals
        <5>2. Entitled(req[x].user, req[x].team)' => Entitled(req[x].user, req[x].team)
            BY <2>1, <3>3, <4>1, <5>1 DEF Entitled, RepInv, TypeOK
        <5> QED
            BY <4>1, <4>2, <5>2 DEF ReqOK, Arrived
      <4> QED
        BY <1>3, <3>1, <4>1, <4>2 DEF ReqOK
    <3> QED
        BY <3>2, <3>3
  <2>3. req' \in [Proc -> Arrivals \cup Requests \cup {None}]
    <3>1. req' = [x \in Proc |-> req'[x]]
        BY <2>1
    <3> QED
        BY <2>2, <3>1
  <2>4. /\ leaders' \in [Team -> SUBSET users']
        /\ \A x \in Team \ teams : leaders'[x] = {}
    BY <2>1 DEF RepInv, TypeOK
  <2>5. TypeOK'
    BY <1>1, <2>1, <2>3, <2>4 DEF RepInv, TypeOK
  <2> QED
    BY <1>2, <2>2, <2>5 DEF RepInv
<1>5. CASE Demote(t, u) \/ DeleteUser(u)
  <2>1. /\ req' = req /\ users' \subseteq users
        /\ leaders' \in [Team -> SUBSET users']
        /\ \A x \in Team : leaders'[x] \subseteq leaders[x]
    BY <1>5 DEF Demote, DeleteUser, RepInv, TypeOK
  <2>2. TypeOK'
    BY <1>1, <2>1 DEF RepInv, TypeOK
  <2>3. ASSUME NEW x \in Proc PROVE ReqOK(req[x])'
    <3>1. ReqOK(req[x]) /\ req'[x] = req[x]
        BY <2>1 DEF RepInv
    <3>2. CASE req[x] \in Arrivals /\ Arrived(req[x])
        BY <2>1, <3>1, <3>2 DEF ReqOK, Arrived, Arrivals, Entitled
    <3> QED
        BY <1>3, <3>1, <3>2 DEF ReqOK
  <2> QED
    BY <1>2, <2>2, <2>3 DEF RepInv
<1> QED
    BY <1>4, <1>5

LEMMA DeleteTeamKeeps ==
    ASSUME RepInv, NEW t \in Team, DeleteTeam(t),
           UNCHANGED <<ever, known, admitted>>, others' \in 0..MaxOthers
    PROVE  RepInv'
<1> DEFINE S == OnTeam(t)
           R == Interfered(S)
<1>1. /\ UNCHANGED <<users, token, origin>>
      /\ teams' = teams \ {t}
      /\ leaders' = [leaders EXCEPT ![t] = {}]
      /\ links' = [links EXCEPT ![t] = {}]
      /\ req' = R
    BY DEF DeleteTeam
<1>2. S \in SUBSET Busy
    BY DEF OnTeam
<1>3. R \in [Proc -> Arrivals \cup Requests \cup {None}]
    <2>1. R = [x \in Proc |-> R[x]]
        BY DEF Interfered
    <2> QED
        BY <1>2, <2>1, Interference
<1>4. /\ links' \in [Team -> SUBSET Repo] /\ \A x \in Team : links'[x] \subseteq links[x]
      /\ leaders' \in [Team -> SUBSET users] /\ \A x \in Team : leaders'[x] \subseteq leaders[x]
    BY <1>1 DEF RepInv, TypeOK
<1>5. ASSUME NEW x \in Busy \ S, req[x].repo \in links[req[x].team]
      PROVE  req[x].repo \in links'[req[x].team]
    BY <1>1, <1>5 DEF OnTeam, RepInv, TypeOK
<1>6. TypeOK'
    BY <1>1, <1>3, <1>4 DEF RepInv, TypeOK
<1> HIDE DEF R, S
<1>7. \A x \in Proc : R[x] = None \/ R[x] = Interfered(S)[x]
    BY DEF R
<1> QED
    BY <1>1, <1>2, <1>3, <1>4, <1>5, <1>6, <1>7, CutKeeps DEF RepInv

LEMMA DiscoverKeeps ==
    ASSUME RepInv, NEW r \in Repo, Discover(r),
           UNCHANGED <<ever, known, admitted>>, others' \in 0..MaxOthers
    PROVE  RepInv'
<1> USE RepositoriesAssumption
<1>1. /\ UNCHANGED <<users, teams, leaders, links, ever, known, admitted>>
      /\ token' = [token EXCEPT ![r] = NoToken]
      /\ origin' = [origin EXCEPT ![r] = None]
      /\ req' = Interfered(OnRow(r))
    BY DEF Discover
<1>2. OnRow(r) \in SUBSET Busy
    BY DEF OnRow
<1>3. req' \in [Proc -> Arrivals \cup Requests \cup {None}]
    <2>1. req' = [x \in Proc |-> req'[x]]
        BY <1>1 DEF Interfered
    <2> QED
        BY <1>1, <1>2, <2>1, Interference
<1>4. \A x \in Repo : token'[x] = IF x = r THEN NoToken ELSE token[x]
    BY <1>1 DEF RepInv, TypeOK
<1>5. TypeOK'
  <2>1. \A t \in Team : \A x \in links[t] : token'[x] # NoRow
    BY <1>4 DEF RepInv, TypeOK
  <2> QED
    BY <1>1, <1>3, <2>1 DEF RepInv, TypeOK
<1>6. RowsInv' /\ TokensOnPlatform'
  <2>1. \A t \in Team : ever[t] \subseteq Repo
    BY DEF RepInv, TypeOK
  <2>2. RowsInv'
    BY <1>1, <1>4, <2>1 DEF RepInv, RowsInv
  <2>3. TokensOnPlatform'
    BY <1>4 DEF RepInv, TokensOnPlatform
  <2> QED
    BY <2>2, <2>3
<1>7. ASSUME NEW x \in Proc PROVE ReqOK(req[x])'
  <2>1. CASE x \in OnRow(r)
    <3>1. req'[x] = [req[x] EXCEPT !.alone = FALSE] /\ req[x] \in Requests
        BY <1>1, <1>2, <2>1, Interference
    <3>2. Handled(req[x])
        BY <3>1, ReqKinds DEF RepInv, ReqOK
    <3>3. /\ req'[x].alone = FALSE /\ req'[x].led = req[x].led /\ req'[x].at = req[x].at
          /\ req'[x].repo = req[x].repo /\ req'[x].team = req[x].team
          /\ req'[x].token = req[x].token /\ req'[x].seen = req[x].seen
          /\ req'[x] \in Requests /\ req[x].repo \in Repo
        BY <3>1 DEF Requests
    <3>4. Handled(req[x])'
        BY <1>1, <1>4, <3>2, <3>3 DEF Handled
    <3> QED
        BY <3>3, <3>4 DEF ReqOK
  <2>2. CASE x \notin OnRow(r)
    <3>1. req'[x] = req[x] /\ ReqOK(req[x])
        BY <1>1, <1>2, <2>2, Interference DEF RepInv
    <3>2. CASE req[x] \in Requests /\ Handled(req[x])
      <4>1. req[x].repo # r /\ req[x].repo \in Repo
        BY <2>2, <3>2, ReqKinds DEF OnRow, Busy, Requests
      <4>2. Handled(req[x])'
        BY <1>1, <1>4, <3>1, <3>2, <4>1 DEF Handled
      <4> QED
        BY <3>1, <3>2, <4>2 DEF ReqOK
    <3>3. CASE req[x] \in Arrivals /\ Arrived(req[x])
        BY <1>1, <3>1, <3>3 DEF ReqOK, Arrived, Entitled
    <3> QED
        BY <3>1, <3>2, <3>3 DEF ReqOK
  <2> QED
    BY <2>1, <2>2
<1> QED
    BY <1>5, <1>6, <1>7 DEF RepInv

-----------------------------------------------------------------------------
(* Every step keeps the invariant.                                         *)
LEMMA NextRepInv == RepInv /\ [Next]_vars => RepInv'
<1> SUFFICES ASSUME RepInv, [Next]_vars PROVE RepInv'
    OBVIOUS
<1>1. ASSUME NEW p \in Proc, Serve(p), others' = others PROVE RepInv'
    BY <1>1, RequestKeeps, GuardKeeps, ReadsKeep, UpsertKeeps, LinkKeeps, EndsKeep, UnlinkKeeps
    DEF Serve
<1>2. ASSUME Others PROVE RepInv'
  <2>1. UNCHANGED <<ever, known, admitted>> /\ others' \in 0..MaxOthers
    BY <1>2, RepositoriesAssumption DEF Others, RepInv, TypeOK
  <2>2. ASSUME NEW u \in User, DeleteUser(u) PROVE RepInv'
    <3>1. CASE Team = {}
      <4>1. /\ req' = req /\ users' \subseteq users
            /\ UNCHANGED <<teams, token, links, ever, known, origin, admitted>>
            /\ leaders' \in [Team -> SUBSET users']
        BY <2>1, <2>2 DEF DeleteUser, RepInv, TypeOK
      <4>2. \A x \in Proc : req[x] = None
        BY <3>1 DEF RepInv, TypeOK, Arrivals, Requests
      <4>3. TypeOK'
        BY <2>1, <3>1, <4>1 DEF RepInv, TypeOK
      <4> QED
        BY <3>1, <4>1, <4>2, <4>3 DEF RepInv, RowsInv, TokensOnPlatform, ReqOK
    <3>2. CASE Team # {}
        BY <2>1, <2>2, <3>2, LeadersKeep
    <3> QED
        BY <3>1, <3>2
  <2> QED
    BY <1>2, <2>1, <2>2, LeadersKeep, DeleteTeamKeeps, DiscoverKeeps DEF Others
<1>3. CASE UNCHANGED vars
    BY <1>3 DEF vars, tables, history, RepInv, TypeOK, RowsInv, TokensOnPlatform, ReqOK,
        Handled, Arrived, Entitled
<1> QED
    BY <1>1, <1>2, <1>3 DEF Next

LEMMA AlwaysRepInv == Spec => []RepInv
<1> QED
    BY InitRepInv, NextRepInv, PTL DEF Spec

(* Whatever is served at once and whatever fails, the variables keep their *)
(* types and links lead to rows.                                           *)
THEOREM TypeCorrect == Spec => []TypeOK
<1>1. RepInv => TypeOK
    BY DEF RepInv
<1> QED
    BY <1>1, AlwaysRepInv, PTL

(* Tokens stay on their platform, through reuse and races.                 *)
THEOREM TokensStayOnPlatform == Spec => []TokensOnPlatform
<1>1. RepInv => TokensOnPlatform
    BY DEF RepInv
<1> QED
    BY <1>1, AlwaysRepInv, PTL

(* No request gets past the guard whose sender did not lead the team at    *)
(* some moment of it.                                                      *)
THEOREM OnlyEntitledWrite == Spec => []WritesEntitled
<1>1. RepInv => WritesEntitled
    BY ReqKinds DEF RepInv, ReqOK, Busy, WritesEntitled, Handled
<1> QED
    BY <1>1, AlwaysRepInv, PTL

(* "added" is true unless somebody interfered.                             *)
THEOREM AddedIsTrue == Spec => []AddedStands
<1>1. RepInv => AddedStands
    BY ReqKinds DEF RepInv, ReqOK, Busy, AddedStands, Handled
<1> QED
    BY <1>1, AlwaysRepInv, PTL

-----------------------------------------------------------------------------
(* What a request may do to the tables of repositories.                    *)
LEMMA ServeEffects ==
    ASSUME NEW p \in Proc, Serve(p)
    PROVE  \/ Upsert(p) \/ Link(p) \/ Unlink(p) \/ Guard(p)
           \/ UNCHANGED <<tables, history>>
BY DEF Serve, Request, ReadLinks, ReadTokens, Added, Fails

(* No request takes a token away.                                          *)
THEOREM TokensKeptByHandlers == Spec => HandlersKeepTokens
<1>1. ASSUME RepInv, [Next]_vars, others' = others, NEW r \in Repo, token[r] \in Token
      PROVE  token'[r] \in Token
  <2>1. ASSUME NEW p \in Proc, Serve(p) PROVE token'[r] \in Token
    <3>1. CASE Upsert(p)
      <4>1. At(p, "upsert") /\ token' = [token EXCEPT ![req[p].repo] = req[p].token]
        BY <3>1 DEF Upsert
      <4>2. req[p] \in Requests /\ Handled(req[p]) /\ req[p].at = "upsert"
        BY <1>1, <4>1, AtStatement
      <4>3. req[p].token \in Token
        BY <1>1, <4>2 DEF Handled, Requests, RepInv, TypeOK
      <4> QED
        BY <1>1, <4>1, <4>3 DEF RepInv, TypeOK
    <3>2. CASE ~Upsert(p)
        BY <1>1, <2>1, <3>2, ServeEffects DEF Link, Unlink, Guard, tables
    <3> QED
        BY <3>1, <3>2
  <2>2. ~Others
    BY <1>1 DEF Others, RepInv, TypeOK
  <2>3. CASE UNCHANGED vars
    BY <1>1, <2>3 DEF vars, tables
  <2> QED
    BY <1>1, <2>1, <2>2, <2>3 DEF Next
<1>2. RepInv /\ [Next]_vars
         => [others' = others => \A r \in Repo : token[r] \in Token => token'[r] \in Token]_vars
    BY <1>1
<1> QED
    BY <1>2, AlwaysRepInv, PTL DEF Spec, HandlersKeepTokens

-----------------------------------------------------------------------------
(* The store implements the book.                                          *)

LEMMA GuardIsSupply ==
    ASSUME RepInv, NEW p \in Proc, Guard(p)
    PROVE  [Book!Next]_(Book!book)
<1> DEFINE team == req[p].team
<1>1. UNCHANGED <<teams, token, links, ever, origin>>
    BY DEF Guard, tables
<1>2. team \in Team
  <2>1. At(p, "guard")
    BY DEF Guard
  <2>2. req[p] \in Arrivals
    BY <2>1, AtStatement
  <2> QED
    BY <2>2 DEF Arrivals
<1>3. \/ UNCHANGED known
      \/ \E k \in Token \cup {NoToken} :
            known' = [known EXCEPT ![team] = @ \cup ({k} \cap Token)]
    BY DEF Guard
<1>4. CASE UNCHANGED known
    BY <1>1, <1>4 DEF Book!book
<1>5. ASSUME NEW k \in Token \cup {NoToken},
             known' = [known EXCEPT ![team] = @ \cup ({k} \cap Token)]
      PROVE  [Book!Next]_(Book!book)
  <2>1. CASE k \in Token
    <3>1. known' = [known EXCEPT ![team] = @ \cup {k}]
      <4>1. {k} \cap Token = {k}
        BY <2>1
      <4> QED
        BY <1>5, <4>1
    <3>2. Book!Supply(team, k)
        BY <1>1, <3>1 DEF Book!Supply
    <3> QED
        BY <1>2, <2>1, <3>2 DEF Book!Next
  <2>2. CASE k \notin Token
    <3>1. known' = [known EXCEPT ![team] = @]
      <4>1. known[team] \cup ({k} \cap Token) = known[team]
        BY <2>2
      <4> QED
        BY <1>5, <4>1
    <3>2. known' = known
        BY <3>1 DEF RepInv, TypeOK
    <3> QED
        BY <1>1, <3>2 DEF Book!book
  <2> QED
    BY <2>1, <2>2
<1> QED
    BY <1>3, <1>4, <1>5

LEMMA UpsertIsStore ==
    ASSUME RepInv, NEW p \in Proc, Upsert(p)
    PROVE  Book!Next
<1> DEFINE q == req[p]
<1>1. q \in Requests /\ Handled(q) /\ q.at = "upsert"
  <2>1. At(p, "upsert")
    BY DEF Upsert
  <2> QED
    BY <2>1, AtStatement
<1>2. /\ q.repo \in Repo /\ q.team \in Team /\ q.token \in known[q.team] /\ q.token \in Token
      /\ Platform[q.token] = Platform[q.repo]
    BY <1>1 DEF Handled, Requests, RepInv, TypeOK
<1>3. Book!Store(q.team, q.repo, q.token)
    BY <1>2 DEF Upsert, Learnt, Book!Store, Book!Learn
<1> QED
    BY <1>2, <1>3 DEF Book!Next

LEMMA LinkIsTake ==
    ASSUME RepInv, NEW p \in Proc, Link(p)
    PROVE  [Book!Next]_(Book!book)
<1> DEFINE q == req[p]
<1>1. q \in Requests /\ Handled(q) /\ q.at = "link"
  <2>1. At(p, "link")
    BY DEF Link
  <2> QED
    BY <2>1, AtStatement
<1>2. q.repo \in Repo /\ q.team \in Team /\ token[q.repo] # NoRow
    BY <1>1 DEF Requests, Handled
<1>3. CASE q.team \in teams
  <2>1. /\ UNCHANGED <<teams, token, origin>>
        /\ links' = [links EXCEPT ![q.team] = @ \cup {q.repo}]
        /\ ever' = [ever EXCEPT ![q.team] = @ \cup {q.repo}]
        /\ known' = Learnt(token, ever')
    BY <1>3 DEF Link
  <2>2. Book!Take(q.team, q.repo)
    BY <1>2, <1>3, <2>1 DEF Learnt, Book!Take, Book!Learn
  <2> QED
    BY <1>2, <2>2 DEF Book!Next
<1>4. CASE q.team \notin teams
    BY <1>4 DEF Link, Book!book
<1> QED
    BY <1>3, <1>4

LEMMA UnlinkIsDrop ==
    ASSUME RepInv, NEW p \in Proc, Unlink(p)
    PROVE  Book!Next
<1>1. req[p] \in Requests
  <2>1. At(p, "unlink")
    BY DEF Unlink
  <2> QED
    BY <2>1, AtStatement
<1>2. req[p].team \in Team /\ req[p].repo \in Repo
    BY <1>1 DEF Requests
<1>3. Book!Drop(req[p].team, req[p].repo)
    BY DEF Unlink, history, Book!Drop
<1> QED
    BY <1>2, <1>3 DEF Book!Next

(* Every step is one of the book, or none: tokens reach a repository from  *)
(* what the team knows.                                                    *)
THEOREM BookKept == Spec => KeepsBook
<1>1. Init => Book!Init
    BY DEF Init, Book!Init
<1>2. RepInv /\ [Next]_vars => [Book!Next]_(Book!book)
  <2> SUFFICES ASSUME RepInv, [Next]_vars PROVE [Book!Next]_(Book!book)
    OBVIOUS
  <2>1. ASSUME NEW p \in Proc, Serve(p) PROVE [Book!Next]_(Book!book)
    <3>1. CASE UNCHANGED <<tables, history>>
        BY <3>1 DEF tables, history, Book!book
    <3> QED
        BY <2>1, <3>1, ServeEffects, GuardIsSupply, UpsertIsStore, LinkIsTake, UnlinkIsDrop
  <2>2. ASSUME Others PROVE [Book!Next]_(Book!book)
    <3>1. CASE UNCHANGED <<teams, token, links, origin>>
        BY <2>2, <3>1 DEF Others, Book!book
    <3>2. ASSUME NEW t \in Team, DeleteTeam(t) PROVE Book!Next
      <4>1. Book!Dissolve(t)
        BY <2>2, <3>2 DEF Others, DeleteTeam, Book!Dissolve
      <4> QED
        BY <4>1 DEF Book!Next
    <3>3. ASSUME NEW r \in Repo, Discover(r) PROVE Book!Next
      <4>1. Book!Discover(r)
        BY <2>2, <3>3 DEF Others, Discover, Book!Discover
      <4> QED
        BY <4>1 DEF Book!Next
    <3>4. \/ UNCHANGED <<teams, token, links, origin>>
          \/ \E t \in Team : DeleteTeam(t)
          \/ \E r \in Repo : Discover(r)
        BY <2>2 DEF Others, Promote, Demote, DeleteUser
    <3> QED
        BY <3>1, <3>2, <3>3, <3>4
  <2>3. CASE UNCHANGED vars
    BY <2>3 DEF vars, tables, history, Book!book
  <2> QED
    BY <2>1, <2>2, <2>3 DEF Next
<1> QED
    BY <1>1, <1>2, AlwaysRepInv, PTL DEF Spec, KeepsBook, Book!Spec
=============================================================================
