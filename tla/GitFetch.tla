------------------------------ MODULE GitFetch ------------------------------
(***************************************************************************)
(* What one worker of a report asks a git server for: FetchForUser for     *)
(* each of its repositories, then SearchActivities across all of them      *)
(* (github/fetcher.go, gitlab/fetcher.go), request by request, on a server *)
(* whose contents change in between.                                       *)
(*                                                                         *)
(* A call works off an agenda of requests.  An answer is one page; it may  *)
(* put further requests in front: the next page, or one request for every  *)
(* pull request on it.  The first request that fails ends the call, and    *)
(* what it had collected is lost.                                          *)
(*                                                                         *)
(* A period is given in dates.  Its end is taken for midnight, when the    *)
(* last day begins: that day is a class of time of its own.                *)
(***************************************************************************)
EXTENDS Integers, Sequences, FiniteSets

CONSTANTS
    Item,       \* what there is on the server, or may be
    Repo,       \* repositories on the server
    Tracked,    \* those of the worker's group, as a sequence
    None,       \* no repository, no item, no call
    PageSize,   \* items on a page
    MaxChanges  \* bound: items that appear or vanish during the fetch

Search == "search"
Calls == Tracked \o <<Search>>

ASSUME FetchAssumption ==
    /\ IsFiniteSet(Item)
    /\ Tracked \in Seq(Repo)
    /\ \A j, k \in DOMAIN Tracked : Tracked[j] = Tracked[k] => j = k
    /\ None \notin Repo \cup Item \cup {Search}
    /\ Search \notin Repo
    /\ PageSize \in Nat \ {0}
    /\ MaxChanges \in Nat

(* Times, as the filters tell them apart.                                  *)
Before  == 0
Inside  == 1
LastDay == 2
After   == 3
Day == Before..After

(* since.Format(RFC3339) .. until.Format(RFC3339)                          *)
Exact == {Inside}

(* since.Format("2006-01-02") .. until.Format("2006-01-02")                *)
ByDate == {Inside, LastDay}

Requests == {"merged", "open"}    \* pull requests, or merge requests
Type == {"commit", "issue", "merged", "review"}

(* An item: whether the member is its author, when it was created and last *)
(* updated, and the request that a review is on.                           *)
Thing == [kind : Type \cup Requests, repo : Repo, mine : BOOLEAN,
          day : Day, updated : Day, on : Item \cup {None}]

Endpoint == {"commits", "reviewed", "requests", "reviews", "issues", "merged"}
Request == [at : Endpoint, repo : Repo \cup {None}, on : Item \cup {None}, page : Nat \ {0}]

VARIABLES
    platform, types,         \* the fetcher; query.Types
    what, listed, old,       \* the items; those there are, newest first;
                             \*   those there were when the worker started
    changes, removed,        \* how many items came and went; whether any went
    next, call,              \* the next call; the one that runs
    agenda, batch,           \* its requests; what it has collected
    report, failed           \* allActivities; the calls that failed

query  == <<platform, types, what, old>>
server == <<listed, changes, removed>>
vars   == <<query, server, next, call, agenda, batch, report, failed>>

Nothing == [i \in Item |-> 0]
Listed  == {listed[k] : k \in DOMAIN listed}

(* A review is on a request of its repository, and updates it.             *)
WellFormed(i) ==
    /\ what[i].updated >= what[i].day
    /\ (what[i].kind = "review") <=> (what[i].on # None)
    /\ what[i].kind = "review" =>
          LET m == what[what[i].on] IN
          /\ m.kind \in Requests /\ m.repo = what[i].repo
          /\ m.day <= what[i].day /\ m.updated >= what[i].day

Init ==
    /\ platform \in {"github", "gitlab"}
    /\ types \in SUBSET Type
    /\ what \in [Item -> Thing] /\ \A i \in Item : WellFormed(i)
    /\ listed \in UNION {[1..n -> Item] : n \in 0..Cardinality(Item)}
    /\ \A j, k \in DOMAIN listed : listed[j] = listed[k] => j = k
    /\ old = Listed
    /\ changes = 0
    /\ removed = FALSE
    /\ next = 1
    /\ call = None
    /\ agenda = <<>>
    /\ batch = Nothing
    /\ report = Nothing
    /\ failed = {}

-----------------------------------------------------------------------------
(* The requests.                                                           *)

Ask(at, r, i) == [at |-> at, repo |-> r, on |-> i, page |-> 1]

If(type, requests) == IF type \in types THEN requests ELSE <<>>

PerRepo(at, repos) == [k \in DOMAIN repos |-> Ask(at, repos[k], None)]

(* The repositories in the order in which a map is ranged over.            *)
Orders == {s \in [DOMAIN Tracked -> {Tracked[k] : k \in DOMAIN Tracked}] :
              \A j, k \in DOMAIN s : s[j] = s[k] => j = k}

GitHubFetch(r) == If("commit", <<Ask("commits", r, None)>>)
                  \o If("review", <<Ask("reviewed", r, None)>>)

GitHubSearch(s1, s2) == If("issue", PerRepo("issues", s1))
                        \o If("merged", PerRepo("merged", s2))

GitLabFetch(r) == If("commit", <<Ask("commits", r, None)>>)

(* Mutant of GitLabSearch: one search per repository, as on GitHub.        *)
GitLabSearchPerRepo == If("issue", PerRepo("issues", Tracked))
                       \o If("merged", PerRepo("merged", Tracked))
                       \o If("review", PerRepo("requests", Tracked))

GitLabSearch == If("issue", <<Ask("issues", None, None)>>)
                \o If("merged", <<Ask("merged", None, None)>>)
                \o If("review", PerRepo("requests", Tracked))

(* The requests that SearchActivities or FetchForUser starts with.         *)
Agendas(c) ==
    IF platform = "github"
    THEN IF c = Search THEN {GitHubSearch(s1, s2) : s1, s2 \in Orders} ELSE {GitHubFetch(c)}
    ELSE IF c = Search THEN {GitLabSearch} ELSE {GitLabFetch(c)}

(* What the servers select.                                                *)
Mine(i, kind, days) == what[i].kind = kind /\ what[i].mine /\ what[i].day \in days

GitHubSelects(q, i) ==
    \/ q.at = "commits"  /\ what[i].repo = q.repo /\ Mine(i, "commit", Exact)
    \/ q.at = "reviewed" /\ what[i].repo = q.repo /\ what[i].kind \in Requests
                         /\ what[i].day \in ByDate
                         /\ \E v \in Listed : what[v].on = i /\ Mine(v, "review", Day)
    \/ q.at = "reviews"  /\ what[i].kind = "review" /\ what[i].on = q.on
    \/ q.at = "issues"   /\ what[i].repo = q.repo /\ Mine(i, "issue", ByDate)
    \/ q.at = "merged"   /\ what[i].repo = q.repo /\ Mine(i, "merged", ByDate)

GitLabSelects(q, i) ==
    \/ q.at = "commits"  /\ what[i].repo = q.repo /\ Mine(i, "commit", Exact)
    \/ q.at = "requests" /\ what[i].repo = q.repo /\ what[i].kind \in Requests
                         /\ what[i].updated \in Exact
    \/ q.at = "reviews"  /\ what[i].kind = "review" /\ what[i].on = q.on
    \/ q.at = "issues"   /\ Mine(i, "issue", Exact)
    \/ q.at = "merged"   /\ Mine(i, "merged", Exact)

Selects(q, i) == IF platform = "github" THEN GitHubSelects(q, i) ELSE GitLabSelects(q, i)

(* What the fetchers keep of an answer.                                    *)
Lists == {"reviewed", "requests"}    \* answers that only lead to others

IsTracked(r) == \E k \in DOMAIN Tracked : Tracked[k] = r

GitHubKeeps(q, i) ==
    /\ q.at \notin Lists
    /\ q.at = "reviews" => Mine(i, "review", Exact)

(* Mutant of GitLabKeeps: the answers are not filtered by repository.      *)
GitLabKeepsAll(q, i) ==
    /\ q.at \notin Lists
    /\ q.at = "reviews" => Mine(i, "review", Exact)

GitLabKeeps(q, i) ==
    /\ q.at \notin Lists
    /\ q.at = "reviews" => Mine(i, "review", Exact)
    /\ q.at \in {"issues", "merged"} => IsTracked(what[i].repo)

Keeps(q, i) == IF platform = "github" THEN GitHubKeeps(q, i) ELSE GitLabKeeps(q, i)

(* Pages: the selected items, PageSize at a time.                          *)
Selected(q, n) == Cardinality({k \in 1..n : Selects(q, listed[k])})

OnPage(q) == {listed[k] : k \in {n \in DOMAIN listed :
                /\ Selects(q, listed[n])
                /\ (q.page - 1) * PageSize < Selected(q, n)
                /\ Selected(q, n) <= q.page * PageSize}}

(* The requests made by GetAll; all others go to Get, which reads a page.  *)
Paged == IF platform = "github" THEN {"commits"} ELSE {"commits", "issues", "merged"}

(* Mutant of MorePages: the header of the answer is not looked at.         *)
NoMorePages(q) == FALSE

(* Mutant of MorePages: "0" is taken for a page.                           *)
AnyMorePages(q) == q.at \in Paged

(* rel="next", X-Next-Page                                                 *)
MorePages(q) == q.at \in Paged /\ q.page * PageSize < Selected(q, Len(listed))

(* The items of a set, one after the other.                                *)
InTurn(S) == CHOOSE s \in [1..Cardinality(S) -> S] : \A j, k \in DOMAIN s : s[j] = s[k] => j = k

FollowUps(q) ==
    IF MorePages(q) THEN <<[q EXCEPT !.page = @ + 1]>>
    ELSE IF q.at \in Lists
    THEN LET found == InTurn(OnPage(q)) IN
         [k \in DOMAIN found |-> Ask("reviews", q.repo, found[k])]
    ELSE <<>>

-----------------------------------------------------------------------------
(* The worker.                                                             *)

Start ==
    /\ call = None /\ next <= Len(Calls)
    /\ call' = Calls[next]
    /\ next' = next + 1
    /\ agenda' \in Agendas(Calls[next])
    /\ batch' = Nothing
    /\ UNCHANGED <<query, server, report, failed>>

Answered ==
    /\ call # None /\ agenda # <<>>
    /\ LET q == Head(agenda)
           kept == {i \in OnPage(q) : Keeps(q, i)} IN
       /\ batch' = [i \in Item |-> IF i \in kept THEN batch[i] + 1 ELSE batch[i]]
       /\ agenda' = FollowUps(q) \o Tail(agenda)
    /\ UNCHANGED <<query, server, next, call, report, failed>>

(* Mutant of Fails: what was collected is returned with the error.         *)
FailsPartly ==
    /\ call # None /\ agenda # <<>>
    /\ report' = [i \in Item |-> report[i] + batch[i]]
    /\ failed' = failed \cup {call}
    /\ call' = None /\ agenda' = <<>> /\ batch' = Nothing
    /\ UNCHANGED <<query, server, next>>

(* No connection, a status other than 2xx, a body that is no JSON.         *)
Fails ==
    /\ call # None /\ agenda # <<>>
    /\ failed' = failed \cup {call}
    /\ call' = None /\ agenda' = <<>> /\ batch' = Nothing
    /\ UNCHANGED <<query, server, next, report>>

Returns ==
    /\ call # None /\ agenda = <<>>
    /\ report' = [i \in Item |-> report[i] + batch[i]]
    /\ call' = None /\ batch' = Nothing
    /\ UNCHANGED <<query, server, next, agenda, failed>>

(* The git server, meanwhile: something new, which is listed first, or     *)
(* something taken away.                                                   *)
Appears(i) ==
    /\ changes < MaxChanges
    /\ i \notin Listed
    /\ listed' = <<i>> \o listed
    /\ changes' = changes + 1
    /\ UNCHANGED <<query, removed, next, call, agenda, batch, report, failed>>

Vanishes(i) ==
    /\ changes < MaxChanges
    /\ \E k \in DOMAIN listed :
          /\ listed[k] = i
          /\ listed' = SubSeq(listed, 1, k - 1) \o SubSeq(listed, k + 1, Len(listed))
    /\ changes' = changes + 1
    /\ removed' = TRUE
    /\ UNCHANGED <<query, next, call, agenda, batch, report, failed>>

Over == call = None /\ next > Len(Calls)

Next == \/ Start \/ Answered \/ Fails \/ Returns
        \/ \E i \in Item : Appears(i) \/ Vanishes(i)
        \/ Over /\ UNCHANGED vars

Spec == Init /\ [][Next]_vars

-----------------------------------------------------------------------------
(* Properties.                                                             *)

(* The variables have their types, and no page is asked for beyond the     *)
(* last that there can be.                                                 *)
TypeOK ==
    /\ platform \in {"github", "gitlab"}
    /\ types \subseteq Type
    /\ what \in [Item -> Thing]
    /\ listed \in Seq(Item)
    /\ old \subseteq Item
    /\ changes \in 0..MaxChanges
    /\ removed \in BOOLEAN
    /\ next \in 1..(Len(Calls) + 1)
    /\ call \in {Calls[k] : k \in DOMAIN Calls} \cup {None}
    /\ agenda \in Seq(Request)
    /\ \A k \in DOMAIN agenda : (agenda[k].page - 1) * PageSize <= Cardinality(Item)
    /\ batch \in [Item -> Nat]
    /\ report \in [Item -> Nat]
    /\ failed \subseteq {Calls[k] : k \in DOMAIN Calls}

(* What a report on this member, these repositories and types is about.    *)
Asked(i, days) == /\ what[i].kind \in types
                  /\ what[i].mine
                  /\ IsTracked(what[i].repo)
                  /\ what[i].day \in days

(* The call that would return it.                                          *)
CallOf(i) == IF what[i].kind = "commit" \/ (platform = "github" /\ what[i].kind = "review")
             THEN what[i].repo ELSE Search

(* Between the filters of the servers and those of the fetchers nothing    *)
(* foreign slips through: all that is reported is the member's, of a       *)
(* requested type, in a repository of the group, and of the period's days. *)
OnlyAsked == \A i \in Item : report[i] > 0 => Asked(i, ByDate)

(* A call that fails leaves nothing behind: neither the pages it had read  *)
(* nor the activities of another type.                                     *)
AllOrNothing == \A i \in Item : report[i] > 0 => CallOf(i) \notin failed

(* What the requests can see: a review hides on a request that GitHub      *)
(* dates before the period, or that GitLab has seen updated since; and     *)
(* what is asked for with Get is cut after one page.                       *)
Like(i) == {j \in Listed : IF what[i].kind \in Requests THEN what[j].kind \in Requests
                           ELSE what[j].kind = what[i].kind}
OnePage(i) == Cardinality(Like(i)) <= PageSize

Visible(v) ==
    LET m == what[v].on IN
    /\ m \in old
    /\ IF platform = "github" THEN what[m].day \in ByDate ELSE what[m].updated \in Exact
    /\ OnePage(v) /\ OnePage(m)

Reachable(i) == IF what[i].kind = "review" THEN Visible(i)
                ELSE what[i].kind = "commit" \/ platform = "gitlab" \/ OnePage(i)

(* Pages that shift while they are read lose nothing: what was there from  *)
(* the beginning is reported, unless something was taken away or its call  *)
(* failed.                                                                 *)
NothingMissed ==
    Over /\ ~removed =>
        \A i \in old : Asked(i, Exact) /\ Reachable(i) /\ CallOf(i) \notin failed
                          => report[i] > 0

(* Activities are counted; on a server that does not change meanwhile none *)
(* is counted twice.                                                       *)
CountedOnce == changes = 0 => \A i \in Item : report[i] <= 1

(* The periods of the front end end with the last day, and include it.     *)
LastDayCounts ==
    Over /\ changes = 0 /\ failed = {} =>
        \A i \in old : Asked(i, ByDate) /\ what[i].kind = "commit" => report[i] > 0
=============================================================================
