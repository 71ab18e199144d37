--------------------------- MODULE GitFetchProofs ---------------------------
(***************************************************************************)
(* Proofs about GitFetch, for any items, repositories, page size and       *)
(* number of changes on the server.                                        *)
(***************************************************************************)
EXTENDS GitFetch, SequenceTheorems, FiniteSetTheorems, TLAPS

(* The calls that were started.                                            *)
Started == {Calls[k] : k \in {n \in DOMAIN Calls : n < next}}

TypeInv ==
    /\ platform \in {"github", "gitlab"}
    /\ what \in [Item -> Thing]
    /\ \A i \in Item : WellFormed(i)
    /\ listed \in Seq(Item)
    /\ next \in Nat \ {0}
    /\ call \in Started \cup {None}
    /\ agenda \in Seq(Request)
    /\ batch \in [Item -> Nat]
    /\ report \in [Item -> Nat]

(* A request that call c may make: it is about a requested type and, unless *)
(* the answer is filtered, about a repository of the group.                *)
Due(q, c) ==
    /\ q.at = "commits"  => "commit" \in types /\ IsTracked(q.repo) /\ c = q.repo
    /\ q.at = "reviewed" => /\ platform = "github" /\ "review" \in types
                            /\ IsTracked(q.repo) /\ c = q.repo
    /\ q.at = "requests" => /\ platform = "gitlab" /\ "review" \in types
                            /\ IsTracked(q.repo) /\ c = Search
    /\ q.at = "reviews"  => /\ "review" \in types
                            /\ IsTracked(q.repo)
                            /\ q.on \in Item /\ what[q.on].repo = q.repo
                            /\ c = IF platform = "github" THEN q.repo ELSE Search
    /\ q.at = "issues"   => /\ "issue" \in types /\ c = Search
                            /\ platform = "github" => IsTracked(q.repo)
    /\ q.at = "merged"   => /\ "merged" \in types /\ c = Search
                            /\ platform = "github" => IsTracked(q.repo)

AllDue(s, c) == s \in Seq(Request) /\ \A k \in DOMAIN s : Due(s[k], c)

(* What a call has collected was asked for, and is its to return.          *)
BatchInv == \A i \in Item : batch[i] > 0 => Asked(i, ByDate) /\ CallOf(i) = call

(* What is reported was asked for, and comes from calls that have returned.*)
ReportInv ==
    /\ \A i \in Item : report[i] > 0 =>
          Asked(i, ByDate) /\ CallOf(i) \in Started \ (failed \cup {call})
    /\ failed \subseteq Started \ {call}

FetchInv == TypeInv /\ AllDue(agenda, call) /\ BatchInv /\ ReportInv

-----------------------------------------------------------------------------
(* Tracked repositories are none of the other things a call or a request   *)
(* may be about.                                                           *)
LEMMA TrackedFacts ==
    /\ \A r : IsTracked(r) => r \in Repo /\ r # Search /\ r # None
    /\ Calls \in Seq(Repo \cup {Search})
    /\ Len(Calls) = Len(Tracked) + 1
    /\ \A k \in DOMAIN Calls : Calls[k] # None
    /\ \A j, k \in DOMAIN Calls : Calls[j] = Calls[k] => j = k
    /\ \A k \in DOMAIN Calls : Calls[k] = Search \/ IsTracked(Calls[k])
<1> USE FetchAssumption
<1>1. \A r : IsTracked(r) => r \in Repo /\ r # Search /\ r # None
    BY DEF IsTracked
<1>2. /\ Calls \in Seq(Repo \cup {Search})
      /\ Len(Calls) = Len(Tracked) + 1
      /\ \A k \in 1..Len(Tracked) : Calls[k] = Tracked[k]
      /\ Calls[Len(Tracked) + 1] = Search
    BY DEF Calls
<1>3. ASSUME NEW k \in DOMAIN Calls
      PROVE  \/ k \in DOMAIN Tracked /\ Calls[k] = Tracked[k] /\ Calls[k] \in Repo
             \/ k = Len(Tracked) + 1 /\ Calls[k] = Search
    BY <1>2
<1>4. \A k \in DOMAIN Tracked : IsTracked(Tracked[k])
    BY DEF IsTracked
<1>5. \A k \in DOMAIN Calls : Calls[k] # None /\ (Calls[k] = Search \/ IsTracked(Calls[k]))
    BY <1>3, <1>4
<1>6. ASSUME NEW j \in DOMAIN Calls, NEW k \in DOMAIN Calls, Calls[j] = Calls[k]
      PROVE  j = k
    BY <1>3, <1>6
<1> QED
    BY <1>1, <1>2, <1>5, <1>6

(* What is on a page was selected by the server.                           *)
LEMMA PageIsSelected ==
    ASSUME TypeInv, NEW q
    PROVE  /\ OnPage(q) \subseteq Item
           /\ \A i \in OnPage(q) : Selects(q, i)
           /\ IsFiniteSet(OnPage(q))
<1>1. OnPage(q) \subseteq Item /\ \A i \in OnPage(q) : Selects(q, i)
    BY DEF OnPage, TypeInv
<1> QED
    BY <1>1, FS_Subset, FetchAssumption

(* Between the server's filter and the fetcher's nothing slips through,    *)
(* when the request is due.                                                *)
LEMMA KeptIsAsked ==
    ASSUME TypeInv, NEW c, NEW q \in Request, Due(q, c),
           NEW i \in Item, Selects(q, i), Keeps(q, i)
    PROVE  Asked(i, ByDate) /\ CallOf(i) = c
<1>1. what[i] \in Thing /\ WellFormed(i) /\ q.at \in Endpoint \ Lists
    BY DEF TypeInv, Request, Keeps, GitHubKeeps, GitLabKeeps
<1>2. CASE q.at = "commits"
    BY <1>1, <1>2 DEF Due, Selects, GitHubSelects, GitLabSelects, Mine, Asked, CallOf,
        Exact, ByDate
<1>3. CASE q.at = "issues"
    BY <1>1, <1>3 DEF Due, Selects, GitHubSelects, GitLabSelects, Keeps, GitLabKeeps, Mine,
        Asked, CallOf, Exact, ByDate
<1>4. CASE q.at = "merged"
    BY <1>1, <1>4 DEF Due, Selects, GitHubSelects, GitLabSelects, Keeps, GitLabKeeps, Mine,
        Asked, CallOf, Exact, ByDate
<1>5. CASE q.at = "reviews"
  <2>1. what[i].kind = "review" /\ what[i].on = q.on /\ Mine(i, "review", Exact)
    BY <1>5 DEF Selects, GitHubSelects, GitLabSelects, Keeps, GitHubKeeps, GitLabKeeps
  <2>2. what[i].repo = q.repo
    BY <1>1, <1>5, <2>1 DEF WellFormed, Due
  <2> QED
    BY <1>5, <2>1, <2>2 DEF Due, Mine, Asked, CallOf, Exact, ByDate
<1> QED
    BY <1>1, <1>2, <1>3, <1>4, <1>5 DEF Endpoint, Lists

(* A request has its fields.                                               *)
LEMMA AskType ==
    ASSUME NEW at \in Endpoint, NEW r \in Repo \cup {None}, NEW i \in Item \cup {None}
    PROVE  /\ Ask(at, r, i) \in Request
           /\ Ask(at, r, i).at = at /\ Ask(at, r, i).repo = r /\ Ask(at, r, i).on = i
BY DEF Ask, Request

(* The requests that an answer leads to are due.                           *)
LEMMA FollowUpsDue ==
    ASSUME TypeInv, NEW c, NEW q \in Request, Due(q, c)
    PROVE  AllDue(FollowUps(q), c)
<1>1. CASE MorePages(q)
  <2> DEFINE p == [q EXCEPT !.page = @ + 1]
  <2>1. p \in Request /\ p.at = q.at /\ p.repo = q.repo /\ p.on = q.on
    BY DEF Request
  <2>2. Due(p, c)
    BY <2>1 DEF Due
  <2>3. FollowUps(q) = <<p>>
    BY <1>1 DEF FollowUps
  <2> HIDE DEF p
  <2> QED
    BY <2>1, <2>2, <2>3 DEF AllDue
<1>2. CASE ~MorePages(q) /\ q.at \in Lists
  <2> DEFINE S == OnPage(q)
             found == InTurn(S)
             f == [k \in DOMAIN found |-> Ask("reviews", q.repo, found[k])]
  <2>1. found \in [1..Cardinality(S) -> S] /\ Cardinality(S) \in Nat
    <3>1. Cardinality(S) \in Nat /\ ExistsBijection(1..Cardinality(S), S)
      BY PageIsSelected, FS_CardinalityType
    <3>2. \E g \in [1..Cardinality(S) -> S] : \A j, k \in DOMAIN g : g[j] = g[k] => j = k
      <4>1. PICK g \in Bijection(1..Cardinality(S), S) : TRUE
        BY <3>1 DEF ExistsBijection
      <4> QED
        BY <4>1 DEF Bijection, Injection, IsInjective
    <3> QED
      BY <3>1, <3>2 DEF InTurn
  <2>2. \A i \in S : i \in Item /\ what[i].repo = q.repo
    BY <1>2, PageIsSelected DEF Selects, GitHubSelects, GitLabSelects, Lists
  <2>3. IsTracked(q.repo) /\ "review" \in types /\ c = IF platform = "github" THEN q.repo ELSE Search
    BY <1>2 DEF Due, Lists, TypeInv
  <2>4. q.repo \in Repo
    BY <2>3, TrackedFacts
  <2>5. FollowUps(q) = f
    BY <1>2 DEF FollowUps
  <2> HIDE DEF S, found
  <2>6. \A k \in 1..Cardinality(S) : f[k] \in Request /\ Due(f[k], c)
    <3> SUFFICES ASSUME NEW k \in 1..Cardinality(S) PROVE f[k] \in Request /\ Due(f[k], c)
      OBVIOUS
    <3>1. found[k] \in Item /\ what[found[k]].repo = q.repo
      BY <2>1, <2>2
    <3>2. f[k] = Ask("reviews", q.repo, found[k])
      BY <2>1
    <3>3. f[k] \in Request /\ f[k].at = "reviews" /\ f[k].repo = q.repo /\ f[k].on = found[k]
      BY <2>4, <3>1, <3>2, AskType DEF Endpoint
    <3> QED
      BY <2>3, <3>1, <3>3 DEF Due
  <2>7. f \in [1..Cardinality(S) -> Request]
    BY <2>1, <2>6
  <2> QED
    BY <2>1, <2>5, <2>6, <2>7 DEF AllDue
<1>3. CASE ~MorePages(q) /\ q.at \notin Lists
    BY <1>3 DEF FollowUps, AllDue
<1> QED
    BY <1>1, <1>2, <1>3

(* Due requests after due requests are due.                                *)
LEMMA ConcatDue ==
    ASSUME NEW s, NEW t, NEW c, AllDue(s, c), AllDue(t, c)
    PROVE  AllDue(s \o t, c)
<1>1. s \o t \in Seq(Request)
    BY DEF AllDue
<1>2. ASSUME NEW k \in DOMAIN (s \o t) PROVE Due((s \o t)[k], c)
  <2>1. \/ k \in DOMAIN s /\ (s \o t)[k] = s[k]
        \/ k - Len(s) \in DOMAIN t /\ (s \o t)[k] = t[k - Len(s)]
    BY <1>2 DEF AllDue
  <2> QED
    BY <2>1 DEF AllDue
<1> QED
    BY <1>1, <1>2 DEF AllDue

(* The agendas that calls start with are due.                              *)
LEMMA AgendasDue ==
    ASSUME TypeInv, NEW c \in {Calls[k] : k \in DOMAIN Calls}, NEW s \in Agendas(c)
    PROVE  AllDue(s, c)
<1> USE DEF Endpoint
<1>1. AllDue(<<>>, c)
    BY DEF AllDue
<1>2. ASSUME NEW q \in Request, Due(q, c) PROVE AllDue(<<q>>, c)
    BY <1>2 DEF AllDue
<1>3. CASE c # Search
  <2>1. IsTracked(c) /\ c \in Repo
    BY <1>3, TrackedFacts
  <2>2. AllDue(If("commit", <<Ask("commits", c, None)>>), c)
    <3> DEFINE q == Ask("commits", c, None)
    <3>1. q \in Request /\ q.at = "commits" /\ q.repo = c
      BY <2>1, AskType
    <3> HIDE DEF q
    <3>2. CASE "commit" \in types
      BY <1>2, <2>1, <3>1, <3>2 DEF Due, If, q
    <3>3. CASE "commit" \notin types
      BY <1>1, <3>3 DEF If
    <3> QED
      BY <3>2, <3>3
  <2>3. CASE platform = "github"
    <3>1. AllDue(If("review", <<Ask("reviewed", c, None)>>), c)
      <4> DEFINE q == Ask("reviewed", c, None)
      <4>1. q \in Request /\ q.at = "reviewed" /\ q.repo = c
        BY <2>1, AskType
      <4> HIDE DEF q
      <4>2. CASE "review" \in types
        BY <1>2, <2>1, <2>3, <4>1, <4>2 DEF Due, If, q
      <4>3. CASE "review" \notin types
        BY <1>1, <4>3 DEF If
      <4> QED
        BY <4>2, <4>3
    <3>2. s = GitHubFetch(c)
      BY <1>3, <2>3 DEF Agendas
    <3> QED
      BY <2>2, <3>1, <3>2, ConcatDue DEF GitHubFetch
  <2>4. CASE platform = "gitlab"
    BY <1>3, <2>2, <2>4 DEF Agendas, GitLabFetch
  <2> QED
    BY <2>3, <2>4 DEF TypeInv
<1>4. CASE c = Search
  <2>1. ASSUME NEW at \in Endpoint, NEW type, NEW t,
               t \in Seq(Repo), \A k \in DOMAIN t : IsTracked(t[k]),
               <<at, type>> \in {<<"issues", "issue">>, <<"merged", "merged">>,
                                 <<"requests", "review">>},
               at = "requests" => platform = "gitlab"
        PROVE  AllDue(If(type, PerRepo(at, t)), c)
    <3> DEFINE p == PerRepo(at, t)
    <3>1. CASE type \in types
      <4>1. ASSUME NEW k \in 1..Len(t) PROVE p[k] \in Request /\ Due(p[k], c)
        <5>1. t[k] \in Repo /\ IsTracked(t[k]) /\ p[k] = Ask(at, t[k], None)
          BY <2>1, <4>1 DEF PerRepo
        <5>2. p[k] \in Request /\ p[k].at = at /\ p[k].repo = t[k]
          BY <5>1, AskType
        <5>3. \/ at = "issues" /\ type = "issue"
              \/ at = "merged" /\ type = "merged"
              \/ at = "requests" /\ type = "review"
          BY <2>1
        <5> HIDE DEF p
        <5>4. Due(p[k], c)
          BY <1>4, <2>1, <3>1, <5>1, <5>2, <5>3 DEF Due
        <5> QED
          BY <5>2, <5>4
      <4>2. p \in [1..Len(t) -> Request] /\ Len(t) \in Nat
        <5>1. DOMAIN t = 1..Len(t) /\ Len(t) \in Nat
          BY <2>1
        <5>2. p = [k \in 1..Len(t) |-> Ask(at, t[k], None)]
          BY <5>1 DEF PerRepo
        <5> HIDE DEF p
        <5>3. \A k \in 1..Len(t) : Ask(at, t[k], None) \in Request
          BY <4>1, <5>2
        <5> QED
          BY <5>1, <5>2, <5>3
      <4>3. If(type, PerRepo(at, t)) = p
        BY <3>1 DEF If
      <4> HIDE DEF p
      <4> QED
        BY <4>1, <4>2, <4>3 DEF AllDue
    <3>2. CASE type \notin types
      BY <1>1, <3>2 DEF If
    <3> QED
      BY <3>1, <3>2
  <2>2. CASE platform = "github"
    <3>0. s \in {GitHubSearch(s1, s2) : s1 \in Orders, s2 \in Orders}
      BY <1>4, <2>2 DEF Agendas
    <3>1. PICK s1 \in Orders, s2 \in Orders : s = GitHubSearch(s1, s2)
      BY <3>0
    <3>2. ASSUME NEW t \in Orders PROVE t \in Seq(Repo) /\ \A k \in DOMAIN t : IsTracked(t[k])
      <4>1. t \in [1..Len(Tracked) -> {Tracked[k] : k \in DOMAIN Tracked}]
        <5>1. DOMAIN Tracked = 1..Len(Tracked)
          BY FetchAssumption
        <5>2. t \in [DOMAIN Tracked -> {Tracked[k] : k \in DOMAIN Tracked}]
          BY <3>2, Zenon DEF Orders
        <5> QED
          BY <5>1, <5>2, Zenon
      <4>2. \A k \in 1..Len(Tracked) : IsTracked(t[k])
        BY <4>1 DEF IsTracked
      <4>3. t \in [1..Len(Tracked) -> Repo]
        BY <4>1, <4>2, TrackedFacts
      <4> QED
        BY <4>2, <4>3, FetchAssumption
    <3>3. AllDue(If("issue", PerRepo("issues", s1)), c)
      BY <2>1, <3>2
    <3>4. AllDue(If("merged", PerRepo("merged", s2)), c)
      BY <2>1, <3>2
    <3> QED
      BY <3>1, <3>3, <3>4, ConcatDue DEF GitHubSearch
  <2>3. CASE platform = "gitlab"
    <3>1. \A k \in DOMAIN Tracked : IsTracked(Tracked[k])
      BY DEF IsTracked
    <3>2. AllDue(If("review", PerRepo("requests", Tracked)), c)
      BY <2>1, <2>3, <3>1, FetchAssumption
    <3>3. ASSUME NEW at, NEW type,
                 <<at, type>> \in {<<"issues", "issue">>, <<"merged", "merged">>}
          PROVE  AllDue(If(type, <<Ask(at, None, None)>>), c)
      <4> DEFINE q == Ask(at, None, None)
      <4>1. q \in Request /\ q.at = at
        BY <3>3, AskType
      <4> HIDE DEF q
      <4>2. CASE type \in types
        BY <1>2, <1>4, <2>3, <3>3, <4>1, <4>2 DEF Due, If, q
      <4>3. CASE type \notin types
        BY <1>1, <4>3 DEF If
      <4> QED
        BY <4>2, <4>3
    <3>4. s = GitLabSearch
      BY <1>4, <2>3 DEF Agendas
    <3>5. AllDue(If("issue", <<Ask("issues", None, None)>>), c)
      BY <3>3
    <3>6. AllDue(If("merged", <<Ask("merged", None, None)>>), c)
      BY <3>3
    <3> QED
      BY <3>2, <3>4, <3>5, <3>6, ConcatDue DEF GitLabSearch
  <2> QED
    BY <2>2, <2>3 DEF TypeInv
<1> QED
    BY <1>3, <1>4

-----------------------------------------------------------------------------
(* What the worker starts from satisfies FetchInv.                         *)
LEMMA InitFetchInv == Init => FetchInv
<1> SUFFICES ASSUME Init PROVE FetchInv
    OBVIOUS
<1> USE DEF Init, Nothing
<1>1. listed \in Seq(Item)
    OBVIOUS
<1>2. TypeInv
    BY <1>1 DEF TypeInv
<1>3. AllDue(agenda, call) /\ BatchInv
    BY DEF AllDue, BatchInv
<1>4. ReportInv
    BY DEF ReportInv
<1> QED
    BY <1>2, <1>3, <1>4 DEF FetchInv

(* Starting a call: it is none of those started before.                    *)
LEMMA StartKeeps == FetchInv /\ Start => FetchInv'
<1> SUFFICES ASSUME FetchInv, Start PROVE FetchInv'
    OBVIOUS
<1> DEFINE c == Calls[next]
<1>1. next \in DOMAIN Calls /\ call = None /\ call' = c /\ next' = next + 1
      /\ UNCHANGED <<query, server, report, failed>> /\ batch' = Nothing
    BY TrackedFacts DEF Start, FetchInv, TypeInv
<1>2. Started' = Started \cup {c} /\ c \notin Started /\ None \notin Started
  <2>1. next \in Nat /\ \A k \in DOMAIN Calls : k \in Nat
    BY TrackedFacts DEF FetchInv, TypeInv
  <2>2. Calls' = Calls
    BY DEF Calls
  <2>3. \A k \in DOMAIN Calls : k < next + 1 <=> k < next \/ k = next
    BY <2>1
  <2>4. Started' = Started \cup {c}
    BY <1>1, <2>2, <2>3 DEF Started
  <2>5. c \notin Started /\ None \notin Started
    BY <1>1, <2>1, TrackedFacts DEF Started
  <2> QED
    BY <2>4, <2>5
<1>3. AllDue(agenda', c)
    BY <1>1, AgendasDue DEF Start, FetchInv
<1>4. AllDue(agenda, call)'
    BY <1>1, <1>3 DEF AllDue, Due, query
<1>5. TypeInv'
    BY <1>1, <1>2, <1>3 DEF FetchInv, TypeInv, AllDue, Nothing, WellFormed, query, server
<1>6. BatchInv'
    BY <1>1 DEF BatchInv, Nothing
<1>7. ReportInv'
    BY <1>1, <1>2 DEF FetchInv, ReportInv, Asked, CallOf, query
<1> QED
    BY <1>4, <1>5, <1>6, <1>7 DEF FetchInv

(* An answer: what is kept was asked for, and what follows is due.         *)
LEMMA AnsweredKeeps == FetchInv /\ Answered => FetchInv'
<1> SUFFICES ASSUME FetchInv, Answered PROVE FetchInv'
    OBVIOUS
<1> DEFINE q == Head(agenda)
           kept == {i \in OnPage(q) : Keeps(q, i)}
<1>1. /\ call # None /\ agenda # <<>> /\ agenda \in Seq(Request)
      /\ batch' = [i \in Item |-> IF i \in kept THEN batch[i] + 1 ELSE batch[i]]
      /\ agenda' = FollowUps(q) \o Tail(agenda)
      /\ UNCHANGED <<query, server, next, call, report, failed>>
    BY DEF Answered, FetchInv, TypeInv
<1>2. q \in Request /\ Due(q, call)
    BY <1>1 DEF FetchInv, AllDue
<1>3. AllDue(Tail(agenda), call)
    BY <1>1, HeadTailProperties DEF FetchInv, AllDue
<1>4. AllDue(agenda', call)
    BY <1>1, <1>2, <1>3, FollowUpsDue, ConcatDue DEF FetchInv
<1>5. \A i \in kept : i \in Item /\ Asked(i, ByDate) /\ CallOf(i) = call
    BY <1>2, PageIsSelected, KeptIsAsked DEF FetchInv
<1> HIDE DEF q, kept
<1>6. AllDue(agenda, call)'
    BY <1>1, <1>4 DEF AllDue, Due, query
<1>7. TypeInv'
  <2>1. batch' \in [Item -> Nat]
    BY <1>1 DEF FetchInv, TypeInv
  <2> QED
    BY <1>1, <1>4, <2>1 DEF FetchInv, TypeInv, AllDue, WellFormed, Started, query, server
<1>8. BatchInv'
  <2> SUFFICES ASSUME NEW i \in Item, batch'[i] > 0 PROVE (Asked(i, ByDate) /\ CallOf(i) = call)'
    BY DEF BatchInv
  <2>1. i \in kept \/ batch[i] > 0
    BY <1>1
  <2>2. Asked(i, ByDate) /\ CallOf(i) = call
    BY <1>5, <2>1 DEF FetchInv, BatchInv
  <2> QED
    BY <1>1, <2>2 DEF Asked, CallOf, query
<1>9. ReportInv'
    BY <1>1 DEF FetchInv, ReportInv, Asked, CallOf, Started, query
<1> QED
    BY <1>6, <1>7, <1>8, <1>9 DEF FetchInv

(* The end of a call, with an error or with what it has collected.         *)
LEMMA EndKeeps == FetchInv /\ (Fails \/ Returns) => FetchInv'
<1> SUFFICES ASSUME FetchInv, Fails \/ Returns PROVE FetchInv'
    OBVIOUS
<1>1. /\ call # None /\ call \in Started
      /\ call' = None /\ agenda' = <<>> /\ batch' = Nothing
      /\ UNCHANGED <<query, server, next>>
    BY DEF Fails, Returns, FetchInv, TypeInv
<1>2. None \notin Started /\ Started' = Started
    BY <1>1, TrackedFacts DEF Started
<1>3. AllDue(agenda, call)' /\ BatchInv'
    BY <1>1 DEF AllDue, BatchInv, Nothing
<1>4. TypeInv'
  <2>1. report' \in [Item -> Nat]
    BY DEF Fails, Returns, FetchInv, TypeInv
  <2> QED
    BY <1>1, <1>2, <2>1 DEF FetchInv, TypeInv, Nothing, WellFormed, query, server
<1>5. ReportInv'
  <2>1. CASE Fails
    BY <1>1, <1>2, <2>1 DEF Fails, FetchInv, ReportInv, Asked, CallOf, query
  <2>2. CASE Returns
    <3>1. failed' = failed
      BY <2>2 DEF Returns
    <3>2. ASSUME NEW i \in Item, report'[i] > 0
          PROVE  Asked(i, ByDate) /\ CallOf(i) \in Started \ failed
      <4>1. report[i] > 0 \/ batch[i] > 0
        BY <2>2, <3>2 DEF Returns, FetchInv, TypeInv
      <4> QED
        BY <1>1, <4>1 DEF FetchInv, BatchInv, ReportInv
    <3> QED
      BY <1>1, <1>2, <3>1, <3>2 DEF FetchInv, ReportInv, Asked, CallOf, query
  <2> QED
    BY <2>1, <2>2
<1> QED
    BY <1>3, <1>4, <1>5 DEF FetchInv

(* The server's changes touch nothing the worker has.                      *)
LEMMA ServerKeeps ==
    ASSUME FetchInv, UNCHANGED <<query, next, call, agenda, batch, report, failed>>,
           listed' \in Seq(Item)
    PROVE  FetchInv'
BY DEF FetchInv, TypeInv, AllDue, Due, BatchInv, ReportInv, Asked, CallOf, Started,
    WellFormed, query

(* Every step keeps FetchInv.                                              *)
LEMMA NextFetchInv == FetchInv /\ [Next]_vars => FetchInv'
<1> SUFFICES ASSUME FetchInv, [Next]_vars PROVE FetchInv'
    OBVIOUS
<1>1. listed \in Seq(Item)
    BY DEF FetchInv, TypeInv
<1>2. ASSUME NEW i \in Item, Appears(i) PROVE FetchInv'
  <2>1. listed' \in Seq(Item)
    BY <1>1, <1>2 DEF Appears
  <2> QED
    BY <1>2, <2>1, ServerKeeps DEF Appears
<1>3. ASSUME NEW i \in Item, Vanishes(i) PROVE FetchInv'
  <2>1. listed' \in Seq(Item)
    BY <1>1, <1>3 DEF Vanishes
  <2> QED
    BY <1>3, <2>1, ServerKeeps DEF Vanishes
<1>4. CASE UNCHANGED vars
    BY <1>1, <1>4, ServerKeeps DEF vars, server
<1> QED
    BY <1>2, <1>3, <1>4, StartKeeps, AnsweredKeeps, EndKeeps DEF Next

-----------------------------------------------------------------------------
(* Whatever is on the server and whatever changes or fails meanwhile, the  *)
(* worker reports nothing but the member's activities, of the requested    *)
(* types, in its repositories, on days of the period.                      *)
THEOREM NothingForeign == Spec => []OnlyAsked
<1>1. FetchInv => OnlyAsked
    BY DEF FetchInv, ReportInv, OnlyAsked
<1> QED
    BY <1>1, InitFetchInv, NextFetchInv, PTL DEF Spec

(* Nothing is reported that a failed FetchForUser or SearchActivities had  *)
(* read before it failed.                                                  *)
THEOREM FailuresLeaveNothing == Spec => []AllOrNothing
<1>1. FetchInv => AllOrNothing
    BY DEF FetchInv, ReportInv, AllOrNothing
<1> QED
    BY <1>1, InitFetchInv, NextFetchInv, PTL DEF Spec

-----------------------------------------------------------------------------
(* No item is listed twice, no page lies beyond the last there can be, and *)
(* what is read with Get has one page.                                     *)
PagesInv ==
    /\ \A j, k \in DOMAIN listed : listed[j] = listed[k] => j = k
    /\ old \subseteq Item /\ types \subseteq Type
    /\ changes \in 0..MaxChanges /\ removed \in BOOLEAN
    /\ next <= Len(Calls) + 1
    /\ \A k \in DOMAIN agenda :
          /\ (agenda[k].page - 1) * PageSize <= Cardinality(Item)
          /\ agenda[k].at \notin Paged => agenda[k].page = 1

(* Item i is on the page that q asks for, or on one that follows it.       *)
Ahead(q, i) == \E n \in DOMAIN listed : listed[n] = i /\ (q.page - 1) * PageSize < Selected(q, n)

(* The requests that may still collect item i: those whose pages it is on, *)
(* and those that lead to the reviews of its repository.                   *)
Claims(q, i) == IF q.at \in Lists THEN what[i].kind = "review" /\ what[i].repo = q.repo
                ELSE Selects(q, i) /\ Keeps(q, i) /\ Ahead(q, i)

OnceInv ==
    changes = 0 =>
        /\ \A i \in Item : batch[i] <= 1
        /\ \A i \in Item, k \in DOMAIN agenda : Claims(agenda[k], i) => batch[i] = 0
        /\ \A i \in Item, j, k \in DOMAIN agenda :
              Claims(agenda[j], i) /\ Claims(agenda[k], i) => j = k
        /\ \A i \in Item : report[i] <= 1

(* The requests that will collect item i, or lead to the one that will.    *)
Awaits(q, i) == IF q.at \in Lists THEN what[i].kind = "review" /\ Selects(q, what[i].on)
                ELSE Selects(q, i) /\ Keeps(q, i) /\ Ahead(q, i)

(* What a report must not miss.                                            *)
Sought(i) == i \in old /\ Asked(i, Exact) /\ Reachable(i)

FoundInv ==
    ~removed =>
        /\ old \subseteq Listed
        /\ \A i \in Item :
              Sought(i) /\ CallOf(i) \notin failed =>
                  /\ CallOf(i) = call => \/ batch[i] > 0
                                         \/ \E k \in DOMAIN agenda : Awaits(agenda[k], i)
                  /\ CallOf(i) \in Started \ {call} => report[i] > 0

(* A sequence lists the members of a set, each once.                       *)
Enumerates(s, S) ==
    /\ s \in Seq(S)
    /\ \A x \in S : \E k \in DOMAIN s : s[k] = x
    /\ \A j, k \in DOMAIN s : s[j] = s[k] => j = k

(* One sequence after another: where its elements come from.               *)
LEMMA ConcatFacts ==
    ASSUME NEW S, NEW T, NEW s \in Seq(S), NEW t \in Seq(T)
    PROVE  /\ s \o t \in Seq(S \cup T)
           /\ \A k \in DOMAIN (s \o t) :
                 \/ k \in DOMAIN s /\ (s \o t)[k] = s[k]
                 \/ k \notin DOMAIN s /\ k - Len(s) \in DOMAIN t /\ (s \o t)[k] = t[k - Len(s)]
           /\ \A k \in DOMAIN s : k \in DOMAIN (s \o t) /\ (s \o t)[k] = s[k]
           /\ \A k \in DOMAIN t : k + Len(s) \in DOMAIN (s \o t) /\ (s \o t)[k + Len(s)] = t[k]
           /\ \A j, k \in DOMAIN (s \o t) : j - Len(s) = k - Len(s) => j = k
<1>1. s \in Seq(S \cup T) /\ t \in Seq(S \cup T)
    OBVIOUS
<1>2. s \o t \in Seq(S \cup T) /\ Len(s \o t) = Len(s) + Len(t) /\ Len(s) \in Nat /\ Len(t) \in Nat
    BY <1>1
<1>3. \A k \in DOMAIN s : k \in DOMAIN (s \o t) /\ (s \o t)[k] = s[k]
    BY <1>1
<1>4. \A k \in DOMAIN t : k + Len(s) \in DOMAIN (s \o t) /\ (s \o t)[k + Len(s)] = t[k]
    BY <1>1
<1>5. ASSUME NEW k \in DOMAIN (s \o t)
      PROVE  \/ k \in DOMAIN s /\ (s \o t)[k] = s[k]
             \/ k \notin DOMAIN s /\ k - Len(s) \in DOMAIN t /\ (s \o t)[k] = t[k - Len(s)]
  <2>1. CASE k <= Len(s)
    BY <1>1, <1>5, <2>1
  <2>2. CASE k > Len(s)
    BY <1>1, <1>5, <2>2
  <2> QED
    BY <1>2, <2>1, <2>2
<1>6. \A j, k \in DOMAIN (s \o t) : j - Len(s) = k - Len(s) => j = k
    BY <1>2
<1> QED
    BY <1>2, <1>3, <1>4, <1>5, <1>6

(* Sequences with nothing in common, one after the other.                  *)
LEMMA EnumeratesConcat ==
    ASSUME NEW S, NEW T, NEW s, NEW t, Enumerates(s, S), Enumerates(t, T), S \cap T = {}
    PROVE  Enumerates(s \o t, S \cup T)
<1>1. s \in Seq(S) /\ t \in Seq(T)
    BY DEF Enumerates
<1>2. /\ s \o t \in Seq(S \cup T)
      /\ \A k \in DOMAIN (s \o t) :
            \/ k \in DOMAIN s /\ (s \o t)[k] = s[k]
            \/ k \notin DOMAIN s /\ k - Len(s) \in DOMAIN t /\ (s \o t)[k] = t[k - Len(s)]
      /\ \A k \in DOMAIN s : k \in DOMAIN (s \o t) /\ (s \o t)[k] = s[k]
      /\ \A k \in DOMAIN t : k + Len(s) \in DOMAIN (s \o t) /\ (s \o t)[k + Len(s)] = t[k]
      /\ \A j, k \in DOMAIN (s \o t) : j - Len(s) = k - Len(s) => j = k
  <2> HIDE DEF Enumerates
  <2> QED
    BY <1>1, ConcatFacts
<1> DEFINE u == s \o t
<1>3. /\ \A k \in DOMAIN s : s[k] \in S
      /\ \A k \in DOMAIN t : t[k] \in T
    BY <1>1
<1> HIDE DEF u
<1>4. ASSUME NEW x \in S \cup T PROVE \E k \in DOMAIN u : u[k] = x
  <2>1. CASE x \in S
    <3>1. PICK k \in DOMAIN s : s[k] = x
      BY <2>1 DEF Enumerates
    <3> QED
      BY <1>2, <3>1 DEF u
  <2>2. CASE x \in T
    <3>1. PICK k \in DOMAIN t : t[k] = x
      BY <2>2 DEF Enumerates
    <3> QED
      BY <1>2, <3>1 DEF u
  <2> QED
    BY <1>4, <2>1, <2>2
<1>5. ASSUME NEW j \in DOMAIN u, NEW k \in DOMAIN u, u[j] = u[k]
      PROVE  j = k
  <2>1. \A i \in DOMAIN u :
           \/ i \in DOMAIN s /\ u[i] = s[i] /\ s[i] \in S
           \/ i \notin DOMAIN s /\ i - Len(s) \in DOMAIN t /\ u[i] = t[i - Len(s)] /\ u[i] \in T
    BY <1>2, <1>3 DEF u
  <2>2. CASE j \in DOMAIN s
    <3>1. k \in DOMAIN s /\ s[j] = s[k]
      BY <1>5, <2>1, <2>2
    <3> QED
      BY <2>2, <3>1 DEF Enumerates
  <2>3. CASE j \notin DOMAIN s
    <3>1. /\ j - Len(s) \in DOMAIN t /\ k - Len(s) \in DOMAIN t
          /\ t[j - Len(s)] = t[k - Len(s)]
      BY <1>5, <2>1, <2>3
    <3>2. j - Len(s) = k - Len(s)
      BY <3>1 DEF Enumerates
    <3> QED
      BY <1>2, <3>2 DEF u
  <2> QED
    BY <2>2, <2>3
<1> QED
  <2>1. u \in Seq(S \cup T)
    BY <1>2 DEF u
  <2>2. Enumerates(u, S \cup T)
    BY <2>1, <1>4, <1>5 DEF Enumerates
  <2> QED
    BY <2>2 DEF u

(* The shortest enumerations.                                              *)
LEMMA EnumeratesFew ==
    /\ Enumerates(<<>>, {})
    /\ \A x : Enumerates(<<x>>, {x})
  BY DEF Enumerates

(* An injection into a set of the same size misses nothing.                *)
LEMMA InjectionEnumerates ==
    ASSUME NEW n \in Nat, NEW S, IsFiniteSet(S), Cardinality(S) = n,
           NEW f \in [1..n -> S], \A j, k \in 1..n : f[j] = f[k] => j = k
    PROVE  Enumerates(f, S)
<1>1. f \in Injection(1..n, S)
    BY DEF Injection, IsInjective
<1>2. Cardinality(1..n) = n
    BY FS_Interval
<1>3. f \in Surjection(1..n, S)
    BY <1>1, <1>2, FS_Injection
<1>4. \A x \in S : \E k \in 1..n : f[k] = x
    BY <1>3 DEF Surjection
<1> QED
    BY <1>4 DEF Enumerates

(* The items of a finite set, in turn.                                     *)
LEMMA InTurnEnumerates ==
    ASSUME NEW S, IsFiniteSet(S)
    PROVE  Enumerates(InTurn(S), S)
<1>1. Cardinality(S) \in Nat /\ ExistsBijection(1..Cardinality(S), S)
    BY FS_CardinalityType
<1>2. \E g \in [1..Cardinality(S) -> S] : \A j, k \in DOMAIN g : g[j] = g[k] => j = k
  <2>1. PICK g \in Bijection(1..Cardinality(S), S) : TRUE
    BY <1>1 DEF ExistsBijection
  <2> QED
    BY <2>1 DEF Bijection, Injection, IsInjective
<1>3. /\ InTurn(S) \in [1..Cardinality(S) -> S]
      /\ \A j, k \in DOMAIN InTurn(S) : InTurn(S)[j] = InTurn(S)[k] => j = k
    BY <1>2 DEF InTurn
<1> QED
    BY <1>1, <1>3, InjectionEnumerates

-----------------------------------------------------------------------------
(* The requests that a call starts with, as a set.                         *)
WhenAsked(type, S) == IF type \in types THEN S ELSE {}
AboutTracked(at) == {Ask(at, Tracked[k], None) : k \in DOMAIN Tracked}

FirstAsked(c) ==
    IF platform = "github"
    THEN IF c = Search
         THEN WhenAsked("issue", AboutTracked("issues")) \cup WhenAsked("merged", AboutTracked("merged"))
         ELSE WhenAsked("commit", {Ask("commits", c, None)}) \cup WhenAsked("review", {Ask("reviewed", c, None)})
    ELSE IF c = Search
         THEN WhenAsked("issue", {Ask("issues", None, None)})
              \cup WhenAsked("merged", {Ask("merged", None, None)})
              \cup WhenAsked("review", AboutTracked("requests"))
         ELSE WhenAsked("commit", {Ask("commits", c, None)})

(* The fields of a request.                                                *)
LEMMA AskFields ==
    ASSUME NEW at, NEW r, NEW i
    PROVE  /\ Ask(at, r, i).at = at /\ Ask(at, r, i).repo = r
           /\ Ask(at, r, i).on = i /\ Ask(at, r, i).page = 1
  BY DEF Ask

(* One request for every repository of the group, in any order.            *)
LEMMA PerRepoEnumerates ==
    ASSUME NEW at, NEW t, t \in Orders \cup {Tracked}
    PROVE  Enumerates(PerRepo(at, t), AboutTracked(at))
<1> DEFINE R == {Tracked[k] : k \in DOMAIN Tracked}
<1>1. /\ Tracked \in Seq(Repo) /\ DOMAIN Tracked = 1..Len(Tracked) /\ Len(Tracked) \in Nat
      /\ \A j, k \in DOMAIN Tracked : Tracked[j] = Tracked[k] => j = k
    BY FetchAssumption
<1>2. Tracked \in [1..Len(Tracked) -> R]
    BY <1>1
<1>3. IsFiniteSet(R) /\ Cardinality(R) = Len(Tracked)
  <2>1. Tracked \in Bijection(1..Len(Tracked), R)
    BY <1>1, <1>2 DEF Bijection, Injection, Surjection, IsInjective
  <2>2. ExistsBijection(1..Len(Tracked), R)
    BY <2>1 DEF ExistsBijection
  <2> QED
    BY <1>1, <2>2, FS_NatBijection, FS_CountingElements
<1>4. t \in [1..Len(Tracked) -> R] /\ \A j, k \in 1..Len(Tracked) : t[j] = t[k] => j = k
  <2>1. CASE t = Tracked
    BY <1>1, <1>2, <2>1
  <2>2. CASE t \in Orders
    <3>1. t \in [DOMAIN Tracked -> R] /\ \A j, k \in DOMAIN t : t[j] = t[k] => j = k
      BY <2>2, Zenon DEF Orders
    <3> HIDE DEF R
    <3>2. t \in [1..Len(Tracked) -> R]
      BY <1>1, <3>1, Zenon
    <3> QED
      BY <3>1, <3>2
  <2> QED
    BY <2>1, <2>2
<1> HIDE DEF R
<1>5. Enumerates(t, R)
    BY <1>1, <1>3, <1>4, InjectionEnumerates
<1> DEFINE p == PerRepo(at, t)
<1>6. p = [k \in 1..Len(Tracked) |-> Ask(at, t[k], None)]
    BY <1>4 DEF PerRepo
<1>7. \A r : r \in R <=> \E k \in DOMAIN Tracked : Tracked[k] = r
    BY DEF R
<1>8. \A r \in R : Ask(at, r, None) \in AboutTracked(at)
    BY <1>7 DEF AboutTracked
<1>9. \A x \in AboutTracked(at) : \E r \in R : x = Ask(at, r, None)
    BY <1>7 DEF AboutTracked
<1> HIDE DEF p
<1>10. p \in Seq(AboutTracked(at))
    BY <1>1, <1>4, <1>6, <1>8
<1>11. ASSUME NEW j \in DOMAIN p, NEW k \in DOMAIN p, p[j] = p[k] PROVE j = k
  <2>1. j \in 1..Len(Tracked) /\ k \in 1..Len(Tracked)
    BY <1>6
  <2>2. Ask(at, t[j], None) = Ask(at, t[k], None)
    BY <1>6, <1>11, <2>1
  <2>3. t[j] = t[k]
    BY <2>2, AskFields
  <2> QED
    BY <1>4, <2>1, <2>3
<1>12. ASSUME NEW x \in AboutTracked(at) PROVE \E k \in DOMAIN p : p[k] = x
  <2>1. PICK r \in R : x = Ask(at, r, None)
    BY <1>9
  <2>2. PICK k \in 1..Len(Tracked) : t[k] = r
    BY <1>4, <1>5 DEF Enumerates
  <2> QED
    BY <1>6, <2>1, <2>2
<1> QED
    BY <1>10, <1>11, <1>12 DEF Enumerates, p

(* Requests that are made only for a requested type.                       *)
LEMMA IfEnumerates ==
    ASSUME NEW type, NEW s, NEW S, Enumerates(s, S)
    PROVE  Enumerates(If(type, s), WhenAsked(type, S))
  BY EnumeratesFew DEF If, WhenAsked

(* A call starts with each of these once, in some order.                   *)
LEMMA AgendasEnumerate ==
    ASSUME TypeInv, NEW c, NEW s \in Agendas(c)
    PROVE  Enumerates(s, FirstAsked(c))
<1>1. \A at : \A q \in AboutTracked(at) : q.at = at
    BY AskFields DEF AboutTracked
<1>3. CASE platform = "github" /\ c = Search
  <2>0. s \in {GitHubSearch(s1, s2) : s1 \in Orders, s2 \in Orders}
    BY <1>3 DEF Agendas
  <2>1. PICK s1 \in Orders, s2 \in Orders : s = GitHubSearch(s1, s2)
    BY <2>0
  <2>2. /\ Enumerates(If("issue", PerRepo("issues", s1)), WhenAsked("issue", AboutTracked("issues")))
        /\ Enumerates(If("merged", PerRepo("merged", s2)), WhenAsked("merged", AboutTracked("merged")))
    BY PerRepoEnumerates, IfEnumerates
  <2>3. WhenAsked("issue", AboutTracked("issues")) \cap WhenAsked("merged", AboutTracked("merged")) = {}
    BY <1>1 DEF WhenAsked
  <2> QED
    BY <1>3, <2>1, <2>2, <2>3, EnumeratesConcat DEF GitHubSearch, FirstAsked
<1>4. CASE platform = "github" /\ c # Search
  <2>1. s = GitHubFetch(c)
    BY <1>4 DEF Agendas
  <2>2. /\ Enumerates(If("commit", <<Ask("commits", c, None)>>), WhenAsked("commit", {Ask("commits", c, None)}))
        /\ Enumerates(If("review", <<Ask("reviewed", c, None)>>), WhenAsked("review", {Ask("reviewed", c, None)}))
    BY EnumeratesFew, IfEnumerates
  <2>3. WhenAsked("commit", {Ask("commits", c, None)}) \cap WhenAsked("review", {Ask("reviewed", c, None)}) = {}
    BY AskFields DEF WhenAsked
  <2> QED
    BY <1>4, <2>1, <2>2, <2>3, EnumeratesConcat DEF GitHubFetch, FirstAsked
<1>5. CASE platform = "gitlab" /\ c = Search
  <2> DEFINE A == WhenAsked("issue", {Ask("issues", None, None)})
             B == WhenAsked("merged", {Ask("merged", None, None)})
             C == WhenAsked("review", AboutTracked("requests"))
  <2>1. s = GitLabSearch
    BY <1>5 DEF Agendas
  <2>2. /\ Enumerates(If("issue", <<Ask("issues", None, None)>>), A)
        /\ Enumerates(If("merged", <<Ask("merged", None, None)>>), B)
        /\ Enumerates(If("review", PerRepo("requests", Tracked)), C)
    BY EnumeratesFew, PerRepoEnumerates, IfEnumerates
  <2>3. A \cap B = {} /\ A \cap C = {} /\ B \cap C = {}
    BY <1>1, AskFields DEF WhenAsked
  <2>4. FirstAsked(c) = (A \cup B) \cup C
    BY <1>5 DEF FirstAsked
  <2> HIDE DEF A, B, C
  <2>5. Enumerates(If("issue", <<Ask("issues", None, None)>>)
                   \o If("merged", <<Ask("merged", None, None)>>), A \cup B)
    BY <2>2, <2>3, EnumeratesConcat
  <2>6. (A \cup B) \cap C = {}
    BY <2>3
  <2> QED
    BY <2>1, <2>2, <2>4, <2>5, <2>6, EnumeratesConcat DEF GitLabSearch
<1>6. CASE platform = "gitlab" /\ c # Search
  <2>1. s = GitLabFetch(c)
    BY <1>6 DEF Agendas
  <2> QED
    BY <1>6, <2>1, EnumeratesFew, IfEnumerates DEF GitLabFetch, FirstAsked
<1> QED
    BY <1>3, <1>4, <1>5, <1>6 DEF TypeInv

(* The requests that follow an answer, as a set.                           *)
Following(q) == IF MorePages(q) THEN {[q EXCEPT !.page = @ + 1]}
                ELSE IF q.at \in Lists THEN {Ask("reviews", q.repo, m) : m \in OnPage(q)}
                ELSE {}

(* They follow each once.                                                  *)
LEMMA FollowUpsEnumerate ==
    ASSUME TypeInv, NEW q
    PROVE  Enumerates(FollowUps(q), Following(q))
<1>1. CASE MorePages(q)
    BY <1>1, EnumeratesFew DEF FollowUps, Following
<1>2. CASE ~MorePages(q) /\ q.at \in Lists
  <2> DEFINE S == OnPage(q)
             found == InTurn(S)
             f == [k \in DOMAIN found |-> Ask("reviews", q.repo, found[k])]
             T == {Ask("reviews", q.repo, m) : m \in S}
  <2>1. Enumerates(found, S)
    BY PageIsSelected, InTurnEnumerates
  <2>2. FollowUps(q) = f /\ Following(q) = T
    BY <1>2 DEF FollowUps, Following
  <2> HIDE DEF found, S
  <2>3. DOMAIN found = 1..Len(found) /\ Len(found) \in Nat /\ \A k \in DOMAIN found : found[k] \in S
    BY <2>1 DEF Enumerates
  <2>4. f = [k \in 1..Len(found) |-> Ask("reviews", q.repo, found[k])]
    BY <2>3
  <2>5. \A m \in S : Ask("reviews", q.repo, m) \in T
    OBVIOUS
  <2>6. \A x \in T : \E m \in S : x = Ask("reviews", q.repo, m)
    OBVIOUS
  <2> HIDE DEF f, T
  <2>7. f \in Seq(T)
    BY <2>3, <2>4, <2>5
  <2>8. ASSUME NEW j \in DOMAIN f, NEW k \in DOMAIN f, f[j] = f[k] PROVE j = k
    <3>1. j \in DOMAIN found /\ k \in DOMAIN found
          /\ Ask("reviews", q.repo, found[j]) = Ask("reviews", q.repo, found[k])
      BY <2>3, <2>4, <2>8
    <3>2. found[j] = found[k]
      BY <3>1, AskFields
    <3> QED
      BY <2>1, <3>1, <3>2 DEF Enumerates
  <2>9. ASSUME NEW x \in T PROVE \E k \in DOMAIN f : f[k] = x
    <3>1. PICK m \in S : x = Ask("reviews", q.repo, m)
      BY <2>6
    <3>2. PICK k \in DOMAIN found : found[k] = m
      BY <2>1 DEF Enumerates
    <3> QED
      BY <2>3, <2>4, <3>1, <3>2
  <2> QED
    BY <2>2, <2>7, <2>8, <2>9 DEF Enumerates
<1>3. CASE ~MorePages(q) /\ q.at \notin Lists
    BY <1>3, EnumeratesFew DEF FollowUps, Following
<1> QED
    BY <1>1, <1>2, <1>3

-----------------------------------------------------------------------------
(* Pages.  The indices up to n at which the server selects something.      *)
Hits(q, n) == {k \in 1..n : Selects(q, listed[k])}

(* They are finitely many, and Selected counts them.                       *)
LEMMA HitsFacts ==
    ASSUME TypeInv, NEW q, NEW n \in 0..Len(listed)
    PROVE  /\ Hits(q, n) \subseteq 1..n /\ IsFiniteSet(Hits(q, n))
           /\ Selected(q, n) = Cardinality(Hits(q, n)) /\ Selected(q, n) \in Nat
<1>1. Hits(q, n) \subseteq 1..n /\ Selected(q, n) = Cardinality(Hits(q, n))
    BY DEF Hits, Selected
<1>2. n \in Nat /\ IsFiniteSet(1..n)
    BY FS_Interval DEF TypeInv
<1>3. IsFiniteSet(Hits(q, n))
    BY <1>1, <1>2, FS_Subset
<1> QED
    BY <1>1, <1>3, FS_CardinalityType

(* The further down the list, the more is selected.                        *)
LEMMA SelectedGrows ==
    ASSUME TypeInv, NEW q, NEW m \in 0..Len(listed), NEW n \in 0..Len(listed), m <= n
    PROVE  /\ Selected(q, m) \in Nat /\ Selected(q, n) \in Nat
           /\ Selected(q, m) <= Selected(q, n)
<1>1. m \in Nat /\ n \in Nat
    BY DEF TypeInv
<1>2. Hits(q, m) \subseteq Hits(q, n)
    BY <1>1 DEF Hits
<1> QED
    BY <1>2, HitsFacts, FS_Subset

(* What is selected is counted.                                            *)
LEMMA SelectedCounts ==
    ASSUME TypeInv, NEW q, NEW n \in DOMAIN listed, Selects(q, listed[n])
    PROVE  Selected(q, n) >= 1
<1>1. n \in 1..Len(listed) /\ n \in 0..Len(listed)
    BY DEF TypeInv
<1>2. n \in Hits(q, n)
    BY <1>1 DEF Hits
<1>3. Selected(q, n) # 0 /\ Selected(q, n) \in Nat
    BY <1>1, <1>2, HitsFacts, FS_EmptySet
<1> QED
    BY <1>3

(* There is no more to select than there is.                               *)
LEMMA SelectedBound ==
    ASSUME TypeInv, \A j, k \in DOMAIN listed : listed[j] = listed[k] => j = k,
           NEW q, NEW S, IsFiniteSet(S), NEW n \in 0..Len(listed),
           \A k \in DOMAIN listed : Selects(q, listed[k]) => listed[k] \in S
    PROVE  Selected(q, n) <= Cardinality(S)
<1>1. DOMAIN listed = 1..Len(listed) /\ Len(listed) \in Nat /\ n \in Nat
    BY DEF TypeInv
<1>2. \A k \in Hits(q, n) : k \in DOMAIN listed /\ listed[k] \in S
    BY <1>1 DEF Hits
<1> DEFINE f == [k \in Hits(q, n) |-> listed[k]]
<1>3. f \in Injection(Hits(q, n), S)
    BY <1>2 DEF Injection, IsInjective
<1>4. Cardinality(Hits(q, n)) <= Cardinality(S)
    BY <1>3, FS_Injection
<1> QED
    BY <1>4, HitsFacts

(* Where a page begins and where it ends.                                  *)
LEMMA PageBounds ==
    ASSUME NEW p \in Nat \ {0}, NEW s \in Nat
    PROVE  /\ (p - 1) * s \in Nat /\ p * s \in Nat
           /\ (p - 1) * s <= p * s
<1>1. p - 1 \in Nat
    OBVIOUS
<1>2. (p - 1) * s \in Nat /\ p * s \in Nat
    BY <1>1
<1>3. (p - 1) * s + s = p * s
    OBVIOUS
<1> QED
    BY <1>2, <1>3

(* What the server selects depends on the request, not on the page of it.  *)
LEMMA SamePages ==
    ASSUME NEW q \in Request, NEW p \in Nat \ {0}
    PROVE  LET r == [q EXCEPT !.page = p] IN
           /\ r \in Request /\ r.page = p
           /\ r.at = q.at /\ r.repo = q.repo /\ r.on = q.on
           /\ \A i : (Selects(r, i) <=> Selects(q, i)) /\ (Keeps(r, i) <=> Keeps(q, i))
           /\ \A n : Selected(r, n) = Selected(q, n)
<1> DEFINE r == [q EXCEPT !.page = p]
<1>1. r \in Request /\ r.page = p /\ r.at = q.at /\ r.repo = q.repo /\ r.on = q.on
    BY DEF Request
<1> HIDE DEF r
<1>2. \A i : Selects(r, i) <=> Selects(q, i)
    BY <1>1 DEF Selects, GitHubSelects, GitLabSelects
<1>3. \A i : Keeps(r, i) <=> Keeps(q, i)
    BY <1>1 DEF Keeps, GitHubKeeps, GitLabKeeps
<1>4. \A n : Selected(r, n) = Selected(q, n)
    BY <1>2 DEF Selected
<1> QED
    BY <1>1, <1>2, <1>3, <1>4 DEF r

-----------------------------------------------------------------------------
(* What follows an answer, request by request.                             *)
LEMMA FollowingFacts ==
    ASSUME TypeInv, NEW q \in Request, NEW r \in Following(q)
    PROVE  \/ MorePages(q) /\ r = [q EXCEPT !.page = @ + 1]
           \/ /\ ~MorePages(q) /\ q.at \in Lists
              /\ \E m \in OnPage(q) : r = Ask("reviews", q.repo, m)
BY DEF Following

(* The pages a call starts with are the first.                             *)
LEMMA FirstPages ==
    ASSUME NEW c, NEW q \in FirstAsked(c)
    PROVE  q.page = 1
BY AskFields DEF FirstAsked, WhenAsked, AboutTracked

(* Where the requests come from that are left after an answer.             *)
LEMMA AgendaAfter ==
    ASSUME TypeInv, Answered
    PROVE  LET q == Head(agenda)
               f == FollowUps(q) IN
           /\ agenda # <<>> /\ q \in Request /\ q = agenda[1] /\ 1 \in DOMAIN agenda
           /\ agenda' = f \o Tail(agenda)
           /\ Enumerates(f, Following(q))
           /\ \A k \in DOMAIN agenda' :
                 \/ k \in DOMAIN f /\ agenda'[k] = f[k]
                 \/ /\ k \notin DOMAIN f /\ k - Len(f) + 1 \in DOMAIN agenda \ {1}
                    /\ agenda'[k] = agenda[k - Len(f) + 1]
           /\ \A k \in DOMAIN f : k \in DOMAIN agenda' /\ agenda'[k] = f[k]
           /\ \A k \in DOMAIN agenda \ {1} :
                 k - 1 + Len(f) \in DOMAIN agenda' /\ agenda'[k - 1 + Len(f)] = agenda[k]
           /\ \A j, k \in DOMAIN agenda' : j - Len(f) + 1 = k - Len(f) + 1 => j = k
<1> DEFINE q == Head(agenda)
           f == FollowUps(q)
           t == Tail(agenda)
<1>1. /\ agenda # <<>> /\ agenda \in Seq(Request) /\ q \in Request /\ q = agenda[1]
      /\ 1 \in DOMAIN agenda /\ agenda' = f \o t
    BY DEF Answered, TypeInv
<1>2. Enumerates(f, Following(q)) /\ f \in Seq(Following(q))
    BY FollowUpsEnumerate DEF Enumerates
<1>3. t \in Seq(Request) /\ Len(t) = Len(agenda) - 1 /\ DOMAIN agenda = 1..Len(agenda)
      /\ DOMAIN t = 1..Len(t) /\ Len(agenda) \in Nat
      /\ \A k \in DOMAIN t : t[k] = agenda[k + 1]
    BY <1>1
<1> HIDE DEF q, f, t
<1>4. /\ \A k \in DOMAIN (f \o t) :
            \/ k \in DOMAIN f /\ (f \o t)[k] = f[k]
            \/ k \notin DOMAIN f /\ k - Len(f) \in DOMAIN t /\ (f \o t)[k] = t[k - Len(f)]
      /\ \A k \in DOMAIN f : k \in DOMAIN (f \o t) /\ (f \o t)[k] = f[k]
      /\ \A k \in DOMAIN t : k + Len(f) \in DOMAIN (f \o t) /\ (f \o t)[k + Len(f)] = t[k]
      /\ DOMAIN (f \o t) \subseteq Nat /\ Len(f) \in Nat
  <2>1. f \o t \in Seq(Following(q) \cup Request)
    BY <1>2, <1>3, ConcatFacts
  <2> QED
    BY <1>2, <1>3, <2>1, ConcatFacts
<1>5. ASSUME NEW k \in DOMAIN agenda'
      PROVE  \/ k \in DOMAIN f /\ agenda'[k] = f[k]
             \/ /\ k \notin DOMAIN f /\ k - Len(f) + 1 \in DOMAIN agenda \ {1}
                /\ agenda'[k] = agenda[k - Len(f) + 1]
  <2>1. CASE k \in DOMAIN f /\ agenda'[k] = f[k]
    BY <2>1
  <2>2. CASE k \notin DOMAIN f /\ k - Len(f) \in DOMAIN t /\ agenda'[k] = t[k - Len(f)]
    BY <1>3, <2>2
  <2> QED
    BY <1>1, <1>4, <2>1, <2>2
<1>6. ASSUME NEW k \in DOMAIN agenda \ {1}
      PROVE  k - 1 + Len(f) \in DOMAIN agenda' /\ agenda'[k - 1 + Len(f)] = agenda[k]
  <2>1. k - 1 \in DOMAIN t /\ t[k - 1] = agenda[k]
    BY <1>3
  <2> QED
    BY <1>1, <1>4, <2>1
<1>7. \A j, k \in DOMAIN agenda' : j - Len(f) + 1 = k - Len(f) + 1 => j = k
    BY <1>1, <1>4
<1> QED
    BY <1>1, <1>2, <1>4, <1>5, <1>6, <1>7 DEF q, f, t

-----------------------------------------------------------------------------
(* The page that follows is one that there is.                             *)
LEMMA FollowingPages ==
    ASSUME TypeInv, PagesInv, NEW q \in Request, NEW r \in Following(q)
    PROVE  /\ (r.page - 1) * PageSize <= Cardinality(Item)
           /\ r.at \notin Paged => r.page = 1
<1>0. PageSize \in Nat /\ Cardinality(Item) \in Nat
    BY FetchAssumption, FS_CardinalityType
<1>1. CASE MorePages(q) /\ r = [q EXCEPT !.page = @ + 1]
  <2>1. q.page \in Nat /\ r.page = q.page + 1 /\ r.at = q.at
    BY <1>1 DEF Request
  <2>2. q.at \in Paged /\ q.page * PageSize < Selected(q, Len(listed))
    BY <1>1 DEF MorePages
  <2>3. Len(listed) \in 0..Len(listed) /\ \A k \in DOMAIN listed : listed[k] \in Item
    BY DEF TypeInv
  <2>4. Selected(q, Len(listed)) <= Cardinality(Item) /\ Selected(q, Len(listed)) \in Nat
    BY <2>3, SelectedBound, HitsFacts, FetchAssumption DEF PagesInv
  <2>5. q.page * PageSize <= Cardinality(Item)
    BY <1>0, <2>1, <2>2, <2>4
  <2>6. r.page - 1 = q.page
    BY <2>1
  <2> QED
    BY <2>1, <2>2, <2>5, <2>6
<1>2. CASE \E m \in OnPage(q) : r = Ask("reviews", q.repo, m)
  <2>1. r.page - 1 = 0
    BY <1>2, AskFields
  <2> QED
    BY <1>0, <1>2, <2>1, AskFields
<1> QED
    BY <1>1, <1>2, FollowingFacts

(* The fetch starts with no page to read.                                  *)
LEMMA InitPages == Init => PagesInv
<1> SUFFICES ASSUME Init PROVE PagesInv
    OBVIOUS
<1>1. Len(Calls) \in Nat /\ MaxChanges \in Nat
    BY TrackedFacts, FetchAssumption
<1>2. old \subseteq Item
    BY DEF Init, Listed
<1>3. /\ types \subseteq Type /\ changes = 0 /\ removed = FALSE /\ next = 1 /\ agenda = <<>>
      /\ \A j, k \in DOMAIN listed : listed[j] = listed[k] => j = k
    BY DEF Init
<1>4. changes \in 0..MaxChanges /\ next <= Len(Calls) + 1
    BY <1>1, <1>3
<1>5. removed \in BOOLEAN
    BY <1>3
<1>6. DOMAIN agenda = {}
    BY <1>3
<1> QED
    BY <1>2, <1>3, <1>4, <1>5, <1>6, Zenon DEF PagesInv

(* What the worker does to its agenda leaves it with pages that there are. *)
LEMMA WorkerPages ==
    FetchInv /\ PagesInv /\ (Start \/ Answered \/ Fails \/ Returns) => PagesInv'
<1> SUFFICES ASSUME FetchInv, PagesInv, Start \/ Answered \/ Fails \/ Returns PROVE PagesInv'
    OBVIOUS
<1>1. TypeInv /\ UNCHANGED <<query, server>> /\ Paged' = Paged /\ Calls' = Calls
    BY DEF Start, Answered, Fails, Returns, Paged, query, Calls, FetchInv
<1>2. next' <= Len(Calls) + 1
  <2>1. next \in Nat /\ Len(Calls) \in Nat
    BY <1>1, TrackedFacts DEF TypeInv
  <2>2. \/ next <= Len(Calls) /\ next' = next + 1
        \/ next' = next
    BY DEF Start, Answered, Fails, Returns
  <2> QED
    BY <2>1, <2>2 DEF PagesInv
<1>3. ASSUME NEW k \in DOMAIN agenda'
      PROVE  /\ (agenda'[k].page - 1) * PageSize <= Cardinality(Item)
             /\ agenda'[k].at \notin Paged => agenda'[k].page = 1
  <2>0. PageSize \in Nat /\ Cardinality(Item) \in Nat
    BY FetchAssumption, FS_CardinalityType
  <2>1. CASE Start
    <3>1. PICK s \in Agendas(Calls[next]) : agenda' = s
      BY <2>1 DEF Start
    <3>2. s[k] \in FirstAsked(Calls[next])
      BY <1>1, <1>3, <3>1, AgendasEnumerate DEF Enumerates
    <3>3. agenda'[k].page = 1
      BY <3>1, <3>2, FirstPages
    <3>4. agenda'[k].page - 1 = 0
      BY <3>3
    <3> QED
      BY <2>0, <3>3, <3>4
  <2>2. CASE Answered
    <3> DEFINE q == Head(agenda)
               f == FollowUps(q)
    <3>1. /\ q \in Request /\ Enumerates(f, Following(q))
          /\ \/ k \in DOMAIN f /\ agenda'[k] = f[k]
             \/ k - Len(f) + 1 \in DOMAIN agenda /\ agenda'[k] = agenda[k - Len(f) + 1]
      BY <1>1, <1>3, <2>2, AgendaAfter
    <3> HIDE DEF q, f
    <3>2. CASE k \in DOMAIN f /\ agenda'[k] = f[k]
      <4>1. f[k] \in Following(q)
        BY <3>1, <3>2 DEF Enumerates
      <4> QED
        BY <1>1, <3>1, <3>2, <4>1, FollowingPages
    <3>3. CASE k - Len(f) + 1 \in DOMAIN agenda /\ agenda'[k] = agenda[k - Len(f) + 1]
      BY <3>3 DEF PagesInv
    <3> QED
      BY <3>1, <3>2, <3>3
  <2>3. CASE Fails \/ Returns
    <3>1. agenda' = <<>>
      BY <2>3 DEF Fails, Returns
    <3> QED
      BY <1>3, <3>1
  <2> QED
    BY <2>1, <2>2, <2>3
<1> QED
    BY <1>1, <1>2, <1>3 DEF PagesInv, query, server

(* A sequence without its v-th element.                                    *)
Without(s, v) == SubSeq(s, 1, v - 1) \o SubSeq(s, v + 1, Len(s))

(* What was behind it moves up by one.                                     *)
LEMMA WithoutFacts ==
    ASSUME NEW S, NEW s \in Seq(S), NEW v \in 1..Len(s)
    PROVE  /\ Without(s, v) \in Seq(S) /\ Len(Without(s, v)) = Len(s) - 1
           /\ \A n \in 1..(v - 1) : Without(s, v)[n] = s[n]
           /\ \A n \in v..(Len(s) - 1) : Without(s, v)[n] = s[n + 1]
<1> DEFINE a == SubSeq(s, 1, v - 1)
           b == SubSeq(s, v + 1, Len(s))
           u == Without(s, v)
<1>1. Len(s) \in Nat /\ v \in Nat /\ v >= 1 /\ v <= Len(s) /\ \A n \in 1..Len(s) : s[n] \in S
    OBVIOUS
<1>2. a \in Seq(S) /\ Len(a) = v - 1 /\ \A n \in 1..(v - 1) : a[n] = s[n]
    BY <1>1, SubSeqProperties
<1>3. b \in Seq(S) /\ Len(b) = Len(s) - v /\ \A n \in 1..(Len(s) - v) : b[n] = s[v + n]
    BY <1>1, SubSeqProperties
<1> HIDE DEF a, b
<1>4. /\ u \in Seq(S) /\ Len(u) = Len(a) + Len(b)
      /\ \A n \in 1..(Len(a) + Len(b)) : u[n] = IF n <= Len(a) THEN a[n] ELSE b[n - Len(a)]
  <2>1. u = a \o b
    BY DEF Without, a, b
  <2>2. /\ a \o b \in Seq(S) /\ Len(a \o b) = Len(a) + Len(b)
        /\ \A n \in 1..(Len(a) + Len(b)) : (a \o b)[n] = IF n <= Len(a) THEN a[n] ELSE b[n - Len(a)]
    BY <1>2, <1>3, ConcatProperties
  <2> QED
    BY <2>1, <2>2, Zenon
<1> HIDE DEF u
<1>5. ASSUME NEW n \in 1..(v - 1) PROVE u[n] = s[n]
  <2>1. n \in 1..(Len(a) + Len(b)) /\ n <= Len(a)
    BY <1>1, <1>2, <1>3
  <2>2. u[n] = a[n]
    BY <1>4, <2>1
  <2> QED
    BY <1>2, <2>2
<1>6. ASSUME NEW n \in v..(Len(s) - 1) PROVE u[n] = s[n + 1]
  <2>1. u[n] = b[n - (v - 1)]
    <3>1. n \in 1..(Len(a) + Len(b)) /\ ~(n <= Len(a)) /\ n - Len(a) = n - (v - 1)
      BY <1>1, <1>2, <1>3
    <3> QED
      BY <1>4, <3>1
  <2>2. n - (v - 1) \in 1..(Len(s) - v)
    BY <1>1
  <2>3. b[n - (v - 1)] = s[v + (n - (v - 1))]
    BY <1>3, <2>2
  <2>4. v + (n - (v - 1)) = n + 1
    BY <1>1
  <2> QED
    BY <2>1, <2>3, <2>4
<1>7. Len(u) = Len(s) - 1
    BY <1>1, <1>2, <1>3, <1>4
<1> QED
    BY <1>4, <1>5, <1>6, <1>7 DEF u

(* What appears or vanishes leaves no item listed twice.                   *)
LEMMA ServerPages ==
    ASSUME FetchInv, PagesInv, NEW i \in Item, Appears(i) \/ Vanishes(i)
    PROVE  PagesInv'
<1>1. UNCHANGED <<query, next, agenda>> /\ Paged' = Paged /\ Calls' = Calls
    BY DEF Appears, Vanishes, Paged, query, Calls
<1>2. listed \in Seq(Item) /\ DOMAIN listed = 1..Len(listed) /\ Len(listed) \in Nat
      /\ \A j, k \in DOMAIN listed : listed[j] = listed[k] => j = k
    BY DEF FetchInv, TypeInv, PagesInv
<1>3. changes' \in 0..MaxChanges /\ removed' \in BOOLEAN
  <2>1. changes < MaxChanges /\ changes' = changes + 1
    BY DEF Appears, Vanishes
  <2>2. removed' \in BOOLEAN
    BY Zenon DEF Appears, Vanishes, PagesInv
  <2> QED
    BY <2>1, <2>2, FetchAssumption DEF PagesInv
<1>4. ASSUME NEW j \in DOMAIN listed', NEW k \in DOMAIN listed', listed'[j] = listed'[k]
      PROVE  j = k
  <2>1. CASE Appears(i)
    <3>1. listed' = <<i>> \o listed /\ \A n \in DOMAIN listed : listed[n] # i
      BY <2>1 DEF Appears, Listed
    <3>2. \A n \in DOMAIN listed' :
             \/ n = 1 /\ listed'[n] = i
             \/ n - 1 \in DOMAIN listed /\ n \in Int /\ listed'[n] = listed[n - 1]
      BY <1>2, <3>1
    <3> QED
      BY <1>2, <1>4, <3>1, <3>2
  <2>2. CASE Vanishes(i)
    <3>1. PICK v \in DOMAIN listed : listed' = Without(listed, v)
      BY <2>2 DEF Vanishes, Without
    <3>2. \A n \in DOMAIN listed' :
             \/ n \in Int /\ n < v /\ n \in DOMAIN listed /\ listed'[n] = listed[n]
             \/ n \in Int /\ n >= v /\ n + 1 \in DOMAIN listed /\ listed'[n] = listed[n + 1]
      <4>0. v \in 1..Len(listed)
        BY <1>2
      <4>1. /\ listed' \in Seq(Item) /\ Len(listed') = Len(listed) - 1
            /\ \A n \in 1..(v - 1) : listed'[n] = listed[n]
            /\ \A n \in v..(Len(listed) - 1) : listed'[n] = listed[n + 1]
        <5>1. listed \in Seq(Item)
          BY <1>2
        <5>2. /\ Without(listed, v) \in Seq(Item) /\ Len(Without(listed, v)) = Len(listed) - 1
              /\ \A n \in 1..(v - 1) : Without(listed, v)[n] = listed[n]
              /\ \A n \in v..(Len(listed) - 1) : Without(listed, v)[n] = listed[n + 1]
          BY <4>0, <5>1, WithoutFacts
        <5> QED
          BY <3>1, <5>2
      <4>2. DOMAIN listed' = 1..(Len(listed) - 1)
        BY <1>2, <4>1
      <4> QED
        BY <1>2, <4>0, <4>1, <4>2
    <3> QED
      BY <1>2, <1>4, <3>2
  <2> QED
    BY <2>1, <2>2
<1> QED
    BY <1>1, <1>3, <1>4 DEF PagesInv, query

(* Every step keeps the pages.                                             *)
LEMMA NextPages == FetchInv /\ PagesInv /\ [Next]_vars => PagesInv'
<1>1. ASSUME FetchInv, PagesInv, UNCHANGED vars PROVE PagesInv'
    BY <1>1 DEF PagesInv, vars, query, server, Paged, Calls
<1> QED
    BY <1>1, WorkerPages, ServerPages DEF Next

(* Both invariants hold throughout.                                        *)
LEMMA FetchCorrect == Spec => [](FetchInv /\ PagesInv)
<1>1. Init => FetchInv /\ PagesInv
    BY InitFetchInv, InitPages
<1>2. FetchInv /\ PagesInv /\ [Next]_vars => (FetchInv /\ PagesInv)'
    BY NextFetchInv, NextPages
<1> QED
    BY <1>1, <1>2, PTL DEF Spec

(* The fetcher's variables have their types; counts are never negative,    *)
(* and however the pages shift, none is asked for beyond the last that     *)
(* there can be.                                                           *)
THEOREM FetchTypes == Spec => []TypeOK
<1>1. FetchInv /\ PagesInv => TypeOK
  <2> SUFFICES ASSUME FetchInv, PagesInv PROVE TypeOK
      OBVIOUS
  <2>1. Started \subseteq {Calls[k] : k \in DOMAIN Calls}
    BY DEF Started
  <2>2. next \in 1..(Len(Calls) + 1)
    BY TrackedFacts DEF FetchInv, TypeInv, PagesInv
  <2> QED
    BY <2>1, <2>2 DEF FetchInv, TypeInv, ReportInv, PagesInv, TypeOK
<1> QED
    BY <1>1, FetchCorrect, PTL

-----------------------------------------------------------------------------
(* The requests a call starts with: one for an endpoint and a repository,  *)
(* or one for an endpoint that GitLab searches as a whole.                 *)
LEMMA FirstAskedFacts ==
    ASSUME TypeInv, NEW c, NEW q \in FirstAsked(c)
    PROVE  /\ q = Ask(q.at, q.repo, None)
           /\ q.at \in Endpoint \ {"reviews"}
           /\ q.at = "reviewed" => platform = "github"
           /\ q.at = "requests" => platform = "gitlab"
           /\ platform = "gitlab" /\ q.at \in {"issues", "merged"} => q.repo = None
<1>1. platform \in {"github", "gitlab"}
    BY DEF TypeInv
<1>2. PICK at, r : /\ q = Ask(at, r, None) /\ at \in Endpoint \ {"reviews"}
                   /\ at = "reviewed" => platform = "github"
                   /\ at = "requests" => platform = "gitlab"
                   /\ platform = "gitlab" /\ at \in {"issues", "merged"} => r = None
    BY <1>1 DEF FirstAsked, WhenAsked, AboutTracked, Endpoint
<1> QED
    BY <1>2, AskFields

(* An item is claimed at the endpoint of its kind, and in its repository   *)
(* where the endpoint is about one.                                        *)
LEMMA ClaimsKind ==
    ASSUME TypeInv, NEW i \in Item, NEW q, q.at \in Endpoint \ {"reviews"},
           q.at = "reviewed" => platform = "github",
           q.at = "requests" => platform = "gitlab",
           Claims(q, i)
    PROVE  /\ q.at = CASE what[i].kind = "commit" -> "commits"
                       [] what[i].kind = "issue" -> "issues"
                       [] what[i].kind = "merged" -> "merged"
                       [] what[i].kind = "review" ->
                             IF platform = "github" THEN "reviewed" ELSE "requests"
           /\ ~(platform = "gitlab" /\ q.at \in {"issues", "merged"}) => q.repo = what[i].repo
<1>1. platform \in {"github", "gitlab"}
    BY DEF TypeInv
<1>2. CASE q.at \in Lists
    BY <1>1, <1>2 DEF Claims, Lists
<1>3. CASE q.at \notin Lists
    BY <1>1, <1>3 DEF Claims, Lists, Endpoint, Selects, GitHubSelects, GitLabSelects, Mine
<1> QED
    BY <1>2, <1>3

(* So two requests that a call starts with do not claim the same.          *)
LEMMA FirstClaims ==
    ASSUME TypeInv, NEW c, NEW q \in FirstAsked(c), NEW r \in FirstAsked(c),
           NEW i \in Item, Claims(q, i), Claims(r, i)
    PROVE  q = r
<1>1. /\ q = Ask(q.at, q.repo, None) /\ q.at \in Endpoint \ {"reviews"}
      /\ q.at = "reviewed" => platform = "github"
      /\ q.at = "requests" => platform = "gitlab"
      /\ platform = "gitlab" /\ q.at \in {"issues", "merged"} => q.repo = None
    BY FirstAskedFacts
<1>2. /\ r = Ask(r.at, r.repo, None) /\ r.at \in Endpoint \ {"reviews"}
      /\ r.at = "reviewed" => platform = "github"
      /\ r.at = "requests" => platform = "gitlab"
      /\ platform = "gitlab" /\ r.at \in {"issues", "merged"} => r.repo = None
    BY FirstAskedFacts
<1>3. q.at = r.at /\ q.repo = r.repo
    BY <1>1, <1>2, ClaimsKind
<1> QED
    BY <1>1, <1>2, <1>3

(* What a request keeps of its page it had claimed.                        *)
LEMMA KeptIsClaimed ==
    ASSUME TypeInv, NEW q, NEW i \in OnPage(q), Keeps(q, i)
    PROVE  Claims(q, i)
<1>1. q.at \notin Lists
    BY DEF Keeps, GitHubKeeps, GitLabKeeps
<1>2. Selects(q, i) /\ Ahead(q, i)
    BY DEF OnPage, Ahead
<1> QED
    BY <1>1, <1>2 DEF Claims

(* What a following request claims, the request before it claimed but did  *)
(* not collect.                                                            *)
LEMMA FollowingClaims ==
    ASSUME TypeInv, PagesInv, NEW q \in Request, NEW r \in Following(q),
           NEW i \in Item, Claims(r, i)
    PROVE  /\ Claims(q, i)
           /\ ~(i \in OnPage(q) /\ Keeps(q, i))
           /\ MorePages(q) \/ r = Ask("reviews", q.repo, what[i].on)
<1>1. CASE MorePages(q) /\ r = [q EXCEPT !.page = @ + 1]
  <2>1. q.at \notin Lists
    BY <1>1 DEF MorePages, Paged, Lists
  <2>2. q.page \in Nat \ {0} /\ q.page + 1 \in Nat \ {0} /\ PageSize \in Nat
    BY FetchAssumption DEF Request
  <2>3. /\ r = [q EXCEPT !.page = q.page + 1]
        /\ r.at = q.at /\ r.page = q.page + 1
        /\ \A j : (Selects(r, j) <=> Selects(q, j)) /\ (Keeps(r, j) <=> Keeps(q, j))
        /\ \A n : Selected(r, n) = Selected(q, n)
    BY <1>1, <2>2, SamePages
  <2>4. Selects(q, i) /\ Keeps(q, i)
        /\ \E n \in DOMAIN listed : listed[n] = i /\ (r.page - 1) * PageSize < Selected(r, n)
    BY <2>1, <2>3 DEF Claims, Ahead
  <2>5. PICK n \in DOMAIN listed : listed[n] = i /\ q.page * PageSize < Selected(q, n)
    <3>1. r.page - 1 = q.page
      BY <2>2, <2>3
    <3> QED
      BY <2>3, <2>4, <3>1
  <2>6. /\ Selected(q, n) \in Nat /\ q.page * PageSize \in Nat
        /\ (q.page - 1) * PageSize \in Nat /\ (q.page - 1) * PageSize <= q.page * PageSize
    <3>1. n \in 0..Len(listed)
      BY DEF TypeInv
    <3> QED
      BY <2>2, <3>1, HitsFacts, PageBounds
  <2>7. Ahead(q, i)
    BY <2>5, <2>6 DEF Ahead
  <2>8. i \notin OnPage(q)
    BY <2>5, <2>6 DEF OnPage, PagesInv
  <2> QED
    BY <1>1, <2>1, <2>4, <2>7, <2>8 DEF Claims
<1>2. CASE ~MorePages(q) /\ q.at \in Lists /\ \E m \in OnPage(q) : r = Ask("reviews", q.repo, m)
  <2>1. PICK m \in OnPage(q) : r = Ask("reviews", q.repo, m)
    BY <1>2
  <2>2. r.at = "reviews" /\ r.on = m
    BY <2>1, AskFields
  <2>3. what[i].kind = "review" /\ what[i].on = m
    BY <2>2 DEF Claims, Lists, Selects, GitHubSelects, GitLabSelects
  <2>4. what[m].repo = q.repo
    BY <1>2, PageIsSelected DEF Selects, GitHubSelects, GitLabSelects, Lists
  <2>5. what[i].repo = q.repo
    BY <2>3, <2>4 DEF TypeInv, WellFormed
  <2>6. ~Keeps(q, i)
    BY <1>2 DEF Keeps, GitHubKeeps, GitLabKeeps
  <2> QED
    BY <1>2, <2>1, <2>3, <2>5, <2>6 DEF Claims
<1> QED
    BY <1>1, <1>2, FollowingFacts

(* As long as the server stands still, so do the claims.                   *)
LEMMA ClaimsFrame ==
    ASSUME UNCHANGED <<query, server>>, NEW q, NEW i
    PROVE  Claims(q, i)' <=> Claims(q, i)
BY DEF query, server, Claims, Lists, Selects, GitHubSelects, GitLabSelects, Mine, Keeps,
    GitHubKeeps, GitLabKeeps, IsTracked, Ahead, Selected, Listed

(* Nothing is claimed before the first call.                               *)
LEMMA InitOnce == Init => OnceInv
BY DEF Init, Nothing, OnceInv

(* A call starts with claims that are apart.                               *)
LEMMA StartOnce == FetchInv /\ PagesInv /\ OnceInv /\ Start => OnceInv'
<1> SUFFICES ASSUME FetchInv, OnceInv, Start, changes' = 0 PROVE OnceInv'
    BY DEF OnceInv
<1>1. TypeInv /\ UNCHANGED <<query, server>> /\ changes = 0 /\ report' = report
      /\ batch' = Nothing
    BY DEF Start, FetchInv, server
<1>2. PICK s \in Agendas(Calls[next]) : agenda' = s
    BY DEF Start
<1>3. Enumerates(s, FirstAsked(Calls[next]))
    BY <1>1, AgendasEnumerate
<1>4. ASSUME NEW i \in Item, NEW j \in DOMAIN agenda', NEW k \in DOMAIN agenda',
             Claims(agenda'[j], i), Claims(agenda'[k], i)
      PROVE  j = k
  <2>1. s[j] \in FirstAsked(Calls[next]) /\ s[k] \in FirstAsked(Calls[next])
    BY <1>2, <1>3, <1>4 DEF Enumerates
  <2>2. s[j] = s[k]
    BY <1>1, <1>2, <1>4, <2>1, FirstClaims
  <2> QED
    BY <1>2, <1>3, <1>4, <2>2 DEF Enumerates
<1>5. \A i \in Item : batch'[i] = 0 /\ report'[i] <= 1
    BY <1>1 DEF OnceInv, Nothing
<1> QED
    BY <1>1, <1>4, <1>5, ClaimsFrame DEF OnceInv

(* What an answer brings is claimed no more, and the claims stay apart.    *)
LEMMA AnsweredOnce == FetchInv /\ PagesInv /\ OnceInv /\ Answered => OnceInv'
<1> SUFFICES ASSUME FetchInv, PagesInv, OnceInv, Answered, changes' = 0 PROVE OnceInv'
    BY DEF OnceInv
<1> DEFINE q == Head(agenda)
           f == FollowUps(q)
           kept == {i \in OnPage(q) : Keeps(q, i)}
<1>1. TypeInv /\ UNCHANGED <<query, server>> /\ changes = 0 /\ report' = report
      /\ batch' = [i \in Item |-> IF i \in kept THEN batch[i] + 1 ELSE batch[i]]
      /\ batch \in [Item -> Nat]
    BY DEF Answered, FetchInv, TypeInv, server
<1>2. /\ q \in Request /\ q = agenda[1] /\ 1 \in DOMAIN agenda
      /\ Enumerates(f, Following(q))
      /\ \A k \in DOMAIN agenda' :
            \/ k \in DOMAIN f /\ agenda'[k] = f[k]
            \/ /\ k \notin DOMAIN f /\ k - Len(f) + 1 \in DOMAIN agenda \ {1}
               /\ agenda'[k] = agenda[k - Len(f) + 1]
      /\ \A j, k \in DOMAIN agenda' : j - Len(f) + 1 = k - Len(f) + 1 => j = k
    BY <1>1, AgendaAfter
<1>3. \A i \in kept : i \in Item /\ Claims(q, i)
    BY <1>1, KeptIsClaimed, PageIsSelected
<1> HIDE DEF kept, q, f
<1>4. \A k \in DOMAIN f : \A i \in Item : Claims(f[k], i) => Claims(q, i) /\ i \notin kept
  <2>1. \A k \in DOMAIN f : f[k] \in Following(q)
    BY <1>2 DEF Enumerates
  <2> QED
    BY <1>1, <1>2, <2>1, FollowingClaims DEF kept
<1>5. \A j, k \in DOMAIN f : \A i \in Item : Claims(f[j], i) /\ Claims(f[k], i) => j = k
  <2> SUFFICES ASSUME NEW j \in DOMAIN f, NEW k \in DOMAIN f, NEW i \in Item,
                      Claims(f[j], i), Claims(f[k], i)
               PROVE  j = k
    OBVIOUS
  <2>1. f[j] \in Following(q) /\ f[k] \in Following(q)
    BY <1>2 DEF Enumerates
  <2>2. f[j] = f[k]
    <3>1. /\ MorePages(q) \/ f[j] = Ask("reviews", q.repo, what[i].on)
          /\ MorePages(q) \/ f[k] = Ask("reviews", q.repo, what[i].on)
      BY <1>1, <1>2, <2>1, FollowingClaims
    <3>2. MorePages(q) => f[j] = [q EXCEPT !.page = @ + 1] /\ f[k] = [q EXCEPT !.page = @ + 1]
      BY <2>1 DEF Following
    <3> QED
      BY <3>1, <3>2
  <2> QED
    BY <1>2, <2>2 DEF Enumerates
<1>6. \A i \in Item : /\ batch[i] <= 1 /\ report[i] <= 1
                      /\ \A k \in DOMAIN agenda : Claims(agenda[k], i) => batch[i] = 0
                      /\ \A j, k \in DOMAIN agenda :
                            Claims(agenda[j], i) /\ Claims(agenda[k], i) => j = k
    BY <1>1 DEF OnceInv
<1>7. \A i \in Item : batch'[i] <= 1
    BY <1>1, <1>2, <1>3, <1>6
<1>8. ASSUME NEW i \in Item, NEW k \in DOMAIN agenda', Claims(agenda'[k], i)
      PROVE  batch'[i] = 0
  <2>1. CASE k \in DOMAIN f /\ agenda'[k] = f[k]
    BY <1>1, <1>2, <1>4, <1>6, <1>8, <2>1
  <2>2. CASE k - Len(f) + 1 \in DOMAIN agenda \ {1} /\ agenda'[k] = agenda[k - Len(f) + 1]
    BY <1>1, <1>2, <1>3, <1>6, <1>8, <2>2
  <2> QED
    BY <1>2, <2>1, <2>2
<1>9. ASSUME NEW i \in Item, NEW j \in DOMAIN agenda', NEW k \in DOMAIN agenda',
             Claims(agenda'[j], i), Claims(agenda'[k], i)
      PROVE  j = k
  <2> DEFINE InF(n) == n \in DOMAIN f /\ agenda'[n] = f[n] /\ Claims(q, i)
             InT(n) == n - Len(f) + 1 \in DOMAIN agenda \ {1} /\ agenda'[n] = agenda[n - Len(f) + 1]
  <2>1. (InF(j) \/ InT(j)) /\ (InF(k) \/ InT(k))
    BY <1>2, <1>4, <1>9
  <2>2. CASE InF(j) /\ InF(k)
    BY <1>5, <1>9, <2>2
  <2>3. CASE InT(j) /\ InT(k)
    BY <1>2, <1>6, <1>9, <2>3
  <2>4. CASE InF(j) /\ InT(k)
    BY <1>2, <1>6, <1>9, <2>4
  <2>5. CASE InT(j) /\ InF(k)
    BY <1>2, <1>6, <1>9, <2>5
  <2> QED
    BY <2>1, <2>2, <2>3, <2>4, <2>5
<1> QED
    BY <1>1, <1>6, <1>7, <1>8, <1>9, ClaimsFrame DEF OnceInv

(* Every step keeps the counts; a server that changes ends the promise.    *)
LEMMA NextOnce == FetchInv /\ PagesInv /\ OnceInv /\ [Next]_vars => OnceInv'
<1> SUFFICES ASSUME FetchInv, PagesInv, OnceInv, [Next]_vars PROVE OnceInv'
    OBVIOUS
<1>1. CASE Fails
    BY <1>1 DEF Fails, OnceInv, Nothing, server
<1>2. CASE Returns
  <2> SUFFICES ASSUME changes' = 0 PROVE OnceInv'
    BY DEF OnceInv
  <2>1. changes = 0 /\ agenda' = <<>> /\ batch' = Nothing
        /\ report' = [i \in Item |-> report[i] + batch[i]]
    BY <1>2 DEF Returns, server
  <2>2. ASSUME NEW i \in Item PROVE report'[i] <= 1
    <3>1. report[i] \in Nat /\ batch[i] \in Nat /\ report[i] <= 1 /\ batch[i] <= 1
      BY <2>1 DEF FetchInv, TypeInv, OnceInv
    <3>2. ~(report[i] > 0 /\ batch[i] > 0)
      BY DEF FetchInv, ReportInv, BatchInv
    <3> QED
      BY <2>1, <3>1, <3>2
  <2> QED
    BY <2>1, <2>2 DEF OnceInv, Nothing
<1>3. ASSUME NEW i \in Item, Appears(i) \/ Vanishes(i) PROVE OnceInv'
  <2>1. changes' # 0
    BY <1>3 DEF Appears, Vanishes, PagesInv
  <2> QED
    BY <2>1 DEF OnceInv
<1>4. CASE UNCHANGED vars
    BY <1>4, ClaimsFrame DEF OnceInv, vars, server
<1> QED
    BY <1>1, <1>2, <1>3, <1>4, StartOnce, AnsweredOnce DEF Next

(* On a server that stands still, no activity is counted twice: no two     *)
(* requests of a call collect the same item, and no two calls report it.   *)
THEOREM EachCountedOnce == Spec => []CountedOnce
<1>1. OnceInv => CountedOnce
    BY DEF OnceInv, CountedOnce
<1> QED
    BY <1>1, FetchCorrect, InitOnce, NextOnce, PTL DEF Spec

-----------------------------------------------------------------------------
(* A first page is ahead of whatever is listed and selected.               *)
LEMMA FirstPageAhead ==
    ASSUME TypeInv, NEW i \in Listed, NEW q, q.page = 1, Selects(q, i)
    PROVE  Ahead(q, i)
<1>1. PICK n \in DOMAIN listed : listed[n] = i
    BY DEF Listed
<1>2. Selected(q, n) >= 1 /\ Selected(q, n) \in Nat
  <2>1. n \in 0..Len(listed)
    BY DEF TypeInv
  <2> QED
    BY <1>1, <2>1, SelectedCounts, HitsFacts
<1>3. (q.page - 1) * PageSize = 0
    BY FetchAssumption
<1> QED
    BY <1>1, <1>2, <1>3 DEF Ahead

(* What is sought, the call it belongs to asks for from the start.         *)
LEMMA FirstAwaits ==
    ASSUME TypeInv, PagesInv, old \subseteq Listed, NEW i \in Item, Sought(i)
    PROVE  \E r \in FirstAsked(CallOf(i)) : Awaits(r, i)
<1>1. /\ i \in Listed /\ what[i] \in Thing /\ WellFormed(i)
      /\ what[i].kind \in types /\ what[i].mine /\ what[i].day \in Exact
      /\ IsTracked(what[i].repo) /\ what[i].repo # Search
      /\ platform \in {"github", "gitlab"}
    BY TrackedFacts DEF Sought, Asked, TypeInv
<1>2. PICK t \in DOMAIN Tracked : Tracked[t] = what[i].repo
    BY <1>1 DEF IsTracked
<1> DEFINE about(at) == Ask(at, what[i].repo, None)
           all(at) == Ask(at, None, None)
<1>3. \A at : about(at) \in AboutTracked(at)
    BY <1>2 DEF AboutTracked
<1>4. \A at : /\ about(at).at = at /\ about(at).repo = what[i].repo /\ about(at).page = 1
              /\ all(at).at = at /\ all(at).page = 1
    BY AskFields
<1> HIDE DEF about, all
<1>5. ASSUME NEW r, r.at \notin Lists, r.page = 1, Selects(r, i), Keeps(r, i) PROVE Awaits(r, i)
    BY <1>1, <1>5, FirstPageAhead DEF Awaits
<1>6. CASE what[i].kind = "commit"
  <2>1. CallOf(i) = what[i].repo
    BY <1>6 DEF CallOf
  <2>2. about("commits") \in FirstAsked(CallOf(i))
    BY <1>1, <1>6, <2>1 DEF FirstAsked, WhenAsked, about
  <2>3. Selects(about("commits"), i) /\ Keeps(about("commits"), i)
    BY <1>1, <1>4, <1>6 DEF Selects, GitHubSelects, GitLabSelects, Mine, Keeps, GitHubKeeps,
        GitLabKeeps, Lists
  <2> QED
    BY <1>4, <1>5, <2>2, <2>3 DEF Lists
<1>7. ASSUME NEW at, \/ at = "issues" /\ what[i].kind = "issue"
                     \/ at = "merged" /\ what[i].kind = "merged"
      PROVE  \E r \in FirstAsked(CallOf(i)) : Awaits(r, i)
  <2>1. CallOf(i) = Search
    BY <1>7 DEF CallOf
  <2>2. CASE platform = "github"
    <3>1. about(at) \in FirstAsked(Search)
      BY <1>1, <1>3, <1>7, <2>2 DEF FirstAsked, WhenAsked
    <3>2. Selects(about(at), i) /\ Keeps(about(at), i)
      BY <1>1, <1>4, <1>7, <2>2 DEF Selects, GitHubSelects, Mine, Keeps, GitHubKeeps, Lists,
          Exact, ByDate
    <3> QED
      BY <1>4, <1>5, <1>7, <2>1, <3>1, <3>2 DEF Lists
  <2>3. CASE platform = "gitlab"
    <3>1. all(at) \in FirstAsked(Search)
      BY <1>1, <1>7, <2>3 DEF FirstAsked, WhenAsked, all
    <3>2. Selects(all(at), i) /\ Keeps(all(at), i)
      BY <1>1, <1>4, <1>7, <2>3 DEF Selects, GitLabSelects, Mine, Keeps, GitLabKeeps, Lists
    <3> QED
      BY <1>4, <1>5, <1>7, <2>1, <3>1, <3>2 DEF Lists
  <2> QED
    BY <1>1, <2>2, <2>3
<1>8. CASE what[i].kind = "review"
  <2> DEFINE m == what[i].on
             at == IF platform = "github" THEN "reviewed" ELSE "requests"
  <2>1. /\ m \in old /\ what[m].kind \in Requests /\ what[m].repo = what[i].repo
        /\ IF platform = "github" THEN what[m].day \in ByDate ELSE what[m].updated \in Exact
    BY <1>1, <1>8 DEF Sought, Reachable, Visible, WellFormed
  <2>2. CallOf(i) = IF platform = "github" THEN what[i].repo ELSE Search
    BY <1>8 DEF CallOf
  <2>3. about(at) \in FirstAsked(CallOf(i))
    BY <1>1, <1>3, <1>8, <2>2 DEF FirstAsked, WhenAsked, about
  <2>4. Mine(i, "review", Day)
    BY <1>1, <1>8 DEF Mine, Thing
  <2>5. Selects(about(at), m)
    BY <1>1, <1>4, <2>1, <2>4 DEF Selects, GitHubSelects, GitLabSelects
  <2> QED
    BY <1>4, <1>8, <2>3, <2>5 DEF Awaits, Lists
<1>9. what[i].kind \in {"commit", "issue", "merged", "review"}
    BY <1>1 DEF PagesInv, Type
<1> QED
    BY <1>6, <1>7, <1>8, <1>9

(* What a request selects is all of one kind: there is no more of it than  *)
(* there is of the kind of any item among it.                              *)
LEMMA SelectedAreLike ==
    ASSUME TypeInv, PagesInv, NEW q \in Request, NEW i \in Item, Selects(q, i),
           NEW n \in 0..Len(listed)
    PROVE  Selected(q, n) <= Cardinality(Like(i))
<1>1. ASSUME NEW k \in DOMAIN listed, Selects(q, listed[k]) PROVE listed[k] \in Like(i)
  <2>1. listed[k] \in Listed
    BY DEF Listed
  <2>2. IF what[i].kind \in Requests THEN what[listed[k]].kind \in Requests
        ELSE what[listed[k]].kind = what[i].kind
    BY <1>1 DEF Selects, GitHubSelects, GitLabSelects, Mine, Requests
  <2> QED
    BY <2>1, <2>2 DEF Like
<1>2. IsFiniteSet(Like(i))
  <2>1. Like(i) \subseteq Item
    BY DEF Like, Listed, TypeInv
  <2> QED
    BY <2>1, FS_Subset, FetchAssumption
<1> QED
    BY <1>1, <1>2, SelectedBound DEF PagesInv

(* What is awaited of a page of a list is on its first page, as there is   *)
(* no more than one page of it.                                            *)
LEMMA OnFirstPage ==
    ASSUME TypeInv, PagesInv, NEW q \in Request, q.at \notin Paged, q.page = 1,
           NEW i \in Listed, Selects(q, i), OnePage(i)
    PROVE  i \in OnPage(q)
<1>1. PICK n \in DOMAIN listed : listed[n] = i
    BY DEF Listed
<1>2. n \in 0..Len(listed) /\ i \in Item
    BY <1>1 DEF TypeInv
<1>3. Selected(q, n) \in Nat /\ Selected(q, n) >= 1 /\ Selected(q, n) <= Cardinality(Like(i))
    BY <1>1, <1>2, SelectedCounts, HitsFacts, SelectedAreLike
<1>4. Like(i) \subseteq Item
    BY DEF Like, Listed, TypeInv
<1>5. Cardinality(Like(i)) \in Nat
    BY <1>4, FS_Subset, FS_CardinalityType, FetchAssumption
<1>6. (q.page - 1) * PageSize < Selected(q, n) /\ Selected(q, n) <= q.page * PageSize
    BY <1>3, <1>5, FetchAssumption DEF OnePage
<1> QED
    BY <1>1, <1>6 DEF OnPage

(* An answer brings what it awaits, or leads to a request that awaits it.  *)
LEMMA AnswerBrings ==
    ASSUME TypeInv, PagesInv, old \subseteq Listed, NEW i \in Item, Sought(i),
           NEW q \in Request, q.at \notin Paged => q.page = 1, Awaits(q, i)
    PROVE  \/ i \in OnPage(q) /\ Keeps(q, i)
           \/ \E r \in Following(q) : Awaits(r, i)
<1>1. /\ i \in Listed /\ what[i] \in Thing /\ WellFormed(i) /\ Reachable(i)
      /\ what[i].mine /\ what[i].day \in Exact /\ IsTracked(what[i].repo)
      /\ platform \in {"github", "gitlab"}
    BY DEF Sought, Asked, TypeInv
<1>2. CASE q.at \in Lists
  <2> DEFINE m == what[i].on
             r == Ask("reviews", q.repo, m)
  <2>1. what[i].kind = "review" /\ Selects(q, m)
    BY <1>2 DEF Awaits
  <2>2. m \in Listed /\ OnePage(m)
    BY <1>1, <2>1 DEF Reachable, Visible
  <2>3. q.at \notin Paged /\ ~MorePages(q)
    BY <1>2 DEF Paged, Lists, MorePages
  <2>4. m \in OnPage(q)
    BY <2>1, <2>2, <2>3, OnFirstPage
  <2>5. r \in Following(q)
    BY <1>2, <2>3, <2>4 DEF Following
  <2>6. r.at = "reviews" /\ r.on = m /\ r.page = 1
    BY AskFields
  <2> HIDE DEF r, m
  <2>7. Selects(r, i)
    BY <2>1, <2>6 DEF Selects, GitHubSelects, GitLabSelects, m
  <2>8. Keeps(r, i)
    BY <1>1, <2>1, <2>6 DEF Keeps, GitHubKeeps, GitLabKeeps, Mine, Lists
  <2>9. Awaits(r, i)
    BY <1>1, <2>6, <2>7, <2>8, FirstPageAhead DEF Awaits, Lists
  <2> QED
    BY <2>5, <2>9
<1>3. CASE q.at \notin Lists
  <2>1. Selects(q, i) /\ Keeps(q, i) /\ Ahead(q, i)
    BY <1>3 DEF Awaits
  <2>2. CASE q.at \notin Paged
    <3>1. OnePage(i)
      BY <1>1, <1>3, <2>1, <2>2 DEF Reachable, Visible, Paged, Lists, Request, Endpoint,
          Selects, GitHubSelects, GitLabSelects, Mine
    <3> QED
      BY <1>1, <2>1, <2>2, <3>1, OnFirstPage
  <2>3. CASE q.at \in Paged
    <3>1. PICK n \in DOMAIN listed : listed[n] = i /\ (q.page - 1) * PageSize < Selected(q, n)
      BY <2>1 DEF Ahead
    <3>2. /\ n \in 0..Len(listed) /\ Len(listed) \in 0..Len(listed) /\ n <= Len(listed)
          /\ q.page \in Nat \ {0} /\ q.page + 1 \in Nat \ {0} /\ PageSize \in Nat
      <4>1. listed \in Seq(Item)
        BY DEF TypeInv
      <4>2. q.page \in Nat \ {0}
        BY DEF Request
      <4>3. PageSize \in Nat
        BY FetchAssumption
      <4> QED
        BY <4>1, <4>2, <4>3
    <3>3. /\ Selected(q, n) \in Nat /\ Selected(q, Len(listed)) \in Nat
          /\ Selected(q, n) <= Selected(q, Len(listed)) /\ q.page * PageSize \in Nat
      BY <3>2, SelectedGrows, PageBounds
    <3>4. CASE Selected(q, n) <= q.page * PageSize
      BY <2>1, <3>1, <3>4 DEF OnPage
    <3>5. CASE q.page * PageSize < Selected(q, n)
      <4> DEFINE r == [q EXCEPT !.page = q.page + 1]
      <4>1. MorePages(q)
        BY <2>3, <3>3, <3>5 DEF MorePages
      <4>2. r \in Following(q)
        BY <4>1 DEF Following
      <4>3. /\ r.at = q.at /\ r.page = q.page + 1
            /\ Selects(r, i) /\ Keeps(r, i) /\ Selected(r, n) = Selected(q, n)
        BY <2>1, <3>2, SamePages
      <4> HIDE DEF r
      <4>4. r.page - 1 = q.page
        BY <3>2, <4>3
      <4>5. Ahead(r, i)
        BY <3>1, <3>5, <4>3, <4>4 DEF Ahead
      <4> QED
        BY <1>3, <4>2, <4>3, <4>5 DEF Awaits
    <3> QED
      BY <3>3, <3>4, <3>5
  <2> QED
    BY <2>2, <2>3
<1> QED
    BY <1>2, <1>3

(* As long as the server stands still, the same is sought and awaited.     *)
LEMMA AwaitsFrame ==
    ASSUME UNCHANGED <<query, server>>, NEW q, NEW i
    PROVE  /\ Awaits(q, i)' <=> Awaits(q, i)
           /\ Sought(i)' <=> Sought(i)
           /\ CallOf(i)' = CallOf(i)
<1>1. Awaits(q, i)' <=> Awaits(q, i)
    BY DEF query, server, Awaits, Lists, Selects, GitHubSelects, GitLabSelects, Mine, Keeps,
        GitHubKeeps, GitLabKeeps, IsTracked, Ahead, Selected, Listed
<1>2. Sought(i)' <=> Sought(i)
    BY DEF query, server, Sought, Asked, IsTracked, Reachable, Visible, OnePage, Like, Listed
<1>3. CallOf(i)' = CallOf(i)
    BY DEF query, CallOf
<1> QED
    BY <1>1, <1>2, <1>3

(* Before the first call nothing is due.                                   *)
LEMMA InitFound == Init => FoundInv
<1> SUFFICES ASSUME Init PROVE FoundInv
    OBVIOUS
<1>1. next = 1 /\ call = None /\ old = Listed
    BY DEF Init
<1>2. Started = {}
    BY <1>1, TrackedFacts DEF Started
<1>3. \A i \in Item : Sought(i) => CallOf(i) # None
    BY TrackedFacts, FetchAssumption DEF Sought, Asked, CallOf
<1> QED
    BY <1>1, <1>2, <1>3 DEF FoundInv

(* A call starts with requests that await all it is to bring.              *)
LEMMA StartFound == FetchInv /\ PagesInv /\ FoundInv /\ Start => FoundInv'
<1> SUFFICES ASSUME FetchInv, PagesInv, FoundInv, Start, ~removed' PROVE FoundInv'
    BY DEF FoundInv
<1> DEFINE c == Calls[next]
<1>1. /\ TypeInv /\ UNCHANGED <<query, server, report, failed>> /\ ~removed
      /\ call = None /\ call' = c /\ old \subseteq Listed
      /\ next \in Nat /\ next' = next + 1
    BY DEF Start, FetchInv, TypeInv, FoundInv, server
<1>2. Started' \ {call'} \subseteq Started \ {call}
  <2>1. Calls' = Calls /\ \A k \in DOMAIN Calls : k \in Nat /\ Calls[k] # None
    BY TrackedFacts DEF Calls
  <2>2. \A k \in DOMAIN Calls : k < next + 1 => k < next \/ k = next
    BY <1>1, <2>1
  <2> QED
    BY <1>1, <2>1, <2>2 DEF Started
<1>3. PICK s \in Agendas(c) : agenda' = s
    BY DEF Start
<1>4. Enumerates(s, FirstAsked(c))
    BY <1>1, AgendasEnumerate
<1> HIDE DEF c
<1>5. ASSUME NEW i \in Item, Sought(i), CallOf(i) = c
      PROVE  \E k \in DOMAIN agenda' : Awaits(agenda'[k], i)
  <2>1. PICK r \in FirstAsked(c) : Awaits(r, i)
    BY <1>1, <1>5, FirstAwaits
  <2> QED
    BY <1>3, <1>4, <2>1 DEF Enumerates
<1>6. ASSUME NEW i \in Item, Sought(i), CallOf(i) \notin failed, CallOf(i) \in Started' \ {call'}
      PROVE  report[i] > 0
    BY <1>1, <1>2, <1>6 DEF FoundInv
<1>7. (old \subseteq Listed)'
    BY <1>1 DEF query, server, Listed
<1> QED
    BY <1>1, <1>5, <1>6, <1>7, AwaitsFrame DEF FoundInv

(* What an answer was to bring it has brought, or another request will.    *)
LEMMA AnsweredFound == FetchInv /\ PagesInv /\ FoundInv /\ Answered => FoundInv'
<1> SUFFICES ASSUME FetchInv, PagesInv, FoundInv, Answered, ~removed' PROVE FoundInv'
    BY DEF FoundInv
<1> DEFINE q == Head(agenda)
           f == FollowUps(q)
           kept == {i \in OnPage(q) : Keeps(q, i)}
<1>1. /\ TypeInv /\ UNCHANGED <<query, server, next, call, report, failed>> /\ ~removed
      /\ old \subseteq Listed /\ Started' = Started
      /\ batch' = [i \in Item |-> IF i \in kept THEN batch[i] + 1 ELSE batch[i]]
      /\ batch \in [Item -> Nat]
    BY DEF Answered, FetchInv, TypeInv, FoundInv, server, Started, Calls
<1>2. /\ q \in Request /\ q = agenda[1] /\ 1 \in DOMAIN agenda
      /\ Enumerates(f, Following(q))
      /\ \A k \in DOMAIN f : k \in DOMAIN agenda' /\ agenda'[k] = f[k]
      /\ \A k \in DOMAIN agenda \ {1} :
            k - 1 + Len(f) \in DOMAIN agenda' /\ agenda'[k - 1 + Len(f)] = agenda[k]
    BY <1>1, AgendaAfter
<1>3. q.at \notin Paged => q.page = 1
    BY <1>2 DEF PagesInv
<1> HIDE DEF q, f, kept
<1>4. ASSUME NEW i \in Item, Sought(i), CallOf(i) \notin failed, CallOf(i) = call
      PROVE  batch'[i] > 0 \/ \E k \in DOMAIN agenda' : Awaits(agenda'[k], i)
  <2>1. CASE batch[i] > 0
    BY <1>1, <2>1
  <2>2. CASE \E k \in DOMAIN agenda \ {1} : Awaits(agenda[k], i)
    BY <1>2, <2>2
  <2>3. CASE Awaits(q, i)
    <3>1. i \in kept \/ \E r \in Following(q) : Awaits(r, i)
      BY <1>1, <1>2, <1>3, <1>4, <2>3, AnswerBrings DEF kept
    <3>2. CASE i \in kept
      BY <1>1, <3>2
    <3>3. CASE \E r \in Following(q) : Awaits(r, i)
      <4>1. PICK r \in Following(q) : Awaits(r, i)
        BY <3>3
      <4>2. PICK k \in DOMAIN f : f[k] = r
        BY <1>2 DEF Enumerates
      <4> QED
        BY <1>2, <4>1, <4>2
    <3> QED
      BY <3>1, <3>2, <3>3
  <2>4. batch[i] > 0 \/ \E k \in DOMAIN agenda : Awaits(agenda[k], i)
    BY <1>1, <1>4 DEF FoundInv
  <2> QED
    BY <1>2, <2>1, <2>2, <2>3, <2>4
<1>5. (old \subseteq Listed)'
    BY <1>1 DEF query, server, Listed
<1> QED
    BY <1>1, <1>4, <1>5, AwaitsFrame DEF FoundInv

(* What a call has brought it returns, unless it fails.                    *)
LEMMA EndFound == FetchInv /\ FoundInv /\ (Fails \/ Returns) => FoundInv'
<1> SUFFICES ASSUME FetchInv, FoundInv, Fails \/ Returns, ~removed' PROVE FoundInv'
    BY DEF FoundInv
<1>1. /\ UNCHANGED <<query, server, next>> /\ ~removed /\ old \subseteq Listed
      /\ call' = None /\ Started' = Started
      /\ batch \in [Item -> Nat] /\ report \in [Item -> Nat]
  <2>1. UNCHANGED <<query, server, next>> /\ call' = None
    BY DEF Fails, Returns
  <2>2. Started' = Started
    BY <2>1 DEF Started, Calls
  <2>3. batch \in [Item -> Nat] /\ report \in [Item -> Nat]
    BY DEF FetchInv, TypeInv
  <2> QED
    BY <2>1, <2>2, <2>3 DEF FoundInv, server
<1>2. \A i \in Item : Sought(i) => CallOf(i) # None
    BY TrackedFacts, FetchAssumption DEF Sought, Asked, CallOf
<1>3. ASSUME NEW i \in Item, Sought(i), CallOf(i) \notin failed', CallOf(i) \in Started
      PROVE  report'[i] > 0
  <2>1. /\ CallOf(i) \notin failed
        /\ CallOf(i) = call => batch[i] > 0 \/ \E k \in DOMAIN agenda : Awaits(agenda[k], i)
        /\ CallOf(i) # call => report[i] > 0
    BY <1>1, <1>3 DEF FoundInv, Fails, Returns
  <2>2. CASE Fails
    BY <1>3, <2>1, <2>2 DEF Fails
  <2>3. CASE Returns
    <3>1. batch[i] > 0 \/ report[i] > 0
      BY <2>1, <2>3 DEF Returns
    <3> QED
      BY <1>1, <2>3, <3>1 DEF Returns
  <2> QED
    BY <2>2, <2>3
<1>4. (old \subseteq Listed)'
    BY <1>1 DEF query, server, Listed
<1> QED
    BY <1>1, <1>2, <1>3, <1>4, AwaitsFrame DEF FoundInv

(* What appears is listed first: all else is listed one further down, and  *)
(* no less is selected up to it.                                           *)
LEMMA AppearsSelects ==
    ASSUME TypeInv, NEW j \in Item, Appears(j)
    PROVE  /\ Listed' = Listed \cup {j}
           /\ \A n \in DOMAIN listed : n + 1 \in DOMAIN listed' /\ listed'[n + 1] = listed[n]
           /\ listed' \in Seq(Item) /\ Len(listed') = Len(listed) + 1
           /\ \A q, i : Selects(q, i) => Selects(q, i)'
<1>1. listed' = <<j>> \o listed /\ listed \in Seq(Item) /\ UNCHANGED query
    BY DEF Appears, TypeInv
<1>2. /\ \A n \in DOMAIN listed : n + 1 \in DOMAIN listed' /\ listed'[n + 1] = listed[n]
      /\ listed' \in Seq(Item) /\ Len(listed') = Len(listed) + 1
      /\ 1 \in DOMAIN listed' /\ listed'[1] = j
      /\ \A n \in DOMAIN listed' : n = 1 \/ (n - 1 \in DOMAIN listed /\ listed'[n] = listed[n - 1])
    BY <1>1
<1>3. Listed' = Listed \cup {j}
    BY <1>2 DEF Listed
<1>4. \A q, i : Selects(q, i) => Selects(q, i)'
    BY <1>1, <1>3 DEF query, Selects, GitHubSelects, GitLabSelects, Mine
<1> QED
    BY <1>2, <1>3, <1>4

(* The count up to an item does not shrink when something appears before. *)
LEMMA AppearsSelected ==
    ASSUME TypeInv, NEW j \in Item, Appears(j), NEW q, NEW n \in DOMAIN listed
    PROVE  Selected(q, n) \in Nat /\ Selected(q, n + 1)' \in Nat /\ Selected(q, n) <= Selected(q, n + 1)'
<1>1. n \in Nat /\ n \in 0..Len(listed) /\ n + 1 \in Nat /\ DOMAIN listed = 1..Len(listed)
    BY DEF TypeInv
<1> DEFINE H == {k \in 1..(n + 1) : Selects(q, listed[k])'}
           g == [k \in Hits(q, n) |-> k + 1]
<1>2. Selected(q, n + 1)' = Cardinality(H)
    BY DEF Selected
<1>3. IsFiniteSet(1..(n + 1)) /\ H \subseteq 1..(n + 1)
    BY <1>1, FS_Interval
<1>4. IsFiniteSet(H) /\ Cardinality(H) \in Nat
    BY <1>3, FS_Subset, FS_CardinalityType
<1>5. ASSUME NEW k \in Hits(q, n) PROVE k \in Nat /\ k + 1 \in H
  <2>1. k \in 1..n /\ k \in DOMAIN listed /\ Selects(q, listed[k])
    BY <1>1 DEF Hits
  <2>2. PICK i : i = listed[k]
    OBVIOUS
  <2>3. listed'[k + 1] = i /\ Selects(q, i)'
    BY <2>1, <2>2, AppearsSelects
  <2>4. Selects(q, listed[k + 1])'
    BY <2>3
  <2> QED
    BY <1>1, <2>1, <2>4
<1> HIDE DEF H
<1>6. g \in Injection(Hits(q, n), H)
    BY <1>5 DEF Injection, IsInjective
<1>7. Cardinality(Hits(q, n)) <= Cardinality(H)
    BY <1>4, <1>6, FS_Injection
<1> QED
    BY <1>1, <1>2, <1>4, <1>7, HitsFacts

(* What is sought after something has appeared was sought before, and what *)
(* was awaited still is.                                                   *)
LEMMA AppearsAwaits ==
    ASSUME TypeInv, NEW j \in Item, Appears(j), NEW i \in Item
    PROVE  /\ Sought(i)' => Sought(i)
           /\ \A q \in Request : Awaits(q, i) => Awaits(q, i)'
<1>1. UNCHANGED query /\ Listed' = Listed \cup {j} /\ Listed' \subseteq Item
  <2>1. Listed \subseteq Item
    BY DEF Listed, TypeInv
  <2> QED
    BY <2>1, AppearsSelects DEF Appears
<1>2. ASSUME NEW m \in Item, OnePage(m)' PROVE OnePage(m)
  <2>1. Like(m) \subseteq Like(m)' /\ Like(m)' \subseteq Item
    BY <1>1 DEF Like, query
  <2>2. /\ IsFiniteSet(Like(m)') /\ Cardinality(Like(m)) <= Cardinality(Like(m)')
        /\ Cardinality(Like(m)) \in Nat /\ Cardinality(Like(m)') \in Nat
    BY <2>1, FS_Subset, FS_CardinalityType, FetchAssumption
  <2>3. Cardinality(Like(m)') <= PageSize
    BY <1>2 DEF OnePage
  <2> QED
    BY <2>2, <2>3, FetchAssumption DEF OnePage
<1>3. Sought(i)' => Sought(i)
  <2> SUFFICES ASSUME Sought(i)' PROVE Sought(i)
    OBVIOUS
  <2>1. i \in old /\ Asked(i, Exact)
    BY <1>1 DEF Sought, Asked, query
  <2>2. Reachable(i)'
    BY DEF Sought
  <2>3. CASE what[i].kind # "review"
    BY <1>1, <1>2, <2>1, <2>2, <2>3 DEF Sought, Reachable, query
  <2>4. CASE what[i].kind = "review"
    <3>1. what[i].on \in Item
      BY <2>4 DEF TypeInv, WellFormed, Thing
    <3>2. Visible(i)'
      BY <1>1, <2>2, <2>4 DEF Reachable, query
    <3> DEFINE m == what[i].on
    <3>3. OnePage(i)' /\ OnePage(m)' /\ m \in old
          /\ IF platform = "github" THEN what[m].day \in ByDate ELSE what[m].updated \in Exact
      BY <1>1, <3>2 DEF Visible, query
    <3>4. OnePage(i) /\ OnePage(m)
      BY <1>1, <1>2, <3>1, <3>3 DEF query
    <3> QED
      BY <2>1, <2>4, <3>3, <3>4 DEF Sought, Reachable, Visible
  <2> QED
    BY <2>3, <2>4
<1>4. ASSUME NEW q \in Request, Awaits(q, i) PROVE Awaits(q, i)'
  <2>1. CASE q.at \in Lists
    <3>1. PICK m : m = what[i].on
      OBVIOUS
    <3>2. what[i].kind = "review" /\ Selects(q, m)
      BY <1>4, <2>1, <3>1 DEF Awaits
    <3>3. Selects(q, m)'
      BY <3>2, AppearsSelects
    <3> QED
      BY <1>1, <2>1, <3>1, <3>2, <3>3 DEF Awaits, query, Lists
  <2>2. CASE q.at \notin Lists
    <3>1. Selects(q, i) /\ Keeps(q, i) /\ Ahead(q, i)
      BY <1>4, <2>2 DEF Awaits
    <3>2. Selects(q, i)' /\ Keeps(q, i)'
      BY <1>1, <3>1, AppearsSelects DEF Keeps, GitHubKeeps, GitLabKeeps, Mine, IsTracked, query, Lists
    <3>3. PICK n \in DOMAIN listed : listed[n] = i /\ (q.page - 1) * PageSize < Selected(q, n)
      BY <3>1 DEF Ahead
    <3>4. PICK l : l = n + 1
      OBVIOUS
    <3>5. l \in DOMAIN listed' /\ listed'[l] = i /\ Selected(q, n) <= Selected(q, l)'
          /\ Selected(q, n) \in Nat /\ Selected(q, l)' \in Nat
      BY <3>3, <3>4, AppearsSelects, AppearsSelected
    <3>6. (q.page - 1) * PageSize \in Nat
      BY FetchAssumption, PageBounds DEF Request
    <3>7. (q.page - 1) * PageSize < Selected(q, l)'
      BY <3>3, <3>5, <3>6
    <3>8. Ahead(q, i)'
      BY <3>5, <3>7 DEF Ahead
    <3> QED
      BY <2>2, <3>2, <3>8 DEF Awaits, Lists
  <2> QED
    BY <2>1, <2>2
<1> QED
    BY <1>3, <1>4

(* The changes of the server lose nothing, but for what it takes away.     *)
LEMMA ServerFound ==
    ASSUME FetchInv, FoundInv, NEW j \in Item, Appears(j) \/ Vanishes(j)
    PROVE  FoundInv'
<1>1. CASE Vanishes(j)
    BY <1>1 DEF Vanishes, FoundInv
<1>2. CASE Appears(j)
  <2> SUFFICES ASSUME ~removed' PROVE FoundInv'
    BY DEF FoundInv
  <2>1. /\ TypeInv /\ UNCHANGED <<query, next, call, agenda, batch, report, failed>> /\ ~removed
        /\ Started' = Started /\ \A k \in DOMAIN agenda : agenda[k] \in Request
    BY <1>2 DEF Appears, FetchInv, TypeInv, Started, Calls
  <2>2. old \subseteq Listed /\ Listed' = Listed \cup {j}
    BY <1>2, <2>1, AppearsSelects DEF FoundInv
  <2>3. ASSUME NEW i \in Item
        PROVE  /\ CallOf(i)' = CallOf(i)
               /\ Sought(i)' => Sought(i)
               /\ \A q \in Request : Awaits(q, i) => Awaits(q, i)'
    BY <1>2, <2>1, AppearsAwaits DEF CallOf, query
  <2> QED
    BY <2>1, <2>2, <2>3 DEF FoundInv, query
<1> QED
    BY <1>1, <1>2

(* Every step keeps what is to be found.                                   *)
LEMMA NextFound == FetchInv /\ PagesInv /\ FoundInv /\ [Next]_vars => FoundInv'
<1>1. ASSUME FoundInv, UNCHANGED vars PROVE FoundInv'
  <2>1. /\ UNCHANGED <<query, server, next, call, agenda, batch, report, failed>>
        /\ Started' = Started /\ (old \subseteq Listed)' <=> old \subseteq Listed
    BY <1>1 DEF vars, Started, Calls, query, server, Listed
  <2> QED
    BY <1>1, <2>1, AwaitsFrame DEF FoundInv, server
<1> QED
    BY <1>1, StartFound, AnsweredFound, EndFound, ServerFound DEF Next

(* Whatever appears while the pages are read, nothing that was there from  *)
(* the beginning is lost between them: all that the requests can see is    *)
(* reported, unless its call failed or something was taken away.           *)
THEOREM NothingIsMissed == Spec => []NothingMissed
<1>1. FetchInv /\ PagesInv /\ FoundInv => NothingMissed
  <2> SUFFICES ASSUME FetchInv, PagesInv, FoundInv, Over, ~removed,
                      NEW i \in old, Asked(i, Exact), Reachable(i), CallOf(i) \notin failed
               PROVE  report[i] > 0
    BY DEF NothingMissed
  <2>1. i \in Item /\ Sought(i)
    BY DEF PagesInv, Sought
  <2>2. CallOf(i) \in {what[i].repo, Search} /\ IsTracked(what[i].repo)
    BY DEF Asked, CallOf
  <2>3. \E k \in DOMAIN Calls : Calls[k] = CallOf(i)
    <3>1. Len(Calls) = Len(Tracked) + 1 /\ Len(Tracked) \in Nat /\ Calls[Len(Tracked) + 1] = Search
          /\ \A k \in DOMAIN Tracked : k \in DOMAIN Calls /\ Calls[k] = Tracked[k]
          /\ DOMAIN Calls = 1..Len(Calls)
      BY FetchAssumption DEF Calls
    <3> QED
      BY <2>2, <3>1 DEF IsTracked
  <2>4. \A k \in DOMAIN Calls : k < next
    BY TrackedFacts DEF Over, FetchInv, TypeInv
  <2>5. CallOf(i) \in Started /\ CallOf(i) # call
    <3>1. CallOf(i) \in Started
      BY <2>3, <2>4 DEF Started
    <3>2. None \notin Started
      BY TrackedFacts DEF Started
    <3> QED
      BY <3>1, <3>2 DEF Over
  <2> QED
    BY <2>1, <2>5 DEF FoundInv
<1>2. FetchInv /\ PagesInv /\ FoundInv /\ [Next]_vars => FoundInv'
    BY NextFound
<1> QED
    BY <1>1, <1>2, FetchCorrect, InitFound, PTL DEF Spec
=============================================================================
