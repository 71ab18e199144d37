----------------------------- MODULE MCGitFetch -----------------------------
(***************************************************************************)
(* Instances of GitFetch: three items, each as the report asks for it or   *)
(* wrong in one way.                                                       *)
(***************************************************************************)
EXTENDS GitFetch

CONSTANTS r1, r2, r3, a, b, c

ThreeItems == {a, b, c}
ThreeRepos == {r1, r2, r3}
TwoTracked == <<r1, r2>>

Right(kind) == [kind |-> kind, repo |-> r1, mine |-> TRUE,
                day |-> Inside, updated |-> Inside, on |-> None]

AlmostRight(kind) ==
    LET t == Right(kind) IN
    {t, [t EXCEPT !.repo = r2], [t EXCEPT !.repo = r3], [t EXCEPT !.mine = FALSE],
     [t EXCEPT !.day = Before], [t EXCEPT !.day = LastDay, !.updated = LastDay]}

(* Items of one kind, which share their pages.                             *)
OneKind == \E kind \in {"commit", "issue", "merged"} :
               /\ what \in [Item -> AlmostRight(kind)]
               /\ types \in {Type, Type \ {kind}}

(* A request, its review, and another review of it.                        *)
Reviewed ==
    /\ what \in {[i \in Item |-> IF i = a THEN m
                                 ELSE [v EXCEPT !.on = a, !.repo = m.repo, !.mine = @ /\ i = b]] :
                    m \in AlmostRight("merged") \cup AlmostRight("open"),
                    v \in AlmostRight("review")}
    /\ types \in {Type, {"review"}}

FetchInit ==
    /\ OneKind \/ Reviewed
    /\ listed \in {<<a, b>>, <<a, b, c>>}
    /\ Init

FetchSpec == FetchInit /\ [][Next]_vars
=============================================================================
