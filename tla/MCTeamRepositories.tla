------------------------- MODULE MCTeamRepositories -------------------------
(***************************************************************************)
(* Two requests at a time, of a user who may lead either of two teams and  *)
(* of an administrator, about repositories on two platforms.               *)
(***************************************************************************)
EXTENDS TeamRepositories, TLC

CONSTANTS u1, boss, t1, t2, hub1, hub2, lab1, kHub1, kHub2, kLab, p1, p2

TwoUsers == {u1, boss}
OneAdmin == {boss}
TwoTeams == {t1, t2}
SomeRepos == {hub1, hub2, lab1}
SomeTokens == {kHub1, kHub2, kLab}
OnPlatform == [x \in SomeRepos \cup SomeTokens |->
                 IF x \in {lab1, kLab} THEN "GITLAB" ELSE "GITHUB"]
TwoRequests == {p1, p2}

Symmetric == Permutations(Proc) \cup Permutations(Team)
             \cup Permutations({hub1, hub2}) \cup Permutations({kHub1, kHub2})
=============================================================================
