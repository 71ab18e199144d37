--------------------------- MODULE MCReportStream ---------------------------
(***************************************************************************)
(* Instances of ReportStream.  The tables and the query are the only       *)
(* freedom of Init; each run fixes the part of them it does not vary.      *)
(***************************************************************************)
EXTENDS ReportStream, TLC

CONSTANTS u1, u2, r1, r2, github, other, t1, t2

TwoUsers == {u1, u2}
TwoRepos == {r1, r2}
TwoTokens == {t1, t2}
OneToken == {t1}
GithubAndOther == {github, other}
OnlyGithub == {github}
Split == r1 :> github @@ r2 :> other
SameHost == r1 :> github @@ r2 :> github

(* Everything about who asks for whom varies.  The team has one repository, *)
(* with a token, on a platform that has a factory or on one that has not.  *)
LoadInit == /\ Init
            /\ teamRow => \E r \in Repo : tracked = {r}
            /\ \A r \in Repo : store[r] = t1
LoadSpec == LoadInit /\ [][Next]_vars

(* An administrator reports on a full team; the repositories' tokens vary. *)
TeamInit == /\ Init
            /\ teamRow
            /\ members = User
            /\ leaders = {u1}
            /\ tracked = Repo
            /\ query = [caller |-> u1, admin |-> TRUE, member |-> None]

(* As TeamInit, with a token for each repository, and tables that stay as  *)
(* they are: the run for the workers, their interleavings and their end.   *)
WorkerInit == /\ TeamInit
              /\ store = (r1 :> t1 @@ r2 :> t2)
WorkerSpec == WorkerInit /\ [][Next /\ UNCHANGED database]_vars
WorkerFair == WorkerSpec /\ Scheduling

TeamSpec == TeamInit /\ [][Next]_vars
=============================================================================
