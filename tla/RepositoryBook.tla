--------------------------- MODULE RepositoryBook ---------------------------
(***************************************************************************)
(* What the server promises about repositories and their API tokens, as a  *)
(* book in which each line is one decision: a team learns a token that a   *)
(* leader supplies; it stores a repository with a token it knows; it takes *)
(* a stored repository or drops it; it is dissolved, and its repositories  *)
(* stay in the book.  A team knows the tokens it was supplied with and     *)
(* those that stood at repositories it has or had.  Repositories are       *)
(* discovered without a token.                                             *)
(*                                                                         *)
(* Nothing here says who asks, in which order statements run, or what      *)
(* fails: TeamRepositories does.                                           *)
(***************************************************************************)
CONSTANTS Team, Repo, Token, Platform, NoToken, NoRow, None

VARIABLES
    teams, token, links,  \* teams, tokens of stored repositories, who has which
    ever, known,          \* repositories a team ever had, tokens it knows
    origin                \* the team for which a token was put

book == <<teams, token, links, ever, known, origin>>

Init ==
    /\ teams = Team
    /\ token = [r \in Repo |-> NoRow]
    /\ links = [t \in Team |-> {}]
    /\ ever = [t \in Team |-> {}]
    /\ known = [t \in Team |-> {}]
    /\ origin = [r \in Repo |-> None]

(* Tokens at repositories that a team has or had are known to it.          *)
Learn == known' = [t \in Team |-> known[t] \cup ({token'[r] : r \in ever'[t]} \cap Token)]

Supply(t, k) ==
    /\ known' = [known EXCEPT ![t] = @ \cup {k}]
    /\ UNCHANGED <<teams, token, links, ever, origin>>

Store(t, r, k) ==
    /\ k \in known[t] /\ Platform[k] = Platform[r]
    /\ token' = [token EXCEPT ![r] = k]
    /\ origin' = [origin EXCEPT ![r] = t]
    /\ Learn
    /\ UNCHANGED <<teams, links, ever>>

Take(t, r) ==
    /\ t \in teams /\ token[r] # NoRow
    /\ links' = [links EXCEPT ![t] = @ \cup {r}]
    /\ ever' = [ever EXCEPT ![t] = @ \cup {r}]
    /\ Learn
    /\ UNCHANGED <<teams, token, origin>>

Drop(t, r) ==
    /\ links' = [links EXCEPT ![t] = @ \ {r}]
    /\ UNCHANGED <<teams, token, ever, known, origin>>

Dissolve(t) ==
    /\ teams' = teams \ {t}
    /\ links' = [links EXCEPT ![t] = {}]
    /\ UNCHANGED <<token, ever, known, origin>>

Discover(r) ==
    /\ token' = [token EXCEPT ![r] = NoToken]
    /\ origin' = [origin EXCEPT ![r] = None]
    /\ UNCHANGED <<teams, links, ever, known>>

Next ==
    \/ \E t \in Team, k \in Token : Supply(t, k)
    \/ \E t \in Team, r \in Repo, k \in Token : Store(t, r, k)
    \/ \E t \in Team, r \in Repo : Take(t, r) \/ Drop(t, r)
    \/ \E t \in Team : Dissolve(t)
    \/ \E r \in Repo : Discover(r)

Spec == Init /\ [][Next]_book
=============================================================================
