----------------------------- MODULE Leadership -----------------------------
(***************************************************************************)
(* The rules of team administration, each decision one atomic step: a team *)
(* is founded with a leader, its leaders are chosen among its members, and *)
(* neither a leader nor a user can be taken away from a team that would be *)
(* left without one.                                                       *)
(***************************************************************************)
CONSTANTS User, Team

VARIABLES users, teams, members, leaders

vars == <<users, teams, members, leaders>>

Init ==
    /\ users \subseteq User /\ teams \subseteq Team
    /\ members \in [Team -> SUBSET users]
    /\ leaders \in [Team -> SUBSET users]
    /\ \A t \in Team : leaders[t] \subseteq members[t]
    /\ \A t \in teams : leaders[t] # {}

Hire(u) ==
    /\ users' = users \cup {u}
    /\ UNCHANGED <<teams, members, leaders>>

Dismiss(u) ==
    /\ \A t \in teams : leaders[t] # {u}
    /\ users' = users \ {u}
    /\ members' = [t \in Team |-> members[t] \ {u}]
    /\ leaders' = [t \in Team |-> leaders[t] \ {u}]
    /\ UNCHANGED teams

Found(t, u) ==
    /\ t \notin teams
    /\ u \in users
    /\ teams' = teams \cup {t}
    /\ members' = [members EXCEPT ![t] = {u}]
    /\ leaders' = [leaders EXCEPT ![t] = {u}]
    /\ UNCHANGED users

Dissolve(t) ==
    /\ teams' = teams \ {t}
    /\ members' = [members EXCEPT ![t] = {}]
    /\ leaders' = [leaders EXCEPT ![t] = {}]
    /\ UNCHANGED users

Join(t, u) ==
    /\ t \in teams /\ u \in users
    /\ members' = [members EXCEPT ![t] = @ \cup {u}]
    /\ UNCHANGED <<users, teams, leaders>>

Leave(t, u) ==
    /\ u \notin leaders[t]
    /\ members' = [members EXCEPT ![t] = @ \ {u}]
    /\ UNCHANGED <<users, teams, leaders>>

Promote(t, u) ==
    /\ t \in teams
    /\ u \in members[t]
    /\ leaders' = [leaders EXCEPT ![t] = @ \cup {u}]
    /\ UNCHANGED <<users, teams, members>>

Demote(t, u) ==
    /\ leaders[t] # {u}
    /\ leaders' = [leaders EXCEPT ![t] = @ \ {u}]
    /\ UNCHANGED <<users, teams, members>>

Next == \/ \E u \in User : Hire(u) \/ Dismiss(u)
        \/ \E t \in Team : Dissolve(t)
        \/ \E t \in Team, u \in User :
              Found(t, u) \/ Join(t, u) \/ Leave(t, u) \/ Promote(t, u) \/ Demote(t, u)

Spec == Init /\ [][Next]_vars
=============================================================================
