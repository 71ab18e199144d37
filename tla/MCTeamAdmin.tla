----------------------------- MODULE MCTeamAdmin -----------------------------
(***************************************************************************)
(* Instances of TeamAdmin: handlers one after the other, and two at a time.*)
(***************************************************************************)
EXTENDS TeamAdmin, TLC

CONSTANTS u1, u2, t1, t2, p1, p2, lead, member, admin

TwoUsers == {u1, u2}
OneTeam == {t1}
TwoTeams == {t1, t2}
OneHandler == {p1}
TwoHandlers == {p1, p2}

Roles == {lead, member, admin}

(* The role sets of requests that create users: with and without           *)
(* TEAM_LEADER, which is also derived.                                     *)
Members == {{member}}
Various == {{member}, {member, admin}}
Askable == {{member}, {member, lead}, {lead}}
Leading == {{lead}}

Symmetric == Permutations(Proc) \cup Permutations(User)
=============================================================================
