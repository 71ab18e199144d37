---------------------------- MODULE MCMigrations ----------------------------
(***************************************************************************)
(* The scripts under migrations/: 002 inserts users and a team, 004 makes  *)
(* one of the users the leader of the team.  The release before had three. *)
(***************************************************************************)
EXTENDS Migrations, TLC

CONSTANTS carol, eng, lead

DemoRows  == {carol, eng, lead}
InsertsOf == <<{}, {carol, eng}, {}, {lead}>>
NeedsOf   == carol :> {} @@ eng :> {} @@ lead :> {carol, eng}
Releases  == {3, 4}
=============================================================================
