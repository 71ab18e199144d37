---------------------------- MODULE MCReportView ----------------------------
(***************************************************************************)
(* Two calls of generateReport, and mounts and refreshes that may come     *)
(* back late, with lists of two teams or fewer.                            *)
(***************************************************************************)
EXTENDS ReportView, TLC

CONSTANTS c1, c2, u1, t1, t2

TwoCalls == {c1, c2}
OneUser == {u1}
TwoTeams == {t1, t2}
(* The user leads both teams, or one of them any more, or none.            *)
SomeLists == {<<>>, <<t2>>, <<t1, t2>>}
=============================================================================
