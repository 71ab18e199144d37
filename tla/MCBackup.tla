------------------------------ MODULE MCBackup ------------------------------
(***************************************************************************)
(* A user who may be replaced by another of the same name, two teams that  *)
(* the first may lead, a repository with a token, a setting.               *)
(***************************************************************************)
EXTENDS Backup, TLC

CONSTANTS u1, u2, a1, n1, t1, l1, m1, r1, k1, c1, v1, v2

AllKeys == {u1, u2, a1, n1, t1, l1, m1, r1, k1, c1}

TableOf == u1 :> "users" @@ u2 :> "users" @@ a1 :> "accounts" @@ n1 :> "names" @@
           t1 :> "teams" @@ l1 :> "leaders" @@ m1 :> "members" @@ r1 :> "repositories" @@
           k1 :> "links" @@ c1 :> "config"
OwnerOf == [k \in AllKeys |-> IF k = n1 THEN u1 ELSE IF k \in {l1, m1, k1} THEN t1 ELSE None]
ParentsOf == [k \in AllKeys |-> IF k \in {n1, a1} THEN {u1}
                                ELSE IF k \in {l1, m1} THEN {t1, u1}
                                ELSE IF k = k1 THEN {t1, r1} ELSE {}]
RivalsOf == [k \in AllKeys |-> IF k = u1 THEN {u2} ELSE IF k = u2 THEN {u1} ELSE {}]
ValuesOf == [k \in AllKeys |-> IF k = r1 THEN {NoToken, v1}
                               ELSE IF k = c1 THEN {v1, v2} ELSE {v1}]

Full == [k \in AllKeys |-> IF k = u2 THEN NoRow ELSE v1]
SomeDatabases ==
    {Full,
     [k \in AllKeys |-> IF k \in {t1, l1, m1, k1} THEN NoRow ELSE Full[k]],
     [k \in AllKeys |-> NoRow]}
=============================================================================
