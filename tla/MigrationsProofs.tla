-------------------------- MODULE MigrationsProofs --------------------------
(***************************************************************************)
(* Proofs about Migrations, for any replicas, scripts, releases and        *)
(* failures.                                                               *)
(***************************************************************************)
EXTENDS Migrations, TLAPS

Working(r) == pc[r] \in {"check", "exec", "record", "commit"}

(* Where a replica is in the list, and that it has left nothing out.       *)
Position ==
    \A r \in Replica :
        /\ Working(r) => book /\ at[r] \in 1..(image[r] + 1)
        /\ pc[r] \in {"exec", "record", "commit"} => at[r] \in 1..image[r]
        /\ Working(r) => \A i \in 1..Files : i < at[r] => i \in recorded

(* One transaction at a time is executing a script, and only one that the  *)
(* record lacks will commit.                                               *)
OneTx ==
    /\ \A q, r \in Replica : InTx(q) /\ InTx(r) /\ at[q] = at[r] => q = r
    /\ \A r \in Replica : pc[r] = "commit" => at[r] \notin recorded

(* A transaction holds rows of its script, with what they refer to.        *)
Pending ==
    \A r \in Replica :
        IF InTx(r)
        THEN /\ pending[r] \subseteq Inserts[at[r]]
             /\ \A k \in pending[r] : Needs[k] \subseteq rows \cup pending[r]
        ELSE pending[r] = {}

(* Rows are, or were, there because their script is recorded.              *)
Origin == \A k \in rows \cup removed : \E i \in recorded : k \in Inserts[i]

MigrationsInv ==
    /\ TypeOK /\ Position /\ OneTx /\ Pending /\ Origin
    /\ AppliedOnce /\ ServesMigrated /\ RemovedStays

LEMMA Numbers ==
    /\ Files \in Nat /\ MaxFaults \in Nat
    /\ \A n \in Release : n \in Nat /\ n <= Files
    /\ \A i \in 1..Files : Inserts[i] \subseteq Row
    /\ \A i, j \in 1..Files : i # j => Inserts[i] \cap Inserts[j] = {}
    /\ \A k \in Row : Needs[k] \subseteq Row
    /\ \A k \in Row : \A j \in Needs[k] : Needs[j] = {}
BY MigrationsAssumption

LEMMA InitHolds == Init => MigrationsInv
<1> SUFFICES ASSUME Init PROVE MigrationsInv
    OBVIOUS
<1>1. PICK n \in 0..Files :
          /\ recorded = 1..n
          /\ rows \in SUBSET Demo(n)
          /\ removed = Demo(n) \ rows
          /\ times = [i \in 1..Files |-> IF i <= n THEN 1 ELSE 0]
          /\ book \in BOOLEAN /\ (n > 0 => book)
    BY DEF Init
<1>2. n \in Nat /\ n <= Files /\ \A i : i \in 1..n <=> i \in 1..Files /\ i <= n
    BY Numbers
<1>3. \A k \in Demo(n) : k \in Row /\ \E i \in 1..n : k \in Inserts[i]
    BY <1>2, Numbers DEF Demo
<1>4. recorded \subseteq 1..Files /\ (recorded # {} => book)
    BY <1>1, <1>2
<1>5. TypeOK
    BY <1>1, <1>3, <1>4, Numbers DEF Init, TypeOK
<1>6. AppliedOnce
    BY <1>1, <1>2 DEF AppliedOnce
<1>7. Origin /\ RemovedStays
    BY <1>1, <1>3 DEF Origin, RemovedStays
<1>8. \A r \in Replica : pc[r] = "down" /\ pending[r] = {}
    BY DEF Init
<1>9. Position /\ OneTx /\ Pending /\ ServesMigrated
    BY <1>8 DEF Position, OneTx, Pending, ServesMigrated, InTx, Working
<1>10. QED
    BY <1>5, <1>6, <1>7, <1>9 DEF MigrationsInv

-----------------------------------------------------------------------------
(* Steps that move a replica and write nothing.                            *)
LEMMA ExitKeeps ==
    ASSUME MigrationsInv, NEW r \in Replica, Exit(r),
           UNCHANGED <<book, recorded, rows, image, times, removed>>, faults' \in 0..MaxFaults
    PROVE  MigrationsInv'
<1> USE DEF MigrationsInv
<1>1. /\ pc' = [pc EXCEPT ![r] = "down"] /\ at' = [at EXCEPT ![r] = 0]
      /\ pending' = [pending EXCEPT ![r] = {}]
    BY DEF Exit, Goto
<1>2. TypeOK'
    BY <1>1, Numbers DEF TypeOK
<1>3. \A q \in Replica : IF q = r THEN pc'[q] = "down" /\ pending'[q] = {}
                         ELSE pc'[q] = pc[q] /\ at'[q] = at[q] /\ pending'[q] = pending[q]
    BY <1>1 DEF TypeOK
<1>4. Position' /\ ServesMigrated'
    BY <1>3 DEF Position, Working, ServesMigrated
<1>5. OneTx' /\ Pending'
    BY <1>3 DEF OneTx, Pending, InTx
<1>6. Origin' /\ AppliedOnce' /\ RemovedStays'
    BY DEF Origin, AppliedOnce, RemovedStays
<1>7. QED
    BY <1>2, <1>4, <1>5, <1>6

LEMMA StartKeeps ==
    ASSUME MigrationsInv, NEW r \in Replica, Start(r)
    PROVE  MigrationsInv'
<1> USE DEF MigrationsInv
<1>1. PICK n \in Release : image' = [image EXCEPT ![r] = n]
    BY DEF Start
<1>2. /\ pc' = [pc EXCEPT ![r] = "create"] /\ pc[r] = "down"
      /\ UNCHANGED <<book, recorded, rows, at, pending, faults, times, removed>>
    BY DEF Start, Goto
<1>3. TypeOK'
    BY <1>1, <1>2 DEF TypeOK
<1>4. \A q \in Replica : IF q = r THEN pc'[q] = "create"
                         ELSE pc'[q] = pc[q] /\ image'[q] = image[q]
    BY <1>1, <1>2 DEF TypeOK
<1>5. Position' /\ ServesMigrated'
    BY <1>2, <1>4 DEF Position, Working, ServesMigrated
<1>6. OneTx' /\ Pending'
    BY <1>2, <1>4 DEF OneTx, Pending, InTx
<1>7. Origin' /\ AppliedOnce' /\ RemovedStays'
    BY <1>2 DEF Origin, AppliedOnce, RemovedStays
<1>8. QED
    BY <1>3, <1>5, <1>6, <1>7

LEMMA BookKeeps ==
    ASSUME MigrationsInv, NEW r \in Replica, LookForBook(r) \/ CreateBook(r)
    PROVE  MigrationsInv'
<1> USE DEF MigrationsInv
<1>1. CASE Exit(r) /\ UNCHANGED <<book, recorded, rows, image, times, removed, faults>>
    BY <1>1, ExitKeeps DEF TypeOK
<1>2. CASE Goto(r, "creating") /\ UNCHANGED <<book, recorded, rows, at, image, pending, faults, times, removed>>
           /\ ~InTx(r)
  <2>1. \A q \in Replica : IF q = r THEN pc'[q] = "creating" ELSE pc'[q] = pc[q]
      BY <1>2 DEF Goto, TypeOK
  <2>2. TypeOK'
      BY <1>2 DEF Goto, TypeOK
  <2>3. QED
      BY <1>2, <2>1, <2>2 DEF Position, Working, OneTx, Pending, InTx, Origin, AppliedOnce,
                              ServesMigrated, RemovedStays
<1>3. CASE Goto(r, "check") /\ at' = [at EXCEPT ![r] = 1] /\ book' /\ ~InTx(r)
           /\ UNCHANGED <<recorded, rows, image, pending, faults, times, removed>> /\ book' \in BOOLEAN
  <2>1. \A q \in Replica : IF q = r THEN pc'[q] = "check" /\ at'[q] = 1
                           ELSE pc'[q] = pc[q] /\ at'[q] = at[q]
      BY <1>3 DEF Goto, TypeOK
  <2>2. TypeOK'
      BY <1>3, Numbers DEF Goto, TypeOK
  <2>3. image[r] \in Nat
      BY Numbers DEF TypeOK
  <2>4. Position'
      BY <1>3, <2>1, <2>3 DEF Position, Working
  <2>5. QED
      BY <1>3, <2>1, <2>2, <2>4 DEF OneTx, Pending, InTx, Origin, AppliedOnce,
                                    ServesMigrated, RemovedStays
<1>4. QED
    BY <1>1, <1>2, <1>3 DEF LookForBook, CreateBook, InTx, TypeOK

LEMMA CheckKeeps ==
    ASSUME MigrationsInv, NEW r \in Replica, Check(r)
    PROVE  MigrationsInv'
<1> USE DEF MigrationsInv
<1>1. pc[r] = "check" /\ UNCHANGED <<book, recorded, rows, image, pending, faults, times, removed>>
    BY DEF Check
<1>2. /\ image[r] \in Nat /\ image[r] <= Files /\ Files \in Nat /\ image' = image
      /\ at[r] \in 1..(image[r] + 1) /\ book
      /\ \A i \in 1..Files : i < at[r] => i \in recorded
    BY <1>1, Numbers DEF TypeOK, Position, Working
<1>3. \A q \in Replica : q # r => pc'[q] = pc[q] /\ at'[q] = at[q]
    BY DEF Check, Serve, Goto, TypeOK
<1>4. \/ pc'[r] = "serving" /\ at'[r] = 0 /\ at[r] > image[r]
      \/ pc'[r] = "check" /\ at'[r] = at[r] + 1 /\ at[r] <= image[r] /\ at[r] \in recorded
      \/ pc'[r] = "exec" /\ at'[r] = at[r] /\ at[r] <= image[r]
    BY <1>2 DEF Check, Serve, Goto, TypeOK
<1>5. pc' = [pc EXCEPT ![r] = pc'[r]] /\ at' = [at EXCEPT ![r] = at'[r]]
    BY DEF Check, Serve, Goto, TypeOK
<1>6. TypeOK'
  <2>1. at'[r] \in 0..(Files + 1) /\ pc'[r] \in {"check", "exec", "serving"}
      BY <1>2, <1>4
  <2>2. at' \in [Replica -> 0..(Files + 1)]
      BY <1>5, <2>1 DEF TypeOK
  <2>3. pc' \in [Replica -> {"down", "create", "creating", "check", "exec", "record", "commit",
                             "serving"}]
      BY <1>5, <2>1 DEF TypeOK
  <2>4. QED
      BY <1>1, <2>2, <2>3 DEF TypeOK
<1>7. ServesMigrated'
  <2>1. at[r] > image[r] => 1..image[r] \subseteq recorded
      BY <1>2
  <2>2. QED
      BY <1>1, <1>3, <1>4, <2>1 DEF ServesMigrated
<1>8. Position'
  <2>1. ASSUME NEW q \in Replica, q # r
        PROVE  /\ Working(q)' => book' /\ at'[q] \in 1..(image'[q] + 1)
               /\ pc'[q] \in {"exec", "record", "commit"} => at'[q] \in 1..image'[q]
               /\ Working(q)' => \A i \in 1..Files : i < at'[q] => i \in recorded'
      BY <1>1, <1>3, <2>1 DEF Position, Working
  <2>2. /\ Working(r)' => book' /\ at'[r] \in 1..(image'[r] + 1)
        /\ pc'[r] \in {"exec", "record", "commit"} => at'[r] \in 1..image'[r]
        /\ Working(r)' => \A i \in 1..Files : i < at'[r] => i \in recorded'
      BY <1>1, <1>2, <1>4 DEF Working
  <2>3. QED
      BY <2>1, <2>2 DEF Position
<1>9. OneTx' /\ Pending'
    BY <1>1, <1>3, <1>4 DEF OneTx, Pending, InTx
<1>10. Origin' /\ AppliedOnce' /\ RemovedStays'
    BY <1>1 DEF Origin, AppliedOnce, RemovedStays
<1>11. QED
    BY <1>6, <1>7, <1>8, <1>9, <1>10

LEMMA ExecKeeps ==
    ASSUME MigrationsInv, NEW r \in Replica, Exec(r)
    PROVE  MigrationsInv'
<1> USE DEF MigrationsInv
<1>1. CASE ~Applies(at[r])
    BY <1>1, ExitKeeps DEF Exec, TypeOK
<1>2. CASE Applies(at[r])
  <2>1. /\ pc[r] = "exec" /\ pc' = [pc EXCEPT ![r] = "record"]
        /\ pending' = [pending EXCEPT ![r] = Inserts[at[r]] \ rows]
        /\ UNCHANGED <<book, recorded, rows, at, image, faults, times, removed>>
        /\ \A q \in Replica : ~(InTx(q) /\ at[q] = at[r])
      BY <1>2 DEF Exec, Goto
  <2>2. at[r] \in 1..image[r] /\ at[r] \in 1..Files /\ Inserts[at[r]] \subseteq Row
      BY <2>1, Numbers DEF TypeOK, Position
  <2>3. TypeOK'
      BY <2>1, <2>2 DEF TypeOK
  <2>4. \A q \in Replica : IF q = r THEN pc'[q] = "record" /\ pending'[q] = Inserts[at[r]] \ rows
                           ELSE pc'[q] = pc[q] /\ pending'[q] = pending[q]
      BY <2>1 DEF TypeOK
  <2>5. \A k \in Inserts[at[r]] : Needs[k] \subseteq rows \cup (Inserts[at[r]] \ rows)
      BY <1>2 DEF Applies
  <2>6. Pending'
      BY <2>1, <2>4, <2>5 DEF Pending, InTx
  <2>7. OneTx'
      BY <2>1, <2>4 DEF OneTx, InTx
  <2>8. Position' /\ ServesMigrated'
      BY <2>1, <2>4 DEF Position, Working, ServesMigrated
  <2>9. Origin' /\ AppliedOnce' /\ RemovedStays'
      BY <2>1 DEF Origin, AppliedOnce, RemovedStays
  <2>10. QED
      BY <2>3, <2>6, <2>7, <2>8, <2>9
<1>3. QED
    BY <1>1, <1>2

LEMMA RecordKeeps ==
    ASSUME MigrationsInv, NEW r \in Replica, Record(r)
    PROVE  MigrationsInv'
<1> USE DEF MigrationsInv
<1>1. CASE at[r] \in recorded
    BY <1>1, ExitKeeps DEF Record, TypeOK
<1>2. CASE at[r] \notin recorded
  <2>1. /\ pc[r] = "record" /\ pc' = [pc EXCEPT ![r] = "commit"]
        /\ UNCHANGED <<book, recorded, rows, at, image, pending, faults, times, removed>>
      BY <1>2 DEF Record, Goto
  <2>2. TypeOK'
      BY <2>1 DEF TypeOK
  <2>3. \A q \in Replica : pc'[q] = IF q = r THEN "commit" ELSE pc[q]
      BY <2>1 DEF TypeOK
  <2>4. \A q \in Replica : InTx(q)' <=> InTx(q)
      BY <2>1, <2>3 DEF InTx
  <2>5. OneTx' /\ Pending'
      BY <1>2, <2>1, <2>3, <2>4 DEF OneTx, Pending
  <2>6. Position' /\ ServesMigrated'
      BY <2>1, <2>3 DEF Position, Working, ServesMigrated
  <2>7. Origin' /\ AppliedOnce' /\ RemovedStays'
      BY <2>1 DEF Origin, AppliedOnce, RemovedStays
  <2>8. QED
      BY <2>2, <2>5, <2>6, <2>7
<1>3. QED
    BY <1>1, <1>2

-----------------------------------------------------------------------------
(* The commit: at[r] is not recorded, and nobody else is executing it.     *)
LEMMA CommitKeeps ==
    ASSUME MigrationsInv, NEW r \in Replica, pc[r] = "commit", TakesEffect(r),
           UNCHANGED <<book, image, removed>>, faults' \in 0..MaxFaults,
           pending' = [pending EXCEPT ![r] = {}],
           \/ Goto(r, "check") /\ at' = [at EXCEPT ![r] = @ + 1]
           \/ Goto(r, "down") /\ at' = [at EXCEPT ![r] = 0]
    PROVE  MigrationsInv'
<1> USE DEF MigrationsInv
<1> DEFINE i == at[r]
<1>1. /\ recorded' = recorded \cup {i} /\ rows' = rows \cup pending[r]
      /\ times' = [times EXCEPT ![i] = @ + 1]
    BY DEF TakesEffect
<1>2. /\ i \in 1..image[r] /\ i \in 1..Files /\ image[r] \in Nat /\ image[r] <= Files /\ book
      /\ i \notin recorded /\ Files \in Nat
      /\ \A j \in 1..Files : j < i => j \in recorded
    BY Numbers DEF TypeOK, Position, OneTx, Working
<1>3. /\ pending[r] \subseteq Inserts[i] /\ Inserts[i] \subseteq Row
      /\ \A k \in pending[r] : Needs[k] \subseteq rows \cup pending[r]
    BY <1>2, Numbers DEF Pending, InTx
<1>4. /\ pc'[r] \in {"check", "down"} /\ pending'[r] = {}
      /\ pc'[r] = "check" => at'[r] = i + 1
      /\ \A q \in Replica : q # r => /\ pc'[q] = pc[q] /\ at'[q] = at[q]
                                     /\ pending'[q] = pending[q]
    BY DEF Goto, TypeOK
<1>5. TypeOK'
  <2>1. recorded' \subseteq 1..Files /\ book' /\ book' \in BOOLEAN
      BY <1>1, <1>2 DEF TypeOK
  <2>2. rows' \subseteq Row /\ \A k \in rows' : Needs[k] \subseteq rows'
      BY <1>1, <1>3 DEF TypeOK
  <2>3. times' \in [1..Files -> Nat]
      BY <1>1, <1>2 DEF TypeOK
  <2>4. i + 1 \in 0..(Files + 1)
      BY <1>2
  <2>5. at' \in [Replica -> 0..(Files + 1)]
    <3>1. at \in [Replica -> 0..(Files + 1)] /\ 0 \in 0..(Files + 1)
      BY <1>2 DEF TypeOK
    <3>2. at' = [at EXCEPT ![r] = i + 1] \/ at' = [at EXCEPT ![r] = 0]
      OBVIOUS
    <3> HIDE DEF i
    <3> QED
      BY <2>4, <3>1, <3>2
  <2>6. /\ pc' \in [Replica -> {"down", "create", "creating", "check", "exec", "record", "commit",
                               "serving"}]
        /\ pending' \in [Replica -> SUBSET Row]
      BY DEF Goto, TypeOK
  <2>7. QED
      BY <2>1, <2>2, <2>3, <2>5, <2>6 DEF TypeOK
<1>6. Position' /\ ServesMigrated'
  <2>1. ASSUME NEW q \in Replica, q # r
        PROVE  /\ Working(q)' => book' /\ at'[q] \in 1..(image'[q] + 1)
               /\ pc'[q] \in {"exec", "record", "commit"} => at'[q] \in 1..image'[q]
               /\ Working(q)' => \A j \in 1..Files : j < at'[q] => j \in recorded'
      BY <1>1, <1>4, <2>1 DEF Position, Working
  <2>2. \A j \in 1..Files : j < i + 1 => j \in recorded'
      BY <1>1, <1>2
  <2>3. /\ Working(r)' => book' /\ at'[r] \in 1..(image'[r] + 1)
        /\ pc'[r] \in {"exec", "record", "commit"} => at'[r] \in 1..image'[r]
        /\ Working(r)' => \A j \in 1..Files : j < at'[r] => j \in recorded'
      BY <1>2, <1>4, <2>2 DEF Working
  <2>4. QED
      BY <1>1, <1>4, <2>1, <2>3 DEF Position, ServesMigrated
<1>7. OneTx'
  <2>1. \A q \in Replica : q # r /\ InTx(q) => at[q] # i
      BY DEF OneTx, InTx
  <2>2. QED
      BY <1>1, <1>4, <2>1 DEF OneTx, InTx
<1>8. Pending'
    BY <1>1, <1>4 DEF Pending, InTx
<1>9. Origin'
    BY <1>1, <1>3 DEF Origin
<1>10. AppliedOnce'
    BY <1>1, <1>2 DEF AppliedOnce, TypeOK
<1>11. RemovedStays'
  <2>1. \A k \in removed : \A j \in recorded : k \in Inserts[j] => k \notin Inserts[i]
      BY <1>2, Numbers DEF TypeOK
  <2>2. \A k \in removed : k \notin pending[r]
      BY <1>3, <2>1 DEF Origin
  <2>3. QED
      BY <1>1, <2>2 DEF RemovedStays
<1>12. QED
    BY <1>5, <1>6, <1>7, <1>8, <1>9, <1>10, <1>11

LEMMA RemoveKeeps ==
    ASSUME MigrationsInv, NEW r \in Replica, NEW k \in Row, Remove(r, k)
    PROVE  MigrationsInv'
<1> USE DEF MigrationsInv
<1> DEFINE R == {k} \cup {j \in rows : k \in Needs[j]}
<1>1. /\ k \in rows /\ rows' = rows \ R /\ removed' = removed \cup R
      /\ \A q \in Replica : \A j \in pending[q] : k \notin Needs[j]
      /\ UNCHANGED <<book, recorded, pc, at, image, pending, faults, times>>
    BY DEF Remove
<1>2. \A j \in Row : \A n \in Needs[j] : n \in R => n = k
    BY Numbers DEF TypeOK
<1>3. R \subseteq rows
    BY <1>1
<1>4. \A j \in rows' : Needs[j] \subseteq rows'
    BY <1>1, <1>2 DEF TypeOK
<1>5. TypeOK'
    BY <1>1, <1>3, <1>4 DEF TypeOK
<1>6. Pending'
  <2>1. \A q \in Replica : \A j \in pending[q] : Needs[j] \cap R = {}
      BY <1>1, <1>2 DEF TypeOK
  <2>2. QED
      BY <1>1, <2>1 DEF Pending, InTx
<1>7. Origin' /\ RemovedStays'
    BY <1>1, <1>3 DEF Origin, RemovedStays
<1>8. Position' /\ OneTx' /\ AppliedOnce' /\ ServesMigrated'
    BY <1>1 DEF Position, Working, OneTx, InTx, AppliedOnce, ServesMigrated
<1>9. QED
    BY <1>5, <1>6, <1>7, <1>8

LEMMA Inductive == MigrationsInv /\ [Next]_vars => MigrationsInv'
<1> SUFFICES ASSUME MigrationsInv, [Next]_vars PROVE MigrationsInv'
    OBVIOUS
<1>1. CASE UNCHANGED vars
  <2>1. UNCHANGED <<book, recorded, rows, pc, at, image, pending, faults, times, removed>>
      BY <1>1 DEF vars
  <2>2. QED
      BY <2>1 DEF MigrationsInv, TypeOK, Position, Working, OneTx, InTx, Pending, Origin,
                  AppliedOnce, ServesMigrated, RemovedStays
<1>2. ASSUME NEW r \in Replica, Fails(r) PROVE MigrationsInv'
  <2>1. faults' \in 0..MaxFaults
      BY <1>2, Numbers DEF Fails, Fault, MigrationsInv, TypeOK
  <2>2. QED
      BY <1>2, <2>1, ExitKeeps DEF Fails
<1>3. ASSUME NEW r \in Replica, CommitUnanswered(r) PROVE MigrationsInv'
  <2>1. faults' \in 0..MaxFaults
      BY <1>3, Numbers DEF CommitUnanswered, Fault, MigrationsInv, TypeOK
  <2>2. QED
      BY <1>3, <2>1, CommitKeeps DEF CommitUnanswered, Exit
<1>4. ASSUME NEW r \in Replica, Commit(r) PROVE MigrationsInv'
  <2>1. faults' \in 0..MaxFaults
      BY <1>4 DEF Commit, MigrationsInv, TypeOK
  <2>2. QED
      BY <1>4, <2>1, CommitKeeps DEF Commit
<1>5. QED
    BY <1>1, <1>2, <1>3, <1>4, StartKeeps, BookKeeps, CheckKeeps, ExecKeeps, RecordKeeps,
       RemoveKeeps
    DEF Next, Migrate

LEMMA MigrationsInvariant == Spec => []MigrationsInv
BY InitHolds, Inductive, PTL DEF Spec

(* Rows of the demonstration refer to rows that exist, and the variables   *)
(* keep their types.                                                       *)
THEOREM TypeCorrect == Spec => []TypeOK
BY MigrationsInvariant, PTL DEF MigrationsInv

(* However many replicas start at once, and wherever they are killed, a    *)
(* script takes effect once if it is recorded, and never otherwise.        *)
THEOREM ScriptsApplyOnce == Spec => []AppliedOnce
BY MigrationsInvariant, PTL DEF MigrationsInv

(* A replica that serves finds all that its release needs.                 *)
THEOREM NoneServesEarly == Spec => []ServesMigrated
BY MigrationsInvariant, PTL DEF MigrationsInv

(* Demo rows that were deleted do not come back.                           *)
THEOREM SeedsStayRemoved == Spec => []RemovedStays
BY MigrationsInvariant, PTL DEF MigrationsInv
=============================================================================
