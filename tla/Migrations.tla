----------------------------- MODULE Migrations -----------------------------
(***************************************************************************)
(* Start-up (cmd/api/main.go): every replica of the server applies the     *)
(* scripts of its image that the database has not had (migrator.go), and   *)
(* serves only then; when a statement fails, it exits.  Replicas start     *)
(* when they like, together too, are killed at any statement, and may be   *)
(* started again with another release.                                     *)
(*                                                                         *)
(* Of the scripts the model has the demo rows that they insert and the     *)
(* rows that these refer to.  Serving replicas delete demo rows, as        *)
(* administrators ask them to.                                             *)
(***************************************************************************)
EXTENDS Integers, FiniteSets

CONSTANTS
    Replica,
    Files,     \* the scripts are numbered 1..Files, in the order of their names
    Release,   \* releases, by how many scripts their images hold
    Row,       \* demo rows
    Inserts,   \* the demo rows that a script inserts
    Needs,     \* the rows that a row refers to
    Lenient,   \* scripts that insert ON CONFLICT DO NOTHING
    MaxFaults  \* bound: statements that fail by themselves, processes killed

ASSUME MigrationsAssumption ==
    /\ Files \in Nat
    /\ Release \subseteq 0..Files
    /\ Inserts \in [1..Files -> SUBSET Row]
    /\ \A i, j \in 1..Files : i # j => Inserts[i] \cap Inserts[j] = {}
    /\ Needs \in [Row -> SUBSET Row]
    /\ \A k \in Row : \A j \in Needs[k] : Needs[j] = {}
    /\ Lenient \subseteq 1..Files
    /\ MaxFaults \in Nat

VARIABLES
    book,      \* whether schema_migrations exists
    recorded,  \* the scripts in schema_migrations
    rows,      \* the demo rows in the database
    pc,        \* what a replica is doing
    at,        \* the script it has come to
    image,     \* how many scripts its image holds
    pending,   \* the demo rows that its open transaction has inserted
    faults,    \* failures so far
    times,     \* history: how often a script has taken effect
    removed    \* history: demo rows that administrators deleted

vars == <<book, recorded, rows, pc, at, image, pending, faults, times, removed>>

InTx(r) == pc[r] \in {"record", "commit"}

(* The rows that scripts 1..n insert.                                      *)
Demo(n) == UNION {Inserts[i] : i \in 1..n}

Init ==
    /\ \E n \in 0..Files :
          /\ recorded = 1..n
          /\ rows \in SUBSET Demo(n)
          /\ removed = Demo(n) \ rows
          /\ times = [i \in 1..Files |-> IF i <= n THEN 1 ELSE 0]
          /\ book \in BOOLEAN /\ (n > 0 => book)
    /\ \A k \in rows : Needs[k] \subseteq rows
    /\ pc = [r \in Replica |-> "down"]
    /\ at = [r \in Replica |-> 0]
    /\ image \in [Replica -> Release]
    /\ pending = [r \in Replica |-> {}]
    /\ faults = 0

Goto(r, l) == pc' = [pc EXCEPT ![r] = l]

Start(r) ==
    /\ pc[r] = "down"
    /\ Goto(r, "create")
    /\ image' \in {[image EXCEPT ![r] = n] : n \in Release}
    /\ UNCHANGED <<book, recorded, rows, at, pending, faults, times, removed>>

(* Mutant of Exit: main logs the error and serves.                         *)
ExitIgnored(r) ==
    /\ Goto(r, "serving")
    /\ pending' = [pending EXCEPT ![r] = {}]
    /\ at' = [at EXCEPT ![r] = 0]

(* RunMigrations returns an error, and main exits; what a transaction has  *)
(* done is rolled back.                                                    *)
Exit(r) ==
    /\ Goto(r, "down")
    /\ pending' = [pending EXCEPT ![r] = {}]
    /\ at' = [at EXCEPT ![r] = 0]

-----------------------------------------------------------------------------
(* RunMigrations                                                           *)

(* Mutant of LookForBook: CREATE TABLE without IF NOT EXISTS.              *)
LookForNoBook(r) ==
    /\ pc[r] = "create"
    /\ IF book
       THEN Exit(r)
       ELSE Goto(r, "creating") /\ UNCHANGED <<at, pending>>
    /\ UNCHANGED <<book, recorded, rows, image, faults, times, removed>>

(* CREATE TABLE IF NOT EXISTS looks for the table, then creates it, which  *)
(* is an error if another session has created it in between.               *)
LookForBook(r) ==
    /\ pc[r] = "create"
    /\ IF book
       THEN Goto(r, "check") /\ at' = [at EXCEPT ![r] = 1]
       ELSE Goto(r, "creating") /\ UNCHANGED at
    /\ UNCHANGED <<book, recorded, rows, image, pending, faults, times, removed>>

CreateBook(r) ==
    /\ pc[r] = "creating"
    /\ IF book
       THEN Exit(r) /\ UNCHANGED book
       ELSE /\ book' = TRUE
            /\ Goto(r, "check") /\ at' = [at EXCEPT ![r] = 1]
            /\ UNCHANGED pending
    /\ UNCHANGED <<recorded, rows, image, faults, times, removed>>

Serve(r) == Goto(r, "serving") /\ at' = [at EXCEPT ![r] = 0]

(* Mutant of Check: what is recorded is not asked for.                     *)
CheckNothing(r) ==
    /\ pc[r] = "check"
    /\ IF at[r] > image[r] THEN Serve(r) ELSE Goto(r, "exec") /\ UNCHANGED at
    /\ UNCHANGED <<book, recorded, rows, image, pending, faults, times, removed>>

(* The next script, or the end of the list.                                *)
Check(r) ==
    /\ pc[r] = "check"
    /\ IF at[r] > image[r] THEN Serve(r)
       ELSE IF at[r] \in recorded THEN at' = [at EXCEPT ![r] = @ + 1] /\ UNCHANGED pc
       ELSE Goto(r, "exec") /\ UNCHANGED at
    /\ UNCHANGED <<book, recorded, rows, image, pending, faults, times, removed>>

(* What script i asks of the database: the tables of those before it, no   *)
(* row of its own unless it is lenient, and the rows that its rows need.   *)
Applies(i) ==
    /\ \A j \in 1..(i - 1) : times[j] > 0
    /\ i \in Lenient \/ Inserts[i] \cap rows = {}
    /\ \A k \in Inserts[i] : Needs[k] \subseteq rows \cup Inserts[i]

(* Mutant of Exec: the script is executed outside the transaction.         *)
ExecAtOnce(r) ==
    /\ pc[r] = "exec"
    /\ IF Applies(at[r])
       THEN Goto(r, "record") /\ rows' = rows \cup Inserts[at[r]] /\ UNCHANGED <<at, pending>>
       ELSE Exit(r) /\ UNCHANGED rows
    /\ UNCHANGED <<book, recorded, image, faults, times, removed>>

(* A script waits for a transaction that is executing the same one.        *)
Exec(r) ==
    /\ pc[r] = "exec"
    /\ \A q \in Replica : ~(InTx(q) /\ at[q] = at[r])
    /\ IF Applies(at[r])
       THEN /\ Goto(r, "record")
            /\ pending' = [pending EXCEPT ![r] = Inserts[at[r]] \ rows]
            /\ UNCHANGED at
       ELSE Exit(r)
    /\ UNCHANGED <<book, recorded, rows, image, faults, times, removed>>

(* Mutant of Record: the file name is no key.                              *)
RecordAgain(r) ==
    /\ pc[r] = "record"
    /\ Goto(r, "commit")
    /\ UNCHANGED <<book, recorded, rows, at, image, pending, faults, times, removed>>

(* The file name is the primary key.                                       *)
Record(r) ==
    /\ pc[r] = "record"
    /\ IF at[r] \in recorded
       THEN Exit(r)
       ELSE Goto(r, "commit") /\ UNCHANGED <<at, pending>>
    /\ UNCHANGED <<book, recorded, rows, image, faults, times, removed>>

TakesEffect(r) ==
    /\ recorded' = recorded \cup {at[r]}
    /\ rows' = rows \cup pending[r]
    /\ times' = [times EXCEPT ![at[r]] = @ + 1]

Commit(r) ==
    /\ pc[r] = "commit"
    /\ TakesEffect(r)
    /\ Goto(r, "check")
    /\ at' = [at EXCEPT ![r] = @ + 1]
    /\ pending' = [pending EXCEPT ![r] = {}]
    /\ UNCHANGED <<book, image, faults, removed>>

-----------------------------------------------------------------------------
(* Failures                                                                *)

Fault == faults < MaxFaults /\ faults' = faults + 1

(* A statement fails, or the process is killed, serving or not.            *)
Fails(r) ==
    /\ pc[r] # "down"
    /\ Fault /\ Exit(r)
    /\ UNCHANGED <<book, recorded, rows, image, times, removed>>

(* The answer to the commit does not come.                                 *)
CommitUnanswered(r) ==
    /\ pc[r] = "commit"
    /\ Fault /\ Exit(r)
    /\ TakesEffect(r)
    /\ UNCHANGED <<book, image, removed>>

-----------------------------------------------------------------------------
(* Mutant of Remove: nothing is removed with it.                           *)
RemoveOnly(r, k) ==
    /\ pc[r] = "serving"
    /\ k \in rows
    /\ rows' = rows \ {k}
    /\ removed' = removed \cup {k}
    /\ UNCHANGED <<book, recorded, pc, at, image, pending, faults, times>>

(* An administrator has a demo user or team deleted, and with it what      *)
(* refers to it.  The delete waits for a transaction that refers to it.    *)
Remove(r, k) ==
    LET R == {k} \cup {j \in rows : k \in Needs[j]} IN
    /\ pc[r] = "serving"
    /\ k \in rows
    /\ \A q \in Replica : \A j \in pending[q] : k \notin Needs[j]
    /\ rows' = rows \ R
    /\ removed' = removed \cup R
    /\ UNCHANGED <<book, recorded, pc, at, image, pending, faults, times>>

Migrate(r) == LookForBook(r) \/ CreateBook(r) \/ Check(r) \/ Exec(r) \/ Record(r) \/ Commit(r)

Next ==
    \E r \in Replica :
        \/ Start(r) \/ Migrate(r) \/ Fails(r) \/ CommitUnanswered(r)
        \/ \E k \in Row : Remove(r, k)

(* A replica that has begun goes on: no statement waits for ever, since a  *)
(* transaction ends or is rolled back.  Nothing in the code starts one     *)
(* that has exited.                                                        *)
Fairness == \A r \in Replica : WF_vars(Migrate(r))

Spec == Init /\ [][Next]_vars /\ Fairness

-----------------------------------------------------------------------------
TypeOK ==
    /\ book \in BOOLEAN
    /\ recorded \subseteq 1..Files /\ (recorded # {} => book)
    /\ rows \subseteq Row /\ removed \subseteq Row
    /\ \A k \in rows : Needs[k] \subseteq rows
    /\ pc \in [Replica -> {"down", "create", "creating", "check", "exec", "record", "commit",
                           "serving"}]
    /\ at \in [Replica -> 0..(Files + 1)]
    /\ image \in [Replica -> Release]
    /\ pending \in [Replica -> SUBSET Row]
    /\ faults \in 0..MaxFaults
    /\ times \in [1..Files -> Nat]

(* However many replicas run a script at once, and wherever they are       *)
(* killed, it takes effect once if it is recorded and never otherwise      *)
(* (migrator.go:53, the transaction and the primary key).                  *)
AppliedOnce == \A i \in 1..Files : times[i] = IF i \in recorded THEN 1 ELSE 0

(* A replica serves only when the database has all that its release needs  *)
(* (main.go:47).                                                           *)
ServesMigrated == \A r \in Replica : pc[r] = "serving" => 1..image[r] \subseteq recorded

(* Demo rows that were deleted do not come back with a restart, a second   *)
(* replica or a new release (migrator.go:44).                              *)
RemovedStays == removed \cap rows = {}

(* What the scripts still to come refer to is there or comes before them.  *)
Unspoilt ==
    \A i \in (1..Files) \ recorded :
        \A k \in Inserts[i] : Needs[k] \subseteq rows \cup UNION {Inserts[j] : j \in (1..i) \ recorded}

Serving(r) == pc[r] = "serving"
Up(r) == pc[r] # "down"

(* Of replicas that start together, of whatever releases, all but one may  *)
(* exit because another one was faster, but never all                      *)
(* (ARCHITECTURE.md:67, "running more replicas").                          *)
SomeServe ==
    (\E r \in Replica : Up(r)) /\ faults = 0
        ~> (\E r \in Replica : Serving(r)) \/ faults > 0 \/ ~Unspoilt

(* If replicas that exit are started again, all of them serve in the end,  *)
(* whatever was killed before.                                             *)
AllServe ==
    (\A r \in Replica : []<>Up(r))
        => <>(\A r \in Replica : Serving(r)) \/ <>~Unspoilt
=============================================================================
