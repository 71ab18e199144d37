------------------------------- MODULE Backup -------------------------------
(***************************************************************************)
(* Backup and restore of the whole database (pgx_backup_repo.go), while    *)
(* other handlers go on writing.                                           *)
(*                                                                         *)
(* A database is a set of rows.  A row has a key, a value, foreign keys to *)
(* the rows it cannot be without, and rivals, rows that a unique index     *)
(* does not admit beside it.  Rows that refer to others are removed with   *)
(* them (ON DELETE CASCADE).                                               *)
(*                                                                         *)
(* Export is a series of reads, each of the tables as they are then.       *)
(* Restore is one transaction under READ COMMITTED: it clears one table    *)
(* after the other and inserts the rows of the file one by one.  What it   *)
(* has deleted or inserted is locked: another statement that touches these *)
(* rows waits for its end, which is to say that it comes later; every      *)
(* other statement takes effect at once, between two of the transaction.   *)
(*                                                                         *)
(* One administrator is modelled, and of the files the last one.           *)
(***************************************************************************)
EXTENDS Integers, Sequences

CONSTANTS
    Key,       \* keys of rows, over all tables
    Table,     \* the table of a key
    Owner,     \* the user or team whose entry in the file holds the row, or None
    Parents,   \* keys that a row refers to
    Rivals,    \* keys that exclude one another
    Values,    \* the values that the row of a key may have
    Seeds,     \* databases to begin with
    NoToken,   \* the value of a repository without an API token
    NoRow,     \* no row
    None,
    MaxUpsets  \* bound: statements of other handlers, answers cut short

Tables == {"users", "names", "accounts", "teams", "leaders", "members", "links",
           "repositories", "config"}

(* Which table refers to which.                                            *)
References == {"users"} \X {"names", "accounts", "leaders", "members"}
              \cup {"teams"} \X {"leaders", "members", "links"}
              \cup {<<"repositories", "links">>}

Val  == UNION {Values[k] : k \in Key}
Coded == [base64 : Val]

Rows(d) == {k \in Key : d[k] # NoRow}

(* Foreign keys and unique indexes.                                        *)
Consistent(d) ==
    \A k \in Rows(d) : Parents[k] \subseteq Rows(d) /\ Rivals[k] \cap Rows(d) = {}

ASSUME BackupAssumption ==
    /\ Table \in [Key -> Tables]
    /\ Owner \in [Key -> Key \cup {None}] /\ None \notin Key
    /\ Parents \in [Key -> SUBSET Key]
    /\ Rivals \in [Key -> SUBSET Key]
    /\ \A k \in Key :
          /\ \A p \in Parents[k] : <<Table[p], Table[k]>> \in References
          /\ Owner[k] # None <=> Table[k] \in {"names", "leaders", "members", "links"}
          /\ Owner[k] # None => Owner[k] \in Parents[k]
          /\ \A p \in Parents[k] : p = Owner[k] <=> Table[p] = "teams" \/ Table[k] = "names"
          /\ k \notin Rivals[k]
          /\ \A j \in Rivals[k] : k \in Rivals[j] /\ Table[j] = Table[k]
    /\ NoRow \notin Val \cup Coded /\ Val \cap Coded = {}
    /\ \A d \in Seeds : d \in [Key -> Val \cup {NoRow}] /\ Consistent(d)
    /\ MaxUpsets \in Nat

VARIABLES
    db,        \* the committed rows
    file,      \* the rows of the last backup, or of the one being written
    pc,        \* what the administrator's request is doing
    agenda,    \* Export: reads still to be done
    cleared,   \* Restore: how many tables have been cleared
    gone,      \* Restore: keys of rows that it has deleted
    mine,      \* Restore: keys of rows that it has inserted
    todo,      \* Restore: keys of rows still to be inserted
    upsets,    \* statements of other handlers, and answers cut short, so far
    quiet,     \* history: nothing has interfered with the request
    whole,     \* history: the database that the file is of, if nothing had
               \*   interfered when it was written
    fresh      \* history: keys written by others since the Restore began

request == <<file, agenda, cleared, gone, mine, todo>>
vars    == <<db, file, pc, agenda, cleared, gone, mine, todo, upsets, quiet, whole, fresh>>

Empty == [k \in Key |-> NoRow]

(* API tokens are encoded in the file.                                     *)
Encode(k, v) == IF Table[k] = "repositories" /\ v # NoToken THEN [base64 |-> v] ELSE v

(* Mutant of Decode: the token is taken as it is in the file.              *)
DecodeNothing(x) == x

Decode(x) == IF x \in Coded THEN x.base64 ELSE x

Init ==
    /\ db \in Seeds
    /\ file = Empty
    /\ pc = "idle"
    /\ agenda = {}
    /\ cleared = 0
    /\ gone = {} /\ mine = {} /\ todo = {}
    /\ upsets = 0
    /\ quiet = TRUE
    /\ whole = None
    /\ fresh = {}

-----------------------------------------------------------------------------
(* Export                                                                  *)

(* A statement reads a table, or what it holds of one user or team.        *)
Reads == [table : Tables, of : Key \cup {None}]

All(table) == [table |-> table, of |-> None]

(* Which statements come first.  A team that is begun is finished before    *)
(* the next; which user or team is the next is left open.                   *)
Stage(s) == CASE s.table = "users" -> 1
              [] s.table = "names" -> 2
              [] s.table = "accounts" -> 3
              [] s.table = "teams" -> 4
              [] s.table \in {"members", "links"} -> 5
              [] s.table = "leaders" -> 6
              [] s.table = "repositories" -> 7
              [] s.table = "config" -> 8

Export ==
    /\ pc = "idle"
    /\ pc' = "export"
    /\ file' = Empty
    /\ agenda' = {All(t) : t \in {"users", "accounts", "teams", "repositories", "config"}}
    /\ whole' = db
    /\ UNCHANGED <<db, quiet, cleared, gone, mine, todo, upsets, fresh>>

Answer(s) == {k \in Rows(db) : Table[k] = s.table /\ Owner[k] = s.of}

(* The statements that follow s and the rows R that it returned.           *)
FollowUp(s, R) ==
    CASE s.table = "users"   -> {[table |-> "names", of |-> k] : k \in R}
      [] s.table = "teams"   -> {[table |-> "leaders", of |-> k] : k \in R}
      [] s.table = "leaders" -> {[s EXCEPT !.table = "members"]}
      [] s.table = "members" -> {[s EXCEPT !.table = "links"]}
      [] OTHER -> {}

(* One statement.  Rows may break off unnoticed: no finder asks rows.Err().  *)
Read(s) ==
    /\ pc = "export"
    /\ s \in agenda /\ \A x \in agenda : Stage(s) <= Stage(x)
    /\ \E R \in SUBSET Answer(s) :
          /\ upsets' = IF R = Answer(s) THEN upsets ELSE upsets + 1
          /\ upsets' <= MaxUpsets
          /\ file' = [k \in Key |-> IF k \in R THEN Encode(k, db[k]) ELSE file[k]]
          /\ agenda' = (agenda \ {s}) \cup FollowUp(s, R)
          /\ whole' = IF quiet /\ R = Answer(s) THEN whole ELSE None
    /\ IF agenda' = {}
       THEN pc' = "saved" /\ quiet' = TRUE
       ELSE UNCHANGED <<pc, quiet>>
    /\ UNCHANGED <<db, cleared, gone, mine, todo, fresh>>

(* A statement fails, and with it the export: there is no file.            *)
ExportFails ==
    /\ pc = "export"
    /\ pc' = "idle"
    /\ file' = Empty /\ agenda' = {}
    /\ whole' = None /\ quiet' = TRUE
    /\ UNCHANGED <<db, cleared, gone, mine, todo, upsets, fresh>>

-----------------------------------------------------------------------------
(* Restore                                                                 *)

(* Mutant of Clearing: the configuration is forgotten.                     *)
ClearingOperational == <<"links", "leaders", "members", "names", "accounts", "teams",
                   "repositories", "users">>

(* The order in which the tables are cleared.                              *)
Clearing == <<"links", "leaders", "members", "names", "accounts", "teams",
              "repositories", "users", "config">>

(* In which order the rows are inserted: those of a user or team follow it.*)
Group(k) == CASE Table[k] \in {"users", "names"} -> 1
              [] Table[k] = "accounts" -> 2
              [] Table[k] = "repositories" -> 3
              [] Table[k] \in {"teams", "leaders", "members", "links"} -> 4
              [] Table[k] = "config" -> 5

Restore ==
    /\ pc = "saved"
    /\ pc' = "clear"
    /\ todo' = Rows(file)
    /\ UNCHANGED <<db, file, agenda, cleared, gone, mine, upsets, quiet, whole, fresh>>

(* Mutant of Clear: only the inserts are in the transaction.               *)
ClearAtOnce ==
    LET R == {k \in Rows(db) : Table[k] = Clearing[cleared + 1]} IN
    /\ pc = "clear"
    /\ db' = [k \in Key |-> IF k \in R \/ Parents[k] \cap R # {} THEN NoRow ELSE db[k]]
    /\ cleared' = cleared + 1
    /\ pc' = IF cleared' = Len(Clearing) THEN "insert" ELSE "clear"
    /\ UNCHANGED <<file, agenda, gone, mine, todo, upsets, quiet, whole, fresh>>

(* Mutant of Clear: the foreign keys do not cascade.                       *)
ClearTable ==
    /\ pc = "clear"
    /\ gone' = gone \cup {k \in Rows(db) : Table[k] = Clearing[cleared + 1]}
    /\ cleared' = cleared + 1
    /\ pc' = IF cleared' = Len(Clearing) THEN "insert" ELSE "clear"
    /\ UNCHANGED <<db, file, agenda, mine, todo, upsets, quiet, whole, fresh>>

(* DELETE FROM a table, and the rows that refer to what it deletes.        *)
Clear ==
    LET R == {k \in Rows(db) : Table[k] = Clearing[cleared + 1]} IN
    /\ pc = "clear"
    /\ gone' = gone \cup R \cup {k \in Rows(db) : Parents[k] \cap R # {}}
    /\ cleared' = cleared + 1
    /\ pc' = IF cleared' = Len(Clearing) THEN "insert" ELSE "clear"
    /\ UNCHANGED <<db, file, agenda, mine, todo, upsets, quiet, whole, fresh>>

(* What the transaction sees.                                              *)
Seen == (Rows(db) \ gone) \cup mine

Admissible(k) ==
    /\ k \notin Seen
    /\ Rivals[k] \cap Seen = {}
    /\ Parents[k] \subseteq Seen

Following(k) ==
    /\ pc = "insert"
    /\ k \in todo
    /\ Owner[k] \notin todo
    /\ \A j \in todo : Group(k) <= Group(j)

Insert(k) ==
    /\ Following(k)
    /\ Admissible(k)
    /\ mine' = mine \cup {k}
    /\ todo' = todo \ {k}
    /\ UNCHANGED <<db, file, pc, agenda, cleared, gone, upsets, quiet, whole, fresh>>

(* A key refuses the row: the transaction is rolled back.                  *)
Refused(k) ==
    /\ Following(k)
    /\ ~Admissible(k)
    /\ pc' = "refused"
    /\ gone' = {} /\ mine' = {} /\ todo' = {}
    /\ UNCHANGED <<db, file, agenda, cleared, upsets, quiet, whole, fresh>>

Commit ==
    /\ pc = "insert" /\ todo = {}
    /\ db' = [k \in Key |-> IF k \in mine THEN Decode(file[k])
                            ELSE IF k \in gone THEN NoRow ELSE db[k]]
    /\ pc' = "restored"
    /\ gone' = {} /\ mine' = {}
    /\ UNCHANGED <<file, agenda, cleared, todo, upsets, quiet, whole, fresh>>

(* A statement fails, or the commit does: rolled back.                     *)
RestoreFails ==
    /\ pc \in {"clear", "insert"}
    /\ pc' = "saved"
    /\ gone' = {} /\ mine' = {} /\ todo' = {} /\ cleared' = 0
    /\ quiet' = TRUE /\ fresh' = {}
    /\ UNCHANGED <<db, file, agenda, upsets, whole>>

(* The administrator has the answer, and the file still.                   *)
Done ==
    /\ pc \in {"restored", "refused"}
    /\ pc' = "saved"
    /\ cleared' = 0
    /\ quiet' = TRUE /\ fresh' = {}
    /\ UNCHANGED <<db, file, agenda, gone, mine, todo, upsets, whole>>

(* The next backup.                                                        *)
Discard ==
    /\ pc = "saved"
    /\ pc' = "idle"
    /\ file' = Empty /\ whole' = None
    /\ UNCHANGED <<db, agenda, cleared, gone, mine, todo, upsets, quiet, fresh>>

-----------------------------------------------------------------------------
(* Other handlers                                                          *)

Restoring == pc \in {"clear", "insert", "restored", "refused"}

Written(K) ==
    /\ upsets < MaxUpsets /\ upsets' = upsets + 1
    /\ quiet' = (pc \in {"idle", "saved"})
    /\ fresh' = IF Restoring THEN fresh \cup K ELSE fresh
    /\ UNCHANGED <<pc, whole, request>>

(* Rows of others must not touch what the transaction has locked.          *)
Locked == gone \cup mine

(* What one statement writes, a row, or the transaction that creates a     *)
(* team: the team, and one user as its leader and its member.              *)
Batches ==
    {{k} : k \in {j \in Key : Table[j] # "teams"}} \cup
    {{Owner[x[1]]} \cup {x[1], x[2]} :
        x \in {y \in Key \X Key : /\ Table[y[1]] = "leaders" /\ Table[y[2]] = "members"
                                 /\ Parents[y[1]] = Parents[y[2]]}}

(* A user or a team is created under a random id, which is neither in the   *)
(* tables nor in the file.                                                  *)
Created(k) == Table[k] \in {"users", "teams"}

Put(K, v) ==
    /\ \A k \in K :
          /\ v \in Values[k]
          /\ Created(k) => k \notin Rows(db) \cup Rows(file)
          /\ ({k} \cup Rivals[k]) \cap Locked = {}
          /\ Rivals[k] \cap Rows(db) = {}
          /\ Parents[k] \subseteq K \cup (Rows(db) \ gone)
    /\ db' = [k \in Key |-> IF k \in K THEN v ELSE db[k]]
    /\ Written(K)

(* Handlers delete users, accounts, teams and what relates them.           *)
Delete(k) ==
    LET R == {k} \cup {j \in Rows(db) : k \in Parents[j]} IN
    /\ Table[k] \notin {"names", "repositories", "config"}
    /\ k \in Rows(db)
    /\ R \cap Locked = {}
    /\ \A j \in mine : k \notin Parents[j]
    /\ db' = [j \in Key |-> IF j \in R THEN NoRow ELSE db[j]]
    /\ Written({})

Others ==
    \/ \E K \in Batches, v \in Val : Put(K, v)
    \/ \E k \in Key : Delete(k)

Next ==
    \/ Export \/ (\E s \in agenda : Read(s)) \/ ExportFails
    \/ Restore \/ Clear \/ (\E k \in todo : Insert(k)) \/ (\E k \in todo : Refused(k))
    \/ Commit \/ RestoreFails \/ Done \/ Discard
    \/ Others

Spec == Init /\ [][Next]_vars

-----------------------------------------------------------------------------
(* Types, and that the foreign keys and unique indexes hold at all times.  *)
TypeOK ==
    /\ db \in [Key -> Val \cup {NoRow}]
    /\ Consistent(db)
    /\ file \in [Key -> Val \cup Coded \cup {NoRow}]
    /\ pc \in {"idle", "export", "saved", "clear", "insert", "restored", "refused"}
    /\ agenda \subseteq Reads
    /\ cleared \in 0..Len(Clearing)
    /\ gone \subseteq Rows(db)
    /\ mine \subseteq Key /\ todo \subseteq Key
    /\ upsets \in 0..MaxUpsets
    /\ quiet \in BOOLEAN
    /\ whole \in [Key -> Val \cup {NoRow}] \cup {None}
    /\ fresh \subseteq Key

(* Restoring is one step for everybody else: it leaves the tables alone    *)
(* until all rows of the file are in them (pgx_backup_repo.go:74, :168).   *)
RestoreAllOrNothing ==
    [][upsets' = upsets /\ db' # db =>
          \A k \in Rows(file) : db'[k] = Decode(file[k])]_vars

(* "Restore overwrites all operational data": what is there after it and   *)
(* was not in the file has been written while it ran                       *)
(* (pgx_backup_repo.go:80).                                                *)
LeftoversAreNew ==
    pc = "restored" => Rows(db) \subseteq Rows(file) \cup fresh

(* A backup written while nothing else was, and restored likewise, is      *)
(* accepted, and brings the database back as it was, tokens included.      *)
RoundTrip ==
    whole # None /\ quiet =>
        /\ pc # "refused"
        /\ pc = "restored" => db = whole
=============================================================================
