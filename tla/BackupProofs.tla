---------------------------- MODULE BackupProofs ----------------------------
(***************************************************************************)
(* Proofs about Backup, for any tables, keys, databases to begin with and  *)
(* number of statements of other handlers.                                 *)
(***************************************************************************)
EXTENDS Backup, TLAPS

Last == 9

(* What the variables of a request hold while it does what.                *)
Phases ==
    /\ pc \in {"idle", "export", "saved"} => cleared = 0 /\ fresh = {}
    /\ pc \in {"idle", "saved"} => quiet
    /\ pc = "clear" => cleared < Last /\ todo = Rows(file)
    /\ pc = "insert" => cleared = Last /\ mine \cup todo = Rows(file) /\ mine \cap todo = {}
    /\ pc \notin {"clear", "insert"} => gone = {} /\ todo = {}
    /\ pc # "insert" => mine = {}
    /\ pc # "export" => agenda = {}

(* What the transaction sees is consistent, for what others do to the rows *)
(* that its rows need has to wait for it.                                  *)
SeenConsistent ==
    \A k \in Seen : Parents[k] \subseteq Seen /\ Rivals[k] \cap Seen = {}

(* A table that has been cleared holds nothing but what came since.        *)
Swept ==
    pc \in {"clear", "insert"} =>
        \A k \in Rows(db) \ gone :
            k \in fresh \/ Table[k] \notin {Clearing[i] : i \in 1..cleared}

(* The statement that is to read the row of key k, or one that leads to it. *)
Source(k) == [table |-> Table[k], of |-> Owner[k]]

Due(k) ==
    \/ Source(k) \in agenda
    \/ Table[k] = "names" /\ All("users") \in agenda
    \/ /\ Table[k] \in {"leaders", "members", "links"}
       /\ \/ All("teams") \in agenda
          \/ [table |-> "leaders", of |-> Owner[k]] \in agenda
          \/ Table[k] = "links" /\ [table |-> "members", of |-> Owner[k]] \in agenda

(* While nobody else writes, what is in the file is right, and what is not *)
(* is still to be read.                                                    *)
Copying ==
    pc = "export" /\ quiet /\ whole # None =>
        /\ db = whole
        /\ \A k \in Key : file[k] # NoRow => db[k] # NoRow /\ file[k] = Encode(k, db[k])
        /\ \A k \in Rows(db) : k \in Rows(file) \/ Due(k)

Copied ==
    whole # None =>
        /\ pc # "idle" /\ Consistent(whole)
        /\ pc # "export" =>
              \A k \in Key : file[k] = IF whole[k] = NoRow THEN NoRow ELSE Encode(k, whole[k])

Quiet == quiet => fresh = {}

BackupInv ==
    /\ TypeOK
    /\ Phases
    /\ SeenConsistent
    /\ Swept /\ LeftoversAreNew
    /\ Copying /\ Copied /\ Quiet /\ RoundTrip

-----------------------------------------------------------------------------
(* What the rest needs of the tables: those that are referred to refer to  *)
(* none themselves, and rivals are in the same table.                      *)
LEMMA Schema ==
    ASSUME NEW k \in Key
    PROVE  /\ Parents[k] \subseteq Key /\ Rivals[k] \subseteq Key
           /\ \A p \in Parents[k] : Parents[p] = {}
           /\ k \notin Parents[k]
           /\ \A j \in Rivals[k] : k \in Rivals[j] /\ Table[j] = Table[k]
           /\ k \notin Rivals[k]
<1>1. /\ Parents[k] \subseteq Key /\ Rivals[k] \subseteq Key /\ k \notin Rivals[k]
      /\ \A j \in Rivals[k] : k \in Rivals[j] /\ Table[j] = Table[k]
      /\ \A p \in Parents[k] : <<Table[p], Table[k]>> \in References
      /\ \A p \in Parents[k] : \A q \in Parents[p] : <<Table[q], Table[p]>> \in References
    BY BackupAssumption
<1>2. \A x, y, z : <<x, y>> \in References => <<y, z>> \notin References
    BY DEF References
<1>3. QED
    BY <1>1, <1>2

LEMMA OwnerFacts ==
    ASSUME NEW k \in Key
    PROVE  /\ Owner[k] # None <=> Table[k] \in {"names", "leaders", "members", "links"}
           /\ Owner[k] # None => Owner[k] \in Parents[k] /\ Owner[k] \in Key
           /\ \A p \in Parents[k] : p = Owner[k] <=> Table[p] = "teams" \/ Table[k] = "names"
           /\ \A p \in Parents[k] : <<Table[p], Table[k]>> \in References
           /\ Table[k] = "names" => Table[Owner[k]] = "users"
           /\ Table[k] \in {"leaders", "members", "links"} => Table[Owner[k]] = "teams"
<1>1. /\ Owner[k] # None <=> Table[k] \in {"names", "leaders", "members", "links"}
      /\ Owner[k] # None => Owner[k] \in Parents[k] /\ Owner[k] \in Key
      /\ \A p \in Parents[k] : p = Owner[k] <=> Table[p] = "teams" \/ Table[k] = "names"
      /\ \A p \in Parents[k] : <<Table[p], Table[k]>> \in References
    BY BackupAssumption
<1>2. Table[k] = "names" => Table[Owner[k]] = "users"
    BY <1>1 DEF References
<1>3. Table[k] \in {"leaders", "members", "links"} => Table[Owner[k]] = "teams"
    BY <1>1
<1>4. QED
    BY <1>1, <1>2, <1>3

LEMMA BatchFacts ==
    ASSUME NEW K \in Batches
    PROVE  K \subseteq Key /\ \A j, k \in K : k \notin Rivals[j]
<1>1. CASE \E k \in Key : K = {k}
    BY <1>1, Schema
<1>2. CASE \E l, m \in Key : /\ Table[l] = "leaders" /\ Table[m] = "members"
                             /\ K = {Owner[l]} \cup {l, m}
  <2>1. PICK l, m \in Key : /\ Table[l] = "leaders" /\ Table[m] = "members"
                            /\ K = {Owner[l]} \cup {l, m}
      BY <1>2
  <2>2. Owner[l] \in Parents[l] /\ Owner[l] \in Key /\ Table[Owner[l]] = "teams"
      BY <2>1, OwnerFacts
  <2>3. QED
      BY <2>1, <2>2, Schema
<1>3. QED
    BY <1>1, <1>2 DEF Batches

LEMMA DecodeType ==
    ASSUME NEW x \in Val \cup Coded
    PROVE  Decode(x) \in Val
BY DEF Decode, Coded

LEMMA EncodeType ==
    ASSUME NEW k, NEW v \in Val
    PROVE  Encode(k, v) \in Val \cup Coded /\ Encode(k, v) # NoRow /\ Decode(Encode(k, v)) = v
<1>1. v \notin Coded /\ v # NoRow /\ [base64 |-> v] \in Coded /\ [base64 |-> v].base64 = v
    BY BackupAssumption DEF Coded
<1>2. NoRow \notin Coded
    BY BackupAssumption
<1>3. CASE Encode(k, v) = v
    BY <1>1, <1>3 DEF Decode
<1>4. CASE Encode(k, v) = [base64 |-> v]
  <2>1. Decode([base64 |-> v]) = v
      BY <1>1 DEF Decode
  <2>2. QED
      BY <1>1, <1>2, <1>4, <2>1
<1>5. QED
    BY <1>3, <1>4 DEF Encode

-----------------------------------------------------------------------------
(* What the steps do to the rows.                                          *)
LEMMA SameRows ==
    ASSUME UNCHANGED db
    PROVE  Rows(db') = Rows(db) /\ (Consistent(db) => Consistent(db'))
BY DEF Rows, Consistent

LEMMA CommitRows ==
    ASSUME BackupInv, Commit
    PROVE  /\ db' \in [Key -> Val \cup {NoRow}]
           /\ Rows(db') = Seen /\ Seen' = Seen /\ Consistent(db')
           /\ mine = Rows(file)
<1>1. pc = "insert" /\ mine = Rows(file)
    BY DEF Commit, BackupInv, Phases
<1>2. \A k \in mine : k \in Key /\ file[k] \in Val \cup Coded
    BY <1>1 DEF BackupInv, TypeOK, Rows
<1>3. \A k \in mine : Decode(file[k]) \in Val
    BY <1>2, DecodeType
<1>4. NoRow \notin Val
    BY BackupAssumption
<1>5. db' \in [Key -> Val \cup {NoRow}]
    BY <1>3 DEF Commit, BackupInv, TypeOK
<1>6. Rows(db') = Seen
    BY <1>2, <1>3, <1>4 DEF Commit, BackupInv, TypeOK, Rows, Seen
<1>7. Seen' = Seen
    BY <1>6 DEF Commit, Seen
<1>8. Consistent(db')
    BY <1>6 DEF Consistent, BackupInv, SeenConsistent
<1>9. QED
    BY <1>1, <1>5, <1>6, <1>7, <1>8

LEMMA PutRows ==
    ASSUME BackupInv, NEW K \in Batches, NEW v \in Val, Put(K, v)
    PROVE  /\ db' \in [Key -> Val \cup {NoRow}]
           /\ Rows(db') = Rows(db) \cup K /\ Seen' = Seen \cup K
           /\ Consistent(db') /\ SeenConsistent'
           /\ K \cap Locked = {}
<1>1. K \subseteq Key /\ \A j, k \in K : k \notin Rivals[j]
    BY BatchFacts
<1>2. v # NoRow
    BY BackupAssumption
<1>3. db' \in [Key -> Val \cup {NoRow}]
    BY DEF Put, BackupInv, TypeOK
<1>4. Rows(db') = Rows(db) \cup K
    BY <1>1, <1>2 DEF Put, BackupInv, TypeOK, Rows
<1>5. K \cap Locked = {}
    BY DEF Put
<1>6. gone' = gone /\ mine' = mine
    BY DEF Put, Written, request
<1>7. Seen' = Seen \cup K
    BY <1>4, <1>5, <1>6 DEF Seen, Locked
<1>8. \A k \in K : /\ Rivals[k] \cap Locked = {} /\ Rivals[k] \cap Rows(db) = {}
                   /\ Parents[k] \subseteq K \cup (Rows(db) \ gone)
    BY DEF Put
<1>9. \A k \in K : \A j \in Key : k \in Rivals[j] => j \in Rivals[k]
    BY <1>1, Schema
<1>10. Rows(db) \subseteq Key /\ Seen \subseteq Key /\ Seen \subseteq Rows(db) \cup Locked
    BY DEF Rows, Seen, Locked, BackupInv, TypeOK
<1>11. Consistent(db')
  <2>1. \A k \in Rows(db) : Parents[k] \subseteq Rows(db) /\ Rivals[k] \cap Rows(db) = {}
      BY DEF BackupInv, TypeOK, Consistent
  <2>2. QED
      BY <1>1, <1>4, <1>8, <1>9, <1>10, <2>1 DEF Consistent
<1>12. SeenConsistent'
  <2>1. \A k \in Seen : Parents[k] \subseteq Seen /\ Rivals[k] \cap Seen = {}
      BY DEF BackupInv, SeenConsistent
  <2>2. \A k \in K : Parents[k] \subseteq K \cup Seen /\ Rivals[k] \cap Seen = {}
      BY <1>8, <1>10 DEF Seen
  <2>3. \A k \in Seen \cup K : /\ Parents[k] \subseteq Seen \cup K
                               /\ Rivals[k] \cap (Seen \cup K) = {}
      BY <1>1, <1>9, <1>10, <2>1, <2>2
  <2>4. QED
      BY <1>7, <2>3 DEF SeenConsistent
<1>13. QED
    BY <1>3, <1>4, <1>5, <1>7, <1>11, <1>12

LEMMA DeleteRows ==
    ASSUME BackupInv, NEW k \in Key, Delete(k)
    PROVE  /\ db' \in [Key -> Val \cup {NoRow}]
           /\ Rows(db') \subseteq Rows(db) /\ gone' \subseteq Rows(db')
           /\ Consistent(db') /\ SeenConsistent'
<1> DEFINE R == {k} \cup {j \in Rows(db) : k \in Parents[j]}
<1>1. /\ R \cap Locked = {}
      /\ \A j \in mine : k \notin Parents[j]
      /\ db' = [j \in Key |-> IF j \in R THEN NoRow ELSE db[j]]
      /\ gone' = gone /\ mine' = mine
    BY DEF Delete, Written, request
<1>2. db' \in [Key -> Val \cup {NoRow}]
    BY <1>1 DEF BackupInv, TypeOK
<1>3. Rows(db') = Rows(db) \ R
    BY <1>1 DEF Rows
<1>4. Seen' = Seen \ R
    BY <1>1, <1>3 DEF Seen, Locked
<1>5. Rows(db) \subseteq Key /\ Seen \subseteq Key /\ Seen \subseteq Rows(db) \cup mine
    BY DEF Rows, Seen, BackupInv, TypeOK
<1>6. \A j \in Key : \A p \in Parents[j] : p \in R => p = k
    BY Schema
<1>7. Consistent(db')
  <2>1. \A j \in Rows(db) : Parents[j] \subseteq Rows(db) /\ Rivals[j] \cap Rows(db) = {}
      BY DEF BackupInv, TypeOK, Consistent
  <2>2. QED
      BY <1>3, <1>5, <1>6, <2>1 DEF Consistent
<1>8. SeenConsistent'
  <2>1. \A j \in Seen : Parents[j] \subseteq Seen /\ Rivals[j] \cap Seen = {}
      BY DEF BackupInv, SeenConsistent
  <2>2. \A j \in Seen \ R : Parents[j] \subseteq Seen \ R /\ Rivals[j] \cap (Seen \ R) = {}
      BY <1>1, <1>5, <1>6, <2>1
  <2>3. QED
      BY <1>4, <2>2 DEF SeenConsistent
<1>9. gone' \subseteq Rows(db')
    BY <1>1, <1>3 DEF Locked, BackupInv, TypeOK
<1>10. QED
    BY <1>2, <1>3, <1>7, <1>8, <1>9

LEMMA ClearSeen ==
    ASSUME BackupInv, Clear
    PROVE  SeenConsistent' /\ gone' \subseteq Rows(db') /\ gone \subseteq gone'
<1> DEFINE R == {k \in Rows(db) : Table[k] = Clearing[cleared + 1]}
           C == {k \in Rows(db) : Parents[k] \cap R # {}}
<1>1. gone' = gone \cup R \cup C /\ mine' = mine /\ mine = {} /\ db' = db
    BY DEF Clear, BackupInv, Phases
<1>2. Seen = Rows(db) \ gone /\ Seen' = Seen \ (R \cup C) /\ Seen \subseteq Key
    BY <1>1 DEF Seen, Rows
<1>3. \A k \in Seen : Parents[k] \subseteq Seen /\ Rivals[k] \cap Seen = {}
    BY DEF BackupInv, SeenConsistent
<1>4. \A k \in Key : \A p \in Parents[k] : p \notin C
    BY Schema
<1>5. \A k \in Seen \ (R \cup C) : Parents[k] \subseteq Seen \ (R \cup C)
    BY <1>2, <1>3, <1>4
<1>6. SeenConsistent'
    BY <1>2, <1>3, <1>5 DEF SeenConsistent
<1>7. gone' \subseteq Rows(db')
    BY <1>1 DEF BackupInv, TypeOK, Rows
<1>8. QED
    BY <1>1, <1>6, <1>7

LEMMA InsertSeen ==
    ASSUME BackupInv, NEW k \in todo, Insert(k)
    PROVE  SeenConsistent'
<1>1. k \in Key /\ Seen \subseteq Key
    BY DEF BackupInv, TypeOK, Seen, Rows
<1>2. Seen' = Seen \cup {k}
    BY DEF Insert, Seen, Rows
<1>3. k \notin Seen /\ Rivals[k] \cap Seen = {} /\ Parents[k] \subseteq Seen
    BY DEF Insert, Admissible
<1>4. \A j \in Key : k \in Rivals[j] => j \in Rivals[k]
    BY <1>1, Schema
<1>5. \A j \in Seen : Parents[j] \subseteq Seen /\ Rivals[j] \cap Seen = {}
    BY DEF BackupInv, SeenConsistent
<1>6. k \notin Rivals[k]
    BY <1>1, Schema
<1>7. QED
    BY <1>1, <1>2, <1>3, <1>4, <1>5, <1>6 DEF SeenConsistent

-----------------------------------------------------------------------------
(* The invariant is inductive.                                             *)
LEMMA InitHolds == Init => BackupInv
<1> SUFFICES ASSUME Init PROVE BackupInv
    OBVIOUS
<1>1. db \in [Key -> Val \cup {NoRow}] /\ Consistent(db)
    BY BackupAssumption DEF Init
<1>2. TypeOK
  <2>1. cleared \in 0..Len(Clearing)
      BY DEF Init, Clearing
  <2>2. file \in [Key -> Val \cup Coded \cup {NoRow}] /\ upsets \in 0..MaxUpsets
    <3>1. MaxUpsets \in Nat
        BY BackupAssumption
    <3>2. QED
        BY <3>1 DEF Init, Empty
  <2>3. QED
      BY <1>1, <2>1, <2>2 DEF Init, TypeOK
<1>3. Seen = Rows(db)
    BY DEF Init, Seen
<1>4. SeenConsistent
    BY <1>1, <1>3 DEF SeenConsistent, Consistent
<1>5. Phases /\ Swept /\ LeftoversAreNew /\ Copying /\ Copied /\ Quiet /\ RoundTrip
    BY DEF Init, Phases, Swept, LeftoversAreNew, Copying, Copied, Quiet, RoundTrip
<1>6. QED
    BY <1>2, <1>4, <1>5 DEF BackupInv

LEMMA AnswerFacts ==
    ASSUME BackupInv, NEW s \in agenda, NEW R \in SUBSET Answer(s)
    PROVE  /\ \A k \in R : k \in Key /\ k \in Rows(db) /\ Table[k] = s.table /\ db[k] \in Val
           /\ FollowUp(s, R) \subseteq Reads
<1>1. \A k \in R : k \in Key /\ k \in Rows(db) /\ Table[k] = s.table /\ db[k] \in Val
    BY DEF Answer, Rows, BackupInv, TypeOK
<1>2. s \in Reads
    BY DEF BackupInv, TypeOK
<1>3. [s EXCEPT !.table = "members"] \in Reads /\ [s EXCEPT !.table = "links"] \in Reads
    BY <1>2 DEF Reads, Tables
<1>4. \A k \in R : /\ [table |-> "names", of |-> k] \in Reads
                   /\ [table |-> "leaders", of |-> k] \in Reads
    BY <1>1 DEF Reads, Tables
<1>5. QED
    BY <1>1, <1>3, <1>4 DEF FollowUp

LEMMA TypeKept ==
    ASSUME BackupInv, [Next]_vars
    PROVE  TypeOK'
<1> USE DEF BackupInv
<1>a. MaxUpsets \in Nat /\ NoRow \notin Val
    BY BackupAssumption
<1>1. CASE Export
  <2>1. agenda' \subseteq Reads
      BY <1>1 DEF Export, Reads, All, Tables
  <2>2. file' \in [Key -> Val \cup Coded \cup {NoRow}]
      BY <1>1 DEF Export, Empty
  <2>3. QED
      BY <1>1, <2>1, <2>2, SameRows DEF Export, TypeOK
<1>2. CASE \E s \in agenda : Read(s)
  <2>1. PICK s \in agenda : Read(s)
      BY <1>2
  <2>2. PICK R \in SUBSET Answer(s) :
            /\ upsets' = IF R = Answer(s) THEN upsets ELSE upsets + 1
            /\ upsets' <= MaxUpsets
            /\ file' = [k \in Key |-> IF k \in R THEN Encode(k, db[k]) ELSE file[k]]
            /\ agenda' = (agenda \ {s}) \cup FollowUp(s, R)
            /\ whole' = IF quiet /\ R = Answer(s) THEN whole ELSE None
      BY <2>1 DEF Read
  <2>3. agenda' \subseteq Reads /\ \A k \in R : db[k] \in Val
      BY <2>2, AnswerFacts DEF TypeOK
  <2>4. \A k \in R : Encode(k, db[k]) \in Val \cup Coded
      BY <2>3, EncodeType
  <2>5. file' \in [Key -> Val \cup Coded \cup {NoRow}]
      BY <2>2, <2>4 DEF TypeOK
  <2>6. upsets' \in 0..MaxUpsets
      BY <1>a, <2>2 DEF TypeOK
  <2>7. /\ pc' \in {pc, "saved"} /\ quiet' \in BOOLEAN
        /\ UNCHANGED <<db, cleared, gone, mine, todo>> /\ fresh' = fresh
      BY <2>1 DEF Read, TypeOK
  <2>8. QED
      BY <2>2, <2>3, <2>5, <2>6, <2>7, SameRows DEF TypeOK
<1>3. CASE ExportFails
  <2>1. file' \in [Key -> Val \cup Coded \cup {NoRow}]
      BY <1>3 DEF ExportFails, Empty
  <2>2. QED
      BY <1>3, <2>1, SameRows DEF ExportFails, TypeOK
<1>4. CASE Restore
    BY <1>4, SameRows DEF Restore, TypeOK, Rows
<1>5. CASE Clear
  <2>1. cleared \in Nat /\ cleared < Last /\ pc = "clear"
      BY <1>5 DEF Clear, Phases, TypeOK, Clearing
  <2>2. cleared' \in 0..Len(Clearing) /\ pc' \in {"insert", "clear"}
      BY <1>5, <2>1 DEF Clear, Last, Clearing
  <2>3. QED
      BY <1>5, <2>2, ClearSeen, SameRows DEF Clear, TypeOK
<1>6. CASE \E k \in todo : Insert(k)
    BY <1>6, SameRows DEF Insert, TypeOK
<1>7. CASE \E k \in todo : Refused(k)
    BY <1>7, SameRows DEF Refused, TypeOK
<1>8. CASE Commit
    BY <1>8, CommitRows DEF Commit, TypeOK
<1>9. CASE RestoreFails
    BY <1>9, SameRows DEF RestoreFails, TypeOK, Clearing
<1>10. CASE Done
    BY <1>10, SameRows DEF Done, TypeOK, Clearing
<1>11. CASE Discard
  <2>1. file' \in [Key -> Val \cup Coded \cup {NoRow}]
      BY <1>11 DEF Discard, Empty
  <2>2. QED
      BY <1>11, <2>1, SameRows DEF Discard, TypeOK
<1>12. ASSUME NEW K \in Batches, NEW v \in Val, Put(K, v)
       PROVE  TypeOK'
  <2>1. /\ db' \in [Key -> Val \cup {NoRow}] /\ Consistent(db')
        /\ Rows(db') = Rows(db) \cup K
      BY <1>12, PutRows
  <2>2. K \subseteq Key
      BY BatchFacts
  <2>3. Written(K)
      BY <1>12 DEF Put
  <2>4. fresh' \subseteq Key /\ quiet' \in BOOLEAN /\ upsets' \in 0..MaxUpsets
      BY <1>a, <2>2, <2>3 DEF Written, TypeOK
  <2>5. UNCHANGED <<pc, whole, file, agenda, cleared, gone, mine, todo>>
      BY <2>3 DEF Written, request
  <2>6. QED
      BY <2>1, <2>4, <2>5 DEF TypeOK
<1>13. ASSUME NEW k \in Key, Delete(k)
       PROVE  TypeOK'
  <2>1. /\ db' \in [Key -> Val \cup {NoRow}] /\ Consistent(db')
        /\ gone' \subseteq Rows(db')
      BY <1>13, DeleteRows
  <2>2. Written({})
      BY <1>13 DEF Delete
  <2>3. fresh' \subseteq Key /\ quiet' \in BOOLEAN /\ upsets' \in 0..MaxUpsets
      BY <1>a, <2>2 DEF Written, TypeOK
  <2>4. UNCHANGED <<pc, whole, file, agenda, cleared, mine, todo>>
      BY <2>2 DEF Written, request
  <2>5. QED
      BY <2>1, <2>3, <2>4 DEF TypeOK
<1>14. CASE UNCHANGED vars
    BY <1>14, SameRows DEF vars, TypeOK
<1>15. QED
    BY <1>1, <1>2, <1>3, <1>4, <1>5, <1>6, <1>7, <1>8, <1>9, <1>10, <1>11, <1>12, <1>13, <1>14
    DEF Next, Others

LEMMA SeenKept ==
    ASSUME BackupInv, [Next]_vars
    PROVE  SeenConsistent'
<1>1. ASSUME UNCHANGED <<db, gone, mine>> PROVE SeenConsistent'
  <2>1. Seen' = Seen
      BY <1>1 DEF Seen, Rows
  <2>2. QED
      BY <2>1 DEF SeenConsistent, BackupInv
<1>2. ASSUME UNCHANGED db, gone' = {}, mine' = {} PROVE SeenConsistent'
  <2>1. Seen' = Rows(db)
      BY <1>2 DEF Seen, Rows
  <2>2. QED
      BY <2>1 DEF SeenConsistent, Consistent, BackupInv, TypeOK
<1>3. CASE Commit
    BY <1>3, CommitRows DEF SeenConsistent, BackupInv
<1>4. QED
    BY <1>1, <1>2, <1>3, ClearSeen, InsertSeen, PutRows, DeleteRows
    DEF Next, Others, Export, Read, ExportFails, Restore, Refused, RestoreFails, Done,
        Discard, vars

LEMMA PhasesKept ==
    ASSUME BackupInv, [Next]_vars
    PROVE  Phases'
<1>1. Phases /\ todo \subseteq Key /\ Rows(file) \subseteq Key /\ cleared \in 0..Last
    BY DEF BackupInv, TypeOK, Rows, Clearing, Last
<1>2. CASE Export \/ ExportFails \/ Restore \/ RestoreFails \/ Done \/ Discard
    BY <1>1, <1>2 DEF Phases, Export, ExportFails, Restore, RestoreFails, Done, Discard, Last, Rows
<1>3. CASE \E s \in agenda : Read(s)
    BY <1>1, <1>3 DEF Phases, Read
<1>4. CASE Clear
  <2>1. Len(Clearing) = Last
      BY DEF Clearing, Last
  <2>2. QED
      BY <1>1, <1>4, <2>1 DEF Phases, Clear, Last, Rows
<1>5. CASE \E k \in todo : Insert(k)
    BY <1>1, <1>5 DEF Phases, Insert, Following, Rows
<1>6. CASE \E k \in todo : Refused(k)
    BY <1>1, <1>6 DEF Phases, Refused, Following
<1>7. CASE Commit
    BY <1>1, <1>7 DEF Phases, Commit
<1>8. CASE Others
  <2>1. PICK K : Written(K)
      BY <1>8 DEF Others, Put, Delete
  <2>2. QED
      BY <1>1, <2>1 DEF Phases, Written, request, Restoring, Rows
<1>9. CASE UNCHANGED vars
    BY <1>1, <1>9 DEF Phases, vars, Rows
<1>10. QED
    BY <1>2, <1>3, <1>4, <1>5, <1>6, <1>7, <1>8, <1>9 DEF Next

LEMMA SweptKept ==
    ASSUME BackupInv, [Next]_vars
    PROVE  Swept' /\ LeftoversAreNew' /\ Quiet'
<1> USE DEF BackupInv
<1>1. CASE Export \/ (\E s \in agenda : Read(s)) \/ ExportFails \/ Restore \/ RestoreFails
           \/ Done \/ Discard \/ (\E k \in todo : Refused(k))
  <2>1. pc' \notin {"insert", "restored"} /\ UNCHANGED db
      BY <1>1 DEF Export, Read, ExportFails, Restore, RestoreFails, Done, Discard, Refused
  <2>2. Swept'
      BY <1>1, <2>1 DEF Swept, Phases, Export, Read, ExportFails, Restore, RestoreFails,
              Done, Discard, Refused
  <2>3. Quiet'
      BY <1>1 DEF Quiet, Phases, Export, Read, ExportFails, Restore, RestoreFails, Done,
              Discard, Refused
  <2>4. QED
      BY <2>1, <2>2, <2>3 DEF LeftoversAreNew
<1>2. CASE Clear
  <2>1. \A k \in Rows(db) \ gone' : /\ k \in Rows(db) \ gone
                                    /\ Table[k] # Clearing[cleared + 1]
      BY <1>2 DEF Clear, Rows
  <2>2. cleared \in Nat /\ cleared' = cleared + 1 /\ pc = "clear" /\ pc' # "restored"
      BY <1>2 DEF Clear, TypeOK
  <2>3. \A i \in 1..cleared' : i \in 1..cleared \/ i = cleared + 1
      BY <2>2
  <2>4. UNCHANGED <<db, fresh, quiet>> /\ Rows(db') = Rows(db)
      BY <1>2 DEF Clear, Rows
  <2>5. Swept'
      BY <2>1, <2>2, <2>3, <2>4 DEF Swept
  <2>6. QED
      BY <2>2, <2>4, <2>5 DEF LeftoversAreNew, Quiet
<1>3. CASE \E k \in todo : Insert(k)
    BY <1>3 DEF Insert, Following, Swept, LeftoversAreNew, Quiet, Rows
<1>4. CASE Commit
  <2>1. pc = "insert" /\ cleared = Last /\ Rows(db) \subseteq Key
      BY <1>4 DEF Commit, Phases, Rows
  <2>2. \A t \in Tables : \E i \in 1..Last : Clearing[i] = t
    <3>1. /\ Clearing[1] = "links" /\ Clearing[2] = "leaders" /\ Clearing[3] = "members"
          /\ Clearing[4] = "names" /\ Clearing[5] = "accounts" /\ Clearing[6] = "teams"
          /\ Clearing[7] = "repositories" /\ Clearing[8] = "users" /\ Clearing[9] = "config"
        BY DEF Clearing
    <3>2. QED
        BY <3>1 DEF Tables, Last
  <2>3. \A k \in Rows(db) : Table[k] \in Tables
      BY <2>1, BackupAssumption
  <2>4. Rows(db) \ gone \subseteq fresh
      BY <2>1, <2>2, <2>3 DEF Swept
  <2>5. Rows(db') \subseteq fresh \cup Rows(file)
      BY <1>4, <2>4, CommitRows DEF Seen
  <2>6. UNCHANGED <<fresh, file, quiet>> /\ pc' = "restored"
      BY <1>4 DEF Commit
  <2>7. QED
      BY <2>5, <2>6 DEF Swept, LeftoversAreNew, Quiet, Rows
<1>5. ASSUME NEW K \in Batches, NEW v \in Val, Put(K, v)
      PROVE  Swept' /\ LeftoversAreNew' /\ Quiet'
  <2>1. Rows(db') = Rows(db) \cup K
      BY <1>5, PutRows
  <2>2. Written(K)
      BY <1>5 DEF Put
  <2>3. UNCHANGED <<pc, file, gone, cleared>>
      BY <2>2 DEF Written, request
  <2>4. pc \in {"clear", "insert", "restored"} => fresh' = fresh \cup K
      BY <2>2 DEF Written, Restoring
  <2>5. Quiet'
      BY <2>2 DEF Written, Quiet, Phases, Restoring
  <2>6. QED
      BY <2>1, <2>3, <2>4, <2>5 DEF Swept, LeftoversAreNew, Rows
<1>6. ASSUME NEW k \in Key, Delete(k)
      PROVE  Swept' /\ LeftoversAreNew' /\ Quiet'
  <2>1. Rows(db') \subseteq Rows(db)
      BY <1>6, DeleteRows
  <2>2. Written({})
      BY <1>6 DEF Delete
  <2>3. UNCHANGED <<pc, file, gone, cleared>> /\ fresh' = fresh
      BY <2>2 DEF Written, request
  <2>4. Quiet'
      BY <2>2 DEF Written, Quiet, Phases, Restoring
  <2>5. QED
      BY <2>1, <2>3, <2>4 DEF Swept, LeftoversAreNew, Rows
<1>7. CASE UNCHANGED vars
    BY <1>7 DEF vars, Swept, LeftoversAreNew, Quiet, Rows
<1>8. QED
    BY <1>1, <1>2, <1>3, <1>4, <1>5, <1>6, <1>7 DEF Next, Others

(* An answer brings the rows that were due from its statement, or their    *)
(* statement onto the agenda.                                              *)
LEMMA AnswerBrings ==
    ASSUME BackupInv, NEW s \in agenda, agenda' = (agenda \ {s}) \cup FollowUp(s, Answer(s)),
           NEW k \in Rows(db), Due(k)
    PROVE  k \in Answer(s) \/ Due(k)'
<1>1. k \in Key /\ Parents[k] \subseteq Rows(db)
    BY DEF Rows, Consistent, BackupInv, TypeOK
<1>2. CASE Source(k) \in agenda
    BY <1>1, <1>2 DEF Due, Source, Answer
<1>3. ASSUME Owner[k] # None, Table[Owner[k]] \in {"users", "teams"}, s = All(Table[Owner[k]])
      PROVE  Owner[k] \in Answer(s)
  <2>1. Owner[k] \in Rows(db) /\ Owner[k] \in Key
      BY <1>1, <1>3, OwnerFacts
  <2>2. Owner[Owner[k]] = None
      BY <1>3, <2>1, OwnerFacts
  <2>3. QED
      BY <1>3, <2>1, <2>2 DEF Answer, All
<1>4. CASE Table[k] = "names" /\ All("users") \in agenda
  <2>1. CASE s = All("users")
    <3>1. Owner[k] \in Answer(s)
        BY <1>1, <1>3, <1>4, <2>1, OwnerFacts
    <3>2. s.table = "users"
        BY <2>1 DEF All
    <3>3. Source(k) \in FollowUp(s, Answer(s))
        BY <1>4, <3>1, <3>2 DEF FollowUp, Source
    <3>4. QED
        BY <3>3 DEF Due, Source
  <2>2. CASE s # All("users")
      BY <1>4, <2>2 DEF Due
  <2>3. QED
      BY <2>1, <2>2
<1>5. CASE Table[k] \in {"leaders", "members", "links"} /\ All("teams") \in agenda
  <2>1. CASE s = All("teams")
    <3>1. Owner[k] \in Answer(s)
        BY <1>1, <1>3, <1>5, <2>1, OwnerFacts
    <3>2. s.table = "teams"
        BY <2>1 DEF All
    <3>3. [table |-> "leaders", of |-> Owner[k]] \in FollowUp(s, Answer(s))
        BY <3>1, <3>2 DEF FollowUp
    <3>4. QED
        BY <1>5, <3>3 DEF Due
  <2>2. CASE s # All("teams")
      BY <1>5, <2>2 DEF Due
  <2>3. QED
      BY <2>1, <2>2
<1>6. CASE /\ Table[k] \in {"leaders", "members", "links"}
           /\ [table |-> "leaders", of |-> Owner[k]] \in agenda
  <2>1. CASE s = [table |-> "leaders", of |-> Owner[k]]
    <3>1. [table |-> "members", of |-> Owner[k]] \in FollowUp(s, Answer(s))
        BY <2>1 DEF FollowUp
    <3>2. QED
        BY <1>1, <1>6, <2>1, <3>1 DEF Due, Source, Answer
  <2>2. CASE s # [table |-> "leaders", of |-> Owner[k]]
      BY <1>6, <2>2 DEF Due
  <2>3. QED
      BY <2>1, <2>2
<1>7. CASE Table[k] = "links" /\ [table |-> "members", of |-> Owner[k]] \in agenda
  <2>1. CASE s = [table |-> "members", of |-> Owner[k]]
    <3>1. [table |-> "links", of |-> Owner[k]] \in FollowUp(s, Answer(s))
        BY <2>1 DEF FollowUp
    <3>2. QED
        BY <1>7, <3>1 DEF Due, Source
  <2>2. CASE s # [table |-> "members", of |-> Owner[k]]
      BY <1>7, <2>2 DEF Due
  <2>3. QED
      BY <2>1, <2>2
<1>8. QED
    BY <1>2, <1>4, <1>5, <1>6, <1>7 DEF Due

LEMMA ReadCopies ==
    ASSUME BackupInv, NEW s \in agenda, Read(s)
    PROVE  Copying' /\ Copied' /\ RoundTrip'
<1> USE DEF BackupInv
<1>1. PICK R \in SUBSET Answer(s) :
            /\ file' = [k \in Key |-> IF k \in R THEN Encode(k, db[k]) ELSE file[k]]
            /\ agenda' = (agenda \ {s}) \cup FollowUp(s, R)
            /\ whole' = IF quiet /\ R = Answer(s) THEN whole ELSE None
    BY DEF Read
<1>2. /\ pc = "export" /\ UNCHANGED db
      /\ IF agenda' = {} THEN pc' = "saved" ELSE pc' = "export"
    BY DEF Read
<1>3. RoundTrip'
    BY <1>2 DEF RoundTrip
<1>4. SUFFICES ASSUME whole' # None
               PROVE  Copying' /\ Copied'
    BY <1>3 DEF Copying, Copied
<1>5. quiet /\ whole # None /\ whole' = whole /\ R = Answer(s)
    BY <1>1, <1>4
<1>6. /\ db = whole /\ Consistent(whole)
      /\ \A k \in Key : file[k] # NoRow => db[k] # NoRow /\ file[k] = Encode(k, db[k])
      /\ \A k \in Rows(db) : k \in Rows(file) \/ Due(k)
    BY <1>2, <1>5 DEF Copying, Copied
<1>7. \A k \in R : k \in Key /\ db[k] # NoRow /\ db[k] \in Val
    BY AnswerFacts DEF Rows
<1>8. \A k \in Key : file'[k] # NoRow => db[k] # NoRow /\ file'[k] = Encode(k, db[k])
    BY <1>1, <1>6, <1>7
<1>9. \A k \in Rows(db) : k \in Rows(file') \/ Due(k)'
  <2>1. \A k \in R : file'[k] # NoRow
      BY <1>1, <1>7, EncodeType
  <2>2. \A k \in Rows(file) : file'[k] # NoRow
      BY <1>1, <2>1 DEF Rows
  <2>3. \A k \in Rows(db) : Due(k) => k \in R \/ Due(k)'
      BY <1>1, <1>5, AnswerBrings
  <2>4. QED
      BY <1>6, <1>7, <2>1, <2>2, <2>3 DEF Rows
<1>10. Copying'
    BY <1>2, <1>5, <1>6, <1>8, <1>9 DEF Copying, Rows
<1>11. Copied'
  <2>1. CASE agenda' = {}
    <3>1. \A k \in Key : ~Due(k)'
        BY <2>1 DEF Due
    <3>2. \A k \in Key : db[k] # NoRow => file'[k] # NoRow
        BY <1>9, <3>1 DEF Rows
    <3>3. \A k \in Key : file'[k] = IF db[k] = NoRow THEN NoRow ELSE Encode(k, db[k])
        BY <1>8, <3>2
    <3>4. QED
        BY <1>2, <1>5, <1>6, <2>1, <3>3 DEF Copied, Consistent, Rows
  <2>2. CASE agenda' # {}
      BY <1>2, <1>5, <1>6, <2>2 DEF Copied, Consistent, Rows
  <2>3. QED
      BY <2>1, <2>2
<1>12. QED
    BY <1>3, <1>10, <1>11

LEMMA ExportBegins ==
    ASSUME BackupInv, Export
    PROVE  Copying' /\ Copied' /\ RoundTrip'
<1> USE DEF BackupInv
<1>1. /\ db' = db /\ whole' = db /\ pc' = "export" /\ file' = Empty
      /\ agenda' = {All(t) : t \in {"users", "accounts", "teams", "repositories", "config"}}
    BY DEF Export
<1>2. \A k \in Rows(db) : Due(k)'
  <2>1. SUFFICES ASSUME NEW k \in Key
                 PROVE  Due(k)'
      BY DEF Rows
  <2>2. Table[k] \in Tables
      BY BackupAssumption
  <2>3. CASE Table[k] \in {"users", "accounts", "teams", "repositories", "config"}
    <3>1. Owner[k] = None
        BY <2>3, OwnerFacts
    <3>2. Source(k) = All(Table[k])
        BY <3>1 DEF Source, All
    <3>3. QED
        BY <1>1, <2>3, <3>2 DEF Due, Source
  <2>4. CASE Table[k] \in {"names", "leaders", "members", "links"}
    <3>1. All("users") \in agenda' /\ All("teams") \in agenda'
        BY <1>1
    <3>2. QED
        BY <2>4, <3>1 DEF Due, All
  <2>5. QED
      BY <2>2, <2>3, <2>4 DEF Tables
<1>3. Copying'
    BY <1>1, <1>2 DEF Copying, Empty, Rows
<1>4. Copied' /\ RoundTrip'
    BY <1>1 DEF Copied, RoundTrip, TypeOK, Consistent, Rows
<1>5. QED
    BY <1>3, <1>4

(* While nobody else has written, the transaction sees only its own rows.  *)
LEMMA SeesOwnRows ==
    ASSUME BackupInv, pc = "insert", quiet, whole # None
    PROVE  /\ Rows(db) \subseteq gone /\ Seen = mine
           /\ Rows(file) = Rows(whole) /\ mine \cup todo = Rows(whole)
<1> USE DEF BackupInv
<1>1. cleared = Last /\ fresh = {} /\ mine \cup todo = Rows(file)
    BY DEF Phases, Quiet
<1>2. \A t \in Tables : \E i \in 1..Last : Clearing[i] = t
  <2>1. /\ Clearing[1] = "links" /\ Clearing[2] = "leaders" /\ Clearing[3] = "members"
        /\ Clearing[4] = "names" /\ Clearing[5] = "accounts" /\ Clearing[6] = "teams"
        /\ Clearing[7] = "repositories" /\ Clearing[8] = "users" /\ Clearing[9] = "config"
      BY DEF Clearing
  <2>2. QED
      BY <2>1 DEF Tables, Last
<1>3. \A k \in Rows(db) : Table[k] \in Tables
    BY BackupAssumption DEF Rows
<1>4. Rows(db) \subseteq gone
    BY <1>1, <1>2, <1>3 DEF Swept
<1>5. whole \in [Key -> Val \cup {NoRow}]
    BY DEF TypeOK
<1>6. \A k \in Key : file[k] = IF whole[k] = NoRow THEN NoRow ELSE Encode(k, whole[k])
    BY DEF Copied
<1>7. \A k \in Key : whole[k] # NoRow => Encode(k, whole[k]) # NoRow
    BY <1>5, EncodeType
<1>8. Rows(file) = Rows(whole)
    BY <1>6, <1>7 DEF Rows
<1>9. QED
    BY <1>1, <1>4, <1>8 DEF Seen

(* A row follows those that it refers to, so that it is not refused.       *)
LEMMA NeverRefused ==
    ASSUME BackupInv, NEW k \in todo, Refused(k), quiet, whole # None
    PROVE  FALSE
<1> USE DEF BackupInv
<1>1. /\ pc = "insert" /\ Owner[k] \notin todo /\ ~Admissible(k)
      /\ \A j \in todo : Group(k) <= Group(j)
    BY DEF Refused, Following
<1>2. Seen = mine /\ mine \cup todo = Rows(whole) /\ mine \cap todo = {}
    BY <1>1, SeesOwnRows DEF Phases
<1>3. Consistent(whole) /\ k \in Rows(whole) /\ k \in Key
    BY <1>2 DEF Copied, TypeOK
<1>4. Parents[k] \subseteq mine \cup todo /\ Rivals[k] \cap mine = {}
    BY <1>2, <1>3 DEF Consistent
<1>5. \A p \in Parents[k] : p \notin todo
  <2>1. SUFFICES ASSUME NEW p \in Parents[k], p \in todo
                 PROVE  FALSE
      OBVIOUS
  <2>2. p \in Key /\ p # Owner[k] /\ Group(k) <= Group(p)
      BY <1>1, <2>1 DEF TypeOK
  <2>3. /\ <<Table[p], Table[k]>> \in References
        /\ Table[p] # "teams" /\ Table[k] # "names"
      BY <1>3, <2>2, OwnerFacts
  <2>4. \/ Table[p] = "users" /\ Table[k] \in {"accounts", "leaders", "members"}
        \/ Table[p] = "repositories" /\ Table[k] = "links"
      BY <2>3 DEF References
  <2>5. CASE Table[p] = "users" /\ Table[k] = "accounts"
    <3>1. Group(p) = 1 /\ Group(k) = 2
        BY <2>5 DEF Group
    <3>2. QED
        BY <2>2, <3>1
  <2>6. CASE Table[p] = "users" /\ Table[k] \in {"leaders", "members"}
    <3>1. Group(p) = 1 /\ Group(k) = 4
        BY <2>6 DEF Group
    <3>2. QED
        BY <2>2, <3>1
  <2>7. CASE Table[p] = "repositories" /\ Table[k] = "links"
    <3>1. Group(p) = 3 /\ Group(k) = 4
        BY <2>7 DEF Group
    <3>2. QED
        BY <2>2, <3>1
  <2>8. QED
      BY <2>4, <2>5, <2>6, <2>7
<1>6. Admissible(k)
    BY <1>2, <1>4, <1>5 DEF Admissible
<1>7. QED
    BY <1>1, <1>6

LEMMA CommitRestores ==
    ASSUME BackupInv, Commit, quiet, whole # None
    PROVE  db' = whole
<1> USE DEF BackupInv
<1>1. pc = "insert" /\ todo = {}
    BY DEF Commit
<1>2. Rows(db) \subseteq gone /\ mine = Rows(whole)
    BY <1>1, SeesOwnRows
<1>3. whole \in [Key -> Val \cup {NoRow}]
    BY DEF TypeOK
<1>4. \A k \in Rows(whole) : whole[k] \in Val /\ file[k] = Encode(k, whole[k])
    BY <1>1, <1>3 DEF Copied, Rows
<1>5. \A k \in Rows(whole) : Decode(file[k]) = whole[k]
    BY <1>4, EncodeType
<1>6. \A k \in Key : k \notin Rows(whole) => whole[k] = NoRow /\ (k \in gone \/ db[k] = NoRow)
    BY <1>2 DEF Rows
<1>7. db' = [k \in Key |-> IF k \in mine THEN Decode(file[k])
                           ELSE IF k \in gone THEN NoRow ELSE db[k]]
    BY DEF Commit
<1>8. db' = [k \in Key |-> whole[k]]
    BY <1>2, <1>5, <1>6, <1>7
<1>9. QED
    BY <1>3, <1>8

LEMMA CopyKept ==
    ASSUME BackupInv, [Next]_vars
    PROVE  Copying' /\ Copied' /\ RoundTrip'
<1> USE DEF BackupInv
<1>1. CASE ExportFails \/ Discard
    BY <1>1 DEF ExportFails, Discard, Copying, Copied, RoundTrip
<1>2. CASE Restore \/ Clear \/ (\E k \in todo : Insert(k)) \/ RestoreFails \/ Done
  <2>1. /\ pc # "export" /\ pc # "idle" /\ pc' \in {"clear", "insert", "saved"}
        /\ whole' = whole /\ file' = file
      BY <1>2 DEF Restore, Clear, Insert, Following, RestoreFails, Done
  <2>2. QED
      BY <2>1 DEF Copying, Copied, RoundTrip, Consistent, Rows
<1>3. CASE \E k \in todo : Refused(k)
  <2>1. /\ pc = "insert" /\ pc' = "refused"
        /\ whole' = whole /\ file' = file /\ quiet' = quiet
      BY <1>3 DEF Refused, Following
  <2>2. ~(quiet /\ whole # None)
      BY <1>3, NeverRefused
  <2>3. QED
      BY <2>1, <2>2 DEF Copying, Copied, RoundTrip, Consistent, Rows
<1>4. CASE Commit
  <2>1. /\ pc = "insert" /\ pc' = "restored"
        /\ whole' = whole /\ file' = file /\ quiet' = quiet
      BY <1>4 DEF Commit
  <2>2. quiet /\ whole # None => db' = whole
      BY <1>4, CommitRestores
  <2>3. QED
      BY <2>1, <2>2 DEF Copying, Copied, RoundTrip, Consistent, Rows
<1>5. CASE Others
  <2>1. PICK K : Written(K)
      BY <1>5 DEF Others, Put, Delete
  <2>2. /\ UNCHANGED <<pc, whole, file>>
        /\ quiet' => pc \in {"idle", "saved"}
      BY <2>1 DEF Written, request
  <2>3. QED
      BY <2>2 DEF Copying, Copied, RoundTrip, Consistent, Rows
<1>6. CASE UNCHANGED vars
  <2>1. \A k : Due(k)' <=> Due(k)
      BY <1>6 DEF vars, Due, Source, All
  <2>2. QED
      BY <1>6, <2>1 DEF vars, Copying, Copied, RoundTrip, Consistent, Rows
<1>7. QED
    BY <1>1, <1>2, <1>3, <1>4, <1>5, <1>6, ExportBegins, ReadCopies DEF Next

-----------------------------------------------------------------------------
LEMMA BackupInvariant == Spec => []BackupInv
<1>1. ASSUME BackupInv, [Next]_vars PROVE BackupInv'
    BY <1>1, TypeKept, SeenKept, PhasesKept, SweptKept, CopyKept DEF BackupInv
<1>2. QED
    BY InitHolds, <1>1, PTL DEF Spec

(* Whatever a restore and the statements of others interleave to, no       *)
(* foreign key dangles and no unique index is broken.                      *)
THEOREM TypeCorrect == Spec => []TypeOK
BY BackupInvariant, PTL DEF BackupInv

(* What is there after a restore and is not in the file came meanwhile.    *)
THEOREM OnlyNewLeftOver == Spec => []LeftoversAreNew
BY BackupInvariant, PTL DEF BackupInv

(* A backup that nobody disturbed is accepted again and restores what it   *)
(* was taken of, API tokens included.                                      *)
THEOREM BackupRestores == Spec => []RoundTrip
BY BackupInvariant, PTL DEF BackupInv

(* Nobody sees a restore half done.                                        *)
THEOREM AllOrNothing == Spec => RestoreAllOrNothing
<1>1. ASSUME BackupInv, [Next]_vars
      PROVE  [upsets' = upsets /\ db' # db =>
                 \A k \in Rows(file) : db'[k] = Decode(file[k])]_vars
  <2>1. CASE Commit
    <3>1. mine = Rows(file)
        BY <1>1, <2>1, CommitRows
    <3>2. QED
        BY <2>1, <3>1 DEF Commit, Rows
  <2>2. CASE Others
    <3>1. upsets' = upsets + 1 /\ upsets \in Nat
        BY <1>1, <2>2, BackupAssumption DEF Others, Put, Delete, Written, BackupInv, TypeOK
    <3>2. QED
        BY <3>1
  <2>3. CASE ~Commit /\ ~Others
      BY <1>1, <2>3 DEF Next, Export, Read, ExportFails, Restore, Clear, Insert, Refused,
              RestoreFails, Done, Discard, vars
  <2>4. QED
      BY <2>1, <2>2, <2>3
<1>2. QED
    BY BackupInvariant, <1>1, PTL DEF Spec, RestoreAllOrNothing
=============================================================================
