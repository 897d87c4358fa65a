------------------------- MODULE RegistrationProofs -------------------------
(***************************************************************************)
(* For any number of requests, any names and any failures: a name is       *)
(* registered once, who has registered can log in, and a user without a    *)
(* password belongs to a request that has not come to save it.             *)
(***************************************************************************)
EXTENDS Registration, FiniteSetTheorems, TLAPS

F == {"name", "password"}
V == Names \cup Passwords \cup {Empty}

\* The requests that have a row of their own.
Own == {"password", "save", "registered"}

Types ==
  /\ nextId \in Nat
  /\ rows \in [Users!Ids -> [F -> V] \cup {NoRow}]
  /\ key \in [Requests -> Nat]
  /\ dirty \in [Requests -> [F -> V \cup {Null}]]
  /\ created \in [Requests -> BOOLEAN] /\ missed \in [Requests -> Nat]
  /\ pc \in [Requests -> {"get", "create", "name", "insert", "password", "save"} \cup Ended]
  /\ username \in [Requests -> Names] /\ password \in [Requests -> Passwords \cup {Null}]

\* The table: keys are given in order, and names are unique.
Past     == \A id \in Users!Ids : id >= nextId => rows[id] = NoRow
Distinct == Users!Distinct(rows)

\* What the object will save.
Pending ==
  \A r \in Requests :
    /\ pc[r] = "insert" => dirty[r]["name"] = username[r]
    /\ pc[r] \in {"password", "save"} => dirty[r]["name"] = Null
    /\ pc[r] = "save" => dirty[r]["password"] = password[r]

\* Its row is there, holds its name, and is nobody else's.
Owned ==
  \A r \in Requests : pc[r] \in Own =>
    /\ key[r] \in Users!Ids /\ rows[key[r]] # NoRow
    /\ rows[key[r]]["name"] = username[r]
Apart == \A r, q \in Requests : pc[r] \in Own /\ pc[q] \in Own /\ r # q => key[r] # key[q]

Safe ==
  \A r \in Requests :
    pc[r] = "registered" /\ missed[r] = 0 => rows[key[r]]["password"] = password[r]

IInv == Types /\ Past /\ Distinct /\ Pending /\ Owned /\ Apart /\ Safe

LEMMA Initially == Init => IInv
<1> SUFFICES ASSUME Init PROVE IInv
  OBVIOUS
<1>1. Types
  BY DEF Init, Users!Init, Users!NoKey, Users!Nothing, Types, F, V
<1>2. Past /\ Distinct
  BY DEF Init, Users!Init, Past, Distinct, Users!Distinct
<1>3. Pending /\ Owned /\ Apart /\ Safe
  BY DEF Init, Pending, Owned, Apart, Safe, Own
<1>4. QED
  BY <1>1, <1>2, <1>3 DEF IInv

-----------------------------------------------------------------------------
\* A step of one request that leaves the table alone, and the request without
\* a row of its own.
LEMMA Staying ==
  ASSUME IInv, Types', NEW r \in Requests, NEW s, Go(r, pc[r], s), s \notin Own,
         UNCHANGED <<rows, nextId>>,
         \A x \in Requests \ {r} : key'[x] = key[x] /\ dirty'[x] = dirty[x] /\ missed'[x] = missed[x],
         s = "insert" => dirty'[r]["name"] = username[r]
  PROVE  IInv'
<1>1. /\ pc' = [pc EXCEPT ![r] = s]
      /\ username' = username /\ password' = password /\ rows' = rows /\ nextId' = nextId
  BY DEF Go, call
<1>2. pc'[r] = s /\ \A x \in Requests \ {r} : pc'[x] = pc[x]
  BY <1>1 DEF IInv, Types
<1>3. Past' /\ Distinct'
  BY <1>1 DEF IInv, Past, Distinct, Users!Distinct, Users!Ids
<1>4. Pending'
  BY <1>1, <1>2 DEF IInv, Pending, Own
<1>5. Owned'
  BY <1>1, <1>2 DEF IInv, Owned, Users!Ids
<1>6. Apart' /\ Safe'
  BY <1>1, <1>2 DEF IInv, Apart, Safe, Own
<1>7. QED
  BY <1>3, <1>4, <1>5, <1>6 DEF IInv

\* What the statements make of a row.
LEMMA RowOf ==
  ASSUME IInv, NEW r \in Requests, NEW row \in [F -> V]
  PROVE  /\ Users!Streamed(r, row) \in [F -> V]
         /\ Users!Streamed(r, row) # NoRow
         /\ \A f \in F : Users!Streamed(r, row)[f] = IF dirty[r][f] # Null THEN dirty[r][f] ELSE row[f]
<1>1. dirty[r] \in [F -> V \cup {Null}]
  BY DEF IInv, Types
<1>2. Users!Streamed(r, row) = [f \in F |-> IF dirty[r][f] # Null THEN dirty[r][f] ELSE row[f]]
  BY DEF Users!Streamed, Users!Dirty, F
<1>3. Users!Streamed(r, row) \in [F -> V]
  BY <1>1, <1>2
<1>4. QED
  BY <1>2, <1>3, RegistrationAssumption DEF RegistrationAssumption, F, V

LEMMA Inserting ==
  ASSUME IInv, NEW r \in Requests, Insert(r)
  PROVE  IInv'
<1> DEFINE new == Users!Streamed(r, [f \in F |-> Empty])
           s   == IF created'[r] THEN "password" ELSE "failed"
<1>1. /\ pc[r] = "insert" /\ pc' = [pc EXCEPT ![r] = s]
      /\ username' = username /\ password' = password
      /\ ~created[r] /\ nextId \in Users!Ids
      /\ rows' = [rows EXCEPT ![nextId] = new] /\ nextId' = nextId + 1
      /\ Users!Distinct(rows') /\ missed' = missed
  BY DEF Insert, Go, call, Users!Insert, Users!Inserted, F
<1>2. \/ /\ key' = [key EXCEPT ![r] = nextId] /\ created' = [created EXCEPT ![r] = TRUE]
         /\ dirty' = [dirty EXCEPT ![r] = [f \in F |-> Null]]
      \/ key' = key /\ created' = created /\ dirty' = dirty
  BY DEF Insert, Users!Insert, Users!Saved, Users!Nothing, F
<1>3. [f \in F |-> Empty] \in [F -> V]
  BY DEF V
<1>4. new \in [F -> V] /\ new # NoRow
  BY <1>3, RowOf
<1>5. new["name"] = username[r]
  <2>1. dirty[r]["name"] = username[r] /\ username[r] # Null
    BY <1>1, RegistrationAssumption DEF IInv, Types, Pending, RegistrationAssumption
  <2>2. QED
    BY <2>1, <1>3, RowOf DEF F
<1>6. /\ rows'[nextId] = new
      /\ \A id \in Users!Ids : id # nextId => rows'[id] = rows[id]
  BY <1>1 DEF IInv, Types
<1>7. \A x \in Requests : pc[x] \in Own => key[x] \in Users!Ids /\ key[x] # nextId
  BY DEF IInv, Types, Owned, Past, Users!Ids
<1>8. Types'
  <2>1. rows' \in [Users!Ids -> [F -> V] \cup {NoRow}] /\ nextId' \in Nat /\ key' \in [Requests -> Nat]
    BY <1>1, <1>2, <1>4 DEF IInv, Types
  <2>2. dirty' \in [Requests -> [F -> V \cup {Null}]] /\ created' \in [Requests -> BOOLEAN]
    <3>1. [f \in F |-> Null] \in [F -> V \cup {Null}]
      OBVIOUS
    <3>2. dirty' \in [Requests -> [F -> V \cup {Null}]]
      BY <1>2, <3>1 DEF IInv, Types
    <3>3. created' \in [Requests -> BOOLEAN]
      BY <1>2 DEF IInv, Types
    <3>4. QED
      BY <3>2, <3>3
  <2>3. pc' \in [Requests -> {"get", "create", "name", "insert", "password", "save"} \cup Ended]
    BY <1>1 DEF IInv, Types, Ended
  <2>4. QED
    BY <2>1, <2>2, <2>3, <1>1 DEF IInv, Types, Users!Ids
<1>9. Past'
  BY <1>1, <1>6 DEF IInv, Types, Past, Users!Ids
<1>10. Distinct'
  BY <1>1 DEF Distinct, Users!Distinct, Users!Ids
<1>11. /\ \A x \in Requests \ {r} : pc'[x] = pc[x] /\ key'[x] = key[x] /\ dirty'[x] = dirty[x]
       /\ pc'[r] = s
  BY <1>1, <1>2 DEF IInv, Types
<1>12. \/ pc'[r] = "password" /\ key'[r] = nextId /\ dirty'[r]["name"] = Null
       \/ pc'[r] = "failed"
  <2>1. CASE created'[r]
    BY <2>1, <1>1, <1>2, <1>11 DEF IInv, Types, F
  <2>2. CASE ~created'[r]
    BY <2>2, <1>11
  <2>3. QED
    BY <2>1, <2>2
<1>13. Pending'
  BY <1>1, <1>11, <1>12 DEF IInv, Pending
<1>14. Owned'
  <2> SUFFICES ASSUME NEW x \in Requests, pc'[x] \in Own
               PROVE  /\ key'[x] \in Users!Ids /\ rows'[key'[x]] # NoRow
                      /\ rows'[key'[x]]["name"] = username'[x]
    BY DEF Owned, Users!Ids
  <2>1. CASE x = r
    BY <2>1, <1>1, <1>4, <1>5, <1>6, <1>12 DEF Own
  <2>2. CASE x # r
    BY <2>2, <1>1, <1>6, <1>7, <1>11 DEF IInv, Owned
  <2>3. QED
    BY <2>1, <2>2
<1>15. Apart'
  BY <1>7, <1>11, <1>12 DEF IInv, Apart, Own
<1>16. Safe'
  BY <1>1, <1>6, <1>7, <1>11, <1>12 DEF IInv, Safe, Own
<1>17. QED
  BY <1>8, <1>9, <1>10, <1>13, <1>14, <1>15, <1>16 DEF IInv

LEMMA Giving ==
  ASSUME IInv, NEW r \in Requests, SetPassword(r)
  PROVE  IInv'
<1>1. /\ pc[r] = "password" /\ pc' = [pc EXCEPT ![r] = "save"]
      /\ username' = username /\ password' = password
      /\ dirty' = [dirty EXCEPT ![r]["password"] = password[r]]
      /\ rows' = rows /\ nextId' = nextId /\ key' = key /\ created' = created /\ missed' = missed
  BY DEF SetPassword, Go, call, Users!Assign, Users!table, Users!history
<1>2. /\ pc'[r] = "save" /\ \A x \in Requests \ {r} : pc'[x] = pc[x] /\ dirty'[x] = dirty[x]
      /\ dirty'[r]["password"] = password[r] /\ dirty'[r]["name"] = dirty[r]["name"]
  BY <1>1 DEF IInv, Types, F
<1>3. dirty' \in [Requests -> [F -> V \cup {Null}]]
  BY <1>1 DEF IInv, Types, V
<1>4. pc' \in [Requests -> {"get", "create", "name", "insert", "password", "save"} \cup Ended]
  BY <1>1 DEF IInv, Types
<1>5. Types'
  BY <1>1, <1>3, <1>4 DEF IInv, Types, Users!Ids
<1>6. Past' /\ Distinct'
  BY <1>1 DEF IInv, Past, Distinct, Users!Distinct, Users!Ids
<1>7. Pending'
  BY <1>1, <1>2 DEF IInv, Pending
<1>8. Owned'
  BY <1>1, <1>2 DEF IInv, Owned, Own, Users!Ids
<1>9. Apart' /\ Safe'
  BY <1>1, <1>2 DEF IInv, Apart, Safe, Own
<1>10. QED
  BY <1>5, <1>6, <1>7, <1>8, <1>9 DEF IInv

LEMMA Saving ==
  ASSUME IInv, NEW r \in Requests, Save(r)
  PROVE  IInv'
<1> DEFINE old == rows[key[r]]
           new == Users!Streamed(r, old)
<1>1. /\ pc[r] = "save" /\ pc' = [pc EXCEPT ![r] = "registered"]
      /\ username' = username /\ password' = password /\ key' = key /\ nextId' = nextId
      /\ Users!Dirty(r) # {}
  <2>1. /\ pc[r] = "save" /\ pc' = [pc EXCEPT ![r] = "registered"]
        /\ username' = username /\ password' = password
    BY DEF Save, Go, call
  <2>2. Users!Update(r)
    BY DEF Save
  <2>3. key' = key /\ Users!Dirty(r) # {}
    BY <2>2 DEF Users!Update
  <2>4. nextId' = nextId
    BY <2>2 DEF Users!Update, Users!Written, Users!table
  <2>5. QED
    BY <2>1, <2>3, <2>4
<1>2. /\ dirty' = [dirty EXCEPT ![r] = [f \in F |-> Null]]
      /\ created' \in [Requests -> BOOLEAN]
  BY DEF Save, Users!Update, Users!Saved, Users!Nothing, F, IInv, Types
<1>3. \/ rows' = rows \/ /\ rows' = [rows EXCEPT ![key[r]] = new]
                         /\ Users!Distinct([rows EXCEPT ![key[r]] = new])
  <2>1. Users!Written(r) \/ rows' = rows
    BY DEF Save, Users!Update, Users!table
  <2>2. Users!Written(r) => rows' = [rows EXCEPT ![key[r]] = new] /\ Users!Distinct([rows EXCEPT ![key[r]] = new])
    BY DEF Users!Written
  <2>3. QED
    BY <2>1, <2>2
<1>4. \/ missed' = missed /\ rows' = [rows EXCEPT ![key[r]] = new]
      \/ missed' = [missed EXCEPT ![r] = @ + 1]
  BY DEF Save, Users!Update, Users!Written
<1>5. /\ key[r] \in Users!Ids /\ old \in [F -> V] /\ old["name"] = username[r]
  BY <1>1 DEF IInv, Types, Owned, Own
<1>6. dirty[r]["name"] = Null /\ dirty[r]["password"] = password[r] /\ password[r] # Null
  <2>1. dirty[r]["name"] = Null /\ dirty[r]["password"] = password[r]
    BY <1>1 DEF IInv, Pending
  <2>2. QED
    BY <1>1, <2>1 DEF Users!Dirty
<1>7. new \in [F -> V] /\ new # NoRow /\ new["name"] = username[r] /\ new["password"] = password[r]
  BY <1>5, <1>6, RowOf DEF F
<1>8. /\ pc'[r] = "registered"
      /\ \A x \in Requests \ {r} : pc'[x] = pc[x] /\ dirty'[x] = dirty[x] /\ missed'[x] = missed[x]
  BY <1>1, <1>2, <1>4 DEF IInv, Types
<1>9. \A id \in Users!Ids : id # key[r] => rows'[id] = rows[id]
  BY <1>3, <1>5 DEF IInv, Types
<1>10. rows'[key[r]] # NoRow /\ rows'[key[r]]["name"] = username[r]
  BY <1>1, <1>3, <1>5, <1>7 DEF IInv, Types, Owned, Own
<1>11. missed'[r] = 0 => rows'[key[r]]["password"] = password[r]
  BY <1>4, <1>5, <1>7 DEF IInv, Types
<1>12. Types'
  <2>1. rows' \in [Users!Ids -> [F -> V] \cup {NoRow}]
    BY <1>3, <1>5, <1>7 DEF IInv, Types
  <2>2. dirty' \in [Requests -> [F -> V \cup {Null}]] /\ missed' \in [Requests -> Nat]
    BY <1>2, <1>4 DEF IInv, Types
  <2>3. pc' \in [Requests -> {"get", "create", "name", "insert", "password", "save"} \cup Ended]
    BY <1>1 DEF IInv, Types, Ended
  <2>4. QED
    BY <2>1, <2>2, <2>3, <1>1, <1>2 DEF IInv, Types, Users!Ids
<1>13. Past'
  BY <1>1, <1>5, <1>9 DEF IInv, Types, Past, Owned, Own, Users!Ids
<1>14. Distinct'
  BY <1>3 DEF IInv, Distinct, Users!Distinct, Users!Ids
<1>15. Pending'
  BY <1>1, <1>8 DEF IInv, Pending
<1>16. \A x \in Requests \ {r} : pc[x] \in Own => key[x] \in Users!Ids /\ key[x] # key[r]
  BY <1>1 DEF IInv, Owned, Apart, Own
<1>17. Owned'
  <2> SUFFICES ASSUME NEW x \in Requests, pc'[x] \in Own
               PROVE  /\ key'[x] \in Users!Ids /\ rows'[key'[x]] # NoRow
                      /\ rows'[key'[x]]["name"] = username'[x]
    BY DEF Owned, Users!Ids
  <2>1. CASE x = r
    BY <2>1, <1>1, <1>5, <1>10
  <2>2. CASE x # r
    BY <2>2, <1>1, <1>8, <1>9, <1>16 DEF IInv, Owned
  <2>3. QED
    BY <2>1, <2>2
<1>18. Apart'
  BY <1>1, <1>8 DEF IInv, Apart, Own
<1>19. Safe'
  BY <1>1, <1>8, <1>9, <1>11, <1>16 DEF IInv, Safe, Own
<1>20. QED
  BY <1>12, <1>13, <1>14, <1>15, <1>17, <1>18, <1>19 DEF IInv

LEMMA Inductive == IInv /\ [Next]_vars => IInv'
<1> SUFFICES ASSUME IInv, [Next]_vars PROVE IInv'
  OBVIOUS
<1>1. CASE UNCHANGED vars
  BY <1>1 DEF vars, user, call, IInv, Types, Past, Distinct, Users!Distinct, Users!Ids, Pending, Owned, Apart, Safe
<1>2. CASE Next
  <2>1. PICK r \in Requests : Register(r)
    BY <1>2 DEF Next
  <2>2. CASE Insert(r) \/ SetPassword(r) \/ Save(r)
    BY <2>2, Inserting, Giving, Saving
  \* The others let the table be.
  <2>3. CASE Exists(r)
    <3>1. /\ Go(r, pc[r], "existing") /\ UNCHANGED <<rows, nextId, dirty, missed>>
          /\ pc' = [pc EXCEPT ![r] = "existing"] /\ UNCHANGED call
          /\ \E id \in Users!Ids : key' = [key EXCEPT ![r] = id] /\ created' = [created EXCEPT ![r] = TRUE]
      BY <2>3 DEF Exists, Go, Named, Users!Present, Users!Wrap, Users!table
    <3>2. key' \in [Requests -> Nat] /\ created' \in [Requests -> BOOLEAN]
      BY <3>1 DEF IInv, Types, Users!Ids
    <3>3. pc' \in [Requests -> {"get", "create", "name", "insert", "password", "save"} \cup Ended]
      BY <3>1 DEF IInv, Types, Ended
    <3>4. Types'
      BY <3>1, <3>2, <3>3 DEF IInv, Types, Users!Ids, call
    <3>5. \A x \in Requests \ {r} : key'[x] = key[x] /\ dirty'[x] = dirty[x] /\ missed'[x] = missed[x]
      BY <3>1 DEF IInv, Types
    <3>6. QED
      BY <3>1, <3>4, <3>5, Staying DEF Own
  <2>4. CASE SetName(r)
    <3>1. /\ Go(r, pc[r], "insert") /\ UNCHANGED <<rows, nextId, key, created, missed>>
          /\ pc' = [pc EXCEPT ![r] = "insert"] /\ UNCHANGED call
          /\ dirty' = [dirty EXCEPT ![r]["name"] = username[r]]
      BY <2>4 DEF SetName, Go, Users!Assign, Users!table, Users!history
    <3>2. dirty' \in [Requests -> [F -> V \cup {Null}]] /\ dirty'[r]["name"] = username[r]
      BY <3>1 DEF IInv, Types, F, V
    <3>3. pc' \in [Requests -> {"get", "create", "name", "insert", "password", "save"} \cup Ended]
      BY <3>1 DEF IInv, Types
    <3>4. Types'
      BY <3>1, <3>2, <3>3 DEF IInv, Types, Users!Ids, call
    <3>5. \A x \in Requests \ {r} : key'[x] = key[x] /\ dirty'[x] = dirty[x] /\ missed'[x] = missed[x]
      BY <3>1 DEF IInv, Types
    <3>6. QED
      BY <3>1, <3>2, <3>4, <3>5, Staying DEF Own
  <2>5. ASSUME NEW s \in {"create", "name", "failed"}, Go(r, pc[r], s),
               UNCHANGED <<rows, nextId, key, created, dirty, missed>>
        PROVE  IInv'
    <3>1. pc' = [pc EXCEPT ![r] = s] /\ UNCHANGED call
      BY <2>5 DEF Go
    <3>2. pc' \in [Requests -> {"get", "create", "name", "insert", "password", "save"} \cup Ended]
      BY <3>1 DEF IInv, Types, Ended
    <3>3. Types'
      BY <2>5, <3>1, <3>2 DEF IInv, Types, Users!Ids, call
    <3>4. QED
      BY <2>5, <3>3, Staying DEF Own
  <2>6. CASE NotFound(r)
    BY <2>5, <2>6 DEF NotFound, Go, user
  <2>7. CASE Create(r)
    BY <2>5, <2>7 DEF Create, Go, Users!Create, Users!table, Users!history
  <2>8. CASE InsertFails(r)
    BY <2>5, <2>8 DEF InsertFails, Go, user
  <2>9. CASE SaveThrows(r)
    BY <2>5, <2>9 DEF SaveThrows, Go, user
  <2>10. CASE Die(r)
    BY <2>5, <2>10 DEF Die, user
  <2>11. QED
    BY <2>1, <2>2, <2>3, <2>4, <2>6, <2>7, <2>8, <2>9, <2>10 DEF Register
<1>3. QED
  BY <1>1, <1>2

LEMMA Always == Spec => []IInv
<1>1. QED
  BY Initially, Inductive, PTL DEF Spec

-----------------------------------------------------------------------------
\* Of all requests for a name one at most registers it (register(), and the
\* unique key on the user's name).
THEOREM NameHasOneOwner == Spec => []OneOwner
<1>1. IInv => OneOwner
  <2> SUFFICES ASSUME IInv, NEW r \in Requests, NEW q \in Requests,
                      pc[r] = "registered", pc[q] = "registered", username[r] = username[q]
               PROVE  r = q
    BY DEF OneOwner
  <2>1. key[r] = key[q]
    BY DEF IInv, Owned, Own, Distinct, Users!Distinct
  <2>2. QED
    BY <2>1 DEF IInv, Apart, Own
<1>2. QED
  BY <1>1, Always, PTL

\* Who has registered logs in to his own row (register(), login()).
THEOREM PasswordIsThere == Spec => []RegisteredCanLogin
<1>1. IInv => RegisteredCanLogin
  <2> SUFFICES ASSUME IInv, NEW r \in Requests, pc[r] = "registered", missed[r] = 0
               PROVE  Login(username[r], password[r]) = {key[r]}
    BY DEF RegisteredCanLogin
  <2>1. /\ key[r] \in Users!Ids /\ rows[key[r]] # NoRow
        /\ rows[key[r]]["name"] = username[r] /\ rows[key[r]]["password"] = password[r]
    BY DEF IInv, Owned, Own, Safe
  <2>2. \A id \in Users!Ids : rows[id] # NoRow /\ rows[id]["name"] = username[r] => id = key[r]
    BY <2>1 DEF IInv, Distinct, Users!Distinct
  <2>3. QED
    BY <2>1, <2>2 DEF Login, Named, Users!Present
<1>2. QED
  BY <1>1, Always, PTL

-----------------------------------------------------------------------------
(* No half user.  What is to be saved of an object, and whether it has a   *)
(* row, goes with where its request is.                                    *)

Stages ==
  \A r \in Requests :
    /\ pc[r] \in {"get", "create", "name", "password"} => dirty[r] = Users!Nothing
    /\ pc[r] \in {"get", "create", "name", "insert"} => ~created[r]
    /\ pc[r] = "insert" => Users!Dirty(r) = {"name"}
    /\ pc[r] \in {"password", "save"} => created[r]
    /\ pc[r] = "save" => Users!Dirty(r) \subseteq {"password"}
    /\ missed[r] > 0 => pc[r] = "registered"

\* The request r answers for the row id.
Answers(r, id) ==
  /\ rows[id]["name"] = username[r]
  /\ \/ key[r] = id /\ pc[r] \in {"password", "save", "failed"}
     \/ key[r] = id /\ pc[r] = "registered" /\ (missed[r] > 0 \/ password[r] = Empty)
     \/ unanswered[r] > 0 /\ pc[r] = "failed"

Half ==
  \A id \in Users!Present : rows[id]["password"] = Empty => \E r \in Requests : Answers(r, id)

HInv == IInv /\ Users!TypeOK /\ Stages /\ Half

LEMMA Counted == Cardinality(Requests) \in Nat
BY RegistrationAssumption, FS_CardinalityType DEF RegistrationAssumption

LEMMA HalfInit == Init => HInv
<1> SUFFICES ASSUME Init PROVE HInv
  OBVIOUS
<1>1. IInv
  BY Initially
<1>2. Users!TypeOK
  BY Counted, RegistrationAssumption
     DEF RegistrationAssumption, Init, Users!Init, Users!TypeOK, Users!Ids, Users!NoKey, Users!Nothing
<1>3. Stages
  BY DEF Init, Users!Init, Stages
<1>4. Half
  BY DEF Init, Users!Init, Half, Users!Present
<1>5. QED
  BY <1>1, <1>2, <1>3, <1>4 DEF HInv

\* A step of one request that leaves the table alone: whom it answers for, it does then.
LEMMA Answering ==
  ASSUME HInv, NEW r \in Requests, NEW s, Go(r, pc[r], s), pc[r] \notin Ended,
         UNCHANGED <<rows, missed, unanswered>>,
         \A x \in Requests \ {r} : key'[x] = key[x],
         pc[r] \in {"password", "save"} => key'[r] = key[r] /\ s \in {"save", "failed"}
  PROVE  Half'
<1>1. /\ username' = username /\ password' = password
      /\ pc'[r] = s /\ \A x \in Requests \ {r} : pc'[x] = pc[x]
  BY DEF Go, call, HInv, IInv, Types
<1>2. SUFFICES ASSUME NEW id \in Users!Present, rows[id]["password"] = Empty
               PROVE  \E x \in Requests : Answers(x, id)'
  BY DEF Half, Users!Present, Users!Ids
<1>3. PICK x \in Requests : Answers(x, id)
  BY <1>2 DEF HInv, Half
<1>4. CASE x = r
  BY <1>1, <1>3, <1>4 DEF Answers, Ended
<1>5. CASE x # r
  BY <1>1, <1>3, <1>5 DEF Answers
<1>6. QED
  BY <1>4, <1>5

\* The stages of the others are what they were.
LEMMA Staged ==
  ASSUME HInv, NEW r \in Requests, NEW s, Go(r, pc[r], s),
         \A x \in Requests \ {r} : created'[x] = created[x] /\ dirty'[x] = dirty[x] /\ missed'[x] = missed[x],
         s \in {"get", "create", "name", "password"} => dirty'[r] = Users!Nothing,
         s \in {"get", "create", "name", "insert"} => ~created'[r],
         s = "insert" => Users!Dirty(r)' = {"name"},
         s \in {"password", "save"} => created'[r],
         s = "save" => Users!Dirty(r)' \subseteq {"password"},
         missed'[r] > 0 => s = "registered"
  PROVE  Stages'
<1>1. pc'[r] = s /\ \A x \in Requests \ {r} : pc'[x] = pc[x]
  BY DEF Go, HInv, IInv, Types
<1>2. \A x \in Requests \ {r} : Users!Dirty(x)' = Users!Dirty(x)
  BY DEF Users!Dirty
<1>3. Users!Nothing' = Users!Nothing
  BY DEF Users!Nothing
<1>4. SUFFICES ASSUME NEW x \in Requests
               PROVE  /\ pc'[x] \in {"get", "create", "name", "password"} => dirty'[x] = Users!Nothing
                      /\ pc'[x] \in {"get", "create", "name", "insert"} => ~created'[x]
                      /\ pc'[x] = "insert" => Users!Dirty(x)' = {"name"}
                      /\ pc'[x] \in {"password", "save"} => created'[x]
                      /\ pc'[x] = "save" => Users!Dirty(x)' \subseteq {"password"}
                      /\ missed'[x] > 0 => pc'[x] = "registered"
  BY <1>3 DEF Stages
<1>5. CASE x = r
  BY <1>1, <1>5
<1>6. CASE x # r
  BY <1>1, <1>2, <1>6 DEF HInv, Stages
<1>7. QED
  BY <1>5, <1>6

LEMMA HalfExists ==
  ASSUME HInv, NEW r \in Requests, Exists(r)
  PROVE  Users!TypeOK' /\ Stages' /\ Half'
<1>1. PICK id \in Users!Present : Users!Wrap(r, id)
  BY DEF Exists, Named
<1>2. /\ pc[r] = "get" /\ Go(r, pc[r], "existing")
      /\ node' = [node EXCEPT ![r] = "node"] /\ key' = [key EXCEPT ![r] = id]
      /\ created' = [created EXCEPT ![r] = TRUE] /\ map' = [map EXCEPT ![r] = rows[id]]
      /\ overtaken' = [overtaken EXCEPT ![r] = {}]
      /\ UNCHANGED <<rows, nextId, dirty, faults, inserted, unanswered, missed>>
  BY <1>1 DEF Exists, Go, Users!Wrap, Users!table
<1>3. id \in Users!Ids /\ rows[id] \in [F -> V]
  BY <1>1 DEF HInv, IInv, Types, Users!Present
<1>4. Users!TypeOK'
  <2>1. map' \in [Requests -> [F -> V \cup {Null}]]
    BY <1>2, <1>3 DEF HInv, Users!TypeOK, F, V
  <2>2. \A x \in Requests, f \in F : dirty'[x][f] \in {Null, map'[x][f]}
    BY <1>2 DEF HInv, Users!TypeOK, Stages, Users!Nothing, F
  <2>3. /\ node' \in [Requests -> {"none", "proxy", "node"}]
        /\ key' \in [Requests -> Users!Ids \cup {Users!NoKey}]
        /\ created' \in [Requests -> BOOLEAN]
        /\ overtaken' \in [Requests -> SUBSET F]
    BY <1>2, <1>3 DEF HInv, Users!TypeOK, F
  <2>4. QED
    BY <1>2, <2>1, <2>2, <2>3 DEF HInv, Users!TypeOK, Users!Ids, Users!NoKey, Users!Rows, F, V
<1>5. Stages'
  BY <1>2, Staged DEF HInv, IInv, Types, Stages
<1>6. Half'
  BY <1>2, Answering DEF HInv, IInv, Types, Ended
<1>7. QED
  BY <1>4, <1>5, <1>6

\* Steps that change no more than the object's node and the number of faults.
LEMMA HalfKeeps ==
  ASSUME HInv, NEW r \in Requests, NEW s \in {"create", "name", "failed"}, Go(r, pc[r], s), pc[r] \notin Ended,
         s = "create" => pc[r] = "get", s = "name" => pc[r] = "create",
         faults' \in 0..MaxFaults, node' \in [Requests -> {"none", "proxy", "node"}],
         UNCHANGED <<rows, nextId, key, created, map, dirty, inserted, unanswered, missed, overtaken>>
  PROVE  Users!TypeOK' /\ Stages' /\ Half'
<1>1. Users!TypeOK'
  BY DEF HInv, Users!TypeOK, Users!Ids, Users!Rows
<1>2. missed[r] = 0
  BY DEF HInv, IInv, Types, Stages, Ended
<1>3. Stages'
  <2>1. /\ s \in {"create", "name"} => dirty'[r] = Users!Nothing /\ ~created'[r]
        /\ missed'[r] = 0
        /\ \A x \in Requests \ {r} : created'[x] = created[x] /\ dirty'[x] = dirty[x] /\ missed'[x] = missed[x]
    BY <1>2 DEF HInv, Stages
  <2>2. QED
    BY <2>1, Staged
<1>4. Half'
  BY Answering
<1>5. QED
  BY <1>1, <1>3, <1>4

LEMMA HalfSets ==
  ASSUME HInv, NEW r \in Requests, SetName(r) \/ SetPassword(r)
  PROVE  Users!TypeOK' /\ Stages' /\ Half'
<1>1. PICK f \in F, v \in V \cup {Null}, s \in {"insert", "save"} :
        /\ Go(r, pc[r], s)
        /\ s = "insert" => pc[r] = "name" /\ f = "name" /\ v # Null
        /\ s = "save" => pc[r] = "password" /\ f = "password"
        /\ pc[r] \in {"name", "password"}
        /\ map' = [map EXCEPT ![r][f] = v] /\ dirty' = [dirty EXCEPT ![r][f] = v]
        /\ UNCHANGED <<rows, nextId, node, key, created, faults, inserted, unanswered, missed, overtaken>>
  <2>1. username[r] \in V /\ username[r] # Null /\ password[r] \in V \cup {Null}
    BY RegistrationAssumption DEF RegistrationAssumption, HInv, IInv, Types, V
  <2>2. CASE SetName(r)
    <3>1. Users!Assign(r, "name", username[r]) /\ Go(r, pc[r], "insert") /\ pc[r] = "name"
      BY <2>2 DEF SetName, Go
    <3>2. QED
      BY <2>1, <3>1 DEF Users!Assign, Users!table, Users!history, F
  <2>3. CASE SetPassword(r)
    <3>1. Users!Assign(r, "password", password[r]) /\ Go(r, pc[r], "save") /\ pc[r] = "password"
      BY <2>3 DEF SetPassword, Go
    <3>2. QED
      BY <2>1, <3>1 DEF Users!Assign, Users!table, Users!history, F
  <2>4. QED
    BY <2>2, <2>3
<1>2. /\ map \in [Requests -> [F -> V \cup {Null}]] /\ dirty \in [Requests -> [F -> V \cup {Null}]]
      /\ \A x \in Requests, g \in F : dirty[x][g] \in {Null, map[x][g]}
      /\ dirty[r] = [g \in F |-> Null]
  BY <1>1 DEF HInv, Users!TypeOK, Stages, Users!Nothing, F, V
<1>3. /\ map' \in [Requests -> [F -> V \cup {Null}]] /\ dirty' \in [Requests -> [F -> V \cup {Null}]]
      /\ \A x \in Requests, g \in F : dirty'[x][g] \in {Null, map'[x][g]}
  BY <1>1, <1>2
<1>4. Users!TypeOK'
  BY <1>1, <1>3 DEF HInv, Users!TypeOK, Users!Ids, Users!Rows, F, V
<1>5. \A g \in F : dirty'[r][g] # Null => g = f
  BY <1>1, <1>2
<1>6. s = "insert" => Users!Dirty(r)' = {"name"}
  <2>1. s = "insert" => dirty'[r]["name"] # Null
    BY <1>1, <1>2 DEF F
  <2>2. QED
    BY <1>1, <1>5, <2>1 DEF Users!Dirty, F
<1>7. s = "save" => Users!Dirty(r)' \subseteq {"password"}
  BY <1>1, <1>5 DEF Users!Dirty, F
<1>8. ~(missed'[r] > 0)
  <2>1. pc[r] # "registered" /\ missed' = missed
    BY <1>1
  <2>2. QED
    BY <2>1 DEF HInv, Stages
<1>9. /\ \A x \in Requests \ {r} : created'[x] = created[x] /\ dirty'[x] = dirty[x] /\ missed'[x] = missed[x]
      /\ s = "insert" => ~created'[r]
      /\ s = "save" => created'[r]
  BY <1>1, <1>2 DEF HInv, Stages
<1>10. Stages'
  BY <1>1, <1>6, <1>7, <1>8, <1>9, Staged
<1>11. Half'
  BY <1>1, Answering DEF Ended
<1>12. QED
  BY <1>4, <1>10, <1>11

LEMMA HalfInsert ==
  ASSUME HInv, NEW r \in Requests, Insert(r)
  PROVE  Users!TypeOK' /\ Stages' /\ Half'
<1> DEFINE new == Users!Streamed(r, [f \in F |-> Empty])
           s   == IF created'[r] THEN "password" ELSE "failed"
<1>1. /\ pc[r] = "insert" /\ Go(r, pc[r], s) /\ nextId \in Users!Ids
      /\ rows' = [rows EXCEPT ![nextId] = new] /\ nextId' = nextId + 1
      /\ inserted' = [inserted EXCEPT ![r] = @ \cup {nextId}]
      /\ UNCHANGED <<node, map, missed>>
  BY DEF Insert, Go, Users!Insert, Users!Inserted, F
<1>2. \/ /\ key' = [key EXCEPT ![r] = nextId] /\ created' = [created EXCEPT ![r] = TRUE]
         /\ dirty' = [dirty EXCEPT ![r] = Users!Nothing]
         /\ overtaken' = [overtaken EXCEPT ![r] = {}]
         /\ UNCHANGED <<faults, unanswered>>
      \/ /\ faults < MaxFaults /\ faults' = faults + 1
         /\ unanswered' = [unanswered EXCEPT ![r] = @ + 1]
         /\ UNCHANGED <<key, created, dirty, overtaken>>
  BY DEF Insert, Users!Insert, Users!Saved, Users!Fault
<1>3. [f \in F |-> Empty] \in [F -> V]
  BY DEF V
<1>4. new \in [F -> V] /\ new["name"] = username[r]
  <2>1. dirty[r]["name"] = username[r] /\ username[r] # Null
    BY <1>1, RegistrationAssumption DEF RegistrationAssumption, HInv, IInv, Types, Pending
  <2>2. QED
    BY <2>1, <1>3, RowOf DEF HInv, F
<1>5. rows'[nextId] = new /\ \A id \in Users!Ids : id # nextId => rows'[id] = rows[id]
  BY <1>1 DEF HInv, IInv, Types
<1>6. rows[nextId] = NoRow
  BY <1>1 DEF HInv, IInv, Types, Past
<1>7. ~created[r] /\ ~(missed'[r] > 0) /\ unanswered[r] \in Nat
  <2>1. ~created[r] /\ ~(missed[r] > 0)
    BY <1>1 DEF HInv, Stages
  <2>2. QED
    BY <1>1, <2>1 DEF HInv, Users!TypeOK
<1>8. Users!TypeOK'
  <2>1. /\ nextId' \in 1..Cardinality(Requests) + 1
        /\ rows' \in [Users!Ids -> [F -> V] \cup {NoRow}]
        /\ inserted' \in [Requests -> SUBSET Users!Ids]
    BY <1>1, <1>4, Counted DEF HInv, Users!TypeOK, Users!Ids, Users!Rows, F, V
  <2>2. \A id \in Users!Ids : id >= nextId' => rows'[id] = NoRow
    BY <1>1, <1>5 DEF HInv, IInv, Types, Past, Users!Ids
  <2>3. Users!Nothing \in [F -> V \cup {Null}]
    BY DEF Users!Nothing, F
  <2>4. dirty' \in [Requests -> [F -> V \cup {Null}]]
    BY <1>2, <2>3 DEF HInv, IInv, Types
  <2>5. \A x \in Requests, f \in F : dirty'[x][f] \in {Null, map'[x][f]}
    <3>1. \A x \in Requests, f \in F : dirty'[x][f] \in {Null, dirty[x][f]}
      <4>1. dirty' = dirty \/ dirty' = [dirty EXCEPT ![r] = Users!Nothing]
        BY <1>2
      <4>2. \A f \in F : Users!Nothing[f] = Null
        BY DEF Users!Nothing, F
      <4>3. QED
        BY <4>1, <4>2 DEF HInv, IInv, Types
    <3>2. \A x \in Requests, f \in F : dirty[x][f] \in {Null, map[x][f]}
      BY DEF HInv, Users!TypeOK, F
    <3>3. QED
      BY <1>1, <3>1, <3>2
  <2>6. /\ key' \in [Requests -> Users!Ids \cup {Users!NoKey}]
        /\ created' \in [Requests -> BOOLEAN]
        /\ overtaken' \in [Requests -> SUBSET F]
    <3>1. /\ key \in [Requests -> Users!Ids \cup {Users!NoKey}]
          /\ created \in [Requests -> BOOLEAN] /\ overtaken \in [Requests -> SUBSET F]
      BY DEF HInv, Users!TypeOK, F
    <3>2. QED
      BY <1>1, <1>2, <3>1
  <2>7. faults' \in 0..MaxFaults /\ unanswered' \in [Requests -> Nat]
    <3>1. faults \in 0..MaxFaults /\ MaxFaults \in Nat /\ unanswered \in [Requests -> Nat]
      BY RegistrationAssumption DEF RegistrationAssumption, HInv, Users!TypeOK
    <3>2. QED
      BY <1>2, <3>1
  <2>8. QED
    BY <1>1, <2>1, <2>2, <2>4, <2>5, <2>6, <2>7
       DEF HInv, Users!TypeOK, Users!Ids, Users!NoKey, Users!Rows, F, V
<1>9. \/ created'[r] /\ s = "password" /\ dirty'[r] = Users!Nothing /\ key'[r] = nextId
      \/ ~created'[r] /\ s = "failed" /\ unanswered'[r] > 0
  BY <1>2, <1>7 DEF HInv, IInv, Types, Users!TypeOK
<1>10. \A x \in Requests \ {r} : /\ created'[x] = created[x] /\ dirty'[x] = dirty[x] /\ missed'[x] = missed[x]
                                /\ key'[x] = key[x] /\ unanswered'[x] = unanswered[x]
  BY <1>1, <1>2 DEF HInv, IInv, Types, Users!TypeOK
<1>11. Stages'
  <2>1. CASE created'[r]
    BY <1>1, <1>7, <1>9, <1>10, <2>1, Staged
  <2>2. CASE ~created'[r]
    BY <1>1, <1>7, <1>9, <1>10, <2>2, Staged
  <2>3. QED
    BY <2>1, <2>2
<1>12. Half'
  <2>1. /\ username' = username /\ password' = password
        /\ pc'[r] = s /\ \A x \in Requests \ {r} : pc'[x] = pc[x]
    BY <1>1 DEF Go, call, HInv, IInv, Types
  <2>2. SUFFICES ASSUME NEW id \in Users!Ids, rows'[id] # NoRow, rows'[id]["password"] = Empty
                 PROVE  \E x \in Requests : Answers(x, id)'
    BY DEF Half, Users!Present, Users!Ids
  <2>3. CASE id = nextId
    <3>1. Answers(r, id)'
      BY <1>4, <1>5, <1>9, <2>1, <2>3 DEF Answers
    <3>2. QED
      BY <3>1
  <2>4. CASE id # nextId
    <3>1. PICK x \in Requests : Answers(x, id)
      BY <1>5, <2>2, <2>4 DEF HInv, Half, Users!Present
    <3>2. x # r
      BY <1>1, <3>1 DEF Answers
    <3>3. Answers(x, id)'
      BY <1>1, <1>5, <1>10, <2>1, <2>4, <3>1, <3>2 DEF Answers
    <3>4. QED
      BY <3>3
  <2>5. QED
    BY <2>3, <2>4
<1>13. QED
  BY <1>8, <1>11, <1>12

LEMMA HalfSave ==
  ASSUME HInv, NEW r \in Requests, Save(r)
  PROVE  Users!TypeOK' /\ Stages' /\ Half'
<1> DEFINE new == Users!Streamed(r, rows[key[r]])
<1>1. pc[r] = "save" /\ Go(r, pc[r], "registered") /\ Users!Update(r)
  BY DEF Save, Go
<1>2. /\ Users!Dirty(r) # {}
      /\ dirty' = [dirty EXCEPT ![r] = Users!Nothing]
      /\ \E b \in BOOLEAN : created' = [created EXCEPT ![r] = b]
      /\ UNCHANGED <<nextId, node, key, map, inserted, unanswered>>
      /\ faults' = faults \/ (faults < MaxFaults /\ faults' = faults + 1)
  BY <1>1 DEF Users!Update, Users!Saved, Users!Written, Users!Fault, Users!table
<1>3. \/ rows' = [rows EXCEPT ![key[r]] = new] /\ missed' = missed
      \/ rows' = [rows EXCEPT ![key[r]] = new] /\ missed' = [missed EXCEPT ![r] = @ + 1]
      \/ rows' = rows /\ missed' = [missed EXCEPT ![r] = @ + 1]
  BY <1>1 DEF Users!Update, Users!Written, Users!table
<1>4. overtaken' = overtaken \/ overtaken' = [o \in Requests |->
        IF o # r /\ key[o] = key[r] THEN overtaken[o] \cup Users!Dirty(r) ELSE overtaken[o]]
  BY <1>1 DEF Users!Update, Users!Written, Users!table
<1>5. /\ key[r] \in Users!Ids /\ rows[key[r]] # NoRow
      /\ rows[key[r]] \in [F -> V] /\ rows[key[r]]["name"] = username[r]
  BY <1>1 DEF HInv, IInv, Types, Owned, Own
<1>6. /\ new \in [F -> V] /\ new["name"] = username[r] /\ new["password"] = password[r]
  <2>1. dirty[r]["name"] = Null /\ dirty[r]["password"] = password[r]
    BY <1>1 DEF HInv, IInv, Pending
  <2>2. password[r] # Null
    BY <1>2, <2>1 DEF Users!Dirty
  <2>3. QED
    BY <1>5, <2>1, <2>2, RowOf DEF HInv, F
<1>7. /\ missed' \in [Requests -> Nat] /\ missed[r] \in Nat
      /\ \A x \in Requests \ {r} : missed'[x] = missed[x] /\ dirty'[x] = dirty[x] /\ created'[x] = created[x]
      /\ rows' # [rows EXCEPT ![key[r]] = new] => missed'[r] > 0
  BY <1>2, <1>3 DEF HInv, IInv, Types
<1>8. \A id \in Users!Ids : id # key[r] => rows'[id] = rows[id]
  BY <1>3 DEF HInv, IInv, Types
<1>9. /\ rows'[key[r]] \in [F -> V] /\ rows'[key[r]]["name"] = username[r]
      /\ \/ rows'[key[r]]["password"] = password[r]
         \/ missed'[r] > 0
  <2>1. CASE rows' = [rows EXCEPT ![key[r]] = new]
    BY <1>5, <1>6, <2>1 DEF HInv, IInv, Types
  <2>2. CASE rows' # [rows EXCEPT ![key[r]] = new]
    BY <1>3, <1>5, <1>7, <2>2
  <2>3. QED
    BY <2>1, <2>2
<1>10. Users!TypeOK'
  <2>1. rows' \in [Users!Ids -> [F -> V] \cup {NoRow}]
    BY <1>3, <1>5, <1>6 DEF HInv, IInv, Types
  <2>2. \A id \in Users!Ids : id >= nextId' => rows'[id] = NoRow
    BY <1>2, <1>5, <1>8 DEF HInv, IInv, Types, Past
  <2>3. Users!Nothing \in [F -> V \cup {Null}]
    BY DEF Users!Nothing, F
  <2>4. dirty' \in [Requests -> [F -> V \cup {Null}]]
    BY <1>2, <2>3 DEF HInv, IInv, Types
  <2>5. \A x \in Requests, f \in F : dirty'[x][f] \in {Null, map'[x][f]}
    BY <1>2 DEF HInv, IInv, Types, Users!TypeOK, Users!Nothing, F
  <2>6. created' \in [Requests -> BOOLEAN] /\ faults' \in 0..MaxFaults
    BY <1>2, RegistrationAssumption DEF RegistrationAssumption, HInv, Users!TypeOK
  <2>7. overtaken' \in [Requests -> SUBSET F]
    <3>1. Users!Dirty(r) \subseteq F
      BY DEF Users!Dirty, F
    <3>2. overtaken \in [Requests -> SUBSET F]
      BY DEF HInv, Users!TypeOK, F
    <3>3. QED
      BY <1>4, <3>1, <3>2
  <2>8. QED
    BY <1>2, <1>7, <2>1, <2>2, <2>4, <2>5, <2>6, <2>7
       DEF HInv, Users!TypeOK, Users!Ids, Users!NoKey, Users!Rows, F, V
<1>11. Stages'
  BY <1>1, <1>2, <1>7, Staged
<1>12. Half'
  <2>1. /\ username' = username /\ password' = password /\ pc'[r] = "registered"
        /\ \A x \in Requests \ {r} : pc'[x] = pc[x]
    BY <1>1 DEF Go, call, HInv, IInv, Types
  <2>2. SUFFICES ASSUME NEW id \in Users!Ids, rows'[id] # NoRow, rows'[id]["password"] = Empty
                 PROVE  \E x \in Requests : Answers(x, id)'
    BY DEF Half, Users!Present, Users!Ids
  <2>3. CASE id = key[r]
    <3>1. Answers(r, id)'
      BY <1>2, <1>9, <2>1, <2>2, <2>3 DEF Answers
    <3>2. QED
      BY <3>1
  <2>4. CASE id # key[r]
    <3>1. PICK x \in Requests : Answers(x, id)
      BY <1>8, <2>2, <2>4 DEF HInv, Half, Users!Present
    <3>2. x # r
      BY <1>1, <2>4, <3>1 DEF Answers
    <3>3. Answers(x, id)'
      BY <1>2, <1>7, <1>8, <2>1, <2>4, <3>1, <3>2 DEF Answers
    <3>4. QED
      BY <3>3
  <2>5. QED
    BY <2>3, <2>4
<1>13. QED
  BY <1>10, <1>11, <1>12

LEMMA HalfStep == HInv /\ [Next]_vars => HInv'
<1> SUFFICES ASSUME HInv, [Next]_vars PROVE HInv'
  OBVIOUS
<1>1. IInv'
  BY Inductive DEF HInv
<1>2. CASE UNCHANGED vars
  <2>1. Users!TypeOK' /\ Stages'
    BY <1>2 DEF vars, user, call, HInv, Users!TypeOK, Users!Ids, Users!Rows, Stages, Users!Dirty, Users!Nothing
  <2>2. Half'
    BY <1>2 DEF vars, user, call, HInv, Half, Answers, Users!Present, Users!Ids
  <2>3. QED
    BY <1>1, <2>1, <2>2 DEF HInv
<1>3. CASE Next
  <2>1. PICK r \in Requests : Register(r)
    BY <1>3 DEF Next
  <2>2. faults \in 0..MaxFaults /\ node \in [Requests -> {"none", "proxy", "node"}] /\ MaxFaults \in Nat
    BY RegistrationAssumption DEF RegistrationAssumption, HInv, Users!TypeOK
  <2>3. CASE NotFound(r) \/ InsertFails(r) \/ SaveThrows(r) \/ Die(r)
    <3>1. UNCHANGED <<rows, nextId, node, key, created, map, dirty, inserted, unanswered, missed, overtaken>>
      BY <2>3 DEF NotFound, InsertFails, SaveThrows, Die, user
    <3>2. faults' = faults \/ (faults < MaxFaults /\ faults' = faults + 1)
      BY <2>3 DEF NotFound, InsertFails, SaveThrows, Die, Users!Fault
    <3>3. faults' \in 0..MaxFaults
      BY <2>2, <3>2
    <3>4. \E s \in {"create", "failed"} : Go(r, pc[r], s) /\ pc[r] \notin Ended /\ (s = "create" => pc[r] = "get")
      BY <2>3 DEF NotFound, InsertFails, SaveThrows, Die, Go, Ended
    <3>5. QED
      BY <1>1, <2>2, <3>1, <3>3, <3>4, HalfKeeps DEF HInv
  <2>4. CASE Create(r)
    <3>1. /\ Go(r, pc[r], "name") /\ pc[r] = "create" /\ node' = [node EXCEPT ![r] = "node"]
          /\ UNCHANGED <<rows, nextId, key, created, map, dirty, faults, inserted, unanswered, missed, overtaken>>
      BY <2>4 DEF Create, Go, Users!Create, Users!table, Users!history
    <3>2. node' \in [Requests -> {"none", "proxy", "node"}]
      BY <2>2, <3>1
    <3>3. QED
      BY <1>1, <2>2, <3>1, <3>2, HalfKeeps DEF HInv, Ended
  <2>5. QED
    BY <1>1, <2>1, <2>3, <2>4, HalfExists, HalfSets, HalfInsert, HalfSave DEF Register, HInv
<1>4. QED
  BY <1>2, <1>3

\* A user without a password belongs to a request that has not come to save it, that was
\* stopped before, or whose second save failed (register(), and the two saves of
\* UserLogic); each save() finds the object as it expects it.
THEOREM NobodyIsHalfThere == Spec => []NoHalfUser
<1>1. HInv => NoHalfUser
  <2> SUFFICES ASSUME HInv PROVE NoHalfUser
    OBVIOUS
  <2>1. \A r \in Requests : pc[r] \in Own => key[r] \in Users!Present
    BY DEF HInv, IInv, Owned, Users!Present
  <2>2. TypeOK
    BY <2>1 DEF HInv, IInv, Types, Stages, TypeOK, Own
  <2>3. QED
    BY <2>2 DEF HInv, Half, Answers, NoHalfUser
<1>2. QED
  BY HalfInit, HalfStep, <1>1, PTL DEF Spec
=============================================================================
