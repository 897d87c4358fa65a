---------------------------- MODULE Registration ----------------------------
(***************************************************************************)
(* Users register: AuthenticationLogic.register() and UserLogic over the   *)
(* user table.  A request looks for the name, inserts the user with his    *)
(* name (and e-mail), and then saves his password by a second statement;   *)
(* nothing joins the three, and requests run concurrently.  Each has one   *)
(* Entity<User>, which SqlEntity models, and takes its steps.              *)
(***************************************************************************)
EXTENDS Naturals, FiniteSets

CONSTANTS
  Requests,   \* calls of register()
  Names, Passwords,
  Empty,      \* the columns' default
  Null,       \* a parameter that is not there
  NoRow,
  MaxFaults   \* bound: statements that fail or whose answer is lost

ASSUME RegistrationAssumption ==
  /\ IsFiniteSet(Requests)
  /\ Null \notin Names \cup Passwords \cup {Empty}
  /\ NoRow \notin [{"name", "password"} -> Names \cup Passwords \cup {Empty}]
  /\ MaxFaults \in Nat

VARIABLES
  rows, nextId, node, key, created, map, dirty, faults,
  inserted, unanswered, missed, overtaken,  \* as in SqlEntity
  pc,            \* where register() is, or how it ended
  username, password

Users == INSTANCE SqlEntity WITH
  Objects <- Requests, Fields <- {"name", "password"}, Unique <- {"name"},
  Values <- Names \cup Passwords \cup {Empty}, Default <- Empty,
  BulkUpdates <- {}, MaxId <- Cardinality(Requests)

call == <<username, password>>
user == <<rows, nextId, node, key, created, map, dirty, inserted, unanswered, missed, overtaken>>
vars == <<user, faults, pc, call>>

Ended == {"existing", "registered", "failed"}

TypeOK ==
  /\ Users!TypeOK
  /\ pc \in [Requests -> {"get", "create", "name", "insert", "password", "save"} \cup Ended]
  /\ username \in [Requests -> Names] /\ password \in [Requests -> Passwords \cup {Null}]
  \* The object is in the state that save() expects at that point.
  /\ \A r \in Requests :
       /\ pc[r] = "insert" => ~created[r] /\ Users!Dirty(r) = {"name"}
       /\ pc[r] = "save" => created[r] /\ Users!Dirty(r) \subseteq {"password"}
       /\ pc[r] \in {"password", "save", "registered"} => key[r] \in Users!Present

Init ==
  /\ Users!Init
  /\ pc = [r \in Requests |-> "get"]
  /\ username \in [Requests -> Names] /\ password \in [Requests -> Passwords \cup {Null}]

Go(r, from, to) == pc[r] = from /\ pc' = [pc EXCEPT ![r] = to] /\ UNCHANGED call

Named(name) == {id \in Users!Present : rows[id]["name"] = name}

\* Mutant of Exists: the password is saved for a user that was there, too.
ExistsAnyway(r) ==
  /\ Go(r, "get", "password")
  /\ \E id \in Named(username[r]) : Users!Wrap(r, id)

\* UserLogic.get() finds the user: he is returned as he is.
Exists(r) ==
  /\ Go(r, "get", "existing")
  /\ \E id \in Named(username[r]) : Users!Wrap(r, id)

\* It finds none; so does a query that fails.
NotFound(r) ==
  /\ Go(r, "get", "create")
  /\ \/ Named(username[r]) = {} /\ UNCHANGED faults
     \/ Users!Fault
  /\ UNCHANGED user

\* UserLogic.create().
Create(r) == Go(r, "create", "name") /\ Users!Create(r)
SetName(r) == Go(r, "name", "insert") /\ Users!Assign(r, "name", username[r])

\* Its save(): without a key there is an exception, though the user may be there.
Insert(r) ==
  /\ Users!Insert(r)
  /\ Go(r, "insert", IF created'[r] THEN "password" ELSE "failed")

InsertFails(r) ==
  /\ Go(r, "insert", "failed")
  /\ \/ Named(username[r]) # {} /\ UNCHANGED faults
     \/ Users!Fault
  /\ UNCHANGED user

SetPassword(r) == Go(r, "password", "save") /\ Users!Assign(r, "password", password[r])

\* Mutant of Save: create() has saved the user already.
SaveNothing(r) == Go(r, "save", "registered") /\ UNCHANGED <<user, faults>>

\* The second save(), whose result nobody looks at.
Save(r) == Go(r, "save", "registered") /\ Users!Update(r)

\* There is nothing to save: it throws.
SaveThrows(r) ==
  /\ Go(r, "save", "failed")
  /\ Users!Dirty(r) = {} /\ UNCHANGED <<user, faults>>

\* The server stops.
Die(r) == pc[r] \notin Ended /\ Go(r, pc[r], "failed") /\ UNCHANGED <<user, faults>>

Register(r) ==
  \/ Exists(r) \/ NotFound(r) \/ Create(r) \/ SetName(r) \/ Insert(r) \/ InsertFails(r)
  \/ SetPassword(r) \/ Save(r) \/ SaveThrows(r) \/ Die(r)

Next == \E r \in Requests : Register(r)

Spec == Init /\ [][Next]_vars

-----------------------------------------------------------------------------
\* login() with a name and a password: whom it finds, that has the password.
Login(name, given) == {id \in Named(name) : rows[id]["password"] = given}

\* However requests interleave, one of them at most has registered a name.
OneOwner ==
  \A r, q \in Requests :
    pc[r] = "registered" /\ pc[q] = "registered" /\ username[r] = username[q] => r = q

\* Who has registered can log in with his password, to his own row, whatever the
\* requests for his name do since; unless his second save had reported failure.
RegisteredCanLogin ==
  \A r \in Requests :
    pc[r] = "registered" /\ missed[r] = 0 => Login(username[r], password[r]) = {key[r]}

\* A user without a password belongs to a request that is about to save it, or
\* that an exception, the server's end or a failed save has stopped in between;
\* one whose second save has worked leaves none, unless the empty password was
\* asked for.  The types hold, too, and each save() finds its object as it
\* expects it.
NoHalfUser ==
  /\ TypeOK
  /\ \A id \in Users!Present : rows[id]["password"] = Empty =>
       \E r \in Requests :
         /\ rows[id]["name"] = username[r]
         /\ \/ key[r] = id /\ pc[r] \in {"password", "save", "failed"}
            \/ key[r] = id /\ pc[r] = "registered" /\ (missed[r] > 0 \/ password[r] = Empty)
            \/ unanswered[r] > 0 /\ pc[r] = "failed"
=============================================================================
