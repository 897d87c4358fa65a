----------------------------- MODULE SqlEntity -----------------------------
(***************************************************************************)
(* Entities of a table: Entity, Node, SQLNode, ProxyEntity, and the SQL    *)
(* manager with its operations, for one table.  The program holds objects, *)
(* each with a key, the values it shows (map), those to be saved (dirty),  *)
(* and whether there is a row for it (created).  save() inserts or updates *)
(* by `created`; the table gives the keys.  Several objects may stand for  *)
(* one row, for nothing is cached and each thread fetches its own.         *)
(*                                                                         *)
(* SQLConnection swallows every SQLException: a query that fails has found *)
(* nothing, an update has changed nothing, an insert has no key, even if   *)
(* the statement was executed and only its answer was lost.                *)
(***************************************************************************)
EXTENDS Naturals, FiniteSets

CONSTANTS
  Objects,   \* entity objects
  Fields,    \* the fields but for the primary key
  Unique,    \* the fields annotated with @Unique
  Values,    \* what a column may hold
  Default,   \* the columns' default (they are NOT NULL)
  Null,      \* Java's null
  NoRow,
  BulkUpdates, \* updates by a predicate, of a field that is not unique
  MaxId,     \* bound: rows ever inserted
  MaxFaults  \* bound: statements that fail or whose answer is lost

ASSUME SqlAssumption ==
  /\ Unique \subseteq Fields /\ Default \in Values
  /\ Null \notin Values /\ NoRow \notin [Fields -> Values]
  /\ BulkUpdates \subseteq [where : Fields, is : Values, set : Fields \ Unique, to : Values]
  /\ {MaxId, MaxFaults} \subseteq Nat

VARIABLES
  rows, nextId,             \* the table and its AUTO_INCREMENT
  node,                     \* "none": not in use; "proxy": node == null; "node"
  key, created, map, dirty, \* of each object
  faults,
  \* history, of each object
  inserted,                 \* the rows it has inserted
  unanswered,               \* inserts executed whose answer was lost
  missed,                   \* updates that reported no row
  overtaken                 \* fields that others have written since it was read

table   == <<rows, nextId>>
object  == <<node, key, created, map, dirty>>
history == <<inserted, unanswered, missed, overtaken>>
vars    == <<table, object, faults, history>>

Ids     == 1..MaxId
NoKey   == 0                             \* "", until the table gives one
Rows    == [Fields -> Values]
Nothing == [f \in Fields |-> Null]

TypeOK ==
  /\ rows \in [Ids -> Rows \cup {NoRow}] /\ nextId \in 1..MaxId + 1
  /\ \A id \in Ids : id >= nextId => rows[id] = NoRow
  /\ node \in [Objects -> {"none", "proxy", "node"}]
  /\ key \in [Objects -> Ids \cup {NoKey}]
  /\ created \in [Objects -> BOOLEAN]
  /\ map \in [Objects -> [Fields -> Values \cup {Null}]]
  /\ dirty \in [Objects -> [Fields -> Values \cup {Null}]]
  /\ \A e \in Objects, f \in Fields : dirty[e][f] \in {Null, map[e][f]}
  /\ faults \in 0..MaxFaults
  /\ inserted \in [Objects -> SUBSET Ids]
  /\ unanswered \in [Objects -> Nat] /\ missed \in [Objects -> Nat]
  /\ overtaken \in [Objects -> SUBSET Fields]

Init ==
  /\ rows = [id \in Ids |-> NoRow] /\ nextId = 1
  /\ node = [e \in Objects |-> "none"]
  /\ key = [e \in Objects |-> NoKey]
  /\ created = [e \in Objects |-> FALSE]
  /\ map = [e \in Objects |-> Nothing] /\ dirty = [e \in Objects |-> Nothing]
  /\ faults = 0
  /\ inserted = [e \in Objects |-> {}]
  /\ unanswered = [e \in Objects |-> 0] /\ missed = [e \in Objects |-> 0]
  /\ overtaken = [e \in Objects |-> {}]

Present == {id \in Ids : rows[id] # NoRow}

\* Mutant of Distinct: a unique key over all the columns.
DistinctWhole(table_) ==
  \A i, j \in {id \in Ids : table_[id] # NoRow} : i # j => table_[i] # table_[j]

\* What the table accepts: no two rows with the same value of a unique field.
Distinct(table_) ==
  \A i, j \in {id \in Ids : table_[id] # NoRow}, f \in Unique :
    i # j => table_[i][f] # table_[j][f]

-----------------------------------------------------------------------------
(* Objects come into being.                                                *)

\* create().
Create(e) ==
  /\ node[e] = "none"
  /\ node' = [node EXCEPT ![e] = "node"]
  /\ UNCHANGED <<table, key, created, map, dirty, faults, history>>

\* wrap() of what the streamer has parsed.
Wrap(e, id) ==
  /\ node' = [node EXCEPT ![e] = "node"]
  /\ key' = [key EXCEPT ![e] = id]
  /\ created' = [created EXCEPT ![e] = TRUE]
  /\ map' = [map EXCEPT ![e] = rows[id]]
  /\ overtaken' = [overtaken EXCEPT ![e] = {}]
  /\ UNCHANGED <<table, dirty, faults, inserted, unanswered, missed>>

\* get(key) of a row that is there, or one of those a query has found.
Get(e) == node[e] = "none" /\ \E id \in Present : Wrap(e, id)

\* A field that refers to an entity is read as a proxy, whether or not there
\* still is such a row; where it was never set, the column holds 0.
Proxy(e) ==
  /\ node[e] = "none"
  /\ node' = [node EXCEPT ![e] = "proxy"]
  /\ \E id \in NoKey..nextId - 1 : key' = [key EXCEPT ![e] = id]
  /\ UNCHANGED <<table, created, map, dirty, faults, history>>

\* ProxyEntity.getNode(), when it is first used; it throws if there is no row.
Touch(e) == node[e] = "proxy" /\ key[e] \in Present /\ Wrap(e, key[e])

\* set(); getDirty() and get() take null for nothing.
Assign(e, f, v) ==
  /\ node[e] = "node"
  /\ map' = [map EXCEPT ![e][f] = v]
  /\ dirty' = [dirty EXCEPT ![e][f] = v]
  /\ UNCHANGED <<table, node, key, created, faults, history>>

Set(e) == \E f \in Fields, v \in Values \cup {Null} : Assign(e, f, v)

-----------------------------------------------------------------------------
(* save().                                                                 *)

Fault    == faults < MaxFaults /\ faults' = faults + 1
Dirty(e) == {f \in Fields : dirty[e][f] # Null}

\* What the statement makes of a row: its SET or VALUES are the dirty fields.
Streamed(e, row) == [f \in Fields |-> IF f \in Dirty(e) THEN dirty[e][f] ELSE row[f]]

\* Mutant of Saved: after a missed update it still counts as a row.
SavedAnyway(e, success) ==
  /\ created' = [created EXCEPT ![e] = @ \/ success]
  /\ dirty' = [dirty EXCEPT ![e] = Nothing]

\* Mutant of Saved: whether there is a row is not remembered.
SavedOnly(e, success) ==
  /\ dirty' = [dirty EXCEPT ![e] = Nothing]
  /\ UNCHANGED created

\* SQLSaveOperation.op(), after the query: markCreated(success), mark().
Saved(e, success) ==
  /\ created' = [created EXCEPT ![e] = success]
  /\ dirty' = [dirty EXCEPT ![e] = Nothing]

Inserted(e) ==
  LET new == [rows EXCEPT ![nextId] = Streamed(e, [f \in Fields |-> Default])]
  IN  /\ nextId \in Ids /\ Distinct(new)
      /\ rows' = new /\ nextId' = nextId + 1
      /\ inserted' = [inserted EXCEPT ![e] = @ \cup {nextId}]

\* SQLInsertOperation.  Without a key setKey() throws, and the object is as it
\* was: when the statement failed, nothing has changed at all.
Insert(e) ==
  /\ node[e] = "node" /\ ~created[e] /\ Dirty(e) # {}
  /\ Inserted(e)
  /\ \/ /\ key' = [key EXCEPT ![e] = nextId]
        /\ Saved(e, TRUE)
        /\ overtaken' = [overtaken EXCEPT ![e] = {}]
        /\ UNCHANGED <<faults, unanswered>>
     \/ /\ Fault /\ unanswered' = [unanswered EXCEPT ![e] = @ + 1]
        /\ UNCHANGED <<key, created, dirty, overtaken>>
  /\ UNCHANGED <<node, map, missed>>

Written(e) ==
  LET new == [rows EXCEPT ![key[e]] = Streamed(e, rows[key[e]])]
  IN  /\ key[e] \in Present /\ Distinct(new)
      /\ rows' = new /\ UNCHANGED nextId
      /\ overtaken' = [o \in Objects |->
           IF o # e /\ key[o] = key[e] THEN overtaken[o] \cup Dirty(e) ELSE overtaken[o]]

Refused(e) ==
  key[e] \in Present => ~Distinct([rows EXCEPT ![key[e]] = Streamed(e, rows[key[e]])])

\* Mutant of Update: it is a success unless an exception is seen.
UpdateTrusting(e) ==
  /\ node[e] = "node" /\ created[e] /\ Dirty(e) # {}
  /\ Saved(e, TRUE)
  /\ \/ Written(e) /\ UNCHANGED faults
     \/ Refused(e) /\ UNCHANGED <<table, faults, overtaken>>
     \/ Fault /\ UNCHANGED <<table, overtaken>>
     \/ Fault /\ Written(e)
  /\ UNCHANGED <<node, key, map, inserted, unanswered, missed>>

\* SQLUpdateOperation.  What changed no row is not dirty any more, either.
Update(e) ==
  /\ node[e] = "node" /\ created[e] /\ Dirty(e) # {}
  /\ \/ Written(e) /\ Saved(e, TRUE) /\ UNCHANGED <<faults, missed>>
     \/ /\ Saved(e, FALSE) /\ missed' = [missed EXCEPT ![e] = @ + 1]
        /\ \/ Refused(e) /\ UNCHANGED <<table, faults, overtaken>>
           \/ Fault /\ UNCHANGED <<table, overtaken>>
           \/ Fault /\ Written(e)
  /\ UNCHANGED <<node, key, map, inserted, unanswered>>

-----------------------------------------------------------------------------
\* delete(key): the object does not learn of it.
Delete(e) ==
  /\ node[e] # "none" /\ key[e] \in Present
  /\ rows' = [rows EXCEPT ![key[e]] = NoRow]
  /\ UNCHANGED <<nextId, object, faults, history>>

\* update(values, predicate): a field of all rows that have a value in another.
UpdateWhere ==
  \E u \in BulkUpdates :
    LET found == {id \in Present : rows[id][u.where] = u.is}
    IN  /\ rows' = [id \in Ids |-> IF id \in found THEN [rows[id] EXCEPT ![u.set] = u.to] ELSE rows[id]]
        /\ overtaken' = [o \in Objects |-> IF key[o] \in found THEN overtaken[o] \cup {u.set} ELSE overtaken[o]]
        /\ UNCHANGED <<nextId, object, faults, inserted, unanswered, missed>>

Use(e) ==
  \/ Create(e) \/ Get(e) \/ Proxy(e) \/ Touch(e)
  \/ Set(e) \/ Insert(e) \/ Update(e) \/ Delete(e)

Next == UpdateWhere \/ \E e \in Objects : Use(e)

Spec == Init /\ [][Next]_vars

-----------------------------------------------------------------------------
\* What an object shows and has not to save is what its row holds, but for what
\* others wrote since; unless one of its updates reported failure (mark() then
\* forgets the values, and the next save inserts without them).  The types
\* hold, too, and what is to be saved is what is shown.
ShowsItsRow ==
  /\ TypeOK
  /\ \A e \in Objects, f \in Fields :
       created[e] /\ missed[e] = 0 /\ key[e] \in Present
         /\ map[e][f] # Null /\ dirty[e][f] = Null /\ f \notin overtaken[e]
       => rows[key[e]][f] = map[e][f]

\* However often it is saved, an object has one row: each row more that it has
\* inserted stands for an insert unanswered or an update that reported none.
OneRowEach ==
  \A e \in Objects :
    Cardinality(inserted[e] \ {key[e]}) <= unanswered[e] + missed[e]

\* And when one has: where the insert that followed the missed update left out what
\* the object still shows, the row it now has holds the default, and nothing else.
GapsAreBlank ==
  \A e \in Objects, f \in Fields :
    created[e] /\ key[e] \in Present
      /\ map[e][f] # Null /\ dirty[e][f] = Null /\ f \notin overtaken[e]
    => rows[key[e]][f] \in {map[e][f], Default}
=============================================================================
