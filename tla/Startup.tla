------------------------------ MODULE Startup ------------------------------
(***************************************************************************)
(* Servers start: ServiceManager initialises the services, each after      *)
(* those it has a field for, and NeighbourhoodService among them looks for *)
(* the definition of the logical badge, or creates it (LogicalBadge).      *)
(* Each start has one Entity<BadgeDefinition>, which SqlEntity models, and *)
(* takes its steps.  Nothing joins the query with the insert, and several  *)
(* servers start together, fail and start again: each time is a start.     *)
(*                                                                         *)
(* Of the definition's columns one is kept, for the four that the query    *)
(* compares; its parent, which is null, is not compared.                   *)
(***************************************************************************)
EXTENDS Naturals, FiniteSets

CONSTANTS
  Starts,         \* starts of a server
  Services,
  Neighbourhood,  \* NeighbourhoodService
  Graphs,         \* which fields services may have for services
  Welcome,        \* the definition's name, description, asset and type
  Blank,          \* the column's default
  Null, NoRow,
  MaxFaults       \* bound: statements that fail or whose answer is lost

ASSUME StartupAssumption ==
  /\ Neighbourhood \in Services /\ Graphs \subseteq [Services -> SUBSET Services]
  /\ Welcome # Blank /\ Null \notin {Welcome, Blank} /\ NoRow \notin [{"badge"} -> {Welcome, Blank}]
  /\ MaxFaults \in Nat

VARIABLES
  needs,       \* dependencySet: the services that a service has fields for
  phase, todo, \* of a start: where it is, and uninitializedServiceSet
  rows, nextId, node, key, created, map, dirty, faults,
  inserted, unanswered, missed, overtaken,  \* as in SqlEntity
  seen,        \* history: the definitions that were there when a start looked
  late,        \* history: starts that others overtook
  blind,       \* history: starts whose query failed
  unsaved      \* history: starts whose insert failed

Badges == INSTANCE SqlEntity WITH
  Objects <- Starts, Fields <- {"badge"}, Unique <- {}, Values <- {Welcome, Blank},
  Default <- Blank, BulkUpdates <- {}, MaxId <- Cardinality(Starts)

table   == <<rows, nextId, node, key, created, map, dirty, faults, inserted, unanswered, missed, overtaken>>
startHistory == <<seen, late, blind, unsaved>>
startVars    == <<needs, phase, todo, table, startHistory>>

Defining == {"query", "create", "set", "save"}
Ended    == {"up", "exited", "gone"}

StartTypeOK ==
  /\ needs \in Graphs
  /\ phase \in [Starts -> {"off", "check", "init"} \cup Defining \cup Ended]
  /\ todo \in [Starts -> SUBSET Services]
  /\ Badges!TypeOK
  /\ seen \in [Starts -> SUBSET Badges!Ids]
  /\ late \subseteq Starts /\ blind \subseteq Starts /\ unsaved \subseteq Starts

StartInit ==
  /\ needs \in Graphs
  /\ phase = [s \in Starts |-> "off"] /\ todo = [s \in Starts |-> Services]
  /\ Badges!Init
  /\ seen = [s \in Starts |-> {}] /\ late = {} /\ blind = {} /\ unsaved = {}

Goes(s, from, to) == phase[s] = from /\ phase' = [phase EXCEPT ![s] = to] /\ UNCHANGED needs

-----------------------------------------------------------------------------
(* ServiceManager.setupServices().                                         *)

\* The services are found, made and asked for their fields.
Begin(s) == Goes(s, "off", "check") /\ UNCHANGED <<todo, table, startHistory>>

\* Two services that have a field for each other, or one that has one for itself.
Circular == \E v \in Services : \E w \in needs[v] : v \in needs[w]

\* Mutant of CheckNeeds: a service's own fields are not looked for in what it needs.
CheckNeedsSelf(s) ==
  /\ Goes(s, "check", IF \E v \in Services : v \in needs[v] THEN "exited" ELSE "init")
  /\ UNCHANGED <<todo, table, startHistory>>

\* Then the process exits.
CheckNeeds(s) ==
  /\ Goes(s, "check", IF Circular THEN "exited" ELSE "init")
  /\ UNCHANGED <<todo, table, startHistory>>

\* Mutant of Ready: services are initialised in the order they were found.
ReadyAnyway(s, v) == v \in todo[s]

Ready(s, v) == v \in todo[s] /\ needs[v] \cap todo[s] = {}

\* load() of one of the others.  Services are in the order of a hash table.
Load(s) ==
  /\ Goes(s, "init", "init")
  /\ \E v \in Services \ {Neighbourhood} : Ready(s, v) /\ todo' = [todo EXCEPT ![s] = @ \ {v}]
  /\ UNCHANGED <<table, startHistory>>

\* load() of NeighbourhoodService, which makes the BadgeController.
LoadNeighbourhood(s) ==
  /\ Goes(s, "init", "query") /\ Ready(s, Neighbourhood)
  /\ UNCHANGED <<todo, table, startHistory>>

\* postInit(), when all are initialised.
PostInit(s) ==
  /\ Goes(s, "init", "up") /\ todo[s] = {}
  /\ UNCHANGED <<todo, table, startHistory>>

-----------------------------------------------------------------------------
(* LogicalBadge.initDefinition().                                          *)

Welcomes == {id \in Badges!Present : rows[id]["badge"] = Welcome}

\* Mutant of Matching: the parent is compared even when it is null, which no row is.
MatchingParent == {}

\* What the query finds when it does not fail.
Matching == Welcomes

\* init() has ended, with a definition or an exception that initLogicalBadges() logs.
Loaded(s, from) == Goes(s, from, "init") /\ todo' = [todo EXCEPT ![s] = @ \ {Neighbourhood}]

\* Some definition is found: the first that the table gives.
Found(s) ==
  /\ Loaded(s, "query")
  /\ \E id \in Matching : Badges!Wrap(s, id)
  /\ UNCHANGED <<faults, startHistory>>

\* None is found, or the query fails.
NotFound(s) ==
  /\ Goes(s, "query", "create")
  /\ \/ Matching = {} /\ UNCHANGED <<faults, blind>>
     \/ Badges!Fault /\ blind' = blind \cup {s}
  /\ seen' = [seen EXCEPT ![s] = Welcomes]
  /\ UNCHANGED <<todo, rows, nextId, node, key, created, map, dirty, inserted, unanswered, missed, overtaken, late, unsaved>>

Create(s) == Goes(s, "create", "set") /\ Badges!Create(s) /\ UNCHANGED <<todo, startHistory>>
Set(s)    == Goes(s, "set", "save") /\ Badges!Assign(s, "badge", Welcome) /\ UNCHANGED <<todo, startHistory>>

\* Mutant of Save: the transaction is finished, and the entity has not been saved.
SaveNothing(s) == Loaded(s, "save") /\ UNCHANGED <<table, startHistory>>

\* save(): its answer may be lost, and then there is an exception.
Save(s) ==
  /\ Loaded(s, "save") /\ Badges!Insert(s)
  /\ late' = IF Welcomes = seen[s] THEN late ELSE late \cup {s}
  /\ UNCHANGED <<seen, blind, unsaved>>

SaveFails(s) ==
  /\ Loaded(s, "save") /\ Badges!Fault /\ unsaved' = unsaved \cup {s}
  /\ UNCHANGED <<rows, nextId, node, key, created, map, dirty, inserted, unanswered, missed, overtaken, seen, late, blind>>

-----------------------------------------------------------------------------
\* The server stops, at any time.
Stop(s) ==
  /\ phase[s] \notin {"off", "exited", "gone"} /\ Goes(s, phase[s], "gone")
  /\ UNCHANGED <<todo, table, startHistory>>

Proceed(s) ==
  \/ CheckNeeds(s) \/ Load(s) \/ LoadNeighbourhood(s) \/ PostInit(s)
  \/ Found(s) \/ NotFound(s) \/ Create(s) \/ Set(s) \/ Save(s) \/ SaveFails(s)

StartNext == \E s \in Starts : Begin(s) \/ Proceed(s) \/ Stop(s)

\* A server's thread runs.
StartSpec == StartInit /\ [][StartNext]_startVars /\ \A s \in Starts : WF_startVars(Proceed(s))

-----------------------------------------------------------------------------
\* ServiceManager: while services are being initialised, whatever their order, those
\* that are and the one that is have all the services initialised that they lead to.
InOrder ==
  \A s \in Starts :
    /\ \A v \in Services \ todo[s] : needs[v] \cap todo[s] = {}
    /\ phase[s] \in Defining => needs[Neighbourhood] \cap todo[s] = {}

\* LogicalBadge.initDefinition(): of the starts that have created a definition all but
\* one had a query that failed, or were overtaken by another between query and insert.
OneCreator ==
  \A s, t \in Starts :
    inserted[s] # {} /\ inserted[t] # {} /\ {s, t} \cap (late \cup blind) = {} => s = t

\* A server that is up awards a badge whose definition is stored; it has none only if
\* its own insert failed or was not answered.  What befell the others' statements, or
\* its own query, is no excuse.
AwardsStored ==
  \A s \in Starts : phase[s] = "up" =>
    IF created[s] THEN key[s] \in Welcomes ELSE s \in unsaved \/ unanswered[s] > 0

\* ServiceManager: a start comes to its end, exiting if two services need each other;
\* but with a longer circle it goes over the services for ever.
Stuck(S) == S # {} /\ \A v \in S : needs[v] \cap S # {}
StartsEnd == \A s \in Starts :
  (phase[s] = "check") ~>
    (phase[s] \in Ended \/ (~Circular /\ \E S \in SUBSET Services : Stuck(S)))
=============================================================================
