--------------------------- MODULE ConceptFarmer ---------------------------
(***************************************************************************)
(* The concept farmers of ConceptFarmer.java and ConceptFarmerThread.java. *)
(* Every node of the cluster may run farmer threads.  A thread takes the   *)
(* links of the `conceptlink` table that wait for processing, reads the    *)
(* page behind each, trains the concept model with its phrases and writes  *)
(* the outcome back.  The table is the job queue, and nothing but three    *)
(* separate SQL statements stands between two threads that want the same   *)
(* link:                                                                   *)
(*   1. SELECT the free links (waiting, or claimed over 30 minutes ago);   *)
(*   2. UPDATE them by id: PROCESSING, mine, now -- with no second look;   *)
(*   3. SELECT what is PROCESSING and mine: that is the batch.             *)
(* A statement that fails is logged and reads as an empty result or as no  *)
(* row changed (SQLConnection), so the thread goes on regardless.          *)
(***************************************************************************)
EXTENDS Integers, FiniteSets

CONSTANTS
  Links,            \* the rows of `conceptlink`
  Blank,            \* those whose `link` column is the empty string
  Nodes,            \* the servers that may run farmers
  Farmers,          \* the uniqueTokens: one for each farmer thread ever built
  Home,             \* the node each token belongs to
  AcquisitionLimit, \* ACQUISITION_LIMIT
  NoOne, NoLink,    \* the null references
  Budget            \* how many misfortunes of each kind a behaviour may hold

Misfortune == {"crash", "sql", "delay"}

ASSUME FarmerAssumption ==
  /\ Blank \subseteq Links
  /\ NoOne \notin Farmers
  /\ NoLink \notin Links
  /\ Home \in [Farmers -> Nodes]
  /\ AcquisitionLimit \in Nat \ {0}
  /\ Budget \in [Misfortune -> Nat]

VARIABLES
  \* the table
  state,          \* ConceptLink.state of each row
  stateOwner,     \* ConceptLink.stateOwner; NoOne is the column's default
  overdue,        \* stateTime lies more than PROCESSING_TIMEOUT back
  \* the threads
  pc,             \* where each thread is in run()
  running,        \* the flag stop() clears
  freeLinks,      \* what statement 1 returned and statement 2 will claim
  batch,          \* the links of this round not yet disposed of
  link,           \* the one in processLink
  outcome,        \* the state processLink is about to save
  farmerRunnable, \* ConceptFarmer's field: the thread stop() reaches
  \* history
  claimed,        \* how often thread f's UPDATE hit row l
  tries,          \* how often thread f trained the model with l
  lost,           \* how often thread f's save of l was lost
  learned,        \* some thread trained the model with all of l's page
  spent           \* misfortunes so far

table   == <<state, stateOwner, overdue>>
history == <<claimed, tries, lost, learned>>
vars    == <<table, pc, running, freeLinks, batch, link, outcome, farmerRunnable,
             history, spent>>

State    == {"PROCESSED", "PROCESSING", "WAITING", "ERROR"}
Finished == {"PROCESSED", "ERROR"}
Gone     == {"stopped", "crashed"}
PC       == {"unborn", "loop", "select", "claim", "collect", "process", "train", "save"}
              \cup Gone

TypeOK ==
  /\ state \in [Links -> State]
  /\ stateOwner \in [Links -> Farmers \cup {NoOne}]
  /\ overdue \in [Links -> BOOLEAN]
  /\ pc \in [Farmers -> PC]
  /\ running \in [Farmers -> BOOLEAN]
  /\ freeLinks \in [Farmers -> SUBSET Links]
  /\ batch \in [Farmers -> SUBSET Links]
  /\ link \in [Farmers -> Links \cup {NoLink}]
  /\ outcome \in [Farmers -> Finished]
  /\ farmerRunnable \in [Nodes -> Farmers \cup {NoOne}]
  /\ claimed \in [Farmers -> [Links -> Nat]]
  /\ tries \in [Farmers -> [Links -> Nat]]
  /\ lost \in [Farmers -> [Links -> Nat]]
  /\ learned \in [Links -> BOOLEAN]
  /\ spent \in [Misfortune -> Nat]

Init ==
  /\ state = [l \in Links |-> "WAITING"]
  /\ stateOwner = [l \in Links |-> NoOne]
  /\ overdue = [l \in Links |-> TRUE]
  /\ pc = [f \in Farmers |-> "unborn"]
  /\ running = [f \in Farmers |-> TRUE]
  /\ freeLinks = [f \in Farmers |-> {}]
  /\ batch = [f \in Farmers |-> {}]
  /\ link = [f \in Farmers |-> NoLink]
  /\ outcome = [f \in Farmers |-> "ERROR"]
  /\ farmerRunnable = [n \in Nodes |-> NoOne]
  /\ claimed = [f \in Farmers |-> [l \in Links |-> 0]]
  /\ tries = [f \in Farmers |-> [l \in Links |-> 0]]
  /\ lost = [f \in Farmers |-> [l \in Links |-> 0]]
  /\ learned = [l \in Links |-> FALSE]
  /\ spent = [k \in Misfortune |-> 0]

Suffer(k) ==
  /\ spent[k] < Budget[k]
  /\ spent' = [spent EXCEPT ![k] = @ + 1]

Goto(f, where) == pc' = [pc EXCEPT ![f] = where]

\* One more for thread f and each of the rows in S.
Count(tally, f, S) ==
  [tally EXCEPT ![f] = [l \in Links |-> tally[f][l] + (IF l \in S THEN 1 ELSE 0)]]

-----------------------------------------------------------------------------
(* The thread's round: run(), acquireJobs() and processLink().             *)

\* Mutant of BeginRound: the flag is read once, before the loop.
BeginRoundAlways(f) ==
  /\ pc[f] = "loop"
  /\ Goto(f, "select")
  /\ UNCHANGED <<table, running, freeLinks, batch, link, outcome, farmerRunnable,
                 history, spent>>

\* while (this.running): another round, or the end of the thread.
BeginRound(f) ==
  /\ pc[f] = "loop"
  /\ Goto(f, IF running[f] THEN "select" ELSE "stopped")
  /\ UNCHANGED <<table, running, freeLinks, batch, link, outcome, farmerRunnable,
                 history, spent>>

\* Mutants of Free: no recovery of dead claims; the state left out of the
\* second arm of the OR.
FreeIfWaiting(l) == l \notin Blank /\ state[l] = "WAITING"
FreeIfOverdue(l) == l \notin Blank /\ (state[l] = "WAITING" \/ overdue[l])

\* The predicate of the first query.
Free(l) ==
  /\ l \notin Blank
  /\ \/ state[l] = "WAITING"
     \/ state[l] = "PROCESSING" /\ overdue[l]

\* LIMIT without ORDER BY: any `limit` of the rows, or all if there are fewer.
Limited(rows, limit) ==
  {S \in SUBSET rows :
     \/ S = rows /\ Cardinality(rows) <= limit
     \/ Cardinality(S) = limit}

\* Statement 1.  A failed query is an empty list.
SelectFree(f) ==
  /\ pc[f] = "select"
  /\ \/ /\ \E S \in Limited({l \in Links : Free(l)}, AcquisitionLimit) :
             freeLinks' = [freeLinks EXCEPT ![f] = S]
        /\ UNCHANGED spent
     \/ Suffer("sql") /\ freeLinks' = [freeLinks EXCEPT ![f] = {}]
  /\ Goto(f, IF freeLinks'[f] = {} THEN "collect" ELSE "claim")
  /\ UNCHANGED <<table, running, batch, link, outcome, farmerRunnable, history>>

\* Statement 2: WHERE id IN (freeLinks), whatever the rows hold by now.
ClaimFree(f) ==
  /\ pc[f] = "claim"
  /\ \/ /\ state' = [l \in Links |-> IF l \in freeLinks[f] THEN "PROCESSING" ELSE state[l]]
        /\ stateOwner' = [l \in Links |-> IF l \in freeLinks[f] THEN f ELSE stateOwner[l]]
        /\ overdue' = [l \in Links |-> overdue[l] /\ l \notin freeLinks[f]]
        /\ claimed' = Count(claimed, f, freeLinks[f])
        /\ UNCHANGED spent
     \/ Suffer("sql") /\ UNCHANGED <<table, claimed>>
  /\ freeLinks' = [freeLinks EXCEPT ![f] = {}]
  /\ Goto(f, "collect")
  /\ UNCHANGED <<running, batch, link, outcome, farmerRunnable, tries, lost, learned>>

\* Mutant of Mine: the owner left out of the third statement.
MineOrTheirs(f) == {l \in Links : f \in Farmers /\ state[l] = "PROCESSING"}

Mine(f) == {l \in Links : state[l] = "PROCESSING" /\ stateOwner[l] = f}

\* Statement 3, the batch acquireJobs() returns.
CollectMine(f) ==
  /\ pc[f] = "collect"
  /\ \/ batch' = [batch EXCEPT ![f] = Mine(f)] /\ UNCHANGED spent
     \/ batch' = [batch EXCEPT ![f] = {}] /\ Suffer("sql")
  /\ Goto(f, "process")
  /\ UNCHANGED <<table, running, freeLinks, link, outcome, farmerRunnable, history>>

\* Mutant of FetchPage: a page that does not answer is put back to wait.
FetchPageRetrying(f) ==
  /\ pc[f] = "process"
  /\ \E l \in batch[f] :
       /\ link' = [link EXCEPT ![f] = l]
       /\ \/ Goto(f, "train") /\ UNCHANGED outcome
          \/ Goto(f, "save") /\ outcome' = [outcome EXCEPT ![f] = "WAITING"]
  /\ UNCHANGED <<table, running, freeLinks, batch, farmerRunnable, history, spent>>

\* processLink() up to the training: a blank address counts as processed, a
\* page that cannot be fetched, or does not answer 200, as an error.
FetchPage(f) ==
  /\ pc[f] = "process"
  /\ \E l \in batch[f] :
       /\ link' = [link EXCEPT ![f] = l]
       /\ \/ /\ l \notin Blank
             /\ Goto(f, "train")
             /\ UNCHANGED outcome
          \/ /\ outcome' = [outcome EXCEPT ![f] =
                              IF l \in Blank THEN "PROCESSED" ELSE "ERROR"]
             /\ Goto(f, "save")
  /\ UNCHANGED <<table, running, freeLinks, batch, farmerRunnable, history, spent>>

\* Mutant of TrainModel: the exception is swallowed inside the loop.
TrainModelSwallowing(f) ==
  /\ pc[f] = "train"
  /\ tries' = Count(tries, f, {link[f]})
  /\ learned' \in {learned, [learned EXCEPT ![link[f]] = TRUE]}
  /\ outcome' = [outcome EXCEPT ![f] = "PROCESSED"]
  /\ Goto(f, "save")
  /\ UNCHANGED <<table, running, freeLinks, batch, link, farmerRunnable, claimed, lost, spent>>

\* The loop over the page's phrases.  ConceptTokenManager.train inserts each
\* under a new TimeUUID, so a second pass adds to the first.  An exception on
\* the way leaves the phrases before it in the model and the link in error.
TrainModel(f) ==
  /\ pc[f] = "train"
  /\ tries' = Count(tries, f, {link[f]})
  /\ \/ /\ learned' = [learned EXCEPT ![link[f]] = TRUE]
        /\ outcome' = [outcome EXCEPT ![f] = "PROCESSED"]
     \/ /\ outcome' = [outcome EXCEPT ![f] = "ERROR"]
        /\ UNCHANGED learned
  /\ Goto(f, "save")
  /\ UNCHANGED <<table, running, freeLinks, batch, link, farmerRunnable, claimed, lost, spent>>

\* conceptLinkManager.save(link): an UPDATE by id of the one dirty field, the
\* state.  It asks neither for the owner nor for the state it replaces, and a
\* save that fails returns false to a caller that does not look.
SaveLink(f) ==
  /\ pc[f] = "save"
  /\ \/ /\ state' = [state EXCEPT ![link[f]] = outcome[f]]
        /\ UNCHANGED <<lost, spent>>
     \/ /\ Suffer("sql")
        /\ lost' = Count(lost, f, {link[f]})
        /\ UNCHANGED state
  /\ batch' = [batch EXCEPT ![f] = @ \ {link[f]}]
  /\ link' = [link EXCEPT ![f] = NoLink]
  /\ outcome' = [outcome EXCEPT ![f] = "ERROR"]
  /\ Goto(f, "process")
  /\ UNCHANGED <<stateOwner, overdue, running, freeLinks, farmerRunnable, claimed, tries,
                 learned>>

\* The batch is done: finish the transaction, sleep, go round.
EndRound(f) ==
  /\ pc[f] = "process"
  /\ batch[f] = {}
  /\ Goto(f, "loop")
  /\ UNCHANGED <<table, running, freeLinks, batch, link, outcome, farmerRunnable,
                 history, spent>>

Round(f) ==
  \/ BeginRound(f) \/ SelectFree(f) \/ ClaimFree(f) \/ CollectMine(f)
  \/ FetchPage(f) \/ TrainModel(f) \/ SaveLink(f) \/ EndRound(f)

-----------------------------------------------------------------------------
(* The node's side, and the passing of time.                               *)

\* ConceptFarmer.start(): a new thread under a new token.  The field forgets
\* the thread before it, if there was one.
StartFarmer(n) ==
  \E f \in Farmers :
    /\ Home[f] = n
    /\ pc[f] = "unborn"
    /\ farmerRunnable' = [farmerRunnable EXCEPT ![n] = f]
    /\ Goto(f, "loop")
    /\ UNCHANGED <<table, running, freeLinks, batch, link, outcome, history, spent>>

\* ConceptFarmer.stop().  With no farmer yet it is a NullPointerException in
\* the caller and changes nothing.
StopFarmer(n) ==
  /\ farmerRunnable[n] # NoOne
  /\ running' = [running EXCEPT ![farmerRunnable[n]] = FALSE]
  /\ UNCHANGED <<table, pc, freeLinks, batch, link, outcome, farmerRunnable, history, spent>>

\* The server dies with all its threads.  Their rows stay as they are.
Crash(n) ==
  /\ \E f \in Farmers : Home[f] = n /\ pc[f] \notin Gone \cup {"unborn"}
  /\ Suffer("crash")
  /\ pc' = [f \in Farmers |->
              IF Home[f] = n /\ pc[f] \notin {"unborn", "stopped"} THEN "crashed" ELSE pc[f]]
  /\ freeLinks' = [f \in Farmers |-> IF Home[f] = n THEN {} ELSE freeLinks[f]]
  /\ batch' = [f \in Farmers |-> IF Home[f] = n THEN {} ELSE batch[f]]
  /\ link' = [f \in Farmers |-> IF Home[f] = n THEN NoLink ELSE link[f]]
  /\ farmerRunnable' = [farmerRunnable EXCEPT ![n] = NoOne]
  /\ UNCHANGED <<table, running, outcome, history>>

\* Thirty minutes pass over a claim whose thread is gone.
Abandoned(l) ==
  /\ state[l] = "PROCESSING"
  /\ ~overdue[l]
  /\ \E f \in Farmers : stateOwner[l] = f /\ pc[f] \in Gone
  /\ overdue' = [overdue EXCEPT ![l] = TRUE]
  /\ UNCHANGED <<state, stateOwner, pc, running, freeLinks, batch, link, outcome,
                 farmerRunnable, history, spent>>

\* Thirty minutes pass over a claim whose thread is only slow.
Overtaken(l) ==
  /\ state[l] = "PROCESSING"
  /\ ~overdue[l]
  /\ Suffer("delay")
  /\ overdue' = [overdue EXCEPT ![l] = TRUE]
  /\ UNCHANGED <<state, stateOwner, pc, running, freeLinks, batch, link, outcome,
                 farmerRunnable, history>>

Next ==
  \/ \E f \in Farmers : Round(f)
  \/ \E n \in Nodes : StartFarmer(n) \/ StopFarmer(n) \/ Crash(n)
  \/ \E l \in Links : Abandoned(l) \/ Overtaken(l)

Spec == Init /\ [][Next]_vars

\* A thread that can take a step takes it, and the clock does not stop.
Fairness ==
  /\ \A f \in Farmers : WF_vars(Round(f))
  /\ \A l \in Links : WF_vars(Abandoned(l))

FairSpec == Spec /\ Fairness

-----------------------------------------------------------------------------
(* What the farm promises.                                                 *)

\* A link still WAITING is untouched: no thread owns it, works on it or has
\* trained the model with it.  A batch cut short by a crash, a lost UPDATE or
\* a stolen claim must not leave a half-processed link looking new.
WaitingIsUntouched ==
  \A l \in Links : state[l] = "WAITING" =>
    /\ stateOwner[l] = NoOne
    /\ ~learned[l]
    /\ \A f \in Farmers : l \notin batch[f] /\ tries[f][l] = 0

\* A link marked PROCESSED has been learned from, whichever of the threads
\* that fought over it wrote the mark.
ProcessedIsLearned ==
  \A l \in Links : state[l] = "PROCESSED" => learned[l]

\* Training is not idempotent, so every pass over a page has to be paid for:
\* thread f trains with l at most once for each time its UPDATE claimed l and
\* each time its save of l was lost.
EveryPassIsPaidFor ==
  \A f \in Farmers, l \in Links : tries[f][l] <= claimed[f][l] + lost[f][l]

\* No thread has the link in its hands, selected or collected.
Unattended(l) == \A f \in Farmers : l \notin freeLinks[f] /\ l \notin batch[f]

\* A finished link that nobody holds stays finished and unheld for good.  While
\* somebody still holds it -- selected before it was finished -- the UPDATE
\* by id may throw it back to PROCESSING; nobody new may take it up.
SettledForGood ==
  [][\A l \in Links : state[l] \in Finished /\ Unattended(l)
                        => state'[l] = state[l] /\ Unattended(l)']_vars

AtWork(f) == running[f] /\ pc[f] \notin Gone \cup {"unborn"}

\* As long as one thread is left at work, every link with an address ends up
\* finished, through crashes of the others, lost statements and stolen claims.
Drained ==
  <>[](\E f \in Farmers : AtWork(f))
    => <>[](\A l \in Links \ Blank : state[l] \in Finished)

\* stop() takes effect: the thread told to stop finishes its batch and ends.
StopIsObeyed ==
  \A f \in Farmers : (pc[f] # "unborn" /\ ~running[f]) ~> pc[f] \in Gone

=============================================================================
