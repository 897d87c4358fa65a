------------------------ MODULE ConceptFarmerProofs ------------------------
(***************************************************************************)
(* Safety of the concept farm for any number of links, nodes and threads   *)
(* and any misfortunes.                                                    *)
(***************************************************************************)
EXTENDS ConceptFarmer, TLAPS

\* Where a thread is says what it holds: a batch only between collecting and
\* the end of the round, and in processLink() the link is one of the batch.
Hands ==
  \A f \in Farmers :
    /\ pc[f] \in {"unborn", "loop", "select", "claim", "collect"} \cup Gone => batch[f] = {}
    /\ pc[f] \in {"train", "save"} => link[f] \in batch[f]
    /\ pc[f] = "save" /\ outcome[f] = "PROCESSED" => learned[link[f]]

\* The blank rows are out of the game.
BlankWait ==
  /\ \A l \in Blank : state[l] = "WAITING"
  /\ \A f \in Farmers : freeLinks[f] \cap Blank = {}

\* Thread f has a pass over l still to come: l waits in its batch, or its
\* next third statement will return l.
Owed(f, l) ==
  \/ l \in batch[f] /\ ~(pc[f] = "save" /\ link[f] = l)
  \/ /\ l \notin batch[f]
     /\ state[l] = "PROCESSING"
     /\ stateOwner[l] = f
     /\ pc[f] \notin Gone

\* The debt counts against the claims as well.
Ledger ==
  \A f \in Farmers, l \in Links :
    /\ tries[f][l] <= claimed[f][l] + lost[f][l]
    /\ Owed(f, l) => tries[f][l] < claimed[f][l] + lost[f][l]

IInv ==
  /\ TypeOK
  /\ Hands
  /\ BlankWait
  /\ WaitingIsUntouched
  /\ ProcessedIsLearned
  /\ Ledger

-----------------------------------------------------------------------------

\* What every step of a thread's round has in common.
USE FarmerAssumption

LEMMA SufferType ==
  ASSUME TypeOK, NEW k \in Misfortune, Suffer(k)
  PROVE  spent' \in [Misfortune -> Nat]
BY DEF TypeOK, Suffer

\* LIMIT invents no rows.
LEMMA LimitedRows ==
  ASSUME NEW rows, NEW limit, NEW S \in Limited(rows, limit)
  PROVE  S \subseteq rows
BY DEF Limited

\* What statement 1 leaves in the thread's hands are free links.
LEMMA SelectRows ==
  ASSUME NEW f \in Farmers, SelectFree(f)
  PROVE  \E S \in SUBSET Links :
           (\A l \in S : Free(l)) /\ freeLinks' = [freeLinks EXCEPT ![f] = S]
<1>1. CASE Suffer("sql") /\ freeLinks' = [freeLinks EXCEPT ![f] = {}]
  BY <1>1
<1>2. CASE \E S \in Limited({l \in Links : Free(l)}, AcquisitionLimit) :
             freeLinks' = [freeLinks EXCEPT ![f] = S]
  <2>1. PICK S \in Limited({l \in Links : Free(l)}, AcquisitionLimit) :
           freeLinks' = [freeLinks EXCEPT ![f] = S]
    BY <1>2
  <2>2. S \subseteq {l \in Links : Free(l)}
    BY LimitedRows
  <2>3. QED
    BY <2>1, <2>2
<1>3. QED
  BY <1>1, <1>2 DEF SelectFree

LEMMA CollectRows ==
  ASSUME NEW f \in Farmers, CollectMine(f)
  PROVE  \E S \in SUBSET Mine(f) : batch' = [batch EXCEPT ![f] = S]
BY DEF CollectMine

\* The tallies stay tallies, and only the rows counted go up.
LEMMA CountIs ==
  ASSUME NEW c \in [Farmers -> [Links -> Nat]], NEW f \in Farmers, NEW S
  PROVE  /\ Count(c, f, S) \in [Farmers -> [Links -> Nat]]
         /\ \A g \in Farmers, l \in Links :
              Count(c, f, S)[g][l] = c[g][l] + (IF g = f /\ l \in S THEN 1 ELSE 0)
<1> DEFINE row == [l \in Links |-> c[f][l] + (IF l \in S THEN 1 ELSE 0)]
<1>1. row \in [Links -> Nat]
  OBVIOUS
<1>2. Count(c, f, S) = [c EXCEPT ![f] = row]
  BY DEF Count
<1>3. Count(c, f, S) \in [Farmers -> [Links -> Nat]]
  <2> HIDE DEF row
  <2> QED BY <1>1, <1>2
<1>4. ASSUME NEW g \in Farmers, NEW l \in Links
      PROVE  Count(c, f, S)[g][l] = c[g][l] + (IF g = f /\ l \in S THEN 1 ELSE 0)
  <2>1. CASE g = f
    BY <1>2, <2>1
  <2>2. CASE g # f
    BY <1>2, <2>2
  <2>3. QED
    BY <2>1, <2>2
<1>5. QED
  BY <1>3, <1>4

LEMMA RoundType ==
  ASSUME TypeOK, Hands, NEW f \in Farmers, Round(f)
  PROVE  TypeOK'
<1>1. CASE BeginRound(f)
  BY <1>1 DEF BeginRound, TypeOK, table, history, Goto, PC, Gone
<1>2. CASE SelectFree(f)
  <2>1. spent' \in [Misfortune -> Nat]
    BY <1>2, SufferType DEF SelectFree, Misfortune, TypeOK
  <2>2. freeLinks' \in [Farmers -> SUBSET Links]
    <3>1. PICK S \in SUBSET Links : freeLinks' = [freeLinks EXCEPT ![f] = S]
      BY <1>2, SelectRows
    <3>2. QED
      BY <3>1 DEF TypeOK
  <2>3. pc' \in [Farmers -> PC]
    BY <1>2 DEF SelectFree, TypeOK, Goto, PC
  <2>4. UNCHANGED <<table, running, batch, link, outcome, farmerRunnable, history>>
    BY <1>2 DEF SelectFree
  <2>5. QED
    BY <2>1, <2>2, <2>3, <2>4 DEF TypeOK, table, history
<1>3. CASE ClaimFree(f)
  <2>1. spent' \in [Misfortune -> Nat]
    BY <1>3, SufferType DEF ClaimFree, Misfortune, TypeOK
  <2>2. claimed' \in [Farmers -> [Links -> Nat]]
    <3>1. claimed' \in {claimed, Count(claimed, f, freeLinks[f])}
      BY <1>3 DEF ClaimFree
    <3>2. claimed \in [Farmers -> [Links -> Nat]]
      BY DEF TypeOK
    <3>3. Count(claimed, f, freeLinks[f]) \in [Farmers -> [Links -> Nat]]
      BY <3>2, CountIs
    <3>4. QED
      BY <3>1, <3>2, <3>3
  <2>3. state' \in [Links -> State]
    BY <1>3 DEF ClaimFree, TypeOK, table, State
  <2>4. stateOwner' \in [Links -> Farmers \cup {NoOne}]
    BY <1>3 DEF ClaimFree, TypeOK, table
  <2>5. overdue' \in [Links -> BOOLEAN]
    BY <1>3 DEF ClaimFree, TypeOK, table
  <2>6. freeLinks' \in [Farmers -> SUBSET Links]
    BY <1>3 DEF ClaimFree, TypeOK
  <2>7. pc' \in [Farmers -> PC]
    BY <1>3 DEF ClaimFree, TypeOK, Goto, PC
  <2>8. UNCHANGED <<running, batch, link, outcome, farmerRunnable, tries, lost, learned>>
    BY <1>3 DEF ClaimFree
  <2>9. QED
    BY <2>1, <2>2, <2>3, <2>4, <2>5, <2>6, <2>7, <2>8 DEF TypeOK
<1>4. CASE CollectMine(f)
  <2>1. spent' \in [Misfortune -> Nat]
    BY <1>4, SufferType DEF CollectMine, Misfortune, TypeOK
  <2>2. batch' \in [Farmers -> SUBSET Links]
    <3>1. PICK S \in SUBSET Mine(f) : batch' = [batch EXCEPT ![f] = S]
      BY <1>4, CollectRows
    <3>2. S \subseteq Links
      BY DEF Mine
    <3>3. batch \in [Farmers -> SUBSET Links]
      BY DEF TypeOK
    <3>4. QED
      BY <3>1, <3>2, <3>3
  <2>3. pc' \in [Farmers -> PC]
    BY <1>4 DEF CollectMine, TypeOK, Goto, PC
  <2>4. UNCHANGED <<table, running, freeLinks, link, outcome, farmerRunnable, history>>
    BY <1>4 DEF CollectMine
  <2>5. QED
    BY <2>1, <2>2, <2>3, <2>4 DEF TypeOK, table, history
<1>5. CASE FetchPage(f)
  <2>1. pc' \in [Farmers -> PC]
    <3>1. Goto(f, "train") \/ Goto(f, "save")
      BY <1>5 DEF FetchPage
    <3>2. "train" \in PC /\ "save" \in PC /\ pc \in [Farmers -> PC]
      BY DEF TypeOK, PC
    <3>3. QED
      BY <3>1, <3>2 DEF Goto
  <2>2. link' \in [Farmers -> Links \cup {NoLink}]
    BY <1>5 DEF FetchPage, TypeOK
  <2>3. outcome' \in [Farmers -> Finished]
    BY <1>5 DEF FetchPage, TypeOK, Finished
  <2>4. UNCHANGED <<table, running, freeLinks, batch, farmerRunnable, history, spent>>
    BY <1>5 DEF FetchPage
  <2>5. QED
    BY <2>1, <2>2, <2>3, <2>4 DEF TypeOK, table, history
<1>6. CASE TrainModel(f)
  <2>1. link[f] \in Links
    BY <1>6 DEF TrainModel, Hands, TypeOK
  <2>2. tries' \in [Farmers -> [Links -> Nat]]
    BY <1>6, CountIs DEF TrainModel, TypeOK
  <2>3. learned' \in [Links -> BOOLEAN]
    BY <1>6, <2>1 DEF TrainModel, TypeOK
  <2>4. outcome' \in [Farmers -> Finished]
    BY <1>6 DEF TrainModel, TypeOK, Finished
  <2>5. pc' \in [Farmers -> PC]
    BY <1>6 DEF TrainModel, TypeOK, Goto, PC
  <2>6. UNCHANGED <<table, running, freeLinks, batch, link, farmerRunnable, claimed, lost, spent>>
    BY <1>6 DEF TrainModel
  <2>7. QED
    BY <2>2, <2>3, <2>4, <2>5, <2>6 DEF TypeOK, table
<1>7. CASE SaveLink(f)
  <2>1. spent' \in [Misfortune -> Nat]
    BY <1>7, SufferType DEF SaveLink, Misfortune, TypeOK
  <2>2. link[f] \in Links
    BY <1>7 DEF SaveLink, Hands, TypeOK
  <2>3. lost' \in [Farmers -> [Links -> Nat]]
    <3>1. lost' \in {lost, Count(lost, f, {link[f]})}
      BY <1>7 DEF SaveLink
    <3>2. lost \in [Farmers -> [Links -> Nat]]
      BY DEF TypeOK
    <3>3. Count(lost, f, {link[f]}) \in [Farmers -> [Links -> Nat]]
      BY <3>2, CountIs
    <3>4. QED
      BY <3>1, <3>2, <3>3
  <2>4. state' \in [Links -> State]
    BY <1>7, <2>2 DEF SaveLink, TypeOK, State, Finished
  <2>5. /\ batch' \in [Farmers -> SUBSET Links]
        /\ link' \in [Farmers -> Links \cup {NoLink}]
        /\ outcome' \in [Farmers -> Finished]
        /\ pc' \in [Farmers -> PC]
    BY <1>7 DEF SaveLink, TypeOK, Goto, PC, Finished
  <2>6. UNCHANGED <<stateOwner, overdue, running, freeLinks, farmerRunnable, claimed, tries,
                    learned>>
    BY <1>7 DEF SaveLink
  <2>7. QED
    BY <2>1, <2>3, <2>4, <2>5, <2>6 DEF TypeOK
<1>8. CASE EndRound(f)
  BY <1>8 DEF EndRound, TypeOK, table, history, Goto, PC
<1>9. QED
  BY <1>1, <1>2, <1>3, <1>4, <1>5, <1>6, <1>7, <1>8 DEF Round

LEMMA NodeType ==
  ASSUME TypeOK, NEW n \in Nodes, StartFarmer(n) \/ StopFarmer(n) \/ Crash(n)
  PROVE  TypeOK'
<1> USE DEF TypeOK, table, history, Goto, PC, Gone, Finished, State
<1>1. CASE StartFarmer(n)
  BY <1>1 DEF StartFarmer
<1>2. CASE StopFarmer(n)
  BY <1>2 DEF StopFarmer
<1>3. CASE Crash(n)
  <2>1. spent' \in [Misfortune -> Nat]
    BY <1>3, SufferType DEF Crash, Misfortune
  <2>2. QED
    BY <1>3, <2>1 DEF Crash
<1>4. QED
  BY <1>1, <1>2, <1>3

LEMMA TimeType ==
  ASSUME TypeOK, NEW l \in Links, Abandoned(l) \/ Overtaken(l)
  PROVE  TypeOK'
<1> USE DEF TypeOK, table, history
<1>1. CASE Abandoned(l)
  BY <1>1 DEF Abandoned
<1>2. CASE Overtaken(l)
  <2>1. spent' \in [Misfortune -> Nat]
    BY <1>2, SufferType DEF Overtaken, Misfortune
  <2>2. QED
    BY <1>2, <2>1 DEF Overtaken
<1>3. QED
  BY <1>1, <1>2

-----------------------------------------------------------------------------
(* The invariant is inductive: one lemma for each action that disturbs it. *)

Rest ==
  /\ Hands
  /\ BlankWait
  /\ WaitingIsUntouched
  /\ ProcessedIsLearned
  /\ Ledger

\* A step that moves no tally and makes no new debt keeps the ledger.
LEMMA LedgerKept ==
  ASSUME Ledger, UNCHANGED <<claimed, tries, lost>>,
         \A g \in Farmers, l \in Links : Owed(g, l)' => Owed(g, l)
  PROVE  Ledger'
BY DEF Ledger

LEMMA BeginRest ==
  ASSUME IInv, NEW f \in Farmers, BeginRound(f)
  PROVE  Rest'
<1>1. Hands'
  BY DEF IInv, TypeOK, Hands, BeginRound, Goto, history, Gone
<1>2. BlankWait' /\ WaitingIsUntouched' /\ ProcessedIsLearned'
  BY DEF IInv, BlankWait, WaitingIsUntouched, ProcessedIsLearned, BeginRound, table, history
<1>3. Ledger'
  <2>1. \A g \in Farmers, l \in Links : Owed(g, l)' => Owed(g, l)
    BY DEF IInv, TypeOK, BeginRound, Goto, Owed, table, Gone
  <2>2. QED
    BY <2>1, LedgerKept DEF IInv, BeginRound, history
<1>4. QED
  BY <1>1, <1>2, <1>3 DEF Rest

LEMMA SelectRest ==
  ASSUME IInv, NEW f \in Farmers, SelectFree(f)
  PROVE  Rest'
<1>1. PICK S \in SUBSET Links :
        (\A l \in S : Free(l)) /\ freeLinks' = [freeLinks EXCEPT ![f] = S]
  BY SelectRows
<1>2. /\ pc[f] = "select"
      /\ \E w \in {"collect", "claim"} : pc' = [pc EXCEPT ![f] = w]
      /\ UNCHANGED <<state, stateOwner, batch, link, outcome, claimed, tries, lost, learned>>
  BY DEF SelectFree, Goto, table, history
<1>3. Hands'
  BY <1>2 DEF IInv, TypeOK, Hands, Gone
<1>4. BlankWait'
  BY <1>1, <1>2 DEF IInv, TypeOK, BlankWait, Free
<1>5. WaitingIsUntouched' /\ ProcessedIsLearned'
  BY <1>2 DEF IInv, WaitingIsUntouched, ProcessedIsLearned
<1>6. \A g \in Farmers, l \in Links : Owed(g, l)' => Owed(g, l)
  BY <1>2 DEF IInv, TypeOK, Owed, Gone
<1>7. Ledger'
  BY <1>2, <1>6, LedgerKept DEF IInv
<1>8. QED
  BY <1>3, <1>4, <1>5, <1>7 DEF Rest

LEMMA ClaimRest ==
  ASSUME IInv, NEW f \in Farmers, ClaimFree(f)
  PROVE  Rest'
<1>1. /\ pc[f] = "claim"
      /\ pc' = [pc EXCEPT ![f] = "collect"]
      /\ freeLinks' = [freeLinks EXCEPT ![f] = {}]
      /\ UNCHANGED <<batch, link, outcome, tries, lost, learned>>
  BY DEF ClaimFree, Goto
<1>2. \E S \in {{}, freeLinks[f]} :
        /\ \A l \in Links : state'[l] = IF l \in S THEN "PROCESSING" ELSE state[l]
        /\ \A l \in Links : stateOwner'[l] = IF l \in S THEN f ELSE stateOwner[l]
        /\ \A g \in Farmers, l \in Links :
             claimed'[g][l] = claimed[g][l] + (IF g = f /\ l \in S THEN 1 ELSE 0)
  <2>1. CASE UNCHANGED <<table, claimed>>
    <3>1. \A g \in Farmers, l \in Links : claimed[g][l] \in Nat
      BY DEF IInv, TypeOK
    <3>2. QED
      BY <2>1, <3>1 DEF table
  <2>2. CASE /\ state' = [l \in Links |-> IF l \in freeLinks[f] THEN "PROCESSING" ELSE state[l]]
             /\ stateOwner' = [l \in Links |-> IF l \in freeLinks[f] THEN f ELSE stateOwner[l]]
             /\ claimed' = Count(claimed, f, freeLinks[f])
    <3>1. claimed \in [Farmers -> [Links -> Nat]]
      BY DEF IInv, TypeOK
    <3>2. \A g \in Farmers, l \in Links :
            claimed'[g][l] = claimed[g][l] + (IF g = f /\ l \in freeLinks[f] THEN 1 ELSE 0)
      BY <2>2, <3>1, CountIs
    <3>3. /\ \A l \in Links : state'[l] = IF l \in freeLinks[f] THEN "PROCESSING" ELSE state[l]
          /\ \A l \in Links : stateOwner'[l] = IF l \in freeLinks[f] THEN f ELSE stateOwner[l]
      BY <2>2
    <3>4. QED
      BY <3>2, <3>3
  <2>3. QED
    BY <2>1, <2>2 DEF ClaimFree
<1>3. PICK S \in {{}, freeLinks[f]} :
        /\ \A l \in Links : state'[l] = IF l \in S THEN "PROCESSING" ELSE state[l]
        /\ \A l \in Links : stateOwner'[l] = IF l \in S THEN f ELSE stateOwner[l]
        /\ \A g \in Farmers, l \in Links :
             claimed'[g][l] = claimed[g][l] + (IF g = f /\ l \in S THEN 1 ELSE 0)
  BY <1>2
<1>4. Hands'
  BY <1>1 DEF IInv, TypeOK, Hands, Gone
<1>5. BlankWait'
  <2>1. S \cap Blank = {}
    BY <1>3 DEF IInv, BlankWait
  <2>2. QED
    BY <1>1, <1>3, <2>1 DEF IInv, TypeOK, BlankWait, FarmerAssumption
<1>6. WaitingIsUntouched' /\ ProcessedIsLearned'
  BY <1>1, <1>3 DEF IInv, WaitingIsUntouched, ProcessedIsLearned
<1>7. Ledger'
  <2> SUFFICES ASSUME NEW g \in Farmers, NEW l \in Links
               PROVE  /\ tries'[g][l] <= claimed'[g][l] + lost'[g][l]
                      /\ Owed(g, l)' => tries'[g][l] < claimed'[g][l] + lost'[g][l]
    BY DEF Ledger
  <2>1. tries[g][l] \in Nat /\ claimed[g][l] \in Nat /\ lost[g][l] \in Nat
    BY DEF IInv, TypeOK
  <2>2. CASE g = f /\ l \in S
    BY <1>1, <1>3, <2>1, <2>2 DEF IInv, Ledger
  <2>3. CASE ~(g = f /\ l \in S)
    <3>1. Owed(g, l)' => Owed(g, l)
      BY <1>1, <1>3, <2>3 DEF IInv, TypeOK, Owed, Gone
    <3>2. claimed'[g][l] = claimed[g][l]
      BY <1>3, <2>1, <2>3
    <3>3. QED
      BY <1>1, <3>1, <3>2 DEF IInv, Ledger
  <2>4. QED
    BY <2>2, <2>3
<1>8. QED
  BY <1>4, <1>5, <1>6, <1>7 DEF Rest

LEMMA CollectRest ==
  ASSUME IInv, NEW f \in Farmers, CollectMine(f)
  PROVE  Rest'
<1>1. PICK S \in SUBSET Mine(f) : batch' = [batch EXCEPT ![f] = S]
  BY CollectRows
<1>2. /\ pc[f] = "collect"
      /\ pc' = [pc EXCEPT ![f] = "process"]
      /\ UNCHANGED <<state, stateOwner, freeLinks, link, outcome, claimed, tries, lost, learned>>
  BY DEF CollectMine, Goto, table, history
<1>3. Hands'
  BY <1>1, <1>2 DEF IInv, TypeOK, Hands, Gone
<1>4. BlankWait' /\ ProcessedIsLearned'
  BY <1>2 DEF IInv, BlankWait, ProcessedIsLearned
<1>5. \A l \in S : l \in Links /\ state[l] = "PROCESSING" /\ stateOwner[l] = f
  BY <1>1 DEF Mine
<1>6. WaitingIsUntouched'
  BY <1>1, <1>2, <1>5 DEF IInv, TypeOK, WaitingIsUntouched
<1>7. \A g \in Farmers, l \in Links : Owed(g, l)' => Owed(g, l)
  <2>1. batch[f] = {}
    BY <1>2 DEF IInv, Hands
  <2>2. QED
    BY <1>1, <1>2, <1>5, <2>1 DEF IInv, TypeOK, Owed, Gone
<1>8. Ledger'
  BY <1>2, <1>7, LedgerKept DEF IInv
<1>9. QED
  BY <1>3, <1>4, <1>6, <1>8 DEF Rest

LEMMA FetchRest ==
  ASSUME IInv, NEW f \in Farmers, FetchPage(f)
  PROVE  Rest'
<1>1. PICK k \in batch[f] : link' = [link EXCEPT ![f] = k]
  BY DEF FetchPage
<1>2. /\ pc[f] = "process"
      /\ UNCHANGED <<state, stateOwner, freeLinks, batch, claimed, tries, lost, learned>>
  BY DEF FetchPage, table, history
<1>3. k \in Links /\ k \notin Blank
  BY DEF IInv, TypeOK, BlankWait, WaitingIsUntouched, FarmerAssumption
<1>4. \/ pc' = [pc EXCEPT ![f] = "train"] /\ outcome' = outcome
      \/ pc' = [pc EXCEPT ![f] = "save"] /\ outcome' = [outcome EXCEPT ![f] = "ERROR"]
  <2>1. batch[f] \cap Blank = {}
    BY DEF IInv, TypeOK, BlankWait, WaitingIsUntouched, FarmerAssumption
  <2>2. QED
    BY <2>1 DEF FetchPage, Goto
<1>5. Hands'
  BY <1>1, <1>2, <1>4 DEF IInv, TypeOK, Hands, Gone
<1>6. BlankWait' /\ WaitingIsUntouched' /\ ProcessedIsLearned'
  BY <1>2 DEF IInv, BlankWait, WaitingIsUntouched, ProcessedIsLearned
<1>7. \A g \in Farmers, l \in Links : Owed(g, l)' => Owed(g, l)
  BY <1>1, <1>2, <1>4 DEF IInv, TypeOK, Owed, Gone
<1>8. Ledger'
  BY <1>2, <1>7, LedgerKept DEF IInv
<1>9. QED
  BY <1>5, <1>6, <1>8 DEF Rest

LEMMA TrainRest ==
  ASSUME IInv, NEW f \in Farmers, TrainModel(f)
  PROVE  Rest'
<1>1. /\ pc[f] = "train"
      /\ pc' = [pc EXCEPT ![f] = "save"]
      /\ tries' = Count(tries, f, {link[f]})
      /\ UNCHANGED <<state, stateOwner, freeLinks, batch, link, claimed, lost>>
  BY DEF TrainModel, Goto, table
<1>2. \/ /\ learned' = [learned EXCEPT ![link[f]] = TRUE]
         /\ outcome' = [outcome EXCEPT ![f] = "PROCESSED"]
      \/ learned' = learned /\ outcome' = [outcome EXCEPT ![f] = "ERROR"]
  BY DEF TrainModel
<1>3. link[f] \in batch[f] /\ link[f] \in Links /\ state[link[f]] # "WAITING"
  <2>1. link[f] \in batch[f]
    BY <1>1 DEF IInv, Hands
  <2>2. link[f] \in Links
    BY <2>1 DEF IInv, TypeOK
  <2>3. state[link[f]] # "WAITING"
    BY <2>1, <2>2 DEF IInv, WaitingIsUntouched
  <2>4. QED
    BY <2>1, <2>2, <2>3
<1>4. \A g \in Farmers, l \in Links :
        tries'[g][l] = tries[g][l] + (IF g = f /\ l = link[f] THEN 1 ELSE 0)
  <2>1. tries \in [Farmers -> [Links -> Nat]]
    BY DEF IInv, TypeOK
  <2>2. QED
    BY <1>1, <2>1, CountIs
<1>5. Hands'
  BY <1>1, <1>2, <1>3 DEF IInv, TypeOK, Hands, Gone
<1>6. BlankWait'
  BY <1>1 DEF IInv, BlankWait
<1>7. WaitingIsUntouched'
  <2> SUFFICES ASSUME NEW l \in Links, state[l] = "WAITING"
               PROVE  /\ stateOwner[l] = NoOne
                      /\ ~learned'[l]
                      /\ \A g \in Farmers : l \notin batch[g] /\ tries'[g][l] = 0
    BY <1>1 DEF WaitingIsUntouched
  <2>1. l # link[f]
    BY <1>3
  <2>2. learned'[l] = learned[l]
    BY <1>2, <1>3, <2>1 DEF IInv, TypeOK
  <2>3. \A g \in Farmers : tries'[g][l] = tries[g][l]
    BY <1>4, <2>1 DEF IInv, TypeOK
  <2>4. QED
    BY <2>2, <2>3 DEF IInv, WaitingIsUntouched
<1>8. ProcessedIsLearned'
  BY <1>1, <1>2, <1>3 DEF IInv, TypeOK, ProcessedIsLearned
<1>9. Ledger'
  <2> SUFFICES ASSUME NEW g \in Farmers, NEW l \in Links
               PROVE  /\ tries'[g][l] <= claimed[g][l] + lost[g][l]
                      /\ Owed(g, l)' => tries'[g][l] < claimed[g][l] + lost[g][l]
    BY <1>1 DEF Ledger
  <2>1. tries[g][l] \in Nat /\ claimed[g][l] \in Nat /\ lost[g][l] \in Nat
    BY DEF IInv, TypeOK
  <2>2. CASE g = f /\ l = link[f]
    <3>1. Owed(g, l)
      BY <1>1, <1>3, <2>2 DEF Owed
    <3>2. ~Owed(g, l)'
      BY <1>1, <1>3, <2>2 DEF Owed, IInv, TypeOK
    <3>3. QED
      BY <1>4, <2>1, <2>2, <3>1, <3>2 DEF IInv, Ledger
  <2>3. CASE ~(g = f /\ l = link[f])
    <3>1. Owed(g, l)' => Owed(g, l)
      BY <1>1, <2>3 DEF IInv, TypeOK, Owed, Gone
    <3>2. tries'[g][l] = tries[g][l]
      BY <1>4, <2>1, <2>3
    <3>3. QED
      BY <3>1, <3>2 DEF IInv, Ledger
  <2>4. QED
    BY <2>2, <2>3
<1>10. QED
  BY <1>5, <1>6, <1>7, <1>8, <1>9 DEF Rest

LEMMA SaveRest ==
  ASSUME IInv, NEW f \in Farmers, SaveLink(f)
  PROVE  Rest'
<1>1. /\ pc[f] = "save"
      /\ pc' = [pc EXCEPT ![f] = "process"]
      /\ batch' = [batch EXCEPT ![f] = @ \ {link[f]}]
      /\ link' = [link EXCEPT ![f] = NoLink]
      /\ outcome' = [outcome EXCEPT ![f] = "ERROR"]
      /\ UNCHANGED <<stateOwner, freeLinks, claimed, tries, learned>>
  BY DEF SaveLink, Goto
<1>2. link[f] \in batch[f] /\ link[f] \in Links /\ link[f] \notin Blank
  <2>1. link[f] \in batch[f]
    BY <1>1 DEF IInv, Hands
  <2>2. link[f] \in Links
    BY <2>1 DEF IInv, TypeOK
  <2>3. state[link[f]] # "WAITING"
    BY <2>1, <2>2 DEF IInv, WaitingIsUntouched
  <2>4. QED
    BY <2>1, <2>2, <2>3 DEF IInv, BlankWait
<1>3. outcome[f] \in {"PROCESSED", "ERROR"}
  BY DEF IInv, TypeOK, Finished
<1>4. \/ state' = [state EXCEPT ![link[f]] = outcome[f]] /\ lost' = lost
      \/ state' = state /\ lost' = Count(lost, f, {link[f]})
  BY DEF SaveLink
<1>5. Hands'
  BY <1>1 DEF IInv, TypeOK, Hands, Gone
<1>6. BlankWait'
  BY <1>1, <1>2, <1>4 DEF IInv, TypeOK, BlankWait, FarmerAssumption
<1>7. WaitingIsUntouched'
  <2> SUFFICES ASSUME NEW l \in Links, state'[l] = "WAITING"
               PROVE  /\ stateOwner[l] = NoOne
                      /\ ~learned[l]
                      /\ \A g \in Farmers : l \notin batch'[g] /\ tries[g][l] = 0
    BY <1>1 DEF WaitingIsUntouched
  <2>1. state[l] = "WAITING"
    BY <1>2, <1>3, <1>4 DEF IInv, TypeOK
  <2>2. \A g \in Farmers : batch'[g] \subseteq batch[g]
    BY <1>1 DEF IInv, TypeOK
  <2>3. QED
    BY <2>1, <2>2 DEF IInv, WaitingIsUntouched
<1>8. ProcessedIsLearned'
  <2>1. outcome[f] = "PROCESSED" => learned[link[f]]
    BY <1>1 DEF IInv, Hands
  <2>2. QED
    BY <1>1, <1>2, <1>3, <1>4, <2>1 DEF IInv, TypeOK, ProcessedIsLearned
<1>9. Ledger'
  <2> SUFFICES ASSUME NEW g \in Farmers, NEW l \in Links
               PROVE  /\ tries[g][l] <= claimed[g][l] + lost'[g][l]
                      /\ Owed(g, l)' => tries[g][l] < claimed[g][l] + lost'[g][l]
    BY <1>1 DEF Ledger
  <2>1. tries[g][l] \in Nat /\ claimed[g][l] \in Nat /\ lost[g][l] \in Nat
    BY DEF IInv, TypeOK
  <2>2. CASE state' = [state EXCEPT ![link[f]] = outcome[f]] /\ lost' = lost
    <3>1. Owed(g, l)' => Owed(g, l)
      BY <1>1, <1>2, <1>3, <2>2 DEF IInv, TypeOK, Owed, Gone
    <3>2. QED
      BY <2>2, <3>1 DEF IInv, Ledger
  <2>3. CASE state' = state /\ lost' = Count(lost, f, {link[f]})
    <3>1. lost \in [Farmers -> [Links -> Nat]]
      BY DEF IInv, TypeOK
    <3>2. lost'[g][l] = lost[g][l] + (IF g = f /\ l = link[f] THEN 1 ELSE 0)
      BY <2>3, <3>1, CountIs
    <3>3. CASE g = f /\ l = link[f]
      BY <2>1, <3>2, <3>3 DEF IInv, Ledger
    <3>4. CASE ~(g = f /\ l = link[f])
      <4>1. Owed(g, l)' => Owed(g, l)
        BY <1>1, <2>3, <3>4 DEF IInv, TypeOK, Owed, Gone
      <4>2. QED
        BY <2>1, <3>2, <3>4, <4>1 DEF IInv, Ledger
    <3>5. QED
      BY <3>3, <3>4
  <2>4. QED
    BY <1>4, <2>2, <2>3
<1>10. QED
  BY <1>5, <1>6, <1>7, <1>8, <1>9 DEF Rest

LEMMA EndRest ==
  ASSUME IInv, NEW f \in Farmers, EndRound(f)
  PROVE  Rest'
<1>1. Hands'
  BY DEF IInv, TypeOK, Hands, EndRound, Goto, history, Gone
<1>2. BlankWait' /\ WaitingIsUntouched' /\ ProcessedIsLearned'
  BY DEF IInv, BlankWait, WaitingIsUntouched, ProcessedIsLearned, EndRound, table, history
<1>3. Ledger'
  <2>1. \A g \in Farmers, l \in Links : Owed(g, l)' => Owed(g, l)
    BY DEF IInv, TypeOK, EndRound, Goto, Owed, table, Gone
  <2>2. QED
    BY <2>1, LedgerKept DEF IInv, EndRound, history
<1>4. QED
  BY <1>1, <1>2, <1>3 DEF Rest

LEMMA NodeRest ==
  ASSUME IInv, NEW n \in Nodes, StartFarmer(n) \/ StopFarmer(n) \/ Crash(n)
  PROVE  Rest'
<1>1. /\ UNCHANGED <<state, stateOwner, outcome, claimed, tries, lost, learned>>
      /\ \A f \in Farmers :
           /\ batch'[f] \in {batch[f], {}} /\ freeLinks'[f] \in {freeLinks[f], {}}
           /\ \/ pc'[f] = pc[f] /\ batch'[f] = batch[f] /\ link'[f] = link[f]
              \/ pc[f] = "unborn" /\ pc'[f] = "loop" /\ batch'[f] = batch[f]
              \/ pc'[f] \in Gone \cup {"unborn"} /\ batch'[f] = {} /\ (pc'[f] = "unborn" => pc[f] = "unborn")
  <2>1. CASE StartFarmer(n)
    BY <2>1 DEF StartFarmer, Goto, table, history, IInv, TypeOK
  <2>2. CASE StopFarmer(n)
    BY <2>2 DEF StopFarmer, table, history, IInv, TypeOK
  <2>3. CASE Crash(n)
    BY <2>3 DEF Crash, table, history, IInv, TypeOK, Gone
  <2>4. QED
    BY <2>1, <2>2, <2>3
<1>2. Hands'
  BY <1>1 DEF IInv, Hands, Gone
<1>3. BlankWait' /\ ProcessedIsLearned'
  BY <1>1 DEF IInv, BlankWait, ProcessedIsLearned
<1>4. WaitingIsUntouched'
  BY <1>1 DEF IInv, WaitingIsUntouched
<1>5. \A g \in Farmers, l \in Links : Owed(g, l)' => Owed(g, l)
  BY <1>1 DEF IInv, Hands, Owed, Gone
<1>6. Ledger'
  BY <1>1, <1>5, LedgerKept DEF IInv
<1>7. QED
  BY <1>2, <1>3, <1>4, <1>6 DEF Rest

LEMMA StillRest ==
  ASSUME IInv, UNCHANGED <<state, stateOwner, pc, freeLinks, batch, link, outcome,
                           claimed, tries, lost, learned>>
  PROVE  Rest'
<1>1. Hands' /\ BlankWait' /\ WaitingIsUntouched' /\ ProcessedIsLearned'
  BY DEF IInv, Hands, BlankWait, WaitingIsUntouched, ProcessedIsLearned
<1>2. \A g \in Farmers, l \in Links : Owed(g, l)' => Owed(g, l)
  BY DEF Owed
<1>3. QED
  BY <1>1, <1>2, LedgerKept DEF IInv, Rest

-----------------------------------------------------------------------------
(* The theorems.                                                           *)

LEMMA InitInv == Init => IInv
<1> SUFFICES ASSUME Init PROVE IInv
  OBVIOUS
<1>1. TypeOK
  BY DEF Init, TypeOK, State, PC, Finished
<1>2. Hands /\ BlankWait
  BY DEF Init, Hands, BlankWait, Gone, FarmerAssumption
<1>3. WaitingIsUntouched /\ ProcessedIsLearned /\ Ledger
  BY DEF Init, WaitingIsUntouched, ProcessedIsLearned, Ledger, Owed
<1>4. QED
  BY <1>1, <1>2, <1>3 DEF IInv

LEMMA StepInv == IInv /\ [Next]_vars => IInv'
<1> SUFFICES ASSUME IInv, [Next]_vars PROVE IInv'
  OBVIOUS
<1>1. ASSUME NEW f \in Farmers, Round(f) PROVE TypeOK' /\ Rest'
  <2>1. TypeOK'
    BY <1>1, RoundType DEF IInv
  <2>2. Rest'
    BY <1>1, BeginRest, SelectRest, ClaimRest, CollectRest, FetchRest, TrainRest,
       SaveRest, EndRest DEF Round
  <2>3. QED
    BY <2>1, <2>2
<1>2. ASSUME NEW n \in Nodes, StartFarmer(n) \/ StopFarmer(n) \/ Crash(n)
      PROVE  TypeOK' /\ Rest'
  BY <1>2, NodeType, NodeRest DEF IInv
<1>3. ASSUME NEW l \in Links, Abandoned(l) \/ Overtaken(l) PROVE TypeOK' /\ Rest'
  <2>1. TypeOK'
    BY <1>3, TimeType DEF IInv
  <2>2. UNCHANGED <<state, stateOwner, pc, freeLinks, batch, link, outcome,
                    claimed, tries, lost, learned>>
    BY <1>3 DEF Abandoned, Overtaken, history
  <2>3. QED
    BY <2>1, <2>2, StillRest
<1>4. CASE UNCHANGED vars
  <2>1. TypeOK'
    BY <1>4 DEF IInv, TypeOK, vars, table, history
  <2>2. Rest'
    BY <1>4, StillRest DEF vars, table, history
  <2>3. QED
    BY <2>1, <2>2 DEF IInv, Rest
<1>5. QED
  BY <1>1, <1>2, <1>3, <1>4 DEF Next, IInv, Rest

\* The strengthened invariant holds throughout: what each thread has in its
\* hands agrees with its place in run(), and with the rows and the tallies.
THEOREM Inductive == Spec => []IInv
BY InitInv, StepInv, PTL DEF Spec

\* In every behaviour the variables keep to their types, among them the rule
\* that a thread never sets out to save anything but PROCESSED or ERROR.
THEOREM TypeCorrect == Spec => []TypeOK
BY Inductive, PTL DEF IInv

\* A row still WAITING has never been owned, collected or trained with, by any
\* thread, whatever statements, threads or servers failed.
THEOREM WaitingRowsAreUntouched == Spec => []WaitingIsUntouched
BY Inductive, PTL DEF IInv

\* A row marked PROCESSED has been learned from in full, even when another
\* thread than the one that marked it had the claim.
THEOREM ProcessedRowsAreLearned == Spec => []ProcessedIsLearned
BY Inductive, PTL DEF IInv

\* A thread's passes over a row never outnumber its claims and lost saves.
THEOREM PassesArePaidFor == Spec => []EveryPassIsPaidFor
<1>1. IInv => EveryPassIsPaidFor
  BY DEF IInv, Ledger, EveryPassIsPaidFor
<1>2. QED
  BY Inductive, <1>1, PTL

\* A step settles nothing again: the rows that are finished and in nobody's
\* hands keep their state, and nobody takes them up.
Settled(l) == state[l] \in Finished /\ Unattended(l)

LEMMA StepSettled ==
  ASSUME IInv, [Next]_vars, NEW l \in Links, Settled(l)
  PROVE  state'[l] = state[l] /\ Unattended(l)'
<1>1. CASE /\ state'[l] = state[l]
           /\ \A g \in Farmers :
                batch'[g] \in {batch[g], {}} /\ freeLinks'[g] \in {freeLinks[g], {}}
  BY <1>1 DEF Settled, Unattended
<1>2. ASSUME NEW f \in Farmers, SelectFree(f)
      PROVE  state'[l] = state[l] /\ Unattended(l)'
  <2>1. PICK S \in SUBSET Links :
          (\A k \in S : Free(k)) /\ freeLinks' = [freeLinks EXCEPT ![f] = S]
    BY <1>2, SelectRows
  <2>2. UNCHANGED <<state, batch>>
    BY <1>2 DEF SelectFree, table
  <2>3. ~Free(l)
    BY DEF Settled, Free, Finished
  <2>4. QED
    BY <2>1, <2>2, <2>3 DEF Settled, Unattended, IInv, TypeOK
<1>3. ASSUME NEW f \in Farmers, ClaimFree(f)
      PROVE  state'[l] = state[l] /\ Unattended(l)'
  <2>1. state'[l] = state[l]
    BY <1>3 DEF ClaimFree, table, Settled, Unattended
  <2>2. batch' = batch /\ freeLinks' = [freeLinks EXCEPT ![f] = {}]
    BY <1>3 DEF ClaimFree
  <2>3. QED
    BY <2>1, <2>2, <1>1 DEF IInv, TypeOK
<1>4. ASSUME NEW f \in Farmers, CollectMine(f)
      PROVE  state'[l] = state[l] /\ Unattended(l)'
  <2>1. PICK S \in SUBSET Mine(f) : batch' = [batch EXCEPT ![f] = S]
    BY <1>4, CollectRows
  <2>2. UNCHANGED <<state, freeLinks>>
    BY <1>4 DEF CollectMine, table
  <2>3. l \notin Mine(f)
    BY DEF Settled, Mine, Finished
  <2>4. QED
    BY <2>1, <2>2, <2>3 DEF Settled, Unattended, IInv, TypeOK
<1>5. ASSUME NEW f \in Farmers, SaveLink(f)
      PROVE  state'[l] = state[l] /\ Unattended(l)'
  <2>1. link[f] # l
    BY <1>5 DEF SaveLink, IInv, Hands, Settled, Unattended
  <2>2. state'[l] = state[l]
    BY <1>5, <2>1 DEF SaveLink, IInv, TypeOK
  <2>3. /\ freeLinks' = freeLinks
        /\ \A g \in Farmers : batch'[g] \subseteq batch[g]
    BY <1>5 DEF SaveLink, IInv, TypeOK
  <2>4. QED
    BY <2>2, <2>3 DEF Settled, Unattended
<1>6. ASSUME NEW f \in Farmers, BeginRound(f) \/ FetchPage(f) \/ TrainModel(f) \/ EndRound(f)
      PROVE  state'[l] = state[l] /\ Unattended(l)'
  <2>1. UNCHANGED <<state, batch, freeLinks>>
    BY <1>6 DEF BeginRound, FetchPage, TrainModel, EndRound, table
  <2>2. QED
    BY <1>1, <2>1
<1>7. ASSUME NEW n \in Nodes, StartFarmer(n) \/ StopFarmer(n) \/ Crash(n)
      PROVE  state'[l] = state[l] /\ Unattended(l)'
  <2>1. CASE StartFarmer(n) \/ StopFarmer(n)
    <3>1. UNCHANGED <<state, batch, freeLinks>>
      BY <2>1 DEF StartFarmer, StopFarmer, table
    <3>2. QED
      BY <1>1, <3>1
  <2>2. CASE Crash(n)
    BY <1>1, <2>2 DEF Crash, table
  <2>3. QED
    BY <1>7, <2>1, <2>2
<1>8. ASSUME NEW k \in Links, Abandoned(k) \/ Overtaken(k)
      PROVE  state'[l] = state[l] /\ Unattended(l)'
  BY <1>1, <1>8 DEF Abandoned, Overtaken
<1>9. CASE UNCHANGED vars
  BY <1>1, <1>9 DEF vars, table
<1>10. QED
  BY <1>2, <1>3, <1>4, <1>5, <1>6, <1>7, <1>8, <1>9 DEF Next, Round

\* A finished row out of everybody's hands is settled: no late UPDATE, save or
\* timeout ever puts it back to work.
THEOREM SettledRowsStaySettled == Spec => SettledForGood
<1>1. IInv /\ [Next]_vars =>
        [\A l \in Links : state[l] \in Finished /\ Unattended(l)
                            => state'[l] = state[l] /\ Unattended(l)']_vars
  BY StepSettled DEF Settled
<1>2. QED
  BY Inductive, <1>1, PTL DEF Spec, SettledForGood

=============================================================================
