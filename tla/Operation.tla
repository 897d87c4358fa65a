----------------------------- MODULE Operation -----------------------------
(***************************************************************************)
(* Operations and the transaction they belong to: Operation, Transaction,  *)
(* TransactionService, PrefetchOperation.  A thread asks an operation for  *)
(* its result; the operation first runs those it depends on, then itself,  *)
(* then those that depend on its being done, all on the thread's stack.    *)
(* An exception leaves the whole stack, and the operations on it as they   *)
(* are.  Operations on a store take a connection for the time of their     *)
(* op(); a PrefetchOperation asks further operations instead, for the      *)
(* entities its owner's refer to.                                          *)
(*                                                                         *)
(* The dependencies are any that addPreDependency and addPostDependency    *)
(* can build before the first call.  The lists are sets: their order is    *)
(* any.  Other threads have transactions of their own and share the pool.  *)
(***************************************************************************)
EXTENDS Naturals, Sequences, FiniteSets

CONSTANTS
  Stores,        \* the operations on a store, made by the program
  Prefetchable,  \* those among them that are PrefetchableOperations
  PrefetchOf,    \* the PrefetchOperation made for each of these
  Others,        \* other threads
  None,
  MaxEdges,      \* bound: dependencies
  MaxConns,      \* bound: connections that can be made
  MaxCreateFails \* bound: connections that cannot be made

Prefetches == {PrefetchOf[o] : o \in Prefetchable}
Ops        == Stores \cup Prefetches

ASSUME OperationAssumption ==
  /\ Prefetchable \subseteq Stores
  /\ Prefetches \cap Stores = {}
  /\ \A o, q \in Prefetchable : PrefetchOf[o] = PrefetchOf[q] => o = q
  /\ None \notin Ops
  /\ Others \cap Stores = {}
  /\ {MaxEdges, MaxConns, MaxCreateFails} \subseteq Nat

VARIABLES
  pre, post,     \* preDependencies and postDependencies
  state,         \* the operation's State, "UNMADE" before its constructor
  phase,         \* where its execute() is: "none", "pre", "op", "post", and
                 \* "done" or "stuck" when that was left
  left, at,      \* the dependencies to go through, the one looked at
  caller, top,   \* the stack: who asked, and the operation that is running
  verdict,       \* r.a(), what op() said
  operations,    \* Transaction.operations
  idle, made, user, createFails,
  ran            \* history: how often op() was called

graph == <<pre, post>>
frame == <<phase, left, at, caller, top, verdict>>
opsVars  == <<graph, state, frame, operations, idle, made, user, createFails, ran>>

Pool == INSTANCE ConnectionPool WITH Users <- Stores \cup Others

States == {"PENDING", "PREPROCESSING", "POSTPROCESSING", "SUCCESS", "FAILURE"}
Final  == {"SUCCESS", "FAILURE"}

OpsTypeOK ==
  /\ pre \in [Ops -> SUBSET Ops] /\ post \in [Ops -> SUBSET Ops]
  /\ state \in [Ops -> States \cup {"UNMADE"}]
  /\ phase \in [Ops -> {"none", "pre", "op", "post", "done", "stuck"}]
  /\ left \in [Ops -> SUBSET Ops]
  /\ caller \in [Ops -> Ops \cup {None}] /\ top \in Ops \cup {None}
  /\ operations \subseteq Ops
  /\ ran \in [Ops -> Nat]

\* An edge <<o, q, list>> is o.addPreDependency(q) or o.addPostDependency(q).
Edges == {e \in Stores \X Stores \X {"pre", "post"} : e[1] # e[2]}

OpsInit ==
  /\ \E edges \in SUBSET Edges :
       /\ Cardinality(edges) <= MaxEdges
       /\ pre  = [o \in Ops |-> {q \in Stores : <<o, q, "pre">> \in edges \/ <<q, o, "post">> \in edges}]
       /\ post = [o \in Ops |-> {q \in Stores : <<o, q, "post">> \in edges}]
  /\ state = [o \in Ops |-> IF o \in Stores THEN "PENDING" ELSE "UNMADE"]
  /\ phase = [o \in Ops |-> "none"]
  /\ left = [o \in Ops |-> {}] /\ at = [o \in Ops |-> None]
  /\ caller = [o \in Ops |-> None] /\ top = None
  /\ verdict = [o \in Ops |-> FALSE]
  /\ operations = Stores
  /\ createFails = 0
  /\ ran = [o \in Ops |-> 0]
  /\ Pool!PoolInit

-----------------------------------------------------------------------------
(* execute(), from its caller's call to its return.                        *)

OnStack(o) == phase[o] \in {"pre", "op", "post"}
Unpooled   == UNCHANGED <<idle, made, user, createFails>>

\* Mutant of Begin: the PrefetchOperation as a dependency that comes before.
BeginBefore(o) ==
  IF o \in Prefetchable
  THEN LET p == PrefetchOf[o]
       IN  /\ pre' = [pre EXCEPT ![o] = @ \cup {p}]
           /\ UNCHANGED post
           /\ state' = [state EXCEPT ![o] = "PREPROCESSING", ![p] = "PENDING"]
           /\ operations' = operations \cup {p}
  ELSE /\ UNCHANGED <<graph, operations>>
       /\ state' = [state EXCEPT ![o] = "PREPROCESSING"]

\* transaction.begin() adds a PrefetchOperation to every prefetchable one.
Begin(o) ==
  IF o \in Prefetchable
  THEN LET p == PrefetchOf[o]
       IN  /\ post' = [post EXCEPT ![o] = @ \cup {p}]
           /\ pre' = [pre EXCEPT ![p] = @ \cup {o}]
           /\ state' = [state EXCEPT ![o] = "PREPROCESSING", ![p] = "PENDING"]
           /\ operations' = operations \cup {p}
  ELSE /\ UNCHANGED <<graph, operations>>
       /\ state' = [state EXCEPT ![o] = "PREPROCESSING"]

Execute(o) ==
  /\ Begin(o)
  /\ phase' = [phase EXCEPT ![o] = "pre"]
  /\ caller' = [caller EXCEPT ![o] = top]
  /\ top' = o
  /\ UNCHANGED <<verdict, ran>>

\* Mutant of Ask: whatever has no outcome yet is executed.
AskUnlessDone(o) ==
  /\ state[o] \in {"PENDING", "PREPROCESSING", "POSTPROCESSING"}
  /\ Execute(o)
  /\ left' = [left EXCEPT ![o] = pre'[o]]
  /\ UNCHANGED at
  /\ Unpooled

\* getResult(), getValue(): only what is PENDING is executed.
Ask(o) ==
  /\ state[o] = "PENDING"
  /\ Execute(o)
  /\ left' = [left EXCEPT ![o] = pre'[o]]
  /\ UNCHANGED at
  /\ Unpooled

\* The program asks for a result, or a PrefetchOperation does in its op().
Call    == top = None /\ \E o \in Stores : Ask(o)
Inquire == top \in Prefetches /\ phase[top] = "op" /\ \E o \in Stores : Ask(o)

\* Mutant of Turn: what is being executed is waited for.
TurnWaiting ==
  /\ top # None /\ phase[top] \in {"pre", "post"} /\ at[top] = None
  /\ \E d \in left[top] :
       /\ ~(phase[d] \in {"pre", "op", "post"})
       /\ at' = [at EXCEPT ![top] = d]
       /\ IF state[d] = "PENDING"
          THEN /\ Execute(d)
               /\ left' = [left EXCEPT ![top] = @ \ {d}, ![d] = pre'[d]]
          ELSE /\ left' = [left EXCEPT ![top] = @ \ {d}]
               /\ UNCHANGED <<graph, state, phase, caller, top, verdict, operations, ran>>
  /\ Unpooled

\* One turn of processDependencies(): op.getState(true).
Turn ==
  /\ top # None /\ phase[top] \in {"pre", "post"} /\ at[top] = None
  /\ \E d \in left[top] :
       /\ at' = [at EXCEPT ![top] = d]
       /\ IF state[d] = "PENDING"
          THEN /\ Execute(d)
               /\ left' = [left EXCEPT ![top] = @ \ {d}, ![d] = pre'[d]]
          ELSE /\ left' = [left EXCEPT ![top] = @ \ {d}]
               /\ UNCHANGED <<graph, state, phase, caller, top, verdict, operations, ran>>
  /\ Unpooled

\* Mutant of Leave: a failed operation stays in its transaction.
LeaveIfSuccess(o, s) ==
  /\ state' = [state EXCEPT ![o] = s]
  /\ operations' = IF s = "SUCCESS" THEN operations \ {o} ELSE operations
  /\ phase' = [phase EXCEPT ![o] = "done"]
  /\ top' = caller[o]

\* The end of execute(): the state, the transaction, the return.
Leave(o, s) ==
  /\ state' = [state EXCEPT ![o] = s]
  /\ operations' = operations \ {o}
  /\ phase' = [phase EXCEPT ![o] = "done"]
  /\ top' = caller[o]

\* Mutant of Look: a failed dependency is passed over.
LookAway ==
  /\ top # None /\ phase[top] \in {"pre", "post"} /\ at[top] # None
  /\ at' = [at EXCEPT ![top] = None]
  /\ UNCHANGED <<state, operations, phase, top, left, graph, caller, verdict, ran>>
  /\ Unpooled

\* The state the dependency has: FAILURE fails this one, too.
Look ==
  /\ top # None /\ phase[top] \in {"pre", "post"} /\ at[top] # None
  /\ at' = [at EXCEPT ![top] = None]
  /\ IF state[at[top]] = "FAILURE"
     THEN Leave(top, "FAILURE") /\ left' = [left EXCEPT ![top] = {}]
     ELSE UNCHANGED <<state, operations, phase, top, left>>
  /\ UNCHANGED <<graph, caller, verdict, ran>>
  /\ Unpooled

Through(o, p) == o # None /\ phase[o] = p /\ left[o] = {} /\ at[o] = None

\* op() is called.
Enter ==
  /\ Through(top, "pre")
  /\ phase' = [phase EXCEPT ![top] = "op"]
  /\ ran' = [ran EXCEPT ![top] = @ + 1]
  /\ UNCHANGED <<graph, state, left, at, caller, top, verdict, operations>>
  /\ Unpooled

\* op() returns; the postDependencies are next.
Returns(o, v) ==
  /\ verdict' = [verdict EXCEPT ![o] = v]
  /\ phase' = [phase EXCEPT ![o] = "post"]
  /\ state' = [state EXCEPT ![o] = "POSTPROCESSING"]
  /\ left' = [left EXCEPT ![o] = post[o]]
  /\ UNCHANGED <<graph, at, caller, top, operations, ran>>

\* An exception: everything on the stack is left as it is.
Throw ==
  /\ phase' = [o \in Ops |-> IF OnStack(o) THEN "stuck" ELSE phase[o]]
  /\ top' = None
  /\ UNCHANGED <<graph, state, left, at, caller, verdict, operations, ran>>

InOp(S) == top \in S /\ phase[top] = "op"

\* op() on a store: acquireConnection(), the statement, and finally release().
Acquire ==
  /\ InOp(Stores) /\ (Pool!Poll(top) \/ Pool!Create(top))
  /\ UNCHANGED <<graph, state, frame, operations, createFails, ran>>

\* acquire() returned null: both the statement and release() throw.
AcquireFails ==
  /\ InOp(Stores) /\ createFails < MaxCreateFails
  /\ createFails' = createFails + 1
  /\ Pool!CreateFails(top) /\ Throw

StatementDone ==
  /\ InOp(Stores) /\ Pool!Release(top)
  /\ \/ \E v \in BOOLEAN : Returns(top, v)
     \/ Throw
  /\ UNCHANGED createFails

\* PrefetchOperation.op(): materialize() throws where a row is missing.
PrefetchDone ==
  /\ InOp(Prefetches)
  /\ Returns(top, TRUE) \/ Throw
  /\ Unpooled

Finish ==
  /\ Through(top, "post")
  /\ Leave(top, IF verdict[top] THEN "SUCCESS" ELSE "FAILURE")
  /\ UNCHANGED <<graph, left, at, caller, verdict, ran>>
  /\ Unpooled

Thread == Inquire \/ Turn \/ Look \/ Enter \/ Acquire \/ AcquireFails
            \/ StatementDone \/ PrefetchDone \/ Finish

OtherThread ==
  /\ \E t \in Others : Pool!Poll(t) \/ Pool!Create(t) \/ Pool!Release(t)
  /\ UNCHANGED <<graph, state, frame, operations, createFails, ran>>

OpsNext == Call \/ Thread \/ OtherThread

\* The thread runs; it need not call again.
OpsSpec == OpsInit /\ [][OpsNext]_opsVars /\ WF_opsVars(Thread)

-----------------------------------------------------------------------------
\* op() is called at most once, whatever the dependencies, cycles included
\* (the PENDING tests of getState(), getResult() and getValue()).
RunsOnce == \A o \in Ops : ran[o] <= 1

\* When op() is called, each thing it depends on has succeeded, or is still on
\* the stack waiting for it, or was left there by an exception; none has failed
\* (processDependencies()).
DependenciesMet ==
  [][\A o \in Ops : ran'[o] # ran[o] =>
       \A d \in pre[o] : state[d] = "SUCCESS" \/ OnStack(d) \/ phase[d] = "stuck"]_opsVars

\* The transaction holds exactly the operations that have no outcome yet.
Tracked == operations = {o \in Ops : state[o] \notin Final \cup {"UNMADE"}}

\* A PrefetchOperation finds its owner's entities: the owner's op() has
\* returned before (result and value are set before the postDependencies).
PrefetchAfterOwner ==
  \A o \in Prefetchable : ran[PrefetchOf[o]] > 0 => ran[o] = 1 /\ phase[o] # "op"

OneUser == Pool!OneUser

\* Every call returns, or throws.
CallsReturn == []<>(top = None)
=============================================================================
