---------------------------- MODULE StoreProofs ----------------------------
(***************************************************************************)
(* Operations and entities.                                                *)
(*                                                                         *)
(* First Operation: what execute() promises, for any operations, any       *)
(* dependencies between them, any number of connections and other threads. *)
(*                                                                         *)
(* Then SqlEntity: what an object shows is what its row holds, it has one  *)
(* row, and it never takes back what others wrote, for any table, any      *)
(* objects and any number of failures.                                     *)
(***************************************************************************)
EXTENDS Operation, SqlEntity, FiniteSetTheorems, TLAPS

-----------------------------------------------------------------------------
(* Operation.                                                              *)

\* Only what was never executed is unmade or pending, only what left execute()
\* has an outcome; op() is called once, between the phases.
Phases ==
  \A o \in Ops :
    /\ state[o] \in {"UNMADE", "PENDING"} <=> phase[o] = "none"
    /\ state[o] = "UNMADE" => o \in Prefetches
    /\ state[o] \in Final => phase[o] = "done"
    /\ phase[o] \in {"none", "pre"} => ran[o] = 0
    /\ phase[o] \in {"op", "post"} => ran[o] = 1
    /\ ran[o] <= 1

\* A PrefetchOperation is a post-dependency of its owner and of nothing else,
\* and it is made when its owner begins.
Owned ==
  /\ \A x \in Ops : pre[x] \cap Prefetches = {}
  /\ \A x \in Ops : \A p \in post[x] \cap Prefetches : x \in Prefetchable /\ p = PrefetchOf[x]
  /\ \A x \in Ops : \A p \in left[x] \cap Prefetches :
       x \in Prefetchable /\ p = PrefetchOf[x] /\ phase[x] \in {"post", "stuck", "done"}
  /\ \A o \in Prefetchable : phase[o] = "none" => state[PrefetchOf[o]] = "UNMADE"

\* It has been asked only when its owner's op() had returned.
After ==
  \A o \in Prefetchable :
    phase[PrefetchOf[o]] # "none" => ran[o] = 1 /\ phase[o] \in {"post", "done", "stuck"}

OpsInv == OpsTypeOK /\ Phases /\ Owned /\ After /\ Tracked

LEMMA Kinds ==
  /\ Prefetchable \subseteq Ops /\ Stores \subseteq Ops /\ Prefetches \subseteq Ops
  /\ \A o \in Prefetchable : PrefetchOf[o] \in Prefetches
  /\ \A o \in Prefetchable : o \notin Prefetches
  /\ \A o \in Ops : o \in Stores <=> o \notin Prefetches
  /\ \A p \in Prefetches : \E o \in Prefetchable : p = PrefetchOf[o]
  /\ \A o, q \in Prefetchable : PrefetchOf[o] = PrefetchOf[q] => o = q
  /\ None \notin Ops
BY OperationAssumption DEF OperationAssumption, Prefetches, Ops

LEMMA Initially == OpsInit => OpsInv
<1> SUFFICES ASSUME OpsInit PROVE OpsInv
  OBVIOUS
<1>1. OpsTypeOK
  BY Kinds DEF OpsInit, OpsTypeOK, States
<1>2. Phases
  BY Kinds DEF OpsInit, Phases, Final
<1>3. Owned
  BY Kinds DEF OpsInit, Owned
<1>4. After
  BY Kinds DEF OpsInit, After
<1>5. Tracked
  BY Kinds DEF OpsInit, Tracked, Final
<1>6. QED
  BY <1>1, <1>2, <1>3, <1>4, <1>5 DEF OpsInv

-----------------------------------------------------------------------------
(* The one step that begins an operation, by whatever way it was asked.    *)

LEMMA Beginning ==
  ASSUME OpsInv, NEW o \in Ops, state[o] = "PENDING", Execute(o),
         left' \in [Ops -> SUBSET Ops],
         \A x \in Ops \ {o} : left'[x] \subseteq left[x],
         left'[o] = pre'[o],
         \A q \in Prefetchable : o = PrefetchOf[q] => ran[q] = 1 /\ phase[q] \in {"post", "done", "stuck"}
  PROVE  OpsInv'
<1> USE Kinds
<1>1. /\ phase' = [phase EXCEPT ![o] = "pre"]
      /\ top' = o /\ ran' = ran /\ caller' = [caller EXCEPT ![o] = top]
      /\ Begin(o)
  BY DEF Execute
<1>2. phase[o] = "none" /\ ran[o] = 0
  BY DEF OpsInv, Phases
<1>3. ASSUME NEW q \in Prefetchable, o = q PROVE PrefetchOf[q] # o /\ state[PrefetchOf[q]] = "UNMADE"
  BY <1>2, <1>3 DEF OpsInv, Owned
<1>4. /\ pre' \in [Ops -> SUBSET Ops] /\ post' \in [Ops -> SUBSET Ops]
      /\ \A x \in Ops : x \notin Prefetches => pre'[x] = pre[x]
      /\ \A x \in Ops : pre'[x] \subseteq pre[x] \cup Stores
      /\ \A x \in Ops : \A p \in post'[x] : p \in post[x] \/ (x \in Prefetchable /\ p = PrefetchOf[x])
  <2>1. CASE o \in Prefetchable
    BY <1>1, <2>1 DEF Begin, OpsInv, OpsTypeOK
  <2>2. CASE o \notin Prefetchable
    BY <1>1, <2>2 DEF Begin, graph, OpsInv, OpsTypeOK
  <2>3. QED
    BY <2>1, <2>2
<1>5. /\ state' \in [Ops -> States \cup {"UNMADE"}]
      /\ state'[o] = "PREPROCESSING"
      /\ \A x \in Ops \ {o} : state'[x] = IF o \in Prefetchable /\ x = PrefetchOf[o] THEN "PENDING" ELSE state[x]
      /\ operations' = IF o \in Prefetchable THEN operations \cup {PrefetchOf[o]} ELSE operations
  <2>1. CASE o \in Prefetchable
    BY <1>1, <1>3, <2>1 DEF Begin, OpsInv, OpsTypeOK, States
  <2>2. CASE o \notin Prefetchable
    BY <1>1, <2>2 DEF Begin, OpsInv, OpsTypeOK, States
  <2>3. QED
    BY <2>1, <2>2
<1>6. OpsTypeOK'
  <2>1. phase' \in [Ops -> {"none", "pre", "op", "post", "done", "stuck"}]
    BY <1>1 DEF OpsInv, OpsTypeOK
  <2>2. operations' \subseteq Ops
    BY <1>5 DEF OpsInv, OpsTypeOK
  <2>3. /\ ran' \in [Ops -> Nat]
        /\ caller' \in [Ops -> Ops \cup {None}] /\ top' \in Ops \cup {None}
    BY <1>1 DEF OpsInv, OpsTypeOK
  <2>4. QED
    BY <1>4, <1>5, <2>1, <2>2, <2>3 DEF OpsTypeOK
<1>7. Phases'
  <2> SUFFICES ASSUME NEW x \in Ops
               PROVE  /\ state'[x] \in {"UNMADE", "PENDING"} <=> phase'[x] = "none"
                      /\ state'[x] = "UNMADE" => x \in Prefetches
                      /\ state'[x] \in Final => phase'[x] = "done"
                      /\ phase'[x] \in {"none", "pre"} => ran'[x] = 0
                      /\ phase'[x] \in {"op", "post"} => ran'[x] = 1
                      /\ ran'[x] <= 1
    BY DEF Phases
  <2>1. CASE x = o
    BY <1>1, <1>2, <1>5, <2>1 DEF OpsInv, Phases, OpsTypeOK, Final
  <2>2. CASE x # o /\ o \in Prefetchable /\ x = PrefetchOf[o]
    BY <1>1, <1>3, <1>5, <2>2 DEF OpsInv, Phases, OpsTypeOK, Final
  <2>3. CASE x # o /\ ~(o \in Prefetchable /\ x = PrefetchOf[o])
    BY <1>1, <1>5, <2>3 DEF OpsInv, Phases, OpsTypeOK, Final
  <2>4. QED
    BY <2>1, <2>2, <2>3
<1>8. Owned'
  <2>1. \A x \in Ops : pre'[x] \cap Prefetches = {}
    BY <1>4 DEF OpsInv, Owned
  <2>2. \A x \in Ops : \A p \in post'[x] \cap Prefetches : x \in Prefetchable /\ p = PrefetchOf[x]
    BY <1>4 DEF OpsInv, Owned
  <2>3. ASSUME NEW x \in Ops, NEW p \in left'[x] \cap Prefetches
        PROVE  x \in Prefetchable /\ p = PrefetchOf[x] /\ phase'[x] \in {"post", "stuck", "done"}
    <3>1. x # o
      BY <2>1, <2>3
    <3>2. p \in left[x] \cap Prefetches
      BY <2>3, <3>1
    <3>3. QED
      BY <1>1, <3>1, <3>2 DEF OpsInv, Owned, OpsTypeOK
  <2>4. ASSUME NEW q \in Prefetchable, phase'[q] = "none" PROVE state'[PrefetchOf[q]] = "UNMADE"
    <3>1. q # o /\ phase[q] = "none"
      BY <1>1, <2>4 DEF OpsInv, OpsTypeOK
    <3>2. state[PrefetchOf[q]] = "UNMADE"
      BY <3>1 DEF OpsInv, Owned
    <3>3. PrefetchOf[q] # o /\ ~(o \in Prefetchable /\ PrefetchOf[q] = PrefetchOf[o])
      BY <3>1, <3>2
    <3>4. QED
      BY <1>5, <3>2, <3>3
  <2>5. QED
    BY <2>1, <2>2, <2>3, <2>4 DEF Owned
<1>9. After'
  <2> SUFFICES ASSUME NEW q \in Prefetchable, phase'[PrefetchOf[q]] # "none"
               PROVE  ran'[q] = 1 /\ phase'[q] \in {"post", "done", "stuck"}
    BY DEF After
  <2>1. ran[q] = 1 /\ phase[q] \in {"post", "done", "stuck"}
    <3>1. CASE PrefetchOf[q] = o
      BY <3>1
    <3>2. CASE PrefetchOf[q] # o
      BY <1>1, <3>2 DEF OpsInv, After, OpsTypeOK
    <3>3. QED
      BY <3>1, <3>2
  <2>2. q # o
    BY <1>2, <2>1
  <2>3. QED
    BY <1>1, <2>1, <2>2 DEF OpsInv, OpsTypeOK
<1>10. Tracked'
  BY <1>5 DEF OpsInv, Tracked, OpsTypeOK, Final
<1>11. QED
  BY <1>6, <1>7, <1>8, <1>9, <1>10 DEF OpsInv

LEMMA Asking ==
  ASSUME OpsInv, NEW o \in Stores, Ask(o)
  PROVE  OpsInv'
<1>1. o \in Ops /\ \A q \in Prefetchable : o # PrefetchOf[q]
  BY Kinds
<1>2. /\ state[o] = "PENDING" /\ Execute(o)
      /\ left' = [left EXCEPT ![o] = pre'[o]]
  BY DEF Ask
<1>3. pre' \in [Ops -> SUBSET Ops]
  BY <1>1, <1>2, Kinds DEF Execute, Begin, graph, OpsInv, OpsTypeOK
<1>4. left' \in [Ops -> SUBSET Ops] /\ left'[o] = pre'[o] /\ \A x \in Ops \ {o} : left'[x] = left[x]
  BY <1>1, <1>2, <1>3 DEF OpsInv, OpsTypeOK
<1>5. QED
  BY <1>1, <1>2, <1>4, Beginning DEF Ops

\* A step that changes at most which dependencies are left, and shortens these.
LEMMA Reading ==
  ASSUME OpsInv, UNCHANGED <<pre, post, state, phase, caller, top, operations, ran>>,
         left' \in [Ops -> SUBSET Ops], \A x \in Ops : left'[x] \subseteq left[x]
  PROVE  OpsInv'
<1>1. OpsTypeOK' /\ Phases' /\ After' /\ Tracked'
  BY DEF OpsInv, OpsTypeOK, Phases, After, Tracked
<1>2. Owned'
  BY DEF OpsInv, Owned
<1>3. QED
  BY <1>1, <1>2 DEF OpsInv

-----------------------------------------------------------------------------
(* The running operation's own steps.                                      *)

LEMMA Turning == OpsInv /\ Turn => OpsInv'
<1> USE Kinds
<1> SUFFICES ASSUME OpsInv, Turn PROVE OpsInv'
  OBVIOUS
<1>1. PICK d \in left[top] :
        IF state[d] = "PENDING"
        THEN Execute(d) /\ left' = [left EXCEPT ![top] = @ \ {d}, ![d] = pre'[d]]
        ELSE /\ left' = [left EXCEPT ![top] = @ \ {d}]
             /\ UNCHANGED <<graph, state, phase, caller, top, verdict, operations, ran>>
  BY DEF Turn
<1>2. top \in Ops /\ d \in Ops /\ phase[top] \in {"pre", "post"}
  BY <1>1 DEF Turn, OpsInv, OpsTypeOK
<1>3. CASE state[d] = "PENDING"
  <2>1. Execute(d) /\ left' = [left EXCEPT ![top] = @ \ {d}, ![d] = pre'[d]]
    BY <1>1, <1>3
  <2>2. phase[d] = "none" /\ d # top
    BY <1>2, <1>3 DEF OpsInv, Phases
  <2>3. pre' \in [Ops -> SUBSET Ops]
    BY <1>2, <2>1 DEF Execute, Begin, graph, OpsInv, OpsTypeOK
  <2>4. left' \in [Ops -> SUBSET Ops] /\ left'[d] = pre'[d]
    BY <1>2, <2>1, <2>2, <2>3 DEF OpsInv, OpsTypeOK
  <2>5. \A x \in Ops \ {d} : left'[x] \subseteq left[x]
    BY <1>2, <2>1, <2>2 DEF OpsInv, OpsTypeOK
  <2>6. ASSUME NEW q \in Prefetchable, d = PrefetchOf[q]
        PROVE  ran[q] = 1 /\ phase[q] \in {"post", "done", "stuck"}
    <3>1. d \in left[top] \cap Prefetches
      BY <1>1, <2>6
    <3>2. top \in Prefetchable /\ d = PrefetchOf[top] /\ phase[top] \in {"post", "stuck", "done"}
      BY <1>2, <3>1 DEF OpsInv, Owned
    <3>3. q = top /\ phase[top] = "post"
      BY <1>2, <2>6, <3>2
    <3>4. QED
      BY <1>2, <3>3 DEF OpsInv, Phases
  <2>7. QED
    BY <1>2, <1>3, <2>1, <2>4, <2>5, <2>6, Beginning
<1>4. CASE state[d] # "PENDING"
  <2>1. /\ left' = [left EXCEPT ![top] = @ \ {d}]
        /\ UNCHANGED <<pre, post, state, phase, caller, top, operations, ran>>
    BY <1>1, <1>4 DEF graph
  <2>2. left' \in [Ops -> SUBSET Ops] /\ \A x \in Ops : left'[x] \subseteq left[x]
    BY <1>2, <2>1 DEF OpsInv, OpsTypeOK
  <2>3. QED
    BY <2>1, <2>2, Reading
<1>5. QED
  BY <1>3, <1>4

\* execute() is left with an outcome, before op() or after it.
LEMMA Leaving ==
  ASSUME OpsInv, NEW o \in Ops, NEW s \in Final, Leave(o, s), phase[o] \in {"pre", "post"},
         UNCHANGED <<pre, post, caller, ran>>,
         left' \in [Ops -> SUBSET Ops], \A x \in Ops : left'[x] \subseteq left[x]
  PROVE  OpsInv'
<1> USE Kinds
<1>1. /\ phase' = [phase EXCEPT ![o] = "done"] /\ state' = [state EXCEPT ![o] = s]
      /\ operations' = operations \ {o} /\ top' = caller[o]
      /\ state[o] \notin {"UNMADE", "PENDING"}
  BY DEF Leave, OpsInv, Phases
<1>2. ASSUME NEW x \in Ops, x # o PROVE phase'[x] = phase[x] /\ state'[x] = state[x]
  BY <1>1, <1>2 DEF OpsInv, OpsTypeOK
<1>3. phase'[o] = "done" /\ state'[o] \in {"SUCCESS", "FAILURE"}
  BY <1>1 DEF OpsInv, OpsTypeOK, Final
<1>4. OpsTypeOK'
  <2>1. state' \in [Ops -> States \cup {"UNMADE"}]
    BY <1>1 DEF OpsInv, OpsTypeOK, Final, States
  <2>2. phase' \in [Ops -> {"none", "pre", "op", "post", "done", "stuck"}]
    BY <1>1 DEF OpsInv, OpsTypeOK
  <2>3. operations' \subseteq Ops /\ top' \in Ops \cup {None}
    BY <1>1 DEF OpsInv, OpsTypeOK
  <2>4. QED
    BY <2>1, <2>2, <2>3 DEF OpsInv, OpsTypeOK
<1>5. Phases'
  BY <1>2, <1>3 DEF OpsInv, Phases, Final
<1>6. Owned'
  <2>1. ASSUME NEW x \in Ops, NEW p \in left'[x] \cap Prefetches
        PROVE  x \in Prefetchable /\ p = PrefetchOf[x] /\ phase'[x] \in {"post", "stuck", "done"}
    <3>1. p \in left[x] \cap Prefetches
      BY <2>1
    <3>2. QED
      BY <1>2, <1>3, <3>1 DEF OpsInv, Owned
  <2>2. \A q \in Prefetchable : phase'[q] = "none" => q # o /\ state[PrefetchOf[q]] = "UNMADE"
    BY <1>2, <1>3 DEF OpsInv, Owned
  <2>3. \A q \in Prefetchable : phase'[q] = "none" => state'[PrefetchOf[q]] = "UNMADE"
    BY <1>1, <1>2, <2>2
  <2>4. QED
    BY <2>1, <2>3 DEF OpsInv, Owned
<1>7. After'
  BY <1>2, <1>3 DEF OpsInv, After
<1>8. Tracked'
  <2>1. \A x \in Ops : x \in operations' <=> state'[x] \notin Final \cup {"UNMADE"}
    BY <1>1, <1>2, <1>3 DEF OpsInv, Tracked, Final
  <2>2. QED
    BY <1>4, <2>1 DEF OpsTypeOK, Tracked
<1>9. QED
  BY <1>4, <1>5, <1>6, <1>7, <1>8 DEF OpsInv

LEMMA Looking == OpsInv /\ Look => OpsInv'
<1> SUFFICES ASSUME OpsInv, Look PROVE OpsInv'
  OBVIOUS
<1>1. /\ top \in Ops /\ phase[top] \in {"pre", "post"}
      /\ UNCHANGED <<pre, post, caller, ran>>
  BY DEF Look, graph, OpsInv, OpsTypeOK
<1>2. CASE Leave(top, "FAILURE") /\ left' = [left EXCEPT ![top] = {}]
  <2>1. left' \in [Ops -> SUBSET Ops] /\ \A x \in Ops : left'[x] \subseteq left[x]
    BY <1>1, <1>2 DEF OpsInv, OpsTypeOK
  <2>2. QED
    BY <1>1, <1>2, <2>1, Leaving DEF Final
<1>3. CASE UNCHANGED <<state, operations, phase, top, left>>
  <2>1. left' \in [Ops -> SUBSET Ops] /\ \A x \in Ops : left'[x] \subseteq left[x]
    BY <1>3 DEF OpsInv, OpsTypeOK
  <2>2. QED
    BY <1>1, <1>3, <2>1, Reading
<1>4. QED
  BY <1>2, <1>3 DEF Look

LEMMA Entering == OpsInv /\ Enter => OpsInv'
<1> USE Kinds
<1> SUFFICES ASSUME OpsInv, Enter PROVE OpsInv'
  OBVIOUS
<1>1. /\ top \in Ops /\ phase[top] = "pre"
      /\ phase' = [phase EXCEPT ![top] = "op"] /\ ran' = [ran EXCEPT ![top] = @ + 1]
      /\ UNCHANGED <<pre, post, state, left, caller, top, operations>>
  BY DEF Enter, Through, graph, OpsInv, OpsTypeOK
<1>2. ASSUME NEW x \in Ops, x # top PROVE phase'[x] = phase[x] /\ ran'[x] = ran[x]
  BY <1>1, <1>2 DEF OpsInv, OpsTypeOK
<1>3. phase'[top] = "op" /\ ran'[top] = 1 /\ ran[top] = 0
  BY <1>1 DEF OpsInv, OpsTypeOK, Phases
<1>4. OpsTypeOK'
  <2>1. phase' \in [Ops -> {"none", "pre", "op", "post", "done", "stuck"}]
    BY <1>1 DEF OpsInv, OpsTypeOK
  <2>2. ran' \in [Ops -> Nat]
    BY <1>1 DEF OpsInv, OpsTypeOK
  <2>3. QED
    BY <1>1, <2>1, <2>2 DEF OpsInv, OpsTypeOK
<1>5. Phases'
  BY <1>1, <1>2, <1>3 DEF OpsInv, Phases, Final
<1>6. Owned'
  BY <1>1, <1>2, <1>3 DEF OpsInv, Owned
<1>7. After'
  BY <1>1, <1>2, <1>3 DEF OpsInv, After
<1>8. QED
  BY <1>1, <1>4, <1>5, <1>6, <1>7 DEF OpsInv, Tracked

LEMMA Returning ==
  ASSUME OpsInv, top \in Ops, phase[top] = "op", NEW v, Returns(top, v)
  PROVE  OpsInv'
<1> USE Kinds
<1>1. /\ phase' = [phase EXCEPT ![top] = "post"] /\ state' = [state EXCEPT ![top] = "POSTPROCESSING"]
      /\ left' = [left EXCEPT ![top] = post[top]]
      /\ UNCHANGED <<pre, post, caller, top, operations, ran>>
  BY DEF Returns, graph
<1>2. ASSUME NEW x \in Ops, x # top PROVE phase'[x] = phase[x] /\ state'[x] = state[x] /\ left'[x] = left[x]
  BY <1>1, <1>2 DEF OpsInv, OpsTypeOK
<1>3. phase'[top] = "post" /\ state'[top] = "POSTPROCESSING" /\ left'[top] = post[top] /\ ran[top] = 1
  BY <1>1 DEF OpsInv, OpsTypeOK, Phases
<1>4. OpsTypeOK'
  <2>1. phase' \in [Ops -> {"none", "pre", "op", "post", "done", "stuck"}]
    BY <1>1 DEF OpsInv, OpsTypeOK
  <2>2. state' \in [Ops -> States \cup {"UNMADE"}]
    BY <1>1 DEF OpsInv, OpsTypeOK, States
  <2>3. left' \in [Ops -> SUBSET Ops]
    BY <1>1 DEF OpsInv, OpsTypeOK
  <2>4. QED
    BY <1>1, <2>1, <2>2, <2>3 DEF OpsInv, OpsTypeOK
<1>5. Phases'
  BY <1>1, <1>2, <1>3 DEF OpsInv, Phases, Final
<1>6. Owned'
  <2>1. ASSUME NEW x \in Ops, NEW p \in left'[x] \cap Prefetches
        PROVE  x \in Prefetchable /\ p = PrefetchOf[x] /\ phase'[x] \in {"post", "stuck", "done"}
    <3>1. CASE x = top
      BY <1>3, <2>1, <3>1 DEF OpsInv, Owned
    <3>2. CASE x # top
      BY <1>2, <2>1, <3>2 DEF OpsInv, Owned
    <3>3. QED
      BY <3>1, <3>2
  <2>2. \A q \in Prefetchable : phase'[q] = "none" => q # top /\ state[PrefetchOf[q]] = "UNMADE"
    BY <1>2, <1>3 DEF OpsInv, Owned
  <2>3. state[top] # "UNMADE"
    BY DEF OpsInv, Phases
  <2>4. \A q \in Prefetchable : phase'[q] = "none" => state'[PrefetchOf[q]] = "UNMADE"
    BY <1>2, <2>2, <2>3
  <2>5. QED
    BY <1>1, <2>1, <2>4 DEF OpsInv, Owned
<1>7. After'
  BY <1>1, <1>2, <1>3 DEF OpsInv, After
<1>8. Tracked'
  <2>1. state[top] \notin Final \cup {"UNMADE"}
    BY DEF OpsInv, Phases, Final
  <2>2. \A x \in Ops : state'[x] \in Final \cup {"UNMADE"} <=> state[x] \in Final \cup {"UNMADE"}
    BY <1>2, <1>3, <2>1 DEF Final
  <2>3. QED
    BY <1>1, <2>2 DEF OpsInv, Tracked
<1>9. QED
  BY <1>4, <1>5, <1>6, <1>7, <1>8 DEF OpsInv

LEMMA Throwing == OpsInv /\ Throw => OpsInv'
<1> USE Kinds
<1> SUFFICES ASSUME OpsInv, Throw PROVE OpsInv'
  OBVIOUS
<1>1. /\ phase' = [o \in Ops |-> IF phase[o] \in {"pre", "op", "post"} THEN "stuck" ELSE phase[o]]
      /\ top' = None /\ UNCHANGED <<pre, post, state, left, caller, operations, ran>>
  BY DEF Throw, OnStack, graph
<1>2. phase' \in [Ops -> {"none", "pre", "op", "post", "done", "stuck"}]
  BY <1>1 DEF OpsInv, OpsTypeOK
<1>3. \A o \in Ops : phase'[o] = IF phase[o] \in {"pre", "op", "post"} THEN "stuck" ELSE phase[o]
  BY <1>1
<1>4. OpsTypeOK'
  BY <1>1, <1>2 DEF OpsInv, OpsTypeOK
<1>5. Phases'
  BY <1>1, <1>3 DEF OpsInv, Phases, OpsTypeOK, Final
<1>6. Owned'
  BY <1>1, <1>3 DEF OpsInv, Owned
<1>7. After'
  BY <1>1, <1>3 DEF OpsInv, After
<1>8. QED
  BY <1>1, <1>4, <1>5, <1>6, <1>7 DEF OpsInv, Tracked

-----------------------------------------------------------------------------
LEMMA OpsInductive == OpsInv /\ [OpsNext]_opsVars => OpsInv'
<1> SUFFICES ASSUME OpsInv, [OpsNext]_opsVars PROVE OpsInv'
  OBVIOUS
<1>1. CASE UNCHANGED <<graph, state, frame, operations, ran>>
  BY <1>1 DEF graph, frame, OpsInv, OpsTypeOK, Phases, Owned, After, Tracked
<1>2. CASE Call \/ Inquire
  BY <1>2, Asking DEF Call, Inquire
<1>3. CASE Turn
  BY <1>3, Turning
<1>4. CASE Look
  BY <1>4, Looking
<1>5. CASE Enter
  BY <1>5, Entering
<1>6. CASE Acquire \/ OtherThread
  BY <1>1, <1>6 DEF Acquire, OtherThread
<1>7. CASE AcquireFails
  BY <1>7, Throwing DEF AcquireFails
<1>8. CASE StatementDone \/ PrefetchDone
  <2>1. top \in Ops /\ phase[top] = "op"
    BY <1>8, Kinds DEF StatementDone, PrefetchDone, InOp
  <2>2. Throw \/ \E v \in BOOLEAN : Returns(top, v)
    BY <1>8 DEF StatementDone, PrefetchDone
  <2>3. QED
    BY <2>1, <2>2, Returning, Throwing
<1>9. CASE Finish
  <2>1. top \in Ops /\ phase[top] = "post" /\ UNCHANGED <<pre, post, caller, ran, left>>
    BY <1>9 DEF Finish, Through, graph, OpsInv, OpsTypeOK
  <2>2. PICK s \in Final : Leave(top, s)
    BY <1>9 DEF Finish, Final
  <2>3. QED
    BY <2>1, <2>2, Leaving DEF OpsInv, OpsTypeOK
<1>10. CASE UNCHANGED opsVars
  BY <1>1, <1>10 DEF opsVars
<1>11. QED
  BY <1>2, <1>3, <1>4, <1>5, <1>6, <1>7, <1>8, <1>9, <1>10 DEF OpsNext, Thread

LEMMA Always == OpsSpec => []OpsInv
<1>1. OpsInit => OpsInv
  BY Initially
<1>2. OpsInv /\ [OpsNext]_opsVars => OpsInv'
  BY OpsInductive
<1>3. QED
  BY <1>1, <1>2, PTL DEF OpsSpec

\* The variables keep their types, whatever fails.
THEOREM TypeCorrect == OpsSpec => []OpsTypeOK
<1>1. OpsInv => OpsTypeOK
  BY DEF OpsInv
<1>2. QED
  BY <1>1, Always, PTL

\* No operation's op() is called twice, whatever depends on what and in
\* whatever circles (the PENDING tests of getState(), getResult(), getValue()).
THEOREM OpRunsOnce == OpsSpec => []RunsOnce
<1>1. OpsInv => RunsOnce
  BY DEF OpsInv, Phases, RunsOnce
<1>2. QED
  BY <1>1, Always, PTL

\* The transaction holds those operations, and only those, that were made and
\* have no outcome (begin(), add() and remove() of Transaction).
THEOREM TransactionTracks == OpsSpec => []Tracked
<1>1. OpsInv => Tracked
  BY DEF OpsInv
<1>2. QED
  BY <1>1, Always, PTL

\* PrefetchOperation.op() finds the result of the operation it works for.
THEOREM PrefetchFindsResult == OpsSpec => []PrefetchAfterOwner
<1>1. OpsInv => PrefetchAfterOwner
  <2> SUFFICES ASSUME OpsInv, NEW o \in Prefetchable, ran[PrefetchOf[o]] > 0
               PROVE  ran[o] = 1 /\ phase[o] # "op"
    BY DEF PrefetchAfterOwner
  <2>1. phase[PrefetchOf[o]] # "none"
    BY Kinds DEF OpsInv, Phases
  <2>2. QED
    BY <2>1 DEF OpsInv, After
<1>2. QED
  BY <1>1, Always, PTL

-----------------------------------------------------------------------------
(* The pool, whoever uses it and however many connections there may be.    *)

\* What is idle or used was made, and has one place.
PoolInv ==
  /\ made \in 0..MaxConns
  /\ idle \in Seq(1..made)
  /\ user \in [Stores \cup Others -> 1..made \cup {Pool!NoConn, Pool!Making}]
  /\ OneUser

LEMMA PoolStep ==
  ASSUME PoolInv, NEW u \in Stores \cup Others,
         Pool!Poll(u) \/ Pool!Create(u) \/ Pool!CreateFails(u) \/ Pool!Release(u)
  PROVE  PoolInv'
<1> USE DEF Pool!NoConn, Pool!Making, Pool!Conns
<1>0. MaxConns \in Nat
  BY OperationAssumption DEF OperationAssumption
<1>1. CASE Pool!Poll(u)
  <2>1. CASE idle = <<>>
    BY <1>0, <1>1, <2>1 DEF Pool!Poll, PoolInv, OneUser, Pool!OneUser
  <2>2. CASE idle # <<>>
    <3>1. /\ user' = [user EXCEPT ![u] = idle[1]] /\ idle' = Tail(idle) /\ made' = made
          /\ user[u] = 0 /\ idle[1] \in 1..made /\ Len(idle) > 0
      BY <1>1, <2>2 DEF Pool!Poll, PoolInv
    <3>2. /\ Tail(idle) \in Seq(1..made) /\ Len(Tail(idle)) = Len(idle) - 1
          /\ \A i \in 1..Len(Tail(idle)) : Tail(idle)[i] = idle[i + 1]
      BY <3>1 DEF PoolInv
    <3>3. user' \in [Stores \cup Others -> 1..made \cup {0, MaxConns + 1}]
      BY <3>1 DEF PoolInv
    <3>4. OneUser'
      <4>1. \A v \in Stores \cup Others : v # u => user'[v] = user[v] /\ user[v] # idle[1]
        BY <3>1 DEF PoolInv, OneUser, Pool!OneUser
      <4>2. \A i \in 1..Len(idle') : idle'[i] = idle[i + 1] /\ i + 1 \in 1..Len(idle) /\ idle'[i] \in 1..made
        BY <3>1, <3>2 DEF PoolInv
      <4>3. user'[u] = idle[1]
        BY <3>1 DEF PoolInv
      <4>4. DOMAIN idle = 1..Len(idle) /\ DOMAIN idle' = 1..Len(idle') /\ Len(idle) \in Nat
        BY <3>1, <3>2 DEF PoolInv
      <4>5. /\ \A i, j \in 1..Len(idle) : idle[i] = idle[j] => i = j
            /\ \A i \in 1..Len(idle), v \in Stores \cup Others : idle[i] # user[v]
        BY <4>4 DEF PoolInv, OneUser, Pool!OneUser
      <4>6. \A v, w \in Stores \cup Others : user'[v] \in 1..MaxConns /\ user'[v] = user'[w] => v = w
        BY <4>1, <4>3 DEF PoolInv, OneUser, Pool!OneUser
      <4>7. ASSUME NEW i \in 1..Len(idle'), NEW j \in 1..Len(idle'), idle'[i] = idle'[j] PROVE i = j
        <5>1. i + 1 = j + 1
          BY <4>2, <4>7, <4>5
        <5>2. QED
          BY <3>1, <3>2, <5>1
      <4>8. \A i \in 1..Len(idle'), v \in Stores \cup Others : idle'[i] # user'[v]
        <5> SUFFICES ASSUME NEW i \in 1..Len(idle'), NEW v \in Stores \cup Others PROVE idle'[i] # user'[v]
          OBVIOUS
        <5>1. idle'[i] = idle[i + 1] /\ i + 1 \in 1..Len(idle) /\ i + 1 # 1
          BY <3>1, <3>2, <4>2
        <5>2. CASE v = u
          <6>1. 1 \in 1..Len(idle)
            BY <3>1, <4>4
          <6>2. QED
            BY <4>3, <4>5, <5>1, <5>2, <6>1
        <5>3. CASE v # u
          BY <4>1, <4>5, <5>1, <5>3
        <5>4. QED
          BY <5>2, <5>3
      <4>9. QED
        BY <4>4, <4>6, <4>7, <4>8 DEF OneUser, Pool!OneUser
    <3>5. QED
      BY <3>1, <3>2, <3>3, <3>4 DEF PoolInv
  <2>3. QED
    BY <2>1, <2>2
<1>2. CASE Pool!Create(u)
  <2>1. /\ user' = [user EXCEPT ![u] = made + 1] /\ made' = made + 1 /\ idle' = idle
        /\ user[u] = MaxConns + 1 /\ made < MaxConns
    BY <1>2 DEF Pool!Create
  <2>2. made' \in 0..MaxConns /\ idle' \in Seq(1..made')
    BY <1>0, <2>1 DEF PoolInv
  <2>3. user' \in [Stores \cup Others -> 1..made' \cup {0, MaxConns + 1}]
    BY <1>0, <2>1 DEF PoolInv
  <2>4. OneUser'
    BY <1>0, <2>1 DEF PoolInv, OneUser, Pool!OneUser
  <2>5. QED
    BY <2>2, <2>3, <2>4 DEF PoolInv
<1>3. CASE Pool!CreateFails(u)
  BY <1>0, <1>3 DEF Pool!CreateFails, PoolInv, OneUser, Pool!OneUser
<1>4. CASE Pool!Release(u)
  <2>1. /\ user' = [user EXCEPT ![u] = 0] /\ idle' = Append(idle, user[u]) /\ made' = made
        /\ user[u] \in 1..made
    <3>1. /\ user[u] \in 1..MaxConns /\ idle' = Append(idle, user[u])
          /\ user' = [user EXCEPT ![u] = 0] /\ made' = made
      BY <1>4 DEF Pool!Release
    <3>2. user[u] \in 1..made \cup {0, MaxConns + 1} /\ made \in 0..MaxConns
      BY DEF PoolInv
    <3>3. user[u] \in 1..made
      BY <1>0, <3>1, <3>2
    <3>4. QED
      BY <3>1, <3>3
  <2>2. /\ Append(idle, user[u]) \in Seq(1..made) /\ Len(idle') = Len(idle) + 1
        /\ \A i \in 1..Len(idle) : idle'[i] = idle[i]
        /\ idle'[Len(idle) + 1] = user[u]
    BY <2>1 DEF PoolInv
  <2>3. user' \in [Stores \cup Others -> 1..made \cup {0, MaxConns + 1}]
    BY <2>1 DEF PoolInv
  <2>4. OneUser'
    <3>1. \A v \in Stores \cup Others : v # u => user'[v] = user[v] /\ user[v] # user[u]
      BY <1>0, <2>1 DEF PoolInv, OneUser, Pool!OneUser
    <3>2. user'[u] = 0
      BY <2>1 DEF PoolInv
    <3>3. DOMAIN idle = 1..Len(idle) /\ DOMAIN idle' = 1..Len(idle) \cup {Len(idle) + 1} /\ Len(idle) \in Nat
      BY <2>1, <2>2 DEF PoolInv
    <3>4. \A i \in 1..Len(idle) : idle[i] \in 1..made /\ idle[i] # user[u]
      BY <3>3 DEF PoolInv, OneUser, Pool!OneUser
    <3>5. \A v, w \in Stores \cup Others : user'[v] \in 1..MaxConns /\ user'[v] = user'[w] => v = w
      BY <3>1, <3>2 DEF PoolInv, OneUser, Pool!OneUser
    <3>6. \A i, j \in DOMAIN idle' : idle'[i] = idle'[j] => i = j
      BY <2>2, <3>3, <3>4 DEF PoolInv, OneUser, Pool!OneUser
    <3>7. \A i \in DOMAIN idle', v \in Stores \cup Others : idle'[i] # user'[v]
      <4> SUFFICES ASSUME NEW i \in DOMAIN idle', NEW v \in Stores \cup Others PROVE idle'[i] # user'[v]
        OBVIOUS
      <4>1. CASE v = u
        BY <2>1, <2>2, <3>2, <3>3, <3>4, <4>1
      <4>2. CASE v # u
        BY <2>2, <3>1, <3>3, <4>2 DEF PoolInv, OneUser, Pool!OneUser
      <4>3. QED
        BY <4>1, <4>2
    <3>8. QED
      BY <3>5, <3>6, <3>7 DEF OneUser, Pool!OneUser
  <2>5. QED
    BY <2>1, <2>2, <2>3, <2>4 DEF PoolInv
<1>5. QED
  BY <1>1, <1>2, <1>3, <1>4

\* No two threads ever work with the same connection (poll() and add() of
\* ConnectionPool's queue; release() comes once after each acquire()).
THEOREM ConnectionHasOneUser == OpsSpec => []OneUser
<1>1. OpsInit => PoolInv
  BY OperationAssumption DEF OpsInit, Pool!PoolInit, PoolInv, OneUser, Pool!OneUser, Pool!NoConn, Pool!Conns, OperationAssumption
<1>2. PoolInv /\ [OpsNext]_opsVars => PoolInv'
  <2> SUFFICES ASSUME PoolInv, [OpsNext]_opsVars PROVE PoolInv'
    OBVIOUS
  <2>1. CASE UNCHANGED <<idle, made, user>>
    BY <2>1 DEF PoolInv, OneUser, Pool!OneUser
  <2>2. CASE Acquire
    BY <2>2, PoolStep DEF Acquire, InOp
  <2>3. CASE AcquireFails
    BY <2>3, PoolStep DEF AcquireFails, InOp
  <2>4. CASE StatementDone
    BY <2>4, PoolStep DEF StatementDone, InOp
  <2>5. CASE OtherThread
    BY <2>5, PoolStep DEF OtherThread
  <2>6. QED
    BY <2>1, <2>2, <2>3, <2>4, <2>5
       DEF OpsNext, Thread, opsVars, Unpooled, Call, Inquire, Ask, Turn, Look, Enter, PrefetchDone, Finish
<1>3. PoolInv => OneUser
  BY DEF PoolInv
<1>4. QED
  BY <1>1, <1>2, <1>3, PTL DEF OpsSpec

-----------------------------------------------------------------------------
(* What an operation depends on.  An operation that has passed over one    *)
(* that is below it on the stack can rely on it: nothing leaves the stack  *)
(* but from its top.                                                       *)

\* h is how deep in the stack an operation is.
Stacked(h) ==
  /\ top = None => \A x \in Ops : ~OnStack(x)
  /\ \A x \in Ops : x = top => OnStack(x)
  /\ \A x, y \in Ops : OnStack(x) /\ y = top => h[x] <= h[y]
  /\ \A x \in Ops : OnStack(x) => 1 <= h[x] /\ (caller[x] = None => h[x] = 1)
  /\ \A x, y \in Ops : OnStack(x) /\ y = caller[x] => OnStack(y) /\ h[x] = h[y] + 1
  /\ \A x, y \in Ops : OnStack(x) /\ OnStack(y) /\ h[x] = h[y] => x = y

\* What d may be when o has passed over it.
Met(h, o, d) ==
  state[d] = "SUCCESS" \/ phase[d] = "stuck" \/ (OnStack(d) /\ h[d] <= h[o])

Relied(h) ==
  \A o \in Ops : phase[o] = "pre" =>
    /\ \A d \in pre[o] : d \in left[o] \/ d = at[o] \/ Met(h, o, d)
    /\ \A d \in Ops : d = at[o] => phase[d] # "none"

Seen ==
  /\ at \in [Ops -> Ops \cup {None}]
  /\ \A o \in Ops : phase[o] = "done" => state[o] \in Final
  /\ \A o \in Ops : phase[o] = "none" => at[o] = None

DInv == Seen /\ \E h \in [Ops -> Nat] : Stacked(h) /\ Relied(h)

\* An operation is put on the stack.
LEMMA Pushing ==
  ASSUME OpsInv, Seen, NEW h \in [Ops -> Nat], Stacked(h), Relied(h),
         NEW o \in Ops, state[o] = "PENDING", Execute(o), left'[o] = pre'[o],
         at' \in [Ops -> Ops \cup {None}], at'[o] = None,
         \A x \in Ops \ {o} : /\ at'[x] = at[x] \/ (at[x] = None /\ at'[x] = o /\ phase[x] # "none")
                              /\ \A d \in left[x] : d \in left'[x] \/ d = at'[x]
  PROVE  DInv'
<1> USE Kinds
<1>1. /\ top' = o /\ caller' = [caller EXCEPT ![o] = top] /\ phase' = [phase EXCEPT ![o] = "pre"]
      /\ top \in Ops \cup {None}
  BY DEF Execute, OpsInv, OpsTypeOK
<1>2. phase[o] = "none"
  BY DEF OpsInv, Phases
<1>3. /\ phase'[o] = "pre" /\ caller'[o] = top
      /\ \A x \in Ops \ {o} : phase'[x] = phase[x] /\ caller'[x] = caller[x]
  BY <1>1 DEF OpsInv, OpsTypeOK
<1>4. /\ OnStack(o)' /\ ~OnStack(o) /\ o # top
      /\ \A x \in Ops \ {o} : OnStack(x)' <=> OnStack(x)
  BY <1>2, <1>3 DEF OnStack, Stacked
<1>5. PICK g \in [Ops -> Nat] : /\ \A x \in Ops \ {o} : g[x] = h[x]
                                /\ g[o] = IF top = None THEN 1 ELSE h[top] + 1
  <2>1. [h EXCEPT ![o] = IF top = None THEN 1 ELSE h[top] + 1] \in [Ops -> Nat]
    BY <1>1
  <2> QED
    BY <2>1
<1>6. /\ \A x \in Ops : g[x] \in Nat /\ h[x] \in Nat
      /\ g[o] >= 1
      /\ \A x \in Ops \ {o} : OnStack(x) => top # None /\ g[x] < g[o]
  BY <1>1, <1>5 DEF Stacked
<1>7. /\ \A x \in Ops \ {o} : state'[x] = state[x] \/ state[x] = "UNMADE"
      /\ \A x \in Ops \ {o} : phase[x] # "none" => pre'[x] = pre[x] /\ state'[x] = state[x]
  <2>1. CASE o \in Prefetchable
    <3>1. state[PrefetchOf[o]] = "UNMADE" /\ phase[PrefetchOf[o]] = "none"
      BY <1>2, <2>1 DEF OpsInv, Owned, Phases
    <3>2. \A x \in Ops \ {o} : x # PrefetchOf[o] => pre'[x] = pre[x] /\ state'[x] = state[x]
      BY <2>1 DEF Execute, Begin, OpsInv, OpsTypeOK
    <3> QED
      BY <3>1, <3>2
  <2>2. CASE o \notin Prefetchable
    BY <2>2 DEF Execute, Begin, graph, OpsInv, OpsTypeOK
  <2> QED
    BY <2>1, <2>2
<1>8. Stacked(g)'
  <2>1. \A x \in Ops : OnStack(x)' => g[x] <= g[o]
    BY <1>4, <1>6
  <2>2. \A x \in Ops : OnStack(x)' => 1 <= g[x] /\ (caller'[x] = None => g[x] = 1)
    BY <1>3, <1>4, <1>5, <1>6 DEF Stacked
  <2>3. ASSUME NEW x \in Ops, NEW y \in Ops, OnStack(x)', y = caller'[x]
        PROVE  OnStack(y)' /\ g[x] = g[y] + 1
    <3>1. CASE x = o
      BY <1>3, <1>4, <1>5, <2>3, <3>1 DEF Stacked
    <3>2. CASE x # o
      <4>1. OnStack(x) /\ y = caller[x]
        BY <1>3, <1>4, <2>3, <3>2
      <4>2. OnStack(y) /\ h[x] = h[y] + 1
        BY <4>1 DEF Stacked
      <4> QED
        BY <1>4, <1>5, <3>2, <4>2
    <3> QED
      BY <3>1, <3>2
  <2>4. ASSUME NEW x \in Ops, NEW y \in Ops, OnStack(x)', OnStack(y)', g[x] = g[y]
        PROVE  x = y
    BY <1>4, <1>5, <1>6, <2>4 DEF Stacked
  <2> QED
    BY <1>1, <1>4, <2>1, <2>2, <2>3, <2>4 DEF Stacked
<1>9. Relied(g)'
  <2>1. ASSUME NEW x \in Ops, phase'[x] = "pre", NEW d \in pre'[x]
        PROVE  d \in left'[x] \/ d = at'[x] \/ Met(g, x, d)'
    <3>1. CASE x = o
      BY <2>1, <3>1
    <3>2. CASE x # o
      <4>1. phase[x] = "pre" /\ d \in pre[x] /\ d \in Ops
        BY <1>3, <1>7, <2>1, <3>2 DEF OpsInv, OpsTypeOK
      <4>2. CASE d \in left[x] \/ d = at[x]
        BY <3>2, <4>1, <4>2
      <4>3. CASE Met(h, x, d)
        <5>1. d # o
          BY <1>2, <1>4, <4>3 DEF Met
        <5>2. Met(g, x, d)'
          BY <1>3, <1>4, <1>5, <1>7, <3>2, <4>1, <4>3, <5>1 DEF Met
        <5> QED
          BY <5>2
      <4> QED
        BY <4>1, <4>2, <4>3 DEF Relied
    <3> QED
      BY <3>1, <3>2
  <2>2. ASSUME NEW x \in Ops, phase'[x] = "pre", NEW d \in Ops, d = at'[x]
        PROVE  phase'[d] # "none"
    <3>1. CASE d = o
      BY <1>3, <3>1
    <3>2. CASE d # o
      <4>1. x # o /\ d = at[x] /\ phase[x] = "pre"
        BY <1>3, <2>2, <3>2
      <4> QED
        BY <1>3, <3>2, <4>1 DEF Relied
    <3> QED
      BY <3>1, <3>2
  <2> QED
    BY <2>1, <2>2 DEF Relied
<1>10. Seen'
  <2>1. ASSUME NEW x \in Ops, phase'[x] = "done" PROVE state'[x] \in Final
    BY <1>3, <1>7, <2>1 DEF Seen
  <2>2. ASSUME NEW x \in Ops, phase'[x] = "none" PROVE at'[x] = None
    BY <1>3, <2>2 DEF Seen
  <2> QED
    BY <2>1, <2>2 DEF Seen
<1> QED
  BY <1>8, <1>9, <1>10 DEF DInv

\* The innermost one leaves.
LEMMA Popping ==
  ASSUME OpsInv, Seen, NEW h \in [Ops -> Nat], Stacked(h), Relied(h),
         top \in Ops, NEW s \in Final, Leave(top, s), UNCHANGED <<pre, caller>>,
         at' \in [Ops -> Ops \cup {None}],
         \A x \in Ops \ {top} : left'[x] = left[x] /\ at'[x] = at[x]
  PROVE  DInv'
<1> USE Kinds
<1>1. PICK t \in Ops : t = top
  OBVIOUS
<1>2. /\ top' = caller[t] /\ caller[t] \in Ops \cup {None}
      /\ state' = [state EXCEPT ![t] = s] /\ phase' = [phase EXCEPT ![t] = "done"]
  BY <1>1 DEF Leave, OpsInv, OpsTypeOK
<1>3. /\ state'[t] = s /\ phase'[t] = "done"
      /\ \A x \in Ops \ {t} : phase'[x] = phase[x] /\ state'[x] = state[x]
  BY <1>2 DEF OpsInv, OpsTypeOK
<1>4. /\ OnStack(t) /\ ~OnStack(t)' /\ \A x \in Ops \ {t} : OnStack(x)' <=> OnStack(x)
  <2>1. OnStack(t)
    BY <1>1 DEF Stacked
  <2> QED
    BY <1>3, <2>1 DEF OnStack
<1>5. \A x \in Ops : h[x] \in Nat
  OBVIOUS
\* The others are not as deep, and none has it as its caller.
<1>6. ASSUME NEW x \in Ops \ {t}, OnStack(x)
      PROVE  h[x] < h[t] /\ caller[x] # t
  <2>1. h[x] <= h[t] /\ h[x] # h[t]
    BY <1>1, <1>4, <1>6 DEF Stacked
  <2>2. caller[x] = t => h[x] = h[t] + 1
    BY <1>6 DEF Stacked
  <2> QED
    BY <1>5, <2>1, <2>2
<1>7. Stacked(h)'
  <2>1. caller[t] = None => \A x \in Ops : ~OnStack(x)'
    <3> SUFFICES ASSUME caller[t] = None, NEW x \in Ops, OnStack(x)' PROVE FALSE
      OBVIOUS
    <3>1. x # t /\ OnStack(x)
      BY <1>4
    <3>2. h[t] = 1 /\ 1 <= h[x]
      BY <1>4, <3>1 DEF Stacked
    <3> QED
      BY <1>5, <1>6, <3>1, <3>2
  <2>2. ASSUME NEW y \in Ops, y = caller[t]
        PROVE  OnStack(y)' /\ \A x \in Ops : OnStack(x)' => h[x] <= h[y]
    <3>1. OnStack(y) /\ h[t] = h[y] + 1
      BY <1>4, <2>2 DEF Stacked
    <3>2. y # t
      BY <1>5, <3>1
    <3> QED
      BY <1>4, <1>5, <1>6, <3>1, <3>2
  <2>3. \A x \in Ops : OnStack(x)' => x # t /\ OnStack(x) /\ caller'[x] = caller[x]
    BY <1>4
  <2>4. \A x \in Ops : OnStack(x)' => 1 <= h[x] /\ (caller'[x] = None => h[x] = 1)
    BY <2>3 DEF Stacked
  <2>5. ASSUME NEW x \in Ops, NEW y \in Ops, OnStack(x)', y = caller'[x]
        PROVE  OnStack(y)' /\ h[x] = h[y] + 1
    <3>1. OnStack(y) /\ h[x] = h[y] + 1
      BY <2>3, <2>5 DEF Stacked
    <3>2. y # t
      BY <1>6, <2>3, <2>5
    <3> QED
      BY <1>4, <3>1, <3>2
  <2>6. \A x, y \in Ops : OnStack(x)' /\ OnStack(y)' /\ h[x] = h[y] => x = y
    BY <2>3 DEF Stacked
  <2>7. \A x \in Ops : x = top' => OnStack(x)'
    BY <1>2, <2>2
  <2>8. \A x, y \in Ops : OnStack(x)' /\ y = top' => h[x] <= h[y]
    BY <1>2, <2>2
  <2> QED
    BY <1>2, <2>1, <2>4, <2>5, <2>6, <2>7, <2>8 DEF Stacked
<1>8. Relied(h)'
  <2>1. ASSUME NEW x \in Ops, phase'[x] = "pre"
        PROVE  x # t /\ phase[x] = "pre" /\ OnStack(x) /\ left'[x] = left[x] /\ at'[x] = at[x]
    BY <1>1, <1>3, <2>1 DEF OnStack
  <2>2. ASSUME NEW x \in Ops, phase'[x] = "pre", NEW d \in pre'[x]
        PROVE  d \in left'[x] \/ d = at'[x] \/ Met(h, x, d)'
    <3>1. d \in Ops /\ d \in pre[x]
      BY <2>2 DEF OpsInv, OpsTypeOK
    <3>2. CASE Met(h, x, d)
      <4>1. d # t
        <5>1. ~(h[t] <= h[x])
          BY <1>5, <1>6, <2>1, <2>2
        <5>2. state[t] # "SUCCESS" /\ phase[t] # "stuck"
          BY <1>4 DEF OpsInv, Phases, OnStack, Final
        <5> QED
          BY <3>2, <5>1, <5>2 DEF Met
      <4>2. Met(h, x, d)'
        BY <1>3, <1>4, <3>1, <3>2, <4>1 DEF Met
      <4> QED
        BY <4>2
    <3> QED
      BY <2>1, <2>2, <3>1, <3>2 DEF Relied
  <2>3. ASSUME NEW x \in Ops, phase'[x] = "pre", NEW d \in Ops, d = at'[x]
        PROVE  phase'[d] # "none"
    <3>1. phase[d] # "none"
      BY <2>1, <2>3 DEF Relied
    <3> QED
      BY <1>3, <3>1
  <2> QED
    BY <2>2, <2>3 DEF Relied
<1>9. Seen'
  <2>1. \A x \in Ops : phase'[x] = "done" => state'[x] \in Final
    BY <1>3 DEF Seen
  <2>2. \A x \in Ops : phase'[x] = "none" => at'[x] = None
    BY <1>1, <1>3 DEF Seen
  <2> QED
    BY <2>1, <2>2 DEF Seen
<1> QED
  BY <1>7, <1>8, <1>9 DEF DInv

\* The stack stays as it is, its top goes on.
LEMMA Staying ==
  ASSUME OpsInv, Seen, NEW h \in [Ops -> Nat], Stacked(h), Relied(h),
         NEW t \in Ops, t = top, UNCHANGED <<pre, caller, top>>,
         phase'[t] \in {"pre", "op", "post"}, state'[t] \notin Final,
         \A x \in Ops \ {t} : /\ phase'[x] = phase[x] /\ state'[x] = state[x]
                              /\ left'[x] = left[x] /\ at'[x] = at[x],
         at' \in [Ops -> Ops \cup {None}],
         phase'[t] = "pre" =>
           /\ \A d \in pre[t] : d \in left'[t] \/ d = at'[t] \/ Met(h, t, d)
           /\ \A d \in Ops : d = at'[t] => phase[d] # "none"
  PROVE  DInv'
<1> USE Kinds
<1>1. OnStack(t) /\ \A x \in Ops : OnStack(x)' <=> OnStack(x)
  BY DEF OnStack, Stacked
<1>2. state[t] \notin Final /\ phase[t] # "stuck"
  BY <1>1 DEF OpsInv, Phases, OnStack
<1>3. Stacked(h)'
  <2>1. top' = None => \A x \in Ops : ~OnStack(x)'
    BY <1>1 DEF Stacked
  <2>2. \A x \in Ops : x = top' => OnStack(x)'
    BY <1>1
  <2>3. \A x, y \in Ops : OnStack(x)' /\ y = top' => h[x] <= h[y]
    BY <1>1 DEF Stacked
  <2>4. \A x \in Ops : OnStack(x)' => 1 <= h[x] /\ (caller'[x] = None => h[x] = 1)
    BY <1>1 DEF Stacked
  <2>5. \A x, y \in Ops : OnStack(x)' /\ y = caller'[x] => OnStack(y)' /\ h[x] = h[y] + 1
    BY <1>1 DEF Stacked
  <2>6. \A x, y \in Ops : OnStack(x)' /\ OnStack(y)' /\ h[x] = h[y] => x = y
    BY <1>1 DEF Stacked
  <2> QED
    BY <2>1, <2>2, <2>3, <2>4, <2>5, <2>6 DEF Stacked
<1>4. ASSUME NEW x \in Ops, NEW d \in Ops, Met(h, x, d) PROVE Met(h, x, d)'
  BY <1>1, <1>2, <1>4 DEF Met, Final
<1>5. Relied(h)'
  <2>1. ASSUME NEW x \in Ops, phase'[x] = "pre", NEW d \in pre'[x]
        PROVE  d \in left'[x] \/ d = at'[x] \/ Met(h, x, d)'
    <3>1. d \in Ops /\ d \in pre[x]
      BY <2>1 DEF OpsInv, OpsTypeOK
    <3>2. CASE x = t
      BY <1>4, <2>1, <3>1, <3>2
    <3>3. CASE x # t
      <4>1. d \in left[x] \/ d = at[x] \/ Met(h, x, d)
        BY <2>1, <3>1, <3>3 DEF Relied
      <4> QED
        BY <1>4, <3>1, <3>3, <4>1
    <3> QED
      BY <3>2, <3>3
  <2>2. ASSUME NEW x \in Ops, phase'[x] = "pre", NEW d \in Ops, d = at'[x]
        PROVE  phase'[d] # "none"
    <3>1. phase[d] # "none"
      BY <2>2 DEF Relied
    <3> QED
      BY <3>1
  <2> QED
    BY <2>1, <2>2 DEF Relied
<1>6. Seen'
  <2>1. \A x \in Ops : phase'[x] = "done" => state'[x] \in Final
    BY DEF Seen
  <2>2. \A x \in Ops : phase'[x] = "none" => at'[x] = None
    BY DEF Seen
  <2> QED
    BY <2>1, <2>2 DEF Seen
<1> QED
  BY <1>3, <1>5, <1>6 DEF DInv

\* An exception empties the stack.
LEMMA Emptying == ASSUME OpsInv, DInv, Throw PROVE DInv'
<1> USE Kinds
<1>1. PICK h \in [Ops -> Nat] : Stacked(h) /\ Relied(h)
  BY DEF DInv
<1>2. /\ top' = None /\ UNCHANGED <<state, at>>
      /\ \A x \in Ops : phase'[x] = IF OnStack(x) THEN "stuck" ELSE phase[x]
  BY DEF Throw
<1>3. \A x \in Ops : ~OnStack(x)' /\ phase'[x] # "pre"
  BY <1>2 DEF OnStack
<1>4. Stacked(h)'
  BY <1>2, <1>3 DEF Stacked
<1>5. Relied(h)'
  BY <1>3 DEF Relied
<1>6. Seen'
  BY <1>2 DEF Seen, DInv
<1> QED
  BY <1>4, <1>5, <1>6 DEF DInv

\* Nothing that DInv looks at changes.
LEMMA Apart == ASSUME DInv, UNCHANGED <<graph, state, frame>> PROVE DInv'
<1>1. PICK h \in [Ops -> Nat] : Stacked(h) /\ Relied(h)
  BY DEF DInv
<1>2. Stacked(h)' /\ Relied(h)' /\ Seen'
  BY <1>1 DEF Stacked, Relied, Met, OnStack, Seen, DInv, graph, frame
<1> QED
  BY <1>2 DEF DInv

LEMMA AskingStep == ASSUME OpsInv, DInv, NEW o \in Ops, Ask(o) PROVE DInv'
<1> USE Kinds
<1>1. PICK h \in [Ops -> Nat] : Stacked(h) /\ Relied(h)
  BY DEF DInv
<1>2. /\ state[o] = "PENDING" /\ Execute(o)
      /\ left' = [left EXCEPT ![o] = pre'[o]] /\ at' = at
  BY DEF Ask
<1>3. left'[o] = pre'[o] /\ \A x \in Ops \ {o} : left'[x] = left[x]
  BY <1>2 DEF OpsInv, OpsTypeOK
<1>4. Seen /\ at' \in [Ops -> Ops \cup {None}] /\ at'[o] = None
  BY <1>2 DEF DInv, Seen, OpsInv, Phases
<1> QED
  BY <1>1, <1>2, <1>3, <1>4, Pushing

LEMMA TurningStep == ASSUME OpsInv, DInv, Turn PROVE DInv'
<1> USE Kinds
<1>1. PICK h \in [Ops -> Nat] : Stacked(h) /\ Relied(h)
  BY DEF DInv
<1>2. PICK t \in Ops : t = top
  BY DEF Turn, OpsInv, OpsTypeOK
<1>3. PICK d \in left[t] :
        /\ at' = [at EXCEPT ![t] = d]
        /\ IF state[d] = "PENDING"
           THEN /\ Execute(d)
                /\ left' = [left EXCEPT ![t] = @ \ {d}, ![d] = pre'[d]]
           ELSE /\ left' = [left EXCEPT ![t] = @ \ {d}]
                /\ UNCHANGED <<graph, state, phase, caller, top, verdict, operations, ran>>
  BY <1>2 DEF Turn
<1>4. d \in Ops /\ at[t] = None /\ phase[t] \in {"pre", "post"}
  BY <1>2 DEF Turn, OpsInv, OpsTypeOK
<1>5. Seen /\ at' \in [Ops -> Ops \cup {None}] /\ at'[t] = d /\ \A x \in Ops \ {t} : at'[x] = at[x]
  BY <1>3, <1>4 DEF DInv, Seen
<1>6. CASE state[d] = "PENDING"
  <2>1. phase[d] = "none" /\ at[d] = None /\ d # t
    BY <1>4, <1>5, <1>6 DEF OpsInv, Phases, Seen
  <2>2. /\ left'[d] = pre'[d] /\ left'[t] = left[t] \ {d}
        /\ \A x \in Ops \ {t, d} : left'[x] = left[x]
    BY <1>3, <1>4, <1>6, <2>1 DEF OpsInv, OpsTypeOK
  <2>3. \A x \in Ops \ {d} : /\ at'[x] = at[x] \/ (at[x] = None /\ at'[x] = d /\ phase[x] # "none")
                             /\ \A e \in left[x] : e \in left'[x] \/ e = at'[x]
    BY <1>4, <1>5, <2>2
  <2> QED
    BY <1>1, <1>3, <1>4, <1>5, <1>6, <2>1, <2>2, <2>3, Pushing
<1>7. CASE state[d] # "PENDING"
  <2>1. left'[t] = left[t] \ {d} /\ \A x \in Ops \ {t} : left'[x] = left[x]
    BY <1>3, <1>4, <1>7 DEF OpsInv, OpsTypeOK
  <2>2. UNCHANGED <<pre, caller, top, phase, state>>
    BY <1>3, <1>7 DEF graph
  <2>3. state[t] \notin Final
    BY <1>4 DEF OpsInv, Phases
  <2>4. ASSUME phase[t] = "pre" PROVE phase[d] # "none"
    <3>1. d \notin Prefetches
      BY <1>4, <2>4 DEF OpsInv, Owned
    <3> QED
      BY <1>4, <1>7, <3>1 DEF OpsInv, Phases
  <2>5. ASSUME phase[t] = "pre", NEW e \in pre[t]
        PROVE  e \in left'[t] \/ e = at'[t] \/ Met(h, t, e)
    <3>1. e \in Ops
      BY DEF OpsInv, OpsTypeOK
    <3>2. e \in left[t] \/ Met(h, t, e)
      BY <1>1, <1>4, <2>5, <3>1 DEF Relied
    <3> QED
      BY <1>5, <2>1, <3>2
  <2> QED
    BY <1>1, <1>2, <1>4, <1>5, <2>1, <2>2, <2>3, <2>4, <2>5, Staying
<1> QED
  BY <1>6, <1>7

LEMMA LookingStep == ASSUME OpsInv, DInv, Look PROVE DInv'
<1> USE Kinds
<1>1. PICK h \in [Ops -> Nat] : Stacked(h) /\ Relied(h)
  BY DEF DInv
<1>2. PICK t \in Ops : t = top
  BY DEF Look, OpsInv, OpsTypeOK
<1>3. /\ phase[t] \in {"pre", "post"} /\ at[t] # None
      /\ at' = [at EXCEPT ![t] = None] /\ UNCHANGED <<pre, caller>>
  BY <1>2 DEF Look, graph
<1>4. PICK d \in Ops : d = at[t]
  BY <1>3 DEF DInv, Seen
<1>5. Seen /\ at' \in [Ops -> Ops \cup {None}] /\ at'[t] = None /\ \A x \in Ops \ {t} : at'[x] = at[x]
  BY <1>3 DEF DInv, Seen
<1>6. CASE state[d] = "FAILURE"
  <2>1. Leave(t, "FAILURE") /\ left' = [left EXCEPT ![t] = {}]
    BY <1>2, <1>4, <1>6 DEF Look
  <2>2. \A x \in Ops \ {t} : left'[x] = left[x]
    BY <2>1 DEF OpsInv, OpsTypeOK
  <2>3. "FAILURE" \in Final
    BY DEF Final
  <2> QED
    BY <1>1, <1>2, <1>3, <1>5, <2>1, <2>2, <2>3, Popping
<1>7. CASE state[d] # "FAILURE"
  <2>1. UNCHANGED <<state, phase, top, left>>
    BY <1>2, <1>4, <1>7 DEF Look
  <2>2. state[t] \notin Final
    BY <1>3 DEF OpsInv, Phases
  <2>3. ASSUME phase[t] = "pre" PROVE Met(h, t, d)
    <3>1. phase[d] # "none"
      BY <1>1, <1>4, <2>3 DEF Relied
    <3>2. phase[d] = "done" => state[d] = "SUCCESS"
      BY <1>5, <1>7 DEF Seen, Final
    <3>3. OnStack(d) => h[d] <= h[t]
      BY <1>1, <1>2 DEF Stacked
    <3>4. phase[d] \in {"none", "pre", "op", "post", "done", "stuck"}
      BY DEF OpsInv, OpsTypeOK
    <3> QED
      BY <3>1, <3>2, <3>3, <3>4 DEF Met, OnStack
  <2>4. ASSUME phase[t] = "pre", NEW e \in pre[t]
        PROVE  e \in left'[t] \/ e = at'[t] \/ Met(h, t, e)
    <3>1. e \in Ops
      BY DEF OpsInv, OpsTypeOK
    <3>2. e \in left[t] \/ e = d \/ Met(h, t, e)
      BY <1>1, <1>4, <2>4, <3>1 DEF Relied
    <3> QED
      BY <2>1, <2>3, <2>4, <3>2
  <2> QED
    BY <1>1, <1>2, <1>3, <1>5, <2>1, <2>2, <2>4, Staying
<1> QED
  BY <1>6, <1>7

\* op() is entered and returns.
LEMMA GoingOn ==
  ASSUME OpsInv, DInv, NEW t \in Ops, t = top, UNCHANGED <<graph, at, caller, top>>,
         NEW p \in {"op", "post"}, phase' = [phase EXCEPT ![t] = p],
         state'[t] \notin Final,
         \A x \in Ops \ {t} : state'[x] = state[x] /\ left'[x] = left[x]
  PROVE  DInv'
<1>1. PICK h \in [Ops -> Nat] : Stacked(h) /\ Relied(h)
  BY DEF DInv
<1>2. phase'[t] = p /\ \A x \in Ops \ {t} : phase'[x] = phase[x]
  BY DEF OpsInv, OpsTypeOK
<1>3. Seen /\ at' \in [Ops -> Ops \cup {None}] /\ UNCHANGED <<pre, caller, top, at>>
  BY DEF DInv, Seen, graph
<1> QED
  BY <1>1, <1>2, <1>3, Staying

LEMMA EnteringStep == ASSUME OpsInv, DInv, Enter PROVE DInv'
<1>1. PICK t \in Ops : t = top
  BY Kinds DEF Enter, Through, OpsInv, OpsTypeOK
<1>2. /\ phase[t] = "pre" /\ phase' = [phase EXCEPT ![t] = "op"]
      /\ UNCHANGED <<graph, at, caller, top>> /\ UNCHANGED <<state, left>>
  BY <1>1 DEF Enter, Through
<1>3. state'[t] \notin Final
  BY <1>2 DEF OpsInv, Phases
<1> QED
  BY <1>1, <1>2, <1>3, GoingOn

LEMMA ReturningStep == ASSUME OpsInv, DInv, NEW v \in BOOLEAN, top \in Ops, Returns(top, v) PROVE DInv'
<1>1. PICK t \in Ops : t = top
  OBVIOUS
<1>2. /\ phase' = [phase EXCEPT ![t] = "post"] /\ state' = [state EXCEPT ![t] = "POSTPROCESSING"]
      /\ left' = [left EXCEPT ![t] = post[t]] /\ UNCHANGED <<graph, at, caller, top>>
  BY <1>1 DEF Returns
<1>3. /\ state'[t] \notin Final
      /\ \A x \in Ops \ {t} : state'[x] = state[x] /\ left'[x] = left[x]
  BY <1>2 DEF OpsInv, OpsTypeOK, Final
<1> QED
  BY <1>1, <1>2, <1>3, GoingOn

LEMMA FinishingStep == ASSUME OpsInv, DInv, Finish PROVE DInv'
<1>1. PICK h \in [Ops -> Nat] : Stacked(h) /\ Relied(h)
  BY DEF DInv
<1>2. top \in Ops /\ UNCHANGED <<pre, caller, left, at>>
  BY Kinds DEF Finish, Through, OpsInv, OpsTypeOK, graph
<1>3. PICK s \in Final : Leave(top, s)
  BY DEF Finish, Final
<1>4. Seen /\ at' \in [Ops -> Ops \cup {None}]
  BY <1>2 DEF DInv, Seen
<1> QED
  BY <1>1, <1>2, <1>3, <1>4, Popping

LEMMA ReliedInit == OpsInit => DInv
<1> SUFFICES ASSUME OpsInit PROVE DInv
  OBVIOUS
<1>1. PICK h \in [Ops -> Nat] : TRUE
  <2>1. [x \in Ops |-> 0] \in [Ops -> Nat]
    OBVIOUS
  <2> QED
    BY <2>1
<1>2. \A x \in Ops : phase[x] = "none" /\ at[x] = None
  BY DEF OpsInit
<1>3. top = None /\ at \in [Ops -> Ops \cup {None}]
  BY DEF OpsInit
<1>4. Stacked(h)
  BY Kinds, <1>2, <1>3 DEF Stacked, OnStack
<1>5. Relied(h) /\ Seen
  BY <1>2, <1>3 DEF Relied, Seen
<1> QED
  BY <1>4, <1>5 DEF DInv

LEMMA ReliedStep == OpsInv /\ DInv /\ [OpsNext]_opsVars => DInv'
<1> SUFFICES ASSUME OpsInv, DInv, [OpsNext]_opsVars PROVE DInv'
  OBVIOUS
<1> USE Kinds
<1>1. CASE Call
  BY <1>1, AskingStep DEF Call
<1>2. CASE Inquire
  BY <1>2, AskingStep DEF Inquire
<1>3. CASE Turn
  BY <1>3, TurningStep
<1>4. CASE Look
  BY <1>4, LookingStep
<1>5. CASE Enter
  BY <1>5, EnteringStep
<1>6. CASE Acquire
  BY <1>6, Apart DEF Acquire
<1>7. CASE AcquireFails
  BY <1>7, Emptying DEF AcquireFails
<1>8. CASE StatementDone
  <2>1. top \in Ops
    BY <1>8 DEF StatementDone, InOp
  <2>2. (\E v \in BOOLEAN : Returns(top, v)) \/ Throw
    BY <1>8 DEF StatementDone
  <2> QED
    BY <2>1, <2>2, ReturningStep, Emptying
<1>9. CASE PrefetchDone
  <2>1. top \in Ops
    BY <1>9 DEF PrefetchDone, InOp
  <2>2. Returns(top, TRUE) \/ Throw
    BY <1>9 DEF PrefetchDone
  <2> QED
    BY <2>1, <2>2, ReturningStep, Emptying
<1>10. CASE Finish
  BY <1>10, FinishingStep
<1>11. CASE OtherThread
  BY <1>11, Apart DEF OtherThread
<1>12. CASE UNCHANGED opsVars
  BY <1>12, Apart DEF opsVars
<1> QED
  BY <1>1, <1>2, <1>3, <1>4, <1>5, <1>6, <1>7, <1>8, <1>9, <1>10, <1>11, <1>12 DEF OpsNext, Thread

\* When op() is called, what the operation depends on has succeeded, is below
\* it on the stack or was left by an exception (processDependencies()).
THEOREM DependenciesComeFirst == OpsSpec => DependenciesMet
<1>1. OpsInv /\ DInv /\ [OpsNext]_opsVars =>
        [\A o \in Ops : ran'[o] # ran[o] =>
           \A d \in pre[o] : state[d] = "SUCCESS" \/ OnStack(d) \/ phase[d] = "stuck"]_opsVars
  <2> SUFFICES ASSUME OpsInv, DInv, [OpsNext]_opsVars, NEW o \in Ops, ran'[o] # ran[o], NEW d \in pre[o]
               PROVE  state[d] = "SUCCESS" \/ OnStack(d) \/ phase[d] = "stuck"
    OBVIOUS
  <2>1. Enter
    <3>1. CASE Call
      BY <3>1 DEF Call, Ask, Execute
    <3>2. CASE Inquire
      BY <3>2 DEF Inquire, Ask, Execute
    <3>3. CASE Turn
      BY <3>3 DEF Turn, Execute
    <3>4. CASE Acquire \/ OtherThread \/ AcquireFails
      BY <3>4 DEF Acquire, OtherThread, AcquireFails, Throw
    <3>5. CASE Look \/ Finish
      BY <3>5 DEF Look, Finish
    <3>6. CASE StatementDone \/ PrefetchDone
      BY <3>6 DEF StatementDone, PrefetchDone, Returns, Throw
    <3>7. CASE UNCHANGED opsVars
      BY <3>7 DEF opsVars
    <3> QED
      BY <3>1, <3>2, <3>3, <3>4, <3>5, <3>6, <3>7 DEF OpsNext, Thread
  <2>2. o = top /\ phase[o] = "pre" /\ left[o] = {} /\ at[o] = None
    <3>1. ran' = [ran EXCEPT ![top] = @ + 1]
      BY <2>1 DEF Enter
    <3> QED
      BY <2>1, <3>1 DEF Enter, Through, OpsInv, OpsTypeOK
  <2>3. PICK h \in [Ops -> Nat] : Relied(h)
    BY DEF DInv
  <2>4. d \in Ops
    BY DEF OpsInv, OpsTypeOK
  <2> QED
    BY Kinds, <2>2, <2>3, <2>4 DEF Relied, Met
<1>2. OpsInv /\ DInv /\ [OpsNext]_opsVars => OpsInv' /\ DInv'
  BY OpsInductive, ReliedStep
<1> QED
  BY Initially, ReliedInit, <1>1, <1>2, PTL DEF OpsSpec, DependenciesMet

-----------------------------------------------------------------------------
(* SqlEntity.                                                              *)

\* An object whose node was not yet made or fetched has nothing.
Unused == \A e \in Objects : node[e] # "node" =>
  ~created[e] /\ map[e] = Nothing /\ dirty[e] = Nothing /\ inserted[e] = {}

\* Keys were given by the table, which gives each once.
Known == \A e \in Objects :
  /\ key[e] < nextId /\ (created[e] => key[e] # NoKey)
  /\ \A id \in inserted[e] : id < nextId

\* An object that never had a row has yet to save all that it shows.
Unsaved == \A e \in Objects : ~created[e] /\ missed[e] = 0 => dirty[e] = map[e]

\* What is shown is what is stored, or was left out by the insert after a missed update.
Shown == \A e \in Objects, f \in Fields :
  created[e] /\ key[e] \in Present
    /\ map[e][f] # Null /\ dirty[e][f] = Null /\ f \notin overtaken[e]
  => rows[key[e]][f] = map[e][f] \/ (missed[e] > 0 /\ rows[key[e]][f] = Default)

\* The rows an object has inserted but for the one it has.
Spare(e) == IF created[e] THEN inserted[e] \ {key[e]} ELSE inserted[e]
Counted  == \A e \in Objects : Cardinality(Spare(e)) <= unanswered[e] + missed[e]

IInv == TypeOK /\ Unused /\ Known /\ Unsaved /\ Shown /\ Counted

-----------------------------------------------------------------------------
(* Rows and counts.                                                        *)

LEMMA RowFits ==
  ASSUME NEW row \in Rows
  PROVE  row \in [Fields -> Values \cup {Null}] /\ row # NoRow
BY SqlAssumption DEF SqlAssumption, Rows

LEMMA NothingFits == Nothing \in [Fields -> Values \cup {Null}]
BY DEF Nothing

LEMMA DefaultRow == [f \in Fields |-> Default] \in Rows
BY SqlAssumption DEF SqlAssumption, Rows

\* What the statements make of a row.
LEMMA StreamedRow ==
  ASSUME TypeOK, NEW e \in Objects, NEW row \in Rows
  PROVE  /\ Streamed(e, row) \in Rows
         /\ \A f \in Fields : Streamed(e, row)[f] = IF dirty[e][f] # Null THEN dirty[e][f] ELSE row[f]
<1>1. dirty[e] \in [Fields -> Values \cup {Null}]
  BY DEF TypeOK
<1>2. Streamed(e, row) = [f \in Fields |-> IF dirty[e][f] # Null THEN dirty[e][f] ELSE row[f]]
  BY DEF Streamed, Dirty
<1>3. QED
  BY <1>1, <1>2 DEF Rows

LEMMA RowsAreTyped ==
  ASSUME TypeOK, NEW id \in Present
  PROVE  id \in Ids /\ rows[id] \in Rows /\ id < nextId /\ id # NoKey
<1>1. id \in Ids /\ rows[id] \in Rows
  BY DEF TypeOK, Present
<1>2. ~(id >= nextId)
  BY <1>1 DEF TypeOK, Present
<1>3. QED
  BY <1>1, <1>2, SqlAssumption DEF SqlAssumption, TypeOK, Ids, NoKey

\* The inserted rows can be counted, and one more or less counts one.
LEMMA Counting ==
  ASSUME NEW S \in SUBSET Ids, NEW id
  PROVE  /\ Cardinality(S) \in Nat
         /\ Cardinality(S \cup {id}) <= Cardinality(S) + 1
         /\ Cardinality(S \ {id}) <= Cardinality(S)
         /\ Cardinality(S) <= Cardinality(S \ {id}) + 1
<1>1. IsFiniteSet(Ids)
  BY SqlAssumption, FS_Interval DEF SqlAssumption, Ids
<1>2. IsFiniteSet(S)
  BY <1>1, FS_Subset
<1>3. Cardinality(S) \in Nat /\ Cardinality(S \ {id}) \in Nat
  BY <1>2, FS_CardinalityType, FS_Subset
<1>4. Cardinality(S \cup {id}) = IF id \in S THEN Cardinality(S) ELSE Cardinality(S) + 1
  BY <1>2, FS_AddElement
<1>5. Cardinality(S \ {id}) = IF id \in S THEN Cardinality(S) - 1 ELSE Cardinality(S)
  BY <1>2, FS_RemoveElement
<1>6. QED
  BY <1>3, <1>4, <1>5

-----------------------------------------------------------------------------
(* The actions.                                                            *)

LEMMA Begins == Init => IInv
<1> SUFFICES ASSUME Init PROVE IInv
  OBVIOUS
<1>1. TypeOK
  BY NothingFits, SqlAssumption DEF SqlAssumption, Init, TypeOK, Ids, NoKey, Rows, Nothing
<1>2. Unused /\ Known /\ Unsaved /\ Shown
  BY DEF Init, Unused, Known, Unsaved, Shown, NoKey
<1>3. Counted
  BY FS_EmptySet DEF Init, Counted, Spare
<1>4. QED
  BY <1>1, <1>2, <1>3 DEF IInv

LEMMA Creates ==
  ASSUME IInv, NEW e \in Objects, Create(e)
  PROVE  IInv'
<1>1. /\ node' = [node EXCEPT ![e] = "node"]
      /\ UNCHANGED <<rows, nextId, key, created, map, dirty, faults, inserted, unanswered, missed, overtaken>>
  BY DEF Create, table, history
<1>2. TypeOK'
  BY <1>1 DEF IInv, TypeOK, Ids, Rows
<1>3. Unused' /\ Known' /\ Unsaved' /\ Counted'
  BY <1>1 DEF IInv, TypeOK, Unused, Known, Unsaved, Counted, Spare
<1>4. Shown'
  BY <1>1 DEF IInv, Shown, Present, Ids
<1>5. QED
  BY <1>2, <1>3, <1>4 DEF IInv

LEMMA Proxies ==
  ASSUME IInv, NEW e \in Objects, Proxy(e)
  PROVE  IInv'
<1>1. PICK id \in NoKey..nextId - 1 :
        /\ node[e] = "none" /\ node' = [node EXCEPT ![e] = "proxy"]
        /\ key' = [key EXCEPT ![e] = id]
        /\ UNCHANGED <<rows, nextId, created, map, dirty, faults, inserted, unanswered, missed, overtaken>>
  BY DEF Proxy, table, history
<1>2. id \in Ids \cup {NoKey} /\ id < nextId
  BY SqlAssumption DEF SqlAssumption, IInv, TypeOK, Ids, NoKey
<1>3. ~created[e] /\ inserted[e] = {}
  BY <1>1 DEF IInv, Unused
<1>4. TypeOK'
  BY <1>1, <1>2 DEF IInv, TypeOK, Ids, Rows
<1>5. Unused' /\ Unsaved'
  BY <1>1, <1>3 DEF IInv, TypeOK, Unused, Unsaved
<1>6. Known'
  BY <1>1, <1>2, <1>3 DEF IInv, TypeOK, Known
<1>7. Counted'
  BY <1>1, <1>3 DEF IInv, TypeOK, Counted, Spare
<1>8. Shown'
  BY <1>1, <1>3 DEF IInv, TypeOK, Shown, Present, Ids
<1>9. QED
  BY <1>4, <1>5, <1>6, <1>7, <1>8 DEF IInv

\* get(), and the first use of a proxy.
LEMMA Wraps ==
  ASSUME IInv, NEW e \in Objects, node[e] # "node", NEW id \in Present, Wrap(e, id)
  PROVE  IInv'
<1>1. /\ node' = [node EXCEPT ![e] = "node"] /\ key' = [key EXCEPT ![e] = id]
      /\ created' = [created EXCEPT ![e] = TRUE] /\ map' = [map EXCEPT ![e] = rows[id]]
      /\ overtaken' = [overtaken EXCEPT ![e] = {}]
      /\ UNCHANGED <<rows, nextId, dirty, faults, inserted, unanswered, missed>>
  BY DEF Wrap, table
<1>2. id \in Ids /\ rows[id] \in Rows /\ id < nextId /\ id # NoKey
  BY RowsAreTyped DEF IInv
<1>3. rows[id] \in [Fields -> Values \cup {Null}]
  BY <1>2, RowFits
<1>4. ~created[e] /\ dirty[e] = Nothing /\ inserted[e] = {}
  BY DEF IInv, Unused
<1>5. /\ node'[e] = "node" /\ key'[e] = id /\ created'[e] /\ map'[e] = rows[id] /\ overtaken'[e] = {}
      /\ \A o \in Objects \ {e} :
           /\ node'[o] = node[o] /\ key'[o] = key[o] /\ created'[o] = created[o]
           /\ map'[o] = map[o] /\ overtaken'[o] = overtaken[o]
  BY <1>1 DEF IInv, TypeOK
<1>6. TypeOK'
  <2>1. \A o \in Objects, f \in Fields : dirty'[o][f] \in {Null, map'[o][f]}
    BY <1>1, <1>4, <1>5 DEF IInv, TypeOK, Nothing
  <2>2. map' \in [Objects -> [Fields -> Values \cup {Null}]]
    BY <1>1, <1>3 DEF IInv, TypeOK
  <2>3. /\ node' \in [Objects -> {"none", "proxy", "node"}] /\ key' \in [Objects -> Ids \cup {NoKey}]
        /\ created' \in [Objects -> BOOLEAN] /\ overtaken' \in [Objects -> SUBSET Fields]
    BY <1>1, <1>2 DEF IInv, TypeOK
  <2>4. QED
    BY <1>1, <2>1, <2>2, <2>3 DEF IInv, TypeOK, Ids, Rows
<1>7. Unused' /\ Unsaved'
  BY <1>1, <1>5 DEF IInv, Unused, Unsaved, Nothing
<1>8. Known'
  BY <1>1, <1>2, <1>4, <1>5 DEF IInv, Known, NoKey
<1>9. Shown'
  BY <1>1, <1>5 DEF IInv, Shown, Present, Ids
<1>10. Counted'
  <2>1. Spare(e) = {} /\ Spare(e)' = {} /\ \A o \in Objects \ {e} : Spare(o)' = Spare(o)
    BY <1>1, <1>4, <1>5 DEF Spare
  <2>2. QED
    BY <1>1, <2>1 DEF IInv, Counted
<1>11. QED
  BY <1>6, <1>7, <1>8, <1>9, <1>10 DEF IInv

LEMMA Assigns ==
  ASSUME IInv, NEW e \in Objects, NEW f \in Fields, NEW v \in Values \cup {Null}, Assign(e, f, v)
  PROVE  IInv'
<1>1. /\ node[e] = "node"
      /\ map' = [map EXCEPT ![e][f] = v] /\ dirty' = [dirty EXCEPT ![e][f] = v]
      /\ UNCHANGED <<rows, nextId, node, key, created, faults, inserted, unanswered, missed, overtaken>>
  BY DEF Assign, table, history
<1>2. map' \in [Objects -> [Fields -> Values \cup {Null}]] /\ dirty' \in [Objects -> [Fields -> Values \cup {Null}]]
  BY <1>1 DEF IInv, TypeOK
<1>3. /\ map'[e] = [map[e] EXCEPT ![f] = v] /\ dirty'[e] = [dirty[e] EXCEPT ![f] = v]
      /\ map'[e][f] = v /\ dirty'[e][f] = v
      /\ \A g \in Fields \ {f} : map'[e][g] = map[e][g] /\ dirty'[e][g] = dirty[e][g]
      /\ \A o \in Objects \ {e} : map'[o] = map[o] /\ dirty'[o] = dirty[o]
  BY <1>1 DEF IInv, TypeOK
<1>4. TypeOK'
  <2>1. \A o \in Objects, g \in Fields : dirty'[o][g] \in {Null, map'[o][g]}
    BY <1>3 DEF IInv, TypeOK
  <2>2. QED
    BY <1>1, <1>2, <2>1 DEF IInv, TypeOK, Ids, Rows
<1>5. Unused' /\ Known' /\ Counted'
  BY <1>1, <1>3 DEF IInv, Unused, Known, Counted, Spare, Nothing
<1>6. Unsaved'
  BY <1>1, <1>3 DEF IInv, Unsaved
<1>7. Shown'
  BY <1>1, <1>3 DEF IInv, Shown, Present, Ids
<1>8. QED
  BY <1>4, <1>5, <1>6, <1>7 DEF IInv

\* A save that inserts: the row and the count, whether or not the answer comes.
LEMMA Inserts ==
  ASSUME IInv, NEW e \in Objects, Insert(e)
  PROVE  IInv'
<1> DEFINE new == Streamed(e, [f \in Fields |-> Default])
<1>1. /\ node[e] = "node" /\ ~created[e] /\ nextId \in Ids
      /\ rows' = [rows EXCEPT ![nextId] = new] /\ nextId' = nextId + 1
      /\ inserted' = [inserted EXCEPT ![e] = @ \cup {nextId}]
      /\ UNCHANGED <<node, map, missed>>
  BY DEF Insert, Inserted
<1>2. \/ /\ key' = [key EXCEPT ![e] = nextId] /\ created' = [created EXCEPT ![e] = TRUE]
         /\ dirty' = [dirty EXCEPT ![e] = Nothing] /\ overtaken' = [overtaken EXCEPT ![e] = {}]
         /\ UNCHANGED <<faults, unanswered>>
      \/ /\ faults < MaxFaults /\ faults' = faults + 1
         /\ unanswered' = [unanswered EXCEPT ![e] = @ + 1]
         /\ UNCHANGED <<key, created, dirty, overtaken>>
  BY DEF Insert, Saved, Fault
<1>3. new \in Rows /\ new # NoRow
      /\ \A f \in Fields : new[f] = IF dirty[e][f] # Null THEN dirty[e][f] ELSE Default
  BY StreamedRow, DefaultRow, RowFits DEF IInv
<1>4. nextId \in Nat /\ nextId # NoKey /\ \A id \in Ids : id # nextId => rows'[id] = rows[id]
  BY <1>1, SqlAssumption DEF SqlAssumption, IInv, TypeOK, Ids, NoKey
<1>5. rows'[nextId] = new
  BY <1>1 DEF IInv, TypeOK
<1>6. inserted'[e] = inserted[e] \cup {nextId} /\ \A o \in Objects \ {e} : inserted'[o] = inserted[o]
  BY <1>1 DEF IInv, TypeOK
<1>7. /\ \A o \in Objects \ {e} :
           /\ key'[o] = key[o] /\ created'[o] = created[o] /\ dirty'[o] = dirty[o]
           /\ overtaken'[o] = overtaken[o] /\ unanswered'[o] = unanswered[o]
      /\ \/ key'[e] = nextId /\ created'[e] /\ dirty'[e] = Nothing /\ unanswered'[e] = unanswered[e]
         \/ /\ key'[e] = key[e] /\ ~created'[e] /\ dirty'[e] = dirty[e]
            /\ unanswered'[e] = unanswered[e] + 1
  BY <1>1, <1>2 DEF IInv, TypeOK
<1>8. TypeOK'
  <2>1. rows' \in [Ids -> Rows \cup {NoRow}] /\ \A id \in Ids : id >= nextId' => rows'[id] = NoRow
    BY <1>1, <1>3, <1>4 DEF IInv, TypeOK, Ids
  <2>2. nextId' \in 1..MaxId + 1
    BY <1>1, SqlAssumption DEF SqlAssumption, Ids
  <2>3. key' \in [Objects -> Ids \cup {NoKey}] /\ created' \in [Objects -> BOOLEAN]
    BY <1>1, <1>2 DEF IInv, TypeOK
  <2>4. dirty' \in [Objects -> [Fields -> Values \cup {Null}]]
    BY <1>2, NothingFits DEF IInv, TypeOK
  <2>5. \A o \in Objects, f \in Fields : dirty'[o][f] \in {Null, map'[o][f]}
    <3>1. \A o \in Objects : dirty'[o] = dirty[o] \/ dirty'[o] = Nothing
      BY <1>7
    <3>2. \A f \in Fields : Nothing[f] = Null
      BY DEF Nothing
    <3>3. QED
      BY <1>1, <3>1, <3>2 DEF IInv, TypeOK
  <2>6. faults' \in 0..MaxFaults /\ unanswered' \in [Objects -> Nat]
    <3>1. faults' \in 0..MaxFaults
      BY <1>2, SqlAssumption DEF SqlAssumption, IInv, TypeOK
    <3>2. unanswered \in [Objects -> Nat] /\ unanswered[e] + 1 \in Nat
      BY DEF IInv, TypeOK
    <3>3. unanswered' \in [Objects -> Nat]
      BY <1>2, <3>2
    <3>4. QED
      BY <3>1, <3>3
  <2>7. inserted' \in [Objects -> SUBSET Ids] /\ overtaken' \in [Objects -> SUBSET Fields]
    BY <1>1, <1>2 DEF IInv, TypeOK
  <2>8. /\ node' \in [Objects -> {"none", "proxy", "node"}]
        /\ map' \in [Objects -> [Fields -> Values \cup {Null}]] /\ missed' \in [Objects -> Nat]
    BY <1>1 DEF IInv, TypeOK
  <2>9. QED
    BY <2>1, <2>2, <2>3, <2>4, <2>5, <2>6, <2>7, <2>8 DEF TypeOK, Ids, Rows
<1>9. Unused'
  BY <1>1, <1>6, <1>7 DEF IInv, Unused, Nothing
<1>10. Known'
  BY <1>1, <1>4, <1>6, <1>7 DEF IInv, TypeOK, Known, NoKey, Ids
<1>11. Unsaved'
  BY <1>1, <1>7 DEF IInv, Unsaved
<1>12. Shown'
  <2> SUFFICES ASSUME NEW o \in Objects, NEW f \in Fields,
                      created'[o], key'[o] \in Present', map'[o][f] # Null,
                      dirty'[o][f] = Null, f \notin overtaken'[o]
               PROVE  \/ rows'[key'[o]][f] = map'[o][f]
                      \/ missed'[o] > 0 /\ rows'[key'[o]][f] = Default
    BY DEF Shown
  \* All that it showed was dirty, and is what the row now holds; after a missed
  \* update, what was not dirty is the default.
  <2>1. CASE o = e
    <3>1. key'[e] = nextId /\ map'[e] = map[e] /\ missed'[e] = missed[e] /\ missed[e] \in Nat
      BY <2>1, <1>1, <1>7 DEF IInv, TypeOK
    <3>2. dirty[e][f] = map[e][f] \/ (dirty[e][f] = Null /\ missed[e] > 0)
      BY <2>1, <3>1, <1>1 DEF IInv, TypeOK, Unsaved
    <3>3. CASE dirty[e][f] = map[e][f]
      BY <2>1, <3>1, <3>3, <1>3, <1>5
    <3>4. CASE dirty[e][f] = Null /\ missed[e] > 0
      BY <2>1, <3>1, <3>4, <1>3, <1>5
    <3>5. QED
      BY <3>2, <3>3, <3>4
  <2>2. CASE o # e
    <3>1. key[o] # nextId /\ key[o] \in Ids
      BY <2>2, <1>4, <1>7 DEF IInv, Known, TypeOK, Present, Ids
    <3>2. rows'[key[o]] = rows[key[o]] /\ key[o] \in Present
      BY <2>2, <3>1, <1>4, <1>7 DEF Present, Ids
    <3>3. QED
      BY <2>2, <3>2, <1>1, <1>7 DEF IInv, Shown
  <2>3. QED
    BY <2>1, <2>2
<1>13. Counted'
  <2>1. \A o \in Objects \ {e} : Spare(o)' = Spare(o)
    BY <1>6, <1>7 DEF Spare
  <2>2. Spare(e) = inserted[e] /\ nextId \notin inserted[e] /\ inserted[e] \in SUBSET Ids
    BY <1>1, <1>4 DEF IInv, TypeOK, Known, Spare
  <2>3. \/ Spare(e)' = inserted[e] /\ unanswered'[e] = unanswered[e]
        \/ Spare(e)' = inserted[e] \cup {nextId} /\ unanswered'[e] = unanswered[e] + 1
    <3>1. Spare(e)' = IF created'[e] THEN inserted'[e] \ {key'[e]} ELSE inserted'[e]
      BY DEF Spare
    <3>2. (inserted[e] \cup {nextId}) \ {nextId} = inserted[e]
      BY <2>2
    <3>3. CASE key'[e] = nextId /\ created'[e] /\ unanswered'[e] = unanswered[e]
      <4>1. Spare(e)' = (inserted[e] \cup {nextId}) \ {nextId}
        BY <1>6, <3>1, <3>3
      <4>2. QED
        BY <3>2, <3>3, <4>1, Zenon
    <3>4. CASE ~created'[e] /\ unanswered'[e] = unanswered[e] + 1
      BY <1>6, <3>1, <3>4, Zenon
    <3>5. QED
      BY <1>7, <3>3, <3>4, Zenon
  <2>4. Cardinality(inserted[e] \cup {nextId}) <= Cardinality(inserted[e]) + 1
        /\ Cardinality(inserted[e]) \in Nat /\ Cardinality(inserted[e] \cup {nextId}) \in Nat
    <3>1. inserted[e] \cup {nextId} \in SUBSET Ids
      BY <1>1, <2>2
    <3>2. QED
      BY <2>2, <3>1, Counting
  <2>5. Cardinality(Spare(e)') <= unanswered'[e] + missed'[e]
    <3>1. unanswered[e] \in Nat /\ missed[e] \in Nat /\ missed'[e] = missed[e]
      BY <1>1 DEF IInv, TypeOK
    <3>2. Cardinality(inserted[e]) <= unanswered[e] + missed[e]
      BY <2>2 DEF IInv, Counted
    <3>3. CASE Spare(e)' = inserted[e] /\ unanswered'[e] = unanswered[e]
      <4>1. Cardinality(Spare(e)') = Cardinality(inserted[e])
        BY <3>3, Zenon
      <4>2. QED
        BY <3>1, <3>2, <3>3, <4>1, SMT
    <3>4. CASE Spare(e)' = inserted[e] \cup {nextId} /\ unanswered'[e] = unanswered[e] + 1
      <4>1. Cardinality(Spare(e)') = Cardinality(inserted[e] \cup {nextId})
        BY <3>4, Zenon
      <4>2. QED
        BY <2>4, <3>1, <3>2, <3>4, <4>1, SMT
    <3>5. QED
      BY <2>3, <3>3, <3>4, Zenon
  <2>6. QED
    BY <1>1, <1>7, <2>1, <2>5 DEF IInv, Counted
<1>14. QED
  BY <1>8, <1>9, <1>10, <1>11, <1>12, <1>13 DEF IInv

\* A save that updates: it reaches the row or not, and is told so or not.
LEMMA Updates ==
  ASSUME IInv, NEW e \in Objects, Update(e)
  PROVE  IInv'
<1> DEFINE new == Streamed(e, rows[key[e]])
<1>1. /\ node[e] = "node" /\ created[e]
      /\ dirty' = [dirty EXCEPT ![e] = Nothing]
      /\ nextId' = nextId /\ UNCHANGED <<node, key, map, inserted, unanswered>>
  BY DEF Update, Saved, Written, table
<1>2. \/ created' = [created EXCEPT ![e] = TRUE] /\ missed' = missed
      \/ created' = [created EXCEPT ![e] = FALSE] /\ missed' = [missed EXCEPT ![e] = @ + 1]
  BY DEF Update, Saved
<1>3. faults' = faults \/ (faults < MaxFaults /\ faults' = faults + 1)
  <2>1. \/ UNCHANGED <<faults, missed>> \/ UNCHANGED <<table, faults, overtaken>> \/ Fault
    BY DEF Update
  <2>2. UNCHANGED faults \/ Fault
    BY <2>1
  <2>3. QED
    BY <2>2 DEF Fault
<1>4. \/ rows' = rows /\ overtaken' = overtaken /\ missed' # missed
      \/ /\ key[e] \in Present /\ rows' = [rows EXCEPT ![key[e]] = new]
         /\ overtaken' = [o \in Objects |->
              IF o # e /\ key[o] = key[e] THEN overtaken[o] \cup Dirty(e) ELSE overtaken[o]]
  <2>1. missed[e] + 1 # missed[e]
    BY DEF IInv, TypeOK
  <2>2. missed' = [missed EXCEPT ![e] = @ + 1] => missed' # missed
    BY <2>1 DEF IInv, TypeOK
  <2>3. QED
    BY <2>2 DEF Update, Written, table
<1>5. key[e] \in Present => /\ key[e] \in Ids /\ new \in Rows /\ new # NoRow
                            /\ \A f \in Fields : new[f] = IF dirty[e][f] # Null THEN dirty[e][f] ELSE rows[key[e]][f]
  BY StreamedRow, RowsAreTyped, RowFits DEF IInv
<1>6. /\ rows' \in [Ids -> Rows \cup {NoRow}] /\ Present' = Present
      /\ \A id \in Ids : id # key[e] => rows'[id] = rows[id]
  <2>1. CASE rows' = rows
    BY <2>1 DEF IInv, TypeOK, Present, Ids
  <2>2. CASE key[e] \in Present /\ rows' = [rows EXCEPT ![key[e]] = new]
    <3> HIDE DEF new
    <3>1. rows \in [Ids -> Rows \cup {NoRow}] /\ key[e] \in Ids /\ new \in Rows /\ new # NoRow
          /\ rows[key[e]] # NoRow
      BY <2>2, <1>5 DEF IInv, TypeOK, Present
    <3>2. /\ rows' \in [Ids -> Rows \cup {NoRow}]
          /\ \A id \in Ids : rows'[id] = IF id = key[e] THEN new ELSE rows[id]
      BY <2>2, <3>1
    <3>3. Present' = Present
      BY <3>1, <3>2 DEF Present, Ids
    <3>4. QED
      BY <3>2, <3>3
  <2>3. QED
    BY <1>4, <2>1, <2>2
<1>7. /\ \A o \in Objects \ {e} : created'[o] = created[o] /\ dirty'[o] = dirty[o] /\ missed'[o] = missed[o]
      /\ dirty'[e] = Nothing
      /\ \/ created'[e] /\ missed'[e] = missed[e]
         \/ ~created'[e] /\ missed'[e] = missed[e] + 1
      /\ \A o \in Objects : missed'[o] \in Nat
  <2>1. dirty \in [Objects -> [Fields -> Values \cup {Null}]] /\ created \in [Objects -> BOOLEAN]
        /\ missed \in [Objects -> Nat] /\ missed[e] + 1 \in Nat
    BY DEF IInv, TypeOK
  <2>2. dirty'[e] = Nothing /\ \A o \in Objects \ {e} : dirty'[o] = dirty[o]
    BY <1>1, <2>1
  <2>3. CASE created' = [created EXCEPT ![e] = TRUE] /\ missed' = missed
    BY <2>1, <2>2, <2>3
  <2>4. CASE created' = [created EXCEPT ![e] = FALSE] /\ missed' = [missed EXCEPT ![e] = @ + 1]
    BY <2>1, <2>2, <2>4
  <2>5. QED
    BY <1>2, <2>3, <2>4
<1>8. TypeOK'
  <2>1. \A id \in Ids : id >= nextId' => rows'[id] = NoRow
    BY <1>1, <1>6 DEF IInv, TypeOK, Present, Ids
  <2>2. created' \in [Objects -> BOOLEAN]
    BY <1>2 DEF IInv, TypeOK
  <2>3. missed' \in [Objects -> Nat]
    BY <1>2, <1>7 DEF IInv, TypeOK
  <2>4. dirty' \in [Objects -> [Fields -> Values \cup {Null}]]
    BY <1>1, NothingFits DEF IInv, TypeOK
  <2>5. \A o \in Objects, f \in Fields : dirty'[o][f] \in {Null, map'[o][f]}
    <3>1. \A f \in Fields : Nothing[f] = Null
      BY DEF Nothing
    <3>2. QED
      BY <1>1, <1>7, <3>1 DEF IInv, TypeOK
  <2>6. faults' \in 0..MaxFaults
    BY <1>3, SqlAssumption DEF SqlAssumption, IInv, TypeOK
  <2>7. overtaken' \in [Objects -> SUBSET Fields]
    <3>1. overtaken \in [Objects -> SUBSET Fields] /\ Dirty(e) \in SUBSET Fields
      BY DEF IInv, TypeOK, Dirty
    <3>2. QED
      BY <1>4, <3>1
  <2>8. QED
    BY <1>1, <1>6, <2>1, <2>2, <2>3, <2>4, <2>5, <2>6, <2>7 DEF IInv, TypeOK, Ids, Rows
<1>9. Unused' /\ Known'
  BY <1>1, <1>7 DEF IInv, Unused, Known, Nothing
<1>10. Unsaved'
  BY <1>1, <1>7 DEF IInv, TypeOK, Unsaved
<1>11. Shown'
  <2> SUFFICES ASSUME NEW o \in Objects, NEW f \in Fields,
                      created'[o], key'[o] \in Present', map'[o][f] # Null,
                      dirty'[o][f] = Null, f \notin overtaken'[o]
               PROVE  \/ rows'[key'[o]][f] = map'[o][f]
                      \/ missed'[o] > 0 /\ rows'[key'[o]][f] = Default
    BY DEF Shown
  \* Its own update has worked: what was dirty is written, the rest was right.
  <2>1. CASE o = e
    <3>1. missed'[e] = missed[e]
      BY <2>1, <1>7 DEF IInv, TypeOK
    <3>2. missed' = missed
      <4>1. missed' = [missed EXCEPT ![e] = @ + 1] => missed'[e] # missed[e]
        BY DEF IInv, TypeOK
      <4>2. QED
        BY <3>1, <4>1, <1>2
    <3>3. rows'[key[e]] = new /\ f \notin overtaken[e]
      BY <2>1, <3>2, <1>4, <1>5 DEF IInv, TypeOK
    <3>4. CASE dirty[e][f] # Null
      BY <2>1, <3>3, <3>4, <1>1, <1>5, <1>6 DEF IInv, TypeOK
    <3>5. CASE dirty[e][f] = Null
      BY <2>1, <3>1, <3>3, <3>5, <1>1, <1>5, <1>6 DEF IInv, Shown
    <3>6. QED
      BY <3>4, <3>5
  \* Another's update of the same row: what it has written is overtaken.
  <2>2. CASE o # e
    <3>1. /\ created[o] /\ missed'[o] = missed[o] /\ key[o] \in Present /\ key'[o] = key[o]
          /\ map'[o] = map[o] /\ dirty[o][f] = Null
      BY <2>2, <1>1, <1>6, <1>7
    <3>2. f \notin overtaken[o]
      BY <1>4
    <3>3. rows[key[o]][f] = map[o][f] \/ (missed[o] > 0 /\ rows[key[o]][f] = Default)
      BY <3>1, <3>2 DEF IInv, Shown
    <3>4. CASE key[o] = key[e] /\ rows' # rows
      <4>1. f \notin Dirty(e) /\ rows'[key[e]] = new
        BY <2>2, <3>1, <3>4, <1>4, <1>5 DEF IInv, TypeOK
      <4>2. QED
        BY <3>1, <3>3, <3>4, <4>1, <1>5 DEF Dirty
    <3>5. CASE key[o] # key[e] \/ rows' = rows
      BY <3>1, <3>3, <3>5, <1>6 DEF Present
    <3>6. QED
      BY <3>4, <3>5
  <2>3. QED
    BY <2>1, <2>2
<1>12. Counted'
  <2>1. \A o \in Objects \ {e} : Spare(o)' = Spare(o)
    BY <1>1, <1>7 DEF Spare
  <2>2. /\ Spare(e) = inserted[e] \ {key[e]} /\ inserted[e] \in SUBSET Ids
        /\ Spare(e)' = IF created'[e] THEN inserted[e] \ {key[e]} ELSE inserted[e]
    BY <1>1 DEF IInv, TypeOK, Spare
  <2>3. /\ Cardinality(inserted[e]) \in Nat /\ Cardinality(inserted[e] \ {key[e]}) \in Nat
        /\ Cardinality(inserted[e]) <= Cardinality(inserted[e] \ {key[e]}) + 1
    BY <2>2, Counting
  <2>4. Cardinality(Spare(e)') <= unanswered'[e] + missed'[e]
    <3>1. unanswered[e] \in Nat /\ missed[e] \in Nat /\ unanswered'[e] = unanswered[e]
      BY <1>1 DEF IInv, TypeOK
    <3>2. Cardinality(inserted[e] \ {key[e]}) <= unanswered[e] + missed[e]
      BY <2>2 DEF IInv, Counted
    <3>3. QED
      BY <1>7, <2>2, <2>3, <3>1, <3>2
  <2>5. QED
    BY <1>1, <1>7, <2>1, <2>4 DEF IInv, Counted
<1>13. QED
  BY <1>8, <1>9, <1>10, <1>11, <1>12 DEF IInv

LEMMA Deletes ==
  ASSUME IInv, NEW e \in Objects, Delete(e)
  PROVE  IInv'
<1>1. /\ rows' = [rows EXCEPT ![key[e]] = NoRow]
      /\ UNCHANGED <<nextId, node, key, created, map, dirty, faults, inserted, unanswered, missed, overtaken>>
  BY DEF Delete, object, history
<1>2. /\ rows' \in [Ids -> Rows \cup {NoRow}] /\ \A id \in Ids : id >= nextId => rows'[id] = NoRow
      /\ \A id \in Ids : rows'[id] # NoRow => rows'[id] = rows[id]
  BY <1>1 DEF IInv, TypeOK
<1>3. TypeOK'
  BY <1>1, <1>2 DEF IInv, TypeOK, Ids, Rows
<1>4. Unused' /\ Known' /\ Unsaved' /\ Counted'
  BY <1>1 DEF IInv, Unused, Known, Unsaved, Counted, Spare, Nothing
<1>5. Shown'
  BY <1>1, <1>2 DEF IInv, Shown, Present, Ids
<1>6. QED
  BY <1>3, <1>4, <1>5 DEF IInv

LEMMA UpdatesWhere ==
  ASSUME IInv, UpdateWhere
  PROVE  IInv'
<1>1. PICK u \in BulkUpdates :
        LET found == {id \in Present : rows[id][u.where] = u.is}
        IN  /\ rows' = [id \in Ids |-> IF id \in found THEN [rows[id] EXCEPT ![u.set] = u.to] ELSE rows[id]]
            /\ overtaken' = [o \in Objects |-> IF key[o] \in found THEN overtaken[o] \cup {u.set} ELSE overtaken[o]]
            /\ UNCHANGED <<nextId, node, key, created, map, dirty, faults, inserted, unanswered, missed>>
  BY DEF UpdateWhere, object
<1> DEFINE found == {id \in Present : rows[id][u.where] = u.is}
<1>2. u.set \in Fields /\ u.to \in Values
  BY SqlAssumption DEF SqlAssumption
<1>3. \A id \in found : id \in Ids /\ rows[id] \in Rows
  BY RowsAreTyped DEF IInv
<1>4. \A id \in found : [rows[id] EXCEPT ![u.set] = u.to] \in Rows
  BY <1>2, <1>3 DEF Rows
<1>5. /\ rows' \in [Ids -> Rows \cup {NoRow}]
      /\ \A id \in found : rows'[id] = [rows[id] EXCEPT ![u.set] = u.to]
      /\ \A id \in Ids \ found : rows'[id] = rows[id]
  BY <1>1, <1>3, <1>4 DEF IInv, TypeOK
<1>6. Present' = Present
  BY <1>3, <1>4, <1>5, RowFits DEF Present, Ids
<1>7. TypeOK'
  <2>1. \A id \in Ids : id >= nextId => rows'[id] = NoRow
    BY <1>3, <1>5, RowFits DEF IInv, TypeOK
  <2>2. overtaken' \in [Objects -> SUBSET Fields]
    BY <1>1, <1>2 DEF IInv, TypeOK
  <2>3. QED
    BY <1>1, <1>5, <2>1, <2>2 DEF IInv, TypeOK, Ids, Rows
<1>8. Unused' /\ Known' /\ Unsaved' /\ Counted'
  BY <1>1 DEF IInv, Unused, Known, Unsaved, Counted, Spare, Nothing
<1>9. Shown'
  <2> SUFFICES ASSUME NEW o \in Objects, NEW f \in Fields,
                      created[o], key[o] \in Present, map[o][f] # Null,
                      dirty[o][f] = Null, f \notin overtaken'[o]
               PROVE  rows'[key[o]][f] = map[o][f] \/ (missed[o] > 0 /\ rows'[key[o]][f] = Default)
    BY <1>1, <1>6 DEF Shown
  <2>1. f \notin overtaken[o] /\ (key[o] \in found => f # u.set)
    BY <1>1
  <2>2. rows[key[o]][f] = map[o][f] \/ (missed[o] > 0 /\ rows[key[o]][f] = Default)
    BY <2>1 DEF IInv, Shown
  <2>3. rows'[key[o]][f] = rows[key[o]][f]
    BY <2>1, <1>3, <1>5 DEF Present, Rows
  <2>4. QED
    BY <2>2, <2>3
<1>10. QED
  BY <1>7, <1>8, <1>9 DEF IInv

LEMMA Inductive == IInv /\ [Next]_vars => IInv'
<1> SUFFICES ASSUME IInv, [Next]_vars PROVE IInv'
  OBVIOUS
<1>1. ASSUME NEW e \in Objects, Use(e) PROVE IInv'
  <2>1. CASE Get(e)
    BY <2>1, Wraps DEF Get
  <2>2. CASE Touch(e)
    BY <2>2, Wraps DEF Touch
  <2>3. CASE Set(e)
    BY <2>3, Assigns DEF Set
  <2>4. QED
    BY <1>1, <2>1, <2>2, <2>3, Creates, Proxies, Inserts, Updates, Deletes DEF Use
<1>2. CASE UNCHANGED vars
  <2>1. UNCHANGED <<rows, nextId, node, key, created, map, dirty, faults, inserted, unanswered, missed, overtaken>>
    BY <1>2 DEF vars, table, object, history
  <2>2. TypeOK'
    BY <2>1 DEF IInv, TypeOK, Ids, Rows
  <2>3. Unused' /\ Known' /\ Unsaved' /\ Counted'
    BY <2>1 DEF IInv, Unused, Known, Unsaved, Counted, Spare, Nothing
  <2>4. Shown'
    BY <2>1 DEF IInv, Shown, Present, Ids
  <2>5. QED
    BY <2>2, <2>3, <2>4 DEF IInv
<1>3. QED
  BY <1>1, <1>2, UpdatesWhere DEF Next

THEOREM Invariant == Spec => []IInv
BY Begins, Inductive, PTL DEF Spec

-----------------------------------------------------------------------------
\* What an object shows and has not to save is what its row holds, but for what others
\* wrote since (the streamer, Node.mark() and SQLSaveOperation together).
THEOREM ObjectsShowTheirRows == Spec => []ShowsItsRow
<1>1. IInv => ShowsItsRow
  BY DEF IInv, TypeOK, Shown, ShowsItsRow
<1>2. QED
  BY <1>1, Invariant, PTL

\* However often it is saved, an object has one row; each row more stands for an insert
\* unanswered or an update that reported none (SQLSaveOperation, markCreated()).
THEOREM ObjectsHaveOneRow == Spec => []OneRowEach
<1>1. IInv => OneRowEach
  <2> SUFFICES ASSUME IInv, NEW e \in Objects
               PROVE  Cardinality(inserted[e] \ {key[e]}) <= unanswered[e] + missed[e]
    BY DEF OneRowEach
  <2>1. inserted[e] \in SUBSET Ids /\ unanswered[e] \in Nat /\ missed[e] \in Nat
    BY DEF IInv, TypeOK
  <2>2. /\ Cardinality(inserted[e]) \in Nat /\ Cardinality(inserted[e] \ {key[e]}) \in Nat
        /\ Cardinality(inserted[e] \ {key[e]}) <= Cardinality(inserted[e])
    <3>1. inserted[e] \ {key[e]} \in SUBSET Ids
      BY <2>1
    <3>2. QED
      BY <2>1, <3>1, Counting
  <2>3. Cardinality(Spare(e)) <= unanswered[e] + missed[e]
    BY DEF IInv, Counted
  <2>4. CASE created[e]
    BY <2>3, <2>4 DEF Spare
  <2>5. CASE ~created[e]
    <3>1. Cardinality(inserted[e]) <= unanswered[e] + missed[e]
      BY <2>3, <2>5 DEF Spare
    <3>2. QED
      BY <2>1, <2>2, <3>1
  <2>6. QED
    BY <2>4, <2>5
<1>2. QED
  BY <1>1, Invariant, PTL

\* The second row that a save inserts after an update hit none has the default wherever
\* the object shows something else (SQLSaveOperation 28, mark(), getDirty()).
THEOREM GapsHoldDefaults == Spec => []GapsAreBlank
<1>1. IInv => GapsAreBlank
  BY DEF IInv, Shown, GapsAreBlank
<1>2. QED
  BY <1>1, Invariant, PTL
=============================================================================
