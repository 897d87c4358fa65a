--------------------------- MODULE ConnectionPool ---------------------------
(***************************************************************************)
(* The pool of one type of connection: ConnectionPool, for one pool key.   *)
(* A user polls the queue of idle connections and makes a new one when it  *)
(* was empty; nothing bounds how many there are.  ConnectionPool.shutDown  *)
(* runs when the process ends and is left out.                             *)
(***************************************************************************)
EXTENDS Naturals, Sequences, FiniteSets

CONSTANTS
  Users,        \* those that work with a connection
  MaxConns      \* bound: connections that can be made

VARIABLES
  idle,         \* queue: the idle connections
  made,         \* connections: how many were made, by which they are named
  user          \* what each user holds, or that it is making one

Conns  == 1..MaxConns
NoConn == 0
Making == MaxConns + 1

PoolType ==
  /\ idle \in Seq(Conns)
  /\ made \in 0..MaxConns
  /\ user \in [Users -> Conns \cup {NoConn, Making}]

PoolInit ==
  /\ idle = <<>>
  /\ made = 0
  /\ user = [u \in Users |-> NoConn]

\* queue.get(poolKey).poll().
Poll(u) ==
  /\ user[u] = NoConn
  /\ IF idle = <<>> THEN user' = [user EXCEPT ![u] = Making] /\ UNCHANGED idle
     ELSE user' = [user EXCEPT ![u] = Head(idle)] /\ idle' = Tail(idle)
  /\ UNCHANGED made

\* create(): the constructor runs while others poll.
Create(u) ==
  /\ user[u] = Making
  /\ made < MaxConns
  /\ made' = made + 1 /\ user' = [user EXCEPT ![u] = made + 1]
  /\ UNCHANGED idle

\* create() where the constructor throws: acquire() returns null.
CreateFails(u) ==
  /\ user[u] = Making
  /\ user' = [user EXCEPT ![u] = NoConn]
  /\ UNCHANGED <<idle, made>>

\* Mutant of Release: the connection is kept by its user, too.
ReleaseEarly(u) ==
  /\ user[u] \in Conns
  /\ idle' = Append(idle, user[u])
  /\ UNCHANGED <<user, made>>

\* queue.get(client.getPoolKey()).add(client).
Release(u) ==
  /\ user[u] \in Conns
  /\ idle' = Append(idle, user[u])
  /\ user' = [user EXCEPT ![u] = NoConn]
  /\ UNCHANGED made

-----------------------------------------------------------------------------
\* A connection that was made has one place: the queue, once, or one user.
OneUser ==
  /\ \A u, v \in Users : user[u] \in Conns /\ user[u] = user[v] => u = v
  /\ \A i, j \in DOMAIN idle : idle[i] = idle[j] => i = j
  /\ \A i \in DOMAIN idle, u \in Users : idle[i] # user[u]
=============================================================================
