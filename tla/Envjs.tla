------------------------------- MODULE Envjs -------------------------------
(***************************************************************************)
(* The threads and timers of env.js, the browser that pages are read in:   *)
(* setTimeout, setInterval and clearTimeout over $timers, the event loop   *)
(* Envjs.wait(), and XMLHttpRequest.send(), which spawns a thread for each *)
(* asynchronous request.                                                   *)
(*                                                                         *)
(* Rhino's sync() locks the object a function is called on, here always    *)
(* the global one: there is one lock, and it may be taken again by its     *)
(* holder.  runAsync() holds it for the whole life of its thread, its own  *)
(* event loop included.  The main thread takes it only for single accesses *)
(* to $timers: it chooses a timer under the lock and runs it without.      *)
(*                                                                         *)
(* Of a timer's time only whether it has come is kept: a loop takes one    *)
(* whose time has come, where the code takes the first of them.  What a    *)
(* page's own functions do is any sequence                                 *)
(* of the calls under `The page's functions`.  Not modelled: synchronous   *)
(* requests; wait(n), which ends between wait(0) and wait();               *)
(* EVENT_LOOP_RUNNING (MIN_TIME is 0, so nothing depends on it).           *)
(***************************************************************************)
EXTENDS Naturals, FiniteSets, Sequences

CONSTANTS
  Main,       \* the thread of the page
  Requests,   \* asynchronous requests, each with its thread
  None,
  MaxTimers,  \* bound: timers that anybody has to do with at a time
  MaxDepth,   \* bound: calls of wait() within each other
  MaxClears   \* bound: timers cleared whose numbers have not been used again

ASSUME EnvjsAssumption ==
  /\ Main \notin Requests /\ None \notin Requests \cup {Main} \cup (1..MaxTimers)
  /\ MaxTimers \in Nat /\ MaxDepth \in Nat /\ MaxClears \in Nat

Threads == Requests \cup {Main}
Timers  == 1..MaxTimers

VARIABLES
  pending,    \* $timers
  due,        \* those whose time has come
  kind,       \* of a timer: "once" or "every"; "unmade" before
  running,    \* the timers whose flag is set
  lock,       \* who holds the lock
  phase,      \* of a thread
  stack,      \* of a thread: its calls of wait(), the innermost last
  aborted,    \* the requests with the flag set
  starts,     \* history: how often a thread has run the function of setTimeout()
  clears,     \* history: the timers a thread has cleared
  left        \* history: who may have left timers that nobody waits for

timers == <<pending, due, kind, running>>
vars   == <<timers, lock, phase, stack, aborted, starts, clears, left>>

\* wait() and wait(0).
Modes == {"drain", "now"}
Pcs   == {"select", "decide", "call", "clear", "end"}

Frames == [pc : Pcs, timer : Timers \cup {None}, mode : Modes]

TypeOK ==
  /\ pending \subseteq Timers /\ due \subseteq pending
  /\ kind \in [Timers -> {"unmade", "once", "every"}] /\ running \subseteq Timers
  /\ lock \in Threads \cup {None}
  /\ phase \in [Threads -> {"script", "idle", "spawned", "connecting", "handler", "waiting", "ended"}]
  /\ stack \in [Threads -> Seq(Frames)]
  /\ aborted \subseteq Requests /\ left \subseteq Threads
  /\ starts \in [Threads -> [Timers -> Nat]] /\ clears \in [Threads -> SUBSET Timers]

Init ==
  /\ pending = {} /\ due = {} /\ kind = [i \in Timers |-> "unmade"] /\ running = {}
  /\ lock = None
  /\ phase = [t \in Threads |-> IF t = Main THEN "script" ELSE "idle"]
  /\ stack = [t \in Threads |-> <<>>]
  /\ aborted = {} /\ left = {Main}
  /\ starts = [t \in Threads |-> [i \in Timers |-> 0]] /\ clears = [t \in Threads |-> {}]

-----------------------------------------------------------------------------
Locks(t) == lock \in {t, None}
Length(t) == Len(stack[t])
Top(t)   == stack[t][Length(t)]
At(t, pc) == stack[t] # <<>> /\ Top(t).pc = pc

\* A function of the page runs: a timer's, the script, or onreadystatechange().
InPage(t) == At(t, "call") \/ (stack[t] = <<>> /\ phase[t] \in {"script", "handler"})

Loop(mode)       == [pc |-> "select", timer |-> None, mode |-> mode]
SetTop(t, frame) == stack' = [stack EXCEPT ![t] = [@ EXCEPT ![Length(t)] = frame]]
Push(t, frame)   == stack' = [stack EXCEPT ![t] = Append(@, frame)]
Pop(t)           == stack' = [stack EXCEPT ![t] = SubSeq(@, 1, Length(t) - 1)]

\* i gets a time, now or later.
Schedule(i) == pending' = pending \cup {i} /\ due' \in {due \ {i}, due \cup {i}}

\* delete $timers[num]
Delete(i) == pending' = pending \ {i} /\ due' = due \ {i}

-----------------------------------------------------------------------------
(* The page's functions.                                                   *)

\* A number nobody has to do with: it was never given, or its timer is gone.
Unused(i) ==
  /\ i \notin pending \cup running
  /\ \A t \in Threads : \A n \in 1..Length(t) : stack[t][n].timer # i

\* setTimeout() and setInterval().  The code counts on; here a number nobody has
\* to do with stands for the next, and has no history.
SetTimer(t) ==
  /\ InPage(t) /\ Locks(t)
  /\ \E i \in Timers, k \in {"once", "every"} :
       /\ Unused(i) /\ \A j \in Timers : j < i => ~Unused(j)
       /\ kind' = [kind EXCEPT ![i] = k]
       /\ Schedule(i)
       /\ starts' = [u \in Threads |-> [starts[u] EXCEPT ![i] = 0]]
       /\ clears' = [u \in Threads |-> clears[u] \ {i}]
  /\ left' = left \cup ({t} \cap {Main})
  /\ UNCHANGED <<running, lock, phase, stack, aborted>>

Cleared == UNION {clears[t] : t \in Threads}

ClearTimer(t) ==
  /\ InPage(t) /\ Locks(t) /\ Cardinality(Cleared) < MaxClears
  /\ \E i \in pending :
       Delete(i) /\ clears' = [clears EXCEPT ![t] = @ \cup {i}]
  /\ UNCHANGED <<kind, running, lock, phase, stack, aborted, starts, left>>

Wait(t) ==
  /\ InPage(t) /\ Length(t) < MaxDepth
  /\ \E mode \in Modes : Push(t, Loop(mode))
  /\ UNCHANGED <<timers, lock, phase, aborted, starts, clears, left>>

\* send() of an asynchronous request: its thread is spawned.
Send(t) ==
  /\ InPage(t)
  /\ \E r \in Requests : phase[r] = "idle" /\ phase' = [phase EXCEPT ![r] = "spawned"]
  /\ UNCHANGED <<timers, lock, stack, aborted, starts, clears, left>>

Abort(t) ==
  /\ InPage(t)
  /\ \E r \in Requests \ aborted : phase[r] \in {"spawned", "connecting"} /\ aborted' = aborted \cup {r}
  /\ UNCHANGED <<timers, lock, phase, stack, starts, clears, left>>

\* It ends, or throws, which the loop catches.
Return(t) ==
  /\ At(t, "call")
  /\ SetTop(t, [Top(t) EXCEPT !.pc = IF kind[Top(t).timer] = "once" THEN "clear" ELSE "end"])
  /\ UNCHANGED <<timers, lock, phase, aborted, starts, clears, left>>

-----------------------------------------------------------------------------
(* Envjs.wait().                                                           *)

\* Mutant of Select: a timer that runs is chosen as well.
SelectAny(t) ==
  /\ At(t, "select") /\ Locks(t)
  /\ \E i \in (IF pending = {} THEN {None} ELSE IF due = {} THEN pending ELSE due) :
       SetTop(t, [Top(t) EXCEPT !.pc = "decide", !.timer = i])
  /\ UNCHANGED <<timers, lock, phase, aborted, starts, clears, left>>

\* The first timer that is not running, chosen under the lock.
Select(t) ==
  /\ At(t, "select") /\ Locks(t)
  /\ LET idle == pending \ running
     IN  \E i \in (IF idle = {} THEN {None} ELSE IF idle \cap due = {} THEN idle ELSE idle \cap due) :
           SetTop(t, [Top(t) EXCEPT !.pc = "decide", !.timer = i])
  /\ UNCHANGED <<timers, lock, phase, aborted, starts, clears, left>>

\* Without it: the timer may be gone or running by now, and is run all the same.
Run(t) ==
  /\ At(t, "decide") /\ Top(t).timer # None
  /\ Top(t).timer \in pending => Top(t).timer \in due
  /\ running' = running \cup {Top(t).timer}
  /\ starts' = [starts EXCEPT ![t][Top(t).timer] = IF kind[Top(t).timer] = "once" THEN @ + 1 ELSE @]
  /\ SetTop(t, [Top(t) EXCEPT !.pc = "call"])
  /\ UNCHANGED <<pending, due, kind, lock, phase, aborted, clears, left>>

\* clearInterval(num), at the end of a function given to setTimeout().
ClearOnce(t) ==
  /\ At(t, "clear") /\ Locks(t)
  /\ Delete(Top(t).timer)
  /\ SetTop(t, [Top(t) EXCEPT !.pc = "end"])
  /\ UNCHANGED <<kind, running, lock, phase, aborted, starts, clears, left>>

\* Mutant of Rearm: the timer is put back under its number.
RearmAlways(t) ==
  /\ At(t, "end")
  /\ running' = running \ {Top(t).timer} /\ Schedule(Top(t).timer)
  /\ SetTop(t, Loop(Top(t).mode))
  /\ UNCHANGED <<kind, lock, phase, aborted, starts, clears, left>>

\* It is no longer running, and has its next time.
Rearm(t) ==
  /\ At(t, "end")
  /\ LET i == Top(t).timer
     IN  /\ running' = running \ {i}
         /\ IF i \in pending THEN Schedule(i) ELSE UNCHANGED <<pending, due>>
  /\ SetTop(t, Loop(Top(t).mode))
  /\ UNCHANGED <<kind, lock, phase, aborted, starts, clears, left>>

NotYet(t) == At(t, "decide") /\ Top(t).timer \notin due

\* Mutant of Ends: wait() waits for the timers that run in another thread, too.
EndsWhenNone(t) == (Top(t).timer = None /\ pending = {}) \/ Top(t).mode = "now"

\* wait() ends when there is no timer but those that run; wait(0), when none has come.
Ends(t) == Top(t).timer = None \/ Top(t).mode = "now"

\* It sleeps and looks again.
Sleep(t) ==
  /\ NotYet(t) /\ ~Ends(t)
  /\ SetTop(t, Loop(Top(t).mode))
  /\ UNCHANGED <<timers, lock, phase, aborted, starts, clears, left>>

\* It returns; if it is runAsync()'s own, so does the thread, which gives up the lock.
Break(t) ==
  /\ NotYet(t) /\ Ends(t)
  /\ Pop(t)
  /\ IF phase[t] = "waiting" /\ Length(t) = 1
     THEN phase' = [phase EXCEPT ![t] = "ended"] /\ lock' = None
     ELSE UNCHANGED <<phase, lock>>
  /\ left' = IF t = Main /\ Length(t) = 1 /\ Top(t).mode = "drain" THEN left \ {Main} ELSE left
  /\ UNCHANGED <<timers, aborted, starts, clears>>

-----------------------------------------------------------------------------
(* The thread of a request.                                                *)

Acquire(r) ==
  /\ phase[r] = "spawned" /\ lock = None
  /\ lock' = r /\ phase' = [phase EXCEPT ![r] = "connecting"]
  /\ UNCHANGED <<timers, stack, aborted, starts, clears, left>>

\* Envjs.connection(): onreadystatechange() is called, unless the request is aborted.
Connected(r) ==
  /\ phase[r] = "connecting"
  /\ IF r \in aborted
     THEN phase' = [phase EXCEPT ![r] = "waiting"] /\ stack' = [stack EXCEPT ![r] = <<Loop("drain")>>]
     ELSE phase' = [phase EXCEPT ![r] = "handler"] /\ UNCHANGED stack
  /\ UNCHANGED <<timers, lock, aborted, starts, clears, left>>

\* Mutant of Handled: the thread does not wait for the timers of its function.
HandledAndGone(r) ==
  /\ phase[r] = "handler" /\ stack[r] = <<>>
  /\ phase' = [phase EXCEPT ![r] = "ended"] /\ lock' = None
  /\ UNCHANGED <<timers, stack, aborted, starts, clears, left>>

Handled(r) ==
  /\ phase[r] = "handler" /\ stack[r] = <<>>
  /\ phase' = [phase EXCEPT ![r] = "waiting"] /\ stack' = [stack EXCEPT ![r] = <<Loop("drain")>>]
  /\ UNCHANGED <<timers, lock, aborted, starts, clears, left>>

\* The connection or onreadystatechange() throws: the thread ends without its loop.
Dies(r) ==
  /\ phase[r] \in {"connecting", "handler"} /\ stack[r] = <<>>
  /\ phase' = [phase EXCEPT ![r] = "ended"] /\ lock' = None
  /\ left' = IF phase[r] = "handler" THEN left \cup {r} ELSE left
  /\ UNCHANGED <<timers, stack, aborted, starts, clears>>

-----------------------------------------------------------------------------
\* Time passes: the next timer comes.
Tick ==
  /\ \E i \in pending \ due : due' = due \cup {i}
  /\ UNCHANGED <<pending, kind, running, lock, phase, stack, aborted, starts, clears, left>>

Page(t)    == SetTimer(t) \/ ClearTimer(t) \/ Wait(t) \/ Send(t) \/ Abort(t)
Go(t)      == Return(t) \/ Select(t) \/ Run(t) \/ ClearOnce(t) \/ Rearm(t) \/ Sleep(t) \/ Break(t)
Request(r) == Acquire(r) \/ Connected(r) \/ Handled(r) \/ Dies(r)

Next ==
  \/ \E t \in Threads : Page(t) \/ Go(t)
  \/ \E r \in Requests : Request(r)
  \/ Tick

\* Threads run, connections end and time passes.  A function of the page returns, however
\* often it calls wait() before: hence the strong fairness.
Spec ==
  /\ Init /\ [][Next]_vars
  /\ \A t \in Threads : WF_vars(Go(t)) /\ SF_vars(Return(t))
  /\ \A r \in Requests : WF_vars(Request(r)) /\ SF_vars(Handled(r))
  /\ WF_vars(Tick)

-----------------------------------------------------------------------------
\* A function given to setTimeout() runs at most once in a thread, and in at most
\* one thread of a request.  It may run twice, once of these in the main thread,
\* which chooses a timer under the lock and marks it as running after that.
OnceEach ==
  \A i \in Timers : kind[i] = "once" =>
    /\ \A t \in Threads : starts[t][i] <= 1
    /\ \A q, r \in Requests : starts[q][i] > 0 /\ starts[r][i] > 0 => q = r

\* A thread that has cleared a timer never starts it any more, not even one that
\* clears itself and is given its next time after that.  Another thread may.
Starts(t, i) ==
  At(t, "decide") /\ Top(t).timer = i /\ stack'[t] # <<>> /\ stack'[t][Len(stack'[t])].pc = "call"
ClearedStays == [][\A t \in Threads : \A i \in clears[t] : ~Starts(t, i)]_vars

\* When the page's wait() has returned and every request is over, no timer is left
\* that nobody waits for; but for an onreadystatechange() that set one and threw.
NothingLeft ==
  left = {} /\ (\A r \in Requests : phase[r] \in {"idle", "ended"}) /\ stack[Main] = <<>> => pending = {}

\* A request's thread gives the lock back, so that the page can go on: unless there
\* is an interval, which keeps its wait() from ending until somebody clears it, or
\* the functions it runs set another timer again and again, which does so for ever.
LockReturned == \A r \in Requests : <>[][~SetTimer(r)]_vars =>
  ((lock = r) ~> (lock # r \/ \E i \in pending : kind[i] = "every"))
=============================================================================
