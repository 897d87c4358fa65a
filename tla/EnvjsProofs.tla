---------------------------- MODULE EnvjsProofs ----------------------------
(***************************************************************************)
(* A function given to setTimeout() runs at most once in each thread and   *)
(* in at most one thread of a request, and what a thread has cleared it    *)
(* does not start; when the page and all requests are done no timer is     *)
(* left: for any number of requests, timers and nested waits.              *)
(***************************************************************************)
EXTENDS Envjs, SequenceTheorems, TLAPS

\* t is about to start i.
Chosen(t, i) == At(t, "decide") /\ Top(t).timer = i

\* Only the innermost wait() is anywhere but in a timer's function.
Nested ==
  /\ \A t \in Threads : \A n \in 1..Len(stack[t]) :
       /\ n < Len(stack[t]) => stack[t][n].pc = "call"
       /\ stack[t][n].pc \in {"call", "clear", "end"} => stack[t][n].timer \in Timers
       /\ stack[t][n].timer \in Timers => kind[stack[t][n].timer] # "unmade"

\* A request's thread that is on its way holds the lock.
Exclusive ==
  /\ phase[Main] = "script"
  /\ \A r \in Requests :
       /\ phase[r] # "script"
       /\ phase[r] \in {"connecting", "handler", "waiting"} => lock = r
       /\ stack[r] # <<>> => phase[r] \in {"handler", "waiting"}

\* Only what was made is in the table, was run or cleared; what was cleared is not.
Made ==
  /\ \A i \in pending : kind[i] # "unmade"
  /\ \A t \in Threads : \A i \in Timers : starts[t][i] > 0 => kind[i] = "once"
  /\ \A t \in Threads : \A i \in clears[t] : i \notin pending /\ kind[i] # "unmade" /\ ~Chosen(t, i)

\* What has run once is in nobody's reach again.
Spent == \A i \in Timers : kind[i] = "once" =>
  /\ \A t \in Threads :
       /\ starts[t][i] <= 1
       /\ starts[t][i] > 0 => i \notin pending \/ i \in running
       /\ Chosen(t, i) => starts[t][i] = 0
       /\ At(t, "end") /\ Top(t).timer = i => i \notin pending
  /\ \A r \in Requests : Chosen(r, i) => \A q \in Requests : starts[q][i] = 0
  /\ \A q, r \in Requests : starts[q][i] > 0 /\ starts[r][i] > 0 => q = r

IInv == TypeOK /\ Nested /\ Exclusive /\ Made /\ Spent

-----------------------------------------------------------------------------
(* What the three ways to change a stack do.                               *)

\* SetTop() changes the innermost call of one thread and nothing else.
LEMMA TopIsSet ==
  ASSUME stack \in [Threads -> Seq(Frames)], NEW t \in Threads, stack[t] # <<>>,
         NEW f \in Frames, SetTop(t, f)
  PROVE  /\ stack' \in [Threads -> Seq(Frames)]
         /\ Len(stack'[t]) = Len(stack[t]) /\ stack'[t] # <<>>
         /\ stack'[t][Len(stack[t])] = f
         /\ \A n \in 1..Len(stack[t]) : n < Len(stack[t]) => stack'[t][n] = stack[t][n]
         /\ \A u \in Threads \ {t} : stack'[u] = stack[u]
<1>1. stack[t] \in Seq(Frames) /\ Len(stack[t]) \in 1..Len(stack[t])
  OBVIOUS
<1>2. stack'[t] = [stack[t] EXCEPT ![Len(stack[t])] = f]
  BY DEF SetTop, Length
<1>3. /\ [stack[t] EXCEPT ![Len(stack[t])] = f] \in Seq(Frames)
      /\ Len([stack[t] EXCEPT ![Len(stack[t])] = f]) = Len(stack[t])
      /\ \A j \in 1..Len(stack[t]) :
           [stack[t] EXCEPT ![Len(stack[t])] = f][j] = IF j = Len(stack[t]) THEN f ELSE stack[t][j]
  BY <1>1, ExceptSeq
<1>4. stack' \in [Threads -> Seq(Frames)] /\ \A u \in Threads \ {t} : stack'[u] = stack[u]
  BY <1>2, <1>3 DEF SetTop, Length
<1>5. Len(stack'[t]) = Len(stack[t]) /\ stack'[t] # <<>>
  BY <1>1, <1>2, <1>3
<1>6. /\ stack'[t][Len(stack[t])] = f
      /\ \A n \in 1..Len(stack[t]) : n < Len(stack[t]) => stack'[t][n] = stack[t][n]
  BY <1>1, <1>2, <1>3
<1> QED
  BY <1>4, <1>5, <1>6

\* So does Push(), which adds one.
LEMMA CallIsPushed ==
  ASSUME stack \in [Threads -> Seq(Frames)], NEW t \in Threads, NEW f \in Frames, Push(t, f)
  PROVE  /\ stack' \in [Threads -> Seq(Frames)]
         /\ Len(stack'[t]) = Len(stack[t]) + 1 /\ stack'[t] # <<>>
         /\ stack'[t][Len(stack[t]) + 1] = f
         /\ \A n \in 1..Len(stack[t]) : stack'[t][n] = stack[t][n]
         /\ \A u \in Threads \ {t} : stack'[u] = stack[u]
  BY DEF Push

\* And Pop(), which takes one off.
LEMMA CallIsPopped ==
  ASSUME stack \in [Threads -> Seq(Frames)], NEW t \in Threads, stack[t] # <<>>, Pop(t)
  PROVE  /\ stack' \in [Threads -> Seq(Frames)]
         /\ Len(stack'[t]) = Len(stack[t]) - 1
         /\ \A n \in 1..(Len(stack[t]) - 1) : stack'[t][n] = stack[t][n]
         /\ \A u \in Threads \ {t} : stack'[u] = stack[u]
<1>1. stack[t] \in Seq(Frames) /\ Len(stack[t]) \in Nat /\ Len(stack[t]) >= 1
  OBVIOUS
<1>2. /\ SubSeq(stack[t], 1, Len(stack[t]) - 1) \in Seq(Frames)
      /\ Len(SubSeq(stack[t], 1, Len(stack[t]) - 1)) = Len(stack[t]) - 1
      /\ \A n \in 1..(Len(stack[t]) - 1) : SubSeq(stack[t], 1, Len(stack[t]) - 1)[n] = stack[t][n]
  <2>1. \A i \in 1..(Len(stack[t]) - 1) : stack[t][i] \in Frames
    BY <1>1
  <2>2. \A i \in 1..(Len(stack[t]) - 1 - 1 + 1) :
          SubSeq(stack[t], 1, Len(stack[t]) - 1)[i] = stack[t][1 + i - 1]
    BY <1>1, <2>1, SubSeqProperties
  <2>3. \A n \in 1..(Len(stack[t]) - 1) :
          n \in 1..(Len(stack[t]) - 1 - 1 + 1) /\ 1 + n - 1 = n
    BY <1>1
  <2>4. \A n \in 1..(Len(stack[t]) - 1) : SubSeq(stack[t], 1, Len(stack[t]) - 1)[n] = stack[t][n]
    BY <2>2, <2>3
  <2>5. /\ SubSeq(stack[t], 1, Len(stack[t]) - 1) \in Seq(Frames)
        /\ Len(SubSeq(stack[t], 1, Len(stack[t]) - 1)) =
             IF 1 <= Len(stack[t]) - 1 THEN Len(stack[t]) - 1 - 1 + 1 ELSE 0
    BY <1>1, <2>1, SubSeqProperties
  <2>6. Len(SubSeq(stack[t], 1, Len(stack[t]) - 1)) = Len(stack[t]) - 1
    <3>1. \A k \in Nat : k >= 1 => (IF 1 <= k - 1 THEN k - 1 - 1 + 1 ELSE 0) = k - 1
      OBVIOUS
    <3> QED
      BY <1>1, <2>5, <3>1, Zenon
  <2> QED
    BY <2>4, <2>5, <2>6
<1> QED
  BY <1>1, <1>2 DEF Pop, Length

-----------------------------------------------------------------------------
(* The types.                                                              *)

LEMMA Types == TypeOK /\ Nested /\ Exclusive /\ [Next]_vars => TypeOK'
<1> SUFFICES ASSUME TypeOK, Nested, Exclusive, [Next]_vars PROVE TypeOK'
  OBVIOUS
<1> USE EnvjsAssumption
<1>1. ASSUME NEW t \in Threads, SetTimer(t) PROVE TypeOK'
  <2>1. PICK i \in Timers, k \in {"once", "every"} :
          /\ kind' = [kind EXCEPT ![i] = k] /\ Schedule(i)
          /\ starts' = [u \in Threads |-> [starts[u] EXCEPT ![i] = 0]]
          /\ clears' = [u \in Threads |-> clears[u] \ {i}]
    BY <1>1 DEF SetTimer
  <2>2. starts' \in [Threads -> [Timers -> Nat]] /\ clears' \in [Threads -> SUBSET Timers]
    BY <2>1 DEF TypeOK
  <2>3. /\ kind' \in [Timers -> {"unmade", "once", "every"}]
        /\ pending' \subseteq Timers /\ due' \subseteq pending'
    BY <2>1 DEF Schedule, TypeOK
  <2>4. left' \subseteq Threads
    BY <1>1 DEF SetTimer, TypeOK
  <2> QED
    BY <1>1, <2>2, <2>3, <2>4 DEF SetTimer, TypeOK
<1>2. ASSUME NEW t \in Threads, ClearTimer(t) PROVE TypeOK'
  BY <1>2 DEF ClearTimer, Delete, TypeOK
<1>3. ASSUME NEW t \in Threads, Wait(t) PROVE TypeOK'
  <2>1. PICK mode \in Modes : Push(t, Loop(mode))
    BY <1>3 DEF Wait
  <2>2. Loop(mode) \in Frames
    BY DEF Loop, Frames, Pcs
  <2>3. stack' \in [Threads -> Seq(Frames)]
    BY <2>1, <2>2, CallIsPushed DEF TypeOK
  <2> QED
    BY <1>3, <2>3 DEF Wait, TypeOK, timers
<1>4. ASSUME NEW t \in Threads, Send(t) \/ Abort(t) PROVE TypeOK'
  BY <1>4 DEF Send, Abort, TypeOK, timers, Threads
<1>5. ASSUME NEW t \in Threads, Go(t) PROVE TypeOK'
  <2>1. stack[t] # <<>> /\ stack[t] \in Seq(Frames) /\ Top(t) \in Frames
    <3>1. stack[t] # <<>>
      BY <1>5 DEF Go, Return, Select, Run, ClearOnce, Rearm, Sleep, Break, NotYet, At
    <3> QED
      BY <3>1 DEF TypeOK, Top, Length
  <2>2. Top(t).timer \in Timers \cup {None} /\ Top(t).mode \in Modes /\ Top(t).pc \in Pcs
    BY <2>1 DEF Frames
  <2>3. \A mode \in Modes : Loop(mode) \in Frames
    BY DEF Loop, Frames, Pcs
  <2>4. \A pc \in Pcs, i \in Timers \cup {None} : [Top(t) EXCEPT !.pc = pc, !.timer = i] \in Frames
    BY <2>1 DEF Frames
  <2>5. \A pc \in Pcs : [Top(t) EXCEPT !.pc = pc] \in Frames
    BY <2>1 DEF Frames
  <2>6. ASSUME NEW f \in Frames, SetTop(t, f) PROVE stack' \in [Threads -> Seq(Frames)]
    BY <2>1, <2>6, TopIsSet DEF TypeOK
  <2>7. At(t, "clear") \/ At(t, "end") => Top(t).timer \in Timers
    BY <2>1 DEF At, Nested, Top, Length
  <2>8. CASE Return(t)
    BY <2>5, <2>6, <2>8 DEF Return, TypeOK, timers, Pcs
  <2>9. CASE Select(t)
    <3>1. PICK i \in Timers \cup {None} : SetTop(t, [Top(t) EXCEPT !.pc = "decide", !.timer = i])
      BY <2>9 DEF Select, TypeOK
    <3>2. stack' \in [Threads -> Seq(Frames)]
      BY <3>1, <2>4, <2>6 DEF Pcs
    <3> QED
      BY <2>9, <3>2 DEF Select, TypeOK, timers
  <2>10. CASE Run(t)
    <3>1. stack' \in [Threads -> Seq(Frames)]
      BY <2>10, <2>5, <2>6 DEF Run, Pcs
    <3>2. Top(t).timer \in Timers
      BY <2>2, <2>10 DEF Run
    <3>3. starts' \in [Threads -> [Timers -> Nat]]
      BY <2>10, <3>2 DEF Run, TypeOK
    <3> QED
      BY <2>10, <3>1, <3>2, <3>3 DEF Run, TypeOK
  <2>11. CASE ClearOnce(t)
    <3>1. stack' \in [Threads -> Seq(Frames)]
      BY <2>11, <2>5, <2>6 DEF ClearOnce, Pcs
    <3> QED
      BY <2>11, <3>1 DEF ClearOnce, Delete, TypeOK
  <2>12. CASE Rearm(t)
    <3>1. stack' \in [Threads -> Seq(Frames)]
      BY <2>2, <2>12, <2>3, <2>6 DEF Rearm
    <3> QED
      BY <2>7, <2>12, <3>1 DEF Rearm, Schedule, TypeOK
  <2>13. CASE Sleep(t)
    BY <2>2, <2>13, <2>3, <2>6 DEF Sleep, TypeOK, timers
  <2>14. CASE Break(t)
    <3>1. stack' \in [Threads -> Seq(Frames)]
      BY <2>1, <2>14, CallIsPopped DEF Break, TypeOK
    <3> QED
      BY <2>14, <3>1 DEF Break, TypeOK, timers
  <2> QED
    BY <1>5, <2>8, <2>9, <2>10, <2>11, <2>12, <2>13, <2>14 DEF Go
<1>6. ASSUME NEW r \in Requests, Request(r) PROVE TypeOK'
  <2>1. r \in Threads /\ Loop("drain") \in Frames /\ <<Loop("drain")>> \in Seq(Frames)
    BY DEF Threads, Loop, Frames, Pcs, Modes
  <2>2. stack' \in [Threads -> Seq(Frames)]
    BY <1>6, <2>1 DEF Request, Acquire, Connected, Handled, Dies, TypeOK
  <2>3. CASE Acquire(r)
    BY <2>1, <2>2, <2>3 DEF Acquire, TypeOK, timers
  <2>4. CASE Connected(r)
    BY <2>1, <2>2, <2>4 DEF Connected, TypeOK, timers
  <2>5. CASE Handled(r)
    BY <2>1, <2>2, <2>5 DEF Handled, TypeOK, timers
  <2>6. CASE Dies(r)
    BY <2>1, <2>2, <2>6 DEF Dies, TypeOK, timers
  <2> QED
    BY <1>6, <2>3, <2>4, <2>5, <2>6 DEF Request
<1>7. CASE Tick
  BY <1>7 DEF Tick, TypeOK
<1>8. CASE UNCHANGED vars
  BY <1>8 DEF vars, timers, TypeOK
<1> QED
  BY <1>1, <1>2, <1>3, <1>4, <1>5, <1>6, <1>7, <1>8 DEF Next, Page

-----------------------------------------------------------------------------
(* The stacks.                                                             *)

\* Nested is kept by a new innermost call that is in order.
LEMMA NestedTop ==
  ASSUME TypeOK, Nested, NEW t \in Threads, stack[t] # <<>>, NEW f \in Frames, SetTop(t, f),
         f.pc \in {"call", "clear", "end"} => f.timer \in Timers,
         f.timer \in Timers => kind[f.timer] # "unmade", kind' = kind
  PROVE  Nested'
<1>1. /\ Len(stack'[t]) = Len(stack[t]) /\ stack'[t][Len(stack[t])] = f
      /\ \A n \in 1..Len(stack[t]) : n < Len(stack[t]) => stack'[t][n] = stack[t][n]
      /\ \A u \in Threads \ {t} : stack'[u] = stack[u]
  BY TopIsSet DEF TypeOK
<1>2. Len(stack[t]) \in Nat
  BY DEF TypeOK
<1>3. \A n \in 1..Len(stack[t]) : n = Len(stack[t]) \/ n < Len(stack[t])
  BY <1>2
<1>4. \A n \in 1..Len(stack'[t]) :
       /\ n < Len(stack'[t]) => stack'[t][n].pc = "call"
       /\ stack'[t][n].pc \in {"call", "clear", "end"} => stack'[t][n].timer \in Timers
       /\ stack'[t][n].timer \in Timers => kind'[stack'[t][n].timer] # "unmade"
  BY <1>1, <1>2, <1>3 DEF Nested
<1> QED
  BY <1>1, <1>4 DEF Nested

LEMMA Nests == TypeOK /\ Nested /\ Exclusive /\ Made /\ [Next]_vars => Nested'
<1> SUFFICES ASSUME TypeOK, Nested, Exclusive, Made, [Next]_vars PROVE Nested'
  OBVIOUS
<1> USE EnvjsAssumption
<1>1. ASSUME UNCHANGED stack, \A i \in Timers : kind[i] # "unmade" => kind'[i] # "unmade" PROVE Nested'
  BY <1>1 DEF Nested
<1>2. ASSUME NEW t \in Threads, SetTimer(t) PROVE Nested'
  <2>1. UNCHANGED stack /\ \A i \in Timers : kind[i] # "unmade" => kind'[i] # "unmade"
    BY <1>2 DEF SetTimer, TypeOK
  <2> QED
    BY <2>1, <1>1
<1>3. ASSUME NEW t \in Threads, Wait(t) PROVE Nested'
  <2>1. PICK mode \in Modes : Push(t, Loop(mode))
    BY <1>3 DEF Wait
  <2>2. Loop(mode) \in Frames /\ Loop(mode).pc = "select" /\ Loop(mode).timer \notin Timers
    BY <1>3 DEF Loop, Frames, Pcs, Timers
  <2>3. /\ Len(stack'[t]) = Len(stack[t]) + 1 /\ stack'[t][Len(stack[t]) + 1] = Loop(mode)
        /\ \A n \in 1..Len(stack[t]) : stack'[t][n] = stack[t][n]
        /\ \A u \in Threads \ {t} : stack'[u] = stack[u]
    BY <2>1, <2>2, CallIsPushed DEF TypeOK
  <2>4. Len(stack[t]) \in Nat /\ kind' = kind
    BY <1>3 DEF TypeOK, Wait, timers
  <2>5. \A n \in 1..(Len(stack[t]) + 1) : n = Len(stack[t]) + 1 \/ n \in 1..Len(stack[t])
    BY <2>4
  <2>6. \A n \in 1..Len(stack[t]) : stack[t][n].pc = "call"
    <3>1. stack[t] # <<>> => At(t, "call")
      BY <1>3 DEF Wait, InPage
    <3>2. \A n \in 1..Len(stack[t]) : n = Len(stack[t]) \/ n < Len(stack[t])
      BY <2>4
    <3> QED
      BY <3>1, <3>2 DEF At, Top, Length, Nested, TypeOK
  <2>7. \A n \in 1..Len(stack'[t]) :
         /\ n < Len(stack'[t]) => stack'[t][n].pc = "call"
         /\ stack'[t][n].pc \in {"call", "clear", "end"} => stack'[t][n].timer \in Timers
         /\ stack'[t][n].timer \in Timers => kind'[stack'[t][n].timer] # "unmade"
    <3> SUFFICES ASSUME NEW n \in 1..Len(stack[t]) + 1
                 PROVE  /\ n < Len(stack[t]) + 1 => stack'[t][n].pc = "call"
                        /\ stack'[t][n].pc \in {"call", "clear", "end"} => stack'[t][n].timer \in Timers
                        /\ stack'[t][n].timer \in Timers => kind'[stack'[t][n].timer] # "unmade"
      BY <2>3
    <3>1. CASE n = Len(stack[t]) + 1
      <4>1. stack'[t][n] = Loop(mode)
        BY <2>3, <3>1
      <4> QED
        BY <2>2, <2>4, <3>1, <4>1
    <3>2. CASE n \in 1..Len(stack[t])
      <4>1. stack'[t][n] = stack[t][n] /\ stack[t][n].pc = "call"
        BY <2>3, <2>6, <3>2
      <4> QED
        BY <2>4, <3>2, <4>1 DEF Nested
    <3> QED
      BY <2>5, <3>1, <3>2
  <2> QED
    BY <2>3, <2>4, <2>7 DEF Nested
<1>4. ASSUME NEW t \in Threads, Go(t) PROVE Nested'
  <2>1. stack[t] # <<>> /\ Top(t) \in Frames
    <3>1. stack[t] # <<>>
      BY <1>4 DEF Go, Return, Select, Run, ClearOnce, Rearm, Sleep, Break, NotYet, At
    <3> QED
      BY <3>1 DEF TypeOK, Top, Length
  <2>2. /\ Top(t).timer \in Timers \cup {None} /\ Top(t).mode \in Modes /\ Top(t).pc \in Pcs
        /\ Top(t).pc \in {"call", "clear", "end"} => Top(t).timer \in Timers
        /\ Top(t).timer \in Timers => kind[Top(t).timer] # "unmade"
    <3>1. Len(stack[t]) \in 1..Len(stack[t])
      BY <2>1 DEF TypeOK
    <3> QED
      BY <2>1, <3>1 DEF Frames, Nested, Top, Length
  <2>3. \A pc \in Pcs, i \in Timers \cup {None} :
         LET f == [Top(t) EXCEPT !.pc = pc, !.timer = i] IN f \in Frames /\ f.pc = pc /\ f.timer = i
    BY <2>1 DEF Frames
  <2>4. \A pc \in Pcs :
         LET f == [Top(t) EXCEPT !.pc = pc] IN f \in Frames /\ f.pc = pc /\ f.timer = Top(t).timer
    BY <2>1 DEF Frames
  <2>5. LET f == Loop(Top(t).mode) IN f \in Frames /\ f.pc = "select" /\ f.timer \notin Timers
    BY <2>2 DEF Loop, Frames, Pcs, Timers
  <2>6. CASE Return(t)
    <3>1. PICK pc \in {"clear", "end"} : SetTop(t, [Top(t) EXCEPT !.pc = pc])
      BY <2>6 DEF Return
    <3>2. kind' = kind /\ Top(t).pc = "call"
      BY <2>6 DEF Return, timers, At
    <3> QED
      BY <2>1, <2>2, <2>4, <3>1, <3>2, NestedTop DEF Pcs
  <2>7. CASE Select(t)
    <3>1. PICK i \in pending \cup {None} : SetTop(t, [Top(t) EXCEPT !.pc = "decide", !.timer = i])
      BY <2>7 DEF Select
    <3>2. kind' = kind /\ i \in Timers \cup {None} /\ (i \in Timers => kind[i] # "unmade")
      BY <2>7, <3>1 DEF Select, timers, TypeOK, Made, Timers
    <3> DEFINE f == [Top(t) EXCEPT !.pc = "decide", !.timer = i]
    <3>3. f \in Frames /\ f.pc = "decide" /\ f.timer = i
      BY <2>3, <3>2 DEF Pcs
    <3> HIDE DEF f
    <3>4. SetTop(t, f)
      BY <3>1 DEF f
    <3> QED
      BY <2>1, <3>2, <3>3, <3>4, NestedTop
  <2>8. CASE Run(t)
    <3>1. SetTop(t, [Top(t) EXCEPT !.pc = "call"]) /\ kind' = kind /\ Top(t).timer \in Timers
      BY <2>2, <2>8 DEF Run
    <3> QED
      BY <2>1, <2>2, <2>4, <3>1, NestedTop DEF Pcs
  <2>9. CASE ClearOnce(t)
    <3>1. SetTop(t, [Top(t) EXCEPT !.pc = "end"]) /\ kind' = kind /\ Top(t).pc = "clear"
      BY <2>9 DEF ClearOnce, At
    <3> QED
      BY <2>1, <2>2, <2>4, <3>1, NestedTop DEF Pcs
  <2>10. CASE Rearm(t) \/ Sleep(t)
    <3>1. SetTop(t, Loop(Top(t).mode)) /\ kind' = kind
      BY <2>10 DEF Rearm, Sleep, timers
    <3> QED
      BY <2>1, <2>5, <3>1, NestedTop
  <2>11. CASE Break(t)
    <3>1. Pop(t) /\ kind' = kind
      BY <2>11 DEF Break, timers
    <3>2. /\ Len(stack'[t]) = Len(stack[t]) - 1
          /\ \A n \in 1..(Len(stack[t]) - 1) : stack'[t][n] = stack[t][n]
          /\ \A u \in Threads \ {t} : stack'[u] = stack[u]
      BY <2>1, <3>1, CallIsPopped DEF TypeOK
    <3>3. Len(stack[t]) \in Nat
      BY DEF TypeOK
    <3>4. \A n \in 1..(Len(stack[t]) - 1) : n \in 1..Len(stack[t]) /\ n < Len(stack[t])
      BY <3>3
    <3>5. \A n \in 1..Len(stack'[t]) :
           /\ stack'[t][n].pc = "call"
           /\ stack'[t][n].timer \in Timers /\ kind'[stack'[t][n].timer] # "unmade"
      BY <3>1, <3>2, <3>4 DEF Nested
    <3> QED
      BY <3>1, <3>2, <3>5 DEF Nested
  <2> QED
    BY <1>4, <2>6, <2>7, <2>8, <2>9, <2>10, <2>11 DEF Go
<1>5. ASSUME NEW r \in Requests, Request(r) PROVE Nested'
  <2>1. kind' = kind /\ (stack' = stack \/ stack' = [stack EXCEPT ![r] = <<Loop("drain")>>])
    BY <1>5 DEF Request, Acquire, Connected, Handled, Dies, timers
  <2>2. /\ Len(<<Loop("drain")>>) = 1 /\ <<Loop("drain")>>[1] = Loop("drain")
        /\ Loop("drain").pc = "select" /\ Loop("drain").timer \notin Timers
    BY DEF Loop, Timers
  <2>3. CASE stack' = [stack EXCEPT ![r] = <<Loop("drain")>>]
    <3>1. stack'[r] = <<Loop("drain")>> /\ \A u \in Threads \ {r} : stack'[u] = stack[u]
      BY <2>3 DEF TypeOK, Threads
    <3>2. \A n \in 1..Len(stack'[r]) : n = 1 /\ Len(stack'[r]) = 1
      BY <2>2, <3>1
    <3>3. \A n \in 1..Len(stack'[r]) :
           /\ n < Len(stack'[r]) => stack'[r][n].pc = "call"
           /\ stack'[r][n].pc \in {"call", "clear", "end"} => stack'[r][n].timer \in Timers
           /\ stack'[r][n].timer \in Timers => kind'[stack'[r][n].timer] # "unmade"
      BY <2>2, <3>1, <3>2
    <3>4. ASSUME NEW t \in Threads \ {r}, NEW n \in 1..Len(stack'[t])
          PROVE  /\ n < Len(stack'[t]) => stack'[t][n].pc = "call"
                 /\ stack'[t][n].pc \in {"call", "clear", "end"} => stack'[t][n].timer \in Timers
                 /\ stack'[t][n].timer \in Timers => kind'[stack'[t][n].timer] # "unmade"
      BY <2>1, <3>1, <3>4 DEF Nested
    <3> QED
      BY <3>3, <3>4 DEF Nested
  <2> QED
    BY <2>1, <2>3, <1>1
<1>6. CASE UNCHANGED <<stack, kind>>
  BY <1>6, <1>1
<1>7. ASSUME NEW t \in Threads, ClearTimer(t) \/ Send(t) \/ Abort(t) PROVE Nested'
  BY <1>6, <1>7 DEF ClearTimer, Send, Abort, timers
<1>8. CASE Tick \/ UNCHANGED vars
  BY <1>6, <1>8 DEF Tick, vars, timers
<1> QED
  BY <1>2, <1>3, <1>4, <1>5, <1>7, <1>8 DEF Next, Page

-----------------------------------------------------------------------------
(* The lock.                                                               *)

\* A step of a loop leaves every stack empty or not, but for the return of a wait().
LEMMA LoopsStay ==
  ASSUME TypeOK, NEW t \in Threads, Go(t)
  PROVE  /\ stack[t] # <<>>
         /\ \A u \in Threads \ {t} : stack'[u] = stack[u]
         /\ Break(t) => (Len(stack[t]) = 1 => stack'[t] = <<>>)
         /\ ~Break(t) => lock' = lock /\ phase' = phase
<1>1. stack[t] # <<>>
  BY DEF Go, Return, Select, Run, ClearOnce, Rearm, Sleep, Break, NotYet, At
<1>2. \A u \in Threads \ {t} : stack'[u] = stack[u]
  BY DEF Go, Return, Select, Run, ClearOnce, Rearm, Sleep, Break, SetTop, Pop, TypeOK
<1>3. ASSUME Break(t), Len(stack[t]) = 1 PROVE stack'[t] = <<>>
  <2>1. stack' \in [Threads -> Seq(Frames)] /\ Len(stack'[t]) = Len(stack[t]) - 1
    BY <1>1, <1>3, CallIsPopped DEF Break, TypeOK
  <2> QED
    BY <1>3, <2>1
<1>4. ~Break(t) => lock' = lock /\ phase' = phase
  BY DEF Go, Return, Select, Run, ClearOnce, Rearm, Sleep
<1> QED
  BY <1>1, <1>2, <1>3, <1>4

LEMMA Excludes == TypeOK /\ Exclusive /\ [Next]_vars => Exclusive'
<1> SUFFICES ASSUME TypeOK, Exclusive, [Next]_vars PROVE Exclusive'
  OBVIOUS
<1> USE EnvjsAssumption
<1>1. CASE UNCHANGED <<lock, phase, stack>>
  BY <1>1 DEF Exclusive
<1>2. ASSUME NEW t \in Threads, SetTimer(t) \/ ClearTimer(t) \/ Abort(t) PROVE Exclusive'
  BY <1>1, <1>2 DEF SetTimer, ClearTimer, Abort
<1>3. ASSUME NEW t \in Threads, Send(t) PROVE Exclusive'
  BY <1>3 DEF Send, Exclusive, TypeOK, Threads
<1>4. ASSUME NEW t \in Threads, Wait(t) PROVE Exclusive'
  <2>1. UNCHANGED <<lock, phase>> /\ \A u \in Threads \ {t} : stack'[u] = stack[u]
    BY <1>4 DEF Wait, Push, TypeOK
  <2>2. t \in Requests => phase[t] \in {"handler", "waiting"}
    BY <1>4 DEF Wait, InPage, At, Exclusive
  <2> QED
    BY <2>1, <2>2 DEF Exclusive, Threads
<1>5. ASSUME NEW t \in Threads, Go(t) PROVE Exclusive'
  <2>1. CASE ~Break(t)
    BY <1>5, <2>1, LoopsStay DEF Exclusive, Threads
  <2>2. CASE Break(t) /\ phase[t] = "waiting" /\ Length(t) = 1
    <3>1. /\ phase' = [phase EXCEPT ![t] = "ended"] /\ lock' = None
          /\ stack'[t] = <<>> /\ \A u \in Threads \ {t} : stack'[u] = stack[u]
      BY <1>5, <2>2, LoopsStay DEF Break, Length
    <3>2. t \in Requests /\ lock = t
      BY <2>2 DEF Exclusive, Threads
    <3>3. \A r \in Requests \ {t} : phase[r] \notin {"connecting", "handler", "waiting"}
      BY <3>2 DEF Exclusive
    <3> QED
      BY <3>1, <3>2, <3>3 DEF Exclusive, TypeOK, Threads
  <2>3. CASE Break(t) /\ ~(phase[t] = "waiting" /\ Length(t) = 1)
    BY <1>5, <2>3, LoopsStay DEF Break, Exclusive, Threads
  <2> QED
    BY <2>1, <2>2, <2>3
<1>6. ASSUME NEW r \in Requests, Request(r) PROVE Exclusive'
  <2>1. r \in Threads /\ r # Main
    BY DEF Threads
  <2>2. CASE Acquire(r)
    BY <2>1, <2>2 DEF Acquire, Exclusive, TypeOK, Threads
  <2>3. CASE Connected(r) \/ Handled(r)
    BY <2>1, <2>3 DEF Connected, Handled, Exclusive, TypeOK, Threads
  <2>4. CASE Dies(r)
    <3>1. \A q \in Requests \ {r} : phase[q] \notin {"connecting", "handler", "waiting"}
      BY <2>4 DEF Dies, Exclusive
    <3> QED
      BY <2>1, <2>4, <3>1 DEF Dies, Exclusive, TypeOK, Threads
  <2> QED
    BY <1>6, <2>2, <2>3, <2>4 DEF Request
<1>7. CASE Tick \/ UNCHANGED vars
  BY <1>1, <1>7 DEF Tick, vars
<1> QED
  BY <1>2, <1>3, <1>4, <1>5, <1>6, <1>7 DEF Next, Page

-----------------------------------------------------------------------------
(* What is cleared or has run is not started again.                        *)

\* What a stack says after a step that has not changed it.
LEMMA StackStays ==
  ASSUME NEW u \in Threads, stack'[u] = stack[u]
  PROVE  /\ Top(u)' = Top(u) /\ \A pc \in Pcs : At(u, pc)' <=> At(u, pc)
         /\ \A i \in Timers : Chosen(u, i)' <=> Chosen(u, i)
  BY DEF At, Top, Length, Chosen

\* And after one that has set the innermost call.
LEMMA NewTop ==
  ASSUME TypeOK, NEW t \in Threads, stack[t] # <<>>, NEW f \in Frames, SetTop(t, f)
  PROVE  /\ Top(t)' = f /\ \A pc \in Pcs : At(t, pc)' <=> f.pc = pc
         /\ \A i \in Timers : Chosen(t, i)' <=> f.pc = "decide" /\ f.timer = i
<1>1. Len(stack'[t]) = Len(stack[t]) /\ stack'[t] # <<>> /\ stack'[t][Len(stack[t])] = f
  BY TopIsSet DEF TypeOK
<1> QED
  BY <1>1 DEF At, Top, Length, Chosen

\* A new call of wait() has chosen nothing.
LEMMA NewCall ==
  ASSUME TypeOK, NEW t \in Threads, NEW mode \in Modes, Push(t, Loop(mode))
  PROVE  \A i \in Timers : ~Chosen(t, i)' /\ ~At(t, "end")'
<1>1. Loop(mode) \in Frames /\ Loop(mode).pc = "select"
  BY EnvjsAssumption DEF Loop, Frames, Pcs
<1>2. Len(stack'[t]) = Len(stack[t]) + 1 /\ stack'[t][Len(stack[t]) + 1] = Loop(mode)
  BY <1>1, CallIsPushed DEF TypeOK
<1>3. Top(t)'.pc = "select"
  BY <1>1, <1>2 DEF Top, Length
<1> QED
  BY <1>3 DEF Chosen, At

\* The return of a wait() leads back into a function, or ends the loop of a thread.
LEMMA CallEnds ==
  ASSUME TypeOK, Nested, NEW t \in Threads, At(t, "decide"), Pop(t)
  PROVE  \A i \in Timers : ~Chosen(t, i)' /\ ~At(t, "end")'
<1>1. stack[t] # <<>>
  BY DEF At
<1>2. /\ Len(stack'[t]) = Len(stack[t]) - 1
      /\ \A n \in 1..(Len(stack[t]) - 1) : stack'[t][n] = stack[t][n]
      /\ stack' \in [Threads -> Seq(Frames)]
  BY <1>1, CallIsPopped DEF TypeOK
<1>3. Len(stack[t]) \in Nat
  BY DEF TypeOK
<1>4. ASSUME stack'[t] # <<>> PROVE Len(stack'[t]) \in 1..(Len(stack[t]) - 1)
  BY <1>2, <1>3, <1>4
<1>5. \A n \in 1..(Len(stack[t]) - 1) : n \in 1..Len(stack[t]) /\ n < Len(stack[t])
  BY <1>3
<1>6. stack'[t] # <<>> => Top(t)'.pc = "call"
  BY <1>2, <1>4, <1>5 DEF Nested, Top, Length
<1> QED
  BY <1>6 DEF Chosen, At

LEMMA Makes == TypeOK /\ Nested /\ Made /\ [Next]_vars => Made'
<1> SUFFICES ASSUME TypeOK, Nested, Made, [Next]_vars PROVE Made'
  OBVIOUS
<1> USE EnvjsAssumption
<1>1. ASSUME pending' \subseteq pending, UNCHANGED <<kind, starts, clears>>,
             \A t \in Threads : \A i \in clears[t] : ~Chosen(t, i)'
      PROVE  Made'
  BY <1>1 DEF Made
<1>2. ASSUME UNCHANGED stack PROVE \A t \in Threads : \A i \in clears[t] : ~Chosen(t, i)'
  BY <1>2, StackStays DEF Made, TypeOK
<1>3. \A t \in Threads : \A i \in clears[t] : i \in Timers /\ ~Chosen(t, i)
  BY DEF Made, TypeOK
<1>4. ASSUME NEW t \in Threads, SetTimer(t) PROVE Made'
  <2>1. PICK i \in Timers, k \in {"once", "every"} :
          /\ kind' = [kind EXCEPT ![i] = k] /\ pending' = pending \cup {i}
          /\ starts' = [u \in Threads |-> [starts[u] EXCEPT ![i] = 0]]
          /\ clears' = [u \in Threads |-> clears[u] \ {i}]
    BY <1>4 DEF SetTimer, Schedule
  <2>2. UNCHANGED stack
    BY <1>4 DEF SetTimer
  <2>3. /\ \A u \in Threads : starts'[u][i] = 0 /\ clears'[u] = clears[u] \ {i}
        /\ \A u \in Threads, j \in Timers \ {i} : starts'[u][j] = starts[u][j]
    BY <2>1 DEF TypeOK
  <2>4. kind'[i] # "unmade" /\ \A j \in Timers \ {i} : kind'[j] = kind[j]
    BY <2>1 DEF TypeOK
  <2>5. \A j \in pending' : kind'[j] # "unmade"
    BY <2>1, <2>4 DEF Made, TypeOK
  <2>6. \A u \in Threads : \A j \in Timers : starts'[u][j] > 0 => kind'[j] = "once"
    BY <2>3, <2>4 DEF Made
  <2>7. \A u \in Threads : \A j \in clears'[u] :
          j \notin pending' /\ kind'[j] # "unmade" /\ ~Chosen(u, j)'
    BY <1>2, <1>3, <2>1, <2>2, <2>3, <2>4 DEF Made
  <2> QED
    BY <2>5, <2>6, <2>7 DEF Made
<1>5. ASSUME NEW t \in Threads, ClearTimer(t) PROVE Made'
  <2>1. PICK i \in pending : pending' = pending \ {i} /\ clears' = [clears EXCEPT ![t] = @ \cup {i}]
    BY <1>5 DEF ClearTimer, Delete
  <2>2. UNCHANGED <<starts, kind, stack>> /\ i \in Timers
    BY <1>5, <2>1 DEF ClearTimer, TypeOK
  <2>3. ~Chosen(t, i)
    BY <1>5 DEF ClearTimer, InPage, Chosen, At
  <2>4. ~Chosen(t, i)' /\ \A u \in Threads : \A j \in clears[u] : ~Chosen(u, j)'
    BY <1>2, <2>2, <2>3, StackStays
  <2> QED
    BY <2>1, <2>2, <2>4 DEF Made, TypeOK
<1>6. ASSUME NEW t \in Threads, Wait(t) PROVE Made'
  <2>1. PICK mode \in Modes : Push(t, Loop(mode))
    BY <1>6 DEF Wait
  <2>2. \A u \in Threads \ {t} : stack'[u] = stack[u]
    BY <2>1 DEF Push, TypeOK
  <2>3. \A u \in Threads : \A i \in clears[u] : ~Chosen(u, i)'
    <3>1. \A i \in Timers : ~Chosen(t, i)'
      BY <2>1, NewCall
    <3>2. \A u \in Threads \ {t} : \A i \in Timers : Chosen(u, i)' <=> Chosen(u, i)
      BY <2>2, StackStays
    <3> QED
      BY <1>3, <3>1, <3>2
  <2> QED
    BY <1>1, <1>6, <2>3 DEF Wait, timers
<1>7. ASSUME NEW t \in Threads, Go(t) PROVE Made'
  <2>1. /\ stack[t] # <<>> /\ Top(t) \in Frames /\ Top(t).timer \in Timers \cup {None}
        /\ Top(t).mode \in Modes /\ \A u \in Threads \ {t} : stack'[u] = stack[u]
    <3>1. stack[t] # <<>> /\ \A u \in Threads \ {t} : stack'[u] = stack[u]
      BY <1>7, LoopsStay
    <3>2. Top(t) \in Frames
      BY <3>1 DEF TypeOK, Top, Length
    <3> QED
      BY <3>1, <3>2 DEF Frames
  <2>2. \A u \in Threads \ {t} : \A i \in clears[u] : ~Chosen(u, i)'
    <3>1. \A u \in Threads \ {t} : \A i \in Timers : Chosen(u, i)' <=> Chosen(u, i)
      BY <2>1, StackStays
    <3> QED
      BY <1>3, <3>1
  <2>3. ASSUME NEW f \in Frames, SetTop(t, f), f.pc = "decide" => f.timer \notin clears[t]
        PROVE  \A u \in Threads : \A i \in clears[u] : ~Chosen(u, i)'
    <3>1. \A i \in Timers : Chosen(t, i)' <=> f.pc = "decide" /\ f.timer = i
      BY <2>1, <2>3, NewTop
    <3> QED
      BY <1>3, <2>2, <2>3, <3>1
  <2>4. \A pc \in Pcs : LET f == [Top(t) EXCEPT !.pc = pc] IN f \in Frames /\ f.pc = pc
    BY <2>1 DEF Frames
  <2>5. LET f == Loop(Top(t).mode) IN f \in Frames /\ f.pc = "select"
    BY <2>1 DEF Loop, Frames, Pcs
  <2>6. CASE Return(t)
    <3>1. PICK pc \in {"clear", "end"} : SetTop(t, [Top(t) EXCEPT !.pc = pc])
      BY <2>6 DEF Return
    <3> QED
      BY <1>1, <2>3, <2>4, <2>6, <3>1 DEF Return, timers, Pcs
  <2>7. CASE Select(t)
    <3>1. PICK i \in pending \cup {None} : SetTop(t, [Top(t) EXCEPT !.pc = "decide", !.timer = i])
      BY <2>7 DEF Select
    <3>2. i \in Timers \cup {None} /\ i \notin clears[t]
      BY <3>1 DEF TypeOK, Made, Timers
    <3> DEFINE f == [Top(t) EXCEPT !.pc = "decide", !.timer = i]
    <3>3. f \in Frames /\ f.timer = i
      BY <2>1, <3>2 DEF Frames, Pcs
    <3> HIDE DEF f
    <3>4. SetTop(t, f)
      BY <3>1 DEF f
    <3> QED
      BY <1>1, <2>3, <2>7, <3>2, <3>3, <3>4 DEF Select, timers
  <2>8. CASE Run(t)
    <3>1. /\ SetTop(t, [Top(t) EXCEPT !.pc = "call"]) /\ UNCHANGED <<pending, kind, clears>>
          /\ starts' = [starts EXCEPT ![t][Top(t).timer] =
                          IF kind[Top(t).timer] = "once" THEN @ + 1 ELSE @]
      BY <2>8 DEF Run
    <3>2. \A u \in Threads : \A i \in clears[u] : ~Chosen(u, i)'
      BY <2>3, <2>4, <3>1 DEF Pcs
    <3>3. \A u \in Threads, i \in Timers : starts'[u][i] > 0 => kind[i] = "once"
      BY <3>1 DEF Made, TypeOK
    <3> QED
      BY <3>1, <3>2, <3>3 DEF Made
  <2>9. CASE ClearOnce(t)
    <3>1. SetTop(t, [Top(t) EXCEPT !.pc = "end"]) /\ pending' \subseteq pending
      BY <2>9 DEF ClearOnce, Delete
    <3> QED
      BY <1>1, <2>3, <2>4, <2>9, <3>1 DEF ClearOnce, Pcs
  <2>10. CASE Rearm(t) \/ Sleep(t)
    <3>1. SetTop(t, Loop(Top(t).mode)) /\ pending' \subseteq pending /\ UNCHANGED <<kind, starts, clears>>
      BY <2>10 DEF Rearm, Sleep, Schedule, timers
    <3> QED
      BY <1>1, <2>3, <2>5, <3>1
  <2>11. CASE Break(t)
    <3>1. At(t, "decide") /\ Pop(t) /\ UNCHANGED <<pending, kind, starts, clears>>
      BY <2>11 DEF Break, NotYet, timers
    <3>2. \A i \in clears[t] : ~Chosen(t, i)'
      BY <3>1, CallEnds DEF TypeOK
    <3> QED
      BY <1>1, <2>2, <3>1, <3>2
  <2> QED
    BY <1>7, <2>6, <2>7, <2>8, <2>9, <2>10, <2>11 DEF Go
<1>8. ASSUME NEW r \in Requests, Request(r) PROVE Made'
  <2>1. /\ UNCHANGED <<pending, kind, starts, clears>>
        /\ \/ stack' = stack
           \/ stack' = [stack EXCEPT ![r] = <<Loop("drain")>>]
    BY <1>8 DEF Request, Acquire, Connected, Handled, Dies, timers
  <2>2. CASE stack' = [stack EXCEPT ![r] = <<Loop("drain")>>]
    <3>1. stack'[r] = <<Loop("drain")>> /\ \A u \in Threads \ {r} : stack'[u] = stack[u]
      BY <2>2 DEF TypeOK, Threads
    <3>2. \A i \in Timers : ~Chosen(r, i)'
      BY <3>1 DEF Chosen, At, Top, Length, Loop
    <3>3. \A u \in Threads : \A i \in clears[u] : ~Chosen(u, i)'
      BY <3>1, <3>2, StackStays DEF Made, TypeOK
    <3> QED
      BY <1>1, <2>1, <3>3
  <2> QED
    BY <1>1, <1>2, <2>1, <2>2
<1>9. ASSUME NEW t \in Threads, Send(t) \/ Abort(t) PROVE Made'
  BY <1>1, <1>2, <1>9 DEF Send, Abort, timers
<1>10. CASE Tick \/ UNCHANGED vars
  BY <1>1, <1>2, <1>10 DEF Tick, vars, timers
<1> QED
  BY <1>4, <1>5, <1>6, <1>7, <1>8, <1>9, <1>10 DEF Next, Page

\* A step that starts and chooses nothing, puts no timer back and ends no function
\* before its timer is gone.
LEMMA NothingNew ==
  ASSUME Spent, UNCHANGED <<starts, kind>>, pending' \subseteq pending,
         \A i \in Timers : kind[i] = "once" /\ i \in pending' /\ i \in running => i \in running',
         \A u \in Threads, i \in Timers : kind[i] = "once" =>
           /\ Chosen(u, i)' => Chosen(u, i)
           /\ At(u, "end")' /\ Top(u)'.timer = i => i \notin pending'
  PROVE  Spent'
  BY DEF Spent, Threads

\* It is the case when no stack changes.
LEMMA QuietStep ==
  ASSUME TypeOK, Spent, UNCHANGED <<starts, kind, running, stack>>, pending' \subseteq pending
  PROVE  Spent'
<1>1. \A u \in Threads, i \in Timers :
       (Chosen(u, i)' => Chosen(u, i)) /\ (At(u, "end")' => At(u, "end")) /\ Top(u)' = Top(u)
  BY StackStays DEF Pcs
<1>2. \A u \in Threads, i \in Timers : kind[i] = "once" =>
       (At(u, "end")' /\ Top(u)'.timer = i => i \notin pending')
  BY <1>1 DEF Spent
<1> QED
  BY <1>1, <1>2, NothingNew

\* Or when one thread has a new innermost call and is at no end it had not come to.
LEMMA NextCall ==
  ASSUME TypeOK, Spent, NEW t \in Threads, stack[t] # <<>>, NEW f \in Frames, SetTop(t, f),
         UNCHANGED <<starts, kind>>, pending' \subseteq pending, f.pc # "decide",
         \A i \in Timers : kind[i] = "once" /\ i \in pending' =>
           (i \in running => i \in running') /\ ~(f.pc = "end" /\ f.timer = i)
  PROVE  Spent'
<1>1. \A u \in Threads \ {t} : stack'[u] = stack[u]
  BY DEF SetTop, TypeOK
<1>2. \A u \in Threads \ {t}, i \in Timers :
       (Chosen(u, i)' => Chosen(u, i)) /\ (At(u, "end")' => At(u, "end")) /\ Top(u)' = Top(u)
  BY <1>1, StackStays DEF Pcs
<1>3. \A i \in Timers : ~Chosen(t, i)' /\ (At(t, "end")' => f.pc = "end") /\ Top(t)' = f
  BY NewTop DEF Pcs
<1>4. \A u \in Threads, i \in Timers : kind[i] = "once" =>
       (At(u, "end")' /\ Top(u)'.timer = i => i \notin pending')
  BY <1>2, <1>3 DEF Spent
<1> QED
  BY <1>2, <1>3, <1>4, NothingNew

\* A timer that a thread chooses has run in none: it would run still, or be gone.
LEMMA ChosenIsFresh ==
  ASSUME TypeOK, Spent, NEW i \in pending \ running, kind[i] = "once"
  PROVE  \A t \in Threads : starts[t][i] = 0
<1>1. i \in Timers /\ \A u \in Threads : starts[u][i] \in Nat
  BY DEF TypeOK
<1> QED
  BY <1>1 DEF Spent

\* Nobody is about to start, or at the end of, what nobody has to do with.
LEMMA UnusedIsFree ==
  ASSUME TypeOK, NEW i \in Timers, Unused(i)
  PROVE  \A u \in Threads : ~Chosen(u, i) /\ ~(At(u, "end") /\ Top(u).timer = i)
<1> SUFFICES ASSUME NEW u \in Threads, stack[u] # <<>> PROVE Top(u).timer # i
  BY DEF Chosen, At
<1>1. Len(stack[u]) \in 1..Len(stack[u])
  BY DEF TypeOK
<1> QED
  BY <1>1 DEF Unused, Top, Length

LEMMA Spends == TypeOK /\ Nested /\ Exclusive /\ Made /\ Spent /\ [Next]_vars => Spent'
<1> SUFFICES ASSUME TypeOK, Nested, Exclusive, Made, Spent, [Next]_vars PROVE Spent'
  OBVIOUS
<1> USE EnvjsAssumption
<1>1. ASSUME NEW t \in Threads, SetTimer(t) PROVE Spent'
  <2>1. PICK i \in Timers, k \in {"once", "every"} :
          /\ Unused(i) /\ kind' = [kind EXCEPT ![i] = k] /\ pending' = pending \cup {i}
          /\ starts' = [u \in Threads |-> [starts[u] EXCEPT ![i] = 0]]
    BY <1>1 DEF SetTimer, Schedule
  <2>2. UNCHANGED <<running, stack>>
    BY <1>1 DEF SetTimer
  <2>3. /\ \A u \in Threads : starts'[u][i] = 0
        /\ \A u \in Threads, j \in Timers \ {i} : starts'[u][j] = starts[u][j]
    BY <2>1 DEF TypeOK
  <2>4. \A u \in Threads : ~Chosen(u, i) /\ ~(At(u, "end") /\ Top(u).timer = i)
    BY <2>1, UnusedIsFree
  <2>5. /\ \A u \in Threads, j \in Timers : Chosen(u, j)' <=> Chosen(u, j)
        /\ \A u \in Threads : Top(u)' = Top(u) /\ (At(u, "end")' <=> At(u, "end"))
    BY <2>2, StackStays DEF Pcs
  <2>6. \A j \in Timers \ {i} : kind'[j] = kind[j] /\ (j \in pending' <=> j \in pending)
    BY <2>1 DEF TypeOK
  <2>7. ASSUME NEW j \in Timers, kind'[j] = "once"
        PROVE  /\ \A u \in Threads :
                    /\ starts'[u][j] <= 1
                    /\ starts'[u][j] > 0 => j \notin pending' \/ j \in running'
                    /\ Chosen(u, j)' => starts'[u][j] = 0
                    /\ At(u, "end")' /\ Top(u)'.timer = j => j \notin pending'
               /\ \A r \in Requests : Chosen(r, j)' => \A q \in Requests : starts'[q][j] = 0
               /\ \A q, r \in Requests : starts'[q][j] > 0 /\ starts'[r][j] > 0 => q = r
    <3>1. CASE j = i
      BY <2>3, <2>4, <2>5, <3>1 DEF Threads
    <3>2. CASE j # i
      <4>1. kind[j] = "once" /\ (j \in pending' <=> j \in pending) /\ running' = running
        BY <2>2, <2>6, <2>7, <3>2
      <4>2. \A u \in Threads : starts'[u][j] = starts[u][j]
        BY <2>3, <3>2
      <4> QED
        BY <2>5, <4>1, <4>2 DEF Spent, Threads
    <3> QED
      BY <3>1, <3>2
  <2> QED
    BY <2>7 DEF Spent
<1>2. ASSUME NEW t \in Threads, ClearTimer(t) \/ Send(t) \/ Abort(t) PROVE Spent'
  BY <1>2, QuietStep DEF ClearTimer, Delete, Send, Abort, timers
<1>3. ASSUME NEW t \in Threads, UNCHANGED timers, UNCHANGED starts,
             \A u \in Threads \ {t} : stack'[u] = stack[u],
             \A i \in Timers : ~Chosen(t, i)' /\ ~At(t, "end")'
      PROVE  Spent'
  <2>1. \A u \in Threads \ {t}, i \in Timers :
         /\ Chosen(u, i)' => Chosen(u, i)
         /\ At(u, "end")' => At(u, "end")
         /\ Top(u)' = Top(u)
    BY <1>3, StackStays DEF Pcs
  <2>2. \A u \in Threads, i \in Timers : kind[i] = "once" =>
         (At(u, "end")' /\ Top(u)'.timer = i => i \notin pending')
    BY <1>3, <2>1 DEF Spent, timers
  <2> QED
    BY <1>3, <2>1, <2>2, NothingNew DEF timers
<1>4. ASSUME NEW t \in Threads, Wait(t) PROVE Spent'
  <2>1. PICK mode \in Modes : Push(t, Loop(mode))
    BY <1>4 DEF Wait
  <2>2. UNCHANGED timers /\ UNCHANGED starts /\ \A u \in Threads \ {t} : stack'[u] = stack[u]
    BY <1>4, <2>1 DEF Wait, Push, TypeOK
  <2> QED
    BY <1>3, <2>1, <2>2, NewCall
<1>5. ASSUME NEW t \in Threads, Go(t) PROVE Spent'
  <2>1. /\ stack[t] # <<>> /\ Top(t) \in Frames /\ Top(t).timer \in Timers \cup {None}
        /\ Top(t).mode \in Modes /\ Top(t).pc \in Pcs
    <3>1. stack[t] # <<>>
      BY <1>5, LoopsStay
    <3>2. Top(t) \in Frames
      BY <3>1 DEF TypeOK, Top, Length
    <3> QED
      BY <3>1, <3>2 DEF Frames
  <2>2. Top(t).pc \in {"call", "clear", "end"} => Top(t).timer \in Timers
    BY <2>1 DEF Nested, Top, Length, TypeOK
  <2>3. \A pc \in Pcs :
         LET f == [Top(t) EXCEPT !.pc = pc] IN f \in Frames /\ f.pc = pc /\ f.timer = Top(t).timer
    BY <2>1 DEF Frames
  <2>4. LET f == Loop(Top(t).mode) IN f \in Frames /\ f.pc = "select"
    BY <2>1 DEF Loop, Frames, Pcs
  <2>5. CASE Return(t)
    <3> DEFINE pc == IF kind[Top(t).timer] = "once" THEN "clear" ELSE "end"
               f  == [Top(t) EXCEPT !.pc = pc]
    <3>1. f \in Frames /\ f.timer = Top(t).timer /\ f.pc = pc
      BY <2>3 DEF Pcs
    <3>2. SetTop(t, f) /\ UNCHANGED timers /\ UNCHANGED starts
      BY <2>5 DEF Return
    <3>3. f.pc # "decide" /\ \A i \in Timers : kind[i] = "once" /\ f.timer = i => f.pc = "clear"
      BY <3>1
    <3> HIDE DEF f
    <3> QED
      BY <2>1, <3>1, <3>2, <3>3, NextCall DEF timers
  <2>6. CASE Select(t)
    <3>1. PICK i \in (pending \ running) \cup {None} :
            SetTop(t, [Top(t) EXCEPT !.pc = "decide", !.timer = i])
      BY <2>6 DEF Select
    <3> DEFINE f == [Top(t) EXCEPT !.pc = "decide", !.timer = i]
    <3>2. f \in Frames /\ f.pc = "decide" /\ f.timer = i /\ SetTop(t, f)
      BY <2>1, <3>1 DEF Frames, Pcs, TypeOK
    <3> HIDE DEF f
    <3>3. UNCHANGED timers /\ UNCHANGED starts /\ At(t, "select")
      BY <2>6 DEF Select
    <3>4. \A u \in Threads \ {t} : stack'[u] = stack[u]
      BY <3>2 DEF SetTop, TypeOK
    <3>5. \A u \in Threads \ {t}, j \in Timers :
           /\ Chosen(u, j)' => Chosen(u, j)
           /\ At(u, "end")' => At(u, "end")
           /\ Top(u)' = Top(u)
      BY <3>4, StackStays DEF Pcs
    <3>6. \A j \in Timers :
           /\ Chosen(t, j)' => j = i
           /\ ~At(t, "end")'
      BY <2>1, <3>2, <3>3, NewTop DEF At, Pcs
    <3>7. i \in Timers /\ kind[i] = "once" => \A u \in Threads : starts[u][i] = 0
      BY <3>1, ChosenIsFresh DEF Timers
    <3>8. ASSUME NEW j \in Timers, kind[j] = "once"
          PROVE  /\ \A u \in Threads :
                      /\ Chosen(u, j)' => starts[u][j] = 0
                      /\ At(u, "end")' /\ Top(u)'.timer = j => j \notin pending
                 /\ \A r \in Requests : Chosen(r, j)' => \A q \in Requests : starts[q][j] = 0
      BY <3>5, <3>6, <3>7, <3>8 DEF Spent, Threads
    <3> QED
      BY <3>3, <3>8 DEF Spent, timers
  <2>7. CASE Run(t)
    <3> DEFINE i == Top(t).timer
               f == [Top(t) EXCEPT !.pc = "call"]
    <3>1. /\ At(t, "decide") /\ i \in Timers /\ SetTop(t, f) /\ UNCHANGED <<pending, kind>>
          /\ running' = running \cup {i}
          /\ starts' = [starts EXCEPT ![t][i] = IF kind[i] = "once" THEN @ + 1 ELSE @]
      BY <2>1, <2>7 DEF Run
    <3>2. f \in Frames /\ f.pc = "call" /\ f.timer = i /\ Chosen(t, i)
      BY <2>3, <3>1 DEF Pcs, Chosen
    <3> HIDE DEF f, i
    <3>3. \A u \in Threads \ {t} : stack'[u] = stack[u]
      BY <3>1 DEF SetTop, TypeOK
    <3>4. \A u \in Threads \ {t}, j \in Timers :
           /\ Chosen(u, j)' => Chosen(u, j)
           /\ At(u, "end")' => At(u, "end")
           /\ Top(u)' = Top(u)
      BY <3>3, StackStays DEF Pcs
    <3>5. Top(t).pc = "decide"
      BY <3>1 DEF At
    <3>6. \A j \in Timers : ~Chosen(t, j)' /\ ~At(t, "end")'
      BY <2>1, <3>1, <3>2, <3>5, NewTop DEF Pcs
    <3>7. ASSUME NEW u \in Threads, NEW j \in Timers PROVE
            /\ starts'[u][j] = IF u = t /\ j = i /\ kind[i] = "once" THEN 1 ELSE starts[u][j]
      BY <3>1, <3>2 DEF Spent, TypeOK
    <3>8. ASSUME NEW r \in Requests, Chosen(r, i), t \in Requests PROVE r = t
      BY <3>1, <3>8 DEF Chosen, At, Exclusive
    <3>9. ASSUME NEW j \in Timers, kind[j] = "once"
           PROVE  /\ \A u \in Threads :
                       /\ starts'[u][j] <= 1
                       /\ starts'[u][j] > 0 => j \notin pending' \/ j \in running'
                       /\ Chosen(u, j)' => starts'[u][j] = 0
                       /\ At(u, "end")' /\ Top(u)'.timer = j => j \notin pending'
      BY <3>1, <3>4, <3>6, <3>7, <3>9 DEF Spent
    <3>10. ASSUME NEW j \in Timers, kind[j] = "once", NEW r \in Requests, Chosen(r, j)', NEW q \in Requests
           PROVE  starts'[q][j] = 0
      <4>1. r # t /\ Chosen(r, j)
        BY <3>4, <3>6, <3>10 DEF Threads
      <4>2. starts[q][j] = 0
        BY <3>10, <4>1 DEF Spent
      <4>3. ~(q = t /\ j = i)
        BY <3>8, <4>1
      <4> QED
        BY <3>7, <4>2, <4>3 DEF Threads
    <3>11. ASSUME NEW j \in Timers, kind[j] = "once", NEW q \in Requests, NEW r \in Requests,
                  starts'[q][j] > 0, starts'[r][j] > 0
           PROVE  q = r
      <4>1. t \in Requests => (kind[i] = "once" => \A p \in Requests : starts[p][i] = 0)
        BY <3>1, <3>2 DEF Spent
      <4> QED
        BY <3>1, <3>7, <3>11, <4>1 DEF Spent, Threads
    <3> QED
      BY <3>1, <3>9, <3>10, <3>11 DEF Spent
  <2>8. CASE ClearOnce(t)
    <3> DEFINE f == [Top(t) EXCEPT !.pc = "end"]
    <3>1. f \in Frames /\ f.timer = Top(t).timer /\ f.pc = "end"
      BY <2>3 DEF Pcs
    <3>2. SetTop(t, f) /\ pending' = pending \ {Top(t).timer} /\ UNCHANGED <<starts, kind, running>>
      BY <2>8 DEF ClearOnce, Delete
    <3> HIDE DEF f
    <3> QED
      BY <2>1, <3>1, <3>2, NextCall
  <2>9. CASE Rearm(t)
    <3> DEFINE f == Loop(Top(t).mode)
    <3>1. f \in Frames /\ f.pc = "select" /\ SetTop(t, f) /\ UNCHANGED <<starts, kind>>
      BY <2>4, <2>9 DEF Rearm
    <3> HIDE DEF f
    <3>2. /\ At(t, "end") /\ Top(t).pc = "end" /\ Top(t).timer \in Timers
          /\ pending' = pending /\ running' = running \ {Top(t).timer}
      BY <2>2, <2>9 DEF Rearm, At, Schedule
    <3>3. kind[Top(t).timer] = "once" => Top(t).timer \notin pending
      BY <3>2 DEF Spent
    <3> QED
      BY <2>1, <3>1, <3>2, <3>3, NextCall
  <2>10. CASE Sleep(t)
    <3> DEFINE f == Loop(Top(t).mode)
    <3>1. f \in Frames /\ f.pc = "select" /\ SetTop(t, f) /\ UNCHANGED <<starts, kind, pending, running>>
      BY <2>4, <2>10 DEF Sleep, timers
    <3> HIDE DEF f
    <3>2. Top(t).pc = "decide"
      BY <2>10 DEF Sleep, NotYet, At
    <3> QED
      BY <2>1, <3>1, <3>2, NextCall
  <2>11. CASE Break(t)
    <3>1. At(t, "decide") /\ Pop(t) /\ UNCHANGED timers /\ UNCHANGED starts
      BY <2>11 DEF Break, NotYet
    <3>2. \A u \in Threads \ {t} : stack'[u] = stack[u]
      BY <1>5, LoopsStay
    <3> QED
      BY <1>3, <3>1, <3>2, CallEnds
  <2> QED
    BY <1>5, <2>5, <2>6, <2>7, <2>8, <2>9, <2>10, <2>11 DEF Go
<1>6. ASSUME NEW r \in Requests, Request(r) PROVE Spent'
  <2>1. CASE UNCHANGED stack
    BY <1>6, <2>1, QuietStep DEF Request, Acquire, Connected, Handled, Dies, timers
  <2>2. CASE ~UNCHANGED stack
    <3>1. /\ stack[r] = <<>> /\ stack' = [stack EXCEPT ![r] = <<Loop("drain")>>]
          /\ UNCHANGED timers /\ UNCHANGED starts
      BY <1>6, <2>2 DEF Request, Acquire, Connected, Handled, Dies, Exclusive
    <3>2. stack'[r] = <<Loop("drain")>> /\ \A u \in Threads \ {r} : stack'[u] = stack[u]
      BY <3>1 DEF TypeOK, Threads
    <3>3. \A i \in Timers : ~Chosen(r, i)' /\ ~At(r, "end")'
      BY <3>2 DEF Chosen, At, Top, Length, Loop
    <3> QED
      BY <1>3, <3>1, <3>2, <3>3 DEF Threads
  <2> QED
    BY <2>1, <2>2
<1>7. CASE Tick \/ UNCHANGED vars
  BY <1>7, QuietStep DEF Tick, vars, timers
<1> QED
  BY <1>1, <1>2, <1>4, <1>5, <1>6, <1>7 DEF Next, Page

-----------------------------------------------------------------------------
LEMMA Begins == Init => IInv
<1> SUFFICES ASSUME Init PROVE IInv
  OBVIOUS
<1> USE EnvjsAssumption
<1>1. \A t \in Threads : stack[t] = <<>> /\ stack[t] \in Seq(Frames)
  BY DEF Init
<1>2. TypeOK
  BY <1>1 DEF Init, TypeOK, Threads
<1>3. Nested
  BY <1>1 DEF Nested
<1>4. Exclusive
  BY <1>1 DEF Init, Exclusive, Threads
<1>5. Made
  BY <1>1 DEF Init, Made
<1>6. Spent
  BY <1>1 DEF Init, Spent, Threads, Chosen, At
<1> QED
  BY <1>2, <1>3, <1>4, <1>5, <1>6 DEF IInv

\* The invariant that the others rest on: who may run a timer, who holds the lock, what
\* has been made, cleared and run.
THEOREM Invariant == Spec => []IInv
<1>1. IInv /\ [Next]_vars => IInv'
  BY Types, Nests, Excludes, Makes, Spends DEF IInv
<1> QED
  BY Begins, <1>1, PTL DEF Spec

\* Envjs.wait(): a function given to setTimeout() runs at most once in each thread and
\* in at most one thread of a request, however its loops and threads interleave.
THEOREM RunsOnce == Spec => []OnceEach
<1>1. IInv => OnceEach
  BY DEF IInv, Spent, OnceEach
<1> QED
  BY Invariant, <1>1, PTL

\* clearTimeout(): the thread that called it does not start the timer any more, whatever
\* loop it is in and whoever was to give the timer its next time.
THEOREM ClearedForGood == Spec => ClearedStays
<1>1. IInv /\ [Next]_vars => [\A t \in Threads : \A i \in clears[t] : ~Starts(t, i)]_vars
  BY DEF IInv, Made, Chosen, Starts
<1> QED
  BY Invariant, <1>1, PTL DEF Spec, ClearedStays

-----------------------------------------------------------------------------
(* No timer is left.  Whoever waits for a timer runs it or will look for   *)
(* one under the lock, and then finds it.                                  *)

InFunction == {"call", "clear", "end"}

\* t has called i's function, in its innermost wait() or an outer one.
Runs(t, i) ==
  \E n \in 1..Len(stack[t]) : stack[t][n].pc \in InFunction /\ stack[t][n].timer = i

\* The flag is set by one who runs it.
Flagged == \A i \in running : \E t \in Threads : Runs(t, i)

\* The outermost wait() of a request's thread waits for its timers.
Draining ==
  \A r \in Requests : phase[r] = "waiting" => stack[r] # <<>> /\ stack[r][1].mode = "drain"

\* The page's wait() has found no timer and is about to return.
Over ==
  /\ Len(stack[Main]) = 1
  /\ stack[Main][1].pc = "decide" /\ stack[Main][1].timer = None /\ stack[Main][1].mode = "drain"

\* So has a request's thread.
Last(r) ==
  /\ phase[r] = "waiting" /\ Len(stack[r]) = 1
  /\ stack[r][1].pc = "decide" /\ stack[r][1].timer = None

Quiet == left \cap Requests = {} /\ (Main \in left => Over)
Busy  == \E r \in Requests : phase[r] \in {"handler", "waiting"}

\* The timers are those of the request that has the lock; the page runs none.
Settled == Quiet =>
  /\ ~Busy => pending = {}
  /\ \A i \in Timers : ~Runs(Main, i)
  /\ At(Main, "decide") => Top(Main).timer = None
  /\ \A r \in Requests : Last(r) => pending = {}

LInv == Flagged /\ Draining /\ Settled

-----------------------------------------------------------------------------
(* A step of a loop.                                                       *)

LEMMA TopIs ==
  ASSUME TypeOK, Nested, NEW t \in Threads, stack[t] # <<>>
  PROVE  /\ Len(stack[t]) \in Nat /\ Len(stack[t]) >= 1 /\ Len(stack[t]) \in 1..Len(stack[t])
         /\ Top(t) = stack[t][Len(stack[t])] /\ Top(t) \in Frames
         /\ Top(t).timer \in Timers \cup {None} /\ Top(t).mode \in Modes /\ Top(t).pc \in Pcs
         /\ Top(t).pc \in InFunction => Top(t).timer \in Timers /\ Runs(t, Top(t).timer)
         /\ \A pc \in Pcs : At(t, pc) <=> Top(t).pc = pc
<1>1. Len(stack[t]) \in Nat /\ Len(stack[t]) >= 1 /\ Len(stack[t]) \in 1..Len(stack[t])
  BY DEF TypeOK
<1>2. Top(t) = stack[t][Len(stack[t])] /\ Top(t) \in Frames
  BY <1>1 DEF TypeOK, Top, Length
<1>3. Top(t).pc \in InFunction => Top(t).timer \in Timers /\ Runs(t, Top(t).timer)
  BY <1>1, <1>2 DEF Nested, InFunction, Runs
<1> QED
  BY <1>1, <1>2, <1>3 DEF Frames, At

\* It chooses a timer that does not run, or none if there is none;
Looks(t, f) ==
  /\ At(t, "select") /\ Locks(t) /\ f.pc = "decide"
  /\ \/ f.timer = None /\ pending \subseteq running
     \/ f.timer \in pending \ running
  /\ running' = running

\* it calls its function;
Calls(t, f) ==
  /\ At(t, "decide") /\ Top(t).timer \in Timers /\ f.pc = "call" /\ f.timer = Top(t).timer
  /\ running' = running \cup {Top(t).timer}

\* the function returns, or its timer is cleared;
Works(t, f) ==
  /\ Top(t).pc \in {"call", "clear"} /\ f.pc \in {"clear", "end"} /\ f.timer = Top(t).timer
  /\ running' = running

\* it starts over.
Turns(t, f) ==
  /\ f.pc = "select" /\ f.timer = None
  /\ \/ At(t, "end") /\ running' = running \ {Top(t).timer}
     \/ At(t, "decide") /\ running' = running /\ ~Ends(t)

Turn(t, f) ==
  /\ SetTop(t, f) /\ f.mode = Top(t).mode
  /\ pending' \subseteq pending /\ UNCHANGED <<phase, left, lock>>
  /\ Looks(t, f) \/ Calls(t, f) \/ Works(t, f) \/ Turns(t, f)

LEMMA LoopTurns ==
  ASSUME TypeOK, Nested, NEW t \in Threads, Go(t), ~Break(t)
  PROVE  stack[t] # <<>> /\ \E f \in Frames : Turn(t, f)
<1> USE EnvjsAssumption
<1>1. stack[t] # <<>>
  BY LoopsStay
<1>2. /\ Top(t) \in Frames /\ Top(t).timer \in Timers \cup {None} /\ Top(t).mode \in Modes
      /\ \A pc \in Pcs : At(t, pc) <=> Top(t).pc = pc
  BY <1>1, TopIs
<1>3. ASSUME NEW pc \in Pcs
      PROVE  LET f == [Top(t) EXCEPT !.pc = pc]
             IN  f \in Frames /\ f.pc = pc /\ f.timer = Top(t).timer /\ f.mode = Top(t).mode
  BY <1>2 DEF Frames
<1>4. LET f == Loop(Top(t).mode)
      IN  f \in Frames /\ f.pc = "select" /\ f.timer = None /\ f.mode = Top(t).mode
  BY <1>2 DEF Loop, Frames, Pcs
<1>5. CASE Return(t)
  <2> DEFINE pc == IF kind[Top(t).timer] = "once" THEN "clear" ELSE "end"
             f  == [Top(t) EXCEPT !.pc = pc]
  <2>1. f \in Frames /\ f.pc = pc /\ f.timer = Top(t).timer /\ f.mode = Top(t).mode
    BY <1>3 DEF Pcs
  <2>2. SetTop(t, f) /\ Top(t).pc = "call" /\ UNCHANGED <<pending, running, phase, left, lock>>
    BY <1>5 DEF Return, timers, At
  <2>3. f.pc \in {"clear", "end"}
    BY <2>1
  <2> HIDE DEF f
  <2>4. Turn(t, f)
    BY <2>1, <2>2, <2>3 DEF Turn, Works
  <2> QED
    BY <1>1, <2>1, <2>4
<1>6. CASE Select(t)
  <2>1. PICK i : /\ SetTop(t, [Top(t) EXCEPT !.pc = "decide", !.timer = i])
                 /\ \/ i = None /\ pending \ running = {}
                    \/ i \in pending \ running
    BY <1>6 DEF Select
  <2> DEFINE f == [Top(t) EXCEPT !.pc = "decide", !.timer = i]
  <2>2. i \in Timers \cup {None}
    BY <2>1 DEF TypeOK
  <2>3. f \in Frames /\ f.pc = "decide" /\ f.timer = i /\ f.mode = Top(t).mode
    BY <1>2, <2>2 DEF Frames, Pcs
  <2>4. SetTop(t, f)
    BY <2>1
  <2> HIDE DEF f
  <2>5. At(t, "select") /\ Locks(t) /\ UNCHANGED <<pending, running, phase, left, lock>>
    BY <1>6 DEF Select, timers
  <2>6. Turn(t, f)
    BY <2>1, <2>3, <2>4, <2>5 DEF Turn, Looks
  <2> QED
    BY <1>1, <2>3, <2>6
<1>7. CASE Run(t)
  <2> DEFINE f == [Top(t) EXCEPT !.pc = "call"]
  <2>1. f \in Frames /\ f.pc = "call" /\ f.timer = Top(t).timer /\ f.mode = Top(t).mode
    BY <1>3 DEF Pcs
  <2>2. SetTop(t, f)
    BY <1>7 DEF Run
  <2> HIDE DEF f
  <2>3. /\ At(t, "decide") /\ Top(t).timer \in Timers /\ running' = running \cup {Top(t).timer}
        /\ UNCHANGED <<pending, phase, left, lock>>
    BY <1>2, <1>7 DEF Run
  <2>4. Turn(t, f)
    BY <2>1, <2>2, <2>3 DEF Turn, Calls
  <2> QED
    BY <1>1, <2>1, <2>4
<1>8. CASE ClearOnce(t)
  <2> DEFINE f == [Top(t) EXCEPT !.pc = "end"]
  <2>1. f \in Frames /\ f.pc = "end" /\ f.timer = Top(t).timer /\ f.mode = Top(t).mode
    BY <1>3 DEF Pcs
  <2>2. SetTop(t, f)
    BY <1>8 DEF ClearOnce
  <2> HIDE DEF f
  <2>3. Top(t).pc = "clear" /\ pending' \subseteq pending /\ UNCHANGED <<running, phase, left, lock>>
    BY <1>8 DEF ClearOnce, Delete, At
  <2>4. Turn(t, f)
    BY <2>1, <2>2, <2>3 DEF Turn, Works
  <2> QED
    BY <1>1, <2>1, <2>4
<1>9. CASE Rearm(t) \/ Sleep(t)
  <2> DEFINE f == Loop(Top(t).mode)
  <2>1. f \in Frames /\ f.pc = "select" /\ f.timer = None /\ f.mode = Top(t).mode
    BY <1>4
  <2>2. SetTop(t, f)
    BY <1>9 DEF Rearm, Sleep
  <2> HIDE DEF f
  <2>3. UNCHANGED <<phase, left, lock>>
    BY <1>9 DEF Rearm, Sleep
  <2>4. /\ pending' \subseteq pending
        /\ \/ At(t, "end") /\ running' = running \ {Top(t).timer}
           \/ At(t, "decide") /\ running' = running /\ ~Ends(t)
    BY <1>9 DEF Rearm, Schedule, Sleep, NotYet, timers
  <2>5. Turn(t, f)
    BY <2>1, <2>2, <2>3, <2>4 DEF Turn, Turns
  <2> QED
    BY <1>1, <2>1, <2>5
<1> QED
  BY <1>5, <1>6, <1>7, <1>8, <1>9 DEF Go

-----------------------------------------------------------------------------
(* Who runs what, when a stack changes.                                    *)

LEMMA RunsStay ==
  ASSUME NEW u \in Threads, stack'[u] = stack[u]
  PROVE  \A i \in Timers : Runs(u, i)' <=> Runs(u, i)
BY DEF Runs

LEMMA RunsSet ==
  ASSUME TypeOK, NEW t \in Threads, stack[t] # <<>>, NEW f \in Frames, SetTop(t, f), NEW i \in Timers
  PROVE  /\ Runs(t, i)' => Runs(t, i) \/ (f.pc \in InFunction /\ f.timer = i)
         /\ f.pc \in InFunction /\ f.timer = i => Runs(t, i)'
         /\ Runs(t, i) => Runs(t, i)' \/ (Top(t).pc \in InFunction /\ Top(t).timer = i)
<1>1. /\ Len(stack'[t]) = Len(stack[t]) /\ stack'[t][Len(stack[t])] = f
      /\ \A n \in 1..Len(stack[t]) : n < Len(stack[t]) => stack'[t][n] = stack[t][n]
  BY TopIsSet DEF TypeOK
<1>2. Len(stack[t]) \in Nat /\ Len(stack[t]) \in 1..Len(stack[t])
  BY DEF TypeOK
<1>3. \A n \in 1..Len(stack[t]) : n = Len(stack[t]) \/ n < Len(stack[t])
  BY <1>2
<1>4. Runs(t, i)' => Runs(t, i) \/ (f.pc \in InFunction /\ f.timer = i)
  BY <1>1, <1>3 DEF Runs
<1>5. f.pc \in InFunction /\ f.timer = i => Runs(t, i)'
  BY <1>1, <1>2 DEF Runs
<1>6. Runs(t, i) => Runs(t, i)' \/ (Top(t).pc \in InFunction /\ Top(t).timer = i)
  BY <1>1, <1>3 DEF Runs, Top, Length
<1> QED
  BY <1>4, <1>5, <1>6

LEMMA RunsPushed ==
  ASSUME TypeOK, NEW t \in Threads, NEW mode \in Modes, Push(t, Loop(mode)), NEW i \in Timers
  PROVE  Runs(t, i)' <=> Runs(t, i)
<1>1. Loop(mode) \in Frames /\ Loop(mode).pc \notin InFunction
  BY DEF Loop, Frames, Pcs, InFunction
<1>2. /\ Len(stack'[t]) = Len(stack[t]) + 1 /\ stack'[t][Len(stack[t]) + 1] = Loop(mode)
      /\ \A n \in 1..Len(stack[t]) : stack'[t][n] = stack[t][n]
  BY <1>1, CallIsPushed DEF TypeOK
<1>3. Len(stack[t]) \in Nat
  BY DEF TypeOK
<1>4. /\ \A n \in 1..(Len(stack[t]) + 1) : n = Len(stack[t]) + 1 \/ n \in 1..Len(stack[t])
      /\ \A n \in 1..Len(stack[t]) : n \in 1..(Len(stack[t]) + 1)
  BY <1>3
<1> QED
  BY <1>1, <1>2, <1>4 DEF Runs

LEMMA RunsPopped ==
  ASSUME TypeOK, NEW t \in Threads, At(t, "decide"), Pop(t), NEW i \in Timers
  PROVE  Runs(t, i)' <=> Runs(t, i)
<1>1. /\ Len(stack'[t]) = Len(stack[t]) - 1
      /\ \A n \in 1..(Len(stack[t]) - 1) : stack'[t][n] = stack[t][n]
  BY CallIsPopped DEF TypeOK, At
<1>2. Len(stack[t]) \in Nat
  BY DEF TypeOK
<1>3. /\ \A n \in 1..Len(stack[t]) : n = Len(stack[t]) \/ n \in 1..(Len(stack[t]) - 1)
      /\ \A n \in 1..(Len(stack[t]) - 1) : n \in 1..Len(stack[t])
  BY <1>2
<1>4. stack[t][Len(stack[t])].pc \notin InFunction
  BY DEF At, Top, Length, InFunction
<1> QED
  BY <1>1, <1>3, <1>4 DEF Runs

-----------------------------------------------------------------------------
(* The flags, and the modes.                                               *)

LEMMA Flags == TypeOK /\ Nested /\ Exclusive /\ Flagged /\ [Next]_vars => Flagged'
<1> SUFFICES ASSUME TypeOK, Nested, Exclusive, Flagged, [Next]_vars PROVE Flagged'
  OBVIOUS
<1>1. running \subseteq Timers
  BY DEF TypeOK
<1>2. ASSUME running' \subseteq running, \A u \in Threads, i \in Timers : Runs(u, i)' <=> Runs(u, i)
      PROVE  Flagged'
  BY <1>1, <1>2 DEF Flagged
<1>3. ASSUME NEW t \in Threads, SetTimer(t) \/ ClearTimer(t) \/ Send(t) \/ Abort(t) PROVE Flagged'
  BY <1>2, <1>3, RunsStay DEF SetTimer, ClearTimer, Send, Abort, timers
<1>4. ASSUME NEW t \in Threads, Wait(t) PROVE Flagged'
  <2>1. PICK mode \in Modes : Push(t, Loop(mode))
    BY <1>4 DEF Wait
  <2>2. \A u \in Threads \ {t} : stack'[u] = stack[u]
    BY <2>1 DEF Push, TypeOK
  <2>3. running' = running
    BY <1>4 DEF Wait, timers
  <2> QED
    BY <1>2, <2>1, <2>2, <2>3, RunsStay, RunsPushed
<1>5. ASSUME NEW t \in Threads, Go(t) PROVE Flagged'
  <2>1. \A u \in Threads \ {t}, i \in Timers : Runs(u, i)' <=> Runs(u, i)
    BY <1>5, LoopsStay, RunsStay
  <2>2. CASE Break(t)
    <3>1. At(t, "decide") /\ Pop(t) /\ running' = running
      BY <2>2 DEF Break, NotYet, timers
    <3> QED
      BY <1>2, <2>1, <3>1, RunsPopped
  <2>3. CASE ~Break(t)
    <3>1. PICK f \in Frames : Turn(t, f)
      BY <1>5, <2>3, LoopTurns
    <3>2. stack[t] # <<>> /\ SetTop(t, f)
      BY <1>5, <2>3, <3>1, LoopTurns DEF Turn
    <3>3. \A pc \in Pcs : At(t, pc) <=> Top(t).pc = pc
      BY <3>2, TopIs
    <3>4. ASSUME NEW i \in Timers, Runs(t, i), i \in running' PROVE Runs(t, i)'
      <4>1. SUFFICES ASSUME Top(t).pc \in InFunction, Top(t).timer = i PROVE Runs(t, i)'
        BY <3>2, <3>4, RunsSet
      <4>2. f.pc \in InFunction /\ f.timer = i
        BY <3>1, <3>3, <3>4, <4>1 DEF Turn, Looks, Calls, Works, Turns, InFunction, Pcs
      <4> QED
        BY <3>2, <4>2, RunsSet
    <3>5. ASSUME NEW i \in Timers, i \in running' \ running PROVE Runs(t, i)'
      <4>1. f.pc \in InFunction /\ f.timer = i
        BY <3>1, <3>5 DEF Turn, Looks, Calls, Works, Turns, InFunction
      <4> QED
        BY <3>2, <4>1, RunsSet
    <3>6. running' \subseteq Timers
      BY <1>1, <3>1 DEF Turn, Looks, Calls, Works, Turns
    <3>7. ASSUME NEW i \in running' PROVE \E u \in Threads : Runs(u, i)'
      <4>1. CASE i \in running
        <5>1. PICK u \in Threads : Runs(u, i)
          BY <4>1 DEF Flagged
        <5> QED
          BY <2>1, <3>4, <3>6, <3>7, <5>1
      <4>2. CASE i \notin running
        BY <3>5, <3>6, <3>7, <4>2
      <4> QED
        BY <4>1, <4>2
    <3> QED
      BY <3>7 DEF Flagged
  <2> QED
    BY <2>2, <2>3
<1>6. ASSUME NEW r \in Requests, Request(r) PROVE Flagged'
  <2>1. running' = running
    BY <1>6 DEF Request, Acquire, Connected, Handled, Dies, timers
  <2>2. CASE UNCHANGED stack
    BY <1>2, <2>1, <2>2, RunsStay
  <2>3. CASE ~UNCHANGED stack
    <3>1. stack[r] = <<>> /\ stack' = [stack EXCEPT ![r] = <<Loop("drain")>>]
      BY <1>6, <2>3 DEF Request, Acquire, Connected, Handled, Dies, Exclusive
    <3>2. stack'[r] = <<Loop("drain")>> /\ \A u \in Threads \ {r} : stack'[u] = stack[u]
      BY <3>1 DEF TypeOK, Threads
    <3>3. \A i \in Timers : ~Runs(r, i)' /\ ~Runs(r, i)
      BY <3>1, <3>2 DEF Runs, Loop, InFunction
    <3> QED
      BY <1>2, <2>1, <3>2, <3>3, RunsStay
  <2> QED
    BY <2>2, <2>3
<1>7. CASE Tick \/ UNCHANGED vars
  BY <1>2, <1>7, RunsStay DEF Tick, vars, timers
<1> QED
  BY <1>3, <1>4, <1>5, <1>6, <1>7 DEF Next, Page

\* What a step makes of the outermost wait() of its thread.
LEMMA Outermost ==
  ASSUME TypeOK, Nested, NEW t \in Threads, stack[t] # <<>>, NEW f \in Frames, SetTop(t, f)
  PROVE  /\ Len(stack'[t]) = Len(stack[t]) /\ stack'[t] # <<>>
         /\ Len(stack[t]) = 1 => stack[t][1] = Top(t) /\ stack'[t][1] = f
         /\ Len(stack[t]) # 1 => stack'[t][1] = stack[t][1]
<1>1. /\ Len(stack'[t]) = Len(stack[t]) /\ stack'[t] # <<>> /\ stack'[t][Len(stack[t])] = f
      /\ \A n \in 1..Len(stack[t]) : n < Len(stack[t]) => stack'[t][n] = stack[t][n]
  BY TopIsSet DEF TypeOK
<1>2. Len(stack[t]) \in Nat /\ Len(stack[t]) >= 1
  BY TopIs
<1>3. Len(stack[t]) # 1 => 1 \in 1..Len(stack[t]) /\ 1 < Len(stack[t])
  <2>1. \A k \in Nat : k >= 1 /\ k # 1 => 1 \in 1..k /\ 1 < k
    OBVIOUS
  <2> QED
    BY <1>2, <2>1
<1>4. Len(stack[t]) = 1 => stack[t][1] = Top(t) /\ stack'[t][1] = f
  BY <1>1 DEF Top, Length
<1>5. Len(stack[t]) # 1 => stack'[t][1] = stack[t][1]
  BY <1>1, <1>3
<1> QED
  BY <1>1, <1>4, <1>5

LEMMA OutermostPopped ==
  ASSUME TypeOK, Nested, NEW t \in Threads, At(t, "decide"), Pop(t)
  PROVE  /\ Len(stack'[t]) = Len(stack[t]) - 1 /\ Len(stack[t]) \in Nat /\ Len(stack[t]) >= 1
         /\ Len(stack[t]) = 1 => stack'[t] = <<>> /\ stack[t][1] = Top(t)
         /\ Len(stack[t]) # 1 => stack'[t] # <<>> /\ stack'[t][1] = stack[t][1] /\ stack[t][1].pc = "call"
<1>1. /\ stack' \in [Threads -> Seq(Frames)] /\ Len(stack'[t]) = Len(stack[t]) - 1
      /\ \A n \in 1..(Len(stack[t]) - 1) : stack'[t][n] = stack[t][n]
  BY CallIsPopped DEF TypeOK, At
<1>2. Len(stack[t]) \in Nat /\ Len(stack[t]) >= 1
  BY TopIs DEF At
<1>3. Len(stack[t]) # 1 =>
        /\ 1 \in 1..(Len(stack[t]) - 1) /\ 1 \in 1..Len(stack[t]) /\ 1 < Len(stack[t])
        /\ Len(stack[t]) - 1 # 0
  <2>1. \A k \in Nat : k >= 1 /\ k # 1 => 1 \in 1..(k - 1) /\ 1 \in 1..k /\ 1 < k /\ k - 1 # 0
    OBVIOUS
  <2> QED
    BY <1>2, <2>1
<1>4. Len(stack[t]) # 1 => stack'[t] # <<>> /\ stack'[t][1] = stack[t][1] /\ stack[t][1].pc = "call"
  BY <1>1, <1>3 DEF Nested
<1>5. Len(stack[t]) = 1 => stack'[t] = <<>> /\ stack[t][1] = Top(t)
  BY <1>1 DEF Top, Length
<1> QED
  BY <1>1, <1>2, <1>4, <1>5

LEMMA OutermostPushed ==
  ASSUME TypeOK, NEW t \in Threads, NEW mode \in Modes, Push(t, Loop(mode))
  PROVE  /\ stack'[t] # <<>>
         /\ stack[t] # <<>> => stack'[t][1] = stack[t][1] /\ Len(stack'[t]) # 1
         /\ stack[t] = <<>> => stack'[t][1] = Loop(mode)
         /\ Top(t)' = Loop(mode)
<1>1. Loop(mode) \in Frames
  BY DEF Loop, Frames, Pcs
<1>2. /\ Len(stack'[t]) = Len(stack[t]) + 1 /\ stack'[t] # <<>> /\ stack'[t][Len(stack[t]) + 1] = Loop(mode)
      /\ \A n \in 1..Len(stack[t]) : stack'[t][n] = stack[t][n]
  BY <1>1, CallIsPushed DEF TypeOK
<1>3. Len(stack[t]) \in Nat /\ stack[t] \in Seq(Frames)
  BY DEF TypeOK
<1>4. stack[t] # <<>> => 1 \in 1..Len(stack[t]) /\ Len(stack[t]) + 1 # 1
  BY <1>3
<1>5. stack[t] = <<>> => Len(stack[t]) + 1 = 1
  OBVIOUS
<1>6. Top(t)' = Loop(mode)
  BY <1>2 DEF Top, Length
<1> QED
  BY <1>2, <1>4, <1>5, <1>6

LEMMA Drains == TypeOK /\ Nested /\ Exclusive /\ Draining /\ [Next]_vars => Draining'
<1> SUFFICES ASSUME TypeOK, Nested, Exclusive, Draining, [Next]_vars PROVE Draining'
  OBVIOUS
<1>1. ASSUME UNCHANGED stack, \A r \in Requests : phase'[r] = "waiting" => phase[r] = "waiting"
      PROVE  Draining'
  BY <1>1 DEF Draining
<1>2. ASSUME NEW t \in Threads, SetTimer(t) \/ ClearTimer(t) \/ Send(t) \/ Abort(t) PROVE Draining'
  <2>1. UNCHANGED stack /\ \A r \in Requests : phase'[r] = "waiting" => phase[r] = "waiting"
    BY <1>2 DEF SetTimer, ClearTimer, Send, Abort, TypeOK, Threads
  <2> QED
    BY <1>1, <2>1
<1>3. ASSUME NEW t \in Threads, Wait(t) PROVE Draining'
  <2>1. PICK mode \in Modes : Push(t, Loop(mode))
    BY <1>3 DEF Wait
  <2>2. phase' = phase /\ \A u \in Threads \ {t} : stack'[u] = stack[u]
    BY <1>3, <2>1 DEF Wait, Push, TypeOK
  <2> QED
    BY <2>1, <2>2, OutermostPushed DEF Draining, Threads
<1>4. ASSUME NEW t \in Threads, Go(t) PROVE Draining'
  <2>1. \A u \in Threads \ {t} : stack'[u] = stack[u]
    BY <1>4, LoopsStay
  <2>2. CASE Break(t)
    <3>1. At(t, "decide") /\ Pop(t)
      BY <2>2 DEF Break, NotYet
    <3>2. CASE phase[t] = "waiting" /\ Length(t) = 1
      <4>1. phase'[t] = "ended" /\ \A u \in Threads \ {t} : phase'[u] = phase[u]
        BY <2>2, <3>2 DEF Break, TypeOK
      <4> QED
        BY <2>1, <4>1 DEF Draining, Threads
    <3>3. CASE ~(phase[t] = "waiting" /\ Length(t) = 1)
      <4>1. phase' = phase
        BY <2>2, <3>3 DEF Break
      <4> QED
        BY <2>1, <3>1, <3>3, <4>1, OutermostPopped DEF Draining, Threads, Length
    <3> QED
      BY <3>2, <3>3
  <2>3. CASE ~Break(t)
    <3>1. PICK f \in Frames : Turn(t, f)
      BY <1>4, <2>3, LoopTurns
    <3>2. stack[t] # <<>> /\ SetTop(t, f) /\ f.mode = Top(t).mode /\ phase' = phase
      BY <1>4, <2>3, <3>1, LoopTurns DEF Turn
    <3>3. stack'[t] # <<>> /\ stack'[t][1].mode = stack[t][1].mode
      BY <3>2, Outermost
    <3> QED
      BY <2>1, <3>2, <3>3 DEF Draining, Threads
  <2> QED
    BY <2>2, <2>3
<1>5. ASSUME NEW r \in Requests, Request(r) PROVE Draining'
  <2>1. CASE Acquire(r) \/ Dies(r)
    <3>1. UNCHANGED stack /\ \A q \in Requests : phase'[q] = "waiting" => phase[q] = "waiting"
      BY <2>1 DEF Acquire, Dies, TypeOK, Threads
    <3> QED
      BY <1>1, <3>1
  <2>2. CASE Connected(r) \/ Handled(r)
    <3>1. \A q \in Requests \ {r} : phase'[q] = phase[q] /\ stack'[q] = stack[q]
      BY <2>2 DEF Connected, Handled, TypeOK, Threads
    <3>2. phase'[r] = "waiting" => stack'[r] = <<Loop("drain")>>
      BY <2>2 DEF Connected, Handled, TypeOK, Threads
    <3>3. <<Loop("drain")>> # <<>> /\ <<Loop("drain")>>[1].mode = "drain"
      BY DEF Loop
    <3> QED
      BY <3>1, <3>2, <3>3 DEF Draining
  <2> QED
    BY <1>5, <2>1, <2>2 DEF Request
<1>6. CASE Tick \/ UNCHANGED vars
  BY <1>1, <1>6 DEF Tick, vars
<1> QED
  BY <1>2, <1>3, <1>4, <1>5, <1>6 DEF Next, Page

-----------------------------------------------------------------------------
(* Nothing is left.                                                        *)

\* A step that sets no timer, and by which no wait() comes or goes.
LEMMA NothingSet ==
  ASSUME Settled, UNCHANGED stack, pending' \subseteq pending,
         Quiet' => Quiet, Quiet' /\ Busy => Busy',
         \A r \in Requests : phase'[r] = "waiting" => phase[r] = "waiting"
  PROVE  Settled'
<1> SUFFICES ASSUME Quiet' PROVE
      /\ ~Busy' => pending' = {}
      /\ \A i \in Timers : ~Runs(Main, i)'
      /\ At(Main, "decide")' => Top(Main)'.timer = None
      /\ \A r \in Requests : Last(r)' => pending' = {}
  BY DEF Settled
<1>1. \A i \in Timers : ~Runs(Main, i)'
  BY RunsStay DEF Settled, Threads
<1>2. At(Main, "decide")' => Top(Main)'.timer = None
  BY StackStays DEF Settled, Threads, Pcs
<1>3. \A r \in Requests : Last(r)' => pending' = {}
  BY DEF Settled, Last
<1> QED
  BY <1>1, <1>2, <1>3 DEF Settled

\* A thread other than the page's does not change what that waits for.
LEMMA QuietBefore ==
  ASSUME stack'[Main] = stack[Main], left \subseteq left', Quiet'
  PROVE  Quiet
BY DEF Quiet, Over

\* The lock is one request's at most.
LEMMA OneBusy ==
  ASSUME Exclusive, NEW r \in Requests, phase[r] \in {"connecting", "handler", "waiting"}
  PROVE  \A q \in Requests \ {r} : phase[q] \notin {"connecting", "handler", "waiting"}
BY DEF Exclusive

\* A timer that is set is the page's, which then has to wait, or that of a request
\* that has yet to.
LEMMA SettlesSet ==
  ASSUME TypeOK, Nested, Exclusive, Settled, NEW t \in Threads, SetTimer(t)
  PROVE  Settled'
<1> SUFFICES ASSUME Quiet' PROVE
      /\ ~Busy' => pending' = {}
      /\ \A i \in Timers : ~Runs(Main, i)'
      /\ At(Main, "decide")' => Top(Main)'.timer = None
      /\ \A r \in Requests : Last(r)' => pending' = {}
  BY DEF Settled
<1>1. InPage(t) /\ UNCHANGED <<stack, phase>> /\ left' = left \cup ({t} \cap {Main})
  BY DEF SetTimer
<1>2. t # Main
  <2> SUFFICES ASSUME t = Main PROVE FALSE
    OBVIOUS
  <2>1. stack[Main] # <<>> => At(Main, "call")
    BY <1>1 DEF InPage
  <2>2. ~Over
    BY <2>1 DEF Over, At, Top, Length, TypeOK, Threads
  <2>3. ~Over'
    BY <1>1, <2>2 DEF Over
  <2> QED
    BY <1>1, <2>3 DEF Quiet
<1>3. t \in Requests /\ phase[t] \in {"handler", "waiting"}
  BY <1>1, <1>2 DEF Threads, InPage, Exclusive, At
<1>4. Quiet
  BY <1>1, QuietBefore
<1>5. Busy'
  BY <1>1, <1>3 DEF Busy
<1>6. \A i \in Timers : ~Runs(Main, i)'
  BY <1>1, <1>4, RunsStay DEF Settled, Threads
<1>7. At(Main, "decide")' => Top(Main)'.timer = None
  BY <1>1, <1>4, StackStays DEF Settled, Threads, Pcs
<1>8. \A r \in Requests : ~Last(r)'
  <2>1. ~Last(t)
    BY <1>1 DEF Last, InPage, At, Top, Length
  <2>2. \A r \in Requests \ {t} : ~Last(r)
    BY <1>3, OneBusy DEF Last
  <2> QED
    BY <1>1, <2>1, <2>2 DEF Last
<1> QED
  BY <1>5, <1>6, <1>7, <1>8

\* When somebody finds no timer under the lock, there is none: the page does not run
\* one unless it has to wait yet.
LEMMA NoneFound ==
  ASSUME TypeOK, Nested, Exclusive, Flagged, NEW t \in Threads, At(t, "select"), Len(stack[t]) = 1,
         pending \subseteq running,
         t # Main => phase[t] \in {"handler", "waiting"} /\ \A i \in Timers : ~Runs(Main, i),
         t = Main => ~Busy
  PROVE  pending = {}
<1> SUFFICES ASSUME NEW i \in pending PROVE FALSE
  OBVIOUS
<1>1. i \in Timers /\ i \in running
  BY DEF TypeOK
<1>2. PICK u \in Threads : Runs(u, i)
  BY <1>1 DEF Flagged
<1>3. u # t
  <2>1. stack[t][1].pc = "select"
    BY DEF At, Top, Length
  <2>2. ~Runs(t, i)
    BY <2>1 DEF Runs, InFunction
  <2> QED
    BY <1>2, <2>2
<1>4. u # Main
  BY <1>1, <1>2, <1>3
<1>5. u \in Requests /\ stack[u] # <<>>
  <2>1. stack[u] # <<>>
    BY <1>2 DEF Runs
  <2> QED
    BY <1>4, <2>1 DEF Threads
<1>6. phase[u] \in {"handler", "waiting"}
  BY <1>5 DEF Exclusive
<1>7. t # Main
  BY <1>5, <1>6 DEF Busy
<1>8. t \in Requests
  BY <1>7 DEF Threads
<1> QED
  BY <1>3, <1>5, <1>6, <1>7, <1>8, OneBusy

\* A request's thread in its loops.
LEMMA SettlesRequest ==
  ASSUME TypeOK, Nested, Exclusive, Flagged, Draining, Settled, NEW r \in Requests, Go(r) \/ Wait(r)
  PROVE  Settled'
<1> USE EnvjsAssumption
<1> SUFFICES ASSUME Quiet' PROVE
      /\ ~Busy' => pending' = {}
      /\ \A i \in Timers : ~Runs(Main, i)'
      /\ At(Main, "decide")' => Top(Main)'.timer = None
      /\ \A q \in Requests : Last(q)' => pending' = {}
  BY DEF Settled
<1>1. r \in Threads /\ Main \in Threads /\ r # Main
  BY DEF Threads
<1>2. \A u \in Threads \ {r} : stack'[u] = stack[u]
  BY <1>1, LoopsStay DEF Wait, Push, TypeOK
<1>3. left' = left /\ pending' \subseteq pending
  <2>1. CASE Go(r) /\ ~Break(r)
    BY <1>1, <2>1, LoopTurns DEF Turn
  <2>2. CASE Break(r) \/ Wait(r)
    BY <1>1, <2>2 DEF Break, Wait, timers
  <2> QED
    BY <2>1, <2>2
<1>4. Quiet
  BY <1>1, <1>2, <1>3, QuietBefore
<1>5. \A i \in Timers : ~Runs(Main, i) /\ ~Runs(Main, i)'
  BY <1>1, <1>2, <1>4, RunsStay DEF Settled
<1>6. At(Main, "decide")' => Top(Main)'.timer = None
  BY <1>1, <1>2, <1>4, StackStays DEF Settled, Pcs
<1>7. phase[r] \in {"handler", "waiting"}
  <2>1. CASE Go(r)
    BY <1>1, <2>1, LoopsStay DEF Exclusive
  <2>2. CASE Wait(r)
    BY <2>2 DEF Wait, InPage, At, Exclusive
  <2> QED
    BY <2>1, <2>2
<1>8. \A q \in Requests \ {r} : phase[q] \notin {"handler", "waiting"}
  BY <1>7, OneBusy
<1>9. SUFFICES /\ ~Busy' => pending' = {}
               /\ Last(r)' => pending' = {}
               /\ \A q \in Requests \ {r} : phase'[q] = phase[q]
  BY <1>5, <1>6, <1>8 DEF Last
<1>10. CASE Wait(r)
  <2>1. PICK mode \in Modes : Push(r, Loop(mode))
    BY <1>10 DEF Wait
  <2>2. phase' = phase
    BY <1>10 DEF Wait
  <2>3. Busy'
    BY <1>7, <2>2 DEF Busy
  <2>4. ~Last(r)'
    <3>1. stack[r] # <<>> => Len(stack'[r]) # 1
      BY <1>1, <2>1, OutermostPushed
    <3>2. stack[r] = <<>> => stack'[r][1].pc = "select"
      BY <1>1, <2>1, OutermostPushed DEF Loop
    <3> QED
      BY <3>1, <3>2 DEF Last
  <2> QED
    BY <2>2, <2>3, <2>4
<1>11. CASE Go(r) /\ ~Break(r)
  <2>1. PICK f \in Frames : Turn(r, f)
    BY <1>1, <1>11, LoopTurns
  <2>2. stack[r] # <<>> /\ SetTop(r, f) /\ phase' = phase
    BY <1>1, <1>11, <2>1, LoopTurns DEF Turn
  <2>3. Busy'
    BY <1>7, <2>2 DEF Busy
  <2>4. ASSUME Last(r)' PROVE pending' = {}
    <3>1. Len(stack[r]) = 1 /\ f.pc = "decide" /\ f.timer = None
      BY <1>1, <2>2, <2>4, Outermost DEF Last
    <3>2. Looks(r, f) /\ pending \subseteq running
      BY <2>1, <3>1 DEF Turn, Looks, Calls, Works, Turns, TypeOK, Timers
    <3>3. pending = {}
      BY <1>1, <1>5, <1>7, <3>1, <3>2, NoneFound DEF Looks
    <3> QED
      BY <1>3, <3>3
  <2> QED
    BY <2>2, <2>3, <2>4
<1>12. CASE Break(r)
  <2>1. At(r, "decide") /\ Pop(r) /\ Ends(r)
    BY <1>12 DEF Break, NotYet
  <2>2. CASE phase[r] = "waiting" /\ Len(stack[r]) = 1
    <3>1. stack[r][1] = Top(r) /\ Top(r).pc = "decide" /\ stack[r][1].mode = "drain"
      BY <1>1, <2>1, <2>2, OutermostPopped DEF Draining, At
    <3>2. Last(r)
      BY <2>1, <2>2, <3>1 DEF Ends, Last
    <3>3. pending' = {}
      BY <1>3, <1>4, <3>2 DEF Settled
    <3>4. \A q \in Requests \ {r} : phase'[q] = phase[q]
      BY <1>12, <2>2 DEF Break, Length, TypeOK, Threads
    <3> QED
      BY <3>3, <3>4
  <2>3. CASE ~(phase[r] = "waiting" /\ Len(stack[r]) = 1)
    <3>1. phase' = phase
      BY <1>12, <2>3 DEF Break, Length
    <3>2. Busy'
      BY <1>7, <3>1 DEF Busy
    <3>3. ~Last(r)'
      BY <1>1, <2>1, <2>3, <3>1, OutermostPopped DEF Last
    <3> QED
      BY <3>1, <3>2, <3>3
  <2> QED
    BY <2>2, <2>3
<1> QED
  BY <1>10, <1>11, <1>12

\* The page in its loops.
LEMMA SettlesPage ==
  ASSUME TypeOK, Nested, Exclusive, Flagged, Settled, Go(Main) \/ Wait(Main)
  PROVE  Settled'
<1> USE EnvjsAssumption
<1> SUFFICES ASSUME Quiet' PROVE
      /\ ~Busy' => pending' = {}
      /\ \A i \in Timers : ~Runs(Main, i)'
      /\ At(Main, "decide")' => Top(Main)'.timer = None
      /\ \A r \in Requests : Last(r)' => pending' = {}
  BY DEF Settled
<1>1. Main \in Threads /\ \A r \in Requests : r \in Threads \ {Main}
  BY DEF Threads
<1>2. \A r \in Requests : stack'[r] = stack[r]
  BY <1>1, LoopsStay DEF Wait, Push, TypeOK
<1>3. phase' = phase /\ pending' \subseteq pending
  <2>1. CASE Go(Main) /\ ~Break(Main)
    BY <1>1, <2>1, LoopTurns DEF Turn
  <2>2. CASE Break(Main) \/ Wait(Main)
    BY <1>1, <2>2 DEF Break, Wait, timers, Exclusive
  <2> QED
    BY <2>1, <2>2
<1>4. \A r \in Requests : Last(r)' <=> Last(r)
  BY <1>2, <1>3 DEF Last
<1>5. Busy' <=> Busy
  BY <1>3 DEF Busy
<1>6. ASSUME Quiet
      PROVE  /\ ~Busy' => pending' = {}
             /\ \A r \in Requests : Last(r)' => pending' = {}
  BY <1>3, <1>4, <1>5, <1>6 DEF Settled
<1>7. CASE Wait(Main)
  <2>1. PICK mode \in Modes : Push(Main, Loop(mode))
    BY <1>7 DEF Wait
  <2>2. left' = left
    BY <1>7 DEF Wait
  <2>3. Top(Main)'.pc = "select" /\ ~At(Main, "decide")'
    BY <1>1, <2>1, OutermostPushed DEF Loop, At
  <2>4. ~Over'
    BY <2>3 DEF Over, Top, Length
  <2>5. Quiet
    BY <2>2, <2>4 DEF Quiet
  <2> QED
    BY <1>1, <1>6, <2>1, <2>3, <2>5, RunsPushed DEF Settled
<1>8. CASE Break(Main)
  <2>1. At(Main, "decide") /\ Pop(Main) /\ Ends(Main) /\ Top(Main).pc = "decide"
    BY <1>8 DEF Break, NotYet, At
  <2>2. ~At(Main, "decide")'
    <3>1. stack'[Main] # <<>> => Top(Main)'.pc = "call"
      <4>1. /\ Len(stack'[Main]) = Len(stack[Main]) - 1 /\ Len(stack[Main]) \in Nat /\ Len(stack[Main]) >= 1
            /\ \A n \in 1..(Len(stack[Main]) - 1) : stack'[Main][n] = stack[Main][n]
            /\ stack' \in [Threads -> Seq(Frames)]
        BY <1>1, <2>1, OutermostPopped, CallIsPopped DEF At, TypeOK
      <4>2. \A k \in Nat : k >= 1 /\ k # 1 => k - 1 \in 1..(k - 1) /\ k - 1 \in 1..k /\ k - 1 < k
        OBVIOUS
      <4>3. stack'[Main] # <<>> => Len(stack[Main]) # 1
        BY <1>1, <2>1, OutermostPopped
      <4> QED
        BY <1>1, <4>1, <4>2, <4>3 DEF Nested, Top, Length
    <3> QED
      BY <3>1 DEF At
  <2>3. ~Over'
    BY <2>2 DEF Over, At, Top, Length
  <2>4. Quiet
    <3>1. CASE Len(stack[Main]) = 1 /\ Top(Main).mode = "drain"
      <4>1. Over
        BY <1>1, <2>1, <3>1, OutermostPopped DEF Over, Ends
      <4>2. left' \cap Requests = left \cap Requests
        BY <1>8 DEF Break
      <4> QED
        BY <4>1, <4>2 DEF Quiet
    <3>2. CASE ~(Len(stack[Main]) = 1 /\ Top(Main).mode = "drain")
      <4>1. left' = left
        BY <1>8, <3>2 DEF Break, Length
      <4> QED
        BY <2>3, <4>1 DEF Quiet
    <3> QED
      BY <3>1, <3>2
  <2> QED
    BY <1>1, <1>6, <2>1, <2>2, <2>4, RunsPopped DEF Settled
<1>9. CASE Go(Main) /\ ~Break(Main)
  <2>1. PICK f \in Frames : Turn(Main, f)
    BY <1>1, <1>9, LoopTurns
  <2>2. stack[Main] # <<>> /\ SetTop(Main, f) /\ left' = left
    BY <1>1, <1>9, <2>1, LoopTurns DEF Turn
  <2>3. Top(Main)' = f /\ (At(Main, "decide")' <=> f.pc = "decide")
    BY <1>1, <2>2, NewTop DEF Pcs
  <2>4. Over' => Len(stack[Main]) = 1 /\ f.pc = "decide" /\ f.timer = None
    BY <1>1, <2>2, Outermost DEF Over
  <2>5. /\ Top(Main).pc \in InFunction => Top(Main).timer \in Timers /\ Runs(Main, Top(Main).timer)
        /\ \A pc \in Pcs : At(Main, pc) <=> Top(Main).pc = pc
    BY <1>1, <2>2, TopIs
  <2>6. CASE Looks(Main, f)
    <3>1. At(Main, "select") /\ lock \in {Main, None} /\ f.pc = "decide"
      BY <2>6 DEF Looks, Locks
    <3>2. ~Busy
      BY <3>1 DEF Busy, Exclusive
    <3>3. pending = {}
      <4>1. CASE Quiet
        BY <3>2, <4>1 DEF Settled
      <4>2. CASE ~Quiet
        <5>1. Over'
          BY <2>2, <4>2 DEF Quiet
        <5>2. pending \subseteq running
          BY <2>4, <2>6, <5>1 DEF Looks, TypeOK, Timers
        <5> QED
          BY <1>1, <2>4, <3>1, <3>2, <5>1, <5>2, NoneFound
      <4> QED
        BY <4>1, <4>2
    <3>4. f.timer = None /\ pending' = {}
      BY <1>3, <2>6, <3>3 DEF Looks
    <3>5. \A i \in Timers : ~Runs(Main, i)
      <4>1. CASE Quiet
        BY <4>1 DEF Settled
      <4>2. CASE ~Quiet
        <5>1. Len(stack[Main]) = 1 /\ stack[Main][1].pc = "select"
          BY <2>2, <2>4, <3>1, <4>2 DEF Quiet, At, Top, Length
        <5> QED
          BY <5>1 DEF Runs, InFunction
      <4> QED
        BY <4>1, <4>2
    <3>6. \A i \in Timers : ~Runs(Main, i)'
      BY <1>1, <2>2, <3>1, <3>5, RunsSet DEF InFunction
    <3> QED
      BY <2>3, <3>4, <3>6
  <2>7. CASE ~Looks(Main, f)
    <3>1. f.pc # "decide"
      BY <2>1, <2>7 DEF Turn, Calls, Works, Turns
    <3>2. Quiet
      BY <2>2, <2>4, <3>1 DEF Quiet
    <3>3. /\ \A i \in Timers : ~Runs(Main, i)
          /\ At(Main, "decide") => Top(Main).timer = None
      BY <3>2 DEF Settled
    <3>4. Top(Main).pc \notin InFunction
      BY <2>5, <3>3
    <3>5. Turns(Main, f)
      BY <2>1, <2>7, <3>3, <3>4 DEF Turn, Calls, Works, InFunction, Timers
    <3>6. \A i \in Timers : ~Runs(Main, i)'
      BY <1>1, <2>2, <3>3, <3>5, RunsSet DEF Turns, InFunction
    <3> QED
      BY <1>6, <2>3, <3>1, <3>2, <3>6
  <2> QED
    BY <2>6, <2>7
<1> QED
  BY <1>7, <1>8, <1>9

LEMMA Settles == TypeOK /\ Nested /\ Exclusive /\ LInv /\ [Next]_vars => Settled'
<1> SUFFICES ASSUME TypeOK, Nested, Exclusive, Flagged, Draining, Settled, [Next]_vars PROVE Settled'
  BY DEF LInv
<1>1. ASSUME NEW t \in Threads, ClearTimer(t) \/ Send(t) \/ Abort(t) PROVE Settled'
  <2>1. UNCHANGED <<stack, left>> /\ pending' \subseteq pending
    BY <1>1 DEF ClearTimer, Delete, Send, Abort, timers
  <2>2. \A r \in Requests : /\ phase'[r] = "waiting" => phase[r] = "waiting"
                            /\ phase[r] \in {"handler", "waiting"} => phase'[r] = phase[r]
    BY <1>1 DEF ClearTimer, Send, Abort, TypeOK, Threads
  <2>3. (Quiet' => Quiet) /\ (Busy => Busy')
    BY <2>1, <2>2, QuietBefore DEF Busy
  <2> QED
    BY <2>1, <2>2, <2>3, NothingSet
<1>2. ASSUME NEW t \in Threads, Go(t) \/ Wait(t) PROVE Settled'
  BY <1>2, SettlesPage, SettlesRequest DEF Threads
<1>3. ASSUME NEW r \in Requests, Acquire(r) PROVE Settled'
  <2>1. UNCHANGED <<stack, left, pending>>
    BY <1>3 DEF Acquire, timers
  <2>2. \A q \in Requests : /\ phase'[q] = "waiting" => phase[q] = "waiting"
                            /\ phase[q] \in {"handler", "waiting"} => phase'[q] = phase[q]
    BY <1>3 DEF Acquire, TypeOK, Threads
  <2>3. (Quiet' => Quiet) /\ (Busy => Busy')
    BY <2>1, <2>2, QuietBefore DEF Busy
  <2> QED
    BY <2>1, <2>2, <2>3, NothingSet
<1>4. ASSUME NEW r \in Requests, Connected(r) \/ Handled(r) PROVE Settled'
  <2> SUFFICES ASSUME Quiet' PROVE
        /\ ~Busy' => pending' = {}
        /\ \A i \in Timers : ~Runs(Main, i)'
        /\ At(Main, "decide")' => Top(Main)'.timer = None
        /\ \A q \in Requests : Last(q)' => pending' = {}
    BY DEF Settled
  <2>1. Main \in Threads /\ r \in Threads /\ r # Main
    BY EnvjsAssumption DEF Threads
  <2>2. /\ UNCHANGED <<left, pending>> /\ phase[r] \in {"connecting", "handler"}
        /\ phase'[r] \in {"handler", "waiting"} /\ \A q \in Requests \ {r} : phase'[q] = phase[q]
        /\ \A u \in Threads \ {r} : stack'[u] = stack[u]
        /\ phase'[r] = "waiting" => stack'[r] = <<Loop("drain")>>
    BY <1>4, <2>1 DEF Connected, Handled, timers, TypeOK, Threads
  <2>3. Quiet /\ Busy'
    BY <2>1, <2>2, QuietBefore DEF Busy
  <2>4. \A q \in Requests \ {r} : ~Last(q)'
    BY <2>2, OneBusy DEF Last
  <2>5. ~Last(r)'
    BY <2>2 DEF Last, Loop
  <2>6. \A i \in Timers : ~Runs(Main, i)'
    BY <2>1, <2>2, <2>3, RunsStay DEF Settled
  <2>7. At(Main, "decide")' => Top(Main)'.timer = None
    BY <2>1, <2>2, <2>3, StackStays DEF Settled, Pcs
  <2> QED
    BY <2>3, <2>4, <2>5, <2>6, <2>7
\* One that dies before its function has set no timer; after it, somebody was left.
<1>5. ASSUME NEW r \in Requests, Dies(r) PROVE Settled'
  <2>1. UNCHANGED <<stack, pending>> /\ left \subseteq left'
    BY <1>5 DEF Dies, timers
  <2>2. \A q \in Requests : /\ phase'[q] = "waiting" => phase[q] = "waiting"
                            /\ q # r => phase'[q] = phase[q]
    BY <1>5 DEF Dies, TypeOK, Threads
  <2>3. Quiet' => Quiet /\ phase[r] = "connecting"
    BY <1>5, <2>1, QuietBefore DEF Dies, Quiet
  <2>4. Quiet' /\ Busy => Busy'
    BY <2>2, <2>3 DEF Busy
  <2> QED
    BY <2>1, <2>2, <2>3, <2>4, NothingSet
<1>6. CASE Tick \/ UNCHANGED vars
  <2>1. UNCHANGED <<stack, left, pending, phase>>
    BY <1>6 DEF Tick, vars, timers
  <2>2. (Quiet' => Quiet) /\ (Busy => Busy')
    BY <2>1, QuietBefore DEF Busy
  <2> QED
    BY <2>1, <2>2, NothingSet
<1> QED
  BY <1>1, <1>2, <1>3, <1>4, <1>5, <1>6, SettlesSet DEF Next, Page, Request

LEMMA NothingAtFirst == Init => LInv
<1> SUFFICES ASSUME Init PROVE LInv
  OBVIOUS
<1>1. Main \in Threads /\ \A t \in Threads : stack[t] = <<>>
  BY DEF Init, Threads
<1>2. Flagged
  BY DEF Init, Flagged
<1>3. Draining
  BY EnvjsAssumption DEF Init, Draining, Threads
<1>4. Settled
  BY <1>1 DEF Init, Settled, Runs, At, Last
<1> QED
  BY <1>2, <1>3, <1>4 DEF LInv

\* When Envjs.wait() has returned to the page, and the threads of all requests have ended,
\* no timer is left that nobody waits for; unless an onreadystatechange() has thrown.
THEOREM NobodyWaitsInVain == Spec => []NothingLeft
<1>1. LInv => NothingLeft
  BY DEF LInv, Settled, Quiet, Busy, NothingLeft
<1>2. IInv /\ LInv /\ [Next]_vars => LInv'
  BY Flags, Drains, Settles DEF IInv, LInv
<1> QED
  BY Invariant, NothingAtFirst, <1>1, <1>2, PTL DEF Spec
=============================================================================
