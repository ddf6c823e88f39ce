-------------------------- MODULE SchedulerProofs --------------------------
(***************************************************************************)
(* Theorems about Scheduler, for any set of harts, processes, priorities   *)
(* and slices.  In this order: what the operators of Scheduler do to a     *)
(* runqueue and to the agreement of queues and thread states; QueueInv,     *)
(* which is inductive, with one lemma per action; and OneHartInv, which is   *)
(* inductive on a machine with one hart.                                    *)
(***************************************************************************)
EXTENDS Scheduler, ListLemmas, FiniteSetTheorems

-----------------------------------------------------------------------------
(* Circles *)

\* Moving the head pointer on keeps a circle's members.
LEMMA RotateFacts ==
  ASSUME NEW S, NEW s \in Seq(S), s # <<>>
  PROVE  /\ Rotate(s) \in Seq(S)
         /\ Range(Rotate(s)) = Range(s)
         /\ IsInjective(s) => IsInjective(Rotate(s))
         /\ Rotate(s) # <<>>
<1>1. /\ DOMAIN s = 1..Len(s) /\ Len(s) \in Nat \ {0}
      /\ Tail(s) \in Seq(S) /\ Head(s) \in S /\ Head(s) = s[1]
      /\ Len(Tail(s)) = Len(s) - 1
      /\ \A i \in 1..Len(s) - 1 : Tail(s)[i] = s[i + 1]
  OBVIOUS
<1>2. /\ Rotate(s) \in Seq(S) /\ Rotate(s) # <<>>
      /\ DOMAIN Rotate(s) = 1..Len(s)
      /\ \A i \in 1..Len(s) - 1 : Rotate(s)[i] = s[i + 1]
      /\ Rotate(s)[Len(s)] = s[1]
  BY <1>1, AppendFacts DEF Rotate
<1>3. Range(Rotate(s)) = Range(s)
  <2>1. ASSUME NEW x \in Range(Rotate(s)) PROVE x \in Range(s)
    BY <1>1, <1>2 DEF Range
  <2>2. ASSUME NEW i \in 1..Len(s) PROVE s[i] \in Range(Rotate(s))
    <3>1. CASE i = 1
      BY <3>1, <1>1, <1>2 DEF Range
    <3>2. CASE i > 1
      <4>1. i - 1 \in 1..Len(s) - 1 /\ Rotate(s)[i - 1] = s[i]
        BY <3>2, <1>1, <1>2
      <4> QED BY <4>1, <1>1, <1>2 DEF Range
    <3> QED BY <3>1, <3>2
  <2> QED BY <2>1, <2>2, <1>1 DEF Range
<1>4. IsInjective(s) => IsInjective(Rotate(s))
  BY <1>1, <1>2 DEF IsInjective
<1> QED BY <1>2, <1>3, <1>4

-----------------------------------------------------------------------------
(* The two operations on a runqueue *)

RunqueuesOK ==
  /\ circle \in [Hart -> [Level -> Seq(Thread)]]
  /\ ready \in [Hart -> SUBSET Level]
  /\ process_count \in [Hart -> Int]

\* Enqueue adds a process to one circle, keeps circles free of duplicates and
\* the bitmap exact.
LEMMA EnqueueFacts ==
  ASSUME RunqueuesOK, BitmapExact, NEW h \in Hart, NEW p \in Proc,
         p \notin Range(OwnCircle(h, p)), Enqueue(h, p)
  PROVE  /\ RunqueuesOK' /\ BitmapExact'
         /\ \A g \in Hart, i \in Level :
              /\ \A t : t \in Range(circle'[g][i]) <=>
                         \/ t \in Range(circle[g][i])
                         \/ t = p /\ g = h /\ i = Priority[p]
              /\ IsInjective(circle[g][i]) => IsInjective(circle'[g][i])
<1> DEFINE k == Priority[p]
           s == Append(circle[h][k], p)
<1>1. p \in Thread /\ k \in Level /\ k # IdlePriority
  BY SchedulerAssumption DEF Thread
<1>2. circle[h][k] \in Seq(Thread) /\ ready[h] \subseteq Level
  BY <1>1 DEF RunqueuesOK
<1>3. /\ s \in Seq(Thread) /\ s # <<>>
      /\ Range(s) = Range(circle[h][k]) \cup {p}
      /\ IsInjective(circle[h][k]) => IsInjective(s)
  BY <1>1, <1>2, AppendFacts DEF OwnCircle
<1>4. circle' = [circle EXCEPT ![h][k] = s]
  <2>1. k \notin ready[h] => circle[h][k] = <<>>
    BY <1>1 DEF BitmapExact
  <2>2. Append(<<>>, p) = <<p>>
    OBVIOUS
  <2> QED BY <2>1, <2>2, <1>1, <1>2 DEF Enqueue, RunqueuesOK
<1> HIDE DEF s, k
<1>5. /\ circle' \in [Hart -> [Level -> Seq(Thread)]]
      /\ \A g \in Hart, i \in Level :
           circle'[g][i] = IF g = h /\ i = k THEN s ELSE circle[g][i]
  BY <1>1, <1>3, <1>4 DEF RunqueuesOK
<1>6. /\ ready' \in [Hart -> SUBSET Level] /\ process_count' \in [Hart -> Int]
      /\ \A g \in Hart : ready'[g] = IF g = h THEN ready[g] \cup {k} ELSE ready[g]
  <2>1. /\ ready' = [ready EXCEPT ![h] = ready[h] \cup {k}]
        /\ process_count' = [process_count EXCEPT ![h] = process_count[h] + 1]
    BY DEF Enqueue, k
  <2>2. ready \in [Hart -> SUBSET Level] /\ process_count \in [Hart -> Int]
    BY DEF RunqueuesOK
  <2>3. ready[h] \cup {k} \in SUBSET Level /\ process_count[h] + 1 \in Int
    BY <1>1, <2>2
  <2> QED BY <2>1, <2>2, <2>3
<1>7. BitmapExact'
  <2>1. ASSUME NEW g \in Hart PROVE ready'[g] = {i \in Level : circle'[g][i] # <<>>}
    <3>1. ready[g] = {i \in Level : circle[g][i] # <<>>}
      BY DEF BitmapExact
    <3> QED BY <3>1, <1>1, <1>3, <1>5, <1>6
  <2>2. IdlePriority \in Level
    BY SchedulerAssumption DEF Level
  <2>3. ASSUME NEW g \in Hart PROVE circle'[g][IdlePriority] = <<Idle[g]>>
    BY <2>2, <1>1, <1>5 DEF BitmapExact
  <2> QED BY <2>1, <2>3 DEF BitmapExact
<1>8. \A g \in Hart, i \in Level :
        /\ \A t : t \in Range(circle'[g][i]) <=>
                   \/ t \in Range(circle[g][i])
                   \/ t = p /\ g = h /\ i = k
        /\ IsInjective(circle[g][i]) => IsInjective(circle'[g][i])
  BY <1>3, <1>5
<1> QED BY <1>5, <1>6, <1>7, <1>8 DEF RunqueuesOK, k

\* Dequeue takes a process out of one circle, keeps circles free of
\* duplicates and the bitmap exact.
LEMMA DequeueFacts ==
  ASSUME RunqueuesOK, BitmapExact, NEW h \in Hart, NEW p \in Proc,
         p \in Range(OwnCircle(h, p)), IsInjective(OwnCircle(h, p)),
         Dequeue(h, p)
  PROVE  /\ RunqueuesOK' /\ BitmapExact'
         /\ \A g \in Hart, i \in Level :
              /\ \A t : t \in Range(circle'[g][i]) <=>
                         /\ t \in Range(circle[g][i])
                         /\ ~(t = p /\ g = h /\ i = Priority[p])
              /\ IsInjective(circle[g][i]) => IsInjective(circle'[g][i])
<1> DEFINE k == Priority[p]
           s == Remove(circle[h][k], p)
<1>1. p \in Thread /\ k \in Level /\ k # IdlePriority
  BY SchedulerAssumption DEF Thread
<1>2. circle[h][k] \in Seq(Thread) /\ ready[h] \subseteq Level
  BY <1>1 DEF RunqueuesOK
<1>3. /\ s \in Seq(Thread) /\ IsInjective(s)
      /\ Range(s) = Range(circle[h][k]) \ {p}
      /\ Len(circle[h][k]) = 1 <=> s = <<>>
  BY <1>1, <1>2, RemoveFacts DEF OwnCircle
<1>4. circle' = [circle EXCEPT ![h][k] = s]
  BY DEF Dequeue
<1>5. k \in ready[h]
  <2>1. circle[h][k] # <<>>
    BY DEF OwnCircle, Range
  <2> QED BY <2>1, <1>1 DEF BitmapExact
<1>6. /\ ready' \in [Hart -> SUBSET Level] /\ process_count' \in [Hart -> Int]
      /\ \A g \in Hart : ready'[g] = IF g = h /\ s = <<>> THEN ready[g] \ {k}
                                     ELSE ready[g]
  <2>1. /\ ready' = [ready EXCEPT ![h] = IF s = <<>> THEN ready[h] \ {k}
                                          ELSE ready[h]]
        /\ process_count' = [process_count EXCEPT ![h] = process_count[h] - 1]
    BY <1>3 DEF Dequeue
  <2> HIDE DEF s, k
  <2>2. ready \in [Hart -> SUBSET Level] /\ process_count \in [Hart -> Int]
    BY DEF RunqueuesOK
  <2>3. ready[h] \ {k} \in SUBSET Level /\ process_count[h] - 1 \in Int
    BY <1>1, <2>2
  <2> QED BY <2>1, <2>2, <2>3
<1> HIDE DEF s, k
<1>7. /\ circle' \in [Hart -> [Level -> Seq(Thread)]]
      /\ \A g \in Hart, i \in Level :
           circle'[g][i] = IF g = h /\ i = k THEN s ELSE circle[g][i]
  BY <1>1, <1>3, <1>4 DEF RunqueuesOK
<1>8. BitmapExact'
  <2>1. ASSUME NEW g \in Hart PROVE ready'[g] = {i \in Level : circle'[g][i] # <<>>}
    <3>1. ready[g] = {i \in Level : circle[g][i] # <<>>}
      BY DEF BitmapExact
    <3> QED BY <3>1, <1>1, <1>3, <1>5, <1>6, <1>7
  <2>2. IdlePriority \in Level
    BY SchedulerAssumption DEF Level
  <2>3. ASSUME NEW g \in Hart PROVE circle'[g][IdlePriority] = <<Idle[g]>>
    BY <2>2, <1>1, <1>7 DEF BitmapExact
  <2> QED BY <2>1, <2>3 DEF BitmapExact
<1>9. \A g \in Hart, i \in Level :
        /\ \A t : t \in Range(circle'[g][i]) <=>
                   /\ t \in Range(circle[g][i])
                   /\ ~(t = p /\ g = h /\ i = k)
        /\ IsInjective(circle[g][i]) => IsInjective(circle'[g][i])
  BY <1>3, <1>7
<1> QED BY <1>6, <1>7, <1>8, <1>9 DEF RunqueuesOK, k
-----------------------------------------------------------------------------
(* What moves a thread from one queue to another *)

QueuesOK ==
  /\ RunqueuesOK
  /\ state \in [Thread -> State]
  /\ kernel_tp \in [Proc -> Hart]
  /\ waiting \in [WaitList -> Seq(Proc)]

LEMMA QueueInvTypes ==
  QueueInv => QueuesOK /\ curr \in [Hart -> Thread]
                       /\ stolen \in [Hart -> Proc \cup {Null}]
  BY DEF QueueInv, TypeOK, QueuesOK, RunqueuesOK

\* A process that is not runnable is in no circle and in nobody's hands.
LEMMA NotRunnable ==
  ASSUME QueueInv, NEW p \in Proc, state[p] \notin {"ready", "running"}
  PROVE  /\ \A h \in Hart, i \in Level : p \notin Range(circle[h][i])
         /\ ~InTransit(p)
  BY SchedulerAssumption
     DEF QueueInv, OneQueue, CirclesHoldRunnable, TransitInv, InTransit, Thread

\* Linking a process that was not runnable into a circle of h, with its traps
\* redirected to h, keeps circles and states in agreement.
LEMMA LinkFacts ==
  ASSUME QueueInv, NEW h \in Hart, NEW p \in Proc,
         state[p] \notin {"ready", "running"},
         Enqueue(h, p), stolen' = stolen,
         state' = [state EXCEPT ![p] = "ready"],
         kernel_tp' = [kernel_tp EXCEPT ![p] = h]
  PROVE  /\ RunqueuesOK' /\ BitmapExact'
         /\ state' \in [Thread -> State] /\ kernel_tp' \in [Proc -> Hart]
         /\ CirclesHoldRunnable' /\ NoThreadLost'
<1>1. /\ QueuesOK /\ BitmapExact /\ CirclesHoldRunnable /\ NoThreadLost
      /\ p \in Thread /\ Priority[p] \in Level
  BY QueueInvTypes, SchedulerAssumption DEF QueueInv, OneQueue, Thread
<1>2. /\ \A g \in Hart, i \in Level : p \notin Range(circle[g][i])
      /\ ~InTransit(p)
  BY NotRunnable
<1>3. p \notin Range(OwnCircle(h, p))
  BY <1>1, <1>2 DEF OwnCircle
<1>4. /\ RunqueuesOK' /\ BitmapExact'
      /\ \A g \in Hart, i \in Level :
           /\ \A t : t \in Range(circle'[g][i]) <=>
                      \/ t \in Range(circle[g][i])
                      \/ t = p /\ g = h /\ i = Priority[p]
           /\ IsInjective(circle[g][i]) => IsInjective(circle'[g][i])
  BY <1>1, <1>3, EnqueueFacts DEF QueuesOK
<1>5. state' \in [Thread -> State] /\ kernel_tp' \in [Proc -> Hart]
  BY <1>1 DEF QueuesOK, State
<1>6. CirclesHoldRunnable'
  <2> SUFFICES ASSUME NEW g \in Hart, NEW i \in Level
               PROVE  /\ IsInjective(circle'[g][i])
                      /\ \A t \in Range(circle'[g][i]) :
                           /\ Priority[t] = i /\ state'[t] \in {"ready", "running"}
                           /\ IF t \in Proc THEN kernel_tp'[t] = g ELSE t = Idle[g]
    BY DEF CirclesHoldRunnable
  <2>1. /\ IsInjective(circle[g][i])
        /\ \A t \in Range(circle[g][i]) :
             /\ Priority[t] = i /\ state[t] \in {"ready", "running"}
             /\ IF t \in Proc THEN kernel_tp[t] = g ELSE t = Idle[g]
    BY <1>1 DEF CirclesHoldRunnable
  <2>2. \A t \in Range(circle[g][i]) : t # p /\ t \in Thread
    BY <1>1, <1>2 DEF QueuesOK, RunqueuesOK, Range
  <2>3. ASSUME NEW t \in Range(circle'[g][i])
        PROVE  /\ Priority[t] = i /\ state'[t] \in {"ready", "running"}
               /\ IF t \in Proc THEN kernel_tp'[t] = g ELSE t = Idle[g]
    <3>1. CASE t = p
      <4>1. g = h /\ i = Priority[p]
        BY <3>1, <2>2, <1>4
      <4> QED BY <4>1, <3>1, <1>1 DEF QueuesOK
    <3>2. CASE t # p
      <4>1. t \in Range(circle[g][i])
        BY <3>2, <1>4
      <4> QED BY <4>1, <3>2, <2>1, <2>2, <1>1 DEF QueuesOK
    <3> QED BY <3>1, <3>2
  <2> QED BY <1>4, <2>1, <2>3
<1>7. NoThreadLost'
  <2> SUFFICES ASSUME NEW q \in Proc, state'[q] \in {"ready", "running"}
               PROVE  (q \in Range(OwnCircle(kernel_tp[q], q)))' <=> ~InTransit(q)'
    BY DEF NoThreadLost
  <2>1. InTransit(q)' <=> InTransit(q)
    BY DEF InTransit
  <2>2. CASE q = p
    <3>1. p \in Range(circle'[h][Priority[p]]) /\ kernel_tp'[p] = h
      BY <1>1, <1>4 DEF QueuesOK
    <3> QED BY <3>1, <2>1, <2>2, <1>2 DEF OwnCircle
  <2>3. CASE q # p
    <3>1. /\ state'[q] = state[q] /\ kernel_tp'[q] = kernel_tp[q]
          /\ kernel_tp[q] \in Hart /\ Priority[q] \in Level
      BY <2>3, <1>1, SchedulerAssumption DEF QueuesOK, Thread
    <3>2. q \in Range(OwnCircle(kernel_tp[q], q)) <=> ~InTransit(q)
      BY <3>1, <1>1 DEF NoThreadLost
    <3>3. q \in Range(circle'[kernel_tp[q]][Priority[q]])
            <=> q \in Range(circle[kernel_tp[q]][Priority[q]])
      BY <3>1, <2>3, <1>4
    <3> QED BY <3>1, <3>2, <3>3, <2>1 DEF OwnCircle
  <2> QED BY <2>2, <2>3
<1> QED BY <1>4, <1>5, <1>6, <1>7

\* Taking a process out of the list its state names and making it ready.
LEMMA UnlistFacts ==
  ASSUME QueueInv, NEW l \in WaitList, NEW p \in Range(waiting[l]),
         waiting' = [waiting EXCEPT ![l] = Remove(@, p)],
         state' = [state EXCEPT ![p] = "ready"]
  PROVE  /\ p \in Proc /\ state[p] = l
         /\ waiting' \in [WaitList -> Seq(Proc)]
         /\ \A m \in WaitList :
              Range(waiting'[m]) = IF m = l THEN Range(waiting[m]) \ {p}
                                   ELSE Range(waiting[m])
         /\ ListsHoldWaiting'
<1>1. /\ waiting \in [WaitList -> Seq(Proc)] /\ state \in [Thread -> State]
      /\ ListsHoldWaiting /\ p \in Proc /\ state[p] = l /\ p \in Thread
  BY QueueInvTypes DEF QueueInv, OneQueue, QueuesOK, ListsHoldWaiting, Thread
<1>2. waiting[l] \in Seq(Proc) /\ IsInjective(waiting[l])
  BY <1>1 DEF ListsHoldWaiting
<1> DEFINE s == Remove(waiting[l], p)
<1>3. s \in Seq(Proc) /\ IsInjective(s) /\ Range(s) = Range(waiting[l]) \ {p}
  BY <1>2, RemoveFacts
<1> HIDE DEF s
<1>4. waiting' = [waiting EXCEPT ![l] = s]
  BY DEF s
<1>5. /\ waiting' \in [WaitList -> Seq(Proc)]
      /\ \A m \in WaitList : waiting'[m] = IF m = l THEN s ELSE waiting[m]
  BY <1>1, <1>3, <1>4
<1>6. ListsHoldWaiting'
  <2> SUFFICES ASSUME NEW m \in WaitList
               PROVE  /\ IsInjective(waiting'[m])
                      /\ Range(waiting'[m]) = {q \in Proc : state'[q] = m}
    BY DEF ListsHoldWaiting
  <2>1. /\ IsInjective(waiting[m])
        /\ Range(waiting[m]) = {q \in Proc : state[q] = m}
    BY <1>1 DEF ListsHoldWaiting
  <2>2. \A q \in Proc : state'[q] = IF q = p THEN "ready" ELSE state[q]
    BY <1>1 DEF Thread
  <2>3. m # "ready"
    BY DEF WaitList
  <2> QED BY <2>1, <2>2, <2>3, <1>1, <1>3, <1>5
<1> QED BY <1>1, <1>3, <1>5, <1>6

\* The unblock functions move a thread from a shared list to a runqueue.
LEMMA UnblockFacts ==
  ASSUME QueueInv, NEW h \in Hart, NEW l \in WaitList,
         NEW p \in Range(waiting[l]), Unblock(h, l, p), stolen' = stolen
  PROVE  /\ QueuesOK' /\ OneQueue' /\ BitmapExact'
         /\ p \in Proc /\ state[p] = l
         /\ \A m \in WaitList :
              Range(waiting'[m]) = IF m = l THEN Range(waiting[m]) \ {p}
                                   ELSE Range(waiting[m])
<1>1. /\ p \in Proc /\ state[p] = l
      /\ waiting' \in [WaitList -> Seq(Proc)]
      /\ \A m \in WaitList :
           Range(waiting'[m]) = IF m = l THEN Range(waiting[m]) \ {p}
                                ELSE Range(waiting[m])
      /\ ListsHoldWaiting'
  BY UnlistFacts DEF Unblock
<1>2. state[p] \notin {"ready", "running"}
  BY <1>1 DEF WaitList
<1>3. /\ RunqueuesOK' /\ BitmapExact'
      /\ state' \in [Thread -> State] /\ kernel_tp' \in [Proc -> Hart]
      /\ CirclesHoldRunnable' /\ NoThreadLost'
  BY <1>1, <1>2, LinkFacts DEF Unblock
<1> QED BY <1>1, <1>3 DEF QueuesOK, OneQueue
\* The block functions, sleep and exit move the running process from its
\* circle to a shared list.
LEMMA LeaveFacts ==
  ASSUME QueueInv, NEW h \in Hart, NEW l \in WaitList,
         curr[h] \in Proc, curr[h] \in Range(OwnCircle(h, curr[h])), Leave(h, l)
  PROVE  /\ QueuesOK' /\ OneQueue' /\ BitmapExact'
         /\ state[curr[h]] \in {"ready", "running"}
         /\ state' = [state EXCEPT ![curr[h]] = l]
         /\ \A g \in Hart : stolen[g] # curr[h]
         /\ \A m \in WaitList : Range(waiting[m]) \subseteq Range(waiting'[m])
<1> DEFINE p == curr[h]
<1> HIDE DEF p
<1>1. /\ QueuesOK /\ BitmapExact /\ CirclesHoldRunnable /\ NoThreadLost
      /\ ListsHoldWaiting
      /\ p \in Proc /\ p \in Thread /\ Priority[p] \in Level
      /\ p \in Range(OwnCircle(h, p))
  BY QueueInvTypes, SchedulerAssumption DEF QueueInv, OneQueue, Thread, p
<1>2. /\ Dequeue(h, p) /\ kernel_tp' = kernel_tp /\ stolen' = stolen
      /\ waiting' = [waiting EXCEPT ![l] = <<p>> \o @]
      /\ state' = [state EXCEPT ![p] = l]
  BY DEF Leave, p
<1>3. /\ IsInjective(OwnCircle(h, p)) /\ kernel_tp[p] = h
      /\ state[p] \in {"ready", "running"}
  BY <1>1 DEF CirclesHoldRunnable, OwnCircle
<1>4. /\ RunqueuesOK' /\ BitmapExact'
      /\ \A g \in Hart, i \in Level :
           /\ \A t : t \in Range(circle'[g][i]) <=>
                      /\ t \in Range(circle[g][i])
                      /\ ~(t = p /\ g = h /\ i = Priority[p])
           /\ IsInjective(circle[g][i]) => IsInjective(circle'[g][i])
  BY <1>1, <1>2, <1>3, DequeueFacts DEF QueuesOK
<1>5. /\ state' \in [Thread -> State] /\ kernel_tp' \in [Proc -> Hart]
      /\ \A t \in Thread : state'[t] = IF t = p THEN l ELSE state[t]
  BY <1>1, <1>2 DEF QueuesOK, State
<1>6. ~InTransit(p)
  BY <1>1, <1>3 DEF NoThreadLost
<1>7. CirclesHoldRunnable'
  <2> SUFFICES ASSUME NEW g \in Hart, NEW i \in Level
               PROVE  /\ IsInjective(circle'[g][i])
                      /\ \A t \in Range(circle'[g][i]) :
                           /\ Priority[t] = i /\ state'[t] \in {"ready", "running"}
                           /\ IF t \in Proc THEN kernel_tp'[t] = g ELSE t = Idle[g]
    BY DEF CirclesHoldRunnable
  <2>1. /\ IsInjective(circle[g][i])
        /\ \A t \in Range(circle[g][i]) :
             /\ Priority[t] = i /\ state[t] \in {"ready", "running"}
             /\ IF t \in Proc THEN kernel_tp[t] = g ELSE t = Idle[g]
    BY <1>1 DEF CirclesHoldRunnable
  <2>2. \A t \in Range(circle'[g][i]) : t \in Range(circle[g][i]) /\ t # p
    <3>1. \A t \in Range(circle'[g][i]) : t \in Range(circle[g][i])
      BY <1>4
    <3>2. p \in Range(circle[g][i]) => g = h /\ i = Priority[p]
      BY <2>1, <1>1, <1>3
    <3> QED BY <3>1, <3>2, <1>4
  <2>3. \A t \in Range(circle[g][i]) : t \in Thread
    BY <1>1 DEF QueuesOK, RunqueuesOK, Range
  <2> QED BY <2>1, <2>2, <2>3, <1>2, <1>4, <1>5
<1>8. NoThreadLost'
  <2> SUFFICES ASSUME NEW q \in Proc, state'[q] \in {"ready", "running"}
               PROVE  (q \in Range(OwnCircle(kernel_tp[q], q)))' <=> ~InTransit(q)'
    BY DEF NoThreadLost
  <2>1. InTransit(q)' <=> InTransit(q)
    BY <1>2 DEF InTransit
  <2>2. q # p /\ q \in Thread
    BY <1>5 DEF WaitList, Thread
  <2>3. /\ state[q] \in {"ready", "running"} /\ kernel_tp'[q] = kernel_tp[q]
        /\ kernel_tp[q] \in Hart /\ Priority[q] \in Level
    BY <2>2, <1>1, <1>2, <1>5, SchedulerAssumption DEF QueuesOK
  <2>4. q \in Range(OwnCircle(kernel_tp[q], q)) <=> ~InTransit(q)
    BY <2>3, <1>1 DEF NoThreadLost
  <2>5. q \in Range(circle'[kernel_tp[q]][Priority[q]])
          <=> q \in Range(circle[kernel_tp[q]][Priority[q]])
    BY <2>2, <2>3, <1>4
  <2> QED BY <2>1, <2>3, <2>4, <2>5 DEF OwnCircle
<1> DEFINE s == <<p>> \o waiting[l]
<1>9. /\ s \in Seq(Proc) /\ IsInjective(s) /\ Range(s) = {p} \cup Range(waiting[l])
  <2>1. waiting[l] \in Seq(Proc) /\ IsInjective(waiting[l])
    BY <1>1 DEF QueuesOK, ListsHoldWaiting
  <2>2. p \notin Range(waiting[l])
    BY <1>1, <1>3 DEF ListsHoldWaiting, WaitList
  <2> QED BY <2>1, <2>2, <1>1, PushFacts
<1>10. waiting' = [waiting EXCEPT ![l] = s]
  BY <1>2
<1> HIDE DEF s
<1>11. /\ waiting' \in [WaitList -> Seq(Proc)]
       /\ \A m \in WaitList : waiting'[m] = IF m = l THEN s ELSE waiting[m]
  BY <1>1, <1>9, <1>10 DEF QueuesOK
<1>12. ListsHoldWaiting'
  <2> SUFFICES ASSUME NEW m \in WaitList
               PROVE  /\ IsInjective(waiting'[m])
                      /\ Range(waiting'[m]) = {q \in Proc : state'[q] = m}
    BY DEF ListsHoldWaiting
  <2>1. /\ IsInjective(waiting[m])
        /\ Range(waiting[m]) = {q \in Proc : state[q] = m}
    BY <1>1 DEF ListsHoldWaiting
  <2>2. \A q \in Proc : state'[q] = IF q = p THEN l ELSE state[q]
    BY <1>5 DEF Thread
  <2>3. state[p] # m
    BY <1>3 DEF WaitList
  <2> QED BY <2>1, <2>2, <2>3, <1>1, <1>9, <1>11
<1>13. \A m \in WaitList : Range(waiting[m]) \subseteq Range(waiting'[m])
  BY <1>9, <1>11
<1>14. \A g \in Hart : stolen[g] # p
  BY <1>6 DEF InTransit
<1> QED BY <1>2, <1>3, <1>4, <1>5, <1>7, <1>8, <1>11, <1>12, <1>13, <1>14
        DEF QueuesOK, OneQueue, p

\* Linking a stolen thread in: it was runnable and in nobody's circle.
LEMMA PutFacts ==
  ASSUME QueueInv, NEW h \in Hart, stolen[h] # Null,
         Enqueue(h, stolen[h]), state' = state, waiting' = waiting,
         kernel_tp' = [kernel_tp EXCEPT ![stolen[h]] = h],
         stolen' = [stolen EXCEPT ![h] = Null]
  PROVE  QueuesOK' /\ OneQueue' /\ BitmapExact'
<1> DEFINE p == stolen[h]
<1>1. /\ QueuesOK /\ BitmapExact /\ CirclesHoldRunnable /\ NoThreadLost
      /\ ListsHoldWaiting /\ TransitInv /\ stolen \in [Hart -> Proc \cup {Null}]
  BY QueueInvTypes DEF QueueInv, OneQueue
<1>2. /\ p \in Proc /\ p \in Thread /\ Priority[p] \in Level /\ Null \notin Proc
      /\ state[p] \in {"ready", "running"} /\ InTransit(p)
      /\ \A g \in Hart : stolen[g] = p => g = h
  BY <1>1, SchedulerAssumption DEF TransitInv, InTransit, Thread
<1>3. \A g \in Hart, i \in Level : p \notin Range(circle[g][i])
  <2>1. p \notin Range(OwnCircle(kernel_tp[p], p))
    BY <1>1, <1>2 DEF NoThreadLost
  <2> QED BY <2>1, <1>1, <1>2 DEF CirclesHoldRunnable, OwnCircle
<1> HIDE DEF p
<1>4. /\ RunqueuesOK' /\ BitmapExact'
      /\ \A g \in Hart, i \in Level :
           /\ \A t : t \in Range(circle'[g][i]) <=>
                      \/ t \in Range(circle[g][i])
                      \/ t = p /\ g = h /\ i = Priority[p]
           /\ IsInjective(circle[g][i]) => IsInjective(circle'[g][i])
  BY <1>1, <1>2, <1>3, EnqueueFacts DEF QueuesOK, OwnCircle, p
<1>5. /\ kernel_tp' \in [Proc -> Hart]
      /\ \A q \in Proc : kernel_tp'[q] = IF q = p THEN h ELSE kernel_tp[q]
  BY <1>1, <1>2 DEF QueuesOK, p
<1>6. CirclesHoldRunnable'
  <2> SUFFICES ASSUME NEW g \in Hart, NEW i \in Level
               PROVE  /\ IsInjective(circle'[g][i])
                      /\ \A t \in Range(circle'[g][i]) :
                           /\ Priority[t] = i /\ state'[t] \in {"ready", "running"}
                           /\ IF t \in Proc THEN kernel_tp'[t] = g ELSE t = Idle[g]
    BY DEF CirclesHoldRunnable
  <2>1. /\ IsInjective(circle[g][i])
        /\ \A t \in Range(circle[g][i]) :
             /\ Priority[t] = i /\ state[t] \in {"ready", "running"}
             /\ IF t \in Proc THEN kernel_tp[t] = g ELSE t = Idle[g]
    BY <1>1 DEF CirclesHoldRunnable
  <2>2. ASSUME NEW t \in Range(circle'[g][i])
        PROVE  /\ Priority[t] = i /\ state'[t] \in {"ready", "running"}
               /\ IF t \in Proc THEN kernel_tp'[t] = g ELSE t = Idle[g]
    <3>1. CASE t = p
      <4>1. g = h /\ i = Priority[p]
        BY <3>1, <1>3, <1>4
      <4> QED BY <4>1, <3>1, <1>2, <1>5
    <3>2. CASE t # p
      <4>1. t \in Range(circle[g][i])
        BY <3>2, <1>4
      <4> QED BY <4>1, <3>2, <2>1, <1>5
    <3> QED BY <3>1, <3>2
  <2> QED BY <1>4, <2>1, <2>2
<1>7. NoThreadLost'
  <2> SUFFICES ASSUME NEW q \in Proc, state'[q] \in {"ready", "running"}
               PROVE  (q \in Range(OwnCircle(kernel_tp[q], q)))' <=> ~InTransit(q)'
    BY DEF NoThreadLost
  <2>1. \A g \in Hart : stolen'[g] = IF g = h THEN Null ELSE stolen[g]
    BY <1>1
  <2>2. CASE q = p
    <3>1. ~InTransit(q)'
      BY <2>1, <2>2, <1>2 DEF InTransit
    <3>2. q \in Range(circle'[h][Priority[q]]) /\ kernel_tp'[q] = h
      BY <2>2, <1>2, <1>4, <1>5
    <3> QED BY <3>1, <3>2 DEF OwnCircle
  <2>3. CASE q # p
    <3>1. InTransit(q)' <=> InTransit(q)
      BY <2>1, <2>3, <1>2 DEF InTransit, p
    <3>2. /\ kernel_tp'[q] = kernel_tp[q]
          /\ kernel_tp[q] \in Hart /\ Priority[q] \in Level
      BY <2>3, <1>1, <1>5, SchedulerAssumption DEF QueuesOK, Thread
    <3>3. q \in Range(OwnCircle(kernel_tp[q], q)) <=> ~InTransit(q)
      BY <1>1 DEF NoThreadLost
    <3>4. q \in Range(circle'[kernel_tp[q]][Priority[q]])
            <=> q \in Range(circle[kernel_tp[q]][Priority[q]])
      BY <3>2, <2>3, <1>4
    <3> QED BY <3>1, <3>2, <3>3, <3>4 DEF OwnCircle
  <2> QED BY <2>2, <2>3
<1>8. ListsHoldWaiting'
  BY <1>1 DEF ListsHoldWaiting
<1> QED BY <1>1, <1>4, <1>5, <1>6, <1>7, <1>8 DEF QueuesOK, OneQueue
\* Taking a process out of a circle into the hands of h.
LEMMA TakeFacts ==
  ASSUME QueueInv, NEW h \in Hart, stolen[h] = Null, NEW v \in Hart,
         NEW p \in Proc, p \in Range(OwnCircle(v, p)), Dequeue(v, p),
         stolen' = [stolen EXCEPT ![h] = p],
         state' = state, waiting' = waiting, kernel_tp' = kernel_tp
  PROVE  /\ QueuesOK' /\ OneQueue' /\ BitmapExact'
         /\ state[p] \in {"ready", "running"}
         /\ \A g \in Hart : stolen[g] # p
<1>1. /\ QueuesOK /\ BitmapExact /\ CirclesHoldRunnable /\ NoThreadLost
      /\ ListsHoldWaiting
      /\ stolen \in [Hart -> Proc \cup {Null}]
      /\ p \in Thread /\ Priority[p] \in Level
  BY QueueInvTypes, SchedulerAssumption DEF QueueInv, OneQueue, Thread
<1>2. /\ IsInjective(OwnCircle(v, p)) /\ kernel_tp[p] = v
      /\ state[p] \in {"ready", "running"}
  BY <1>1 DEF CirclesHoldRunnable, OwnCircle
<1>3. /\ RunqueuesOK' /\ BitmapExact'
      /\ \A g \in Hart, i \in Level :
           /\ \A t : t \in Range(circle'[g][i]) <=>
                      /\ t \in Range(circle[g][i])
                      /\ ~(t = p /\ g = v /\ i = Priority[p])
           /\ IsInjective(circle[g][i]) => IsInjective(circle'[g][i])
  BY <1>1, <1>2, DequeueFacts DEF QueuesOK
<1>4. ~InTransit(p)
  BY <1>1, <1>2 DEF NoThreadLost
<1>5. CirclesHoldRunnable'
  BY <1>1, <1>3 DEF CirclesHoldRunnable
<1>6. NoThreadLost'
  <2> SUFFICES ASSUME NEW q \in Proc, state'[q] \in {"ready", "running"}
               PROVE  (q \in Range(OwnCircle(kernel_tp[q], q)))' <=> ~InTransit(q)'
    BY DEF NoThreadLost
  <2>1. \A g \in Hart : stolen'[g] = IF g = h THEN p ELSE stolen[g]
    BY <1>1
  <2>2. CASE q = p
    <3>1. InTransit(q)'
      BY <2>1, <2>2 DEF InTransit
    <3>2. q \notin Range(circle'[v][Priority[q]]) /\ kernel_tp'[q] = v
      BY <2>2, <1>1, <1>2, <1>3
    <3> QED BY <3>1, <3>2 DEF OwnCircle
  <2>3. CASE q # p
    <3>1. InTransit(q)' <=> InTransit(q)
      BY <2>1, <2>3, SchedulerAssumption DEF InTransit, Thread
    <3>2. kernel_tp[q] \in Hart /\ Priority[q] \in Level
      BY <1>1, SchedulerAssumption DEF QueuesOK, Thread
    <3>3. q \in Range(OwnCircle(kernel_tp[q], q)) <=> ~InTransit(q)
      BY <1>1 DEF NoThreadLost
    <3>4. q \in Range(circle'[kernel_tp[q]][Priority[q]])
            <=> q \in Range(circle[kernel_tp[q]][Priority[q]])
      BY <3>2, <2>3, <1>3
    <3> QED BY <3>1, <3>3, <3>4 DEF OwnCircle
  <2> QED BY <2>2, <2>3
<1>7. ListsHoldWaiting'
  BY <1>1 DEF ListsHoldWaiting
<1>8. \A g \in Hart : stolen[g] # p
  BY <1>4 DEF InTransit
<1> QED BY <1>1, <1>2, <1>3, <1>5, <1>6, <1>7, <1>8 DEF QueuesOK, OneQueue

\* Changing the states of runnable threads into runnable states, and turning
\* circles, disturbs no queue.
LEMMA TurnFacts ==
  ASSUME QueueInv,
         circle' \in [Hart -> [Level -> Seq(Thread)]],
         \A g \in Hart, i \in Level :
           /\ \/ circle'[g][i] = circle[g][i]
              \/ circle[g][i] # <<>> /\ circle'[g][i] = Rotate(circle[g][i]),
         ready' = ready, process_count' = process_count,
         kernel_tp' = kernel_tp, waiting' = waiting, stolen' = stolen,
         state' \in [Thread -> State],
         \A t \in Thread : state'[t] # state[t] =>
           /\ state[t] \in {"ready", "running"}
           /\ state'[t] \in {"ready", "running"}
  PROVE  QueuesOK' /\ OneQueue' /\ BitmapExact'
<1>1. /\ QueuesOK /\ BitmapExact /\ CirclesHoldRunnable /\ NoThreadLost
      /\ ListsHoldWaiting
  BY QueueInvTypes DEF QueueInv, OneQueue
<1>2. \A g \in Hart, i \in Level :
        /\ Range(circle'[g][i]) = Range(circle[g][i])
        /\ circle'[g][i] # <<>> <=> circle[g][i] # <<>>
        /\ IsInjective(circle[g][i]) => IsInjective(circle'[g][i])
  BY <1>1, RotateFacts DEF QueuesOK, RunqueuesOK
<1>3. \A t \in Thread :
        /\ state'[t] \in {"ready", "running"} <=> state[t] \in {"ready", "running"}
        /\ \A l \in WaitList : state'[t] = l <=> state[t] = l
  BY DEF WaitList
<1>4. CirclesHoldRunnable'
  <2>1. \A g \in Hart, i \in Level : Range(circle[g][i]) \subseteq Thread
    BY <1>1 DEF QueuesOK, RunqueuesOK, Range
  <2> QED BY <2>1, <1>1, <1>2, <1>3 DEF CirclesHoldRunnable
<1>5. NoThreadLost'
  <2> SUFFICES ASSUME NEW q \in Proc, state'[q] \in {"ready", "running"}
               PROVE  (q \in Range(OwnCircle(kernel_tp[q], q)))' <=> ~InTransit(q)'
    BY DEF NoThreadLost
  <2>1. /\ q \in Thread /\ kernel_tp[q] \in Hart /\ Priority[q] \in Level
    BY <1>1, SchedulerAssumption DEF QueuesOK, Thread
  <2>2. q \in Range(OwnCircle(kernel_tp[q], q)) <=> ~InTransit(q)
    BY <2>1, <1>1, <1>3 DEF NoThreadLost
  <2>3. InTransit(q)' <=> InTransit(q)
    BY DEF InTransit
  <2> QED BY <2>1, <2>2, <2>3, <1>2 DEF OwnCircle
<1>6. ListsHoldWaiting'
  BY <1>1, <1>3 DEF ListsHoldWaiting, Thread
<1>7. BitmapExact'
  <2>1. IdlePriority \in Level
    BY SchedulerAssumption DEF Level
  <2>2. \A g \in Hart : Rotate(<<Idle[g]>>) = <<Idle[g]>>
    BY DEF Rotate
  <2>3. \A g \in Hart : circle'[g][IdlePriority] = <<Idle[g]>>
    BY <2>1, <2>2, <1>1 DEF BitmapExact
  <2> QED BY <2>3, <1>1, <1>2 DEF BitmapExact
<1> QED BY <1>1, <1>4, <1>5, <1>6, <1>7 DEF QueuesOK, RunqueuesOK, OneQueue

-----------------------------------------------------------------------------
(* What TypeOK says of the variables that are no queue *)

ControlOK ==
  /\ passed \in [Hart -> SUBSET Level]
  /\ curr \in [Hart -> Thread]
  /\ starv \in [Hart -> 0..StarvPeriod - 1]
  /\ ticks \in [Thread -> 0..TickMod - 1]
  /\ emergency \in Thread \cup {Null}
  /\ ssip \in [Hart -> BOOLEAN]
  /\ pc \in [Hart -> PC]
  /\ walk \in [Hart -> Seq(Proc)]
  /\ stolen \in [Hart -> Proc \cup {Null}]
  /\ picked \in [Hart -> {"boot", "priority", "emergency"}]

LEMMA TypeParts == TypeOK <=> QueuesOK /\ ControlOK
  BY DEF TypeOK, QueuesOK, RunqueuesOK, ControlOK

LEMMA InvParts ==
  ASSUME QueueInv
  PROVE  /\ QueuesOK /\ ControlOK /\ BitmapExact
         /\ CirclesHoldRunnable /\ ListsHoldWaiting /\ NoThreadLost
         /\ TransitInv /\ WalkInv
  BY TypeParts DEF QueueInv, OneQueue

LEMMA ProcFacts ==
  /\ Proc \subseteq Thread /\ Null \notin Thread /\ Null \notin Proc
  /\ \A t \in Thread : Priority[t] \in Level
  /\ \A h \in Hart : Idle[h] \in Thread /\ Idle[h] \notin Proc
  BY SchedulerAssumption DEF Thread, Range

\* An action that leaves the queues alone keeps what is said of them.
LEMMA QueueFrame ==
  ASSUME QueueInv, UNCHANGED <<queueVars, state, kernel_tp, waiting, stolen>>
  PROVE  QueuesOK' /\ OneQueue' /\ BitmapExact'
<1>1. QueuesOK /\ OneQueue /\ BitmapExact
  BY QueueInvTypes DEF QueueInv
<1>2. /\ circle' = circle /\ ready' = ready /\ process_count' = process_count
      /\ state' = state /\ kernel_tp' = kernel_tp /\ waiting' = waiting
      /\ stolen' = stolen
  BY DEF queueVars
<1>3. QueuesOK'
  BY <1>1, <1>2 DEF QueuesOK, RunqueuesOK
<1>4. OneQueue'
  BY <1>1, <1>2 DEF OneQueue, CirclesHoldRunnable, ListsHoldWaiting,
                    NoThreadLost, InTransit, OwnCircle
<1>5. BitmapExact'
  BY <1>1, <1>2 DEF BitmapExact
<1> QED BY <1>3, <1>4, <1>5

\* An action that neither steals nor walks has only the queues to take care
\* of, provided it takes no thread in transit out of the running and no
\* sleeper off its list.
LEMMA KeepFacts ==
  ASSUME QueueInv, QueuesOK', OneQueue', BitmapExact', ControlOK',
         walk' = walk, stolen' = stolen,
         \A g \in Hart : /\ pc'[g] = "walk" <=> pc[g] = "walk"
                         /\ pc'[g] = "put" <=> pc[g] = "put",
         \A g \in Hart : stolen[g] # Null =>
           state'[stolen[g]] = state[stolen[g]]
             \/ state'[stolen[g]] \in {"ready", "running"},
         Range(waiting["sleeping"]) \subseteq Range(waiting'["sleeping"])
  PROVE  QueueInv'
<1>1. TypeOK'
  BY TypeParts DEF TypeOK, QueuesOK, RunqueuesOK, ControlOK
<1>2. TransitInv'
  BY InvParts DEF TransitInv
<1>3. WalkInv'
  BY InvParts DEF WalkInv
<1> QED BY <1>1, <1>2, <1>3 DEF QueueInv

LEMMA GotoFacts ==
  ASSUME ControlOK, NEW h \in Hart, NEW l \in PC, Goto(h, l)
  PROVE  /\ pc' \in [Hart -> PC]
         /\ pc'[h] = l
         /\ \A g \in Hart : g # h => pc'[g] = pc[g]
  BY DEF Goto, ControlOK

-----------------------------------------------------------------------------
(* Init *)

LEMMA InitFacts == Init => QueueInv
<1> SUFFICES ASSUME Init PROVE QueueInv
  OBVIOUS
<1> USE ProcFacts
<1>1. IdlePriority \in Level /\ IdlePriority \in Nat
  BY SchedulerAssumption DEF Level
<1>2. \A h \in Hart, i \in Level :
        circle[h][i] = IF i = IdlePriority THEN <<Idle[h]>> ELSE <<>>
  BY DEF Init
<1>3. TypeOK
  <2>1. 0 \in 0..StarvPeriod - 1 /\ TimeSlice \in [Thread -> 0..TickMod - 1]
    BY SchedulerAssumption
  <2>2. /\ process_count \in [Hart -> Int] /\ starv \in [Hart -> 0..StarvPeriod - 1]
        /\ ticks \in [Thread -> 0..TickMod - 1]
        /\ ready \in [Hart -> SUBSET Level] /\ passed \in [Hart -> SUBSET Level]
    BY <1>1, <2>1 DEF Init
  <2>3. circle \in [Hart -> [Level -> Seq(Thread)]]
    BY DEF Init
  <2>4. state \in [Thread -> State]
    BY DEF Init, State
  <2>5. /\ curr \in [Hart -> Thread] /\ kernel_tp \in [Proc -> Hart]
        /\ waiting \in [WaitList -> Seq(Proc)] /\ emergency \in Thread \cup {Null}
    BY SchedulerAssumption DEF Init
  <2>6. /\ ssip \in [Hart -> BOOLEAN] /\ pc \in [Hart -> PC]
        /\ walk \in [Hart -> Seq(Proc)] /\ stolen \in [Hart -> Proc \cup {Null}]
        /\ picked \in [Hart -> {"boot", "priority", "emergency"}]
    BY DEF Init, PC
  <2> QED BY <2>2, <2>3, <2>4, <2>5, <2>6 DEF TypeOK
<1>4. \A x : /\ Range(<<x>>) = {x} /\ IsInjective(<<x>>)
             /\ Range(<<>>) = {} /\ IsInjective(<<>>)
  BY DEF Range, IsInjective
<1>5. CirclesHoldRunnable
  <2> SUFFICES ASSUME NEW h \in Hart, NEW i \in Level
               PROVE  /\ IsInjective(circle[h][i])
                      /\ \A t \in Range(circle[h][i]) :
                           /\ Priority[t] = i /\ state[t] \in {"ready", "running"}
                           /\ IF t \in Proc THEN kernel_tp[t] = h ELSE t = Idle[h]
    BY DEF CirclesHoldRunnable
  <2>1. Priority[Idle[h]] = IdlePriority
    BY SchedulerAssumption DEF Range
  <2>2. state[Idle[h]] = "running"
    BY DEF Init
  <2>3. CASE i = IdlePriority
    <3>1. circle[h][i] = <<Idle[h]>>
      BY <2>3, <1>2
    <3> QED BY <3>1, <2>1, <2>2, <2>3, <1>4
  <2>4. CASE i # IdlePriority
    <3>1. circle[h][i] = <<>>
      BY <2>4, <1>2
    <3> QED BY <3>1, <1>4
  <2> QED BY <2>3, <2>4
<1>6. ListsHoldWaiting
  <2>1. \A p \in Proc, l \in WaitList : state[p] # l
    BY DEF Init, WaitList
  <2>2. \A l \in WaitList : waiting[l] = <<>>
    BY DEF Init
  <2> QED BY <2>1, <2>2, <1>4 DEF ListsHoldWaiting
<1>7. NoThreadLost
  BY DEF Init, NoThreadLost
<1>8. BitmapExact
  <2>1. \A h \in Hart : <<Idle[h]>> # <<>>
    OBVIOUS
  <2> QED BY <2>1, <1>1, <1>2 DEF Init, BitmapExact
<1>9. TransitInv
  BY DEF Init, TransitInv
<1>10. WalkInv
  <2>1. \A h \in Hart : walk[h] = <<>> /\ pc[h] = "run"
    BY DEF Init
  <2> QED BY <2>1, <1>4 DEF WalkInv
<1> QED BY <1>3, <1>5, <1>6, <1>7, <1>8, <1>9, <1>10 DEF QueueInv, OneQueue

-----------------------------------------------------------------------------
(* Actions that move no thread *)

LEMMA SpawnInv ==
  ASSUME QueueInv, NEW h \in Hart, NEW p \in Proc, Spawn(h, p)
  PROVE  QueueInv'
<1> USE InvParts, ProcFacts
<1>1. state[p] \notin {"ready", "running"} /\ state[p] \notin WaitList /\ p \in Thread
  BY DEF Spawn, WaitList
<1>2. RunqueuesOK' /\ BitmapExact' /\ state' \in [Thread -> State]
      /\ kernel_tp' \in [Proc -> Hart] /\ CirclesHoldRunnable' /\ NoThreadLost'
  BY <1>1, LinkFacts DEF Spawn
<1>3. \A t \in Thread : state'[t] = IF t = p THEN "ready" ELSE state[t]
  BY DEF Spawn, QueuesOK
<1>4. waiting' = waiting
  BY DEF Spawn
<1>5. ListsHoldWaiting'
  <2> SUFFICES ASSUME NEW l \in WaitList
               PROVE  /\ IsInjective(waiting'[l])
                      /\ Range(waiting'[l]) = {q \in Proc : state'[q] = l}
    BY DEF ListsHoldWaiting
  <2>1. IsInjective(waiting[l]) /\ Range(waiting[l]) = {q \in Proc : state[q] = l}
    BY DEF ListsHoldWaiting
  <2>2. l # "ready" /\ state[p] # l
    BY <1>1 DEF WaitList
  <2>3. \A q \in Proc : state'[q] = l <=> state[q] = l
    BY <1>1, <1>3, <2>2
  <2> QED BY <1>4, <2>1, <2>3
<1>6. QueuesOK' /\ OneQueue'
  BY <1>2, <1>4, <1>5 DEF QueuesOK, OneQueue
<1>7. ControlOK'
  <2>1. ticks' = [ticks EXCEPT ![p] = TimeSlice[p]]
        /\ TimeSlice[p] \in 0..TickMod - 1
    BY <1>1, SchedulerAssumption DEF Spawn
  <2> QED BY <2>1 DEF Spawn, ControlOK, sweepVars
<1>8. /\ walk' = walk /\ stolen' = stolen /\ pc' = pc /\ waiting' = waiting
      /\ \A g \in Hart : stolen[g] # Null =>
           state'[stolen[g]] \in {"ready", "running"}
  <2>1. \A g \in Hart : stolen[g] # Null => stolen[g] \in Proc
    BY DEF ControlOK
  <2> QED BY <2>1, <1>3 DEF Spawn, TransitInv
<1> QED BY <1>2, <1>6, <1>7, <1>8, KeepFacts

LEMMA TimerTickInv ==
  ASSUME QueueInv, NEW h \in Hart, TimerTick(h)
  PROVE  QueueInv'
<1>1. QueuesOK' /\ OneQueue' /\ BitmapExact'
  BY QueueFrame DEF TimerTick, threadVars
<1>2. ControlOK'
  BY InvParts DEF TimerTick, ControlOK, threadVars, sweepVars
<1> QED BY <1>1, <1>2, KeepFacts DEF TimerTick, threadVars

LEMMA EnterInterruptInv ==
  ASSUME QueueInv, NEW h \in Hart, EnterInterrupt(h)
  PROVE  QueueInv'
<1>1. QueuesOK' /\ OneQueue' /\ BitmapExact'
  BY QueueFrame DEF EnterInterrupt
<1>2. /\ pc' \in [Hart -> PC] /\ pc[h] = "run" /\ pc'[h] = "sleepers"
      /\ \A g \in Hart : g # h => pc'[g] = pc[g]
  BY InvParts, GotoFacts DEF EnterInterrupt, Trap, PC
<1>3. ticks' \in [Thread -> 0..TickMod - 1]
  <2>1. ticks' = [ticks EXCEPT ![curr[h]] =
                    IF ticks[curr[h]] > 0 THEN ticks[curr[h]] - 1 ELSE 0]
    BY DEF EnterInterrupt
  <2>2. ticks \in [Thread -> 0..TickMod - 1] /\ curr[h] \in Thread /\ TickMod \in Nat \ {0}
    BY InvParts, SchedulerAssumption DEF ControlOK
  <2> QED BY <2>1, <2>2
<1>4. ControlOK'
  BY <1>2, <1>3, InvParts DEF EnterInterrupt, ControlOK, sweepVars
<1> QED BY <1>1, <1>2, <1>4, KeepFacts DEF EnterInterrupt

LEMMA LockSleepersInv ==
  ASSUME QueueInv, NEW h \in Hart, LockSleepers(h)
  PROVE  QueueInv'
<1> USE InvParts
<1>1. QueuesOK' /\ OneQueue' /\ BitmapExact'
  BY QueueFrame DEF LockSleepers, threadVars
<1>2. /\ pc' \in [Hart -> PC] /\ pc[h] = "sleepers" /\ pc'[h] = "walk"
      /\ \A g \in Hart : g # h => pc'[g] = pc[g]
  BY GotoFacts DEF LockSleepers, PC
<1>3. waiting["sleeping"] \in Seq(Proc) /\ IsInjective(waiting["sleeping"])
  BY DEF QueuesOK, ListsHoldWaiting, WaitList
<1>4. /\ walk' \in [Hart -> Seq(Proc)]
      /\ \A g \in Hart : walk'[g] = IF g = h THEN waiting["sleeping"] ELSE walk[g]
  BY <1>3 DEF LockSleepers, SleepList, ControlOK
<1>5. ControlOK'
  BY <1>2, <1>4 DEF LockSleepers, ControlOK, sweepVars, threadVars
<1>6. TypeOK'
  BY <1>1, <1>5, TypeParts DEF TypeOK, QueuesOK, RunqueuesOK, ControlOK
<1>7. TransitInv'
  BY <1>2 DEF TransitInv, LockSleepers, threadVars
<1>8. WalkInv'
  <2>1. waiting' = waiting /\ \A g \in Hart : pc[g] # "walk"
    BY DEF LockSleepers, SleepLockFree
  <2> QED BY <2>1, <1>2, <1>3, <1>4 DEF WalkInv
<1> QED BY <1>1, <1>6, <1>7, <1>8 DEF QueueInv

LEMMA SleepOnInv ==
  ASSUME QueueInv, NEW h \in Hart, SleepOn(h)
  PROVE  QueueInv'
<1> USE InvParts
<1>1. QueuesOK' /\ OneQueue' /\ BitmapExact'
  BY QueueFrame DEF SleepOn
<1>2. walk[h] \in Seq(Proc) /\ walk[h] # <<>>
  BY DEF ControlOK, SleepOn
<1>3. /\ Head(walk[h]) \in Proc /\ Tail(walk[h]) \in Seq(Proc)
      /\ Range(Tail(walk[h])) \subseteq Range(walk[h])
      /\ IsInjective(walk[h]) => IsInjective(Tail(walk[h]))
  BY <1>2, TailFacts
<1>4. /\ walk' \in [Hart -> Seq(Proc)]
      /\ \A g \in Hart : walk'[g] = IF g = h THEN Tail(walk[h]) ELSE walk[g]
  <2>1. walk' = [walk EXCEPT ![h] = Tail(walk[h])] /\ walk \in [Hart -> Seq(Proc)]
    BY DEF SleepOn, ControlOK
  <2> QED BY <2>1, <1>3
<1>5. ticks' \in [Thread -> 0..TickMod - 1]
  <2> DEFINE p == Head(walk[h])
  <2>1. ticks' = [ticks EXCEPT ![p] = TicksAfter(p)]
    BY DEF SleepOn
  <2>2. /\ ticks \in [Thread -> 0..TickMod - 1] /\ TickMod \in Nat \ {0}
        /\ ticks[p] \in 0..TickMod - 1
    BY <1>3, SchedulerAssumption DEF ControlOK, Thread
  <2>3. TicksAfter(p) \in 0..TickMod - 1
    BY <2>2 DEF TicksAfter
  <2> QED BY <2>1, <2>2, <2>3
<1>6. ControlOK'
  BY <1>4, <1>5 DEF SleepOn, ControlOK, sweepVars
<1>7. TypeOK'
  BY <1>1, <1>6, TypeParts DEF TypeOK, QueuesOK, RunqueuesOK, ControlOK
<1>8. TransitInv'
  BY DEF TransitInv, SleepOn
<1>9. WalkInv'
  <2>1. waiting' = waiting /\ pc' = pc /\ pc[h] = "walk"
    BY DEF SleepOn
  <2> QED BY <2>1, <1>3, <1>4 DEF WalkInv
<1> QED BY <1>1, <1>7, <1>8, <1>9 DEF QueueInv

\* The sweep rescues a thread of some circle.
LEMMA SweepFacts ==
  ASSUME QueueInv, NEW h \in Hart, Sweep(h)
  PROVE  emergency' \in Thread \cup {Null} /\ passed' \in [Hart -> SUBSET Level]
<1> USE InvParts
<1> DEFINE starved == (passed[h] \cap ready[h]) \ {IdlePriority}
<1>1. passed' \in [Hart -> SUBSET Level]
  BY DEF Sweep, ControlOK
<1>2. CASE starved = {}
  BY <1>1, <1>2 DEF Sweep, ControlOK
<1>3. CASE starved # {}
  <2>1. starved \in SUBSET (0..IdlePriority) /\ IdlePriority \in Nat
    BY SchedulerAssumption DEF QueuesOK, RunqueuesOK, Level
  <2>2. Greatest(starved) \in starved
    BY <1>3, <2>1, GreatestFacts
  <2>3. circle[h][Greatest(starved)] # <<>> /\ Greatest(starved) \in Level
    BY <2>2 DEF BitmapExact
  <2>4. circle[h][Greatest(starved)] \in Seq(Thread)
    BY <2>3 DEF QueuesOK, RunqueuesOK
  <2>5. Head(circle[h][Greatest(starved)]) \in Thread
    BY <2>3, <2>4, TailFacts
  <2> QED BY <1>1, <1>3, <2>5 DEF Sweep
<1> QED BY <1>2, <1>3

LEMMA AccountInv ==
  ASSUME QueueInv, NEW h \in Hart, Account(h)
  PROVE  QueueInv'
<1> USE InvParts
<1>1. QueuesOK' /\ OneQueue' /\ BitmapExact'
  BY QueueFrame DEF Account, threadVars
<1>2. /\ pc' \in [Hart -> PC] /\ pc[h] = "walk" /\ pc'[h] \in {"schedule", "run"}
      /\ \A g \in Hart : g # h => pc'[g] = pc[g]
  BY GotoFacts DEF Account, PC
<1>3. starv' \in [Hart -> 0..StarvPeriod - 1]
  <2>1. starv' = [starv EXCEPT ![h] = (starv[h] + 1) % StarvPeriod]
    BY DEF Account
  <2>2. /\ starv \in [Hart -> 0..StarvPeriod - 1] /\ StarvPeriod \in Nat \ {0}
        /\ starv[h] \in 0..StarvPeriod - 1
    BY SchedulerAssumption DEF ControlOK
  <2>3. (starv[h] + 1) % StarvPeriod \in 0..StarvPeriod - 1
    BY <2>2
  <2> QED BY <2>1, <2>2, <2>3
<1>4. emergency' \in Thread \cup {Null} /\ passed' \in [Hart -> SUBSET Level]
  BY SweepFacts DEF Account, ControlOK
<1>5. ControlOK'
  BY <1>2, <1>3, <1>4 DEF Account, ControlOK, threadVars
<1>6. TypeOK'
  BY <1>1, <1>5, TypeParts DEF TypeOK, QueuesOK, RunqueuesOK, ControlOK
<1>7. TransitInv'
  BY <1>2 DEF TransitInv, Account, threadVars
<1>8. WalkInv'
  BY <1>2 DEF WalkInv, Account
<1> QED BY <1>1, <1>6, <1>7, <1>8 DEF QueueInv

-----------------------------------------------------------------------------
(* Actions that wake a process *)

LEMMA AwakenInv ==
  ASSUME QueueInv, NEW h \in Hart, Awaken(h)
  PROVE  QueueInv'
<1> USE InvParts, ProcFacts
<1> DEFINE p == Head(walk[h])
<1>1. walk[h] \in Seq(Proc) /\ walk[h] # <<>> /\ IsInjective(walk[h])
  BY DEF ControlOK, WalkInv, Awaken
<1>2. /\ p \in Proc /\ p \in Range(walk[h]) /\ Tail(walk[h]) \in Seq(Proc)
      /\ Range(Tail(walk[h])) \subseteq Range(walk[h])
      /\ IsInjective(Tail(walk[h])) /\ p \notin Range(Tail(walk[h]))
  BY <1>1, TailFacts
<1>3. p \in Range(waiting["sleeping"]) /\ "sleeping" \in WaitList
  BY <1>2 DEF WalkInv, WaitList
<1>4. /\ QueuesOK' /\ OneQueue' /\ BitmapExact' /\ state[p] = "sleeping"
      /\ Range(waiting'["sleeping"]) = Range(waiting["sleeping"]) \ {p}
  BY <1>3, UnblockFacts DEF Awaken
<1>5. /\ walk' \in [Hart -> Seq(Proc)]
      /\ \A g \in Hart : walk'[g] = IF g = h THEN Tail(walk[h]) ELSE walk[g]
  <2>1. walk' = [walk EXCEPT ![h] = Tail(walk[h])] /\ walk \in [Hart -> Seq(Proc)]
    BY DEF Awaken, ControlOK
  <2> QED BY <2>1, <1>2
<1>6. ticks' \in [Thread -> 0..TickMod - 1]
  <2>1. \E S : ticks' = [t \in Thread |-> IF t \in S THEN 0 ELSE ticks[t]]
    <3> DEFINE S == {t \in Thread : t = p \/ (t = curr[h] /\ Outranks(h, p))}
    <3>1. ticks' = [t \in Thread |-> IF t \in S THEN 0 ELSE ticks[t]]
      BY DEF Awaken
    <3> QED BY <3>1
  <2>2. ticks \in [Thread -> 0..TickMod - 1] /\ 0 \in 0..TickMod - 1
    BY SchedulerAssumption DEF ControlOK
  <2> QED BY <2>1, <2>2
<1>7. ControlOK'
  BY <1>5, <1>6 DEF Awaken, ControlOK, sweepVars
<1>8. TypeOK'
  BY <1>4, <1>7, TypeParts DEF TypeOK, QueuesOK, RunqueuesOK, ControlOK
<1>9. TransitInv'
  <2>1. /\ stolen' = stolen /\ pc' = pc
        /\ state' = [state EXCEPT ![p] = "ready"]
    BY DEF Awaken, Unblock
  <2>2. \A g \in Hart : stolen[g] # Null =>
          stolen[g] \in Thread /\ state'[stolen[g]] \in {"ready", "running"}
    BY <2>1 DEF TransitInv, ControlOK, QueuesOK
  <2> QED BY <2>1, <2>2 DEF TransitInv
<1>10. WalkInv'
  <2>1. pc' = pc /\ pc[h] = "walk"
    BY DEF Awaken
  <2>2. \A g \in Hart : g # h => walk[g] = <<>>
    BY <2>1 DEF WalkInv
  <2>3. Range(<<>>) = {} /\ IsInjective(<<>>)
    BY DEF Range, IsInjective
  <2>4. ASSUME NEW g \in Hart
        PROVE  /\ IsInjective(walk'[g])
               /\ Range(walk'[g]) \subseteq Range(waiting'["sleeping"])
               /\ walk'[g] # <<>> => pc'[g] = "walk"
    <3>1. CASE g = h
      BY <3>1, <2>1, <1>2, <1>4, <1>5 DEF WalkInv
    <3>2. CASE g # h
      BY <3>2, <2>2, <2>3, <1>5
    <3> QED BY <3>1, <3>2
  <2> QED BY <2>1, <2>4 DEF WalkInv
<1> QED BY <1>4, <1>8, <1>9, <1>10 DEF QueueInv

\* What the three unblock functions have in common
LEMMA WakeInv ==
  ASSUME QueueInv, NEW h \in Hart, NEW p \in Proc,
         NEW l \in {"recv", "send", "blocked"}, Wake(h, l, p), pc' = pc
  PROVE  QueueInv'
<1> USE InvParts, ProcFacts
<1>1. l \in WaitList /\ p \in Range(waiting[l]) /\ l # "sleeping"
      /\ "sleeping" \in WaitList
  BY DEF Wake, WaitList
<1>2. /\ QueuesOK' /\ OneQueue' /\ BitmapExact'
      /\ Range(waiting'["sleeping"]) = Range(waiting["sleeping"])
  BY <1>1, UnblockFacts DEF Wake
<1>3. ticks' \in [Thread -> 0..TickMod - 1]
  <2>1. 0 \in 0..TickMod - 1
    BY SchedulerAssumption
  <2> QED BY <2>1 DEF Wake, ControlOK
<1>4. ssip' \in [Hart -> BOOLEAN]
  BY DEF Wake, ControlOK
<1>5. ControlOK'
  BY <1>3, <1>4 DEF Wake, ControlOK, sweepVars
<1>6. ASSUME NEW g \in Hart, stolen[g] # Null
      PROVE  state'[stolen[g]] = state[stolen[g]]
               \/ state'[stolen[g]] \in {"ready", "running"}
  <2>1. state' = [state EXCEPT ![p] = "ready"] /\ stolen[g] \in Thread
    BY <1>6 DEF Wake, Unblock, ControlOK
  <2> QED BY <2>1 DEF QueuesOK
<1> QED BY <1>2, <1>5, <1>6, KeepFacts DEF Wake

-----------------------------------------------------------------------------
(* schedule *)

LEMMA NextThreadFacts ==
  ASSUME QueueInv, NEW h \in Hart, Preempted(h) => OwnCircle(h, curr[h]) # <<>>
  PROVE  /\ NextThread(h) \in Thread
         /\ CircleAfter(h) \in [Level -> Seq(Thread)]
         /\ \A i \in Level :
              \/ CircleAfter(h)[i] = circle[h][i]
              \/ circle[h][i] # <<>> /\ CircleAfter(h)[i] = Rotate(circle[h][i])
<1> USE InvParts, ProcFacts
<1> DEFINE k == Priority[curr[h]]
<1>1. k \in Level /\ circle[h] \in [Level -> Seq(Thread)]
  BY DEF ControlOK, QueuesOK, RunqueuesOK
<1>2. Preempted(h) => circle[h][k] # <<>>
  BY DEF OwnCircle
<1> HIDE DEF k
<1>3. /\ CircleAfter(h) \in [Level -> Seq(Thread)]
      /\ \A i \in Level :
           \/ CircleAfter(h)[i] = circle[h][i]
           \/ circle[h][i] # <<>> /\ CircleAfter(h)[i] = Rotate(circle[h][i])
  <2>1. CASE Preempted(h)
    <3>1. CircleAfter(h) = [circle[h] EXCEPT ![k] = Rotate(circle[h][k])]
      BY <2>1 DEF CircleAfter, k
    <3>2. Rotate(circle[h][k]) \in Seq(Thread)
      BY <2>1, <1>1, <1>2, RotateFacts
    <3> QED BY <3>1, <3>2, <2>1, <1>1, <1>2
  <2>2. CASE ~Preempted(h)
    BY <2>2, <1>1 DEF CircleAfter
  <2> QED BY <2>1, <2>2
<1>4. Least(ready[h]) \in ready[h] /\ ready[h] \subseteq Level
  <2>1. IdlePriority \in Level
    BY SchedulerAssumption DEF Level
  <2>2. IdlePriority \in ready[h] /\ ready[h] \subseteq Level
    BY <2>1 DEF BitmapExact
  <2>3. ready[h] \in SUBSET Nat /\ ready[h] # {}
    BY <2>2 DEF Level
  <2> QED BY <2>2, <2>3, LeastFacts
<1> DEFINE i == Least(ready[h])
<1>5. i \in Level /\ circle[h][i] # <<>> /\ circle[h][i] \in Seq(Thread)
  BY <1>1, <1>4 DEF BitmapExact
<1> HIDE DEF i
<1>6. CircleAfter(h)[i] # <<>>
  <2>1. Rotate(circle[h][i]) # <<>>
    BY <1>5, RotateFacts
  <2> QED BY <2>1, <1>3, <1>5
<1>7. Head(CircleAfter(h)[i]) \in Thread
  BY <1>3, <1>5, <1>6, TailFacts
<1>8. NextThread(h) \in Thread
  BY <1>7 DEF NextThread, ControlOK, i
<1> QED BY <1>3, <1>8

\* What schedule does to states, whether it picks a thread or stops
LEMMA StateAfterFacts ==
  ASSUME QueueInv, NEW h \in Hart
  PROVE  /\ StateAfter(h) \in [Thread -> State]
         /\ \A t \in Thread : StateAfter(h)[t] # state[t] =>
              state[t] \in {"ready", "running"} /\ StateAfter(h)[t] = "ready"
<1>1. state \in [Thread -> State] /\ curr[h] \in Thread
  BY InvParts DEF QueuesOK, ControlOK
<1> QED BY <1>1 DEF StateAfter, Preempted, State

LEMMA ScheduleInv ==
  ASSUME QueueInv, NEW h \in Hart, Schedule(h)
  PROVE  QueueInv'
<1> USE InvParts, ProcFacts
<1> DEFINE next == NextThread(h)
           fine == StateAfter(h)[next] = "ready"
<1>1. /\ next \in Thread
      /\ CircleAfter(h) \in [Level -> Seq(Thread)]
      /\ \A i \in Level :
           \/ CircleAfter(h)[i] = circle[h][i]
           \/ circle[h][i] # <<>> /\ CircleAfter(h)[i] = Rotate(circle[h][i])
  BY NextThreadFacts DEF Schedule
<1>2. /\ circle' \in [Hart -> [Level -> Seq(Thread)]]
      /\ \A g \in Hart, i \in Level :
           \/ circle'[g][i] = circle[g][i]
           \/ circle[g][i] # <<>> /\ circle'[g][i] = Rotate(circle[g][i])
  BY <1>1 DEF Schedule, QueuesOK, RunqueuesOK
<1>3. state' = IF fine THEN [StateAfter(h) EXCEPT ![next] = "running"]
               ELSE StateAfter(h)
  BY DEF Schedule
<1>4. /\ state' \in [Thread -> State]
      /\ \A t \in Thread : state'[t] # state[t] =>
           /\ state[t] \in {"ready", "running"}
           /\ state'[t] \in {"ready", "running"}
  BY <1>1, <1>3, StateAfterFacts DEF State
<1>5. QueuesOK' /\ OneQueue' /\ BitmapExact'
  BY <1>2, <1>4, TurnFacts DEF Schedule
<1>6. /\ pc' \in [Hart -> PC] /\ pc[h] = "schedule" /\ pc'[h] \in {"run", "panic"}
      /\ \A g \in Hart : g # h => pc'[g] = pc[g]
  BY GotoFacts DEF Schedule, PC
<1>7. ticks' \in [Thread -> 0..TickMod - 1]
  BY SchedulerAssumption DEF Schedule, ControlOK
<1>8. passed' \in [Hart -> SUBSET Level]
  <2>1. PassedOver(h) \subseteq Level
    BY DEF PassedOver, QueuesOK, RunqueuesOK
  <2>2. \/ passed' = passed
        \/ passed' = [passed EXCEPT ![h] = passed[h] \cup PassedOver(h)]
    BY DEF Schedule
  <2>3. passed \in [Hart -> SUBSET Level] /\ passed[h] \cup PassedOver(h) \in SUBSET Level
    BY <2>1 DEF ControlOK
  <2> HIDE DEF next, fine
  <2> QED BY <2>2, <2>3
<1>9. curr' \in [Hart -> Thread]
  BY <1>1 DEF Schedule, ControlOK
<1>10. picked' \in [Hart -> {"boot", "priority", "emergency"}]
  BY DEF Schedule, ControlOK
<1>11. ControlOK'
  BY <1>6, <1>7, <1>8, <1>9, <1>10 DEF Schedule, ControlOK
<1>12. \A g \in Hart : stolen[g] # Null =>
         state'[stolen[g]] = state[stolen[g]]
           \/ state'[stolen[g]] \in {"ready", "running"}
  BY <1>4 DEF ControlOK
<1> QED BY <1>5, <1>6, <1>11, <1>12, KeepFacts DEF Schedule

LEMMA RotateNullInv ==
  ASSUME QueueInv, NEW h \in Hart, RotateNull(h)
  PROVE  QueueInv'
<1> USE InvParts, ProcFacts
<1>1. /\ state' \in [Thread -> State]
      /\ \A t \in Thread : state'[t] # state[t] =>
           state[t] \in {"ready", "running"} /\ state'[t] \in {"ready", "running"}
  BY StateAfterFacts DEF RotateNull
<1>2. QueuesOK' /\ OneQueue' /\ BitmapExact'
  BY <1>1, TurnFacts DEF RotateNull, queueVars, QueuesOK, RunqueuesOK
<1>3. /\ pc' \in [Hart -> PC] /\ pc[h] = "schedule" /\ pc'[h] = "fault"
      /\ \A g \in Hart : g # h => pc'[g] = pc[g]
  BY GotoFacts DEF RotateNull, PC
<1>4. ticks' \in [Thread -> 0..TickMod - 1]
  BY SchedulerAssumption DEF RotateNull, ControlOK
<1>5. ControlOK'
  BY <1>3, <1>4 DEF RotateNull, ControlOK, sweepVars
<1>6. \A g \in Hart : stolen[g] # Null =>
        state'[stolen[g]] = state[stolen[g]]
          \/ state'[stolen[g]] \in {"ready", "running"}
  BY <1>1 DEF ControlOK
<1> QED BY <1>2, <1>3, <1>5, <1>6, KeepFacts DEF RotateNull

-----------------------------------------------------------------------------
(* System calls *)

LEMMA YieldInv ==
  ASSUME QueueInv, NEW h \in Hart, Yield(h)
  PROVE  QueueInv'
<1> USE InvParts, ProcFacts
<1>1. /\ curr[h] \in Thread /\ curr[h] \in Proc
      /\ Priority[curr[h]] \in Level
      /\ curr[h] \in Range(circle[h][Priority[curr[h]]])
  BY DEF Yield, Syscall, ControlOK, OwnCircle
<1>2. state[curr[h]] \in {"ready", "running"}
  BY <1>1 DEF CirclesHoldRunnable
<1>3. /\ state' \in [Thread -> State]
      /\ \A t \in Thread : state'[t] # state[t] =>
           state[t] \in {"ready", "running"} /\ state'[t] \in {"ready", "running"}
  BY <1>1, <1>2 DEF Yield, QueuesOK, State
<1>4. QueuesOK' /\ OneQueue' /\ BitmapExact'
  BY <1>3, TurnFacts DEF Yield, queueVars, QueuesOK, RunqueuesOK
<1>5. ControlOK'
  BY DEF Yield, ControlOK, sweepVars
<1>6. \A g \in Hart : stolen[g] # Null =>
        state'[stolen[g]] = state[stolen[g]]
          \/ state'[stolen[g]] \in {"ready", "running"}
  BY <1>3 DEF ControlOK
<1> QED BY <1>4, <1>5, <1>6, KeepFacts DEF Yield

\* What block, sleep and exit have in common: the process that leaves its
\* circle is in no other hart's hands.
LEMMA LeaveInv ==
  ASSUME QueueInv, NEW h \in Hart, NEW l \in WaitList, NEW c \in Call,
         Syscall(h, c), Leave(h, l),
         ticks' \in [Thread -> 0..TickMod - 1], ssip' \in [Hart -> BOOLEAN],
         pc' \in [Hart -> PC],
         \A g \in Hart : /\ pc'[g] = "walk" <=> pc[g] = "walk"
                         /\ pc'[g] = "put" <=> pc[g] = "put"
  PROVE  QueueInv'
<1> USE InvParts, ProcFacts
<1>1. curr[h] \in Proc /\ curr[h] \in Range(OwnCircle(h, curr[h]))
  BY DEF Syscall
<1>2. /\ QueuesOK' /\ OneQueue' /\ BitmapExact'
      /\ state' = [state EXCEPT ![curr[h]] = l]
      /\ \A g \in Hart : stolen[g] # curr[h]
      /\ \A m \in WaitList : Range(waiting[m]) \subseteq Range(waiting'[m])
  BY <1>1, LeaveFacts
<1>3. ControlOK'
  BY DEF Leave, Withdrawn, ControlOK, sweepVars
<1>4. \A g \in Hart : stolen[g] # Null => state'[stolen[g]] = state[stolen[g]]
  BY <1>2 DEF ControlOK, QueuesOK
<1>5. "sleeping" \in WaitList
  BY DEF WaitList
<1> QED BY <1>2, <1>3, <1>4, <1>5, KeepFacts DEF Leave

LEMMA BlockInv ==
  ASSUME QueueInv, NEW h \in Hart, NEW l \in WaitList, NEW c \in Call,
         Syscall(h, c), Block(h, l), ticks' \in [Thread -> 0..TickMod - 1]
  PROVE  QueueInv'
  BY InvParts, LeaveInv DEF Block, ControlOK

LEMMA SleepInv ==
  ASSUME QueueInv, NEW h \in Hart, NEW n \in SleepArg, Sleep(h, n)
  PROVE  QueueInv'
<1>1. "sleeping" \in WaitList /\ "sleep" \in Call
  BY DEF WaitList, Call
<1>2. ticks' \in [Thread -> 0..TickMod - 1]
  BY InvParts, SchedulerAssumption DEF Sleep, ControlOK
<1> QED BY <1>1, <1>2, BlockInv DEF Sleep

LEMMA ExitInv ==
  ASSUME QueueInv, NEW h \in Hart, Exit(h)
  PROVE  QueueInv'
<1>1. "zombie" \in WaitList /\ "exit" \in Call
  BY DEF WaitList, Call
<1>2. /\ pc' \in [Hart -> PC] /\ pc[h] = "run" /\ pc'[h] = "scan"
      /\ \A g \in Hart : g # h => pc'[g] = pc[g]
  BY InvParts, GotoFacts DEF Exit, Syscall, Trap, PC
<1>3. ticks' \in [Thread -> 0..TickMod - 1] /\ ssip' \in [Hart -> BOOLEAN]
  BY InvParts DEF Exit, ControlOK
<1> QED BY <1>1, <1>2, <1>3, LeaveInv DEF Exit

\* Steps that change no more than where a hart is and what interrupt is
\* pending
LEMMA MoveInv ==
  ASSUME QueueInv, NEW h \in Hart, NEW l \in PC \ {"walk", "put"},
         pc[h] \notin {"walk", "put"}, Goto(h, l),
         ssip' \in [Hart -> BOOLEAN],
         UNCHANGED <<queueVars, threadVars, sweepVars, curr, waiting, emergency,
                     walk, stolen, picked>>
  PROVE  QueueInv'
<1>1. QueuesOK' /\ OneQueue' /\ BitmapExact'
  BY QueueFrame DEF threadVars
<1>2. /\ pc' \in [Hart -> PC] /\ pc'[h] = l
      /\ \A g \in Hart : g # h => pc'[g] = pc[g]
  BY InvParts, GotoFacts
<1>3. ControlOK'
  BY <1>2, InvParts DEF ControlOK, threadVars, sweepVars
<1> QED BY <1>1, <1>2, <1>3, KeepFacts DEF threadVars

LEMMA MovesInv ==
  ASSUME QueueInv, NEW h \in Hart,
         EndExit(h) \/ StartDrain(h) \/ EndDrain(h) \/ StealNothing(h) \/ Lose(h)
  PROVE  QueueInv'
<1>1. ssip' \in [Hart -> BOOLEAN]
  BY InvParts DEF EndExit, StartDrain, EndDrain, StealNothing, Lose, ControlOK
<1>2. CASE EndExit(h)
  BY <1>1, <1>2, MoveInv DEF EndExit, PC
<1>3. CASE StartDrain(h)
  BY <1>1, <1>3, MoveInv DEF StartDrain, Syscall, Trap, PC
<1>4. CASE EndDrain(h)
  BY <1>1, <1>4, MoveInv DEF EndDrain, PC
<1>5. CASE StealNothing(h)
  BY <1>1, <1>5, MoveInv DEF StealNothing, PC
<1>6. CASE Lose(h)
  BY <1>1, <1>6, MoveInv DEF Lose, PC
<1> QED BY <1>2, <1>3, <1>4, <1>5, <1>6

-----------------------------------------------------------------------------
(* The idle loops *)

LEMMA EnterIdleLoopInv ==
  ASSUME QueueInv, NEW h \in Hart, EnterIdleLoop(h)
  PROVE  QueueInv'
<1> USE InvParts, ProcFacts
<1>1. /\ pc' \in [Hart -> PC] /\ pc[h] = "run" /\ pc'[h] = "steal"
      /\ \A g \in Hart : g # h => pc'[g] = pc[g]
  BY GotoFacts DEF EnterIdleLoop, PC
<1>2. ControlOK'
  BY <1>1 DEF EnterIdleLoop, ControlOK, sweepVars
<1>3. CASE h # Boot
  <2>1. state' = state /\ waiting' = waiting
    BY <1>3 DEF EnterIdleLoop
  <2>2. QueuesOK' /\ OneQueue' /\ BitmapExact'
    BY <2>1, QueueFrame DEF EnterIdleLoop
  <2> QED BY <1>1, <1>2, <2>1, <2>2, KeepFacts DEF EnterIdleLoop
<1>4. CASE h = Boot
  <2>1. /\ circle' = circle /\ ready' = ready /\ process_count' = process_count
        /\ kernel_tp' = kernel_tp /\ stolen' = stolen /\ walk' = walk
    BY DEF EnterIdleLoop, queueVars
  <2>2. "zombie" \in WaitList /\ "zombie" # "sleeping" /\ "sleeping" \in WaitList
    BY DEF WaitList
  <2>3. Range(waiting["zombie"]) = {q \in Proc : state[q] = "zombie"}
    BY <2>2 DEF ListsHoldWaiting
  <2>4. /\ state' \in [Thread -> State]
        /\ \A t \in Thread :
             state'[t] = IF t \in Proc /\ state[t] = "zombie" THEN "freed"
                         ELSE state[t]
    BY <1>4, <2>3 DEF EnterIdleLoop, OrphanCleaner, QueuesOK, State
  <2>5. /\ waiting' \in [WaitList -> Seq(Proc)]
        /\ \A m \in WaitList :
             waiting'[m] = IF m = "zombie" THEN <<>> ELSE waiting[m]
    <3>1. waiting' = [waiting EXCEPT !["zombie"] = <<>>]
      BY <1>4 DEF EnterIdleLoop, OrphanCleaner
    <3>2. waiting \in [WaitList -> Seq(Proc)] /\ <<>> \in Seq(Proc)
      BY DEF QueuesOK
    <3> QED BY <3>1, <3>2, <2>2
  <2>6. \A t \in Thread :
          /\ state'[t] \in {"ready", "running"} <=> state[t] \in {"ready", "running"}
          /\ \A m \in WaitList \ {"zombie"} : state'[t] = m <=> state[t] = m
    BY <2>4 DEF WaitList
  <2>7. BitmapExact'
    BY <2>1 DEF BitmapExact
  <2>8. CirclesHoldRunnable'
    <3>1. \A g \in Hart, i \in Level : Range(circle[g][i]) \subseteq Thread
      BY DEF QueuesOK, RunqueuesOK, Range
    <3> QED BY <3>1, <2>1, <2>6 DEF CirclesHoldRunnable
  <2>9. NoThreadLost'
    BY <2>1, <2>6 DEF NoThreadLost, InTransit, OwnCircle
  <2>10. ListsHoldWaiting'
    <3> SUFFICES ASSUME NEW m \in WaitList
                 PROVE  /\ IsInjective(waiting'[m])
                        /\ Range(waiting'[m]) = {q \in Proc : state'[q] = m}
      BY DEF ListsHoldWaiting
    <3>1. CASE m = "zombie"
      <4>1. Range(<<>>) = {} /\ IsInjective(<<>>)
        BY DEF Range, IsInjective
      <4>2. \A q \in Proc : state'[q] # "zombie"
        BY <2>4
      <4> QED BY <3>1, <4>1, <4>2, <2>5
    <3>2. CASE m # "zombie"
      <4>1. waiting'[m] = waiting[m]
        BY <3>2, <2>5
      <4>2. \A q \in Proc : state'[q] = m <=> state[q] = m
        BY <3>2, <2>6
      <4>3. IsInjective(waiting[m]) /\ Range(waiting[m]) = {q \in Proc : state[q] = m}
        BY DEF ListsHoldWaiting
      <4> QED BY <4>1, <4>2, <4>3
    <3> QED BY <3>1, <3>2
  <2>11. QueuesOK' /\ OneQueue'
    BY <2>1, <2>4, <2>5, <2>8, <2>9, <2>10 DEF QueuesOK, RunqueuesOK, OneQueue
  <2>12. \A g \in Hart : stolen[g] # Null =>
           state'[stolen[g]] \in {"ready", "running"}
    <3>1. \A g \in Hart : stolen[g] # Null => stolen[g] \in Thread
      BY DEF ControlOK
    <3> QED BY <3>1, <2>6 DEF TransitInv
  <2>13. Range(waiting["sleeping"]) \subseteq Range(waiting'["sleeping"])
    BY <2>2, <2>5
  <2> QED BY <1>1, <1>2, <2>1, <2>7, <2>11, <2>12, <2>13, KeepFacts
<1> QED BY <1>3, <1>4

\* The thread steal_process picks is a process in the circle it is taken from.
LEMMA StealableFacts ==
  ASSUME QueueInv, NEW h \in Hart, NEW v \in Victims(h)
  PROVE  LET s == circle[v][Least(Stealable(v))]
             t == IF Head(s) = curr[v] THEN s[2] ELSE Head(s)
         IN  v \in Hart \ {h} /\ t \in Proc /\ t \in Range(OwnCircle(v, t))
<1> USE InvParts
<1> DEFINE i == Least(Stealable(v))
           s == circle[v][i]
           t == IF Head(s) = curr[v] THEN s[2] ELSE Head(s)
<1>1. v \in Hart \ {h} /\ Stealable(v) # {}
  BY DEF Victims
<1>2. i \in Stealable(v)
  <2>1. Stealable(v) \in SUBSET Nat
    BY <1>1 DEF Stealable, QueuesOK, RunqueuesOK, Level
  <2> QED BY <1>1, <2>1, LeastFacts
<1> HIDE DEF i
<1>3. i \in Level /\ i # IdlePriority /\ s \in Seq(Thread) /\ IsInjective(s)
  BY <1>1, <1>2 DEF Stealable, QueuesOK, RunqueuesOK, CirclesHoldRunnable
<1>4. PICK x \in Range(s) : x # curr[v]
  BY <1>2 DEF Stealable
<1> HIDE DEF s
<1>5. t \in Range(s)
  <2>1. s # <<>> /\ DOMAIN s = 1..Len(s) /\ Len(s) \in Nat /\ Head(s) = s[1]
    BY <1>3, <1>4 DEF Range
  <2>2. CASE Head(s) = curr[v]
    <3>1. PICK j \in 1..Len(s) : s[j] = x
      BY <1>4, <2>1 DEF Range
    <3>2. j # 1
      BY <3>1, <2>1, <2>2, <1>4
    <3>3. 2 \in 1..Len(s)
      BY <3>1, <3>2, <2>1
    <3> QED BY <3>3, <2>1, <2>2 DEF Range
  <2>3. CASE Head(s) # curr[v]
    BY <2>1, <2>3, <1>3, TailFacts
  <2> QED BY <2>2, <2>3
<1> HIDE DEF t
<1>6. t \in Thread /\ Priority[t] = i
  BY <1>1, <1>3, <1>5 DEF CirclesHoldRunnable, s, Range
<1>7. t \in Proc
  BY <1>3, <1>6, SchedulerAssumption DEF Thread
<1>8. t \in Range(OwnCircle(v, t))
  BY <1>5, <1>6 DEF OwnCircle, s
<1> QED BY <1>1, <1>7, <1>8 DEF i, s, t

LEMMA StealTakeInv ==
  ASSUME QueueInv, NEW h \in Hart, StealTake(h)
  PROVE  QueueInv'
<1> USE InvParts, ProcFacts
<1>1. PICK v \in Hart, t \in Proc :
        /\ t \in Range(OwnCircle(v, t)) /\ Dequeue(v, t)
        /\ stolen' = [stolen EXCEPT ![h] = t]
  BY StealableFacts DEF StealTake, Victims
<1>2. stolen[h] = Null
  BY DEF StealTake, TransitInv
<1>3. /\ QueuesOK' /\ OneQueue' /\ BitmapExact'
      /\ state[t] \in {"ready", "running"} /\ \A g \in Hart : stolen[g] # t
  BY <1>1, <1>2, TakeFacts DEF StealTake, threadVars
<1>4. /\ pc' \in [Hart -> PC] /\ pc[h] = "steal" /\ pc'[h] = "put"
      /\ \A g \in Hart : g # h => pc'[g] = pc[g]
  BY GotoFacts DEF StealTake, PC
<1>5. /\ stolen' \in [Hart -> Proc \cup {Null}]
      /\ \A g \in Hart : stolen'[g] = IF g = h THEN t ELSE stolen[g]
  BY <1>1 DEF ControlOK
<1>6. ControlOK'
  BY <1>4, <1>5 DEF StealTake, ControlOK, sweepVars, threadVars
<1>7. TypeOK'
  BY <1>3, <1>6, TypeParts DEF TypeOK, QueuesOK, RunqueuesOK, ControlOK
<1>8. TransitInv'
  BY <1>3, <1>4, <1>5 DEF TransitInv, StealTake, threadVars
<1>9. WalkInv'
  BY <1>4 DEF WalkInv, StealTake
<1> QED BY <1>3, <1>7, <1>8, <1>9 DEF QueueInv

LEMMA StealPutInv ==
  ASSUME QueueInv, NEW h \in Hart, StealPut(h)
  PROVE  QueueInv'
<1> USE InvParts, ProcFacts
<1>1. stolen[h] # Null
  BY DEF StealPut, TransitInv
<1>2. QueuesOK' /\ OneQueue' /\ BitmapExact'
  BY <1>1, PutFacts DEF StealPut
<1>3. /\ pc' \in [Hart -> PC] /\ pc[h] = "put" /\ pc'[h] = "run"
      /\ \A g \in Hart : g # h => pc'[g] = pc[g]
  BY GotoFacts DEF StealPut, PC
<1>4. /\ stolen' \in [Hart -> Proc \cup {Null}]
      /\ \A g \in Hart : stolen'[g] = IF g = h THEN Null ELSE stolen[g]
  BY DEF StealPut, ControlOK
<1>5. ControlOK'
  BY <1>3, <1>4 DEF StealPut, ControlOK, sweepVars
<1>6. TypeOK'
  BY <1>2, <1>5, TypeParts DEF TypeOK, QueuesOK, RunqueuesOK, ControlOK
<1>7. TransitInv'
  BY <1>3, <1>4 DEF TransitInv, StealPut
<1>8. WalkInv'
  BY <1>3 DEF WalkInv, StealPut
<1> QED BY <1>2, <1>6, <1>7, <1>8 DEF QueueInv

-----------------------------------------------------------------------------
(* The theorems *)

LEMMA StutterInv == QueueInv /\ UNCHANGED vars => QueueInv'
<1> SUFFICES ASSUME QueueInv, UNCHANGED vars PROVE QueueInv'
  OBVIOUS
<1>1. QueuesOK' /\ OneQueue' /\ BitmapExact'
  BY QueueFrame DEF vars, threadVars
<1>2. ControlOK'
  BY InvParts DEF ControlOK, vars, threadVars, sweepVars
<1> QED BY <1>1, <1>2, KeepFacts DEF vars, threadVars

LEMMA NextInv == QueueInv /\ Next => QueueInv'
<1> SUFFICES ASSUME QueueInv, NEW h \in Hart, Step(h) PROVE QueueInv'
  BY DEF Next
<1>1. CASE TimerTick(h)
  BY <1>1, TimerTickInv
<1>2. CASE Lose(h)
  BY <1>2, MovesInv
<1>3. CASE \E p \in Proc : Spawn(h, p)
  BY <1>3, SpawnInv
<1>4. CASE \E p \in Proc : WakeReader(h, p)
  BY <1>4, WakeInv DEF WakeReader
<1>5. CASE Kernel(h)
  BY <1>5, EnterInterruptInv, LockSleepersInv, SleepOnInv, AwakenInv, AccountInv,
     ScheduleInv, RotateNullInv, MovesInv, EnterIdleLoopInv, StealTakeInv,
     StealPutInv DEF Kernel
<1>6. CASE User(h)
  <2>1. /\ {"blocked", "recv", "send"} \subseteq WaitList
        /\ {"read", "recv", "send"} \subseteq Call
        /\ ticks \in [Thread -> 0..TickMod - 1]
    BY InvParts DEF WaitList, Call, ControlOK
  <2>2. CASE BlockOnRead(h)
    BY <2>1, <2>2, BlockInv DEF BlockOnRead
  <2>3. CASE BlockOnRecv(h)
    BY <2>1, <2>3, BlockInv DEF BlockOnRecv
  <2>4. CASE BlockOnSend(h)
    BY <2>1, <2>4, BlockInv DEF BlockOnSend
  <2>5. CASE Yield(h)
    BY <2>5, YieldInv
  <2>6. CASE Exit(h)
    BY <2>6, ExitInv
  <2>7. CASE \E n \in SleepArg : Sleep(h, n)
    BY <2>7, SleepInv
  <2>8. CASE StartDrain(h)
    BY <2>8, MovesInv
  <2>9. CASE \E p \in Proc : WakeReceiver(h, p) \/ WakeSender(h, p)
    BY <2>9, WakeInv DEF WakeReceiver, WakeSender
  <2> QED BY <1>6, <2>2, <2>3, <2>4, <2>5, <2>6, <2>7, <2>8, <2>9 DEF User
<1> QED BY <1>1, <1>2, <1>3, <1>4, <1>5, <1>6 DEF Step

\* The inductive invariant: types, queues, bitmap, and the two facts about a
\* thread in transit and about the walk over the sleepers.
THEOREM QueueInvTheorem == Spec => []QueueInv
<1>1. QueueInv /\ [Next]_vars => QueueInv'
  BY NextInv, StutterInv
<1> QED BY <1>1, InitFacts, PTL DEF Spec

\* The counters of the code, the ticks among them, never leave their ranges,
\* and no list holds anything but threads.
THEOREM TypeCorrect == Spec => []TypeOK
<1>1. QueueInv => TypeOK
  BY DEF QueueInv
<1> QED BY <1>1, QueueInvTheorem, PTL

\* On any number of harts, whatever is interleaved, no thread is ever in two
\* queues, in a queue its state does not name, or lost: the spinlocks of
\* scheduler.c are enough for that, until a trap works on another hart's
\* runqueue or a running thread is freed (where the behaviours of Spec end).
THEOREM NoThreadLostTheorem == Spec => []OneQueue
<1>1. QueueInv => OneQueue
  BY DEF QueueInv
<1> QED BY <1>1, QueueInvTheorem, PTL

\* The bitmap schedule() searches names a priority exactly when a thread can
\* be found there, and the idle thread always can.
THEOREM BitmapTheorem == Spec => []BitmapExact
<1>1. QueueInv => BitmapExact
  BY DEF QueueInv
<1> QED BY <1>1, QueueInvTheorem, PTL

-----------------------------------------------------------------------------
(* How states change *)

LEMMA UnblockStates ==
  ASSUME QueueInv, NEW h \in Hart, NEW l \in WaitList,
         NEW p \in Range(waiting[l]), Unblock(h, l, p)
  PROVE  \A t \in Thread :
           state'[t] = state[t] \/ (t = p /\ state[t] = l /\ state'[t] = "ready")
<1>1. p \in Proc /\ state[p] = l
  BY InvParts DEF ListsHoldWaiting
<1> QED BY <1>1, InvParts DEF Unblock, QueuesOK

LEMMA LeaveStates ==
  ASSUME QueueInv, NEW h \in Hart, NEW l \in WaitList, NEW c \in Call,
         Syscall(h, c), Leave(h, l)
  PROVE  \A t \in Thread :
           \/ state'[t] = state[t]
           \/ t = curr[h] /\ state[t] \in {"ready", "running"} /\ state'[t] = l
<1>1. /\ state[curr[h]] \in {"ready", "running"}
      /\ state' = [state EXCEPT ![curr[h]] = l]
  BY LeaveFacts DEF Syscall
<1> QED BY <1>1, InvParts DEF QueuesOK

\* The kernel by itself wakes sleepers, takes turns and frees zombies.
KernelMoves ==
  \A t \in Thread :
    \/ state'[t] = state[t]
    \/ state[t] \in {"ready", "running", "sleeping"} /\ state'[t] \in {"ready", "running"}
    \/ state[t] = "zombie" /\ state'[t] = "freed"

LEMMA KernelStates ==
  ASSUME QueueInv, NEW h \in Hart, Kernel(h)
  PROVE  KernelMoves
<1> USE InvParts, ProcFacts
<1>1. CASE UNCHANGED state
  BY <1>1 DEF KernelMoves
<1>2. CASE Awaken(h)
  <2>1. walk[h] \in Seq(Proc) /\ walk[h] # <<>>
    BY <1>2 DEF ControlOK, Awaken
  <2>2. Head(walk[h]) \in Range(waiting["sleeping"]) /\ "sleeping" \in WaitList
    BY <2>1, TailFacts DEF WalkInv, WaitList
  <2>3. Unblock(h, "sleeping", Head(walk[h]))
    BY <1>2 DEF Awaken
  <2> QED BY <2>2, <2>3, UnblockStates DEF KernelMoves
<1>3. CASE Schedule(h)
  <2>1. NextThread(h) \in Thread
    BY <1>3, NextThreadFacts DEF Schedule
  <2>2. \A t \in Thread :
          StateAfter(h)[t] # state[t] =>
            state[t] \in {"ready", "running"} /\ StateAfter(h)[t] = "ready"
    BY StateAfterFacts
  <2>3. \/ state' = StateAfter(h)
        \/ /\ state' = [StateAfter(h) EXCEPT ![NextThread(h)] = "running"]
           /\ StateAfter(h)[NextThread(h)] = "ready"
    BY <1>3 DEF Schedule
  <2>4. StateAfter(h) \in [Thread -> State]
    BY StateAfterFacts
  <2> QED BY <2>1, <2>2, <2>3, <2>4 DEF KernelMoves
<1>4. CASE RotateNull(h)
  BY <1>4, StateAfterFacts DEF RotateNull, KernelMoves
<1>5. CASE EnterIdleLoop(h)
  <2>1. CASE h = Boot
    <3>1. Range(waiting["zombie"]) = {q \in Proc : state[q] = "zombie"}
      BY DEF ListsHoldWaiting, WaitList
    <3> QED BY <1>5, <2>1, <3>1 DEF EnterIdleLoop, OrphanCleaner, KernelMoves
  <2>2. CASE h # Boot
    BY <1>5, <2>2 DEF EnterIdleLoop, KernelMoves
  <2> QED BY <2>1, <2>2
<1> QED BY <1>1, <1>2, <1>3, <1>4, <1>5
        DEF Kernel, EnterInterrupt, LockSleepers, SleepOn, Account, EndDrain,
            EndExit, StealTake, StealNothing, StealPut, threadVars

-----------------------------------------------------------------------------
(* Exit is final *)

\* The only step that changes the state of a process that exited frees it.
ExitedStays ==
  \A t \in Thread :
    \/ state'[t] = state[t]
    \/ state[t] \notin {"zombie", "freed"}
    \/ state[t] = "zombie" /\ state'[t] = "freed"

LEMMA WakeExited ==
  ASSUME QueueInv, NEW h \in Hart, NEW l \in WaitList \ {"zombie"},
         NEW p \in Range(waiting[l]), Unblock(h, l, p)
  PROVE  ExitedStays
BY UnblockStates DEF ExitedStays, WaitList

LEMMA LeaveExited ==
  ASSUME QueueInv, NEW h \in Hart, NEW l \in WaitList, NEW c \in Call,
         Syscall(h, c), Leave(h, l)
  PROVE  ExitedStays
BY LeaveStates DEF ExitedStays

LEMMA KernelExited ==
  ASSUME QueueInv, NEW h \in Hart, Kernel(h)
  PROVE  ExitedStays
BY KernelStates DEF KernelMoves, ExitedStays

LEMMA UserExited ==
  ASSUME QueueInv, NEW h \in Hart, User(h)
  PROVE  ExitedStays
<1> USE InvParts, ProcFacts
<1>1. /\ WaitList = {"blocked", "sleeping", "recv", "send", "zombie"}
      /\ Call = {"read", "exit", "yield", "sleep", "send", "recv"}
  BY DEF WaitList, Call
<1>2. CASE Yield(h)
  <2>1. state[curr[h]] \in {"ready", "running"}
    BY <1>2 DEF Yield, Syscall, OwnCircle, CirclesHoldRunnable, ControlOK
  <2> QED BY <1>2, <2>1 DEF Yield, ExitedStays, QueuesOK
<1>3. CASE BlockOnRead(h) \/ BlockOnRecv(h) \/ BlockOnSend(h)
  BY <1>1, <1>3, LeaveExited DEF BlockOnRead, BlockOnRecv, BlockOnSend, Block
<1>4. CASE Exit(h)
  BY <1>1, <1>4, LeaveExited DEF Exit
<1>5. CASE \E n \in SleepArg : Sleep(h, n)
  BY <1>1, <1>5, LeaveExited DEF Sleep, Block
<1>6. CASE StartDrain(h)
  BY <1>6 DEF StartDrain, threadVars, ExitedStays
<1>7. CASE \E p \in Proc : WakeReceiver(h, p) \/ WakeSender(h, p)
  BY <1>1, <1>7, WakeExited DEF WakeReceiver, WakeSender, Wake
<1> QED BY <1>2, <1>3, <1>4, <1>5, <1>6, <1>7 DEF User

LEMMA StepExited ==
  ASSUME QueueInv, NEW h \in Hart, Step(h)
  PROVE  ExitedStays
<1>1. CASE TimerTick(h) \/ Lose(h)
  BY <1>1 DEF TimerTick, Lose, threadVars, ExitedStays
<1>2. CASE \E p \in Proc : Spawn(h, p)
  BY <1>2, InvParts DEF Spawn, ExitedStays, QueuesOK
<1>3. CASE \E p \in Proc : WakeReader(h, p)
  BY <1>3, WakeExited DEF WakeReader, Wake, WaitList
<1> QED BY <1>1, <1>2, <1>3, KernelExited, UserExited DEF Step

\* A process that called exit_process never runs again, on any hart: the only
\* step left to it is to be freed.
THEOREM ExitTheorem == Spec => ExitIsFinal
<1>1. QueueInv /\ [Next]_vars =>
        [\A p \in Proc :
           /\ state[p] = "zombie" => state'[p] \in {"zombie", "freed"}
           /\ state[p] = "freed" => state'[p] = "freed"]_vars
  <2> SUFFICES ASSUME QueueInv, Next, NEW p \in Proc
               PROVE  /\ state[p] = "zombie" => state'[p] \in {"zombie", "freed"}
                      /\ state[p] = "freed" => state'[p] = "freed"
    OBVIOUS
  <2>1. ExitedStays
    BY StepExited DEF Next
  <2> QED BY <2>1, ProcFacts DEF ExitedStays
<1> QED BY <1>1, QueueInvTheorem, PTL DEF Spec, ExitIsFinal

-----------------------------------------------------------------------------
(* process_count *)

CountInv == \A h \in Hart :
  IsFiniteSet(Members(h)) /\ process_count[h] = Cardinality(Members(h))

LEMMA EnqueueCount ==
  ASSUME QueueInv, CountInv, NEW h \in Hart, NEW p \in Proc,
         p \notin Members(h), Enqueue(h, p)
  PROVE  CountInv'
<1> USE InvParts, ProcFacts
<1>1. p \notin Range(OwnCircle(h, p)) /\ Priority[p] \in Level
  BY DEF Members, OwnCircle
<1>2. \A g \in Hart, i \in Level :
        \A t : t \in Range(circle'[g][i]) <=>
                 \/ t \in Range(circle[g][i])
                 \/ t = p /\ g = h /\ i = Priority[p]
  <2>1. RunqueuesOK /\ BitmapExact
    BY DEF QueuesOK
  <2>2. \A g \in Hart, i \in Level :
          /\ \A t : t \in Range(circle'[g][i]) <=>
                     \/ t \in Range(circle[g][i])
                     \/ t = p /\ g = h /\ i = Priority[p]
          /\ IsInjective(circle[g][i]) => IsInjective(circle'[g][i])
    BY <1>1, <2>1, EnqueueFacts
  <2> QED BY <2>2
<1>3. \A g \in Hart :
        Members(g)' = IF g = h THEN Members(h) \cup {p} ELSE Members(g)
  <2> SUFFICES ASSUME NEW g \in Hart, NEW t
               PROVE  t \in Members(g)' <=> t \in Members(g) \/ (g = h /\ t = p)
    OBVIOUS
  <2>1. t \in Members(g)' => t \in Members(g) \/ (g = h /\ t = p)
    BY <1>2 DEF Members
  <2>2. t \in Members(g) \/ (g = h /\ t = p) => t \in Members(g)'
    BY <1>1, <1>2 DEF Members
  <2> QED BY <2>1, <2>2
<1>4. \A g \in Hart :
        process_count'[g] = IF g = h THEN process_count[h] + 1 ELSE process_count[g]
  <2>1. process_count' = [process_count EXCEPT ![h] = process_count[h] + 1]
    BY DEF Enqueue
  <2>2. process_count \in [Hart -> Int]
    BY DEF QueuesOK, RunqueuesOK
  <2> QED BY <2>1, <2>2
<1> QED BY <1>3, <1>4, FS_AddElement DEF CountInv

LEMMA DequeueCount ==
  ASSUME QueueInv, CountInv, NEW h \in Hart, NEW p \in Proc,
         p \in Range(OwnCircle(h, p)), Dequeue(h, p)
  PROVE  CountInv'
<1> USE InvParts, ProcFacts
<1>1. Priority[p] \in Level /\ IsInjective(OwnCircle(h, p))
  BY DEF CirclesHoldRunnable, OwnCircle
<1>2. \A g \in Hart, i \in Level :
        \A t : t \in Range(circle'[g][i]) <=>
                 /\ t \in Range(circle[g][i])
                 /\ ~(t = p /\ g = h /\ i = Priority[p])
  BY <1>1, DequeueFacts DEF QueuesOK
<1>3. p \in Members(h) /\ \A i \in Level : p \in Range(circle[h][i]) => i = Priority[p]
  <2>1. p \in Members(h)
    BY <1>1 DEF Members, OwnCircle
  <2> QED BY <2>1 DEF CirclesHoldRunnable
<1>4. \A g \in Hart :
        Members(g)' = IF g = h THEN Members(h) \ {p} ELSE Members(g)
  <2> SUFFICES ASSUME NEW g \in Hart, NEW t
               PROVE  t \in Members(g)' <=> t \in Members(g) /\ ~(g = h /\ t = p)
    OBVIOUS
  <2>1. t \in Members(g)' => t \in Members(g) /\ ~(g = h /\ t = p)
    BY <1>2, <1>3 DEF Members
  <2>2. t \in Members(g) /\ ~(g = h /\ t = p) => t \in Members(g)'
    BY <1>2 DEF Members
  <2> QED BY <2>1, <2>2
<1>5. \A g \in Hart :
        process_count'[g] = IF g = h THEN process_count[h] - 1 ELSE process_count[g]
  BY DEF Dequeue, QueuesOK, RunqueuesOK
<1> QED BY <1>3, <1>4, <1>5, FS_RemoveElement DEF CountInv

LEMMA WakeCount ==
  ASSUME QueueInv, CountInv, NEW h \in Hart, NEW l \in WaitList,
         NEW p \in Range(waiting[l]), Unblock(h, l, p)
  PROVE  CountInv'
<1>1. p \in Proc /\ state[p] \notin {"ready", "running"}
  BY InvParts DEF ListsHoldWaiting, WaitList
<1>2. p \notin Members(h)
  BY <1>1, NotRunnable DEF Members
<1> QED BY <1>1, <1>2, EnqueueCount DEF Unblock

LEMMA LeaveCount ==
  ASSUME QueueInv, CountInv, NEW h \in Hart, NEW l \in WaitList, NEW c \in Call,
         Syscall(h, c), Leave(h, l)
  PROVE  CountInv'
  BY DequeueCount DEF Syscall, Leave

LEMMA SameCount ==
  ASSUME CountInv, process_count' = process_count,
         \A h \in Hart, i \in Level : Range(circle'[h][i]) = Range(circle[h][i])
  PROVE  CountInv'
<1>1. \A h \in Hart : Members(h)' = Members(h)
  BY DEF Members
<1> QED BY <1>1 DEF CountInv

LEMMA KernelCount ==
  ASSUME QueueInv, CountInv, NEW h \in Hart, Kernel(h)
  PROVE  CountInv'
<1> USE InvParts, ProcFacts
<1>1. CASE UNCHANGED queueVars
  BY <1>1, SameCount DEF queueVars
<1>2. CASE Awaken(h)
  <2>1. walk[h] \in Seq(Proc) /\ walk[h] # <<>>
    BY <1>2 DEF ControlOK, Awaken
  <2>2. Head(walk[h]) \in Range(waiting["sleeping"])
    BY <2>1, TailFacts DEF WalkInv
  <2> QED BY <1>2, <2>2, WakeCount DEF Awaken, WaitList
<1>3. CASE Schedule(h)
  <2>1. \A i \in Level :
          \/ CircleAfter(h)[i] = circle[h][i]
          \/ circle[h][i] # <<>> /\ CircleAfter(h)[i] = Rotate(circle[h][i])
    BY <1>3, NextThreadFacts DEF Schedule
  <2>2. circle' = [circle EXCEPT ![h] = CircleAfter(h)]
        /\ process_count' = process_count
    BY <1>3 DEF Schedule
  <2>3. \A g \in Hart, i \in Level : Range(circle'[g][i]) = Range(circle[g][i])
    BY <2>1, <2>2, RotateFacts DEF QueuesOK, RunqueuesOK
  <2> QED BY <2>2, <2>3, SameCount
<1>4. CASE StealTake(h)
  <2>1. PICK v \in Hart, t \in Proc : t \in Range(OwnCircle(v, t)) /\ Dequeue(v, t)
    BY <1>4, StealableFacts DEF StealTake, Victims
  <2> QED BY <2>1, DequeueCount
<1>5. CASE StealPut(h)
  <2>1. /\ stolen[h] # Null /\ stolen[h] \in Proc
        /\ state[stolen[h]] \in {"ready", "running"} /\ InTransit(stolen[h])
    BY <1>5 DEF StealPut, TransitInv, ControlOK, InTransit
  <2>2. stolen[h] \notin Members(h)
    BY <2>1 DEF Members, NoThreadLost, CirclesHoldRunnable, OwnCircle
  <2> QED BY <1>5, <2>1, <2>2, EnqueueCount DEF StealPut
<1> QED BY <1>1, <1>2, <1>3, <1>4, <1>5
        DEF Kernel, EnterInterrupt, LockSleepers, SleepOn, Account, EndDrain,
            EndExit, StealNothing, RotateNull, EnterIdleLoop

LEMMA UserCount ==
  ASSUME QueueInv, CountInv, NEW h \in Hart, User(h)
  PROVE  CountInv'
<1>1. /\ WaitList = {"blocked", "sleeping", "recv", "send", "zombie"}
      /\ Call = {"read", "exit", "yield", "sleep", "send", "recv"}
  BY DEF WaitList, Call
<1>2. CASE Yield(h) \/ StartDrain(h)
  BY <1>2, SameCount DEF Yield, StartDrain, queueVars
<1>3. CASE BlockOnRead(h) \/ BlockOnRecv(h) \/ BlockOnSend(h)
  BY <1>1, <1>3, LeaveCount DEF BlockOnRead, BlockOnRecv, BlockOnSend, Block
<1>4. CASE Exit(h)
  BY <1>1, <1>4, LeaveCount DEF Exit
<1>5. CASE \E n \in SleepArg : Sleep(h, n)
  BY <1>1, <1>5, LeaveCount DEF Sleep, Block
<1>6. CASE \E p \in Proc : WakeReceiver(h, p) \/ WakeSender(h, p)
  BY <1>1, <1>6, WakeCount DEF WakeReceiver, WakeSender, Wake
<1> QED BY <1>2, <1>3, <1>4, <1>5, <1>6 DEF User

LEMMA StepCount ==
  ASSUME QueueInv, CountInv, NEW h \in Hart, Step(h)
  PROVE  CountInv'
<1>1. CASE TimerTick(h) \/ Lose(h)
  BY <1>1, SameCount DEF TimerTick, Lose, queueVars
<1>2. CASE \E p \in Proc : Spawn(h, p)
  <2>1. PICK p \in Proc : Spawn(h, p)
    BY <1>2
  <2>2. p \notin Members(h)
    BY <2>1, NotRunnable DEF Spawn, Members
  <2> QED BY <2>1, <2>2, EnqueueCount DEF Spawn
<1>3. CASE \E p \in Proc : WakeReader(h, p)
  BY <1>3, WakeCount DEF WakeReader, Wake, WaitList
<1> QED BY <1>1, <1>2, <1>3, KernelCount, UserCount DEF Step

LEMMA InitCount == Init => CountInv
<1> SUFFICES ASSUME Init, NEW h \in Hart
             PROVE  /\ IsFiniteSet(Members(h))
                    /\ process_count[h] = Cardinality(Members(h))
  BY DEF CountInv
<1>1. IdlePriority \in Level
  BY SchedulerAssumption DEF Level
<1>2. \A i \in Level :
        circle[h][i] = IF i = IdlePriority THEN <<Idle[h]>> ELSE <<>>
  BY DEF Init
<1>3. Range(<<Idle[h]>>) = {Idle[h]} /\ Range(<<>>) = {}
  BY DEF Range
<1>4. Members(h) = {Idle[h]}
  BY <1>1, <1>2, <1>3 DEF Members
<1>5. process_count[h] = 1
  BY DEF Init
<1> QED BY <1>4, <1>5, FS_Singleton

\* process_count, which steal_process reads with no lock to choose a victim,
\* is the number of threads of the runqueue, on every hart.
THEOREM CountTheorem == Spec => []CountExact
<1>1. QueueInv /\ CountInv /\ [Next]_vars => CountInv'
  <2> SUFFICES ASSUME QueueInv, CountInv, [Next]_vars PROVE CountInv'
    OBVIOUS
  <2>1. CASE Next
    BY <2>1, StepCount DEF Next
  <2>2. CASE UNCHANGED vars
    BY <2>2, SameCount DEF vars, queueVars
  <2> QED BY <2>1, <2>2
<1>2. CountInv => CountExact
  BY DEF CountInv, CountExact
<1> QED BY <1>1, <1>2, InitCount, QueueInvTheorem, PTL DEF Spec

-----------------------------------------------------------------------------
(* A machine with one hart.  With two harts none of the theorems from here on *)
(* holds: a thread that is woken or stolen before its own hart has switched   *)
(* away from it is on two harts at once.                                      *)

OneHart == Hart = {Boot}

\* The running thread is the only one in that state, and a thread that stays on
\* the hart in another does not get back to its own instructions: an interrupt
\* is pending or is being taken, or exit_process is on its way to pend one.
RunInv ==
  /\ pc[Boot] \in PC \ {"put", "panic", "fault", "lost"}
  /\ \A t \in Thread : state[t] = "running" => t = curr[Boot]
  /\ state[Idle[Boot]] \in {"ready", "running"}
  /\ state[curr[Boot]] # "freed"
  /\ pc[Boot] \in {"drain", "steal"} => state[curr[Boot]] = "running"
  /\ pc[Boot] = "run" /\ ~ssip[Boot] => state[curr[Boot]] = "running"

\* The thread to rescue is in a circle, where only its own calls take it off.
EmergencyInv == emergency # Null => emergency \in Range(OwnCircle(Boot, emergency))

Foremost == \A i \in ready[Boot] : Priority[curr[Boot]] <= i

\* A more urgent thread is only ever linked together with the end of the slice
\* of the running one, which then lasts until schedule() is reached.
PriorityInv ==
  picked[Boot] = "priority" /\ state[curr[Boot]] = "running" /\ pc[Boot] # "schedule" =>
    \/ Foremost
    \/ ticks[curr[Boot]] = 0 /\ (ssip[Boot] \/ pc[Boot] \in {"sleepers", "walk"})

OneHartInv == OneHart /\ QueueInv /\ RunInv /\ EmergencyInv /\ PriorityInv
-----------------------------------------------------------------------------
\* What the invariant says of the one hart
LEMMA BootFacts ==
  ASSUME OneHartInv
  PROVE  /\ Boot \in Hart /\ OneHart
         /\ curr[Boot] \in Thread /\ curr \in [Hart -> Thread]
         /\ Idle[Boot] \in Thread /\ Idle[Boot] \notin Proc
         /\ \A t \in Thread : t \in Proc \/ t = Idle[Boot]
         /\ Priority[Idle[Boot]] = IdlePriority
         /\ Level \subseteq Nat /\ ready[Boot] \subseteq Level
         /\ \A t \in Thread : Priority[t] \in Level
         /\ state \in [Thread -> State] /\ ticks \in [Thread -> 0..TickMod - 1]
         /\ pc \in [Hart -> PC] /\ ssip \in [Hart -> BOOLEAN]
         /\ picked \in [Hart -> {"boot", "priority", "emergency"}]
         /\ emergency \in Thread \cup {Null} /\ Null \notin Thread
         /\ stolen[Boot] = Null
         /\ \A p \in Proc : kernel_tp[p] = Boot
<1> USE SchedulerAssumption DEF OneHartInv
<1>1. Boot \in Hart /\ OneHart /\ Idle[Boot] \in Thread /\ Idle[Boot] \notin Proc
  BY ProcFacts
<1>2. \A t \in Thread : t \in Proc \/ t = Idle[Boot]
  BY DEF OneHart, Thread, Range
<1>3. Priority[Idle[Boot]] = IdlePriority
  BY <1>1 DEF Range
<1>4. stolen[Boot] = Null  BY <1>1, InvParts DEF TransitInv, RunInv
<1>5. \A p \in Proc : kernel_tp[p] = Boot
  BY InvParts DEF QueuesOK, OneHart
<1>6. Level \subseteq Nat /\ \A t \in Thread : Priority[t] \in Level
  BY DEF Level
<1> QED  BY <1>1, <1>2, <1>3, <1>4, <1>5, <1>6, InvParts DEF QueuesOK, RunqueuesOK, ControlOK

\* A running thread is in the circle of its priority.
LEMMA RunningIsQueued ==
  ASSUME OneHartInv, state[curr[Boot]] = "running"
  PROVE  curr[Boot] \in Range(OwnCircle(Boot, curr[Boot])) /\ OwnCircle(Boot, curr[Boot]) # <<>>
<1>1. CASE curr[Boot] \in Proc
  BY <1>1, BootFacts, InvParts, ProcFacts DEF OneHartInv, NoThreadLost, InTransit, OneHart, Range
<1>2. CASE curr[Boot] = Idle[Boot]
  <2>1. OwnCircle(Boot, curr[Boot]) = <<Idle[Boot]>>
    BY <1>2, BootFacts, InvParts DEF OneHartInv, OwnCircle, BitmapExact
  <2>2. Idle[Boot] \in Range(<<Idle[Boot]>>) /\ <<Idle[Boot]>> # <<>>
    BY DEF Range
  <2> QED  BY <1>2, <2>1, <2>2
<1> QED  BY <1>1, <1>2, BootFacts

\* A rescue stays possible while no thread is taken off its circle.
LEMMA EmergencyFrame ==
  ASSUME OneHartInv, emergency' \in {emergency, Null},
         \A i \in Level, t \in Thread :
           t \in Range(circle[Boot][i]) => t \in Range(circle'[Boot][i])
  PROVE  EmergencyInv'
BY BootFacts DEF OneHartInv, EmergencyInv, OwnCircle

LEMMA PriorityFrame ==
  ASSUME OneHartInv, UNCHANGED <<ready, curr, picked>>,
         \/ state'[curr[Boot]] # "running"
         \/ /\ state[curr[Boot]] = "running"
            /\ ticks'[curr[Boot]] = ticks[curr[Boot]]
            /\ pc[Boot] # "schedule"
            /\ ssip[Boot] => ssip'[Boot]
            /\ pc[Boot] \in {"sleepers", "walk"} => pc'[Boot] \in {"sleepers", "walk"}
  PROVE  PriorityInv'
BY DEF OneHartInv, PriorityInv, Foremost

\* The parts of OneHartInv that are not about the queues
OneHartRest == RunInv /\ EmergencyInv /\ PriorityInv

LEMMA TimerTickOne ==
  ASSUME OneHartInv, TimerTick(Boot)  PROVE OneHartRest'
<1> USE BootFacts
<1>1. RunInv'  BY DEF OneHartInv, RunInv, TimerTick, threadVars
<1>2. EmergencyInv'  BY EmergencyFrame DEF TimerTick, queueVars
<1>3. PriorityInv'
  <2>1. ssip'[Boot] = TRUE  BY DEF TimerTick
  <2> QED  BY <2>1 DEF OneHartInv, PriorityInv, Foremost, TimerTick, threadVars, queueVars
<1> QED  BY <1>1, <1>2, <1>3 DEF OneHartRest

LEMMA EnterInterruptOne ==
  ASSUME OneHartInv, EnterInterrupt(Boot)  PROVE OneHartRest'
<1> USE BootFacts DEF EnterInterrupt, Trap, Goto
<1>1. RunInv'  BY DEF OneHartInv, RunInv, PC
<1>2. EmergencyInv'  BY EmergencyFrame DEF queueVars
<1>3. PriorityInv'
  <2>1. ticks[curr[Boot]] = 0 => ticks'[curr[Boot]] = 0
    OBVIOUS
  <2>2. pc'[Boot] = "sleepers"  OBVIOUS
  <2> QED  BY <2>1, <2>2 DEF OneHartInv, PriorityInv, Foremost, queueVars
<1> QED  BY <1>1, <1>2, <1>3 DEF OneHartRest

LEMMA LockSleepersOne ==
  ASSUME OneHartInv, LockSleepers(Boot)  PROVE OneHartRest'
<1> USE BootFacts DEF LockSleepers, Goto
<1>1. RunInv'  BY DEF OneHartInv, RunInv, PC, threadVars
<1>2. EmergencyInv'  BY EmergencyFrame DEF queueVars
<1>3. PriorityInv'  BY DEF OneHartInv, PriorityInv, Foremost, queueVars, threadVars
<1> QED  BY <1>1, <1>2, <1>3 DEF OneHartRest

\* A sleeper is not the running thread.
LEMMA SleepOnOne ==
  ASSUME OneHartInv, SleepOn(Boot)  PROVE OneHartRest'
<1> USE BootFacts DEF SleepOn
<1>1. RunInv'  BY DEF OneHartInv, RunInv
<1>2. EmergencyInv'  BY EmergencyFrame DEF queueVars
<1>3. PriorityInv'
  <2> DEFINE p == Head(walk[Boot])
  <2>1. walk[Boot] \in Seq(Proc) /\ walk[Boot] # <<>>
    BY InvParts DEF ControlOK, OneHartInv
  <2>2. p \in Range(waiting["sleeping"])
    BY <2>1, TailFacts, InvParts DEF WalkInv, OneHartInv
  <2>3. state[p] = "sleeping"
    BY <2>2, InvParts DEF ListsHoldWaiting, WaitList, OneHartInv
  <2>4. state[curr[Boot]] = "running" => ticks'[curr[Boot]] = ticks[curr[Boot]]
    BY <2>3
  <2> QED  BY <2>4 DEF OneHartInv, PriorityInv, Foremost, queueVars
<1> QED  BY <1>1, <1>2, <1>3 DEF OneHartRest

\* What waking a process does to the running one
LEMMA UnblockOne ==
  ASSUME OneHartInv, NEW l \in WaitList, NEW p \in Range(waiting[l]), Unblock(Boot, l, p),
         UNCHANGED <<stolen, emergency>>
  PROVE  /\ p \in Proc /\ state[p] = l /\ state[p] \notin {"running", "ready", "freed"}
         /\ \A t \in Thread : state'[t] = IF t = p THEN "ready" ELSE state[t]
         /\ ready'[Boot] = ready[Boot] \cup {Priority[p]}
         /\ EmergencyInv'
<1> USE BootFacts, InvParts DEF OneHartInv
<1>1. p \in Proc /\ state[p] = l  BY DEF ListsHoldWaiting
<1>2. \A t \in Thread : state'[t] = IF t = p THEN "ready" ELSE state[t]
  BY <1>1 DEF Unblock
<1>3. ready'[Boot] = ready[Boot] \cup {Priority[p]}
  BY DEF Unblock, Enqueue, QueuesOK, RunqueuesOK
<1>4. l \notin {"running", "ready", "freed"}  BY DEF WaitList
<1>5. p \notin Range(OwnCircle(Boot, p))
  BY <1>1, <1>4, NotRunnable, ProcFacts DEF OwnCircle
<1>6. Enqueue(Boot, p)  BY DEF Unblock
<1>7. \A i \in Level, t \in Thread :
        t \in Range(circle[Boot][i]) => t \in Range(circle'[Boot][i])
  BY <1>1, <1>5, <1>6, EnqueueFacts DEF QueuesOK
<1>8. EmergencyInv'  BY <1>7, EmergencyFrame
<1> QED  BY <1>1, <1>2, <1>3, <1>4, <1>8

LEMMA AwakenOne ==
  ASSUME OneHartInv, Awaken(Boot)  PROVE OneHartRest'
<1> DEFINE p == Head(walk[Boot])
<1>1. walk[Boot] \in Seq(Proc) /\ walk[Boot] # <<>>
  BY BootFacts, InvParts DEF ControlOK, OneHartInv, Awaken
<1>2. p \in Range(waiting["sleeping"]) /\ "sleeping" \in WaitList
  BY <1>1, BootFacts, TailFacts, InvParts DEF WalkInv, OneHartInv, WaitList
<1>3. Unblock(Boot, "sleeping", p) /\ UNCHANGED <<stolen, emergency>>
  BY DEF Awaken
<1>4. /\ p \in Proc /\ state[p] = "sleeping"
      /\ \A t \in Thread : state'[t] = IF t = p THEN "ready" ELSE state[t]
      /\ ready'[Boot] = ready[Boot] \cup {Priority[p]}
      /\ EmergencyInv'
  BY <1>2, <1>3, UnblockOne
<1>5. /\ pc[Boot] = "walk" /\ UNCHANGED <<pc, curr, ssip, picked>>
      /\ ticks' = [t \in Thread |-> IF t = p \/ (t = curr[Boot] /\ Outranks(Boot, p))
                                    THEN 0 ELSE ticks[t]]
  BY DEF Awaken
<1> HIDE DEF p
<1> USE BootFacts
<1>6. RunInv'  BY <1>4, <1>5 DEF OneHartInv, RunInv
<1>7. PriorityInv'
  <2> SUFFICES ASSUME picked[Boot] = "priority", state'[curr[Boot]] = "running"
               PROVE  Foremost' \/ ticks'[curr[Boot]] = 0
    BY <1>5 DEF PriorityInv
  <2>1. curr[Boot] # p /\ state[curr[Boot]] = "running"  BY <1>4
  <2>2. CASE Outranks(Boot, p)  BY <1>5, <2>2
  <2>3. CASE ~Outranks(Boot, p)
    <3>1. Priority[curr[Boot]] <= Priority[p]
      BY <2>3, <1>4, ProcFacts DEF Outranks
    <3>2. ticks'[curr[Boot]] = ticks[curr[Boot]]  BY <1>5, <2>1, <2>3
    <3> QED  BY <1>4, <1>5, <2>1, <3>1, <3>2 DEF OneHartInv, PriorityInv, Foremost
  <2> QED  BY <2>2, <2>3
<1> QED  BY <1>4, <1>6, <1>7 DEF OneHartRest

LEMMA AccountOne ==
  ASSUME OneHartInv, Account(Boot)  PROVE OneHartRest'
<1> USE BootFacts
<1>0. /\ pc[Boot] = "walk" /\ UNCHANGED <<queueVars, threadVars, curr, ssip, picked>>
      /\ pc'[Boot] = IF MustSwitch(Boot) THEN "schedule" ELSE "run"
  BY DEF Account, Goto
<1>1. RunInv'
  <2>1. pc'[Boot] = "run" => state[curr[Boot]] = "running"  BY <1>0 DEF MustSwitch
  <2> QED  BY <1>0, <2>1 DEF OneHartInv, RunInv, PC, threadVars
<1>2. EmergencyInv'
  <2>1. CASE UNCHANGED emergency  BY <1>0, <2>1, EmergencyFrame DEF queueVars
  <2>2. CASE emergency' # emergency
    <3> DEFINE starved == (passed[Boot] \cap ready[Boot]) \ {IdlePriority}
               k == Greatest(starved)
    <3>1. emergency' = Head(circle[Boot][k]) /\ starved # {}
      BY <2>2 DEF Account, Sweep
    <3>2. starved \in SUBSET (0..IdlePriority) /\ IdlePriority \in Nat
      BY SchedulerAssumption DEF Level
    <3> HIDE DEF starved
    <3>3. k \in starved  BY <3>1, <3>2, GreatestFacts
    <3> USE DEF starved
    <3>4. k \in Level /\ circle[Boot][k] # <<>> /\ circle[Boot][k] \in Seq(Thread)
      BY <3>3, InvParts DEF OneHartInv, BitmapExact, QueuesOK, RunqueuesOK
    <3> HIDE DEF k
    <3>5. emergency' \in Range(circle[Boot][k])  BY <3>1, <3>4, TailFacts
    <3>6. Priority[emergency'] = k
      BY <3>4, <3>5, InvParts DEF OneHartInv, CirclesHoldRunnable
    <3> QED  BY <1>0, <3>5, <3>6 DEF EmergencyInv, OwnCircle, queueVars
  <2> QED  BY <2>1, <2>2
<1>3. PriorityInv'
  <2>1. pc'[Boot] = "run" => ticks[curr[Boot]] # 0  BY <1>0 DEF MustSwitch
  <2> QED  BY <1>0, <2>1 DEF OneHartInv, PriorityInv, Foremost, queueVars, threadVars
<1> QED  BY <1>1, <1>2, <1>3 DEF OneHartRest

\* Every thread in a circle can be picked: the only running one is the one
\* that leaves the hart.
LEMMA ScheduleOne ==
  ASSUME OneHartInv, Schedule(Boot)  PROVE OneHartRest'
<1> USE BootFacts
<1> DEFINE next == NextThread(Boot)
           k == Least(ready[Boot])
<1>1. Preempted(Boot) => OwnCircle(Boot, curr[Boot]) # <<>>  BY DEF Schedule
<1>2. /\ next \in Thread
      /\ CircleAfter(Boot) \in [Level -> Seq(Thread)]
      /\ \A i \in Level :
           \/ CircleAfter(Boot)[i] = circle[Boot][i]
           \/ circle[Boot][i] # <<>> /\ CircleAfter(Boot)[i] = Rotate(circle[Boot][i])
  BY <1>1, NextThreadFacts DEF OneHartInv
<1>3. \A t \in Thread : StateAfter(Boot)[t] =
        IF t = curr[Boot] /\ Preempted(Boot) THEN "ready" ELSE state[t]
  BY DEF StateAfter
<1>4. \A i \in Level : \A t \in Range(circle[Boot][i]) :
        t \in Thread => StateAfter(Boot)[t] = "ready"
  BY <1>3, InvParts DEF OneHartInv, CirclesHoldRunnable, RunInv, Preempted
<1>5. emergency = Null => next \in Range(circle[Boot][k]) /\ k \in Level /\ Priority[next] = k
                          /\ \A i \in ready[Boot] : k <= i
  <2> SUFFICES ASSUME emergency = Null
               PROVE  next \in Range(circle[Boot][k]) /\ k \in Level /\ Priority[next] = k
                      /\ \A i \in ready[Boot] : k <= i
    OBVIOUS
  <2>1. IdlePriority \in ready[Boot] /\ ready[Boot] \in SUBSET Nat
    <3>1. circle[Boot][IdlePriority] = <<Idle[Boot]>>
      BY InvParts DEF OneHartInv, BitmapExact
    <3>2. IdlePriority \in Level  BY SchedulerAssumption DEF Level
    <3>3. ready[Boot] = {i \in Level : circle[Boot][i] # <<>>}
      BY InvParts DEF OneHartInv, BitmapExact
    <3>4. <<Idle[Boot]>> # <<>>  OBVIOUS
    <3>5. IdlePriority \in ready[Boot]
      BY <3>1, <3>2, <3>3, <3>4
    <3> QED  BY <3>5
  <2>2. k \in ready[Boot] /\ \A i \in ready[Boot] : k <= i
    BY <2>1, LeastFacts
  <2>3. k \in Level /\ circle[Boot][k] # <<>> /\ circle[Boot][k] \in Seq(Thread)
    BY <2>2, InvParts DEF OneHartInv, BitmapExact, QueuesOK, RunqueuesOK
  <2> HIDE DEF k
  <2>4. next = Head(CircleAfter(Boot)[k])  BY DEF NextThread, k
  <2>5. next \in Range(circle[Boot][k])
    <3>1. CASE CircleAfter(Boot)[k] = circle[Boot][k]
      BY <2>3, <2>4, <3>1, TailFacts
    <3>2. CASE CircleAfter(Boot)[k] = Rotate(circle[Boot][k])
      <4> DEFINE s == circle[Boot][k]
      <4> HIDE DEF s
      <4>1. s \in Seq(Thread) /\ s # <<>>  BY <2>3 DEF s
      <4>2. Rotate(s) \in Seq(Thread) /\ Range(Rotate(s)) = Range(s) /\ Rotate(s) # <<>>
        BY <4>1, RotateFacts
      <4>3. Head(Rotate(s)) \in Range(s)  BY <4>2, TailFacts
      <4> QED  BY <2>4, <3>2, <4>3 DEF s
    <3> QED  BY <1>2, <2>3, <3>1, <3>2
  <2>6. Priority[next] = k
    BY <2>3, <2>5, InvParts DEF OneHartInv, CirclesHoldRunnable
  <2> QED  BY <2>2, <2>3, <2>5, <2>6
<1>6. emergency # Null => next = emergency /\ next \in Range(circle[Boot][Priority[next]])
  BY DEF NextThread, OneHartInv, EmergencyInv, OwnCircle
<1>7. StateAfter(Boot)[next] = "ready"
  <2>1. CASE emergency = Null
    <3> HIDE DEF k, next
    <3> QED  BY <1>2, <1>4, <1>5, <2>1
  <2>2. CASE emergency # Null
    <3> HIDE DEF k, next
    <3> QED  BY <1>2, <1>4, <1>6, <2>2
  <2> QED  BY <2>1, <2>2
<1>8. /\ pc[Boot] = "schedule" /\ pc' = [pc EXCEPT ![Boot] = "run"]
      /\ curr' = [curr EXCEPT ![Boot] = next]
      /\ state' = [StateAfter(Boot) EXCEPT ![next] = "running"]
      /\ ready' = ready /\ emergency' = Null
      /\ picked' = [picked EXCEPT ![Boot] = IF emergency # Null THEN "emergency" ELSE "priority"]
  BY <1>7 DEF Schedule, Goto
<1> HIDE DEF next, k
<1>9. /\ pc'[Boot] = "run" /\ curr'[Boot] = next
      /\ \A t \in Thread : state'[t] = IF t = next THEN "running" ELSE StateAfter(Boot)[t]
  <2>1. StateAfter(Boot) \in [Thread -> State]  BY StateAfterFacts DEF OneHartInv
  <2> QED  BY <1>2, <1>8, <2>1
<1>10. RunInv'
  BY <1>2, <1>3, <1>9 DEF OneHartInv, RunInv, PC, Preempted
<1>11. EmergencyInv'  BY <1>8 DEF EmergencyInv
<1>12. PriorityInv'
  BY <1>5, <1>8, <1>9 DEF PriorityInv, Foremost
<1> QED  BY <1>10, <1>11, <1>12 DEF OneHartRest

\* There is always a circle to rotate.
LEMMA RotateNullOne ==
  ASSUME OneHartInv  PROVE ~RotateNull(Boot)
BY RunningIsQueued DEF RotateNull, Preempted

\* The steps that only move the hart on
LEMMA MovesOne ==
  ASSUME OneHartInv,
         EndExit(Boot) \/ StartDrain(Boot) \/ EndDrain(Boot) \/ StealNothing(Boot)
  PROVE  OneHartRest'
<1> USE BootFacts
<1>1. /\ UNCHANGED <<queueVars, threadVars, curr, emergency, picked>>
      /\ pc[Boot] \in {"run", "scan", "drain", "steal"}
      /\ pc'[Boot] \in {"run", "drain"}
      /\ ssip[Boot] => ssip'[Boot]
      /\ ssip'[Boot] \/ state[curr[Boot]] = "running"
      /\ pc'[Boot] = "drain" => state[curr[Boot]] = "running"
  BY DEF EndExit, StartDrain, EndDrain, StealNothing, Goto, Syscall, Trap, OneHartInv, RunInv
<1>2. RunInv'  BY <1>1 DEF OneHartInv, RunInv, PC, threadVars
<1>3. EmergencyInv'  BY <1>1, EmergencyFrame DEF queueVars
<1>4. PriorityInv'  BY <1>1, PriorityFrame DEF queueVars, threadVars
<1> QED  BY <1>2, <1>3, <1>4 DEF OneHartRest

\* Only zombies are freed, and the idle thread is none.
LEMMA EnterIdleLoopOne ==
  ASSUME OneHartInv, EnterIdleLoop(Boot)  PROVE OneHartRest'
<1> USE BootFacts
<1>1. /\ UNCHANGED <<queueVars, ticks, curr, emergency, ssip, picked>>
      /\ pc[Boot] = "run" /\ pc'[Boot] = "steal" /\ state[curr[Boot]] = "running"
      /\ curr[Boot] = Idle[Boot]
      /\ OrphanCleaner(Boot)
  BY DEF EnterIdleLoop, Goto, OneHartInv, RunInv
<1>2. \A t \in Range(waiting["zombie"]) : t \in Proc /\ state[t] = "zombie"
  BY InvParts DEF OneHartInv, ListsHoldWaiting, WaitList
<1>3. \A t \in Thread : \/ state'[t] = state[t]
                        \/ state'[t] = "freed" /\ state[t] = "zombie"
  BY <1>1, <1>2 DEF OrphanCleaner
<1>4. state'[curr[Boot]] = "running"  BY <1>1, <1>3
<1>5. RunInv'  BY <1>1, <1>3, <1>4 DEF OneHartInv, RunInv, PC
<1>6. EmergencyInv'  BY <1>1, EmergencyFrame DEF queueVars
<1>7. PriorityInv'  BY <1>1, <1>4, PriorityFrame DEF queueVars
<1> QED  BY <1>5, <1>6, <1>7 DEF OneHartRest

LEMMA YieldOne ==
  ASSUME OneHartInv, Yield(Boot)  PROVE OneHartRest'
<1> USE BootFacts
<1>1. /\ UNCHANGED <<queueVars, ticks, curr, emergency, picked, pc>>
      /\ pc[Boot] = "run" /\ ssip'[Boot]
      /\ \A t \in Thread : state'[t] = IF t = curr[Boot] THEN "ready" ELSE state[t]
  BY DEF Yield, Syscall, Trap
<1>2. RunInv'  BY <1>1 DEF OneHartInv, RunInv
<1>3. EmergencyInv'  BY <1>1, EmergencyFrame DEF queueVars
<1>4. PriorityInv'  BY <1>1, PriorityFrame DEF queueVars
<1> QED  BY <1>2, <1>3, <1>4 DEF OneHartRest

LEMMA DequeueOne ==
  ASSUME OneHartInv, NEW p \in Proc, p \in Range(OwnCircle(Boot, p)), Dequeue(Boot, p)
  PROVE  \A i \in Level, t \in Thread :
           t \in Range(circle[Boot][i]) /\ t # p => t \in Range(circle'[Boot][i])
<1>1. /\ Boot \in Hart /\ IsInjective(OwnCircle(Boot, p))
      /\ RunqueuesOK /\ BitmapExact
  BY InvParts, ProcFacts, SchedulerAssumption
     DEF OneHartInv, CirclesHoldRunnable, OwnCircle, QueuesOK
<1>2. \A g \in Hart, i \in Level :
        \A t : t \in Range(circle'[g][i]) <=>
                 /\ t \in Range(circle[g][i])
                 /\ ~(t = p /\ g = Boot /\ i = Priority[p])
  BY <1>1, DequeueFacts
<1> QED  BY <1>1, <1>2

\* A process that leaves is withdrawn from the rescue, and stays on the hart
\* only as long as something is about to take it off.
LEMMA LeaveOne ==
  ASSUME OneHartInv, NEW l \in WaitList, NEW c \in Call,
         Syscall(Boot, c), Leave(Boot, l),
         pc'[Boot] = "scan" \/ (pc'[Boot] = "run" /\ ssip'[Boot])
  PROVE  OneHartRest'
<1> USE BootFacts
<1>1. /\ curr[Boot] \in Proc /\ curr[Boot] \in Range(OwnCircle(Boot, curr[Boot]))
      /\ Dequeue(Boot, curr[Boot]) /\ curr' = curr /\ emergency' = Withdrawn(Boot)
  BY DEF Syscall, Leave
<1>2. state' = [state EXCEPT ![curr[Boot]] = l]
  BY DEF Leave
<1>3. \A t \in Thread : state'[t] = IF t = curr[Boot] THEN l ELSE state[t]
  BY <1>2
<1>4. l \notin {"running", "ready", "freed"}  BY DEF WaitList
<1>5. RunInv'  BY <1>1, <1>3, <1>4 DEF OneHartInv, RunInv, PC
<1>6. EmergencyInv'
  <2>1. \A i \in Level, t \in Thread :
          t \in Range(circle[Boot][i]) /\ t # curr[Boot] => t \in Range(circle'[Boot][i])
    BY <1>1, DequeueOne
  <2> QED  BY <1>1, <2>1 DEF OneHartInv, EmergencyInv, OwnCircle, Withdrawn
<1>7. PriorityInv'  BY <1>1, <1>3, <1>4 DEF PriorityInv
<1> QED  BY <1>5, <1>6, <1>7 DEF OneHartRest

LEMMA BlockOne ==
  ASSUME OneHartInv, NEW l \in WaitList, NEW c \in Call,
         Syscall(Boot, c), Block(Boot, l)
  PROVE  OneHartRest'
<1>1. Leave(Boot, l) /\ pc'[Boot] = "run" /\ ssip'[Boot]
  BY BootFacts DEF Block, Syscall, Trap
<1> QED  BY <1>1, LeaveOne

LEMMA ExitOne ==
  ASSUME OneHartInv, Exit(Boot)  PROVE OneHartRest'
<1>1. /\ "zombie" \in WaitList /\ "exit" \in Call
      /\ Syscall(Boot, "exit") /\ Leave(Boot, "zombie") /\ pc'[Boot] = "scan"
  BY BootFacts DEF Exit, Goto, WaitList, Call
<1> QED  BY <1>1, LeaveOne

\* A woken process that outranks the running one ends its slice.
LEMMA WakeOne ==
  ASSUME OneHartInv, NEW l \in {"recv", "send", "blocked"}, NEW p \in Proc,
         Wake(Boot, l, p), pc' = pc, pc[Boot] \in {"run", "drain"}
  PROVE  OneHartRest'
<1> USE BootFacts
<1>1. /\ l \in WaitList /\ p \in Range(waiting[l]) /\ Unblock(Boot, l, p)
      /\ UNCHANGED <<stolen, emergency, curr, picked>>
      /\ ticks' = IF Outranks(Boot, p) THEN [ticks EXCEPT ![curr[Boot]] = 0] ELSE ticks
      /\ ssip' = IF Outranks(Boot, p) THEN [ssip EXCEPT ![Boot] = TRUE] ELSE ssip
  BY DEF Wake, WaitList
<1>2. /\ state[p] = l /\ state[p] \notin {"running", "ready", "freed"}
      /\ \A t \in Thread : state'[t] = IF t = p THEN "ready" ELSE state[t]
      /\ ready'[Boot] = ready[Boot] \cup {Priority[p]}
      /\ EmergencyInv'
  BY <1>1, UnblockOne
<1>3. ssip[Boot] => ssip'[Boot]  BY <1>1
<1>4. RunInv'  BY <1>1, <1>2, <1>3 DEF OneHartInv, RunInv
<1>5. PriorityInv'
  <2> SUFFICES ASSUME picked[Boot] = "priority", state'[curr[Boot]] = "running"
               PROVE  Foremost' \/ (ticks'[curr[Boot]] = 0 /\ ssip'[Boot])
    BY <1>1 DEF PriorityInv
  <2>1. state[curr[Boot]] = "running"  BY <1>2
  <2>2. CASE Outranks(Boot, p)
    <3>1. ticks'[curr[Boot]] = 0  BY <1>1, <2>2
    <3>2. ssip'[Boot]  BY <1>1, <2>2
    <3> QED  BY <3>1, <3>2
  <2>3. CASE ~Outranks(Boot, p)
    <3>1. Priority[curr[Boot]] <= Priority[p]  BY <2>3, ProcFacts DEF Outranks
    <3>2. ticks' = ticks /\ ssip' = ssip  BY <1>1, <2>3
    <3>3. CASE Foremost  BY <1>1, <1>2, <3>1, <3>3 DEF Foremost
    <3>4. CASE ~Foremost
      BY <2>1, <3>2, <3>4 DEF OneHartInv, PriorityInv
    <3> QED  BY <3>3, <3>4
  <2> QED  BY <2>2, <2>3
<1> QED  BY <1>2, <1>4, <1>5 DEF OneHartRest

LEMMA SpawnOne ==
  ASSUME OneHartInv, NEW p \in Proc, Spawn(Boot, p)  PROVE OneHartRest'
<1> USE BootFacts
<1>1. /\ curr[Boot] = Idle[Boot] /\ pc[Boot] = "run" /\ state[p] = "unborn"
      /\ \A t \in Thread : state'[t] = IF t = p THEN "ready" ELSE state[t]
      /\ Enqueue(Boot, p) /\ picked'[Boot] = "boot"
      /\ UNCHANGED <<curr, emergency, ssip, pc>>
  BY DEF Spawn
<1>2. RunInv'  BY <1>1 DEF OneHartInv, RunInv
<1>3. EmergencyInv'
  <2>1. p \notin Range(OwnCircle(Boot, p))
    BY <1>1, NotRunnable, ProcFacts DEF OwnCircle, OneHartInv
  <2>2. \A i \in Level, t \in Thread :
          t \in Range(circle[Boot][i]) => t \in Range(circle'[Boot][i])
    BY <1>1, <2>1, EnqueueFacts, InvParts DEF OneHartInv, QueuesOK
  <2> QED  BY <1>1, <2>2, EmergencyFrame
<1>4. PriorityInv'  BY <1>1 DEF PriorityInv
<1> QED  BY <1>2, <1>3, <1>4 DEF OneHartRest

\* There is nobody to steal from, and nowhere to get lost.
LEMMA NoOtherHart ==
  ASSUME OneHartInv
  PROVE  ~StealTake(Boot) /\ ~StealPut(Boot) /\ ~Lose(Boot)
<1>1. ~StealTake(Boot)  BY BootFacts DEF StealTake, Victims, OneHart
<1>2. ~StealPut(Boot)  BY DEF OneHartInv, RunInv, StealPut
<1>3. ~Lose(Boot)
  BY BootFacts, RunningIsQueued DEF Lose, OneHartInv, RunInv
<1> QED  BY <1>1, <1>2, <1>3
-----------------------------------------------------------------------------
LEMMA KernelOne ==
  ASSUME OneHartInv, Kernel(Boot)  PROVE OneHartRest'
<1>1. CASE EnterInterrupt(Boot)  BY <1>1, EnterInterruptOne
<1>2. CASE LockSleepers(Boot)  BY <1>2, LockSleepersOne
<1>3. CASE SleepOn(Boot)  BY <1>3, SleepOnOne
<1>4. CASE Awaken(Boot)  BY <1>4, AwakenOne
<1>5. CASE Account(Boot)  BY <1>5, AccountOne
<1>6. CASE Schedule(Boot)  BY <1>6, ScheduleOne
<1>7. CASE RotateNull(Boot)  BY <1>7, RotateNullOne
<1>8. CASE EndDrain(Boot) \/ EndExit(Boot) \/ StealNothing(Boot)  BY <1>8, MovesOne
<1>9. CASE EnterIdleLoop(Boot)  BY <1>9, EnterIdleLoopOne
<1>10. CASE StealTake(Boot) \/ StealPut(Boot)  BY <1>10, NoOtherHart
<1> QED
  BY <1>1, <1>2, <1>3, <1>4, <1>5, <1>6, <1>7, <1>8, <1>9, <1>10 DEF Kernel

LEMMA UserOne ==
  ASSUME OneHartInv, User(Boot)  PROVE OneHartRest'
<1>1. /\ {"blocked", "recv", "send", "sleeping"} \subseteq WaitList
      /\ {"read", "recv", "send", "sleep"} \subseteq Call
  BY DEF WaitList, Call
<1>2. CASE Yield(Boot)  BY <1>2, YieldOne
<1>3. CASE BlockOnRead(Boot)
  <2>1. Syscall(Boot, "read") /\ Block(Boot, "blocked")  BY <1>3 DEF BlockOnRead
  <2> QED  BY <1>1, <2>1, BlockOne
<1>4. CASE BlockOnRecv(Boot)
  <2>1. Syscall(Boot, "recv") /\ Block(Boot, "recv")  BY <1>4 DEF BlockOnRecv
  <2> QED  BY <1>1, <2>1, BlockOne
<1>5. CASE BlockOnSend(Boot)
  <2>1. Syscall(Boot, "send") /\ Block(Boot, "send")  BY <1>5 DEF BlockOnSend
  <2> QED  BY <1>1, <2>1, BlockOne
<1>6. CASE Exit(Boot)  BY <1>6, ExitOne
<1>7. CASE \E n \in SleepArg : Sleep(Boot, n)
  <2>1. Syscall(Boot, "sleep") /\ Block(Boot, "sleeping")  BY <1>7 DEF Sleep
  <2> QED  BY <1>1, <2>1, BlockOne
<1>8. CASE StartDrain(Boot)  BY <1>8, MovesOne
<1>9. ASSUME NEW p \in Proc, WakeReceiver(Boot, p)  PROVE OneHartRest'
  <2>1. Wake(Boot, "recv", p) /\ pc' = pc /\ pc[Boot] = "run"
    BY <1>9 DEF WakeReceiver, Syscall, Trap
  <2> QED  BY <2>1, WakeOne
<1>10. ASSUME NEW p \in Proc, WakeSender(Boot, p)  PROVE OneHartRest'
  <2>1. Wake(Boot, "send", p) /\ pc' = pc /\ pc[Boot] = "drain"
    BY <1>10 DEF WakeSender
  <2> QED  BY <2>1, WakeOne
<1> QED
  BY <1>2, <1>3, <1>4, <1>5, <1>6, <1>7, <1>8, <1>9, <1>10 DEF User

LEMMA NextOne ==
  ASSUME OneHartInv, [Next]_vars  PROVE OneHartInv'
<1>1. QueueInv'  BY NextInv, StutterInv DEF OneHartInv
<1>2. OneHart'  BY DEF OneHartInv, OneHart
<1>3. OneHartRest'
  <2>1. CASE UNCHANGED vars
    BY <2>1 DEF vars, queueVars, threadVars, OneHartInv, OneHartRest, RunInv,
                EmergencyInv, PriorityInv, Foremost, OwnCircle
  <2>2. CASE Next
    <3>1. Step(Boot)  BY <2>2 DEF Next, OneHartInv, OneHart
    <3>2. CASE TimerTick(Boot)  BY <3>2, TimerTickOne
    <3>3. CASE Kernel(Boot)  BY <3>3, KernelOne
    <3>4. CASE User(Boot)  BY <3>4, UserOne
    <3>5. CASE Lose(Boot)  BY <3>5, NoOtherHart
    <3>6. ASSUME NEW p \in Proc, Spawn(Boot, p)  PROVE OneHartRest'
      BY <3>6, SpawnOne
    <3>7. ASSUME NEW p \in Proc, WakeReader(Boot, p)  PROVE OneHartRest'
      <4>1. Wake(Boot, "blocked", p) /\ pc' = pc /\ pc[Boot] = "run"
        BY <3>7 DEF WakeReader, Trap
      <4> QED  BY <4>1, WakeOne
    <3> QED  BY <3>1, <3>2, <3>3, <3>4, <3>5, <3>6, <3>7 DEF Step
  <2> QED  BY <2>1, <2>2
<1> QED  BY <1>1, <1>2, <1>3 DEF OneHartInv, OneHartRest

LEMMA InitOne ==
  ASSUME OneHart, Init  PROVE OneHartInv
<1>1. QueueInv  BY InitFacts
<1>2. \A t \in Thread : state[t] = IF t \in Proc THEN "unborn" ELSE "running"
  BY DEF Init
<1>3. /\ curr[Boot] = Idle[Boot] /\ Idle[Boot] \in Thread /\ Idle[Boot] \notin Proc
      /\ \A t \in Thread : t \in Proc \/ t = Idle[Boot]
      /\ pc[Boot] = "run" /\ picked[Boot] = "boot" /\ emergency = Null
  BY ProcFacts, SchedulerAssumption DEF Init, OneHart, Thread, Range
<1>4. RunInv  BY <1>2, <1>3 DEF RunInv, PC
<1>5. EmergencyInv  BY <1>3 DEF EmergencyInv
<1>6. PriorityInv  BY <1>3 DEF PriorityInv
<1> QED  BY <1>1, <1>4, <1>5, <1>6 DEF OneHartInv

-----------------------------------------------------------------------------
\* The invariant of a machine with one hart, whatever its processes call
THEOREM OneHartTheorem == OneHart /\ Spec => []OneHartInv
<1>1. OneHart /\ Init => OneHartInv  BY InitOne
<1>2. OneHartInv /\ [Next]_vars => OneHartInv'  BY NextOne
<1> QED  BY <1>1, <1>2, PTL DEF Spec

\* schedule() never panics on the thread it picked, never rotates an empty
\* circle, and no thread is freed while it runs.
THEOREM NoPanicTheorem == OneHart /\ Spec => []NoPanic
<1>1. OneHartInv => NoPanic
  BY DEF OneHartInv, OneHart, RunInv, NoPanic
<1> QED  BY <1>1, OneHartTheorem, PTL

\* A process that gave up the hart executes no instruction of its own until
\* schedule() has picked it again.
THEOREM OnlyRunningTheorem == OneHart /\ Spec => []OnlyRunningRuns
<1>1. OneHartInv => OnlyRunningRuns
  BY DEF OneHartInv, OneHart, RunInv, OnlyRunningRuns
<1> QED  BY <1>1, OneHartTheorem, PTL

\* The thread the sweeper rescues can be run when schedule() gets to it.
THEOREM EmergencyTheorem == OneHart /\ Spec => []EmergencyRunnable
<1>1. OneHartInv => EmergencyRunnable
  BY BootFacts DEF OneHartInv, RunInv, EmergencyInv, EmergencyRunnable
<1> QED  BY <1>1, OneHartTheorem, PTL

\* A thread chosen by priority never runs on beside a more urgent ready one.
THEOREM PriorityTheorem == OneHart /\ Spec => []PriorityRespected
<1>1. OneHartInv => PriorityRespected
  BY DEF OneHartInv, OneHart, RunInv, PriorityInv, Foremost, PriorityRespected
<1> QED  BY <1>1, OneHartTheorem, PTL
=============================================================================
