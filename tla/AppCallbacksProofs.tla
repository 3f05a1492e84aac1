-------------------------- MODULE AppCallbacksProofs --------------------------
(***************************************************************************)
(* The queue of deferred functions implements the abstract one, and a      *)
(* timer that was stopped does not call back, whatever the order of the    *)
(* calls.  What is proved of timers and of deferred functions alone holds  *)
(* of both together in one loop, because no step of the loop is anything   *)
(* but a step of each, or of neither.                                      *)
(***************************************************************************)
EXTENDS AppCallbacks, SequenceTheorems, TLAPS

-----------------------------------------------------------------------------
(* The queue of deferred functions, for any set of elements and any length: *)
(* the idle watcher is active exactly while the queue exists, idle_cb       *)
(* deletes the element it ran, and every step is one of DeferSpec, or none. *)

\* A stopped watcher means an empty queue, and idle_cb's element is first.
IInv ==
    /\ TypeOK
    /\ IdleIffQueue
    /\ HeadIsRunning
    /\ ~exists => queue = <<>>

\* The queue is empty and the watcher stopped when the server starts.
LEMMA InitIInv == Init => IInv
<1>1. <<>> \in Seq(Task) /\ Len(<<>>) <= MaxQueue
  <2>1. 0 <= MaxQueue
    BY ConstantsAssumption
  <2> QED
    BY <2>1, EmptySeq, Zenon
<1>2. ASSUME Init  PROVE queue \in Seq(Task) /\ Len(queue) <= MaxQueue
  BY <1>1, <1>2, Zenon DEF Init
<1>3. Init => TypeOK
  BY <1>2 DEF Init, TypeOK
<1> QED
  BY <1>3 DEF Init, IInv, IdleIffQueue, HeadIsRunning

\* Appending keeps the head, and makes one in an empty queue.
LEMMA AppendFacts ==
  ASSUME NEW S, NEW q \in Seq(S), NEW t \in S
  PROVE  /\ Append(q, t) \in Seq(S)
         /\ Len(Append(q, t)) = Len(q) + 1
         /\ Append(q, t) # <<>>
         /\ q # <<>> => Head(Append(q, t)) = Head(q)
  BY AppendProperties, HeadTailAppend

\* Deleting the first element leaves a shorter queue.
LEMMA TailFacts ==
  ASSUME NEW S, NEW q \in Seq(S), q # <<>>
  PROVE  /\ Head(q) \in S
         /\ Tail(q) \in Seq(S)
         /\ Len(Tail(q)) = Len(q) - 1
  BY HeadTailProperties

\* py_defer starts the watcher whenever it fills an empty queue.
LEMMA AddElementStep ==
  ASSUME IInv, NEW t \in Task, AddElement(t), UNCHANGED <<running, quiet>>,
         owed' \subseteq Task
  PROVE  IInv'
<1> USE DEF IInv, TypeOK, AddElement
<1>1. TypeOK'
  <2>1. queue' \in Seq(Task) /\ Len(queue') <= MaxQueue
    BY AppendFacts, LenProperties, ConstantsAssumption
  <2>2. idle' \in BOOLEAN /\ exists' \in BOOLEAN
    OBVIOUS
  <2> QED
    BY <2>1, <2>2
<1>2. IdleIffQueue'
  BY DEF IdleIffQueue
<1>3. HeadIsRunning'
  BY AppendFacts DEF HeadIsRunning
<1> QED
  BY <1>1, <1>2, <1>3

\* Every action preserves the invariant.
LEMMA NextIInv ==
  ASSUME IInv, [Next]_vars
  PROVE  IInv'
<1>1. CASE \E t \in Task : Defer(t)
  BY <1>1, AddElementStep DEF Defer, IInv, TypeOK
<1>2. ASSUME NEW t \in Task, DeferCombined(t)  PROVE IInv'
  <2>1. CASE AddElement(t)
    BY <1>2, <2>1, AddElementStep DEF DeferCombined, IInv, TypeOK
  <2>2. CASE ~AddElement(t)
    BY <1>2, <2>2 DEF DeferCombined, IInv, TypeOK, IdleIffQueue, HeadIsRunning
  <2> QED
    BY <2>1, <2>2
<1>3. CASE IdleStart
  BY <1>3, TailFacts DEF IdleStart, IInv, TypeOK, IdleIffQueue, HeadIsRunning
<1>4. CASE IdleEnd
  BY <1>4, TailFacts, ConstantsAssumption
     DEF IdleEnd, IInv, TypeOK, IdleIffQueue, HeadIsRunning
<1>5. CASE IdleStop
  BY <1>5 DEF IdleStop, IInv, TypeOK, IdleIffQueue, HeadIsRunning
<1>6. CASE Quiet \/ Busy \/ UNCHANGED vars
  BY <1>6 DEF Quiet, Busy, vars, IInv, TypeOK, IdleIffQueue, HeadIsRunning
<1> QED
  BY <1>1, <1>2, <1>3, <1>4, <1>5, <1>6 DEF Next

\* The invariant holds for ever, whatever is deferred from wherever.
THEOREM Invariance == Spec => []IInv
<1>1. IInv /\ [Next]_vars => IInv'
  BY NextIInv
<1> QED
  BY <1>1, InitIInv, PTL DEF Spec

\* The idle watcher is active exactly while pydeferqueue exists, and what
\* idle_cb deletes when a function returns is the element it ran.
THEOREM QueueCorrect == Spec => []QueueInv
<1>1. IInv => QueueInv
  BY DEF IInv, QueueInv
<1> QED
  BY <1>1, Invariance, PTL

-----------------------------------------------------------------------------
(* Every step of DeferQueue is a step of DeferSpec. *)

\* While an element runs, appending to the queue appends to what waits.
LEMMA WaitingAppend ==
  ASSUME IInv, NEW t \in Task, queue' = Append(queue, t), UNCHANGED running
  PROVE  Waiting' = Append(Waiting, t)
<1>1. CASE running = NoTask
  BY <1>1 DEF Waiting
<1>2. CASE running # NoTask
  BY <1>2, HeadTailAppend DEF Waiting, IInv, TypeOK, HeadIsRunning
<1> QED
  BY <1>1, <1>2

\* What waits is a sequence of elements.
LEMMA WaitingType == IInv => Waiting \in Seq(Task)
  BY TailFacts DEF IInv, TypeOK, HeadIsRunning, Waiting

\* An element that is in the queue and is not the one that runs waits.
LEMMA InQueueWaits ==
  ASSUME IInv, NEW t \in Task, InQueue(t), running # t
  PROVE  Abstract!Waits(t)
<1>1. CASE running = NoTask
  BY <1>1 DEF InQueue, Abstract!Waits, Waiting
<1>2. CASE running # NoTask
  <2>1. /\ queue \in Seq(Task) /\ queue # <<>> /\ queue[1] # t
        /\ Waiting = Tail(queue)
    BY <1>2 DEF IInv, TypeOK, HeadIsRunning, Waiting
  <2>2. PICK i \in DOMAIN queue : queue[i] = t
    BY DEF InQueue
  <2>3. /\ i \in 1 .. Len(queue) /\ i # 1
        /\ Len(queue) \in Nat
    BY <2>1, <2>2, LenProperties
  <2>4. /\ i - 1 \in 1 .. Len(Tail(queue))
        /\ Tail(queue)[i - 1] = queue[(i - 1) + 1]
        /\ DOMAIN Tail(queue) = 1 .. Len(Tail(queue))
    BY <2>1, <2>3, HeadTailProperties, LenProperties
  <2> QED
    BY <2>1, <2>2, <2>3, <2>4 DEF Abstract!Waits
<1> QED
  BY <1>1, <1>2

\* The first element starts, and is owed no more unless it is there twice.
LEMMA StartStep ==
  ASSUME IInv, IdleStart
  PROVE  Abstract!Start
<1>1. /\ Waiting = queue /\ queue # <<>> /\ queue \in Seq(Task)
      /\ Waiting' = Tail(queue) /\ running = NoTask /\ running' = Head(queue)
  BY TailFacts, ConstantsAssumption DEF IdleStart, IInv, TypeOK, Waiting
<1> DEFINE w == Tail(queue)
<1>2. /\ w \in Seq(Task) /\ DOMAIN w = 1 .. Len(w)
      /\ Len(w) = Len(queue) - 1 /\ Len(queue) \in Nat
      /\ \A i \in 1 .. Len(w) : w[i] = queue[i + 1]
  BY <1>1, HeadTailProperties, LenProperties
<1> HIDE DEF w
<1>3. ASSUME NEW t
      PROVE  (\A i \in 2 .. Len(queue) : queue[i] # t)
               <=> ~ \E i \in DOMAIN w : w[i] = t
  <2>1. ASSUME NEW i \in 2 .. Len(queue), queue[i] = t
        PROVE  i - 1 \in DOMAIN w /\ w[i - 1] = t
    BY <1>2, <2>1
  <2>2. ASSUME NEW i \in DOMAIN w, w[i] = t
        PROVE  i + 1 \in 2 .. Len(queue) /\ queue[i + 1] = t
    BY <1>2, <2>2
  <2> QED
    BY <2>1, <2>2
<1>4. owed' = owed \ {t \in {Head(queue)} : ~ \E i \in DOMAIN w : w[i] = t}
  BY <1>3 DEF IdleStart
<1> QED
  BY <1>1, <1>4 DEF Abstract!Start, Abstract!Waits, w

\* Every step is a step of DeferSpec or changes nothing there.
LEMMA AbstractStep ==
  ASSUME IInv, [Next]_vars
  PROVE  Abstract!Next \/ UNCHANGED Abstract!vars
<1>1. ASSUME NEW t \in Task, Defer(t)  PROVE Abstract!Defer(t)
  BY <1>1, WaitingAppend DEF Defer, AddElement, Abstract!Defer
<1>2. ASSUME NEW t \in Task, DeferCombined(t)
      PROVE  Abstract!Defer(t) \/ Abstract!DeferCombined(t)
  <2>1. CASE AddElement(t)
    BY <1>2, <2>1, WaitingAppend DEF DeferCombined, AddElement, Abstract!Defer
  <2>2. CASE ~AddElement(t)
    <3>1. InQueue(t) /\ UNCHANGED <<queue, running>>
      BY <1>2, <2>2 DEF DeferCombined
    <3>2. UNCHANGED Waiting
      BY <3>1 DEF Waiting
    <3>3. Abstract!Present(t)
      BY <3>1, InQueueWaits DEF Abstract!Present
    <3> QED
      BY <1>2, <3>1, <3>2, <3>3 DEF DeferCombined, Abstract!DeferCombined
  <2> QED
    BY <2>1, <2>2
<1>3. CASE IdleStart
  BY <1>3, StartStep DEF Abstract!Next
<1>4. CASE IdleEnd
  BY <1>4 DEF IdleEnd, Waiting, Abstract!Finish, Abstract!Next
<1>5. CASE IdleStop \/ Quiet \/ Busy \/ UNCHANGED vars
  BY <1>5 DEF IdleStop, Quiet, Busy, vars, Waiting, Abstract!vars
<1> QED
  BY <1>1, <1>2, <1>3, <1>4, <1>5 DEF Next, Abstract!Next

\* Whatever is deferred from wherever, a running function included, defer and
\* idle_cb do what DeferSpec allows: elements are executed one at a time in the
\* order they were deferred in, each once, and a combined call is left out only
\* if the same one waits or is being executed.
THEOREM DeferRefinement == Spec => Abstract!Init /\ [][Abstract!Next]_(Abstract!vars)
<1>1. Init => Abstract!Init
  BY DEF Init, Abstract!Init, Waiting
<1>2. IInv /\ [Next]_vars => [Abstract!Next]_(Abstract!vars)
  BY AbstractStep
<1>3. IInv /\ [Next]_vars => IInv'
  BY NextIInv
<1> QED
  BY <1>1, <1>2, <1>3, InitIInv, PTL DEF Spec

-----------------------------------------------------------------------------
(* Timers, for any number of them *)

\* A timer that was stopped and not restarted is inactive, which it could only
\* leave by run, and the loop runs already.
TimersInv ==
    /\ TimersTypeOK
    /\ \A i \in stops : timer[i] = "inactive" /\ looping

LEMMA IndexNat == Index \subseteq Nat
  BY TimersAssumption DEF Index

LEMMA TimersInitInv == TimersInit => TimersInv
<1> SUFFICES ASSUME TimersInit  PROVE TimersInv
  OBVIOUS
<1>1. listTimersI \in 0 .. MaxTimers
  BY TimersAssumption DEF TimersInit
<1>2. \A i \in Index : i >= 0
  BY DEF Index
<1>3. \A i \in Index : timer[i] = "null" <=> i >= listTimersI
  BY <1>2 DEF TimersInit
<1>4. stops = {}
  BY DEF TimersInit
<1>5. TimersTypeOK
  BY <1>1, <1>3 DEF TimersInit, TimersTypeOK
<1> QED
  BY <1>4, <1>5 DEF TimersInv

\* Only AddTimer fills an entry, the next one, which no timer had.
LEMMA AddTimerInv ==
  ASSUME TimersInv, AddTimer
  PROVE  TimersInv'
<1>1. listTimersI \in Index /\ timer[listTimersI] = "null"
  BY TimersAssumption DEF TimersInv, TimersTypeOK, AddTimer, Index
<1>2. TimersTypeOK'
  <2>1. listTimersI' \in 0 .. MaxTimers
    BY <1>1, TimersAssumption DEF TimersInv, TimersTypeOK, AddTimer, Index
  <2>2. timer' \in [Index -> {"null", "added", "active", "pending", "inactive"}]
    BY DEF TimersInv, TimersTypeOK, AddTimer
  <2>3. ASSUME NEW i \in Index  PROVE timer'[i] = "null" <=> i >= listTimersI'
    <3>1. CASE i = listTimersI
      BY <1>1, <3>1, IndexNat DEF TimersInv, TimersTypeOK, AddTimer
    <3>2. CASE i # listTimersI
      BY <1>1, <3>2, IndexNat DEF TimersInv, TimersTypeOK, AddTimer
    <3> QED
      BY <3>1, <3>2
  <2> QED
    BY <2>1, <2>2, <2>3 DEF TimersInv, TimersTypeOK, AddTimer
<1>3. ASSUME NEW i \in stops'
      PROVE  timer'[i] = "inactive" /\ looping'
  BY <1>1, <1>3 DEF TimersInv, TimersTypeOK, AddTimer
<1> QED
  BY <1>2, <1>3 DEF TimersInv

\* Before the loop runs nothing was stopped in it.
LEMMA RunInv ==
  ASSUME TimersInv, Run
  PROVE  TimersInv'
<1>1. TimersTypeOK'
  BY IndexNat DEF TimersInv, TimersTypeOK, Run
<1>2. stops = {} /\ stops' = stops
  BY DEF TimersInv, Run
<1> QED
  BY <1>1, <1>2 DEF TimersInv

\* A timer that expires, or whose callback runs, is not a stopped one.
LEMMA FireInv ==
  ASSUME TimersInv, NEW i \in Index, Expire(i) \/ TimerCb(i)
  PROVE  TimersInv'
<1>1. i \notin stops
  BY DEF TimersInv, Expire, TimerCb
<1>2. TimersTypeOK'
  BY DEF TimersInv, TimersTypeOK, Expire, TimerCb
<1>3. ASSUME NEW j \in stops'
      PROVE  timer'[j] = "inactive" /\ looping'
  BY <1>1, <1>3 DEF TimersInv, TimersTypeOK, Expire, TimerCb
<1> QED
  BY <1>2, <1>3 DEF TimersInv

\* stop_timer and restart_timer leave it inactive.
LEMMA StopInv ==
  ASSUME TimersInv, NEW i \in Index, StopTimer(i) \/ RestartTimer(i)
  PROVE  TimersInv'
<1>1. TimersTypeOK'
  BY DEF TimersInv, TimersTypeOK, StopTimer, RestartTimer
<1>2. ASSUME NEW j \in stops'
      PROVE  timer'[j] = "inactive" /\ looping'
  BY <1>2 DEF TimersInv, TimersTypeOK, StopTimer, RestartTimer
<1> QED
  BY <1>1, <1>2 DEF TimersInv

LEMMA TimersNextInv ==
  ASSUME TimersInv, [TimersNext]_timerVars
  PROVE  TimersInv'
<1>1. CASE AddTimer
  BY <1>1, AddTimerInv
<1>2. CASE Run
  BY <1>2, RunInv
<1>3. CASE \E i \in Index : Expire(i) \/ TimerCb(i)
  BY <1>3, FireInv
<1>4. CASE \E i \in Index : StopTimer(i) \/ RestartTimer(i)
  BY <1>4, StopInv
<1>5. CASE UNCHANGED timerVars
  BY <1>5 DEF TimersInv, TimersTypeOK, timerVars
<1> QED
  BY <1>1, <1>2, <1>3, <1>4, <1>5 DEF TimersNext

\* The strengthened invariant holds in every state.
THEOREM TimersInvariance == TimersSpec => []TimersInv
  BY TimersInitInv, TimersNextInv, PTL DEF TimersSpec

\* list_timers is filled from the front and every timer is in a known state.
THEOREM TimersTypeCorrect == TimersSpec => []TimersTypeOK
<1>1. TimersInv => TimersTypeOK
  BY DEF TimersInv
<1> QED
  BY <1>1, TimersInvariance, PTL

\* A timer that was stopped while the loop ran does not call back before it is
\* restarted, in any order of the application's calls.
THEOREM StoppedSilent == TimersSpec => StoppedStays
<1>1. ASSUME TimersInv, [TimersNext]_timerVars, NEW i \in stops
      PROVE  fires'[i] = fires[i]
  <2>1. i \in Index /\ timer[i] = "inactive"
    BY <1>1 DEF TimersInv, TimersTypeOK
  <2>2. CASE \E j \in Index : TimerCb(j)
    BY <1>1, <2>1, <2>2 DEF TimersInv, TimersTypeOK, TimerCb
  <2>3. CASE ~ \E j \in Index : TimerCb(j)
    BY <1>1, <2>3 DEF TimersNext, timerVars, AddTimer, Run, Expire,
       StopTimer, RestartTimer
  <2> QED
    BY <2>2, <2>3
<1>2. TimersInv /\ [TimersNext]_timerVars
        => [\A i \in stops : fires'[i] = fires[i]]_timerVars
  BY <1>1
<1> QED
  BY <1>2, TimersInvariance, PTL DEF TimersSpec, StoppedStays

-----------------------------------------------------------------------------
(* Both in one loop *)

\* A timer that expires makes the loop busy, which is a step of DeferQueue.
LEMMA ExpireIsBusy ==
  ASSUME TypeOK, NEW i \in Index, AppExpire(i)
  PROVE  [Next]_vars
<1>1. CASE quiet
  BY <1>1 DEF AppExpire, Busy, Next
<1>2. CASE ~quiet
  <2>1. quiet' = quiet
    BY <1>2 DEF AppExpire, TypeOK
  <2> QED
    BY <2>1 DEF AppExpire, vars
<1> QED
  BY <1>1, <1>2

\* Seen from the queue.
LEMMA StepOfQueue ==
  ASSUME TypeOK, [AppNext]_appVars
  PROVE  [Next]_vars
<1>1. CASE Setup \/ AppRun \/ \E i \in Index : AppTimerCb(i)
  BY <1>1 DEF Setup, AppRun, AppTimerCb
<1>2. CASE Names
  BY <1>2, AppAssumption DEF Names, Next
<1>3. CASE Calls
  BY <1>3 DEF Calls, Next
<1>4. CASE \E i \in Index : AppExpire(i)
  BY <1>4, ExpireIsBusy
<1>5. CASE AppIdleStart \/ AppIdleEnd \/ AppIdleStop \/ AppQuiet \/ AppBusy
  BY <1>5 DEF AppIdleStart, AppIdleEnd, AppIdleStop, AppQuiet, AppBusy, Next
<1>6. CASE UNCHANGED appVars
  BY <1>6 DEF appVars
<1> QED
  BY <1>1, <1>2, <1>3, <1>4, <1>5, <1>6 DEF AppNext

\* Seen from the timers.
LEMMA StepOfTimers ==
  ASSUME [AppNext]_appVars
  PROVE  [TimersNext]_timerVars
<1>1. CASE Setup
  BY <1>1 DEF Setup, TimersNext
<1>2. CASE AppRun
  BY <1>2 DEF AppRun, TimersNext
<1>3. CASE Names \/ AppIdleStart \/ AppIdleEnd \/ AppIdleStop \/ AppQuiet \/ AppBusy
  BY <1>3 DEF Names, AppIdleStart, AppIdleEnd, AppIdleStop, AppQuiet, AppBusy
<1>4. CASE Calls
  BY <1>4 DEF Calls, TimersNext
<1>5. CASE \E i \in Index : AppExpire(i) \/ AppTimerCb(i)
  BY <1>5 DEF AppExpire, AppTimerCb, TimersNext
<1>6. CASE UNCHANGED appVars
  BY <1>6 DEF appVars
<1> QED
  BY <1>1, <1>2, <1>3, <1>4, <1>5, <1>6 DEF AppNext

\* A commit stores no more than was saved.
DbInv == display \in 0 .. MaxDisplay /\ committed \in 0 .. display

LEMMA DbNext ==
  ASSUME DbInv, [AppNext]_appVars
  PROVE  DbInv'
<1>1. CASE Names
  BY <1>1, AppAssumption DEF DbInv, Names
<1>2. CASE \E i \in Index : AppTimerCb(i)
  BY <1>2, AppAssumption DEF DbInv, AppTimerCb
<1>3. CASE AppIdleStart
  BY <1>3, AppAssumption DEF DbInv, AppIdleStart
<1>4. CASE UNCHANGED db
  BY <1>4 DEF DbInv, db
<1> QED
  BY <1>1, <1>2, <1>3, <1>4 DEF AppNext, appVars, Setup, AppRun, Calls, AppExpire,
     AppIdleEnd, AppIdleStop, AppQuiet, AppBusy, db

AppInv ==
    /\ TimersInv
    /\ IInv
    /\ DbInv
    /\ program \in {"defer", "timers", "any"}

LEMMA ProgramStays ==
  ASSUME [AppNext]_appVars
  PROVE  program' = program
  BY DEF AppNext, appVars, Setup, AppRun, Names, Calls, AppExpire, AppTimerCb,
     AppIdleStart, AppIdleEnd, AppIdleStop, AppQuiet, AppBusy

\* The two invariants and the database's hold together.
THEOREM AppInvariance == AppSpec => []AppInv
<1>1. AppInit => AppInv
  BY TimersInitInv, InitIInv, AppAssumption DEF AppInit, AppInv, DbInv
<1>2. AppInv /\ [AppNext]_appVars => AppInv'
  <2> SUFFICES ASSUME AppInv, [AppNext]_appVars  PROVE AppInv'
    OBVIOUS
  <2>1. TimersInv'
    BY StepOfTimers, TimersNextInv DEF AppInv
  <2>2. IInv'
    BY StepOfQueue, NextIInv DEF AppInv, IInv
  <2>3. DbInv'
    BY DbNext DEF AppInv
  <2> QED
    BY <2>1, <2>2, <2>3, ProgramStays DEF AppInv
<1> QED
  BY <1>1, <1>2, PTL DEF AppSpec

\* With timers and deferred functions in one loop each still behaves as its
\* own specification says.
THEOREM Composition == AppSpec => TimersSpec /\ Spec
<1>1. AppInit => TimersInit /\ Init
  BY DEF AppInit
<1>2. AppInv /\ [AppNext]_appVars => [TimersNext]_timerVars /\ [Next]_vars
  BY StepOfTimers, StepOfQueue DEF AppInv, IInv
<1> QED
  BY <1>1, <1>2, AppInvariance, PTL DEF AppSpec, TimersSpec, Spec

\* Type correctness; and nothing is committed that was not saved.
THEOREM AppTypeCorrect == AppSpec => []AppTypeOK
<1>1. AppInv => AppTypeOK
  BY DEF AppInv, TimersInv, IInv, DbInv, AppTypeOK
<1> QED
  BY <1>1, AppInvariance, PTL

\* Whoever stops a timer, a handler, another timer or a deferred function, it
\* does not call back before it is restarted.
THEOREM TimersInApp == AppSpec => StoppedStays
  BY Composition, StoppedSilent, PTL

\* Timers do not disturb the queue: the watcher is active exactly while there
\* is one, and idle_cb deletes the element it ran.
THEOREM QueueInApp == AppSpec => []QueueInv
  BY Composition, QueueCorrect, PTL

\* Beside timers, the queue implements the safety part of DeferSpec.
THEOREM AppRefinement == AppSpec => Abstract!Init /\ [][Abstract!Next]_(Abstract!vars)
  BY Composition, DeferRefinement, PTL
=============================================================================
