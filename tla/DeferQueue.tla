----------------------------- MODULE DeferQueue -----------------------------
(***************************************************************************)
(* evwsgi.defer and the idle callback that works its queue off: py_defer   *)
(* in _evwsgi.c, idle_cb in mainloop.c.  The queue is a Python list that   *)
(* is created by the first call and thrown away when it was worked off;    *)
(* the idle watcher is meant to be active while it exists.                 *)
(*                                                                         *)
(* Handlers, timers and deferred functions themselves may defer.  libev    *)
(* runs an idle watcher only when no other event is pending (quiet).       *)
(***************************************************************************)
EXTENDS Integers, Sequences

CONSTANTS
    Task,           \* queue elements: a function and its argument
    NoTask,         \* no element
    MaxQueue        \* bound: the longest queue

ASSUME ConstantsAssumption ==
    /\ NoTask \notin Task
    /\ MaxQueue \in Nat

VARIABLES
    exists,         \* pydeferqueue is not NULL
    queue,          \* its elements
    idle,           \* idle_watcher is active
    running,        \* the element idle_cb is calling the function of
    quiet,          \* no event is pending but the idle ones
    owed            \* history: elements asked for and not started since

vars == <<exists, queue, idle, running, quiet, owed>>

Init ==
    /\ exists = FALSE
    /\ queue = <<>>
    /\ idle = FALSE
    /\ running = NoTask
    /\ quiet = TRUE
    /\ owed = {}

InQueue(t) == \E i \in DOMAIN queue : queue[i] = t

\* Mutant: the element is put in front.
AddElementInFront(t) ==
    /\ Len(queue) < MaxQueue
    /\ exists' = TRUE
    /\ queue' = <<t>> \o queue
    /\ idle' = (idle \/ queue = <<>>)

\* py_defer, appending: the watcher is started for the first element.
AddElement(t) ==
    /\ Len(queue) < MaxQueue
    /\ exists' = TRUE
    /\ queue' = Append(queue, t)
    /\ idle' = (idle \/ queue = <<>>)

\* py_defer, called by anything but an idle_cb that is between two calls.
Defer(t) ==
    /\ AddElement(t)
    /\ owed' = owed \cup {t}
    /\ UNCHANGED <<running, quiet>>

\* py_defer with combined = True.  The element whose function runs is still
\* in the list: a function that defers itself so is not called again.
DeferCombined(t) ==
    /\ \/ ~InQueue(t) /\ AddElement(t)
       \/ /\ InQueue(t)
          /\ UNCHANGED <<exists, queue, idle>>
    /\ owed' = owed \cup {t}
    /\ UNCHANGED <<running, quiet>>

\* idle_cb with something to do, up to the call of the function.
IdleStart ==
    /\ quiet /\ idle /\ running = NoTask
    /\ queue # <<>>
    /\ running' = Head(queue)
    /\ owed' = owed \ {t \in {Head(queue)} : \A i \in 2 .. Len(queue) : queue[i] # t}
    /\ UNCHANGED <<exists, queue, idle, quiet>>

\* Mutant: the element stays when its function raised.
IdleEndKeepsFailed ==
    /\ running # NoTask
    /\ queue' \in {queue, Tail(queue)}
    /\ running' = NoTask
    /\ UNCHANGED <<exists, idle, quiet, owed>>

\* The function returned or raised: the first element is deleted.
IdleEnd ==
    /\ running # NoTask
    /\ queue' = Tail(queue)
    /\ running' = NoTask
    /\ UNCHANGED <<exists, idle, quiet, owed>>

\* idle_cb with nothing to do.
IdleStop ==
    /\ quiet /\ idle /\ running = NoTask
    /\ queue = <<>>
    /\ idle' = FALSE
    /\ exists' = FALSE
    /\ UNCHANGED <<queue, running, quiet, owed>>

\* The loop polls: other events are pending, or none.
Quiet ==
    /\ running = NoTask /\ ~quiet
    /\ quiet' = TRUE
    /\ UNCHANGED <<exists, queue, idle, running, owed>>

Busy ==
    /\ running = NoTask /\ quiet
    /\ quiet' = FALSE
    /\ UNCHANGED <<exists, queue, idle, running, owed>>

Next ==
    \/ \E t \in Task : Defer(t) \/ DeferCombined(t)
    \/ IdleStart \/ IdleEnd \/ IdleStop
    \/ Quiet \/ Busy

Spec == Init /\ [][Next]_vars

-----------------------------------------------------------------------------
(* Properties *)

\* Every variable has its type.
TypeOK ==
    /\ exists \in BOOLEAN
    /\ queue \in Seq(Task) /\ Len(queue) <= MaxQueue
    /\ idle \in BOOLEAN
    /\ running \in Task \cup {NoTask}
    /\ quiet \in BOOLEAN
    /\ owed \subseteq Task

\* The idle watcher is active exactly while the list exists: idle_cb never
\* meets a NULL queue, and no element waits with the watcher stopped.
IdleIffQueue == idle = exists

\* When the function returns, what idle_cb deletes is the element it ran,
\* whatever was deferred meanwhile.
HeadIsRunning ==
    running # NoTask => exists /\ queue # <<>> /\ Head(queue) = running

\* What idle_cb relies on: it has a list, and the element it will delete is the
\* one it ran.
QueueInv == IdleIffQueue /\ HeadIsRunning

-----------------------------------------------------------------------------
(* Seen from the application, the element that runs does not wait. *)

Waiting == IF running = NoTask THEN queue ELSE Tail(queue)

Abstract == INSTANCE DeferSpec WITH waiting <- Waiting, executing <- running

\* defer and idle_cb implement the abstract queue: one element at a time, in
\* order, each once, and a combined call is left out only if the same one waits
\* or runs, whoever defers what while a function runs.
ImplementsDefer == Abstract!Spec
=============================================================================
