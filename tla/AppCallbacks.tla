---------------------------- MODULE AppCallbacks ----------------------------
(***************************************************************************)
(* Timers and DeferQueue in one loop, under the programs that use them:    *)
(* src/sample/defer/simple_pages/run.py counts the displays of a page and  *)
(* defers a combined commit, src/sample/timers/run.py commits in a timer,  *)
(* and "any" calls what it likes, from handlers, timers and deferred       *)
(* functions.                                                              *)
(*                                                                         *)
(* One callback runs at a time: nothing expires and no handler runs while  *)
(* a deferred function does.  libev runs the idle callback in iterations   *)
(* in which nothing else is pending, a timer neither.                      *)
(***************************************************************************)
EXTENDS Timers, DeferQueue

CONSTANTS
    Commit,         \* the element defer(commit, None, True) puts in the queue
    MaxDisplay      \* bound: requests for a page

ASSUME AppAssumption == Commit \in Task /\ MaxDisplay \in Nat

VARIABLES
    program,        \* which program runs
    display,        \* the displays rec.save() has counted
    committed       \* and those con.commit() has stored

db == <<display, committed>>
appVars == <<timerVars, vars, program, db>>

AppInit ==
    /\ TimersInit
    /\ Init
    /\ program \in {"defer", "timers", "any"}
    /\ display = 0
    /\ committed = 0

TimerPending == \E i \in Index : timer[i] = "pending"

\* Application code runs: a callback of some event, or a deferred function.
InApp == looping /\ (~quiet \/ running # NoTask)

\* The two programs add one timer, before run.
Setup ==
    /\ IF program = "any" THEN ~looping \/ InApp ELSE listTimersI = 0 /\ ~looping
    /\ AddTimer
    /\ UNCHANGED <<vars, program, db>>

AppRun ==
    /\ program # "any" => listTimersI = 1
    /\ Run
    /\ UNCHANGED <<vars, program, db>>

\* The handler names: display is what the record says, plus one.
Names ==
    /\ program # "any"
    /\ looping /\ ~quiet /\ running = NoTask
    /\ display < MaxDisplay
    /\ display' = display + 1
    /\ IF program = "defer" THEN DeferCombined(Commit) ELSE UNCHANGED vars
    /\ UNCHANGED <<timerVars, program, committed>>

Calls ==
    /\ program = "any" /\ InApp
    /\ \/ /\ \E t \in Task : Defer(t) \/ DeferCombined(t)
          /\ UNCHANGED timerVars
       \/ /\ \E i \in Index : StopTimer(i) \/ RestartTimer(i)
          /\ UNCHANGED vars
    /\ UNCHANGED <<program, db>>

AppExpire(i) ==
    /\ running = NoTask
    /\ Expire(i)
    /\ quiet' = FALSE
    /\ UNCHANGED <<exists, queue, idle, running, owed, program, db>>

\* The callback of the timers program is commit, that of the other prints.
AppTimerCb(i) ==
    /\ running = NoTask
    /\ TimerCb(i)
    /\ committed' = IF program = "timers" THEN display ELSE committed
    /\ UNCHANGED <<vars, program, display>>

\* Mutant: a commit that takes no argument, as the one for timers, raises.
IdleStartRaises ==
    /\ looping /\ ~TimerPending
    /\ IdleStart
    /\ UNCHANGED <<timerVars, program, db>>

AppIdleStart ==
    /\ looping /\ ~TimerPending
    /\ IdleStart
    /\ committed' = IF running' = Commit THEN display ELSE committed
    /\ UNCHANGED <<timerVars, program, display>>

AppIdleEnd == IdleEnd /\ UNCHANGED <<timerVars, program, db>>

AppIdleStop ==
    /\ looping /\ ~TimerPending
    /\ IdleStop
    /\ UNCHANGED <<timerVars, program, db>>

\* An iteration of the loop: other events are pending, or none.
AppQuiet ==
    /\ looping /\ ~TimerPending
    /\ Quiet
    /\ UNCHANGED <<timerVars, program, db>>

AppBusy == looping /\ Busy /\ UNCHANGED <<timerVars, program, db>>

AppNext ==
    \/ Setup \/ AppRun
    \/ Names \/ Calls
    \/ \E i \in Index : AppExpire(i) \/ AppTimerCb(i)
    \/ AppIdleStart \/ AppIdleEnd \/ AppIdleStop
    \/ AppQuiet \/ AppBusy

\* The programs call run.  Time passes and libev runs the timers that are
\* due in every iteration, between the deferred functions, which return.  Idle
\* callbacks run in iterations with nothing else to do; that there are such
\* iterations is an assumption: under permanent load they starve.
Fairness ==
    /\ WF_appVars(Setup /\ program # "any") /\ WF_appVars(AppRun)
    /\ \A i \in Index : SF_appVars(AppExpire(i)) /\ SF_appVars(AppTimerCb(i))
    /\ SF_appVars(AppIdleStart) /\ SF_appVars(AppIdleStop)
    /\ WF_appVars(AppIdleEnd)
    /\ WF_appVars(AppQuiet)

AppSpec == AppInit /\ [][AppNext]_appVars /\ Fairness

-----------------------------------------------------------------------------
(* Properties, besides those of Timers and DeferQueue: timers come before   *)
(* idle callbacks and yet starve none, and functions that go on deferring   *)
(* functions do not keep a timer from calling back.                        *)

\* Every variable has its type, and nothing is committed that was not saved.
AppTypeOK ==
    /\ TimersTypeOK
    /\ TypeOK
    /\ program \in {"defer", "timers", "any"}
    /\ display \in 0 .. MaxDisplay
    /\ committed \in 0 .. display

\* No display of the page is lost in the combining: a display that was
\* counted while a commit was waiting is in that commit, and one counted
\* after it started gets another.
DisplaysCommitted ==
    \A n \in 1 .. MaxDisplay :
        program = "defer" /\ display = n ~> committed >= n
=============================================================================
