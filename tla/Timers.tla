-------------------------------- MODULE Timers --------------------------------
(***************************************************************************)
(* The application's timers (_evwsgi.c): add_timer, stop_timer,            *)
(* restart_timer, the part of run that starts them, and timer_cb           *)
(* (mainloop.c).  What libev does with a timer is in it as far as these    *)
(* calls show: a timer expires, which makes its callback pending, and the  *)
(* loop runs pending callbacks later; stopping clears the pending one too. *)
(*                                                                         *)
(* Every timer is one-shot, because TimerObj.repeat is never set, although *)
(* src/sample/timers/run.py:40 says "every 2 seconds" of one.  (Its timeout *)
(* is not right either: the format "f" stores a float into a double.)      *)
(***************************************************************************)
EXTENDS Integers

CONSTANT MaxTimers      \* MAX_TIMERS

ASSUME TimersAssumption == MaxTimers \in Nat \ {0}

Index == 0 .. MaxTimers - 1

VARIABLES
    listTimersI,    \* list_timers_i
    timer,          \* timer[i]: list_timers[i], "null" when there is none
    looping,        \* ev_loop runs
    fires,          \* history: how often timer i called its callback
    stops,          \* history: the timers stopped then, not restarted since
    restarts        \* history: what restart_timer was called with then

timerVars == <<listTimersI, timer, looping, fires, stops, restarts>>

TimersInit ==
    /\ listTimersI = 0
    /\ timer = [i \in Index |-> "null"]
    /\ looping = FALSE
    /\ fires = [i \in Index |-> 0]
    /\ stops = {}
    /\ restarts = {}

\* add_timer.  It never starts the timer.  At the limit nothing changes, and
\* the result is that of the last call that did add one.
AddTimer ==
    /\ listTimersI < MaxTimers
    /\ timer' = [timer EXCEPT ![listTimersI] = "added"]
    /\ listTimersI' = listTimersI + 1
    /\ UNCHANGED <<looping, fires, stops, restarts>>

\* Mutant: a timer that never starts.
RunForgetsFirst ==
    /\ ~looping
    /\ looping' = TRUE
    /\ timer' = [i \in Index |-> IF i \in 1 .. listTimersI - 1 THEN "active" ELSE timer[i]]
    /\ UNCHANGED <<listTimersI, fires, stops, restarts>>

\* run starts the timers there are, whatever was done to them before.
Run ==
    /\ ~looping
    /\ looping' = TRUE
    /\ timer' = [i \in Index |-> IF i < listTimersI THEN "active" ELSE timer[i]]
    /\ UNCHANGED <<listTimersI, fires, stops, restarts>>

\* libev, when the time has come.
Expire(i) ==
    /\ looping /\ timer[i] = "active"
    /\ timer' = [timer EXCEPT ![i] = "pending"]
    /\ UNCHANGED <<listTimersI, looping, fires, stops, restarts>>

\* timer_cb: whether the callback returns False, raises or does neither
\* makes no difference, for the timer is inactive already.
TimerCb(i) ==
    /\ looping /\ timer[i] = "pending"
    /\ timer' = [timer EXCEPT ![i] = "inactive"]
    /\ fires' = [fires EXCEPT ![i] = @ + 1]
    /\ UNCHANGED <<listTimersI, looping, stops, restarts>>

\* Mutant: a pending callback still runs.
StopTimerActiveOnly(i) ==
    /\ timer[i] # "null"
    /\ timer' = [timer EXCEPT ![i] =
                    CASE @ = "active" -> "inactive" [] OTHER -> @]
    /\ stops' = IF looping THEN stops \cup {i} ELSE stops
    /\ UNCHANGED <<listTimersI, looping, fires, restarts>>

\* stop_timer(i), i an index of list_timers; add_timer returned i + 1.  (NULL
\* is dereferenced where there is no timer, and anything beyond the list.)
StopTimer(i) ==
    /\ timer[i] # "null"
    /\ timer' = [timer EXCEPT ![i] = IF looping THEN "inactive" ELSE @]
    /\ stops' = IF looping THEN stops \cup {i} ELSE stops
    /\ UNCHANGED <<listTimersI, looping, fires, restarts>>

\* restart_timer(i): ev_timer_again stops a timer that does not repeat.
RestartTimer(i) ==
    /\ timer[i] # "null"
    /\ timer' = [timer EXCEPT ![i] = IF looping THEN "inactive" ELSE @]
    /\ restarts' = IF looping THEN restarts \cup {i} ELSE restarts
    /\ stops' = stops \ {i}
    /\ UNCHANGED <<listTimersI, looping, fires>>

TimersNext ==
    \/ AddTimer
    \/ Run
    \/ \E i \in Index : \/ Expire(i) \/ TimerCb(i)
                        \/ StopTimer(i) \/ RestartTimer(i)

TimersSpec == TimersInit /\ [][TimersNext]_timerVars

-----------------------------------------------------------------------------
(* Properties *)

\* Every variable has its type, and list_timers is filled from the front.
TimersTypeOK ==
    /\ listTimersI \in 0 .. MaxTimers
    /\ timer \in [Index -> {"null", "added", "active", "pending", "inactive"}]
    /\ \A i \in Index : timer[i] = "null" <=> i >= listTimersI
    /\ looping \in BOOLEAN
    /\ fires \in [Index -> Nat]
    /\ stops \subseteq Index
    /\ restarts \subseteq Index

\* A timer that was stopped while the loop ran does not call back before it
\* is restarted, not even when it had expired and its callback was pending.
StoppedStays ==
    [][\A i \in stops : fires'[i] = fires[i]]_timerVars

\* A timer that was added before run calls back, unless it was stopped or
\* restarted.
StartedFires ==
    \A i \in Index :
        ~looping /\ i < listTimersI ~> fires[i] > 0 \/ i \in stops \cup restarts

=============================================================================
