------------------------------- MODULE Timers -------------------------------
(***************************************************************************)
(* CTimer (Timer.h, Timer.cpp): a count-up timer that only counts once it  *)
(* was started, and can only be started once it has a timeout.  A timer    *)
(* whose timeout is 0 never runs and never expires, silently.              *)
(***************************************************************************)
EXTENDS Integers

\* m_timeout is the period plus one, 0 for no timeout; m_timer is 0 when
\* stopped.  Counting stops at m_timeout: only timer >= timeout is ever asked.
Timer == {t \in [timeout : Nat, timer : Nat] : t.timer <= t.timeout}

Unset == [timeout |-> 0, timer |-> 0]

SetTimeout(t, period) == IF period > 0
                           THEN [timeout |-> period + 1,
                                 timer |-> IF t.timer <= period + 1
                                             THEN t.timer ELSE period + 1]
                           ELSE Unset

Start(t) == IF t.timeout > 0 THEN [t EXCEPT !.timer = 1] ELSE t

Stop(t) == [t EXCEPT !.timer = 0]

IsRunning(t) == t.timer > 0

HasExpired(t) == t.timeout > 0 /\ t.timer > 0 /\ t.timer >= t.timeout

Clock(t, ticks) ==
  IF ~IsRunning(t) THEN t
  ELSE [t EXCEPT !.timer = IF t.timer + ticks <= t.timeout
                             THEN t.timer + ticks ELSE t.timeout]

=============================================================================
