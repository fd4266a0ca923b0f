-------------------------------- MODULE Timer --------------------------------
(***************************************************************************)
(* jelly::Timer as this program uses it.  The class belongs to the jelly   *)
(* library, so this is a model of its use, not of its source: SetTimeout   *)
(* is called once and HasExpired is then polled from a loop and expected   *)
(* to fire periodically, so a call that returns true also re-arms it.  A   *)
(* timer is represented by the time at which it expires next.              *)
(***************************************************************************)
EXTENDS Integers

HasExpired(deadline, t) == t >= deadline

(***************************************************************************)
(* The deadlines a timer that fired at time t may have next.  The callers  *)
(* do not depend on whether the period restarts at t or at the deadline    *)
(* that was missed, so the model allows both.                              *)
(***************************************************************************)
Rearmed(deadline, t, timeout) == {deadline + timeout, t + timeout}
=============================================================================
