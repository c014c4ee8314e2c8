------------------------------- MODULE Evloop -------------------------------
(***************************************************************************)
(* The timers of the event loop (class App, cmd/schedulerd/app/app.cc).    *)
(*                                                                         *)
(* A timer is an App::Timer allocated by add_timer; its address is both    *)
(* the id handed to the caller and the ident of its kernel event.  Two     *)
(* pieces of state are kept apart because the code lets them diverge:      *)
(*                                                                         *)
(*   m_timers  the list of live Timer objects, here a function from their  *)
(*             addresses to the m_udata given with the callback;           *)
(*   kq        the idents the kernel queue still has a timer event for.    *)
(*                                                                         *)
(* The kernel drops a one-shot event when it delivers it, but handle_timer *)
(* leaves the Timer object in m_timers: only del_timer frees one.          *)
(* kevent() is taken to accept every registration.                         *)
(***************************************************************************)
EXTENDS Integers, Functions

CONSTANT MaxTimers   \* bound: addresses the allocator can hand out

ASSUME MaxTimersAssumption == MaxTimers \in Nat \ {0}

VARIABLES m_timers, kq

evloop_vars == <<m_timers, kq>>

timerid_t == 1 .. MaxTimers      \* 0 is the null address, "no timer"

Evloop_TypeOK ==
    /\ DOMAIN m_timers \subseteq timerid_t
    /\ m_timers \in [DOMAIN m_timers -> Int]
    /\ kq \subseteq DOMAIN m_timers   \* an event never names a freed Timer

Evloop_Init ==
    /\ m_timers = [t \in {} |-> 0]
    /\ kq = {}

(***************************************************************************)
(* An address that `new Timer' can return.  Addresses are only compared    *)
(* for equality, so taking the lowest free one loses no behaviour, and it  *)
(* does reuse the address of a timer that was freed.                       *)
(***************************************************************************)
Allocates(t) ==
    /\ t \in timerid_t \ DOMAIN m_timers
    /\ \A u \in 1 .. (t - 1) : u \in DOMAIN m_timers

(* App::add_timer(), one-shot. *)
add_timer(t, udata) ==
    /\ Allocates(t)
    /\ m_timers' = [u \in DOMAIN m_timers \cup {t} |->
                        IF u = t THEN udata ELSE m_timers[u]]
    /\ kq' = kq \cup {t}

(* Mutant of del_timer: the Timer is freed but EV_DELETE is forgotten. *)
del_timer_LeavesEvent(t) ==
    /\ m_timers' = Restrict(m_timers, DOMAIN m_timers \ {t})
    /\ UNCHANGED kq

(* Mutant of del_timer: EV_DELETE is sent but the Timer is not freed. *)
del_timer_KeepsTimer(t) ==
    /\ kq' = kq \ {t}
    /\ UNCHANGED m_timers

(***************************************************************************)
(* App::del_timer(): -ENOENT without any effect when no live Timer has     *)
(* that address, whatever the address once meant to the caller.            *)
(***************************************************************************)
del_timer(t) ==
    IF t \in DOMAIN m_timers
      THEN /\ m_timers' = Restrict(m_timers, DOMAIN m_timers \ {t})
           /\ kq' = kq \ {t}
      ELSE UNCHANGED evloop_vars

(***************************************************************************)
(* The kernel delivers a one-shot timer event to App::loop(), which hands  *)
(* it to handle_timer(): the event is gone from the queue, the Timer       *)
(* object stays.  The callback is the part of whoever added the timer.     *)
(***************************************************************************)
handle_timer(t) ==
    /\ t \in kq
    /\ kq' = kq \ {t}
    /\ UNCHANGED m_timers
=============================================================================
