---------------------------- MODULE EvloopProofs ----------------------------
(***************************************************************************)
(* Facts about the timers of the event loop, for the proofs about the two  *)
(* users of App: the job scheduler and the JavaScript host.                *)
(***************************************************************************)
EXTENDS Evloop, TLAPS

(* A type-correct call of add_timer, del_timer or handle_timer keeps types. *)
LEMMA TimerSteps ==
    ASSUME Evloop_TypeOK, NEW t, NEW udata \in Int,
           \/ add_timer(t, udata)
           \/ del_timer(t)
           \/ handle_timer(t)
           \/ UNCHANGED evloop_vars
    PROVE  Evloop_TypeOK'
<1>1. CASE add_timer(t, udata)
  <2>1. t \in timerid_t
    BY <1>1 DEF add_timer, Allocates
  <2>2. /\ DOMAIN m_timers' = DOMAIN m_timers \cup {t}
        /\ \A u \in DOMAIN m_timers' : m_timers'[u] \in Int
        /\ m_timers' = [u \in DOMAIN m_timers' |-> m_timers'[u]]
    BY <1>1 DEF add_timer, Evloop_TypeOK
  <2> QED BY <1>1, <2>1, <2>2 DEF add_timer, Evloop_TypeOK
<1>2. CASE del_timer(t)
  BY <1>2 DEF del_timer, Restrict, Evloop_TypeOK, evloop_vars
<1>3. CASE handle_timer(t)
  BY <1>3 DEF handle_timer, Evloop_TypeOK
<1>4. CASE UNCHANGED evloop_vars
  BY <1>4 DEF Evloop_TypeOK, evloop_vars
<1> QED BY <1>1, <1>2, <1>3, <1>4

(* What add_timer() leaves: the other timers, and the new one, with its event. *)
LEMMA AddTimer ==
    ASSUME NEW t, NEW udata, add_timer(t, udata)
    PROVE  /\ t \in timerid_t
           /\ t \notin DOMAIN m_timers
           /\ DOMAIN m_timers' = DOMAIN m_timers \cup {t}
           /\ m_timers'[t] = udata
           /\ \A u \in DOMAIN m_timers : m_timers'[u] = m_timers[u]
           /\ kq' = kq \cup {t}
BY DEF add_timer, Allocates

(* What del_timer() of a live timer leaves: the others, and their events. *)
LEMMA DelTimer ==
    ASSUME NEW t \in DOMAIN m_timers, del_timer(t)
    PROVE  /\ DOMAIN m_timers' = DOMAIN m_timers \ {t}
           /\ \A u \in DOMAIN m_timers \ {t} : m_timers'[u] = m_timers[u]
           /\ kq' = kq \ {t}
BY DEF del_timer, Restrict
=============================================================================
