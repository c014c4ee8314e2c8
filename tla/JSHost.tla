------------------------------- MODULE JSHost -------------------------------
(***************************************************************************)
(* The JavaScript host (js/js.cc) on the event loop (app/app.cc): timers   *)
(* set from JavaScript, descriptor watches, the jobs JavaScript leaves     *)
(* pending, and App::loop(), which delivers one event at a time and then   *)
(* runs the pending jobs.                                                  *)
(*                                                                         *)
(* setTimeout() makes two objects that point at each other: a JSTimer,     *)
(* which JavaScript gets an unprotected pointer to (qjspp.h wraps it with  *)
(* an empty deleter), and the Timer of the event loop, whose callback is   *)
(* bound to the JSTimer.  Here m_timers[t] is that JSTimer.  Only          *)
(* clearTimeout() frees them: a timeout that has elapsed keeps both.       *)
(*                                                                         *)
(* JavaScript is arbitrary.  It runs in three places: the start-up script, *)
(* a callback, a pending job; there it may do any of Operation.  Using     *)
(* memory that was freed ends in pc = "corrupt".                           *)
(***************************************************************************)
EXTENDS Evloop, SequencesExt

CONSTANTS
    Fds,         \* the file descriptors that may be watched
    MaxFDs,      \* bound: addresses of FD objects
    MaxHandles,  \* bound: calls of setTimeout() and setInterval()
    MaxJobs      \* bound: jobs that are pending at a time

ASSUME JSHostAssumption == MaxFDs \in Nat /\ MaxHandles \in Nat /\ MaxJobs \in Nat

VARIABLES
    recurring,   \* the timer events the kernel does not drop on delivery
    jstimers,    \* the live JSTimer objects, with their m_id
    m_fds,       \* App::m_fds, in list order
    kfd,         \* the watched descriptors of the kernel queue, with their udata
    pending,     \* QuickJS: the number of pending jobs
    pc,          \* where the thread is
    events,      \* what kevent() has returned and is not handled yet
    running,     \* the JSTimer whose callback runs, or 0
    handles,     \* JavaScript: what setTimeout() and setInterval() have returned
    cleared,     \* JavaScript: the handles passed to clearTimeout()
    polled,      \* history: kevent() has returned
    misuse       \* history: a handle was cleared twice

host_vars == <<recurring, jstimers, m_fds, kfd, pending, pc, events, running,
               handles, cleared, polled, misuse>>
vars == <<evloop_vars, host_vars>>

Addresses == 1 .. MaxTimers
FD == [address : 1 .. MaxFDs, m_fd : Fds]
Event == [filter : {"timer"}, ident : timerid_t]
           \cup [filter : {"read"}, ident : Fds, udata : 1 .. MaxFDs]

(* What JavaScript gets of a JSTimer: a pointer that does not keep it alive. *)
Handle == [timer : Addresses, recurs : BOOLEAN]

Dead == pc \in {"terminated", "corrupt"}
InScript == pc \in {"script", "callback", "job"}

TypeOK ==
    /\ Evloop_TypeOK
    /\ recurring \subseteq timerid_t
    /\ DOMAIN jstimers \subseteq Addresses
    /\ jstimers \in [DOMAIN jstimers -> timerid_t]
    /\ m_fds \in Seq(FD)
    /\ DOMAIN kfd \subseteq Fds
    /\ kfd \in [DOMAIN kfd -> 1 .. MaxFDs]
    /\ pending \in 0 .. MaxJobs
    /\ pc \in {"script", "poll", "dispatch", "callback", "jobs", "job", "terminated", "corrupt"}
    /\ events \in Seq(Event)
    /\ running \in Addresses \cup {0}
    /\ handles \in Seq(Handle)
    /\ cleared \subseteq DOMAIN handles
    /\ polled \in BOOLEAN
    /\ misuse \in BOOLEAN

Init ==
    /\ Evloop_Init
    /\ recurring = {}
    /\ jstimers = [j \in {} |-> 0]
    /\ m_fds = << >>
    /\ kfd = [f \in {} |-> 0]
    /\ pending = 0
    /\ pc = "script"
    /\ events = << >>
    /\ running = 0
    /\ handles = << >>
    /\ cleared = {}
    /\ polled = FALSE
    /\ misuse = FALSE

-----------------------------------------------------------------------------
(* What JavaScript, and native code called from it, may do                 *)

(* The constructor of JSTimer; `new' may return any address that is free. *)
JSTimer(recurs) ==
    /\ InScript
    /\ Len(handles) < MaxHandles
    /\ \E t \in timerid_t, j \in Addresses \ DOMAIN jstimers :
          /\ add_timer(t, j)
          /\ jstimers' = [i \in DOMAIN jstimers \cup {j} |-> IF i = j THEN t ELSE jstimers[i]]
          /\ recurring' = IF recurs THEN recurring \cup {t} ELSE recurring \ {t}
          /\ handles' = Append(handles, [timer |-> j, recurs |-> recurs])
    /\ UNCHANGED <<m_fds, kfd, pending, pc, events, running, cleared, polled, misuse>>

setTimeout == JSTimer(FALSE)

setInterval == JSTimer(TRUE)

(* Mutant: the JSTimer is deleted, its Timer is not. *)
clearTimeout_KeepsTimer(k) ==
    /\ InScript
    /\ k \in DOMAIN handles
    /\ cleared' = cleared \cup {k}
    /\ misuse' = (misuse \/ k \in cleared)
    /\ LET j == handles[k].timer
       IN  \/ /\ j \in DOMAIN jstimers
              /\ jstimers' = Restrict(jstimers, DOMAIN jstimers \ {j})
              /\ UNCHANGED <<evloop_vars, recurring, pc>>
           \/ /\ j \notin DOMAIN jstimers
              /\ pc' = "corrupt"
              /\ UNCHANGED <<evloop_vars, recurring, jstimers>>
    /\ UNCHANGED <<m_fds, kfd, pending, events, running, handles, polled>>

(***************************************************************************)
(* JSTimer::clearTimeout(), also exported as clearInterval.  A handle that *)
(* was cleared before points to freed memory, or to the JSTimer that has   *)
(* got the address since.                                                  *)
(***************************************************************************)
clearTimeout(k) ==
    /\ InScript
    /\ k \in DOMAIN handles
    /\ cleared' = cleared \cup {k}
    /\ misuse' = (misuse \/ k \in cleared)
    /\ LET j == handles[k].timer
       IN  \/ /\ j \in DOMAIN jstimers
              /\ del_timer(jstimers[j])
              /\ recurring' = recurring \ {jstimers[j]}
              /\ jstimers' = Restrict(jstimers, DOMAIN jstimers \ {j})
              /\ UNCHANGED pc
           \/ /\ j \notin DOMAIN jstimers
              /\ pc' = "corrupt"
              /\ UNCHANGED <<evloop_vars, recurring, jstimers>>
    /\ UNCHANGED <<m_fds, kfd, pending, events, running, handles, polled>>

(* A promise is settled, by JSPromise::resolve() or reject() or in JavaScript. *)
settle_promise ==
    /\ InScript
    /\ pending < MaxJobs
    /\ pending' = pending + 1
    /\ UNCHANGED <<evloop_vars, recurring, jstimers, m_fds, kfd, pc, events, running,
                   handles, cleared, polled, misuse>>

(***************************************************************************)
(* App::add_fd(): EV_ADD for a descriptor that is watched already replaces *)
(* the udata of its event; the older FD stays in the list.                 *)
(***************************************************************************)
add_fd(fd) ==
    /\ InScript
    /\ \E a \in 1 .. MaxFDs :
          /\ \A k \in DOMAIN m_fds : m_fds[k].address # a
          /\ m_fds' = Append(m_fds, [address |-> a, m_fd |-> fd])
          /\ kfd' = [f \in DOMAIN kfd \cup {fd} |-> IF f = fd THEN a ELSE kfd[f]]
    /\ UNCHANGED <<evloop_vars, recurring, jstimers, pending, pc, events, running,
                   handles, cleared, polled, misuse>>

(***************************************************************************)
(* App::del_fd(): the event of the descriptor goes, and the first FD of    *)
(* the list that is for it; -ENOENT when there is none.                    *)
(***************************************************************************)
del_fd(fd) ==
    /\ InScript
    /\ \E k \in DOMAIN m_fds :
          /\ m_fds[k].m_fd = fd
          /\ \A i \in 1 .. (k - 1) : m_fds[i].m_fd # fd
          /\ m_fds' = RemoveAt(m_fds, k)
    /\ kfd' = Restrict(kfd, DOMAIN kfd \ {fd})
    /\ UNCHANGED <<evloop_vars, recurring, jstimers, pending, pc, events, running,
                   handles, cleared, polled, misuse>>

Operation ==
    \/ setTimeout \/ setInterval
    \/ \E k \in 1 .. MaxHandles : clearTimeout(k)
    \/ settle_promise
    \/ \E fd \in Fds : add_fd(fd) \/ del_fd(fd)

-----------------------------------------------------------------------------
(* The event loop                                                          *)

(* The start-up script ends; main() logs its exception, if any. *)
script_ends ==
    /\ pc = "script"
    /\ pc' = "poll"
    /\ UNCHANGED <<evloop_vars, recurring, jstimers, m_fds, kfd, pending, events, running,
                   handles, cleared, polled, misuse>>

(* What kevent() may return: a timer that elapses, a descriptor with input. *)
Ready ==
    {[filter |-> "timer", ident |-> t] : t \in kq}
      \cup {[filter |-> "read", ident |-> f, udata |-> kfd[f]] : f \in DOMAIN kfd}

(* Mutant: room for two events in one call of kevent(). *)
eventlist_Two(e) == {<<e>>} \cup {<<e, f>> : f \in Ready \ {e}}

(* kevent() is called with room for one event. *)
eventlist(e) == {<<e>>}

(* kevent() returns, with e first; delivered one-shot timers are dropped. *)
kevent(e) ==
    /\ pc = "poll"
    /\ e \in Ready
    /\ events' \in eventlist(e)
    /\ kq' = kq \ {t \in kq \ recurring : \E k \in DOMAIN events' :
                                            events'[k] = [filter |-> "timer", ident |-> t]}
    /\ pc' = "dispatch"
    /\ polled' = TRUE
    /\ UNCHANGED <<m_timers, recurring, jstimers, m_fds, kfd, pending, running, handles,
                   cleared, misuse>>

(* kevent() fails: the error is logged, and the pending jobs are run. *)
kevent_fails ==
    /\ pc = "poll"
    /\ pc' = "jobs"
    /\ polled' = TRUE
    /\ UNCHANGED <<evloop_vars, recurring, jstimers, m_fds, kfd, pending, events, running,
                   handles, cleared, misuse>>

(***************************************************************************)
(* The ident of a timer event is cast to a Timer, the udata of a read      *)
(* event to an FD, and the callback is called: for the Timer of a JSTimer, *)
(* app_cb() on that object.                                                *)
(***************************************************************************)
Target(e) ==
    IF e.filter = "timer"
      THEN e.ident \in DOMAIN m_timers /\ m_timers[e.ident] \in DOMAIN jstimers
      ELSE \E k \in DOMAIN m_fds : m_fds[k].address = e.udata

dispatch ==
    /\ pc = "dispatch"
    /\ LET e == Head(events)
       IN  \/ /\ Target(e)
              /\ pc' = "callback"
              /\ running' = IF e.filter = "timer" THEN m_timers[e.ident] ELSE 0
           \/ /\ ~Target(e)
              /\ pc' = "corrupt"
              /\ UNCHANGED running
    /\ UNCHANGED <<evloop_vars, recurring, jstimers, m_fds, kfd, pending, events, handles,
                   cleared, polled, misuse>>

(* Mutant: an elapsed timeout is freed when its callback has returned. *)
callback_returns_Frees ==
    /\ pc = "callback"
    /\ events' = Tail(events)
    /\ running' = 0
    /\ LET oneshot == running # 0 /\ Head(events).ident \notin recurring
       IN  \/ /\ oneshot
              /\ running \in DOMAIN jstimers
              /\ del_timer(jstimers[running])
              /\ jstimers' = Restrict(jstimers, DOMAIN jstimers \ {running})
              /\ pc' = "jobs"
           \/ /\ oneshot
              /\ running \notin DOMAIN jstimers
              /\ pc' = "corrupt"
              /\ UNCHANGED <<evloop_vars, jstimers>>
           \/ /\ ~oneshot
              /\ pc' = "jobs"
              /\ UNCHANGED <<evloop_vars, jstimers>>
    /\ UNCHANGED <<recurring, m_fds, kfd, pending, handles, cleared, polled, misuse>>

(***************************************************************************)
(* The callback returns.  It may have cleared its own timer: nothing of    *)
(* the JSTimer or the Timer is looked at any more.                         *)
(***************************************************************************)
callback_returns ==
    /\ pc = "callback"
    /\ events' = Tail(events)
    /\ running' = 0
    /\ pc' = IF events' = << >> THEN "jobs" ELSE "dispatch"
    /\ UNCHANGED <<evloop_vars, recurring, jstimers, m_fds, kfd, pending, handles, cleared,
                   polled, misuse>>

(* A JavaScript callback throws: nobody up to main() catches the exception. *)
callback_throws ==
    /\ pc = "callback"
    /\ running # 0
    /\ pc' = "terminated"
    /\ UNCHANGED <<evloop_vars, recurring, jstimers, m_fds, kfd, pending, events, running,
                   handles, cleared, polled, misuse>>

(* Mutant: the loop does not end when no job is left. *)
run_pending_jobs_NoEnd ==
    /\ pc = "jobs"
    /\ \/ pending > 0 /\ pending' = pending - 1 /\ pc' = "job"
       \/ pending = 0 /\ UNCHANGED <<pending, pc>>
    /\ UNCHANGED <<evloop_vars, recurring, jstimers, m_fds, kfd, events, running, handles,
                   cleared, polled, misuse>>

(* A turn of the loop of JS::run_pending_jobs(). *)
run_pending_jobs ==
    /\ pc = "jobs"
    /\ \/ pending > 0 /\ pending' = pending - 1 /\ pc' = "job"
       \/ pending = 0 /\ pc' = "poll" /\ UNCHANGED pending
    /\ UNCHANGED <<evloop_vars, recurring, jstimers, m_fds, kfd, events, running, handles,
                   cleared, polled, misuse>>

job_returns ==
    /\ pc = "job"
    /\ pc' = "jobs"
    /\ UNCHANGED <<evloop_vars, recurring, jstimers, m_fds, kfd, pending, events, running,
                   handles, cleared, polled, misuse>>

(* Mutant: an exception ends the loop. *)
job_throws_EndsLoop ==
    /\ pc = "job"
    /\ pc' = "poll"
    /\ UNCHANGED <<evloop_vars, recurring, jstimers, m_fds, kfd, pending, events, running,
                   handles, cleared, polled, misuse>>

(* A pending job throws: run_pending_jobs() drops the exception and goes on. *)
job_throws ==
    /\ pc = "job"
    /\ pc' = "jobs"
    /\ UNCHANGED <<evloop_vars, recurring, jstimers, m_fds, kfd, pending, events, running,
                   handles, cleared, polled, misuse>>

Stopped == Dead /\ UNCHANGED vars

-----------------------------------------------------------------------------
(* The script, a callback and a job come to an end, and the loop goes on. *)
GoesOn ==
    \/ script_ends \/ dispatch \/ callback_returns \/ callback_throws
    \/ run_pending_jobs \/ job_returns \/ job_throws

Next ==
    \/ Operation \/ GoesOn \/ kevent_fails \/ Stopped
    \/ \E e \in Ready : kevent(e)

Spec == Init /\ [][Next]_vars

(***************************************************************************)
(* JavaScript functions return.  Nothing is asked of kevent(): it may wait *)
(* for ever, and of several events that are ready it may return any.       *)
(***************************************************************************)
Fairness == WF_vars(GoesOn)

FairSpec == Spec /\ Fairness

-----------------------------------------------------------------------------
(* Properties                                                              *)

(***************************************************************************)
(* No event names an object that is gone, neither one the kernel has still *)
(* to deliver nor one in hand, though callbacks and jobs free timers and   *)
(* watches other than their own: loop() casts the numbers in an event.     *)
(***************************************************************************)
NoStaleEvent ==
    /\ kq \subseteq DOMAIN m_timers
    /\ \A f \in DOMAIN kfd : [address |-> kfd[f], m_fd |-> f] \in Range(m_fds)
    /\ pc = "dispatch" => Target(Head(events))

(***************************************************************************)
(* Each JSTimer has its Timer and each Timer its JSTimer, across clearing, *)
(* elapsing and the reuse of addresses: clearTimeout() deletes by m_id and *)
(* the event loop calls through the bound pointer.                         *)
(***************************************************************************)
TimersPaired ==
    /\ \A j \in DOMAIN jstimers : jstimers[j] \in DOMAIN m_timers /\ m_timers[jstimers[j]] = j
    /\ \A t \in DOMAIN m_timers : m_timers[t] \in DOMAIN jstimers /\ jstimers[m_timers[t]] = t

(***************************************************************************)
(* As long as JavaScript clears no handle twice, the pointers it holds are *)
(* good: whether a timer is pending, has elapsed or is being called, its   *)
(* handle leads to a JSTimer of its own, and no freed memory is used.      *)
(***************************************************************************)
HandlesValid ==
    ~misuse =>
        /\ pc # "corrupt"
        /\ \A k \in DOMAIN handles \ cleared :
              /\ handles[k].timer \in DOMAIN jstimers
              /\ \A i \in DOMAIN handles \ cleared : handles[i].timer = handles[k].timer => i = k

(***************************************************************************)
(* When the loop goes back to kevent(), which may block for ever, no job   *)
(* is left pending, exceptions in jobs or not.  The first call is exempt:  *)
(* what the start-up script leaves pending waits for the first event.      *)
(***************************************************************************)
DrainedBeforePoll == pc = "poll" /\ polled => pending = 0

(***************************************************************************)
(* Callbacks, exceptions in jobs, other timers and descriptors never keep  *)
(* the loop from coming back to kevent() with each timer that is due still *)
(* armed, whichever events kevent() returns.  Only jobs can that leave     *)
(* another job again and again: run_pending_jobs() has no limit.           *)
(***************************************************************************)
Due(k) ==
    /\ k \in DOMAIN handles \ cleared
    /\ ~misuse
    /\ handles[k].recurs \/ jstimers[handles[k].timer] \in kq

Offered(k) == pc = "poll" /\ k \in DOMAIN handles /\ jstimers[handles[k].timer] \in kq

JobsNeverEnd == <>[](pc \in {"jobs", "job"}) /\ []<><<settle_promise>>_vars

TimersOffered ==
    \/ \A k \in 1 .. MaxHandles : Due(k) ~> (k \in cleared \/ misuse \/ Dead \/ Offered(k))
    \/ JobsNeverEnd
=============================================================================
