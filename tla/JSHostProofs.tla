---------------------------- MODULE JSHostProofs ----------------------------
(***************************************************************************)
(* Proofs about JSHost, for every number of timers, descriptors, handles   *)
(* and jobs and every JavaScript program: no event leads to freed memory,  *)
(* JSTimers and Timers are paired, handles stay good until they are        *)
(* cleared twice, and the loop polls only when no job is left pending.     *)
(***************************************************************************)
EXTENDS JSHost, EvloopProofs, ListsProofs

-----------------------------------------------------------------------------
(* Facts about the operators of the model                                  *)

(* erase() of a list element keeps every other element. *)
LEMMA RemoveAtKeeps ==
    ASSUME NEW S, NEW s \in Seq(S), NEW k \in DOMAIN s
    PROVE  /\ RemoveAt(s, k) \in Seq(S)
           /\ \A i \in DOMAIN s \ {k} :
                 \E j \in DOMAIN RemoveAt(s, k) : RemoveAt(s, k)[j] = s[i]
<1> DEFINE a == SubSeq(s, 1, k - 1)
           b == SubSeq(s, k + 1, Len(s))
<1>1. /\ Len(s) \in Nat
      /\ DOMAIN s = 1 .. Len(s)
      /\ \A i \in 1 .. Len(s) : s[i] \in S
      /\ k \in 1 .. Len(s)
  BY LenProperties, ElementOfSeq
<1>2. /\ a \in Seq(S)
      /\ Len(a) = k - 1
      /\ \A i \in 1 .. (k - 1) : a[i] = s[i]
  <2>1. \A i \in 1 .. (k - 1) : s[i] \in S
    BY <1>1
  <2>2. /\ SubSeq(s, 1, k - 1) \in Seq(S)
        /\ Len(SubSeq(s, 1, k - 1)) = IF 1 <= k - 1 THEN k - 1 - 1 + 1 ELSE 0
        /\ \A i \in 1 .. k - 1 - 1 + 1 : SubSeq(s, 1, k - 1)[i] = s[1 + i - 1]
    BY <1>1, <2>1, SubSeqProperties
  <2> QED BY <1>1, <2>2
<1>3. /\ b \in Seq(S)
      /\ Len(b) = Len(s) - k
      /\ \A i \in 1 .. (Len(s) - k) : b[i] = s[k + i]
  <2>1. \A i \in k + 1 .. Len(s) : s[i] \in S
    BY <1>1
  <2>2. /\ SubSeq(s, k + 1, Len(s)) \in Seq(S)
        /\ Len(SubSeq(s, k + 1, Len(s))) =
              IF k + 1 <= Len(s) THEN Len(s) - (k + 1) + 1 ELSE 0
        /\ \A i \in 1 .. Len(s) - (k + 1) + 1 : SubSeq(s, k + 1, Len(s))[i] = s[k + 1 + i - 1]
    BY <1>1, <2>1, SubSeqProperties
  <2>3. \A n \in Nat : k \in 1 .. n =>
           /\ (IF k + 1 <= n THEN n - (k + 1) + 1 ELSE 0) = n - k
           /\ n - (k + 1) + 1 = n - k
           /\ \A i \in 1 .. (n - k) : k + 1 + i - 1 = k + i
    OBVIOUS
  <2>4. /\ Len(SubSeq(s, k + 1, Len(s))) = Len(s) - k
        /\ \A i \in 1 .. (Len(s) - k) : SubSeq(s, k + 1, Len(s))[i] = s[k + i]
    BY <1>1, <2>2, <2>3
  <2> QED BY <2>2, <2>4
<1>4. RemoveAt(s, k) = a \o b
  BY DEF RemoveAt
<1> HIDE DEF a, b
<1>5. /\ a \o b \in Seq(S)
      /\ Len(a \o b) = Len(a) + Len(b)
      /\ \A i \in 1 .. Len(a) + Len(b) :
            (a \o b)[i] = IF i <= Len(a) THEN a[i] ELSE b[i - Len(a)]
      /\ DOMAIN (a \o b) = 1 .. Len(a \o b)
  BY <1>2, <1>3, ConcatProperties, LenProperties
<1>6. ASSUME NEW i \in DOMAIN s \ {k}
      PROVE  \E j \in DOMAIN (a \o b) : (a \o b)[j] = s[i]
  <2>1. CASE i < k
    <3>1. i \in DOMAIN (a \o b) /\ (a \o b)[i] = s[i]
      BY <1>1, <1>2, <1>3, <1>5, <2>1
    <3> QED BY <3>1
  <2>2. CASE i > k
    <3>1. i - k \in 1 .. (Len(s) - k) /\ k + (i - k) = i /\ i - 1 - (k - 1) = i - k
      BY <1>1, <2>2
    <3>2. b[i - k] = s[i]
      BY <1>3, <3>1
    <3>3. i - 1 \in DOMAIN (a \o b) /\ (a \o b)[i - 1] = b[i - 1 - (k - 1)]
      BY <1>1, <1>2, <1>3, <1>5, <2>2, SMTT(30)
    <3>4. (a \o b)[i - 1] = s[i]
      BY <3>1, <3>2, <3>3
    <3> QED BY <3>3, <3>4
  <2> QED BY <1>1, <2>1, <2>2
<1> QED BY <1>4, <1>5, <1>6

(* The list with one event: its head, and nothing after it. *)
LEMMA OneEvent ==
    ASSUME NEW S, NEW s \in Seq(S), Len(s) = 1
    PROVE  s # << >> /\ Head(s) \in S /\ Tail(s) = << >>
<1>1. s # << >>
  BY EmptySeq
<1>2. Head(s) \in S /\ Tail(s) \in Seq(S) /\ Len(Tail(s)) = 0
  BY <1>1, HeadTailProperties
<1>3. Tail(s) = << >>
  BY <1>2, EmptySeq
<1> QED BY <1>1, <1>2, <1>3

-----------------------------------------------------------------------------
(* The inductive invariant                                                 *)

(* The event of a watched descriptor carries the address of a live FD for it. *)
WatchInv ==
    \A f \in DOMAIN kfd : \E k \in DOMAIN m_fds : m_fds[k].address = kfd[f] /\ m_fds[k].m_fd = f

(***************************************************************************)
(* At most one event is in hand, from kevent() until its callback returns, *)
(* and no JavaScript runs between kevent() and the look-up of its target.  *)
(***************************************************************************)
EventInv ==
    /\ pc \in {"script", "poll", "jobs", "job"} => events = << >>
    /\ pc \in {"dispatch", "callback"} => Len(events) = 1
    /\ pc = "dispatch" => Target(Head(events))

(* kevent() has not been called as long as the start-up script runs. *)
DrainInv ==
    /\ pc = "script" => ~polled
    /\ pc = "poll" /\ polled => pending = 0

HostInv ==
    /\ TypeOK
    /\ TimersPaired
    /\ WatchInv
    /\ EventInv
    /\ HandlesValid
    /\ DrainInv

-----------------------------------------------------------------------------
(* The invariant holds initially and is kept by every action               *)

(* The invariant holds when the start-up script begins. *)
LEMMA HostInit == Init => HostInv
<1> SUFFICES ASSUME Init PROVE HostInv
  OBVIOUS
<1> USE DEF Init, Evloop_Init
<1>1. TypeOK
  <2>1. << >> \in Seq(FD) /\ << >> \in Seq(Event) /\ << >> \in Seq(Handle)
    BY EmptySeq
  <2>2. Evloop_TypeOK
    BY DEF Evloop_TypeOK
  <2>3. pending \in 0 .. MaxJobs
    BY JSHostAssumption
  <2> QED BY <2>1, <2>2, <2>3 DEF TypeOK
<1>2. TimersPaired /\ WatchInv
  BY DEF TimersPaired, WatchInv
<1>3. EventInv
  BY DEF EventInv
<1>4. HandlesValid
  BY DEF HandlesValid
<1>5. DrainInv
  BY DEF DrainInv
<1> QED BY <1>1, <1>2, <1>3, <1>4, <1>5 DEF HostInv

(* setTimeout() and setInterval(): the address of the new JSTimer is no live one's. *)
LEMMA JSTimerInv ==
    ASSUME HostInv, NEW recurs \in BOOLEAN, JSTimer(recurs)
    PROVE  HostInv'
<1>1. PICK t \in timerid_t, j \in Addresses \ DOMAIN jstimers :
          /\ add_timer(t, j)
          /\ jstimers' = [i \in DOMAIN jstimers \cup {j} |-> IF i = j THEN t ELSE jstimers[i]]
          /\ recurring' = IF recurs THEN recurring \cup {t} ELSE recurring \ {t}
          /\ handles' = Append(handles, [timer |-> j, recurs |-> recurs])
  BY DEF JSTimer
<1>2. /\ InScript
      /\ UNCHANGED <<m_fds, kfd, pending, pc, events, running, cleared, polled, misuse>>
  BY DEF JSTimer
<1>3. TypeOK /\ TimersPaired /\ WatchInv /\ EventInv /\ HandlesValid /\ DrainInv
  BY DEF HostInv
<1>4. /\ t \notin DOMAIN m_timers
      /\ DOMAIN m_timers' = DOMAIN m_timers \cup {t}
      /\ m_timers'[t] = j
      /\ \A u \in DOMAIN m_timers : m_timers'[u] = m_timers[u]
  BY <1>1, AddTimer
<1>5. /\ DOMAIN jstimers' = DOMAIN jstimers \cup {j}
      /\ jstimers'[j] = t
      /\ \A i \in DOMAIN jstimers : jstimers'[i] = jstimers[i]
      /\ jstimers' \in [DOMAIN jstimers' -> timerid_t]
  BY <1>1, <1>3 DEF TypeOK
<1>6. /\ handles' \in Seq(Handle)
      /\ DOMAIN handles' = DOMAIN handles \cup {Len(handles) + 1}
      /\ Len(handles) + 1 \notin DOMAIN handles
      /\ \A k \in DOMAIN handles : handles'[k] = handles[k]
      /\ handles'[Len(handles) + 1].timer = j
  <2>1. handles \in Seq(Handle) /\ [timer |-> j, recurs |-> recurs] \in Handle
    BY <1>1, <1>3 DEF TypeOK, Handle
  <2> QED BY <1>1, <2>1, AppendKeeps
<1>7. TypeOK'
  <2>1. j \in Int
    BY <1>1, MaxTimersAssumption DEF Addresses
  <2>2. Evloop_TypeOK'
    BY <1>1, <1>3, <2>1, TimerSteps DEF TypeOK
  <2>3. recurring' \subseteq timerid_t
    BY <1>1, <1>3 DEF TypeOK
  <2> QED BY <1>2, <1>3, <1>5, <1>6, <2>2, <2>3, <1>1 DEF TypeOK
<1>8. TimersPaired'
  BY <1>1, <1>3, <1>4, <1>5 DEF TimersPaired
<1>9. HandlesValid'
  <2> SUFFICES ASSUME ~misuse PROVE HandlesValid'
    BY <1>2 DEF HandlesValid
  <2>1. \A k \in DOMAIN handles \ cleared :
           /\ handles[k].timer \in DOMAIN jstimers
           /\ \A i \in DOMAIN handles \ cleared : handles[i].timer = handles[k].timer => i = k
    BY <1>3 DEF HandlesValid
  <2>2. pc' # "corrupt"
    BY <1>2 DEF InScript
  <2>3. \A k \in DOMAIN handles' \ cleared' :
           /\ handles'[k].timer \in DOMAIN jstimers'
           /\ \A i \in DOMAIN handles' \ cleared' : handles'[i].timer = handles'[k].timer => i = k
    BY <1>1, <1>2, <1>5, <1>6, <2>1
  <2> QED BY <2>2, <2>3 DEF HandlesValid
<1>10. WatchInv' /\ DrainInv'
  BY <1>2, <1>3 DEF WatchInv, DrainInv
<1>11. EventInv'
  BY <1>2, <1>3 DEF EventInv, InScript
<1> QED BY <1>7, <1>8, <1>9, <1>10, <1>11 DEF HostInv

(* clearTimeout(): of a handle that was not cleared before, it frees that pair only. *)
LEMMA ClearTimeoutInv ==
    ASSUME HostInv, NEW k \in 1 .. MaxHandles, clearTimeout(k)
    PROVE  HostInv'
<1> DEFINE j == handles[k].timer
<1>1. /\ InScript
      /\ k \in DOMAIN handles
      /\ cleared' = cleared \cup {k}
      /\ misuse' = (misuse \/ k \in cleared)
      /\ UNCHANGED <<m_fds, kfd, pending, events, running, handles, polled>>
      /\ \/ /\ j \in DOMAIN jstimers
            /\ del_timer(jstimers[j])
            /\ recurring' = recurring \ {jstimers[j]}
            /\ jstimers' = Restrict(jstimers, DOMAIN jstimers \ {j})
            /\ UNCHANGED pc
         \/ /\ j \notin DOMAIN jstimers
            /\ pc' = "corrupt"
            /\ UNCHANGED <<evloop_vars, recurring, jstimers>>
  BY DEF clearTimeout
<1>2. TypeOK /\ TimersPaired /\ WatchInv /\ EventInv /\ HandlesValid /\ DrainInv
  BY DEF HostInv
<1>3. misuse' \in BOOLEAN /\ cleared' \subseteq DOMAIN handles'
  BY <1>1, <1>2 DEF TypeOK
<1> HIDE DEF j
<1>4. WatchInv'
  BY <1>1, <1>2 DEF WatchInv
<1>5. CASE j \in DOMAIN jstimers
  <2>1. /\ del_timer(jstimers[j])
        /\ recurring' = recurring \ {jstimers[j]}
        /\ jstimers' = Restrict(jstimers, DOMAIN jstimers \ {j})
        /\ UNCHANGED pc
    BY <1>1, <1>5
  <2>2. /\ DOMAIN jstimers' = DOMAIN jstimers \ {j}
        /\ \A i \in DOMAIN jstimers' : jstimers'[i] = jstimers[i]
        /\ jstimers' \in [DOMAIN jstimers' -> timerid_t]
    BY <1>2, <2>1 DEF Restrict, TypeOK
  <2>3. jstimers[j] \in DOMAIN m_timers /\ m_timers[jstimers[j]] = j
    BY <1>2, <1>5 DEF TimersPaired
  <2>4. /\ DOMAIN m_timers' = DOMAIN m_timers \ {jstimers[j]}
        /\ \A u \in DOMAIN m_timers' : m_timers'[u] = m_timers[u]
    BY <2>1, <2>3, DelTimer
  <2>5. TypeOK'
    <3>1. Evloop_TypeOK'
      BY <1>2, <2>1, TimerSteps, 0 \in Int DEF TypeOK
    <3> QED BY <1>1, <1>2, <1>3, <2>1, <2>2, <3>1 DEF TypeOK
  <2>6. TimersPaired'
    BY <1>2, <2>2, <2>3, <2>4 DEF TimersPaired
  <2>7. HandlesValid'
    <3> SUFFICES ASSUME ~misuse, k \notin cleared PROVE HandlesValid'
      BY <1>1, <1>3 DEF HandlesValid
    <3>1. pc' # "corrupt"
      BY <1>1, <2>1 DEF InScript
    <3>2. \A i \in DOMAIN handles' \ cleared' :
             handles'[i].timer \in DOMAIN jstimers /\ handles'[i].timer # j
      BY <1>1, <1>2 DEF HandlesValid, j
    <3>3. \A m, i \in DOMAIN handles' \ cleared' :
             handles'[i].timer = handles'[m].timer => i = m
      BY <1>1, <1>2 DEF HandlesValid
    <3> QED BY <2>2, <3>1, <3>2, <3>3 DEF HandlesValid
  <2>8. EventInv' /\ DrainInv'
    BY <1>1, <1>2, <2>1 DEF EventInv, DrainInv, InScript
  <2> QED BY <1>4, <2>5, <2>6, <2>7, <2>8 DEF HostInv
<1>6. CASE j \notin DOMAIN jstimers
  <2>1. pc' = "corrupt" /\ UNCHANGED evloop_vars /\ UNCHANGED <<recurring, jstimers>>
    BY <1>1, <1>6
  <2>2. TypeOK'
    <3>1. Evloop_TypeOK'
      BY <1>2, <2>1, TimerSteps, 0 \in Int DEF TypeOK
    <3> QED BY <1>1, <1>2, <1>3, <2>1, <3>1 DEF TypeOK
  <2>3. TimersPaired'
    BY <1>2, <2>1 DEF TimersPaired, evloop_vars
  <2>4. misuse \/ k \in cleared
    BY <1>1, <1>2, <1>6 DEF HandlesValid, j
  <2>5. HandlesValid'
    BY <1>1, <1>3, <2>4 DEF HandlesValid
  <2>6. EventInv' /\ DrainInv'
    BY <2>1 DEF EventInv, DrainInv
  <2> QED BY <1>4, <2>2, <2>3, <2>5, <2>6 DEF HostInv
<1> QED BY <1>5, <1>6

(* A step that leaves the timers and the handles alone and corrupts nothing. *)
LEMMA SameTimers ==
    ASSUME HostInv, UNCHANGED evloop_vars, UNCHANGED <<jstimers, handles, cleared, misuse>>,
           pc' # "corrupt"
    PROVE  Evloop_TypeOK' /\ TimersPaired' /\ HandlesValid'
<1>1. Evloop_TypeOK /\ TimersPaired /\ HandlesValid
  BY DEF HostInv, TypeOK
<1>2. Evloop_TypeOK'
  BY <1>1, TimerSteps, 0 \in Int
<1> QED BY <1>1, <1>2 DEF TimersPaired, HandlesValid, evloop_vars

(* Settling a promise leaves one more job pending, and touches nothing else. *)
LEMMA SettlePromiseInv ==
    ASSUME HostInv, settle_promise
    PROVE  HostInv'
<1> USE DEF settle_promise, InScript
<1>1. TypeOK /\ WatchInv /\ EventInv /\ DrainInv
  BY DEF HostInv
<1>2. Evloop_TypeOK' /\ TimersPaired' /\ HandlesValid'
  BY SameTimers
<1>3. pending' \in 0 .. MaxJobs
  BY <1>1, JSHostAssumption DEF TypeOK
<1>4. TypeOK'
  BY <1>1, <1>2, <1>3 DEF TypeOK
<1>5. WatchInv' /\ EventInv' /\ DrainInv'
  BY <1>1 DEF WatchInv, EventInv, DrainInv
<1> QED BY <1>2, <1>4, <1>5 DEF HostInv

(* add_fd(): the event of the descriptor is made to carry the new FD. *)
LEMMA AddFdInv ==
    ASSUME HostInv, NEW fd \in Fds, add_fd(fd)
    PROVE  HostInv'
<1>1. PICK a \in 1 .. MaxFDs :
          /\ m_fds' = Append(m_fds, [address |-> a, m_fd |-> fd])
          /\ kfd' = [f \in DOMAIN kfd \cup {fd} |-> IF f = fd THEN a ELSE kfd[f]]
  BY DEF add_fd
<1>2. /\ InScript
      /\ UNCHANGED evloop_vars
      /\ UNCHANGED <<recurring, jstimers, pending, pc, events, running,
                     handles, cleared, polled, misuse>>
  BY DEF add_fd
<1>3. TypeOK /\ WatchInv /\ EventInv /\ DrainInv
  BY DEF HostInv
<1>4. Evloop_TypeOK' /\ TimersPaired' /\ HandlesValid'
  BY <1>2, SameTimers DEF InScript
<1>5. /\ m_fds' \in Seq(FD)
      /\ DOMAIN m_fds' = DOMAIN m_fds \cup {Len(m_fds) + 1}
      /\ \A k \in DOMAIN m_fds : m_fds'[k] = m_fds[k]
      /\ m_fds'[Len(m_fds) + 1] = [address |-> a, m_fd |-> fd]
  <2>1. m_fds \in Seq(FD) /\ [address |-> a, m_fd |-> fd] \in FD
    BY <1>3 DEF TypeOK, FD
  <2> QED BY <1>1, <2>1, AppendKeeps
<1>6. /\ DOMAIN kfd' = DOMAIN kfd \cup {fd}
      /\ kfd'[fd] = a
      /\ \A f \in DOMAIN kfd \ {fd} : kfd'[f] = kfd[f]
      /\ kfd' \in [DOMAIN kfd' -> 1 .. MaxFDs]
  BY <1>1, <1>3 DEF TypeOK
<1>7. TypeOK'
  BY <1>2, <1>3, <1>4, <1>5, <1>6 DEF TypeOK
<1>8. WatchInv'
  <2> SUFFICES ASSUME NEW f \in DOMAIN kfd'
               PROVE  \E k \in DOMAIN m_fds' : m_fds'[k].address = kfd'[f] /\ m_fds'[k].m_fd = f
    BY DEF WatchInv
  <2>1. CASE f = fd
    BY <1>5, <1>6, <2>1
  <2>2. CASE f # fd
    <3>1. PICK k \in DOMAIN m_fds : m_fds[k].address = kfd[f] /\ m_fds[k].m_fd = f
      BY <1>3, <1>6, <2>2 DEF WatchInv
    <3> QED BY <1>5, <1>6, <2>2, <3>1
  <2> QED BY <2>1, <2>2
<1>9. EventInv' /\ DrainInv'
  BY <1>2, <1>3 DEF EventInv, DrainInv, InScript
<1> QED BY <1>4, <1>7, <1>8, <1>9 DEF HostInv

(* del_fd() takes the event of the descriptor along with the FD it erases. *)
LEMMA DelFdInv ==
    ASSUME HostInv, NEW fd \in Fds, del_fd(fd)
    PROVE  HostInv'
<1>1. PICK k \in DOMAIN m_fds : m_fds[k].m_fd = fd /\ m_fds' = RemoveAt(m_fds, k)
  BY DEF del_fd
<1>2. /\ InScript
      /\ kfd' = Restrict(kfd, DOMAIN kfd \ {fd})
      /\ UNCHANGED evloop_vars
      /\ UNCHANGED <<recurring, jstimers, pending, pc, events, running,
                     handles, cleared, polled, misuse>>
  BY DEF del_fd
<1>3. TypeOK /\ WatchInv /\ EventInv /\ DrainInv
  BY DEF HostInv
<1>4. Evloop_TypeOK' /\ TimersPaired' /\ HandlesValid'
  BY <1>2, SameTimers DEF InScript
<1>5. /\ m_fds' \in Seq(FD)
      /\ \A i \in DOMAIN m_fds \ {k} : \E m \in DOMAIN m_fds' : m_fds'[m] = m_fds[i]
  <2>1. m_fds \in Seq(FD)
    BY <1>3 DEF TypeOK
  <2> QED BY <1>1, <2>1, RemoveAtKeeps
<1>6. /\ DOMAIN kfd' = DOMAIN kfd \ {fd}
      /\ \A f \in DOMAIN kfd' : kfd'[f] = kfd[f]
      /\ kfd' \in [DOMAIN kfd' -> 1 .. MaxFDs]
  BY <1>2, <1>3 DEF TypeOK, Restrict
<1>7. TypeOK'
  BY <1>2, <1>3, <1>4, <1>5, <1>6 DEF TypeOK
<1>8. WatchInv'
  <2> SUFFICES ASSUME NEW f \in DOMAIN kfd'
               PROVE  \E m \in DOMAIN m_fds' : m_fds'[m].address = kfd'[f] /\ m_fds'[m].m_fd = f
    BY DEF WatchInv
  <2>1. PICK i \in DOMAIN m_fds : m_fds[i].address = kfd[f] /\ m_fds[i].m_fd = f
    BY <1>3, <1>6 DEF WatchInv
  <2>2. i # k
    BY <1>1, <1>6, <2>1
  <2>3. PICK m \in DOMAIN m_fds' : m_fds'[m] = m_fds[i]
    BY <1>5, <2>2
  <2> QED BY <1>6, <2>1, <2>3
<1>9. EventInv' /\ DrainInv'
  BY <1>2, <1>3 DEF EventInv, DrainInv, InScript
<1> QED BY <1>4, <1>7, <1>8, <1>9 DEF HostInv

(* The event kevent() returns names a live Timer, or carries a live FD. *)
LEMMA KeventInv ==
    ASSUME HostInv, NEW e \in Ready, kevent(e)
    PROVE  HostInv'
<1>1. /\ pc = "poll" /\ pc' = "dispatch"
      /\ events' = <<e>>
      /\ kq' \subseteq kq
      /\ polled' = TRUE
      /\ UNCHANGED <<m_timers, recurring, jstimers, m_fds, kfd, pending, running, handles,
                     cleared, misuse>>
  BY DEF kevent, eventlist
<1>2. TypeOK /\ TimersPaired /\ WatchInv /\ EventInv /\ HandlesValid /\ DrainInv
  BY DEF HostInv
<1>3. e \in Event /\ Target(e)
  <2>1. CASE e.filter = "timer"
    <3>1. PICK t \in kq : e = [filter |-> "timer", ident |-> t]
      BY <2>1 DEF Ready
    <3>2. t \in DOMAIN m_timers /\ t \in timerid_t
      BY <1>2, <3>1 DEF TypeOK, Evloop_TypeOK
    <3>3. e \in Event
      BY <3>1, <3>2 DEF Event
    <3>4. Target(e)
      BY <1>2, <3>1, <3>2 DEF Target, TimersPaired
    <3> QED BY <3>3, <3>4
  <2>2. CASE e.filter # "timer"
    <3>1. PICK f \in DOMAIN kfd : e = [filter |-> "read", ident |-> f, udata |-> kfd[f]]
      BY <2>2 DEF Ready
    <3>2. f \in Fds /\ kfd[f] \in 1 .. MaxFDs
      BY <1>2, <3>1 DEF TypeOK
    <3>3. e \in Event
      BY <3>1, <3>2 DEF Event
    <3>4. Target(e)
      BY <1>2, <3>1 DEF Target, WatchInv
    <3> QED BY <3>3, <3>4
  <2> QED BY <2>1, <2>2
<1>4. events' \in Seq(Event) /\ Len(events') = 1 /\ Head(events') = e
  BY <1>1, <1>3
<1>5. TypeOK'
  <2>1. Evloop_TypeOK'
    BY <1>1, <1>2 DEF TypeOK, Evloop_TypeOK
  <2> QED BY <1>1, <1>2, <1>4, <2>1 DEF TypeOK
<1>6. TimersPaired' /\ WatchInv'
  BY <1>1, <1>2 DEF TimersPaired, WatchInv
<1>7. EventInv'
  BY <1>1, <1>3, <1>4 DEF EventInv, Target
<1>8. HandlesValid' /\ DrainInv'
  BY <1>1, <1>2 DEF HandlesValid, DrainInv
<1> QED BY <1>5, <1>6, <1>7, <1>8 DEF HostInv

(* The event in hand has its target: dispatch never takes the corrupt branch. *)
LEMMA DispatchInv ==
    ASSUME HostInv, dispatch
    PROVE  HostInv'
<1>1. /\ pc = "dispatch"
      /\ UNCHANGED evloop_vars
      /\ UNCHANGED <<recurring, jstimers, m_fds, kfd, pending, events, handles,
                     cleared, polled, misuse>>
  BY DEF dispatch
<1>2. TypeOK /\ TimersPaired /\ WatchInv /\ EventInv
  BY DEF HostInv
<1>3. Target(Head(events)) /\ Len(events) = 1
  BY <1>1, <1>2 DEF EventInv
<1>4. /\ pc' = "callback"
      /\ running' = IF Head(events).filter = "timer" THEN m_timers[Head(events).ident] ELSE 0
  BY <1>3 DEF dispatch
<1>5. running' \in Addresses \cup {0}
  BY <1>2, <1>3, <1>4 DEF Target, TypeOK
<1>6. Evloop_TypeOK' /\ TimersPaired' /\ HandlesValid'
  BY <1>1, <1>4, SameTimers
<1>7. TypeOK'
  BY <1>1, <1>2, <1>4, <1>5, <1>6 DEF TypeOK
<1>8. WatchInv' /\ EventInv' /\ DrainInv'
  BY <1>1, <1>2, <1>3, <1>4 DEF WatchInv, EventInv, DrainInv
<1> QED BY <1>6, <1>7, <1>8 DEF HostInv

(* The callback returns: the one event in hand is done with, and the jobs are run. *)
LEMMA CallbackReturnsInv ==
    ASSUME HostInv, callback_returns
    PROVE  HostInv'
<1>1. /\ pc = "callback"
      /\ events' = Tail(events)
      /\ running' = 0
      /\ pc' = IF events' = << >> THEN "jobs" ELSE "dispatch"
      /\ UNCHANGED evloop_vars
      /\ UNCHANGED <<recurring, jstimers, m_fds, kfd, pending, handles, cleared,
                     polled, misuse>>
  BY DEF callback_returns
<1>2. TypeOK /\ WatchInv /\ EventInv
  BY DEF HostInv
<1>3. events' = << >> /\ pc' = "jobs"
  <2>1. events \in Seq(Event) /\ Len(events) = 1
    BY <1>1, <1>2 DEF TypeOK, EventInv
  <2> QED BY <1>1, <2>1, OneEvent
<1>4. Evloop_TypeOK' /\ TimersPaired' /\ HandlesValid'
  BY <1>1, <1>3, SameTimers
<1>5. events' \in Seq(Event)
  BY <1>3, EmptySeq
<1>6. TypeOK'
  BY <1>1, <1>2, <1>3, <1>4, <1>5 DEF TypeOK
<1>7. WatchInv' /\ EventInv' /\ DrainInv'
  BY <1>1, <1>2, <1>3 DEF WatchInv, EventInv, DrainInv
<1> QED BY <1>4, <1>6, <1>7 DEF HostInv

(* The loop of run_pending_jobs() ends only when no job is pending. *)
LEMMA RunPendingJobsInv ==
    ASSUME HostInv, run_pending_jobs
    PROVE  HostInv'
<1>1. /\ pc = "jobs"
      /\ \/ pending > 0 /\ pending' = pending - 1 /\ pc' = "job"
         \/ pending = 0 /\ pc' = "poll" /\ pending' = pending
      /\ UNCHANGED evloop_vars
      /\ UNCHANGED <<recurring, jstimers, m_fds, kfd, events, running, handles,
                     cleared, polled, misuse>>
  BY DEF run_pending_jobs
<1>2. TypeOK /\ WatchInv /\ EventInv
  BY DEF HostInv
<1>3. Evloop_TypeOK' /\ TimersPaired' /\ HandlesValid'
  BY <1>1, SameTimers
<1>4. pending' \in 0 .. MaxJobs
  BY <1>1, <1>2, JSHostAssumption DEF TypeOK
<1>5. TypeOK'
  BY <1>1, <1>2, <1>3, <1>4 DEF TypeOK
<1>6. WatchInv' /\ EventInv' /\ DrainInv'
  BY <1>1, <1>2 DEF WatchInv, EventInv, DrainInv
<1> QED BY <1>3, <1>5, <1>6 DEF HostInv

(* The actions that only move the thread: pc changes, and polled with kevent_fails. *)
LEMMA MovesInv ==
    ASSUME HostInv,
           script_ends \/ kevent_fails \/ callback_throws \/ job_returns \/ job_throws
    PROVE  HostInv'
<1>1. /\ UNCHANGED evloop_vars
      /\ UNCHANGED <<recurring, jstimers, m_fds, kfd, pending, events, running, handles,
                     cleared, misuse>>
  BY DEF script_ends, kevent_fails, callback_throws, job_returns, job_throws
<1>2. \/ pc = "script" /\ pc' = "poll" /\ polled' = polled
      \/ pc = "poll" /\ pc' = "jobs" /\ polled' = TRUE
      \/ pc = "callback" /\ pc' = "terminated" /\ polled' = polled
      \/ pc = "job" /\ pc' = "jobs" /\ polled' = polled
  BY DEF script_ends, kevent_fails, callback_throws, job_returns, job_throws
<1>3. TypeOK /\ WatchInv /\ EventInv /\ DrainInv
  BY DEF HostInv
<1>4. Evloop_TypeOK' /\ TimersPaired' /\ HandlesValid'
  BY <1>1, <1>2, SameTimers
<1>5. TypeOK'
  BY <1>1, <1>2, <1>3, <1>4 DEF TypeOK
<1>6. WatchInv' /\ EventInv'
  BY <1>1, <1>2, <1>3 DEF WatchInv, EventInv
<1>7. DrainInv'
  BY <1>1, <1>2, <1>3 DEF DrainInv
<1> QED BY <1>4, <1>5, <1>6, <1>7 DEF HostInv

(* Nothing changes. *)
LEMMA StutterInv ==
    ASSUME HostInv, UNCHANGED vars
    PROVE  HostInv'
<1>1. UNCHANGED evloop_vars /\ UNCHANGED host_vars
  BY DEF vars
<1>2. UNCHANGED <<m_timers, kq, recurring, jstimers, m_fds, kfd, pending, pc, events,
                  running, handles, cleared, polled, misuse>>
  BY <1>1 DEF evloop_vars, host_vars
<1>3. TypeOK'
  BY <1>2 DEF HostInv, TypeOK, Evloop_TypeOK
<1>4. TimersPaired' /\ WatchInv' /\ HandlesValid' /\ DrainInv'
  BY <1>2 DEF HostInv, TimersPaired, WatchInv, HandlesValid, DrainInv
<1>5. EventInv'
  BY <1>2 DEF HostInv, EventInv, Target
<1> QED BY <1>3, <1>4, <1>5 DEF HostInv

-----------------------------------------------------------------------------
(* Theorems                                                                *)

(***************************************************************************)
(* The invariant that carries the proofs below: types, the pairing of the  *)
(* timer objects, the watches, the event in hand, the handles of           *)
(* JavaScript, and what is pending when the loop polls (js.cc, app.cc).    *)
(***************************************************************************)
THEOREM HostInvariant == Spec => []HostInv
<1>1. Init => HostInv
  BY HostInit
<1>2. HostInv /\ [Next]_vars => HostInv'
  <2> SUFFICES ASSUME HostInv, [Next]_vars PROVE HostInv'
    OBVIOUS
  <2>1. CASE Operation
    <3>1. CASE setTimeout \/ setInterval
      BY <3>1, JSTimerInv DEF setTimeout, setInterval
    <3>2. CASE \E k \in 1 .. MaxHandles : clearTimeout(k)
      BY <3>2, ClearTimeoutInv
    <3>3. CASE settle_promise
      BY <3>3, SettlePromiseInv
    <3>4. CASE \E fd \in Fds : add_fd(fd) \/ del_fd(fd)
      BY <3>4, AddFdInv, DelFdInv
    <3> QED BY <2>1, <3>1, <3>2, <3>3, <3>4 DEF Operation
  <2>2. CASE GoesOn
    BY <2>2, MovesInv, DispatchInv, CallbackReturnsInv, RunPendingJobsInv DEF GoesOn
  <2>3. CASE kevent_fails
    BY <2>3, MovesInv
  <2>4. CASE Stopped
    BY <2>4, StutterInv DEF Stopped
  <2>5. CASE \E e \in Ready : kevent(e)
    BY <2>5, KeventInv
  <2>6. CASE UNCHANGED vars
    BY <2>6, StutterInv
  <2> QED BY <2>1, <2>2, <2>3, <2>4, <2>5, <2>6 DEF Next
<1> QED BY <1>1, <1>2, PTL DEF Spec

(* Every variable of the host keeps its type, for every bound. *)
THEOREM TypeCorrect == Spec => []TypeOK
<1>1. HostInv => TypeOK
  BY DEF HostInv
<1> QED BY <1>1, HostInvariant, PTL

(***************************************************************************)
(* JSTimer and Timer objects are paired at all times: clearTimeout() frees *)
(* both or neither, whatever handle it is given.                           *)
(***************************************************************************)
THEOREM PairedAlways == Spec => []TimersPaired
<1>1. HostInv => TimersPaired
  BY DEF HostInv
<1> QED BY <1>1, HostInvariant, PTL

(***************************************************************************)
(* loop() never casts a stale number: what an event names is alive both in *)
(* the kernel queue and when the event is dispatched.                      *)
(***************************************************************************)
THEOREM EventsLive == Spec => []NoStaleEvent
<1>1. HostInv => NoStaleEvent
  <2> SUFFICES ASSUME HostInv PROVE NoStaleEvent
    OBVIOUS
  <2>1. TypeOK /\ WatchInv /\ EventInv
    BY DEF HostInv
  <2>2. kq \subseteq DOMAIN m_timers
    BY <2>1 DEF TypeOK, Evloop_TypeOK
  <2>3. ASSUME NEW f \in DOMAIN kfd
        PROVE  [address |-> kfd[f], m_fd |-> f] \in Range(m_fds)
    <3>1. PICK k \in DOMAIN m_fds : m_fds[k].address = kfd[f] /\ m_fds[k].m_fd = f
      BY <2>1 DEF WatchInv
    <3>2. m_fds[k] \in FD
      BY <2>1, LenProperties, ElementOfSeq DEF TypeOK
    <3>3. m_fds[k] = [address |-> kfd[f], m_fd |-> f]
      BY <3>1, <3>2 DEF FD
    <3> QED BY <3>3 DEF Range
  <2>4. pc = "dispatch" => Target(Head(events))
    BY <2>1 DEF EventInv
  <2> QED BY <2>2, <2>3, <2>4 DEF NoStaleEvent
<1> QED BY <1>1, HostInvariant, PTL

(***************************************************************************)
(* The unprotected pointers JavaScript holds are good as long as it clears *)
(* no handle twice; clearing a handle twice is the only way to reach freed *)
(* memory through clearTimeout() and the event loop.                       *)
(***************************************************************************)
THEOREM HandlesAlwaysValid == Spec => []HandlesValid
<1>1. HostInv => HandlesValid
  BY DEF HostInv
<1> QED BY <1>1, HostInvariant, PTL

(***************************************************************************)
(* run_pending_jobs() leaves nothing behind: kevent() is called, after the *)
(* first time, with no job pending, whether jobs return or throw.          *)
(***************************************************************************)
THEOREM PollsDrained == Spec => []DrainedBeforePoll
<1>1. HostInv => DrainedBeforePoll
  BY DEF HostInv, DrainInv, DrainedBeforePoll
<1> QED BY <1>1, HostInvariant, PTL
=============================================================================
