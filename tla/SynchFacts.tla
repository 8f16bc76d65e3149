----------------------------- MODULE SynchFacts ------------------------------
(* The inductive invariant of the scheduler with semaphores, locks with     *)
(* priority donation and condition variables, and what the steps of synch.c *)
(* have in common.                                                          *)
EXTENDS Synch, ThreadsFacts

-----------------------------------------------------------------------------
(* The inductive invariant.                                                *)

SynchTypes ==
  /\ ThreadsTypeOK
  /\ value \in [AllSema -> Nat]
  /\ waiters \in [AllSema -> Seq(Thread)]
  /\ holder \in [Lock -> Thread \cup {NULL}]
  /\ cond_waiters \in [Cond -> Seq(Thread)]
  /\ arg \in [AllThread -> AllSema \cup Cond \cup {NULL}]
  /\ ret \in [AllThread -> {"run", "cw_down"}]
  /\ chain \in Thread \cup {NULL}

(* What a thread is working on where it is.  The loop in lock_acquire runs  *)
(* with interrupts off, so the thread in it is on the CPU.                  *)
Places ==
  /\ pc[Idle] \in {"loop", "hlt"}
  /\ \A t \in Thread :
       /\ pc[t] \in Label \ {"loop", "hlt"}
       /\ pc[t] \in {"la_chain", "la_down", "la_retry", "la_own"} =>
            arg[t] \in Lock /\ ret[t] = "run"
       /\ pc[t] \in {"lr_up", "cw_release", "cw_down", "cw_retry", "cw_acquire"} =>
            arg[t] \in Lock
       /\ pc[t] = "sd_retry" => arg[t] \in Sema
       /\ pc[t] = "cb_next" => arg[t] \in Cond
       /\ pc[t] = "la_chain" => t = running /\ ~ in_external_intr /\ chain \in Thread

(* A lock's semaphore is 1 while the lock has no owner and 0 while it has   *)
(* its one owner.                                                           *)
OneOwner ==
  \A l \in Lock :
    /\ value[l] \in {0, 1}
    /\ value[l] = 1 <=> \A t \in Thread : ~ Owns(t, l)
    /\ \A t, u \in Thread : Owns(t, l) /\ Owns(u, l) => t = u

(* Between the semaphore's changes and the assignments to holder, holder    *)
(* does not name the owner.                                                 *)
HolderUnset == \A t \in Thread : pc[t] \in {"la_own", "lr_up"} => holder[arg[t]] # t

(* In cond_wait, from the insertion in the condition's list to the end of   *)
(* its sema_down.                                                           *)
InWait(t) ==
  \/ pc[t] \in {"cw_release", "cw_down", "cw_retry"}
  \/ pc[t] = "lr_up" /\ ret[t] = "cw_down"

Signallable(t) == \E c \in Cond : t \in Range(cond_waiters[c])

(* A thread is in a condition's list, once and in one list only, from its   *)
(* cond_wait to its cond_signal, which raises its semaphore.                *)
Signals ==
  /\ \A c \in Cond : IsInjective(cond_waiters[c])
  /\ \A c, d \in Cond, t \in Thread :
       t \in Range(cond_waiters[c]) /\ t \in Range(cond_waiters[d]) => c = d
  /\ \A t \in Thread : Signallable(t) => InWait(t)
  /\ \A t \in Thread : InWait(t) => value[t] = IF Signallable(t) THEN 0 ELSE 1

Exact(t) ==
  priority[t] = EffectivePriority(base_priority[t], donate_priority[t], priority)

(* While lock_acquire's loop is at a thread, that thread's priority is the  *)
(* only one that may not be up to date.                                     *)
ExactButChain == \A t \in Thread : Exact(t) \/ (At("la_chain") /\ t = chain)

SynchInv ==
  /\ SynchTypes
  /\ Places
  /\ ElemInOneList
  /\ SleepersBlocked
  /\ OneOwner
  /\ HolderUnset
  /\ DonationsLive
  /\ ExactButChain
  /\ Signals
  /\ NoLostWakeup

-----------------------------------------------------------------------------
(* Priorities.                                                             *)

(* donate_priority_update returns a priority.                               *)
LEMMA EffectiveType ==
  ASSUME Laws, NEW b \in Priority, NEW D, NEW pri, \A d \in D : pri[d.donor] \in Priority
  PROVE  EffectivePriority(b, D, pri) \in Priority
<1> DEFINE S == {b} \cup {pri[d.donor] : d \in D}
<1>1. S \in SUBSET (0..PRI_MAX) /\ S # {}
  BY Zenon DEF Priority, PRI_MIN
<1> QED
  BY <1>1, ThreadsAssumption, Zenon DEF EffectivePriority, Priority, PRI_MIN, Laws,
     GreatestNat

-----------------------------------------------------------------------------
(* Switches.                                                               *)

(* After the step the run queue is consistent, and the blocked threads are  *)
(* those that were, without W and with B.                                   *)
Switch(W, B) ==
  /\ running' \in AllThread
  /\ status' \in [AllThread -> Status]
  /\ ready_list' \in Seq(Thread)
  /\ thread_ticks' \in 0..TIME_SLICE - 1
  /\ RunQueueConsistent'
  /\ \A t \in Thread :
       status'[t] = "BLOCKED" <=> (status[t] = "BLOCKED" /\ t \notin W) \/ t \in B

(* The parts of the invariant that are about the run queue.                 *)
QueueOK ==
  /\ running \in AllThread
  /\ status \in [AllThread -> Status]
  /\ ready_list \in Seq(Thread)
  /\ thread_ticks \in 0..TIME_SLICE - 1
  /\ RunQueueConsistent

(* A step that leaves the scheduler alone is a switch of nobody.            *)
LEMMA NoSwitch ==
  ASSUME QueueOK, UNCHANGED schedVars PROVE Switch({}, {})
BY Zenon DEF schedVars, QueueOK, RunQueueConsistent, Switch

(* A switch blocks no thread by itself.                                     *)
LEMMA SwitchTo ==
  ASSUME NEW rl, NEW st \in [AllThread -> Status], schedule(rl, st),
         NEW t \in Thread, status'[t] = "BLOCKED"
  PROVE  st[t] = "BLOCKED"
BY Zenon DEF schedule, AllThread

(* thread_yield, after its caller has made the threads in W ready.          *)
LEMMA YieldSwitch ==
  ASSUME Laws, QueueOK, NEW W, NEW rl \in Seq(Thread), NEW st \in [AllThread -> Status],
         NEW pri \in [AllThread -> Int], IsInjective(rl),
         Range(rl) = {t \in Thread : st[t] = "READY"},
         \A t \in AllThread : st[t] = "RUNNING" <=> t = running,
         \A t \in Thread : st[t] = "BLOCKED" <=> status[t] = "BLOCKED" /\ t \notin W,
         thread_yield(rl, st, pri)
  PROVE  Switch(W, {})
<1>1. /\ running' \in AllThread /\ status' \in [AllThread -> Status]
      /\ ready_list' \in Seq(Thread) /\ thread_ticks' = 0
      /\ RunQueueConsistent'
      /\ \A t \in Thread : st[t] \notin {"RUNNING", "READY"} => status'[t] = st[t]
  BY YieldFacts, Zenon DEF QueueOK
<1>2. ASSUME NEW t \in Thread PROVE status'[t] = "BLOCKED" <=> st[t] = "BLOCKED"
  <2> DEFINE qs == [st EXCEPT ![running] = "READY"]
  <2>1. PICK ql : schedule(ql, qs)
    BY Zenon DEF thread_yield
  <2>2. qs \in [AllThread -> Status] /\ (qs[t] = "BLOCKED" => st[t] = "BLOCKED")
    BY Zenon DEF Status, AllThread
  <2> HIDE DEF qs
  <2> QED BY <1>1, <2>2, <2>1, SwitchTo, Zenon
<1> QED BY <1>1, <1>2, ThreadsAssumption DEF Switch

(* thread_yield, called as it is by thread_set_priority and the handler.    *)
LEMMA PlainYield ==
  ASSUME Laws, QueueOK, NEW pri \in [AllThread -> Int], thread_yield(ready_list, status, pri)
  PROVE  Switch({}, {})
BY YieldSwitch, Zenon DEF QueueOK, RunQueueConsistent

(* thread_block, thread_exit and the idle thread's thread_block.            *)
LEMMA BlockSwitch ==
  ASSUME ThreadsTypeOK, RunQueueConsistent, NEW s \in Status \ {"RUNNING", "READY"},
         schedule(ready_list, [status EXCEPT ![running] = s])
  PROVE  /\ running = Idle \/ s # "BLOCKED" => Switch({}, {})
         /\ running # Idle /\ s = "BLOCKED" => Switch({}, {running})
<1> DEFINE qs == [status EXCEPT ![running] = s]
<1>1. /\ running' \in AllThread /\ status' \in [AllThread -> Status]
      /\ ready_list' \in Seq(Thread) /\ thread_ticks' = 0
      /\ RunQueueConsistent'
      /\ running # Idle => status'[running] = s
      /\ \A t \in Thread : status[t] \notin {"RUNNING", "READY"} => status'[t] = status[t]
  BY BlockFacts, Zenon
<1>2. /\ qs \in [AllThread -> Status] /\ qs[running] = s
      /\ \A t \in AllThread : t # running => qs[t] = status[t]
  BY Zenon DEF ThreadsTypeOK
<1>3. schedule(ready_list, qs)
  BY Zenon
<1> HIDE DEF qs
<1>4. ASSUME NEW t \in Thread PROVE status'[t] = "BLOCKED" => qs[t] = "BLOCKED"
  BY <1>2, <1>3, SwitchTo, Zenon
<1>5. thread_ticks' \in 0..TIME_SLICE - 1
  BY <1>1, ThreadsAssumption
<1>6. status[running] = "RUNNING" /\ \A t \in Thread : t \in AllThread /\ t # Idle
  BY ThreadsAssumption, Zenon DEF ThreadsTypeOK, RunQueueConsistent, AllThread
<1>7. CASE running = Idle \/ s # "BLOCKED"
  BY <1>1, <1>2, <1>4, <1>6, <1>7, <1>5, Zenon DEF Switch
<1>8. CASE running # Idle /\ s = "BLOCKED"
  BY <1>1, <1>2, <1>4, <1>6, <1>8, <1>5, Zenon DEF Switch
<1> QED BY <1>7, <1>8, Zenon

(* Waking thread W in sema_up or timer_interrupt.                           *)
LEMMA WakeQueue ==
  ASSUME Laws, QueueOK, NEW w \in Thread, status[w] = "BLOCKED", NEW pri \in [AllThread -> Int]
  PROVE  LET rl == ReadyInsert(ready_list, w, pri)
             st == [status EXCEPT ![w] = "READY"]
         IN  /\ rl \in Seq(Thread) /\ st \in [AllThread -> Status] /\ IsInjective(rl)
             /\ Range(rl) = {t \in Thread : st[t] = "READY"}
             /\ \A t \in AllThread : st[t] = "RUNNING" <=> t = running
             /\ \A t \in Thread :
                  st[t] = "BLOCKED" <=> status[t] = "BLOCKED" /\ t \notin {w}
<1> DEFINE rl == ReadyInsert(ready_list, w, pri)
           st == [status EXCEPT ![w] = "READY"]
<1>1. /\ st \in [AllThread -> Status] /\ st[w] = "READY" /\ w \in AllThread
      /\ \A t \in AllThread : t # w => st[t] = status[t]
  BY Zenon DEF QueueOK, AllThread, Status
<1>3. rl \in Seq(Thread) /\ IsInjective(rl) /\ Range(rl) = Range(ready_list) \cup {w}
  BY ReadyInsertFacts, Zenon DEF QueueOK, RunQueueConsistent
<1> HIDE DEF rl, st
<1>5. \A t \in AllThread : st[t] = "RUNNING" <=> t = running
  BY <1>1, Zenon DEF QueueOK, RunQueueConsistent
<1> QED BY <1>1, <1>3, <1>5 DEF rl, st, QueueOK, RunQueueConsistent, AllThread

-----------------------------------------------------------------------------
(* The lists.                                                              *)

(* A step of the running thread moves no other thread.                      *)
OthersStay ==
  \A t \in Thread : t # running => pc'[t] = pc[t] /\ arg'[t] = arg[t] /\ ret'[t] = ret[t]

Asleep(t) == \E i \in DOMAIN sleep_list : sleep_list[i].t = t

(* What the invariant says of a single thread.                              *)
LEMMA InvFacts ==
  ASSUME SynchInv
  PROVE  /\ QueueOK /\ ThreadsTypeOK /\ RunQueueConsistent
         /\ priority \in [AllThread -> Int]
         /\ status[running] = "RUNNING"
         /\ \A t \in Thread : t \in AllThread /\ t \in AllSema /\ t # Idle
         /\ \A s \in AllSema : waiters[s] \in Seq(Thread) /\ IsInjective(waiters[s])
         /\ \A t \in Thread, s \in AllSema :
              t \in Range(waiters[s]) <=> WaitsFor(t, s) /\ status[t] = "BLOCKED"
         /\ \A t \in Thread :
              Asleep(t) <=> status[t] = "BLOCKED" /\ \A s \in AllSema : ~ WaitsFor(t, s)
         /\ \A t \in Thread : pc[t] \in IntrOff =>
              pc[t] = "la_chain" \/ \E s \in AllSema : WaitsFor(t, s)
<1>1. ThreadsTypeOK /\ RunQueueConsistent
  BY Zenon DEF SynchInv, SynchTypes, ElemInOneList
<1>3. priority \in [AllThread -> Int]
  BY <1>1 DEF ThreadsTypeOK, Priority, PRI_MIN
<1>4. status[running] = "RUNNING"
  BY <1>1, Zenon DEF ThreadsTypeOK, RunQueueConsistent
<1>5. \A t \in Thread : t \in AllThread /\ t \in AllSema /\ t # Idle
  BY ThreadsAssumption, Zenon DEF AllThread, AllSema
<1>6. \A s \in AllSema : waiters[s] \in Seq(Thread) /\ IsInjective(waiters[s])
  BY Zenon DEF SynchInv, SynchTypes, ElemInOneList
<1>7. /\ \A t \in Thread, s \in AllSema :
           t \in Range(waiters[s]) <=> WaitsFor(t, s) /\ status[t] = "BLOCKED"
      /\ \A t \in Thread :
           Asleep(t) <=> status[t] = "BLOCKED" /\ \A s \in AllSema : ~ WaitsFor(t, s)
  BY Zenon DEF SynchInv, ElemInOneList, Asleep
<1>8. ASSUME NEW t \in Thread, pc[t] \in IntrOff
      PROVE  pc[t] = "la_chain" \/ \E s \in AllSema : WaitsFor(t, s)
  BY <1>5, <1>8, Zenon DEF SynchInv, Places, AllSema, IntrOff, WaitsFor
<1> QED BY <1>1, <1>3, <1>4, <1>5, <1>6, <1>7, <1>8, Zenon DEF QueueOK, ThreadsTypeOK

(* The invariant of the lists, from its parts in the next state.            *)
LEMMA ElemParts ==
  ASSUME RunQueueConsistent',
         \A s \in AllSema : IsInjective(waiters'[s]),
         \A t \in Thread, s \in AllSema :
           t \in Range(waiters'[s]) <=> WaitsFor(t, s)' /\ status'[t] = "BLOCKED",
         \A t \in Thread :
           Asleep(t)' <=> status'[t] = "BLOCKED" /\ \A s \in AllSema : ~ WaitsFor(t, s)'
  PROVE  ElemInOneList'
BY Zenon DEF ElemInOneList, Asleep

(* A thread waits for one semaphore at most.                                *)
LEMMA WaitsForOne ==
  ASSUME NEW t, NEW s, NEW u, WaitsFor(t, s), WaitsFor(t, u) PROVE s = u
BY DEF WaitsFor

(* A thread that has not moved waits for what it waited for.                *)
LEMMA StillWaits ==
  ASSUME OthersStay, NEW t \in Thread, t # running
  PROVE  \A s : WaitsFor(t, s)' <=> WaitsFor(t, s)
BY Zenon DEF OthersStay, WaitsFor

(* A step that blocks and wakes nobody, whatever it does to the running     *)
(* thread, which is in no list.                                             *)
LEMMA ElemQuiet ==
  ASSUME SynchInv, Switch({}, {}), OthersStay, waiters' = waiters,
         DOMAIN sleep_list' = DOMAIN sleep_list,
         \A i \in DOMAIN sleep_list : sleep_list'[i].t = sleep_list[i].t
  PROVE  ElemInOneList' /\ SleepersBlocked'
<1>1. RunQueueConsistent' /\ \A t \in Thread : status'[t] = "BLOCKED" <=> status[t] = "BLOCKED"
  BY Zenon DEF Switch
<1>2. ASSUME NEW t \in Thread, status[t] = "BLOCKED"
      PROVE  \A s : WaitsFor(t, s)' <=> WaitsFor(t, s)
  BY <1>2, InvFacts, StillWaits, Zenon
<1>3. ASSUME NEW t \in Thread PROVE Asleep(t)' <=> Asleep(t)
  BY Zenon DEF Asleep
<1>4. ElemInOneList'
  BY <1>1, <1>2, <1>3, InvFacts, ElemParts, Zenon
<1>5. SleepersBlocked'
  BY InvFacts, SleeperType, <1>1, Zenon DEF ThreadsTypeOK, SynchInv, SleepersBlocked
<1> QED BY <1>4, <1>5, Zenon

(* The running thread blocks in sema_down: it is in the list of the one     *)
(* semaphore it waits for.                                                  *)
LEMMA ElemBlock ==
  ASSUME SynchInv, NEW r \in Thread, r = running, Switch({}, {r}), OthersStay,
         NEW s \in AllSema, waiters' = [waiters EXCEPT ![s] = Append(@, r)],
         sleep_list' = sleep_list,
         \A u \in AllSema : WaitsFor(r, u)' <=> u = s
  PROVE  ElemInOneList' /\ SleepersBlocked'
<1>1. /\ RunQueueConsistent'
      /\ \A t \in Thread : status'[t] = "BLOCKED" <=> status[t] = "BLOCKED" \/ t = r
  BY Zenon DEF Switch
<1>2. /\ waiters[s] \in Seq(Thread) /\ IsInjective(waiters[s])
      /\ r \notin Range(waiters[s]) /\ status[r] = "RUNNING"
  BY InvFacts, Zenon
<1>3. /\ \A u \in AllSema : u # s => waiters'[u] = waiters[u]
      /\ waiters'[s] = Append(waiters[s], r)
  BY Zenon DEF SynchInv, SynchTypes
<1>4. Range(waiters'[s]) = Range(waiters[s]) \cup {r} /\ IsInjective(waiters'[s])
  BY <1>2, <1>3, AppendFacts
<1>5. \A u \in AllSema : IsInjective(waiters'[u])
  BY <1>3, <1>4, InvFacts, Zenon
<1>6. ASSUME NEW t \in Thread, t # r
      PROVE  \A u : WaitsFor(t, u)' <=> WaitsFor(t, u)
  BY <1>6, StillWaits, Zenon
<1>7. ASSUME NEW t \in Thread, NEW u \in AllSema
      PROVE  t \in Range(waiters'[u]) <=> WaitsFor(t, u)' /\ status'[t] = "BLOCKED"
  <2>1. CASE t = r
    BY <1>1, <1>2, <1>3, <1>4, <2>1, InvFacts, Zenon
  <2>2. CASE t # r
    BY <1>1, <1>3, <1>4, <1>6, <2>2, InvFacts, Zenon
  <2> QED BY <2>1, <2>2, Zenon
<1>8. ASSUME NEW t \in Thread
      PROVE  Asleep(t)' <=> status'[t] = "BLOCKED" /\ \A u \in AllSema : ~ WaitsFor(t, u)'
  BY <1>2, InvFacts, <1>1, <1>6 DEF Asleep
<1> QED
  BY <1>1, <1>5, <1>7, <1>8, ElemParts, InvFacts, SleeperType DEF ThreadsTypeOK,
     SynchInv, SleepersBlocked

(* sema_up takes the waiter at position I off its semaphore's list.         *)
LEMMA ElemWake ==
  ASSUME SynchInv, OthersStay, NEW s \in AllSema, NEW i \in 1..Len(waiters[s]),
         NEW w, w = waiters[s][i], Switch({w}, {}),
         waiters' = [waiters EXCEPT ![s] = Without(@, i)], sleep_list' = sleep_list
  PROVE  ElemInOneList' /\ SleepersBlocked'
<1>1. /\ RunQueueConsistent'
      /\ \A t \in Thread : status'[t] = "BLOCKED" <=> status[t] = "BLOCKED" /\ t # w
  BY Zenon DEF Switch
<1>2. waiters[s] \in Seq(Thread) /\ IsInjective(waiters[s])
  BY InvFacts, Zenon
<1>3. /\ w \in Thread /\ w \in Range(waiters[s])
      /\ Range(Without(waiters[s], i)) = Range(waiters[s]) \ {w}
      /\ IsInjective(Without(waiters[s], i))
  BY <1>2, WithoutFacts, Zenon
<1>4. /\ \A u \in AllSema : u # s => waiters'[u] = waiters[u]
      /\ waiters'[s] = Without(waiters[s], i)
  BY Zenon DEF SynchInv, SynchTypes
<1>5. \A u \in AllSema : IsInjective(waiters'[u])
  BY <1>3, <1>4, InvFacts, Zenon
<1>6. WaitsFor(w, s) /\ status[w] = "BLOCKED"
  BY <1>3, InvFacts, Zenon
<1>7. \A u \in AllSema : u # s => w \notin Range(waiters[u])
  BY <1>3, <1>6, WaitsForOne, InvFacts, Zenon
<1>8. ASSUME NEW t \in Thread, status[t] = "BLOCKED"
      PROVE  \A u : WaitsFor(t, u)' <=> WaitsFor(t, u)
  BY <1>8, InvFacts, StillWaits, Zenon
<1>9. ASSUME NEW t \in Thread, NEW u \in AllSema
      PROVE  t \in Range(waiters'[u]) <=> WaitsFor(t, u)' /\ status'[t] = "BLOCKED"
  BY <1>3, <1>4, <1>7, <1>1, <1>8, InvFacts
<1>10. ASSUME NEW t \in Thread
       PROVE  Asleep(t)' <=> status'[t] = "BLOCKED" /\ \A u \in AllSema : ~ WaitsFor(t, u)'
  BY <1>1, <1>6, <1>8, InvFacts DEF Asleep
<1>11. SleepersBlocked'
  <2>1. \A k \in DOMAIN sleep_list : sleep_list[k].t \in Thread /\ sleep_list[k].t # w
    BY <1>3, <1>6, InvFacts, SleeperType, Zenon DEF ThreadsTypeOK, Asleep
  <2> QED BY <1>1, <2>1, Zenon DEF SynchInv, SleepersBlocked
<1> QED BY <1>1, <1>5, <1>9, <1>10, <1>11, ElemParts, Zenon

(* timer_sleep: the running thread goes to sleep_list.                      *)
LEMMA ElemSleep ==
  ASSUME Laws, SynchInv, NEW r \in Thread, r = running, Switch({}, {r}), waiters' = waiters,
         \A t \in Thread : \A s : WaitsFor(t, s)' <=> WaitsFor(t, s),
         \A s : ~ WaitsFor(r, s),
         NEW n \in Int, sleep_list' = SleepInsert(sleep_list, [t |-> r, left |-> n])
  PROVE  ElemInOneList' /\ SleepersBlocked' /\ sleep_list' \in Seq(Sleeper)
<1> DEFINE e == [t |-> r, left |-> n]
<1>1. /\ RunQueueConsistent'
      /\ \A t \in Thread : status'[t] = "BLOCKED" <=> status[t] = "BLOCKED" \/ t = r
  BY Zenon DEF Switch
<1>2. e \in Sleeper /\ e.t = r
  BY SMTT(40) DEF Sleeper
<1>3. sleep_list \in Seq(Sleeper) /\ status[r] = "RUNNING"
  BY InvFacts, Zenon DEF ThreadsTypeOK
<1> HIDE DEF e
<1>4. /\ sleep_list' \in Seq(Sleeper)
      /\ \E i \in 1..Len(sleep_list) + 1 : Inserted(sleep_list', sleep_list, i, e)
  BY <1>2, <1>3, SleepInsertFacts, Zenon DEF e
<1>5. PICK i \in 1..Len(sleep_list) + 1 : Inserted(sleep_list', sleep_list, i, e)
  BY <1>4, Zenon
<1>6. ~ Asleep(r)
  BY <1>3, InvFacts, Zenon
<1>7. /\ \A a, b \in DOMAIN sleep_list' : sleep_list'[a].t = sleep_list'[b].t => a = b
      /\ \A a \in DOMAIN sleep_list' :
           sleep_list'[a] = e \/ \E k \in DOMAIN sleep_list : sleep_list'[a] = sleep_list[k]
  <2>2. \A a \in DOMAIN sleep_list : sleep_list[a].t # e.t
    BY <1>2, <1>6, Zenon DEF Asleep
  <2> QED
    BY <1>2, <1>3, <1>4, <1>5, <2>2, InsertedSleepers DEF SynchInv,
       SleepersBlocked
<1>8. ASSUME NEW t \in Thread PROVE Asleep(t)' <=> Asleep(t) \/ t = r
  <2>1. Range(sleep_list') = Range(sleep_list) \cup {e}
    BY <1>3, <1>4, <1>5, InsertedRange
  <2>2. Asleep(t) <=> \E x \in Range(sleep_list) : x.t = t
    BY Zenon DEF Asleep, Range
  <2>3. Asleep(t)' <=> \E x \in Range(sleep_list') : x.t = t
    BY Zenon DEF Asleep, Range
  <2> QED BY <1>2, <2>1, <2>2, <2>3, Zenon
<1>10. SleepersBlocked'
  BY <1>3, SleeperType, <1>1, <1>2, <1>7 DEF SynchInv, SleepersBlocked
<1> QED BY <1>4, <1>10, <1>1, InvFacts, <1>8, ElemParts

(* timer_interrupt wakes the first sleeper.                                 *)
LEMMA ElemAwake ==
  ASSUME SynchInv, sleep_list # <<>>, NEW w, w = Head(sleep_list).t, Switch({w}, {}),
         waiters' = waiters, \A t \in Thread : \A s : WaitsFor(t, s)' <=> WaitsFor(t, s),
         sleep_list' = Tail(sleep_list)
  PROVE  ElemInOneList' /\ SleepersBlocked' /\ sleep_list' \in Seq(Sleeper)
<1>1. /\ RunQueueConsistent'
      /\ \A t \in Thread : status'[t] = "BLOCKED" <=> status[t] = "BLOCKED" /\ t # w
  BY Zenon DEF Switch
<1>2. /\ DOMAIN sleep_list = 1..Len(sleep_list) /\ Len(sleep_list) \in Nat
      /\ 1 \in DOMAIN sleep_list /\ w = sleep_list[1].t
      /\ sleep_list' \in Seq(Sleeper) /\ DOMAIN sleep_list' = 1..Len(sleep_list) - 1
      /\ \A i \in DOMAIN sleep_list' : /\ i + 1 \in DOMAIN sleep_list
                                       /\ sleep_list'[i] = sleep_list[i + 1]
  BY InvFacts DEF ThreadsTypeOK
<1>3. \A i \in DOMAIN sleep_list : sleep_list[i].t \in Thread
  BY InvFacts, SleeperType, Zenon DEF ThreadsTypeOK
<1>4. /\ \A i, j \in DOMAIN sleep_list : sleep_list[i].t = sleep_list[j].t => i = j
      /\ \A i \in DOMAIN sleep_list : status[sleep_list[i].t] = "BLOCKED"
  BY Zenon DEF SynchInv, SleepersBlocked
<1>5. ASSUME NEW i \in DOMAIN sleep_list' PROVE sleep_list'[i].t # w
  BY <1>2, <1>4
<1>7. SleepersBlocked'
  BY <1>1, <1>2, <1>3, <1>4, <1>5 DEF SleepersBlocked
<1>8. ASSUME NEW t \in Thread PROVE Asleep(t)' <=> Asleep(t) /\ t # w
  <2>1. \A k \in DOMAIN sleep_list :
          k = 1 \/ (k - 1 \in DOMAIN sleep_list' /\ sleep_list'[k - 1] = sleep_list[k])
    BY <1>2
  <2>2. ASSUME NEW k \in DOMAIN sleep_list, sleep_list[k].t = t, t # w PROVE Asleep(t)'
    BY <1>2, <2>1, <2>2, Zenon DEF Asleep
  <2>3. ASSUME NEW k \in DOMAIN sleep_list', sleep_list'[k].t = t PROVE Asleep(t) /\ t # w
    BY <1>2, <1>5, <2>3, Zenon DEF Asleep
  <2> QED BY <2>2, <2>3, Zenon DEF Asleep
<1>9. w \in Thread /\ status[w] = "BLOCKED" /\ \A s \in AllSema : ~ WaitsFor(w, s)
  BY <1>2, <1>3, InvFacts DEF Asleep
<1>10. ASSUME NEW t \in Thread, NEW s \in AllSema
       PROVE  t \in Range(waiters'[s]) <=> WaitsFor(t, s)' /\ status'[t] = "BLOCKED"
  BY <1>1, <1>9, InvFacts
<1>11. ASSUME NEW t \in Thread
       PROVE  Asleep(t)' <=> status'[t] = "BLOCKED" /\ \A s \in AllSema : ~ WaitsFor(t, s)'
  BY <1>1, <1>8, InvFacts, Zenon
<1> QED BY <1>1, <1>2, <1>7, <1>10, <1>11, InvFacts, ElemParts, Zenon

-----------------------------------------------------------------------------
(* Wake-ups.                                                               *)

(* The threads that are on their way back into sema_down's loop.            *)
WokenFor(s) == {t \in Thread : WaitsFor(t, s) /\ status[t] # "BLOCKED"}

(* Threads can be counted.                                                  *)
LEMMA WokenFinite ==
  ASSUME Laws, NEW S, S \subseteq Thread
  PROVE  IsFiniteSet(S) /\ Cardinality(S) \in Nat
BY ThreadsAssumption, Zenon DEF Laws, CountSubset, CountType

(* NoLostWakeup, semaphore by semaphore.                                    *)
LEMMA WakeupParts ==
  ASSUME \A s \in AllSema :
           waiters'[s] # <<>> => value'[s] <= Cardinality(WokenFor(s)')
  PROVE  NoLostWakeup'
BY Zenon DEF NoLostWakeup, WokenFor

(* A step that raises no semaphore and after which every woken thread is    *)
(* still on its way loses no wake-up.                                       *)
LEMMA WakeupKept ==
  ASSUME Laws, SynchInv, NEW s \in AllSema, value'[s] \in Nat,
         waiters'[s] # <<>> => waiters[s] # <<>> /\ value'[s] <= value[s],
         \A t \in Thread : t \in WokenFor(s) => t \in WokenFor(s)'
  PROVE  waiters'[s] # <<>> => value'[s] <= Cardinality(WokenFor(s)')
<1> DEFINE S == WokenFor(s)
           T == WokenFor(s)'
<1>1. S \subseteq T /\ S \subseteq Thread /\ T \subseteq Thread
  BY Zenon DEF WokenFor
<1>2. waiters[s] # <<>> => value[s] <= Cardinality(S)
  BY Zenon DEF SynchInv, NoLostWakeup, WokenFor
<1> HIDE DEF S, T
<1>4. Cardinality(S) <= Cardinality(T) /\ Cardinality(S) \in Nat /\ Cardinality(T) \in Nat
  BY <1>1, WokenFinite, Zenon DEF Laws, CountSubset
<1>5. waiters'[s] # <<>> => value'[s] <= Cardinality(T)
  BY <1>2, <1>4 DEF SynchInv, SynchTypes
<1> QED BY <1>5, Zenon DEF T

(* Nor does one that lowers the semaphore and lets one thread go.           *)
LEMMA WakeupTaken ==
  ASSUME Laws, SynchInv, NEW s \in AllSema, NEW r \in Thread, value[s] > 0,
         value'[s] = value[s] - 1, waiters' = waiters,
         \A t \in Thread : t # r /\ t \in WokenFor(s) => t \in WokenFor(s)'
  PROVE  waiters'[s] # <<>> => value'[s] <= Cardinality(WokenFor(s)')
<1> DEFINE S == WokenFor(s)
           T == WokenFor(s)'
<1>1. S \ {r} \subseteq T /\ S \subseteq Thread /\ T \subseteq Thread
  BY Zenon DEF WokenFor
<1>2. waiters[s] # <<>> => value[s] <= Cardinality(S)
  BY Zenon DEF SynchInv, NoLostWakeup, WokenFor
<1> HIDE DEF S, T
<1>4. /\ Cardinality(S \ {r}) <= Cardinality(T)
      /\ Cardinality(S) \in Nat /\ Cardinality(T) \in Nat /\ Cardinality(S \ {r}) \in Nat
  BY <1>1, WokenFinite, Zenon DEF Laws, CountSubset
<1>5. Cardinality(S \ {r}) = Cardinality(S) \/ Cardinality(S \ {r}) = Cardinality(S) - 1
  BY <1>1, WokenFinite, Zenon DEF Laws, CountRemove
<1>6. waiters'[s] # <<>> => value'[s] <= Cardinality(T)
  BY <1>2, <1>4, <1>5 DEF SynchInv, SynchTypes
<1> QED BY <1>6, Zenon DEF T

(* Nor does one that raises it and wakes one more thread.                   *)
LEMMA WakeupRaised ==
  ASSUME Laws, SynchInv, NEW s \in AllSema, NEW w \in Thread, waiters[s] # <<>>,
         value'[s] = value[s] + 1, w \notin WokenFor(s),
         \A t \in Thread : t = w \/ t \in WokenFor(s) => t \in WokenFor(s)'
  PROVE  value'[s] <= Cardinality(WokenFor(s)')
<1> DEFINE S == WokenFor(s)
           T == WokenFor(s)'
<1>1. S \cup {w} \subseteq T /\ S \subseteq Thread /\ T \subseteq Thread /\ w \notin S
  BY Zenon DEF WokenFor
<1>2. value[s] <= Cardinality(S) /\ value[s] \in Nat
  BY Zenon DEF SynchInv, NoLostWakeup, WokenFor, SynchTypes
<1> HIDE DEF S, T
<1>3. Cardinality(S \cup {w}) <= Cardinality(T) /\ Cardinality(S) \in Nat
  BY <1>1, WokenFinite, Zenon DEF Laws, CountSubset
<1>5. Cardinality(T) \in Nat
  BY <1>1, WokenFinite, Zenon
<1>6. value'[s] <= Cardinality(T)
  BY <1>2, <1>3, <1>5, <1>1, WokenFinite DEF Laws, CountAdd
<1> QED BY <1>6, Zenon DEF T

-----------------------------------------------------------------------------
(* Owners.                                                                 *)

(* What a step can do to the owners of the locks: nothing, or take the      *)
(* semaphore of lock L for thread R, or raise it.                           *)
KeepsOwners ==
  /\ \A l \in Lock : value'[l] = value[l]
  /\ \A t \in Thread, l \in Lock : Owns(t, l)' <=> Owns(t, l)

TakesLock(r, l) ==
  /\ value[l] # 0 /\ value'[l] = value[l] - 1
  /\ \A m \in Lock : m # l => value'[m] = value[m]
  /\ \A t \in Thread, m \in Lock : Owns(t, m)' <=> Owns(t, m) \/ (t = r /\ m = l)

FreesLock(r, l) ==
  /\ Owns(r, l) /\ value'[l] = value[l] + 1
  /\ \A m \in Lock : m # l => value'[m] = value[m]
  /\ \A t \in Thread, m \in Lock : Owns(t, m)' <=> Owns(t, m) /\ ~ (t = r /\ m = l)

OwnersStep ==
  \/ KeepsOwners
  \/ \E r \in Thread, l \in Lock : TakesLock(r, l) \/ FreesLock(r, l)

(* Each of these keeps a lock's semaphore in step with its one owner.       *)
LEMMA OneOwnerKept ==
  ASSUME SynchInv, OwnersStep PROVE OneOwner'
BY DEF SynchInv, OneOwner, KeepsOwners, TakesLock, FreesLock, OwnersStep

(* A raised lock has no holder.                                             *)
LEMMA RaisedIsFree ==
  ASSUME SynchInv, NEW l \in Lock, value[l] # 0 PROVE holder[l] = NULL
BY DEF SynchInv, OneOwner, SynchTypes, Owns

(* A thread becomes a lock's holder by its own step.                        *)
LEMMA UnsetKept ==
  ASSUME SynchInv, OthersStay,
         \A t \in Thread, l \in Lock : holder'[l] = t => holder[l] = t \/ t = running,
         NEW r, r = running,
         pc'[r] \in {"la_own", "lr_up"} => holder'[arg'[r]] # r
  PROVE  HolderUnset'
BY DEF HolderUnset, OthersStay, SynchInv, Places

-----------------------------------------------------------------------------
(* Donations and priorities.                                               *)

Acquiring == {"la_chain", "la_down", "la_retry"}

(* The parts of a donation.                                                 *)
LEMMA DonationType ==
  ASSUME SynchInv, NEW h \in AllThread, NEW d \in donate_priority[h]
  PROVE  /\ d.donor \in Thread /\ d.lock \in Lock /\ d = [donor |-> d.donor, lock |-> d.lock]
         /\ holder[d.lock] = h /\ waiting_lock[d.donor] = d.lock
         /\ pc[d.donor] \in Acquiring /\ arg[d.donor] = d.lock
         /\ holder[d.lock] # NULL
BY ThreadsAssumption DEF SynchInv, SynchTypes, ThreadsTypeOK, Donation, DonationsLive,
   Acquiring

(* A step that gives and takes no donation keeps them alive if no donor     *)
(* leaves lock_acquire and no holder gives its lock up.                     *)
LEMMA DonationsQuiet ==
  ASSUME SynchInv, donate_priority' = donate_priority, waiting_lock' = waiting_lock,
         \A l \in Lock : holder[l] # NULL => holder'[l] = holder[l],
         \A t \in Thread : pc[t] \in Acquiring /\ holder[arg[t]] # NULL =>
                             pc'[t] \in Acquiring /\ arg'[t] = arg[t]
  PROVE  DonationsLive'
BY DonationType DEF DonationsLive, Acquiring

(* The priorities are exact after a step that changes none of them.         *)
LEMMA ExactQuiet ==
  ASSUME SynchInv, ~ At("la_chain"),
         UNCHANGED <<priority, base_priority, donate_priority>>
  PROVE  ExactButChain'
BY Zenon DEF SynchInv, ExactButChain, Exact

(* They are after a step that recomputes the priority of thread C, unless   *)
(* C's own donation makes the loop's next thread inexact.                   *)
LEMMA ExactUpdate ==
  ASSUME SynchInv, NEW c \in Thread,
         priority' = [priority EXCEPT ![c] =
                        EffectivePriority(base_priority'[c], donate_priority'[c], priority)],
         \A t \in Thread : t # c => /\ base_priority'[t] = base_priority[t]
                                    /\ donate_priority'[t] = donate_priority[t]
                                    /\ Exact(t),
         \A d \in donate_priority'[c] : d \in donate_priority[c],
         \A t \in Thread : (\E d \in donate_priority'[t] : d.donor = c) =>
                             At("la_chain")' /\ t = chain'
  PROVE  ExactButChain'
<1>1. c \in AllThread /\ \A t \in Thread : t \in AllThread
  BY Zenon DEF AllThread
<1>2. priority \in [AllThread -> Int]
  BY InvFacts, Zenon
<1>3. \A t \in AllThread : t # c => priority'[t] = priority[t]
  BY <1>2, Zenon
<1>4. ASSUME NEW t \in Thread, ~ \E d \in donate_priority'[t] : d.donor = c
      PROVE  Exact(t)'
  <2>1. \A d \in donate_priority'[t] : d.donor \in Thread /\ d.donor # c
    BY <1>1, <1>4, DonationType, Zenon
  <2>2. EffectivePriority(base_priority'[t], donate_priority'[t], priority') =
        EffectivePriority(base_priority'[t], donate_priority'[t], priority)
    <3>2. {priority'[d.donor] : d \in donate_priority'[t]} =
          {priority[d.donor] : d \in donate_priority'[t]}
      BY <1>1, <1>3, <2>1
    <3> QED BY <3>2, Zenon DEF EffectivePriority
  <2>3. CASE t = c
    BY <1>1, <1>2, <2>2, <2>3, Zenon DEF Exact
  <2>4. CASE t # c
    BY <1>1, <1>3, <2>2, <2>4, Zenon DEF Exact
  <2> QED BY <2>3, <2>4, Zenon
<1> QED BY <1>4, Zenon DEF ExactButChain

-----------------------------------------------------------------------------
(* Signals.                                                                *)

(* A step that signals nobody and in which nobody comes into cond_wait.     *)
LEMMA SignalsQuiet ==
  ASSUME SynchInv, cond_waiters' = cond_waiters,
         \A t \in Thread : InWait(t)' => InWait(t) /\ value'[t] = value[t],
         \A t \in Thread : Signallable(t) => InWait(t)'
  PROVE  Signals'
BY Zenon DEF Signallable, SynchInv, Signals

-----------------------------------------------------------------------------
(* sema_down.                                                              *)

(* Types of the scheduler's variables after a step that does not touch      *)
(* the priorities.                                                          *)
LEMMA ThreadsTypes ==
  ASSUME ThreadsTypeOK, NEW W, NEW B, Switch(W, B), UNCHANGED <<priorityVars, intrVars>>,
         sleep_list' \in Seq(Sleeper), pc' \in [AllThread -> Label]
  PROVE  ThreadsTypeOK'
BY Zenon DEF Switch, ThreadsTypeOK, priorityVars, intrVars

(* Where the running thread is, when it is in an operation of synch.c.      *)
LEMMA InOperation ==
  ASSUME SynchInv, NEW l, At(l), l # "loop", l # "hlt"
  PROVE  running \in Thread /\ ~ in_external_intr /\ pc[running] = l
BY Zenon DEF SynchInv, SynchTypes, ThreadsTypeOK, AllThread, At, Places

-----------------------------------------------------------------------------
(* Steps of a thread that switch to no other.                              *)

(* A running thread that goes to place L leaves every thread where it says. *)
LEMMA PlacesKept ==
  ASSUME SynchInv, NEW r \in Thread, r = running, NEW l \in Label \ {"loop", "hlt"}, Goto(l),
         OthersStay,
         l \in {"la_chain", "la_down", "la_retry", "la_own"} =>
           arg'[r] \in Lock /\ ret'[r] = "run",
         l \in {"lr_up", "cw_release", "cw_down", "cw_retry", "cw_acquire"} =>
           arg'[r] \in Lock,
         l = "sd_retry" => arg'[r] \in Sema,
         l = "cb_next" => arg'[r] \in Cond,
         l = "la_chain" => running' = r /\ ~ in_external_intr' /\ chain' \in Thread
  PROVE  /\ Places' /\ pc' \in [AllThread -> Label]
         /\ pc'[r] = l /\ \A t \in AllThread : t # r => pc'[t] = pc[t]
<1>1. r \in AllThread /\ r # Idle /\ Idle \in AllThread
  BY InvFacts, Zenon DEF AllThread
<1>2. pc \in [AllThread -> Label]
  BY Zenon DEF SynchInv, SynchTypes, ThreadsTypeOK
<1>3. /\ pc' \in [AllThread -> Label] /\ pc'[r] = l
      /\ \A t \in AllThread : t # r => pc'[t] = pc[t]
  BY <1>1, <1>2, Zenon DEF Goto
<1>5. ASSUME NEW t \in Thread
      PROVE  /\ pc'[t] \in Label \ {"loop", "hlt"}
             /\ pc'[t] \in {"la_chain", "la_down", "la_retry", "la_own"} =>
                  arg'[t] \in Lock /\ ret'[t] = "run"
             /\ pc'[t] \in {"lr_up", "cw_release", "cw_down", "cw_retry", "cw_acquire"} =>
                  arg'[t] \in Lock
             /\ pc'[t] = "sd_retry" => arg'[t] \in Sema
             /\ pc'[t] = "cb_next" => arg'[t] \in Cond
             /\ pc'[t] = "la_chain" => t = running' /\ ~ in_external_intr' /\ chain' \in Thread
  <2>1. CASE t = r
    BY <1>3, <2>1, Zenon
  <2>2. CASE t # r
    BY <2>2, Zenon DEF SynchInv, Places, OthersStay
  <2> QED BY <2>1, <2>2, Zenon
<1> QED BY <1>3, <1>5, <1>1, Zenon DEF Places, SynchInv

(* The types of what such a step can change.                                *)
DataTypes ==
  /\ value \in [AllSema -> Nat]
  /\ holder \in [Lock -> Thread \cup {NULL}]
  /\ cond_waiters \in [Cond -> Seq(Thread)]
  /\ arg \in [AllThread -> AllSema \cup Cond \cup {NULL}]
  /\ ret \in [AllThread -> {"run", "cw_down"}]
  /\ chain \in Thread \cup {NULL}
  /\ base_priority \in [AllThread -> Priority]
  /\ priority \in [AllThread -> Priority]
  /\ donate_priority \in [AllThread -> SUBSET Donation]
  /\ waiting_lock \in [AllThread -> Lock \cup {NULL}]

(* The types of what the semaphores and locks hold.                         *)
LEMMA DataFacts ==
  ASSUME SynchInv PROVE DataTypes
BY Zenon DEF SynchInv, SynchTypes, ThreadsTypeOK, DataTypes

(* A step of a thread that is in no list, which raises no semaphore.        *)
LEMMA MoveCommon ==
  ASSUME Laws, SynchInv, NEW r \in Thread, r = running, ~ in_external_intr,
         pc[r] \notin {"la_retry", "sd_retry", "cw_retry"},
         NEW l \in Label \ {"loop", "hlt"}, Goto(l),
         UNCHANGED <<schedVars, sleep_list, intrVars>>, waiters' = waiters,
         DataTypes', \A u \in AllSema : value'[u] <= value[u],
         \A t \in Thread : t # r => arg'[t] = arg[t] /\ ret'[t] = ret[t],
         l \in {"la_chain", "la_down", "la_retry", "la_own"} =>
           arg'[r] \in Lock /\ ret'[r] = "run",
         l \in {"lr_up", "cw_release", "cw_down", "cw_retry", "cw_acquire"} =>
           arg'[r] \in Lock,
         l = "sd_retry" => arg'[r] \in Sema,
         l = "cb_next" => arg'[r] \in Cond,
         l = "la_chain" => chain' \in Thread
  PROVE  /\ SynchTypes' /\ Places' /\ ElemInOneList' /\ SleepersBlocked' /\ NoLostWakeup'
         /\ OthersStay /\ pc'[r] = l
<1>1. OthersStay
  BY InvFacts, Zenon DEF Goto, SynchInv, SynchTypes, ThreadsTypeOK, OthersStay
<1>3. /\ Places' /\ pc' \in [AllThread -> Label] /\ pc'[r] = l
  BY <1>1, PlacesKept, Zenon DEF schedVars, intrVars
<1>6. \A u \in AllSema : ~ WaitsFor(r, u)
  BY Zenon DEF WaitsFor
<1>7. NoLostWakeup'
  BY <1>6, <1>1, StillWaits, WakeupKept, WakeupParts, Zenon DEF WokenFor, schedVars,
     DataTypes
<1> QED
  BY <1>1, <1>3, <1>7, ElemQuiet, NoSwitch, InvFacts, Zenon DEF SynchInv, SynchTypes,
     ThreadsTypeOK, schedVars, intrVars, DataTypes

(* The owners are the same when the step is neither at the ends of an       *)
(* ownership nor changes a semaphore.                                       *)
LEMMA OwnersSame ==
  ASSUME \A l \in Lock : value'[l] = value[l],
         \A t \in Thread, l \in Lock : Owns(t, l)' <=> Owns(t, l)
  PROVE  OwnersStep
BY Zenon DEF OwnersStep, KeepsOwners

(* A condition's waiters are the same when no thread's part in a cond_wait  *)
(* begins or ends.                                                          *)
LEMMA SignalsSame ==
  ASSUME SynchInv, cond_waiters' = cond_waiters,
         \A t \in Thread : InWait(t)' <=> InWait(t),
         \A t \in Thread : value'[t] = value[t]
  PROVE  Signals'
BY SignalsQuiet, Zenon DEF SynchInv, Signals
==============================================================================
