-------------------------------- MODULE Synch --------------------------------
(***************************************************************************)
(* Semaphores, locks with priority donation and condition variables        *)
(* (threads/synch.c) on top of the scheduler of module Threads.            *)
(*                                                                         *)
(* A lock and its semaphore have the same name, and so have a thread and   *)
(* the semaphore_elem it puts on the stack in cond_wait.  The order of a   *)
(* donate_priority list is not observable (its readers scan all of it), so *)
(* it is a set.                                                            *)
(***************************************************************************)
EXTENDS Threads

CONSTANTS
  Sema,         \* plain semaphores
  Cond,         \* condition variables
  CondLock,     \* the lock each condition variable is associated with
  Rank,         \* an order on the locks
  Ordered,      \* do the threads acquire locks in that order?
  MaxValue      \* bound on the value of a plain semaphore

AllSema == Lock \cup Sema \cup Thread

ASSUME SynchAssumption ==
  /\ Lock \cap Sema = {} /\ Lock \cap Thread = {} /\ Sema \cap Thread = {}
  /\ CondLock \in [Cond -> Lock]
  /\ Rank \in [Lock -> Nat]
  /\ Ordered \in BOOLEAN
  /\ MaxValue \in Nat

VARIABLES
  value,          \* value of each semaphore
  waiters,        \* its waiting threads
  holder,         \* holder of each lock
  cond_waiters,   \* waiters of each condition variable
  arg,            \* the lock, semaphore or condition a thread is working on
  ret,            \* where it continues when lock_acquire or lock_release returns
  chain           \* t in the loop of lock_acquire

synchVars == <<value, waiters, holder, cond_waiters, arg, ret, chain>>
vars == <<threadVars, synchVars>>

Goto(l) == pc' = [pc EXCEPT ![running] = l]
At(l) == ~ in_external_intr /\ pc[running] = l

-----------------------------------------------------------------------------
(* Semaphores.                                                             *)

(* The test of sema_down's loop.                                            *)
MustWait(s) == value[s] = 0

Taken_Handoff(s) ==
  IF pc[running] \in IntrOff THEN value ELSE [value EXCEPT ![s] = @ - 1]

(* The decrement at the end of sema_down and sema_try_down.                 *)
Taken(s) == [value EXCEPT ![s] = @ - 1]

(* sema_down by the running thread, from its intr_disable or from the       *)
(* return of its thread_block to the next thread_block or to its return.    *)
sema_down(s, retry, done) ==
  /\ IF MustWait(s)
     THEN /\ waiters' = [waiters EXCEPT ![s] = Append(@, running)]
          /\ thread_block
          /\ Goto(retry)
          /\ UNCHANGED value
     ELSE /\ value' = Taken(s)
          /\ Goto(done)
          /\ UNCHANGED <<waiters, schedVars>>
  /\ UNCHANGED <<sleep_list, priorityVars, intrVars>>

Wakes_AtZero(s) == waiters[s] # <<>> /\ value[s] = 0

(* Does sema_up wake a waiter?                                              *)
Wakes(s) == waiters[s] # <<>>

Unlisted_Never(s, i) == waiters

(* list_remove of the waiter that sema_up has chosen.                       *)
Unlisted(s, i) == [waiters EXCEPT ![s] = Without(@, i)]

(* sema_up by a thread: wake the first waiter of the highest priority, then *)
(* yield in any case.                                                       *)
sema_up(s, done) ==
  LET ws == waiters[s]
      i == list_min([j \in DOMAIN ws |->
                       {k \in DOMAIN ws : priority[ws[k]] > priority[ws[j]]}])
      w == ws[i]
  IN  /\ value' = [value EXCEPT ![s] = @ + 1]
      /\ IF Wakes(s)
         THEN /\ waiters' = Unlisted(s, i)
              /\ thread_yield(ReadyInsert(ready_list, w, priority),
                              [status EXCEPT ![w] = "READY"], priority)
         ELSE /\ UNCHANGED waiters
              /\ thread_yield(ready_list, status, priority)
      /\ Goto(done)
      /\ UNCHANGED <<sleep_list, priorityVars, intrVars>>

SemaDown(s) ==
  /\ AtRun("sema")
  /\ sema_down(s, "sd_retry", "run")
  /\ arg' = [arg EXCEPT ![running] = s]
  /\ UNCHANGED <<holder, cond_waiters, ret, chain>>

SemaRetry ==
  /\ At("sd_retry")
  /\ sema_down(arg[running], "sd_retry", "run")
  /\ UNCHANGED <<holder, cond_waiters, arg, ret, chain>>

SemaUp(s) ==
  /\ AtRun("sema")
  /\ value[s] < MaxValue
  /\ sema_up(s, "run")
  /\ UNCHANGED <<holder, cond_waiters, arg, ret, chain>>

(* sema_try_down when it succeeds; when it fails nothing changes.           *)
sema_try_down(s) ==
  /\ value[s] > 0
  /\ value' = Taken(s)

SemaTryDown(s) ==
  /\ AtRun("sema")
  /\ sema_try_down(s)
  /\ UNCHANGED <<threadVars, waiters, holder, cond_waiters, arg, ret, chain>>

-----------------------------------------------------------------------------
(* Locks.                                                                  *)

(* lock_acquire up to the call of sema_down, except for the loop.           *)
lock_acquire(l, to) ==
  /\ arg' = [arg EXCEPT ![running] = l]
  /\ ret' = [ret EXCEPT ![running] = to]
  /\ IF holder[l] = NULL
     THEN /\ Goto("la_down")
          /\ UNCHANGED <<donate_priority, waiting_lock, chain>>
     ELSE /\ waiting_lock' = [waiting_lock EXCEPT ![running] = l]
          /\ donate_priority' = [donate_priority EXCEPT ![holder[l]] =
                                   @ \cup {[donor |-> running, lock |-> l]}]
          /\ chain' = holder[l]
          /\ Goto("la_chain")
  /\ UNCHANGED <<schedVars, sleep_list, base_priority, priority, intrVars,
                 value, waiters, holder, cond_waiters>>

NextInChain_Direct == NULL

(* The thread that the loop in lock_acquire goes to next.                   *)
NextInChain ==
  IF waiting_lock[chain] = NULL THEN NULL ELSE holder[waiting_lock[chain]]

(* One round of the loop in lock_acquire, with interrupts off.              *)
PropagateDonation ==
  /\ At("la_chain")
  /\ priority' = [priority EXCEPT ![chain] =
                    EffectivePriority(base_priority[chain],
                                      donate_priority[chain], priority)]
  /\ chain' = NextInChain
  /\ IF chain' = NULL THEN Goto("la_down") ELSE UNCHANGED pc
  /\ UNCHANGED <<schedVars, sleep_list, base_priority, donate_priority,
                 waiting_lock, intrVars, value, waiters, holder, cond_waiters,
                 arg, ret>>

(* The sema_down in lock_acquire.                                           *)
LockDown ==
  /\ At("la_down") \/ At("la_retry")
  /\ sema_down(arg[running], "la_retry", "la_own")
  /\ UNCHANGED <<holder, cond_waiters, arg, ret, chain>>

(* The end of lock_acquire and of a successful lock_try_acquire.            *)
LockOwn ==
  /\ At("la_own")
  /\ holder' = [holder EXCEPT ![arg[running]] = running]
  /\ Goto(ret[running])
  /\ UNCHANGED <<schedVars, sleep_list, priorityVars, intrVars, value, waiters,
                 cond_waiters, arg, ret, chain>>

Returned_None(l) == {}

(* The donations that lock_release takes off the thread's list.             *)
Returned(l) == {d \in donate_priority[running] : d.lock = l}

StopsWaiting_Never(t, l) == FALSE

(* Does lock_release clear the waiting_lock of thread T?                    *)
StopsWaiting(t, l) ==
  [donor |-> t, lock |-> l] \in Returned(l) /\ waiting_lock[t] = l

(* lock_release up to the call of sema_up.                                  *)
lock_release(l, to) ==
  /\ holder[l] = running
  /\ donate_priority' = [donate_priority EXCEPT ![running] = @ \ Returned(l)]
  /\ waiting_lock' = [t \in AllThread |->
                        IF StopsWaiting(t, l) THEN NULL ELSE waiting_lock[t]]
  /\ priority' = [priority EXCEPT ![running] =
                    EffectivePriority(base_priority[running],
                                      donate_priority'[running], priority)]
  /\ holder' = [holder EXCEPT ![l] = NULL]
  /\ arg' = [arg EXCEPT ![running] = l]
  /\ ret' = [ret EXCEPT ![running] = to]
  /\ Goto("lr_up")
  /\ UNCHANGED <<schedVars, sleep_list, base_priority, intrVars, value,
                 waiters, cond_waiters, chain>>

(* The sema_up in lock_release.                                             *)
LockUp ==
  /\ At("lr_up")
  /\ sema_up(arg[running], ret[running])
  /\ UNCHANGED <<holder, cond_waiters, arg, ret, chain>>

(* The callers keep to the order of the locks when the instance says so.    *)
MayAcquire(l) ==
  /\ holder[l] # running
  /\ Ordered => \A m \in Lock : holder[m] = running => Rank[m] < Rank[l]

LockAcquire(l) == AtRun("lock") /\ MayAcquire(l) /\ lock_acquire(l, "run")

LockTryAcquire(l) ==
  /\ AtRun("try")
  /\ holder[l] # running
  /\ sema_try_down(l)
  /\ arg' = [arg EXCEPT ![running] = l]
  /\ ret' = [ret EXCEPT ![running] = "run"]
  /\ Goto("la_own")
  /\ UNCHANGED <<schedVars, sleep_list, priorityVars, intrVars, waiters, holder,
                 cond_waiters, chain>>

LockRelease(l) == AtRun("lock") /\ lock_release(l, "run")

-----------------------------------------------------------------------------
(* Condition variables.                                                    *)

(* cond_wait up to the call of lock_release.                                *)
CondWait(c) ==
  /\ AtRun("cond")
  /\ holder[CondLock[c]] = running
  /\ value' = [value EXCEPT ![running] = 0]
  /\ waiters' = [waiters EXCEPT ![running] = <<>>]
  /\ cond_waiters' = [cond_waiters EXCEPT ![c] = Append(@, running)]
  /\ arg' = [arg EXCEPT ![running] = CondLock[c]]
  /\ Goto("cw_release")
  /\ UNCHANGED <<schedVars, sleep_list, priorityVars, intrVars, holder, ret, chain>>

(* The lock_release, sema_down and lock_acquire in cond_wait.               *)
CondRelease == At("cw_release") /\ lock_release(arg[running], "cw_down")

CondDown ==
  /\ At("cw_down") \/ At("cw_retry")
  /\ sema_down(running, "cw_retry", "cw_acquire")
  /\ UNCHANGED <<holder, cond_waiters, arg, ret, chain>>

CondReacquire == At("cw_acquire") /\ lock_acquire(arg[running], "run")

(* cond_sema_priority_greater asks for the front of both semaphores' lists, *)
(* and list_front panics on an empty one; one waiter is not compared.       *)
FrontsExist(c) ==
  Len(cond_waiters[c]) > 1 =>
    \A i \in DOMAIN cond_waiters[c] : waiters[cond_waiters[c][i]] # <<>>

(* The waiter that cond_signal chooses.                                     *)
Chosen(c) ==
  IF Len(cond_waiters[c]) = 1 THEN 1
  ELSE LET pri(i) == priority[Head(waiters[cond_waiters[c][i]])]
       IN  list_min([i \in DOMAIN cond_waiters[c] |->
                       {j \in DOMAIN cond_waiters[c] : pri(j) > pri(i)}])

cond_signal_Oldest(c, done) ==
  /\ holder[CondLock[c]] = running
  /\ cond_waiters[c] # <<>>
  /\ FrontsExist(c)
  /\ sema_up(cond_waiters[c][Chosen(c)], done)
  /\ cond_waiters' = [cond_waiters EXCEPT ![c] = Tail(@)]
  /\ UNCHANGED <<holder, ret, chain>>

(* cond_signal with a waiter; without one it does nothing.                  *)
cond_signal(c, done) ==
  /\ holder[CondLock[c]] = running
  /\ cond_waiters[c] # <<>>
  /\ FrontsExist(c)
  /\ sema_up(cond_waiters[c][Chosen(c)], done)
  /\ cond_waiters' = [cond_waiters EXCEPT ![c] = Without(@, Chosen(c))]
  /\ UNCHANGED <<holder, ret, chain>>

CondSignal(c) == AtRun("cond") /\ cond_signal(c, "run") /\ UNCHANGED arg

(* cond_broadcast: one cond_signal after the other.                         *)
CondBroadcast(c) ==
  /\ AtRun("broadcast") \/ (At("cb_next") /\ arg[running] = c)
  /\ cond_signal(c, "cb_next")
  /\ arg' = [arg EXCEPT ![running] = c]

CondBroadcastDone ==
  /\ At("cb_next")
  /\ cond_waiters[arg[running]] = <<>>
  /\ Goto("run")
  /\ UNCHANGED <<schedVars, sleep_list, priorityVars, intrVars, synchVars>>

-----------------------------------------------------------------------------
SynchInit ==
  /\ ThreadsInit
  /\ value \in [AllSema -> 0..1]
  /\ \A l \in Lock : value[l] = 1
  /\ \A t \in Thread : value[t] = 0
  /\ waiters = [s \in AllSema |-> <<>>]
  /\ holder = [l \in Lock |-> NULL]
  /\ cond_waiters = [c \in Cond |-> <<>>]
  /\ arg = [t \in AllThread |-> NULL]
  /\ ret = [t \in AllThread |-> "run"]
  /\ chain = NULL

(* A thread may exit, lower its priority or sleep at any time, but it does  *)
(* not exit with a lock.                                                    *)
ThreadStep ==
  /\ \/ Yield
     \/ \E p \in Priority : thread_set_priority(p)
     \/ \E n \in Naps : timer_sleep(n)
     \/ thread_exit /\ \A l \in Lock : holder[l] # running
     \/ IdleBlock
     \/ Interrupt
  /\ UNCHANGED synchVars

SemaStep == SemaRetry \/ \E s \in Sema : SemaDown(s) \/ SemaUp(s) \/ SemaTryDown(s)

LockStep ==
  \/ \E l \in Lock : LockAcquire(l) \/ LockTryAcquire(l) \/ LockRelease(l)
  \/ PropagateDonation
  \/ LockDown
  \/ LockOwn
  \/ LockUp

CondStep ==
  \/ \E c \in Cond : CondWait(c) \/ CondSignal(c) \/ CondBroadcast(c)
  \/ CondRelease
  \/ CondDown
  \/ CondReacquire
  \/ CondBroadcastDone

SynchNext == ThreadStep \/ SemaStep \/ LockStep \/ CondStep

SynchSpec == SynchInit /\ [][SynchNext]_vars

(* The CPU keeps executing.                                                 *)
SynchFairSpec == SynchSpec /\ WF_vars(SynchNext)

-----------------------------------------------------------------------------
(* Properties.                                                             *)

(* The thread that has taken lock L's semaphore and has not raised it yet.  *)
Owns(t, l) ==
  \/ pc[t] \in {"la_own", "lr_up"} /\ arg[t] = l
  \/ holder[l] = t

(* The owner of a lock, from its sema_down to its sema_up; a set of owners  *)
(* is nothing that Mutex knows.                                             *)
owner ==
  [l \in Lock |->
     LET owners == {t \in Thread : Owns(t, l)}
     IN  IF owners = {} THEN NULL
         ELSE IF Cardinality(owners) = 1 THEN CHOOSE t \in Thread : Owns(t, l) ELSE owners]

MutexOfLocks == INSTANCE Mutex WITH owner <- owner

(* lock_acquire, lock_try_acquire, lock_release and cond_wait implement the *)
(* abstract mutex: a lock has one owner at most, although interrupts are on *)
(* between the semaphore's changes and the assignments to holder; it passes *)
(* from one thread to another only through being free, and only its owner's *)
(* lock_release frees it.                                                   *)
LocksAreMutexes == MutexOfLocks!Spec

(* The semaphore a thread is waiting for in sema_down, woken or not.        *)
WaitsFor(t, s) ==
  \/ pc[t] \in {"la_retry", "sd_retry"} /\ arg[t] = s
  \/ pc[t] = "cw_retry" /\ s = t

(* A thread's elem is in one list at most, as the comment in thread.h       *)
(* demands: a blocked thread is in sleep_list or in the list of the one     *)
(* semaphore it waits for, once, and no other thread is in such a list,     *)
(* while ready_list holds the ready threads.                                *)
ElemInOneList ==
  /\ RunQueueConsistent
  /\ \A s \in AllSema : IsInjective(waiters[s])
  /\ \A t \in Thread, s \in AllSema :
       t \in Range(waiters[s]) <=> WaitsFor(t, s) /\ status[t] = "BLOCKED"
  /\ \A t \in Thread :
       (\E i \in DOMAIN sleep_list : sleep_list[i].t = t)
         <=> status[t] = "BLOCKED" /\ \A s \in AllSema : ~ WaitsFor(t, s)

(* No wake-up is lost although sema_down's loop lets another thread take    *)
(* the semaphore first: while threads wait in a semaphore's list, each unit *)
(* of its value has a woken thread on its way back into the loop.           *)
NoLostWakeup ==
  \A s \in AllSema :
    waiters[s] # <<>> =>
      value[s] <= Cardinality({t \in Thread : WaitsFor(t, s) /\ status[t] # "BLOCKED"})

(* Every donate_elem in a donate_priority list is on the stack of a thread  *)
(* that is still inside the lock_acquire that made it, and is a donation    *)
(* for a lock that the list's owner still holds.                            *)
DonationsLive ==
  \A h \in AllThread : \A d \in donate_priority[h] :
    /\ holder[d.lock] = h
    /\ waiting_lock[d.donor] = d.lock
    /\ pc[d.donor] \in {"la_chain", "la_down", "la_retry"}
    /\ arg[d.donor] = d.lock

(* Once lock_acquire's loop is done, every thread's priority is the maximum *)
(* of its base priority and its donors' priorities, nested ones included:   *)
(* neither thread_set_priority nor a release leaves a stale value behind.   *)
PriorityExact ==
  ~ At("la_chain") =>
    \A t \in Thread :
      priority[t] = EffectivePriority(base_priority[t], donate_priority[t], priority)

(* A signal is not lost between cond_wait's lock_release and its sema_down: *)
(* a waiter that cond_signal has taken off the condition's list finds its   *)
(* semaphore raised, and one still on the list does not.                    *)
NoLostSignal ==
  \A t \in Thread :
    pc[t] \in {"cw_release", "cw_down", "cw_retry"} /\ ~ in_external_intr =>
      value[t] = IF \E c \in Cond : t \in Range(cond_waiters[c]) THEN 0 ELSE 1

(* lock_acquire turns interrupts back on when it has to sleep.  The loop    *)
(* that propagates a donation ends if the waiting_lock chain does.          *)
InterruptsComeBack == At("la_chain") ~> pc[running] \notin IntrOff

-----------------------------------------------------------------------------
(* What list_front asserts, and cond_signal does not heed.                  *)

(* cond_signal never asks for the front of an empty list, which list_front  *)
(* asserts; a waiter that has released the lock and not yet lowered its     *)
(* semaphore is in no list.                                                 *)
SignalFrontsExist ==
  \A c \in Cond :
    At("run") /\ holder[CondLock[c]] = running => FrontsExist(c)
==============================================================================
