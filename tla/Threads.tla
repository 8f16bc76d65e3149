------------------------------- MODULE Threads -------------------------------
(***************************************************************************)
(* The thread scheduler (threads/thread.c) with the alarm clock            *)
(* (devices/timer.c) and the external interrupt that drives both           *)
(* (threads/interrupt.c), for the priority scheduler (thread_mlfqs false). *)
(*                                                                         *)
(* Pintos runs on one CPU.  Kernel code is preempted only by an external   *)
(* interrupt, and only while interrupts are on, so a stretch of code that  *)
(* runs with interrupts off is one action, and pc[t] is the place where    *)
(* thread t is between two such stretches.  Only the running thread, or    *)
(* the interrupt handler that has stopped it, takes a step.                *)
(*                                                                         *)
(* An operator whose name ends in _Word is a mutant of the definition that *)
(* follows it: a bug the properties below must find.                       *)
(***************************************************************************)
EXTENDS FiniteSets, PintosList

CONSTANTS
  Thread,       \* the threads, apart from the idle thread
  Main,         \* initial_thread
  Idle,         \* idle_thread
  Lock,         \* the locks a thread may wait for
  NULL,
  PRI_MAX,      \* 63 in thread.h; PRI_MIN is 0
  TIME_SLICE,   \* 4 in thread.c
  Naps,         \* the arguments passed to timer_sleep
  Ops           \* the operations the threads of this instance call

PRI_MIN == 0
Priority == PRI_MIN..PRI_MAX
AllThread == Thread \cup {Idle}
Status == {"RUNNING", "READY", "BLOCKED", "DYING", "FREE"}
(* The places between two actions: in a thread's own code or the idle       *)
(* loop, or in a lock, semaphore or condition variable's operation (Synch). *)
Label == {"run", "loop", "hlt", "la_chain", "la_down", "la_retry", "la_own",
          "lr_up", "sd_retry", "cw_release", "cw_down", "cw_retry",
          "cw_acquire", "cb_next"}

Sleeper == [t : Thread, left : Int]
Donation == [donor : Thread, lock : Lock]

ASSUME ThreadsAssumption ==
  /\ IsFiniteSet(Thread)
  /\ Main \in Thread
  /\ Idle \notin Thread
  /\ NULL \notin AllThread \cup Lock
  /\ PRI_MAX \in Nat
  /\ TIME_SLICE \in Nat \ {0}
  /\ Naps \subseteq Int

VARIABLES
  running,            \* the thread on the CPU
  status,             \* status of each struct thread
  pc,                 \* where each thread is, see above
  ready_list,         \* THREAD_READY threads
  sleep_list,         \* threads in timer_sleep, with the ticks they have left
  base_priority,
  priority,           \* effective priority
  donate_priority,    \* donations each thread has received
  waiting_lock,
  thread_ticks,       \* ticks since the last switch
  in_external_intr,   \* are we in the timer interrupt's handler?
  yield_on_return     \* yield when the handler returns?

priorityVars == <<base_priority, priority, donate_priority, waiting_lock>>
intrVars == <<in_external_intr, yield_on_return>>
schedVars == <<running, status, ready_list, thread_ticks>>
threadVars == <<schedVars, pc, sleep_list, priorityVars, intrVars>>

-----------------------------------------------------------------------------
(* Primitives.                                                             *)

(* The list_insert_ordered of thread_unblock and thread_yield, which        *)
(* compares threads by their priorities PRI (priority_greater).             *)
ReadyInsert_Back(l, t, pri) == Append(l, t)
ReadyInsert_Front(l, t, pri) ==
  list_insert_ordered(l, t, {i \in DOMAIN l : pri[t] >= pri[l[i]]})
ReadyInsert(l, t, pri) ==
  list_insert_ordered(l, t, {i \in DOMAIN l : pri[t] > pri[l[i]]})

(* donate_priority_update: the base priority or the largest priority among  *)
(* the donors, looked up in PRI.                                            *)
EffectivePriority(base, donations, pri) ==
  Max({base} \cup {pri[d.donor] : d \in donations})

next_thread_to_run(ready) == IF ready = <<>> THEN Idle ELSE Head(ready)

(* list_pop_front in next_thread_to_run.                                    *)
RestOfQueue(ready) == IF ready = <<>> THEN ready ELSE Tail(ready)

(* schedule and thread_schedule_tail, called with the run queue READY and   *)
(* the statuses STAT that the caller has just set.                          *)
schedule(ready, stat) ==
  LET next == next_thread_to_run(ready)
  IN  /\ running' = next
      /\ ready_list' = RestOfQueue(ready)
      /\ status' = [stat EXCEPT ![next] = "RUNNING"]
      /\ thread_ticks' = 0

(* thread_yield, called with the run queue READY, the statuses STAT and the *)
(* priorities PRI that the caller has just set.                             *)
thread_yield(ready, stat, pri) ==
  schedule(IF running = Idle THEN ready ELSE ReadyInsert(ready, running, pri),
           [stat EXCEPT ![running] = "READY"])

(* thread_block: the caller has put the thread on the list it waits in.     *)
thread_block == schedule(ready_list, [status EXCEPT ![running] = "BLOCKED"])

(* The running thread is in its own code, between two kernel operations.    *)
AtRun(op) ==
  /\ ~ in_external_intr
  /\ running # Idle
  /\ pc[running] = "run"
  /\ op \in Ops

-----------------------------------------------------------------------------
(* Operations of the running thread.                                       *)

Yield ==
  /\ AtRun("yield")
  /\ thread_yield(ready_list, status, priority)
  /\ UNCHANGED <<pc, sleep_list, priorityVars, intrVars>>

(* thread_set_priority yields when the head of the run queue now has a      *)
(* higher priority.                                                         *)
thread_set_priority(p) ==
  /\ AtRun("set_priority")
  /\ base_priority' = [base_priority EXCEPT ![running] = p]
  /\ priority' = [priority EXCEPT ![running] =
                    EffectivePriority(p, donate_priority[running], priority)]
  /\ IF ready_list # <<>> /\ priority[Head(ready_list)] > priority'[running]
     THEN thread_yield(ready_list, status, priority')
     ELSE UNCHANGED schedVars
  /\ UNCHANGED <<pc, sleep_list, donate_priority, waiting_lock, intrVars>>

time_less(a, b) == a.left < b.left

SleepInsert_Back(l, e) == Append(l, e)

(* The list_insert_ordered of timer_sleep.                                  *)
SleepInsert(l, e) ==
  list_insert_ordered(l, e, {i \in DOMAIN l : time_less(e, l[i])})

(* timer_sleep.  An entry keeps wakeup_time - ticks rather than the two     *)
(* absolute times: only their difference is ever used.                      *)
timer_sleep(n) ==
  /\ AtRun("sleep")
  /\ sleep_list' = SleepInsert(sleep_list, [t |-> running, left |-> n])
  /\ thread_block
  /\ UNCHANGED <<pc, priorityVars, intrVars>>

(* thread_exit.  The page of a dying thread is freed by the thread that is  *)
(* switched to, before interrupts come back on; initial_thread's is not.    *)
thread_exit ==
  /\ AtRun("exit")
  /\ schedule(ready_list,
       [status EXCEPT ![running] = IF running = Main THEN "DYING" ELSE "FREE"])
  /\ UNCHANGED <<pc, sleep_list, priorityVars, intrVars>>

(* The body of idle's loop up to "sti; hlt".                                *)
IdleBlock ==
  /\ ~ in_external_intr
  /\ running = Idle
  /\ pc[Idle] = "loop"
  /\ thread_block
  /\ pc' = [pc EXCEPT ![Idle] = "hlt"]
  /\ UNCHANGED <<sleep_list, priorityVars, intrVars>>

-----------------------------------------------------------------------------
(* The timer interrupt.                                                    *)

(* Where a thread runs with interrupts off between two actions.             *)
IntrOff == {"la_chain", "la_retry", "sd_retry", "cw_retry"}

(* intr_handler and timer_interrupt up to the loop: one more tick.          *)
TimerInterrupt ==
  /\ ~ in_external_intr
  /\ pc[running] \notin IntrOff
  /\ in_external_intr' = TRUE
  /\ yield_on_return' = FALSE
  /\ sleep_list' = [i \in DOMAIN sleep_list |->
                      [sleep_list[i] EXCEPT !.left = @ - 1]]
  /\ UNCHANGED <<schedVars, pc, priorityVars>>

(* The test of timer_interrupt's loop.                                      *)
SleeperDue == sleep_list # <<>> /\ Head(sleep_list).left <= 0

(* list_remove of the sleeper that is due.                                  *)
SleepersLeft_Skip == SubSeq(sleep_list, 3, Len(sleep_list))
SleepersLeft == Tail(sleep_list)

(* One round of timer_interrupt's loop: the first sleeper is due.           *)
WakeSleeper ==
  /\ in_external_intr
  /\ SleeperDue
  /\ LET t == Head(sleep_list).t
     IN  /\ ready_list' = ReadyInsert(ready_list, t, priority)
         /\ status' = [status EXCEPT ![t] = "READY"]
         /\ yield_on_return' = (yield_on_return \/ priority[t] > priority[running])
  /\ sleep_list' = SleepersLeft
  /\ UNCHANGED <<running, thread_ticks, pc, priorityVars, in_external_intr>>

(* thread_tick's test.                                                      *)
SliceEnds == thread_ticks + 1 >= TIME_SLICE

(* The loop ends, thread_tick, and intr_handler's return.  The flag is dead *)
(* until the next interrupt clears it.  hlt ends with the interrupt.        *)
InterruptReturn ==
  /\ in_external_intr
  /\ ~ SleeperDue
  /\ in_external_intr' = FALSE
  /\ yield_on_return' = FALSE
  /\ IF yield_on_return \/ SliceEnds
     THEN thread_yield(ready_list, status, priority)
     ELSE thread_ticks' = thread_ticks + 1 /\ UNCHANGED <<running, status, ready_list>>
  /\ pc' = IF running = Idle THEN [pc EXCEPT ![Idle] = "loop"] ELSE pc
  /\ UNCHANGED <<sleep_list, priorityVars>>

-----------------------------------------------------------------------------
(* Boot is over: thread_start has returned in the initial thread, the idle  *)
(* thread is still in its sema_up, and the initial thread has created the   *)
(* others, none of which has a higher priority than its own.                *)
ThreadsInit ==
  /\ running = Main
  /\ status = [t \in AllThread |-> IF t = Main THEN "RUNNING" ELSE "READY"]
  /\ pc = [t \in AllThread |-> IF t = Idle THEN "loop" ELSE "run"]
  /\ base_priority \in [AllThread -> Priority]
  /\ base_priority[Idle] = PRI_MIN
  /\ \A t \in Thread : base_priority[t] <= base_priority[Main]
  /\ priority = base_priority
  /\ ready_list \in [1..Cardinality(Thread \ {Main}) -> Thread \ {Main}]
  /\ Range(ready_list) = Thread \ {Main}
  /\ IsInjective(ready_list)
  /\ Sorted(ready_list, priority)
  /\ sleep_list = <<>>
  /\ donate_priority = [t \in AllThread |-> {}]
  /\ waiting_lock = [t \in AllThread |-> NULL]
  /\ thread_ticks = 0
  /\ in_external_intr = FALSE
  /\ yield_on_return = FALSE

-----------------------------------------------------------------------------
(* Properties.                                                             *)

ThreadsTypeOK ==
  /\ running \in AllThread
  /\ status \in [AllThread -> Status]
  /\ pc \in [AllThread -> Label]
  /\ ready_list \in Seq(Thread)
  /\ sleep_list \in Seq(Sleeper)
  /\ base_priority \in [AllThread -> Priority]
  /\ priority \in [AllThread -> Priority]
  /\ donate_priority \in [AllThread -> SUBSET Donation]
  /\ waiting_lock \in [AllThread -> Lock \cup {NULL}]
  /\ thread_ticks \in 0..TIME_SLICE - 1
  /\ in_external_intr \in BOOLEAN
  /\ yield_on_return \in BOOLEAN

(* A thread's elem is in the run queue exactly while the thread is ready,   *)
(* and only once (list.c would corrupt both lists otherwise); one thread    *)
(* runs, and it is the one whose status says so, which thread_current       *)
(* asserts; the idle thread is never queued, as idle's comment says.        *)
RunQueueConsistent ==
  /\ IsInjective(ready_list)
  /\ Range(ready_list) = {t \in Thread : status[t] = "READY"}
  /\ \A t \in AllThread : status[t] = "RUNNING" <=> t = running

(* Each sleeping thread is in sleep_list once and is blocked, so the        *)
(* thread_unblock in timer_interrupt cannot fail its assertion.             *)
SleepersBlocked ==
  /\ \A i, j \in DOMAIN sleep_list : sleep_list[i].t = sleep_list[j].t => i = j
  /\ \A i \in DOMAIN sleep_list : status[sleep_list[i].t] = "BLOCKED"

(* Outside the interrupt handler no ready thread has a higher priority than *)
(* the running one: thread_set_priority, timer_interrupt and every switch   *)
(* keep the CPU with a thread of the highest priority.                      *)
StrictPriority ==
  ~ in_external_intr =>
    \A i \in DOMAIN ready_list : priority[ready_list[i]] <= priority[running]

(* When the timer interrupt returns, no sleeper that is due is left behind: *)
(* the loop may stop at the first entry because sleep_list is sorted.       *)
WokenOnTime ==
  [][in_external_intr /\ ~ in_external_intr'
       => \A i \in DOMAIN sleep_list : sleep_list[i].left > 0]_threadVars

EarliestFirst(l) == \A i, j \in DOMAIN l : i < j => l[i].left <= l[j].left

(* The inductive invariant that StrictPriority and WokenOnTime rest on.     *)
(* list_insert_ordered keeps both lists sorted in timer_sleep, thread_yield *)
(* and thread_unblock, no thread has a donation, and a ready thread has a   *)
(* higher priority than the running one only while timer_interrupt's        *)
(* handler has yet to return and will yield.                                *)
ThreadsInv ==
  /\ ThreadsTypeOK
  /\ RunQueueConsistent
  /\ SleepersBlocked
  /\ Sorted(ready_list, priority)
  /\ EarliestFirst(sleep_list)
  /\ donate_priority = [t \in AllThread |-> {}]
  /\ \/ in_external_intr /\ yield_on_return
     \/ \A t \in Range(ready_list) : priority[t] <= priority[running]

(* Every call of timer_sleep ends: the sleeper is unblocked.                *)
SleepersWake ==
  \A t \in Thread :
    (\E i \in DOMAIN sleep_list : sleep_list[i].t = t) ~> (status[t] = "READY")

(* Round robin: a ready thread of the highest priority gets the CPU, since  *)
(* the run queue is first-in-first-out among equals and a slice ends.       *)
TopPriorityRuns ==
  \A t \in Thread :
    (status[t] = "READY" /\ priority[t] = PRI_MAX) ~> (running = t)

-----------------------------------------------------------------------------
Interrupt == TimerInterrupt \/ WakeSleeper \/ InterruptReturn

ThreadsNext ==
  \/ Yield
  \/ \E p \in Priority : thread_set_priority(p)
  \/ \E n \in Naps : timer_sleep(n)
  \/ thread_exit
  \/ IdleBlock
  \/ Interrupt

ThreadsSpec == ThreadsInit /\ [][ThreadsNext]_threadVars

(* The CPU runs the thread it is given, and the 8254 keeps ticking.         *)
ThreadsFairSpec ==
  /\ ThreadsSpec
  /\ WF_threadVars(TimerInterrupt)
  /\ WF_threadVars(WakeSleeper \/ InterruptReturn)
  /\ WF_threadVars(IdleBlock)
==============================================================================
