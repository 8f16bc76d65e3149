-------------------------------- MODULE Mlfqs --------------------------------
(***************************************************************************)
(* The multi-level feedback queue scheduler (thread_mlfqs true): the       *)
(* scheduler of Threads with priorities that timer_interrupt computes from *)
(* the CPU time a thread has used, its niceness and the load.  Fractions   *)
(* are fixed point numbers (threads/fixed-point.h) of FP_Q bits.           *)
(***************************************************************************)
EXTENDS Threads

CONSTANTS
  FP_F,         \* 1 << 14 in fixed-point.h
  TIMER_FREQ,   \* ticks in a second; 100 in timer.h
  RECALC,       \* ticks between two computations of the priorities; 4 in timer.c
  SHARE,        \* weight of the past in load_avg: SHARE - 1 of SHARE; 60 in thread.c
  Nice          \* the arguments passed to thread_set_nice

ASSUME MlfqsAssumption ==
  /\ FP_F \in Nat \ {0} /\ TIMER_FREQ \in Nat \ {0} /\ RECALC \in Nat \ {0} /\ SHARE \in Nat \ {0}
  /\ Nice \subseteq Int

VARIABLES
  ticks,                     \* modulo RECALC * TIMER_FREQ
  load_avg, nice, recent_cpu

mlfqsVars == <<ticks, load_avg, nice, recent_cpu>>
allVars == <<threadVars, mlfqsVars>>

-----------------------------------------------------------------------------
(* fixed-point.h.  Division is that of C, towards zero.                    *)

Quotient(a, b) == IF a >= 0 THEN a \div b ELSE -((-a) \div b)

FP_FROM_INT(n) == n * FP_F
FP_TO_INT_TRUNC(x) == Quotient(x, FP_F)
FP_ADD_INT(x, n) == x + n * FP_F
FP_MUL(x, y) == Quotient(x * y, FP_F)
FP_DIV(x, y) == Quotient(x * FP_F, y)
FP_DIV_INT(x, n) == Quotient(x, n)

-----------------------------------------------------------------------------
Clamp(p) == Max({PRI_MIN, Min({p, PRI_MAX})})

thread_priority_calc_mlfqs(recent, n) ==
  Clamp(FP_TO_INT_TRUNC(FP_FROM_INT(PRI_MAX) - FP_DIV_INT(recent, 4) - FP_FROM_INT(n * 2)))

\* Mutant: the past is not forgotten.
Decay_Not(load) == FP_FROM_INT(1)

\* The coefficient of recent_cpu.
Decay(load) == FP_DIV(load * 2, FP_ADD_INT(load * 2, 1))

thread_recent_cpu_calc_mlfqs(load, recent, n) == FP_ADD_INT(FP_MUL(Decay(load), recent), n)

load_avg_calc_mlfqs ==
  LET ready_threads == Len(ready_list) + (IF running = Idle THEN 0 ELSE 1)
  IN  FP_DIV_INT(FP_ADD_INT(load_avg * (SHARE - 1), ready_threads), SHARE)

(* thread_set_nice.                                                         *)
thread_set_nice(n) ==
  /\ AtRun("set_nice")
  /\ nice' = [nice EXCEPT ![running] = n]
  /\ priority' = [priority EXCEPT ![running] = thread_priority_calc_mlfqs(recent_cpu[running], n)]
  /\ IF ready_list # <<>> /\ priority[Head(ready_list)] > priority'[running]
     THEN thread_yield(ready_list, status, priority')
     ELSE UNCHANGED schedVars
  /\ UNCHANGED <<pc, sleep_list, base_priority, donate_priority, waiting_lock, intrVars,
                 ticks, load_avg, recent_cpu>>

(* timer_interrupt up to its loop.                                          *)
MlfqsInterrupt ==
  /\ TimerInterrupt
  /\ ticks' = (ticks + 1) % (RECALC * TIMER_FREQ)
  /\ UNCHANGED <<load_avg, nice, recent_cpu>>

\* Mutant: a remainder that never occurs.
RecalcDue_Never == ticks % RECALC = RECALC

RecalcDue == ticks % RECALC = 0

(* The rest of timer_interrupt after its loop: the running thread has used  *)
(* a tick; once a second the load and the CPU times decay; every RECALC     *)
(* ticks all priorities are computed.  ready_list stays as it is.  Then     *)
(* thread_tick and the return of intr_handler.  The idle thread and the     *)
(* threads that have exited (not in all_list) keep their values.            *)
MlfqsReturn ==
  /\ in_external_intr
  /\ ~ SleeperDue
  /\ in_external_intr' = FALSE
  /\ yield_on_return' = FALSE
  /\ LET used == IF running = Idle THEN recent_cpu ELSE [recent_cpu EXCEPT ![running] = FP_ADD_INT(@, 1)]
         live == {t \in Thread : status[t] # "FREE"}
         second == ticks % TIMER_FREQ = 0
     IN  /\ load_avg' = IF second THEN load_avg_calc_mlfqs ELSE load_avg
         /\ recent_cpu' = [t \in Thread |-> IF second /\ t \in live
                             THEN thread_recent_cpu_calc_mlfqs(load_avg', used[t], nice[t]) ELSE used[t]]
         /\ priority' = [t \in AllThread |-> IF RecalcDue /\ t \in live
                           THEN thread_priority_calc_mlfqs(recent_cpu'[t], nice[t]) ELSE priority[t]]
  /\ IF yield_on_return \/ SliceEnds
     THEN thread_yield(ready_list, status, priority')
     ELSE thread_ticks' = thread_ticks + 1 /\ UNCHANGED <<running, status, ready_list>>
  /\ pc' = IF running = Idle THEN [pc EXCEPT ![Idle] = "loop"] ELSE pc
  /\ UNCHANGED <<sleep_list, base_priority, donate_priority, waiting_lock, nice, ticks>>

MlfqsInit ==
  /\ ThreadsInit
  /\ ticks = 0
  /\ load_avg = 0
  /\ nice = [t \in Thread |-> 0]
  /\ recent_cpu = [t \in Thread |-> 0]

MlfqsNext ==
  \/ (Yield \/ (\E n \in Naps : timer_sleep(n)) \/ IdleBlock \/ WakeSleeper) /\ UNCHANGED mlfqsVars
  \/ thread_exit /\ UNCHANGED mlfqsVars
  \/ \E n \in Nice : thread_set_nice(n)
  \/ MlfqsInterrupt
  \/ MlfqsReturn

MlfqsSpec ==
  /\ MlfqsInit /\ [][MlfqsNext]_allVars
  /\ WF_allVars(MlfqsInterrupt)
  /\ WF_allVars((WakeSleeper /\ UNCHANGED mlfqsVars) \/ MlfqsReturn)
  /\ WF_allVars(IdleBlock /\ UNCHANGED mlfqsVars)

-----------------------------------------------------------------------------
MaxNice == Max(Nice \cup {0})

(* The load is at most the number of threads, and the CPU time a thread is  *)
(* charged with stays below what a thread that never stops is charged at    *)
(* that load: the decay of thread_recent_cpu_calc_mlfqs outweighs what a    *)
(* second adds.  Without it the sums of fixed-point.h would leave an int.   *)
UsageBounded ==
  LET n == Cardinality(Thread) IN
  /\ load_avg \in 0..FP_FROM_INT(n)
  /\ \A t \in Thread :
       recent_cpu[t] <= FP_FROM_INT((TIMER_FREQ + MaxNice) * (2 * n + 1) + TIMER_FREQ)

(* No starvation: as long as all threads are equally nice, every ready      *)
(* thread gets the CPU in the end, whatever priority it started from.       *)
ReadyThreadRuns ==
  [](\A t \in Thread : nice[t] = 0) => \A t \in Thread : status[t] = "READY" ~> running = t
=============================================================================
