------------------------------- MODULE Console -------------------------------
(***************************************************************************)
(* The console (lib/kernel/console.c) and the kernel panic                 *)
(* (lib/kernel/debug.c), used by threads, by internal interrupts on top of *)
(* a thread and by handlers of external interrupts.  A character on its    *)
(* way to the serial port and the screen is one step: both drivers turn    *)
(* interrupts off.  console_lock is a lock as Mutex describes it, with the *)
(* threads that wait for it.                                               *)
(***************************************************************************)
EXTENDS Interrupts

CONSTANTS
  NULL,
  how,         \* what shutdown_configure set: SHUTDOWN_NONE, _POWER_OFF or _REBOOT
  MaxLevel     \* bound: panics counted

VARIABLES
  console_lock,          \* its holder
  use_console_lock, console_lock_depth,
  level                  \* panics so far

consoleVars == <<console_lock, use_console_lock, console_lock_depth>>
vars == <<cpuVars, todo, intrVars, consoleVars, level>>

(* main has run console_init; interrupts are on and the threads exist.      *)
Init ==
  /\ InterruptsInit
  /\ console_lock = NULL
  /\ use_console_lock = TRUE
  /\ console_lock_depth = 0
  /\ level = 0

-----------------------------------------------------------------------------
(* The console lock.                                                       *)

UsesLock == ~intr_context /\ use_console_lock

(* lock_acquire: sema_down keeps interrupts off until it has the lock, also *)
(* in a thread that has just been woken.                                    *)
lock_acquire ==
  \/ /\ console_lock = NULL
     /\ console_lock' = cur
     /\ IF_' = TRUE
     /\ Then(Rest)
     /\ UNCHANGED <<cur, waiting>>
  \/ /\ console_lock # NULL
     /\ waiting' = waiting \cup {cur}
     /\ SwitchFrom(Ready)
     /\ UNCHANGED <<todo, console_lock>>

(* lock_release wakes a waiting thread and may yield to it.                 *)
lock_release ==
  /\ console_lock' = NULL
  /\ \/ waiting = {} /\ Then(Rest) /\ UNCHANGED cpuVars
     \/ \E w \in waiting :
          /\ waiting' = waiting \ {w}
          /\ \/ Then(Rest) /\ UNCHANGED <<cur, IF_>>
             \/ Then(Op(<<"enable">>) \o Rest) /\ SwitchFrom({w})

\* Mutant: the handler of an external interrupt takes the lock as well.
acquire_console_Always ==
  /\ Does("acquire")
  /\ IF use_console_lock
     THEN IF console_lock = cur
          THEN console_lock_depth' = console_lock_depth + 1 /\ Then(Rest) /\ UNCHANGED <<cpuVars, console_lock>>
          ELSE lock_acquire /\ UNCHANGED console_lock_depth
     ELSE Then(Rest) /\ UNCHANGED <<cpuVars, console_lock, console_lock_depth>>
  /\ UNCHANGED <<intrVars, use_console_lock, level>>

acquire_console ==
  /\ Does("acquire")
  /\ \/ /\ ~UsesLock
        /\ Then(Rest)
        /\ UNCHANGED <<cpuVars, console_lock, console_lock_depth>>
     \/ /\ UsesLock /\ console_lock = cur
        /\ console_lock_depth' = console_lock_depth + 1
        /\ Then(Rest)
        /\ UNCHANGED <<cpuVars, console_lock>>
     \/ /\ UsesLock /\ console_lock # cur
        /\ lock_acquire
        /\ UNCHANGED console_lock_depth
  /\ UNCHANGED <<intrVars, use_console_lock, level>>

\* Mutant: the lock is released at every level of nesting.
release_console_Flat ==
  /\ Does("release")
  /\ IF UsesLock THEN lock_release ELSE Then(Rest) /\ UNCHANGED <<cpuVars, console_lock>>
  /\ UNCHANGED <<console_lock_depth, intrVars, use_console_lock, level>>

release_console ==
  /\ Does("release")
  /\ \/ /\ ~UsesLock
        /\ Then(Rest)
        /\ UNCHANGED <<cpuVars, console_lock, console_lock_depth>>
     \/ /\ UsesLock /\ console_lock_depth > 0
        /\ console_lock_depth' = console_lock_depth - 1
        /\ Then(Rest)
        /\ UNCHANGED <<cpuVars, console_lock>>
     \/ /\ UsesLock /\ console_lock_depth = 0
        /\ lock_release
        /\ UNCHANGED console_lock_depth
  /\ UNCHANGED <<intrVars, use_console_lock, level>>

console_locked_by_current_thread == ~UsesLock \/ console_lock = cur

\* putchar_have_lock, with its assertion.
putchar_have_lock ==
  /\ Does("put")
  /\ Then(IF console_locked_by_current_thread THEN Rest ELSE Op(<<"panic">>) \o todo[cur])
  /\ UNCHANGED <<cpuVars, intrVars, consoleVars, level>>

\* printf, puts, putbuf or putchar, called by a kernel thread.
Printing ==
  /\ IF_ /\ todo[cur] = <<>>
  /\ Then(Op(Printf))
  /\ UNCHANGED <<cpuVars, intrVars, consoleVars, level>>

-----------------------------------------------------------------------------
(* Panics.                                                                 *)

print_stats == Printf

(* shutdown as configured; filesys_done, which FileSys models, is left out. *)
shutdown ==
  CASE how = "SHUTDOWN_POWER_OFF" -> print_stats \o Printf \o <<"off">>
    [] how = "SHUTDOWN_REBOOT"    -> Printf \o <<"off">>
    [] how = "SHUTDOWN_NONE"      -> <<"off">>

debug_backtrace == Printf

\* Mutant: every panic prints its message.
PanicBody_Always(n) == Printf \o Printf \o debug_backtrace \o shutdown

PanicBody(n) ==
  (CASE n = 1 -> Printf \o Printf \o debug_backtrace
     [] n = 2 -> Printf
     [] OTHER -> <<>>)
  \o shutdown

(* debug_panic does not return, so nothing else of the thread remains.      *)
debug_panic ==
  /\ Does("panic")
  /\ IF_' = FALSE
  /\ use_console_lock' = FALSE
  /\ level' = Min({level + 1, MaxLevel})
  /\ Then(Op(PanicBody(level')))
  /\ UNCHANGED <<cur, waiting, intrVars, console_lock, console_lock_depth>>

(* An assertion fails in the code that prints, before a panic or in one.    *)
AssertionFails ==
  /\ Does("put")
  /\ Then(Op(<<"panic">>) \o todo[cur])
  /\ UNCHANGED <<cpuVars, intrVars, consoleVars, level>>

(* The kernel faults while it prints: the page fault prints on top of it.   *)
KernelFault ==
  /\ Does("put") /\ level = 0
  /\ "panic" \notin {todo[cur][i][1] : i \in DOMAIN todo[cur]}
  /\ InternalInterrupt(14, FALSE)
  /\ UNCHANGED <<consoleVars, level>>

(* thread_exit: the thread is gone, and its place taken by a new one.       *)
thread_exit ==
  /\ Does("exit")
  /\ Then(Op(<<"enable">>))
  /\ thread_yield
  /\ UNCHANGED <<intrVars, consoleVars, level>>

Halted == Does("off")

\* The machine is off, or the processor in the loop for (;;).
Off == Halted /\ UNCHANGED vars

-----------------------------------------------------------------------------
CpuStep ==
  \/ (intr_enable \/ CallHandler \/ FinishExternal \/ IntrExit) /\ UNCHANGED <<consoleVars, level>>
  \/ acquire_console \/ putchar_have_lock \/ release_console
  \/ debug_panic \/ thread_exit

Next ==
  \/ CpuStep
  \/ (Yield \/ UserTrap) /\ UNCHANGED <<consoleVars, level>>
  \/ Printing
  \/ AssertionFails \/ KernelFault \/ Off
  \/ \E line \in Line : ExternalInterrupt(line) /\ UNCHANGED <<consoleVars, level>>
  \/ \E line \in {7, 15} : SpuriousInterrupt(line) /\ UNCHANGED <<consoleVars, level>>

(* The processor goes on with what it is doing.                             *)
Spec == Init /\ [][Next]_vars /\ WF_vars(CpuStep)

-----------------------------------------------------------------------------
Names(t) == [i \in DOMAIN todo[t] |-> todo[t][i][1]]
Count(t, name) == Cardinality({i \in DOMAIN todo[t] : Names(t)[i] = name})

(* Whenever interrupts are on, every interrupt has been acknowledged at     *)
(* both controllers, so that none of the lines is blocked, and the kernel   *)
(* is not in interrupt context: intr_handler acknowledges before it yields, *)
(* and a spurious interrupt leaves nothing in service.                      *)
InterruptsAcknowledged ==
  IF_ => pic.master = {} /\ pic.slave = {} /\ ~in_external_intr

(* intr_context() tells the truth until the kernel panics: it holds exactly *)
(* while the running thread is in the handler of an external interrupt.  No *)
(* thread is switched out in such a handler, nor do the handlers nest.      *)
HandlersNeverSleep ==
  level = 0 => \A t \in Thread : Count(t, "finish") = (IF t = cur /\ in_external_intr THEN 1 ELSE 0)

(* The calls of a thread that print and have passed acquire_console: each   *)
(* has its release_console to do and no acquire_console before it.  Those   *)
(* of the handler of an external interrupt come before "finish".            *)
OpenCalls(t) ==
  LET ops == Names(t)
      from == IF Count(t, "finish") = 0 THEN 0 ELSE Max({i \in DOMAIN ops : ops[i] = "finish"})
  IN  Cardinality({i \in DOMAIN ops : i > from /\ ops[i] = "release"})
      - Cardinality({i \in DOMAIN ops : i > from /\ ops[i] = "acquire"})

(* Until the kernel panics the console belongs to the one thread that has   *)
(* begun to print and not finished, however deep its calls are nested:      *)
(* release_console gives the lock back with the outermost call and never    *)
(* before, so that the lines of two threads do not mix.                     *)
ConsoleExclusive ==
  level = 0 =>
    \A t \in Thread :
      OpenCalls(t) = (IF t = console_lock THEN console_lock_depth + 1 ELSE 0)

(* A panic ends with the machine stopped, even if assertions fail again and *)
(* again in the code that prints its message: debug_panic says less each    *)
(* time.                                                                    *)
PanicHalts == level > 0 ~> Halted
=============================================================================
