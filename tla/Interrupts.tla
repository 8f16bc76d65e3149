----------------------------- MODULE Interrupts ------------------------------
(***************************************************************************)
(* The interrupt system (threads/interrupt.c, threads/intr-stubs.S): the   *)
(* two interrupt controllers, the gates of the descriptor table, and       *)
(* intr_handler, through which the hardware interrupts, the exceptions of  *)
(* userprog/exception.c and the system call of userprog/syscall.c arrive.  *)
(*                                                                         *)
(* todo[t] is what thread t has yet to do before it is back in its own     *)
(* code, the innermost call first: <<operation, vector>>.  An interrupt    *)
(* puts its handler in front.  The operations of printf and of a panic are *)
(* given their meaning in Console.                                         *)
(***************************************************************************)
EXTENDS Integers, Sequences, FiniteSets, FiniteSetsExt, SequencesExt

CONSTANTS
  Thread,
  Line,          \* the lines of the controllers that devices raise, of 0 .. 15
  Registered,    \* the lines with a handler (intr_register_ext)
  MaxUnexpected  \* bound: unexpected interrupts of a line

ASSUME LinesExist == Registered \subseteq Line /\ Line \subseteq 0 .. 15

VARIABLES
  cur,               \* the running thread
  waiting,           \* the blocked threads; the others are ready
  todo,
  IF_,               \* the interrupt flag of the CPU
  in_external_intr, yield_on_return,
  unexpected_cnt,
  pic                \* the lines in service at the master and at the slave

cpuVars == <<cur, waiting, IF_>>
intrVars == <<in_external_intr, yield_on_return, unexpected_cnt, pic>>

InterruptsInit ==
  /\ cur \in Thread
  /\ waiting = {}
  /\ todo = [t \in Thread |-> IF t = cur THEN <<>> ELSE <<<<"enable", 0>>>>]
  /\ IF_ = TRUE
  /\ in_external_intr = FALSE
  /\ yield_on_return = FALSE
  /\ unexpected_cnt = [i \in Line |-> 0]
  /\ pic = [master |-> {}, slave |-> {}]

-----------------------------------------------------------------------------
(* The controllers.  pic_init puts lines 0 to 15 at vectors 0x20 to 0x2f,  *)
(* the slave on line 2 of the master.                                      *)

CASCADE == 2
Vector(line) == 32 + line

(* A line is delivered when none of the same or a higher priority is in     *)
(* service.  A request that waits for that, or for the interrupt flag, is   *)
(* one that comes later.                                                    *)
Open(line, service) == \A s \in service : line < s

Deliverable(line) ==
  IF line < 8 THEN Open(line, pic.master)
  ELSE Open(CASCADE, pic.master) /\ Open(line, pic.slave)

InService(line) ==
  IF line < 8 THEN [pic EXCEPT !.master = @ \cup {line}]
  ELSE [pic EXCEPT !.master = @ \cup {CASCADE}, !.slave = @ \cup {line}]

\* An end-of-interrupt command ends the service of the highest priority.
Ended(service) == IF service = {} THEN {} ELSE service \ {Min(service)}

pic_end_of_interrupt_MasterOnly(vec) == pic' = [pic EXCEPT !.master = Ended(@)]

pic_end_of_interrupt(vec) ==
  pic' = [pic EXCEPT !.master = Ended(@), !.slave = IF vec >= 40 THEN Ended(@) ELSE @]

-----------------------------------------------------------------------------
(* The processor.                                                          *)

Next_(t) == Head(todo[t])
Does(op) == todo[cur] # <<>> /\ Next_(cur)[1] = op
Then(ops) == todo' = [todo EXCEPT ![cur] = ops]
Rest == Tail(todo[cur])
Op(names) == [i \in DOMAIN names |-> <<names[i], 0>>]

Ready == Thread \ (waiting \cup {cur})

(* schedule, with interrupts off: the next thread runs on from its own      *)
(* call of schedule.  Which one is for Threads to say; here it is any.      *)
SwitchFrom(candidates) ==
  /\ cur' \in candidates
  /\ IF_' = FALSE

thread_yield == SwitchFrom(Ready \cup {cur}) /\ UNCHANGED waiting

intr_context == in_external_intr

\* intr_enable: its assertion fails in the handler of an external interrupt.
intr_enable ==
  /\ Does("enable")
  /\ IF intr_context THEN Then(Op(<<"panic">>) \o todo[cur]) /\ UNCHANGED IF_
     ELSE Then(Rest) /\ IF_' = TRUE
  /\ UNCHANGED <<cur, waiting, intrVars>>

\* A thread that yields of its own accord.
Yield ==
  /\ IF_ /\ todo[cur] = <<>>
  /\ Then(Op(<<"enable">>))
  /\ thread_yield
  /\ UNCHANGED intrVars

-----------------------------------------------------------------------------
(* intr_handler.                                                           *)

Printf == <<"acquire", "put", "release">>

(* An external interrupt: the gate turns interrupts off.  The lines 7 and   *)
(* 15 also come without a request, and are then not in service, although    *)
(* the master takes the one of the slave for a request on line 2.           *)
ExternalEntry(line) ==
  /\ IF_' = FALSE
  /\ in_external_intr' = TRUE
  /\ yield_on_return' = FALSE
  /\ Then(<<<<"handler", line>>, <<"finish", Vector(line)>>, <<"iret", 0>>>> \o todo[cur])
  /\ UNCHANGED <<cur, waiting, unexpected_cnt>>

ExternalInterrupt(line) ==
  /\ IF_ /\ Deliverable(line)
  /\ unexpected_cnt[line] < MaxUnexpected
  /\ pic' = InService(line)
  /\ ExternalEntry(line)

SpuriousInterrupt(line) ==
  /\ IF_
  /\ pic' = [pic EXCEPT !.master = IF line = 15 THEN @ \cup {CASCADE} ELSE @]
  /\ ExternalEntry(line)

PowerOf2(n) == \E k \in 0 .. n : n = 2^k

(* The call of the handler.  A registered one may ask for a yield on return *)
(* (timer_interrupt, thread_tick); its other effects are its driver's.      *)
CallHandler ==
  /\ Does("handler")
  /\ LET line == Next_(cur)[2] IN
       \/ /\ line \in Registered
          /\ yield_on_return' \in BOOLEAN
          /\ Then(Rest)
          /\ UNCHANGED unexpected_cnt
       \/ /\ line \notin Registered /\ line \in {7, 15}
          /\ Then(Rest)
          /\ UNCHANGED <<yield_on_return, unexpected_cnt>>
       \/ /\ line \notin Registered /\ line \notin {7, 15}
          /\ unexpected_cnt' = [unexpected_cnt EXCEPT ![line] = @ + 1]
          /\ Then((IF PowerOf2(unexpected_cnt'[line]) THEN Op(Printf) ELSE <<>>) \o Rest)
          /\ UNCHANGED yield_on_return
  /\ UNCHANGED <<cpuVars, in_external_intr, pic>>

\* The end of intr_handler for an external interrupt.
FinishExternal ==
  /\ Does("finish")
  /\ in_external_intr' = FALSE
  /\ pic_end_of_interrupt(Next_(cur)[2])
  /\ Then(Rest)
  /\ IF yield_on_return THEN thread_yield ELSE UNCHANGED cpuVars
  /\ UNCHANGED <<yield_on_return, unexpected_cnt>>

\* intr_exit: the saved flags had interrupts on.
IntrExit ==
  /\ Does("iret")
  /\ Then(Rest)
  /\ IF_' = TRUE
  /\ UNCHANGED <<cur, waiting, intrVars>>

(* The internal interrupts, by vector: 14 is the page fault, 48 the system  *)
(* call, 0 stands for the other exceptions.  kill prints twice for a user   *)
(* process and ends it; in the kernel it prints once and panics.            *)
Internal == {0, 14, 48}
kill(user) == IF user THEN Printf \o Printf \o <<"exit">> ELSE Printf \o <<"panic">>
page_fault(user) == <<"enable">> \o Printf \o kill(user)
syscall_handler == Printf \o <<"exit">>

Handler(vec, user) ==
  CASE vec = 0  -> kill(user)
    [] vec = 14 -> page_fault(user)
    [] vec = 48 -> syscall_handler

\* exception_init and syscall_init: the level a handler starts with.
Level(vec) == IF vec = 14 THEN "INTR_OFF" ELSE "INTR_ON"

\* register_handler: an interrupt gate turns interrupts off, a trap gate does not.
GateFlag(vec) == IF_ /\ Level(vec) = "INTR_ON"

InternalInterrupt(vec, user) ==
  /\ IF_' = GateFlag(vec)
  /\ Then(Op(Handler(vec, user)) \o todo[cur])
  /\ UNCHANGED <<cur, waiting, intrVars>>

\* A user process makes a system call or causes an exception.
UserTrap ==
  /\ IF_ /\ todo[cur] = <<>>
  /\ \E vec \in Internal : InternalInterrupt(vec, TRUE)
=============================================================================
