------------------------------- MODULE Process -------------------------------
(***************************************************************************)
(* User processes (userprog/process.c) with their page directories         *)
(* (userprog/pagedir.c), the life of their threads (thread_create and      *)
(* thread_exit in threads/thread.c) and the ways they end                  *)
(* (userprog/exception.c, userprog/syscall.c).                             *)
(*                                                                         *)
(* MAIN starts processes one after the other without waiting for them.     *)
(* The scheduler may switch after every step; a step is a stretch between  *)
(* two calls of the page allocator, any of which may find no page.  Page 0 *)
(* stands for a null pointer and, in CR3, for init_page_dir.  Addresses    *)
(* count modulo AddrMod, a program is the list of its program headers.     *)
(***************************************************************************)
EXTENDS Integers, Sequences, FiniteSets, FiniteSetsExt

CONSTANTS
  Proc,                  \* threads that run processes
  MAIN,
  KernelPages, UserPages,   \* pages in the two pools
  PGSIZE, PHYS_BASE, AddrMod,
  PtPages,               \* pages mapped by one page table
  Program                \* executables: sequences of program headers

VARIABLES
  kernel_used, user_used,   \* pages in use
  main,                  \* the process_execute that MAIN is in
  proc,                  \* struct thread, page directory and progress of each process
  cur,                   \* the running thread
  cr3, esp0              \* active page directory; whose kernel stack the TSS names

poolVars == <<kernel_used, user_used>>
cpuVars == <<cur, cr3, esp0>>
procVars == <<poolVars, main, proc, cpuVars>>

VPage == 0 .. (PHYS_BASE \div PGSIZE) - 1
Tables == {v \div PtPages : v \in VPage}

NoThread ==
  [pc |-> "none", page |-> 0, file_name |-> 0, exe |-> <<>>, prog |-> <<>>, pagedir |-> 0, pd |-> 0,
   pt |-> [i \in Tables |-> 0], pte |-> [v \in VPage |-> 0],
   upage |-> 0, left |-> 0, kpage |-> 0, success |-> FALSE]

NoExec == [pc |-> "idle", fn_copy |-> 0, t |-> MAIN, page |-> 0]

(* palloc_get_page returns the first free page of its pool.                 *)
KernelFree == (1 .. KernelPages) \ kernel_used
UserFree == (1 .. UserPages) \ user_used
KernelPage == Min(KernelFree)
UserPage == Min(UserFree)

-----------------------------------------------------------------------------
(* The CPU.                                                                *)

Runnable == {MAIN} \cup {p \in Proc : proc[p].pc \notin {"none", "blocked"}}

Pagedir(t) == IF t = MAIN THEN 0 ELSE proc[t].pagedir

pagedir_activate(pd) == cr3' = pd
tss_update(t) == esp0' = t
process_activate(t) == pagedir_activate(Pagedir(t)) /\ tss_update(t)

(* A context switch between two steps.                                      *)
Switch ==
  /\ cur' \in Runnable \ {cur}
  /\ process_activate(cur')
  /\ UNCHANGED <<poolVars, main, proc>>

-----------------------------------------------------------------------------
(* process_execute and thread_create.                                      *)

MainRuns(pc) == cur = MAIN /\ main.pc = pc

CopyName ==
  /\ MainRuns("idle") /\ KernelFree # {}
  /\ kernel_used' = kernel_used \cup {KernelPage}
  /\ main' = [NoExec EXCEPT !.pc = "create", !.fn_copy = KernelPage]
  /\ UNCHANGED <<user_used, proc, cpuVars>>

FreedCopy == kernel_used \ {main.fn_copy}

(* A new thread gets its page, or process_execute frees the copy it made.   *)
thread_create ==
  /\ MainRuns("create")
  /\ \/ /\ KernelFree = {}
        /\ kernel_used' = FreedCopy
        /\ main' = NoExec /\ UNCHANGED proc
     \/ \E p \in Proc, prog \in Program :
          /\ KernelFree # {} /\ proc[p].pc = "none"
          /\ kernel_used' = kernel_used \cup {KernelPage}
          /\ proc' = [proc EXCEPT ![p] =
               [NoThread EXCEPT !.pc = "blocked", !.page = KernelPage,
                                !.file_name = main.fn_copy, !.exe = prog, !.prog = prog]]
          /\ main' = [NoExec EXCEPT !.pc = "unblock", !.t = p, !.page = KernelPage]
  /\ UNCHANGED <<user_used, cpuVars>>

thread_unblock ==
  /\ MainRuns("unblock")
  /\ proc' = [proc EXCEPT ![main.t].pc = "load"]
  /\ main' = [main EXCEPT !.pc = "created"]
  /\ UNCHANGED <<poolVars, cpuVars>>

(* The priority of the new thread is looked at once more, and the tid       *)
(* returned.                                                                *)
Created ==
  /\ MainRuns("created")
  /\ main' = NoExec
  /\ UNCHANGED <<poolVars, proc, cpuVars>>

-----------------------------------------------------------------------------
(* load.                                                                   *)

Runs(p, pc) == cur = p /\ proc[p].pc = pc

Goto(p, pc) == proc' = [proc EXCEPT ![p].pc = pc]

pagedir_create(p) ==
  /\ Runs(p, "load")
  /\ IF KernelFree = {} THEN Goto(p, "done") /\ UNCHANGED kernel_used
     ELSE /\ proc' = [proc EXCEPT ![p].pagedir = KernelPage, ![p].pc = "activate"]
          /\ kernel_used' = kernel_used \cup {KernelPage}
  /\ UNCHANGED <<user_used, main, cpuVars>>

Activate(p) ==
  /\ Runs(p, "activate")
  /\ process_activate(p)
  /\ Goto(p, "open")
  /\ UNCHANGED <<poolVars, main, cur>>

(* The file cannot be opened or has a bad header, or headers follow.        *)
Open(p) ==
  /\ Runs(p, "open")
  /\ Goto(p, "done") \/ Goto(p, "segment")
  /\ UNCHANGED <<poolVars, main, cpuVars>>

ROUND_UP(x, step) == ((x + step - 1) \div step) * step

is_user_vaddr(a) == a < PHYS_BASE

(* ALIGNED: same offset in page and file, and a start within the file.      *)
validate_segment(ph) ==
  LET end == (ph.vaddr + ph.memsz) % AddrMod
  IN  /\ ph.aligned
      /\ ph.memsz >= ph.filesz /\ ph.memsz > 0
      /\ is_user_vaddr(ph.vaddr) /\ is_user_vaddr(end)
      /\ end >= ph.vaddr
      /\ ph.vaddr >= PGSIZE

SegmentPages_NoOffset(ph) == ROUND_UP(ph.memsz, PGSIZE) \div PGSIZE

(* READ_BYTES + ZERO_BYTES, in pages.                                       *)
SegmentPages(ph) == ROUND_UP((ph.vaddr % PGSIZE) + ph.memsz, PGSIZE) \div PGSIZE

(* The next program header: PT_LOAD maps pages, some types end the load,    *)
(* the others are skipped; after the last comes the stack.                  *)
NextHeader(p) ==
  LET ph == Head(proc[p].prog)
  IN  /\ Runs(p, "segment")
      /\ CASE proc[p].prog = <<>> ->
              proc' = [proc EXCEPT ![p].upage = PHYS_BASE \div PGSIZE - 1,
                         ![p].left = 1, ![p].pc = "stack"]
           [] proc[p].prog # <<>> /\ ph.type = "load" /\ validate_segment(ph) ->
              proc' = [proc EXCEPT ![p].upage = ph.vaddr \div PGSIZE, ![p].prog = Tail(@),
                         ![p].left = SegmentPages(ph), ![p].pc = "page"]
           [] proc[p].prog # <<>> /\ ph.type = "ignored" ->
              proc' = [proc EXCEPT ![p].prog = Tail(@)]
           [] OTHER -> Goto(p, "done")
      /\ UNCHANGED <<poolVars, main, cpuVars>>

GetUserPage(p) ==
  /\ Runs(p, "page") \/ Runs(p, "stack")
  /\ IF UserFree = {} THEN Goto(p, "done") /\ UNCHANGED user_used
     ELSE /\ proc' = [proc EXCEPT ![p].kpage = UserPage, ![p].success = Runs(p, "stack"),
                        ![p].pc = IF Runs(p, "stack") THEN "install" ELSE "read"]
          /\ user_used' = user_used \cup {UserPage}
  /\ UNCHANGED <<kernel_used, main, cpuVars>>

FreedPage_Kept(p) == user_used
FreedPage(p) == user_used \ {proc[p].kpage}

GiveUp(p) ==
  /\ user_used' = FreedPage(p)
  /\ proc' = [proc EXCEPT ![p].kpage = 0, ![p].success = FALSE, ![p].pc = "done"]
  /\ UNCHANGED kernel_used

(* The page is filled from the file, unless the file is too short.          *)
ReadPage(p) ==
  /\ Runs(p, "read")
  /\ GiveUp(p) \/ (Goto(p, "install") /\ UNCHANGED poolVars)
  /\ UNCHANGED <<main, cpuVars>>

pagedir_get_page(p, v) == proc[p].pte[v]

(* The page table of a page is there, or a page can be had for it.          *)
lookup_page(p, v) == proc[p].pt[v \div PtPages] # 0 \/ KernelFree # {}

(* Maps the user page, in a new page table if need be, and goes on with the *)
(* next page, the next header or the end.                                   *)
pagedir_set_page(p) ==
  LET r == proc[p]
      i == r.upage \div PtPages
      next == IF r.left > 1 THEN "page" ELSE IF r.success THEN "done" ELSE "segment"
  IN  /\ lookup_page(p, r.upage)
      /\ kernel_used' = IF r.pt[i] = 0 THEN kernel_used \cup {KernelPage} ELSE kernel_used
      /\ proc' = [proc EXCEPT ![p].pt[i] = IF @ = 0 THEN KernelPage ELSE @,
                    ![p].pte[r.upage] = r.kpage, ![p].kpage = 0,
                    ![p].upage = @ + 1, ![p].left = @ - 1, ![p].pc = next]
      /\ UNCHANGED user_used

(* Fails if the page is mapped or no page table can be had; the user page   *)
(* is then freed.                                                           *)
install_page(p) ==
  LET v == proc[p].upage
  IN  /\ Runs(p, "install")
      /\ IF pagedir_get_page(p, v) = 0 /\ lookup_page(p, v)
         THEN pagedir_set_page(p) ELSE GiveUp(p)
      /\ UNCHANGED <<main, cpuVars>>

(* The end of load and of start_process: the name is freed, and the process *)
(* runs user code or exits.                                                 *)
Loaded(p) ==
  /\ Runs(p, "done")
  /\ kernel_used' = kernel_used \ {proc[p].file_name}
  /\ proc' = [proc EXCEPT ![p].file_name = 0, ![p].upage = 0, ![p].left = 0, ![p].prog = <<>>,
                          ![p].pc = IF proc[p].success THEN "user" ELSE "exit"]
  /\ UNCHANGED <<user_used, main, cpuVars>>

-----------------------------------------------------------------------------
(* The end of a process.                                                   *)

(* An exception in user code, a page fault or a system call: the handlers   *)
(* all end in thread_exit.                                                  *)
kill(p) == Goto(p, "exit")
page_fault(p) == kill(p)
syscall_handler(p) == Goto(p, "exit")

Trap(p) ==
  /\ Runs(p, "user")
  /\ kill(p) \/ page_fault(p) \/ syscall_handler(p)
  /\ UNCHANGED <<poolVars, main, cpuVars>>

process_exit(p) ==
  /\ Runs(p, "exit")
  /\ proc' = [proc EXCEPT ![p].pd = proc[p].pagedir, ![p].pagedir = 0,
                ![p].pc = IF proc[p].pagedir = 0 THEN "die" ELSE "leave"]
  /\ UNCHANGED <<poolVars, main, cpuVars>>

LeavePagedir_Not(p) ==
  /\ Runs(p, "leave")
  /\ Goto(p, "destroy")
  /\ UNCHANGED <<poolVars, main, cpuVars>>

LeavePagedir(p) ==
  /\ Runs(p, "leave")
  /\ pagedir_activate(0)
  /\ Goto(p, "destroy")
  /\ UNCHANGED <<poolVars, main, cur, esp0>>

Mapped(p, i) == {v \in VPage : v \div PtPages = i /\ proc[p].pte[v] # 0}

(* The first page table, its pages before itself, and the directory last.   *)
pagedir_destroy(p) ==
  LET r == proc[p]
      pts == {i \in Tables : r.pt[i] # 0}
      i == Min(pts)
      v == Min(Mapped(p, i))
  IN  /\ Runs(p, "destroy")
      /\ CASE pts = {} ->
              /\ kernel_used' = kernel_used \ {r.pd}
              /\ proc' = [proc EXCEPT ![p].pd = 0, ![p].pc = "die"]
              /\ UNCHANGED user_used
           [] pts # {} /\ Mapped(p, i) # {} ->
              /\ user_used' = user_used \ {r.pte[v]}
              /\ proc' = [proc EXCEPT ![p].pte[v] = 0]
              /\ UNCHANGED kernel_used
           [] OTHER ->
              /\ kernel_used' = kernel_used \ {r.pt[i]}
              /\ proc' = [proc EXCEPT ![p].pt[i] = 0]
              /\ UNCHANGED user_used
      /\ UNCHANGED <<main, cpuVars>>

(* schedule with interrupts off: the next thread frees the dying one's page *)
(* in thread_schedule_tail.                                                 *)
thread_exit(p) ==
  /\ Runs(p, "die")
  /\ cur' \in Runnable \ {p}
  /\ process_activate(cur')
  /\ kernel_used' = kernel_used \ {proc[p].page}
  /\ proc' = [proc EXCEPT ![p] = NoThread]
  /\ UNCHANGED <<user_used, main>>

-----------------------------------------------------------------------------
ProcInit ==
  /\ kernel_used = {} /\ user_used = {}
  /\ main = NoExec
  /\ proc = [p \in Proc |-> NoThread]
  /\ cur = MAIN /\ cr3 = 0 /\ esp0 = MAIN

ProcNext ==
  \/ Switch \/ CopyName \/ thread_create \/ thread_unblock \/ Created
  \/ \E p \in Proc :
       \/ pagedir_create(p) \/ Activate(p) \/ Open(p) \/ NextHeader(p) \/ GetUserPage(p)
       \/ ReadPage(p) \/ install_page(p) \/ Loaded(p) \/ Trap(p) \/ process_exit(p) \/ LeavePagedir(p)
       \/ pagedir_destroy(p) \/ thread_exit(p)

ProcSpec == ProcInit /\ [][ProcNext]_procVars

-----------------------------------------------------------------------------
(* Properties.                                                             *)

(* The places that refer to a kernel page, and those that refer to a user  *)
(* page.                                                                   *)
KernelRefs ==
  {<<"fn_copy", MAIN, 0, main.fn_copy>>}
  \cup UNION {{<<"thread", p, 0, proc[p].page>>, <<"file_name", p, 0, proc[p].file_name>>,
               <<"pagedir", p, 0, proc[p].pagedir>>, <<"pd", p, 0, proc[p].pd>>}
              \cup {<<"pt", p, i, proc[p].pt[i]>> : i \in Tables} : p \in Proc}
UserRefs ==
  UNION {{<<"kpage", p, 0, proc[p].kpage>>} \cup {<<"pte", p, v, proc[p].pte[v]>> : v \in VPage}
         : p \in Proc}

Exactly(refs, used) ==
  LET held == {r \in refs : r[4] # 0}
  IN  {r[4] : r \in held} = used /\ Cardinality(held) = Cardinality(used)

(* Whatever allocation fails, and wherever the scheduler switches, every   *)
(* page in use has exactly one owner: nothing leaks, nothing is freed      *)
(* twice, and no two processes share a page.                               *)
PagesOwnedOnce == Exactly(KernelRefs, kernel_used) /\ Exactly(UserRefs, user_used)

(* The active page directory is never one that is being freed, and a       *)
(* process runs user code on its own directory and kernel stack ("Correct  *)
(* ordering here is crucial" in process_exit).                             *)
AddressSpaceLive ==
  /\ cr3 # 0 => \E p \in Proc :
       cr3 \in {proc[p].pagedir, proc[p].pd} /\ proc[p].pc \notin {"destroy", "die"}
  /\ cur \in Proc /\ proc[cur].pc = "user" => cr3 = proc[cur].pagedir /\ esp0 = cur

StackPage == PHYS_BASE \div PGSIZE - 1

Covers(ph, v) == ph.vaddr < (v + 1) * PGSIZE /\ v * PGSIZE < ph.vaddr + ph.memsz

(* A process that runs has exactly the pages of the loadable segments of   *)
(* its program mapped, and its stack; page 0 and kernel addresses never.   *)
SegmentsMapped ==
  \A p \in Proc : proc[p].pc = "user" =>
    {v \in VPage : proc[p].pte[v] # 0} = {StackPage} \cup
      {v \in VPage \ {0} : \E i \in DOMAIN proc[p].exe :
         proc[p].exe[i].type = "load" /\ Covers(proc[p].exe[i], v)}
==============================================================================
