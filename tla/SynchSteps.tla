----------------------------- MODULE SynchSteps ------------------------------
(* sema_down, sema_up, cond_signal, the attempts that do not block, and     *)
(* lock_acquire up to its loop keep the invariant of SynchFacts.            *)
EXTENDS SynchFacts

(* A thread calls sema_down on semaphore S, or returns to its loop.         *)
InDown(r, s, retry, done) ==
  /\ r = running /\ ~ in_external_intr
  /\ \/ /\ s \in Sema /\ retry = "sd_retry" /\ done = "run" /\ arg'[r] = s
        /\ pc[r] = "run" \/ (pc[r] = "sd_retry" /\ arg[r] = s)
     \/ /\ s \in Lock /\ retry = "la_retry" /\ done = "la_own" /\ arg'[r] = s /\ arg[r] = s
        /\ pc[r] \in {"la_down", "la_retry"}
     \/ /\ s = r /\ retry = "cw_retry" /\ done = "cw_acquire" /\ arg'[r] = arg[r]
        /\ pc[r] \in {"cw_down", "cw_retry"}
  /\ arg' \in [AllThread -> AllSema \cup Cond \cup {NULL}]
  /\ \A t \in Thread : t # r => arg'[t] = arg[t]
  /\ UNCHANGED <<holder, cond_waiters, ret, chain>>
  /\ UNCHANGED <<sleep_list, priorityVars, intrVars>>

(* What the callers of sema_down have in common.                            *)
LEMMA DownFacts ==
  ASSUME SynchInv, NEW r \in Thread, NEW s, NEW retry, NEW done, InDown(r, s, retry, done),
         NEW l, l = retry \/ l = done, Goto(l)
  PROVE  /\ s \in AllSema /\ pc' \in [AllThread -> Label]
         /\ pc'[r] = l /\ \A t \in AllThread : t # r => pc'[t] = pc[t]
         /\ OthersStay
         /\ Places'
         /\ ExactButChain'
         /\ \A u \in AllSema : WaitsFor(r, u) => u = s
<1>1. r \in AllThread /\ r # Idle /\ r \in AllSema
  BY InvFacts, Zenon
<1>3. /\ pc' \in [AllThread -> Label] /\ pc'[r] = l
      /\ \A t \in AllThread : t # r => pc'[t] = pc[t]
  BY <1>1, Zenon DEF Goto, InDown, SynchInv, SynchTypes, ThreadsTypeOK, Label
<1>4. OthersStay
  BY <1>3, InvFacts, Zenon DEF OthersStay, InDown
<1>5. ~ At("la_chain") /\ \A t \in Thread : pc[t] # "la_chain"
  BY Zenon DEF InDown, At, SynchInv, Places
<1>7. Places'
  <2>1. pc'[Idle] \in {"loop", "hlt"}
    BY <1>1, <1>3, Zenon DEF SynchInv, Places, AllThread
  <2>2. ASSUME NEW t \in Thread, t # r
        PROVE  pc'[t] = pc[t] /\ arg'[t] = arg[t] /\ ret'[t] = ret[t]
    BY <1>4, <2>2, Zenon DEF OthersStay, InDown
  <2>3. pc'[r] = "run" \/ pc'[r] = "sd_retry" => arg'[r] \in Sema
    BY <1>3, Zenon DEF InDown
  <2>4. pc'[r] \in {"la_retry", "la_own"} => arg'[r] \in Lock /\ ret'[r] = "run"
    BY <1>3, Zenon DEF InDown, SynchInv, Places
  <2>5. pc'[r] \in {"cw_retry", "cw_acquire"} => arg'[r] \in Lock
    BY <1>3, Zenon DEF InDown, SynchInv, Places
  <2>7. ASSUME NEW t \in Thread
        PROVE  /\ pc'[t] \in Label \ {"loop", "hlt"}
               /\ pc'[t] \in {"la_chain", "la_down", "la_retry", "la_own"} =>
                    arg'[t] \in Lock /\ ret'[t] = "run"
               /\ pc'[t] \in {"lr_up", "cw_release", "cw_down", "cw_retry", "cw_acquire"} =>
                    arg'[t] \in Lock
               /\ pc'[t] = "sd_retry" => arg'[t] \in Sema
               /\ pc'[t] = "cb_next" => arg'[t] \in Cond
               /\ pc'[t] # "la_chain"
    BY <2>3, <2>4, <2>5, <1>5, <2>2, <1>3 DEF Label, SynchInv, Places, InDown
  <2> QED BY <2>1, <2>7, Zenon DEF Places
<1> QED
  BY <1>3, <1>4, <1>7, <1>5, ExactQuiet, <1>1, Zenon DEF InDown, priorityVars, AllSema,
     WaitsFor

(* The semaphore is 0: the thread puts itself on its list and blocks.       *)
LEMMA DownBlocks ==
  ASSUME Laws, SynchInv, NEW r \in Thread, NEW s, NEW retry, NEW done, InDown(r, s, retry, done),
         value[s] = 0, value' = value, Goto(retry),
         waiters' = [waiters EXCEPT ![s] = Append(@, r)], thread_block
  PROVE  SynchInv' /\ OwnersStep
<1>1. /\ s \in AllSema /\ pc' \in [AllThread -> Label]
      /\ pc'[r] = retry /\ \A t \in AllThread : t # r => pc'[t] = pc[t]
      /\ OthersStay /\ Places' /\ ExactButChain'
      /\ \A u \in AllSema : WaitsFor(r, u) => u = s
  BY DownFacts, Zenon
<1>2. Switch({}, {r})
  BY InvFacts, BlockSwitch, Zenon DEF Status, InDown, thread_block
<1>3. \A u \in AllSema : WaitsFor(r, u)' <=> u = s
  BY <1>1 DEF WaitsFor, InDown
<1>4. ElemInOneList' /\ SleepersBlocked'
  BY <1>1, <1>2, <1>3, ElemBlock, Zenon DEF InDown
<1>5. SynchTypes'
  <2>2. ThreadsTypeOK'
    BY <1>1, <1>2, InvFacts, ThreadsTypes, Zenon DEF InDown, ThreadsTypeOK
  <2> QED BY <2>2, <1>1 DEF SynchInv, SynchTypes, InDown
<1>6. OwnersStep
  BY <1>1, Zenon DEF Owns, InDown, OthersStay, OwnersStep, KeepsOwners
<1>7. DonationsLive'
  BY <1>1, DonationsQuiet, Zenon DEF Acquiring, InDown, OthersStay, priorityVars
<1>8. Signals'
  BY <1>1, SignalsQuiet DEF InWait, InDown, OthersStay, SynchInv, Signals
<1>9. NoLostWakeup'
  <2>1. ASSUME NEW u \in AllSema
        PROVE  waiters'[u] # <<>> => value'[u] <= Cardinality(WokenFor(u)')
    <3>1. value[u] \in Nat
      BY Zenon DEF SynchInv, SynchTypes
    <3>2. CASE u = s
      BY WokenFinite, <3>2 DEF WokenFor
    <3>3. CASE u # s
      <4>1. waiters'[u] = waiters[u]
        BY <1>1, <3>3, Zenon DEF SynchInv, SynchTypes
      <4>2. ASSUME NEW t \in Thread, t \in WokenFor(u) PROVE t \in WokenFor(u)'
        <5>1. t # r
          BY <1>1, <3>3, <4>2, Zenon DEF WokenFor
        <5>2. WaitsFor(t, u)'
          BY <1>1, <4>2, <5>1, StillWaits, Zenon DEF WokenFor, InDown
        <5>3. status'[t] # "BLOCKED"
          BY <1>2, <4>2, <5>1, Zenon DEF WokenFor, Switch
        <5> QED BY <5>2, <5>3, Zenon DEF WokenFor
      <4>3. value'[u] \in Nat /\ value'[u] <= value[u]
        BY <3>1
      <4> QED BY <4>1, <4>2, <4>3, WakeupKept, ZenonT(30)
    <3> QED BY <3>2, <3>3, Zenon
  <2> QED BY <2>1, WakeupParts, Zenon
<1>10. HolderUnset'
  BY <1>1, UnsetKept, Zenon DEF InDown
<1> QED BY <1>1, <1>4, <1>5, <1>6, <1>7, <1>8, <1>9, <1>10, OneOwnerKept DEF SynchInv

(* The semaphore is positive: the thread takes it.                          *)
LEMMA DownTakes ==
  ASSUME Laws, SynchInv, NEW r \in Thread, NEW s, NEW retry, NEW done, InDown(r, s, retry, done),
         value[s] # 0, value' = [value EXCEPT ![s] = @ - 1], Goto(done),
         waiters' = waiters, UNCHANGED schedVars
  PROVE  SynchInv' /\ OwnersStep
<1>1. /\ s \in AllSema /\ pc' \in [AllThread -> Label]
      /\ pc'[r] = done /\ \A t \in AllThread : t # r => pc'[t] = pc[t]
      /\ OthersStay /\ Places' /\ ExactButChain'
      /\ \A u \in AllSema : WaitsFor(r, u) => u = s
  BY DownFacts
<1>2. Switch({}, {})
  BY NoSwitch, InvFacts, Zenon
<1>3. /\ value \in [AllSema -> Nat] /\ value[s] \in Nat
      /\ value' \in [AllSema -> Nat] /\ value'[s] = value[s] - 1 /\ value[s] > 0
      /\ \A u \in AllSema : u # s => value'[u] = value[u]
  BY <1>1 DEF SynchInv, SynchTypes
<1>4. ElemInOneList' /\ SleepersBlocked'
  BY <1>1, <1>2, ElemQuiet, Zenon DEF InDown
<1>5. SynchTypes'
  BY <1>1, <1>2, InvFacts, ThreadsTypes, <1>3, Zenon DEF InDown, ThreadsTypeOK,
     SynchInv, SynchTypes
<1>6. OwnersStep
  BY <1>1, SynchAssumption, <1>3 DEF Owns, OthersStay, InDown, AllSema, TakesLock,
     OwnersStep, KeepsOwners
<1>7. DonationsLive'
  BY RaisedIsFree, <1>1, DonationsQuiet DEF Acquiring, InDown, OthersStay,
     priorityVars
<1>8. Signals'
  <2>1. ASSUME NEW t \in Thread, InWait(t)' PROVE InWait(t) /\ value'[t] = value[t]
    BY <1>1, <2>1, SynchAssumption, <1>3, InvFacts DEF InWait, InDown,
       OthersStay
  <2>2. ASSUME NEW t \in Thread, Signallable(t) PROVE InWait(t)'
    BY <2>2, <1>1, Zenon DEF SynchInv, Signals, InWait, InDown, OthersStay
  <2> QED BY <2>1, <2>2, SignalsQuiet, Zenon DEF InDown
<1>9. NoLostWakeup'
  <2>1. ASSUME NEW u \in AllSema, NEW t \in Thread, t # r, t \in WokenFor(u)
        PROVE  t \in WokenFor(u)'
    BY <1>1, <2>1, StillWaits, <1>2, Zenon DEF WokenFor, InDown, Switch
  <2>2. ASSUME NEW u \in AllSema
        PROVE  waiters'[u] # <<>> => value'[u] <= Cardinality(WokenFor(u)')
    <3>1. CASE u = s
      BY <1>1, <1>3, <2>1, <3>1, WakeupTaken, Zenon
    <3>2. CASE u # s
      <4> QED BY <2>1, WakeupKept, <1>1, <3>2, <1>3 DEF WokenFor
    <3> QED BY <3>1, <3>2, Zenon
  <2> QED BY <2>2, WakeupParts, Zenon
<1>10. HolderUnset'
  <2>1. pc'[r] \in {"la_own", "lr_up"} => holder'[arg'[r]] # r
    <3>1. pc'[r] \in {"la_own", "lr_up"} => s \in Lock /\ arg'[r] = s
      BY <1>1, Zenon DEF InDown
    <3>2. s \in Lock => holder'[s] = NULL
      BY RaisedIsFree, Zenon DEF InDown
    <3> QED BY <3>1, <3>2, InvFacts, ThreadsAssumption
  <2> QED BY <1>1, <2>1, UnsetKept, Zenon DEF InDown
<1> QED BY <1>1, <1>4, <1>5, <1>6, <1>7, <1>8, <1>9, <1>10, OneOwnerKept, Zenon DEF SynchInv

(* sema_down, whoever calls it.                                             *)
LEMMA DownKept ==
  ASSUME Laws, SynchInv, NEW r \in Thread, NEW s, NEW retry, NEW done, InDown(r, s, retry, done),
         sema_down(s, retry, done)
  PROVE  SynchInv' /\ OwnersStep
<1>1. running = r
  BY Zenon DEF InDown
<1>2. CASE value[s] = 0
  BY <1>1, <1>2, DownBlocks, Zenon DEF sema_down, MustWait
<1>3. CASE value[s] # 0
  <2>1. /\ value' = [value EXCEPT ![s] = @ - 1] /\ Goto(done)
        /\ waiters' = waiters /\ UNCHANGED schedVars
    BY <1>3, Zenon DEF sema_down, MustWait, Taken
  <2> QED BY <1>3, <2>1, DownTakes, Zenon
<1> QED BY <1>2, <1>3, Zenon

-----------------------------------------------------------------------------
(* sema_up.                                                                *)

(* sema_up wakes a waiter if there is one, then yields.                     *)
LEMMA UpSwitch ==
  ASSUME Laws, SynchInv, NEW s \in AllSema, NEW done, sema_up(s, done)
  PROVE  \/ waiters[s] = <<>> /\ waiters' = waiters /\ Switch({}, {})
         \/ \E i \in 1..Len(waiters[s]) :
              /\ waiters' = [waiters EXCEPT ![s] = Without(@, i)]
              /\ Switch({waiters[s][i]}, {})
<1> DEFINE ws == waiters[s]
           f == [j \in DOMAIN ws |-> {k \in DOMAIN ws : priority[ws[k]] > priority[ws[j]]}]
           i == list_min(f)
           w == ws[i]
           rl == ReadyInsert(ready_list, w, priority)
           st == [status EXCEPT ![w] = "READY"]
<1>1. CASE ~ Wakes(s)
  BY <1>1, PlainYield, InvFacts, Zenon DEF sema_up, Wakes
<1>2. CASE Wakes(s)
  <2>1. waiters' = Unlisted(s, i) /\ thread_yield(rl, st, priority)
    BY <1>2, Zenon DEF sema_up
  <2>2. ws \in Seq(Thread) /\ ws # <<>>
    BY <1>2, InvFacts, Zenon DEF Wakes
  <2>3. i \in DOMAIN ws
    <3> DEFINE D == DOMAIN ws
               key == [k \in D |-> priority[ws[k]]]
    <3>1. D \in SUBSET Nat /\ D # {} /\ \A k \in D : ws[k] \in Thread
      <4>1. Len(ws) \in Nat /\ Len(ws) # 0 /\ D = 1..Len(ws)
        BY <2>2
      <4> HIDE DEF ws
      <4>3. 1 \in 1..Len(ws)
        BY <4>1
      <4> QED BY <4>1, <4>3, <2>2
    <3>2. \A k \in D : key[k] \in 0..PRI_MAX
      BY <3>1, Zenon DEF SynchInv, SynchTypes, ThreadsTypeOK, AllThread, Priority,
         PRI_MIN
    <3>3. f = [j \in D |-> {k \in D : key[k] > key[j]}]
      BY Zenon
    <3> HIDE DEF D, key
    <3>4. list_min([j \in D |-> {k \in D : key[k] > key[j]}]) \in D
      BY <3>1, <3>2, ListMinFound, ThreadsAssumption, Zenon
    <3> QED BY <3>3, <3>4, Zenon DEF D
  <2> HIDE DEF f, i
  <2>4. w \in Thread /\ status[w] = "BLOCKED" /\ i \in 1..Len(waiters[s])
    BY <2>2, <2>3, InvFacts DEF Range
  <2>5. Switch({w}, {})
    <3> HIDE DEF w
    <3>1. /\ rl \in Seq(Thread) /\ st \in [AllThread -> Status] /\ IsInjective(rl)
          /\ Range(rl) = {t \in Thread : st[t] = "READY"}
          /\ \A t \in AllThread : st[t] = "RUNNING" <=> t = running
          /\ \A t \in Thread : st[t] = "BLOCKED" <=> status[t] = "BLOCKED" /\ t \notin {w}
      BY <2>4, InvFacts, WakeQueue, Zenon
    <3> HIDE DEF rl, st
    <3> QED BY <2>1, <3>1, InvFacts, YieldSwitch, Zenon
  <2> QED BY <2>4, <2>5, <2>1, Zenon DEF Unlisted
<1> QED BY <1>1, <1>2, Zenon

(* It keeps the lists as they should be, and no wake-up is lost.            *)
LEMMA UpLists ==
  ASSUME Laws, SynchInv, NEW r \in Thread, r = running, OthersStay, NEW s \in AllSema, NEW done,
         sema_up(s, done), \A u \in AllSema : ~ WaitsFor(r, u)
  PROVE  /\ ElemInOneList' /\ SleepersBlocked' /\ NoLostWakeup'
         /\ \E W : Switch(W, {})
         /\ waiters' \in [AllSema -> Seq(Thread)] /\ value' \in [AllSema -> Nat]
         /\ value'[s] = value[s] + 1 /\ \A u \in AllSema : u # s => value'[u] = value[u]
<1>1. /\ value \in [AllSema -> Nat] /\ value' \in [AllSema -> Nat]
      /\ value'[s] = value[s] + 1 /\ \A u \in AllSema : u # s => value'[u] = value[u]
  BY DEF sema_up, SynchInv, SynchTypes
<1>2. sleep_list' = sleep_list
  BY Zenon DEF sema_up
<1>3. waiters \in [AllSema -> Seq(Thread)]
  BY Zenon DEF SynchInv, SynchTypes
<1>4. ASSUME NEW W, Switch(W, {}), NEW u \in AllSema, NEW t \in Thread, t \in WokenFor(u)
      PROVE  t \in WokenFor(u)'
  BY <1>4, StillWaits, Zenon DEF WokenFor, Switch
<1>5. CASE waiters[s] = <<>> /\ waiters' = waiters /\ Switch({}, {})
  <2>1. ElemInOneList' /\ SleepersBlocked'
    BY <1>2, <1>5, ElemQuiet, Zenon
  <2>2. ASSUME NEW u \in AllSema
        PROVE  waiters'[u] # <<>> => value'[u] <= Cardinality(WokenFor(u)')
    BY <1>4, <1>5, <1>1, WakeupKept
  <2> QED BY <1>1, <1>3, <1>5, <2>1, <2>2, WakeupParts, Zenon
<1>6. ASSUME NEW i \in 1..Len(waiters[s]), NEW w, w = waiters[s][i], Switch({w}, {}),
             waiters' = [waiters EXCEPT ![s] = Without(@, i)]
      PROVE  ElemInOneList' /\ SleepersBlocked' /\ NoLostWakeup'
             /\ waiters' \in [AllSema -> Seq(Thread)]
  <2>1. ElemInOneList' /\ SleepersBlocked'
    BY <1>2, <1>6, ElemWake, Zenon
  <2>2. /\ waiters[s] \in Seq(Thread) /\ IsInjective(waiters[s])
        /\ w \in Thread /\ w \in Range(waiters[s]) /\ Without(waiters[s], i) \in Seq(Thread)
    BY <1>6, InvFacts, WithoutFacts, Zenon
  <2>3. WaitsFor(w, s) /\ status[w] = "BLOCKED" /\ w # r /\ waiters[s] # <<>>
    BY <2>2, InvFacts DEF Range
  <2>4. w \notin WokenFor(s) /\ w \in WokenFor(s)'
    BY <1>6, <2>2, <2>3, StillWaits, Zenon DEF Switch, WokenFor
  <2>5. \A u \in AllSema, t \in Thread : t \in WokenFor(u) => t \in WokenFor(u)'
    BY <1>4, <1>6, Zenon
  <2>6. ASSUME NEW u \in AllSema
        PROVE  waiters'[u] # <<>> => value'[u] <= Cardinality(WokenFor(u)')
    <3>1. CASE u = s
      BY <1>1, <2>2, <2>3, <2>4, <2>5, <3>1, WakeupRaised, Zenon
    <3>2. CASE u # s
      BY <1>1, <1>3, <1>6, <3>2, <2>5, WakeupKept
    <3> QED BY <3>1, <3>2, Zenon
  <2>7. waiters' \in [AllSema -> Seq(Thread)]
    BY <1>3, <1>6, <2>2, Zenon
  <2> QED BY <2>1, <2>6, <2>7, WakeupParts, Zenon
<1> QED BY <1>1, <1>5, <1>6, UpSwitch, Zenon

(* What the callers of sema_up have in common.                              *)
LEMMA UpCommon ==
  ASSUME Laws, SynchInv, NEW r \in Thread, r = running, ~ in_external_intr,
         pc[r] = "run" \/ pc[r] = "lr_up" \/ pc[r] = "cb_next",
         NEW s \in AllSema, NEW l, l = "run" \/ l = "cw_down" \/ l = "cb_next", sema_up(s, l),
         UNCHANGED <<holder, ret, chain>>,
         arg' \in [AllThread -> AllSema \cup Cond \cup {NULL}],
         \A t \in Thread : t # r => arg'[t] = arg[t],
         cond_waiters' \in [Cond -> Seq(Thread)],
         l = "cw_down" => arg'[r] \in Lock, l = "cb_next" => arg'[r] \in Cond
  PROVE  /\ SynchTypes' /\ Places' /\ ElemInOneList' /\ SleepersBlocked' /\ NoLostWakeup'
         /\ DonationsLive' /\ ExactButChain' /\ HolderUnset' /\ OthersStay /\ pc'[r] = l
         /\ value[s] \in Nat /\ value'[s] = value[s] + 1
         /\ \A u \in AllSema : u # s => value'[u] = value[u]
<1>1. /\ sleep_list' = sleep_list /\ UNCHANGED <<priorityVars, intrVars>> /\ Goto(l)
      /\ l \in Label \ {"loop", "hlt"}
  BY Zenon DEF sema_up, Label
<1>2. OthersStay
  BY <1>1, InvFacts, Zenon DEF Goto, SynchInv, SynchTypes, ThreadsTypeOK, OthersStay
<1>3. /\ Places' /\ pc' \in [AllThread -> Label] /\ pc'[r] = l
  <2>1. l # "la_chain" /\ l # "sd_retry" /\ l \notin {"la_chain", "la_down", "la_retry", "la_own"}
        /\ (l \in {"lr_up", "cw_release", "cw_down", "cw_retry", "cw_acquire"} => l = "cw_down")
    BY Zenon
  <2> QED BY <1>1, <1>2, <2>1, PlacesKept, Zenon
<1>4. \A u \in AllSema : ~ WaitsFor(r, u)
  BY Zenon DEF WaitsFor
<1>5. /\ ElemInOneList' /\ SleepersBlocked' /\ NoLostWakeup'
      /\ \E W : Switch(W, {})
      /\ waiters' \in [AllSema -> Seq(Thread)] /\ value' \in [AllSema -> Nat]
      /\ value'[s] = value[s] + 1 /\ \A u \in AllSema : u # s => value'[u] = value[u]
  BY <1>2, <1>4, UpLists, Zenon
<1>6. SynchTypes'
  <2>1. ThreadsTypeOK'
    BY <1>1, <1>3, <1>5, InvFacts, ThreadsTypes, ZenonT(30) DEF ThreadsTypeOK
  <2> QED BY <1>5, <2>1, Zenon DEF SynchInv, SynchTypes
<1>7. DonationsLive'
  BY <1>2, <1>1, DonationsQuiet, ZenonT(30) DEF OthersStay, Acquiring, priorityVars
<1>8. ExactButChain'
  BY <1>1, ExactQuiet, Zenon DEF At, priorityVars
<1>9. value[s] \in Nat
  BY Zenon DEF SynchInv, SynchTypes
<1>10. HolderUnset'
  BY <1>2, <1>3, UnsetKept, Zenon
<1> QED BY <1>2, <1>3, <1>5, <1>6, <1>7, <1>8, <1>9, <1>10, ZenonT(30)

(* sema_up by a thread in its own code.                                     *)
LEMMA SemaUpKept ==
  ASSUME Laws, SynchInv, NEW s \in Sema, SemaUp(s) PROVE SynchInv' /\ OwnersStep
<1> DEFINE r == running
<1>1. /\ r \in Thread /\ ~ in_external_intr /\ pc[r] = "run" /\ s \in AllSema
      /\ sema_up(s, "run") /\ UNCHANGED <<holder, cond_waiters, arg, ret, chain>>
  BY Zenon DEF SemaUp, AtRun, SynchInv, SynchTypes, ThreadsTypeOK, AllThread, AllSema
<1> HIDE DEF r
<1>2. /\ SynchTypes' /\ Places' /\ ElemInOneList' /\ SleepersBlocked' /\ NoLostWakeup'
      /\ DonationsLive' /\ ExactButChain' /\ HolderUnset' /\ OthersStay /\ pc'[r] = "run"
      /\ \A u \in AllSema : u # s => value'[u] = value[u]
  BY <1>1, UpCommon, ZenonT(30) DEF SynchInv, SynchTypes, r
<1>4. \A u \in Lock \cup Thread : value'[u] = value[u]
  BY <1>2, SynchAssumption, Zenon DEF AllSema
<1>6. \A t \in Thread : InWait(t)' <=> InWait(t)
  BY <1>1, <1>2, Zenon DEF InWait, OthersStay, r
<1> QED
  BY <1>2, OneOwnerKept, <1>4, <1>1, <1>6, SignalsQuiet, Zenon DEF SynchInv, OwnersStep,
     KeepsOwners, Owns, OthersStay, r, Signals

(* sema_up at the end of lock_release.                                      *)
LEMMA LockUpKept ==
  ASSUME Laws, SynchInv, LockUp PROVE SynchInv' /\ OwnersStep
<1>1. PICK r \in Thread, s \in Lock :
        /\ r = running /\ s = arg[r] /\ ~ in_external_intr /\ pc[r] = "lr_up"
        /\ sema_up(s, ret[r]) /\ UNCHANGED <<holder, cond_waiters, arg, ret, chain>>
  BY InOperation, Zenon DEF LockUp, SynchInv, Places
<1>2. s \in AllSema /\ holder[s] # r
  BY <1>1, Zenon DEF SynchInv, AllSema, HolderUnset
<1>3. ret[r] = "run" \/ ret[r] = "cw_down"
  BY <1>1, InvFacts, Zenon DEF SynchInv, SynchTypes
<1>4. /\ SynchTypes' /\ Places' /\ ElemInOneList' /\ SleepersBlocked' /\ NoLostWakeup'
      /\ DonationsLive' /\ ExactButChain' /\ HolderUnset' /\ OthersStay /\ pc'[r] = ret[r]
      /\ value[s] \in Nat /\ value'[s] = value[s] + 1
      /\ \A u \in AllSema : u # s => value'[u] = value[u]
  <2>1. /\ arg' \in [AllThread -> AllSema \cup Cond \cup {NULL}]
        /\ cond_waiters' \in [Cond -> Seq(Thread)]
    BY <1>1, Zenon DEF SynchInv, SynchTypes
  <2>2. ret[r] # "cb_next"
    BY <1>3, Zenon
  <2>3. arg'[r] \in Lock
    BY <1>1, Zenon
  <2> QED BY <1>1, <1>2, <1>3, <2>1, <2>2, <2>3, UpCommon
<1>7. \A t \in Thread : value'[t] = value[t]
  BY <1>2, <1>4, SynchAssumption, ZenonT(30) DEF AllSema
<1>8. Signals'
  BY <1>1, <1>7, SignalsQuiet, <1>3, <1>4, ZenonT(30) DEF SynchInv, Signals, InWait,
     OthersStay
<1> QED
  BY <1>4, <1>8, OneOwnerKept, <1>1, <1>3, <1>2 DEF SynchInv, Owns,
     OthersStay, AllSema, FreesLock, OwnersStep

-----------------------------------------------------------------------------
(* Condition variables.                                                    *)

(* cond_signal chooses an element of the condition's list.                  *)
LEMMA ChosenFacts ==
  ASSUME Laws, SynchInv, NEW c \in Cond, cond_waiters[c] # <<>>, FrontsExist(c)
  PROVE  /\ cond_waiters[c] \in Seq(Thread) /\ Chosen(c) \in 1..Len(cond_waiters[c])
<1> DEFINE cw == cond_waiters[c]
           D == DOMAIN cw
           key == [i \in D |-> priority[Head(waiters[cw[i]])]]
<1>1. cw \in Seq(Thread) /\ cw # <<>>
  BY Zenon DEF SynchInv, SynchTypes
<1>2. Len(cw) \in Nat /\ Len(cw) # 0 /\ D = 1..Len(cw) /\ \A i \in D : cw[i] \in Thread
  BY <1>1
<1>3. CASE Len(cw) = 1
  BY <1>3, <1>1 DEF Chosen, cw
<1>4. CASE Len(cw) # 1
  <2>1. Chosen(c) = list_min([i \in D |-> {j \in D : key[j] > key[i]}])
    BY <1>4, Zenon DEF Chosen
  <2>2. ASSUME NEW i \in D PROVE key[i] \in 0..PRI_MAX
    <3>1. cw[i] \in Thread /\ cw[i] \in AllSema /\ Len(cw) > 1
      <4>3. \A n \in Nat : n # 0 /\ n # 1 => n > 1
        OBVIOUS
      <4> QED BY <1>2, <1>4, <4>3, InvFacts, Zenon
    <3>3. Head(waiters[cw[i]]) \in Thread
      BY <3>1, InvFacts DEF FrontsExist
    <3>4. priority[Head(waiters[cw[i]])] \in Priority
      BY <3>3, Zenon DEF SynchInv, SynchTypes, ThreadsTypeOK, AllThread
    <3> QED BY <3>4, Zenon DEF Priority, PRI_MIN
  <2>3. D \in SUBSET Nat /\ D # {}
    BY <1>2
  <2> HIDE DEF D, key
  <2>4. list_min([i \in D |-> {j \in D : key[j] > key[i]}]) \in D
    BY <2>2, <2>3, ListMinFound, ThreadsAssumption, Zenon
  <2> QED BY <1>1, <1>2, <2>1, <2>4, Zenon
<1> QED BY <1>3, <1>4, Zenon

(* cond_signal raises the semaphore of a thread whose signal it is.         *)
LEMMA SignalKept ==
  ASSUME Laws, SynchInv, NEW r \in Thread, r = running, ~ in_external_intr,
         pc[r] = "run" \/ pc[r] = "cb_next",
         NEW c \in Cond, NEW l, l = "run" \/ l = "cb_next", cond_signal(c, l),
         arg' \in [AllThread -> AllSema \cup Cond \cup {NULL}],
         \A t \in Thread : t # r => arg'[t] = arg[t],
         l = "cb_next" => arg'[r] \in Cond
  PROVE  SynchInv' /\ OwnersStep
<1>1. PICK k \in 1..Len(cond_waiters[c]), w \in Thread :
        /\ w = cond_waiters[c][k] /\ sema_up(w, l)
        /\ cond_waiters' = [cond_waiters EXCEPT ![c] = Without(@, k)]
        /\ UNCHANGED <<holder, ret, chain>>
  <2>1. /\ cond_waiters[c] \in Seq(Thread) /\ Chosen(c) \in 1..Len(cond_waiters[c])
    BY ChosenFacts, Zenon DEF cond_signal
  <2>2. cond_waiters[c][Chosen(c)] \in Thread
    BY <2>1
  <2> QED BY <2>1, <2>2, ZenonT(30) DEF cond_signal
<1>2. /\ cond_waiters[c] \in Seq(Thread) /\ IsInjective(cond_waiters[c])
      /\ cond_waiters \in [Cond -> Seq(Thread)] /\ w \in Range(cond_waiters[c])
  BY <1>1 DEF SynchInv, SynchTypes, Signals, Range
<1>4. /\ cond_waiters' \in [Cond -> Seq(Thread)]
      /\ \A d \in Cond : IsInjective(cond_waiters'[d])
      /\ Range(cond_waiters'[c]) = Range(cond_waiters[c]) \ {w}
      /\ \A d \in Cond : d # c => cond_waiters'[d] = cond_waiters[d]
  BY <1>1, <1>2, WithoutFacts DEF SynchInv, Signals
<1>5. /\ SynchTypes' /\ Places' /\ ElemInOneList' /\ SleepersBlocked' /\ NoLostWakeup'
      /\ DonationsLive' /\ ExactButChain' /\ HolderUnset' /\ OthersStay /\ pc'[r] = l
      /\ value[w] \in Nat /\ value'[w] = value[w] + 1
      /\ \A u \in AllSema : u # w => value'[u] = value[u]
  <2>1. w \in AllSema /\ l # "cw_down" /\ (l = "run" \/ l = "cw_down" \/ l = "cb_next")
        /\ (pc[r] = "run" \/ pc[r] = "lr_up" \/ pc[r] = "cb_next")
    BY InvFacts, Zenon
  <2> QED BY <1>1, <1>4, <2>1, UpCommon, ZenonT(30)
<1>6. \A t \in Thread, m \in Lock : Owns(t, m)' <=> Owns(t, m)
  BY <1>1, <1>5, ZenonT(30) DEF Owns, OthersStay
<1>7. \A m \in Lock : value'[m] = value[m]
  BY <1>5, SynchAssumption, ZenonT(30) DEF AllSema
<1>8. OwnersStep
  BY <1>6, <1>7, ZenonT(30) DEF OwnersStep, KeepsOwners
<1>9. \A t \in Thread : InWait(t)' <=> InWait(t)
  BY <1>1, <1>5, Zenon DEF InWait, OthersStay
<1>10. \A t \in Thread : Signallable(t)' <=> Signallable(t) /\ t # w
  <2>1. \A d \in Cond, t \in Thread :
          t \in Range(cond_waiters[c]) /\ t \in Range(cond_waiters[d]) => c = d
    BY Zenon DEF SynchInv, Signals
  <2> QED BY <1>2, <1>4, <2>1, Zenon DEF Signallable
<1>11. Signals'
  <2>1. /\ \A d, e \in Cond, t \in Thread :
             t \in Range(cond_waiters[d]) /\ t \in Range(cond_waiters[e]) => d = e
        /\ \A t \in Thread : Signallable(t) => InWait(t)
        /\ \A t \in Thread : InWait(t) => value[t] = IF Signallable(t) THEN 0 ELSE 1
    BY Zenon DEF SynchInv, Signals
  <2>3. \A t \in Thread : Signallable(t)' => InWait(t)'
    BY <1>9, <1>10, <2>1, Zenon
  <2>4. ASSUME NEW t \in Thread, InWait(t)'
        PROVE  value'[t] = IF Signallable(t)' THEN 0 ELSE 1
    <3>1. InWait(t) /\ value[t] = IF Signallable(t) THEN 0 ELSE 1
      BY <1>9, <2>1, <2>4, Zenon
    <3>2. CASE t = w
      BY <1>2, <1>10, <1>5, <3>1, <3>2 DEF Signallable
    <3>3. CASE t # w
      BY <1>5, <1>10, <3>3, InvFacts, <3>1, Zenon
    <3> QED BY <3>2, <3>3, Zenon
  <2> QED BY <1>4, <2>3, <2>4, <2>1, Zenon DEF Signals
<1> QED BY <1>5, <1>8, <1>11, OneOwnerKept, Zenon DEF SynchInv

-----------------------------------------------------------------------------
(* Steps of the running thread without a switch.                           *)

(* sema_try_down.                                                           *)
LEMMA SemaTryDownKept ==
  ASSUME Laws, SynchInv, NEW s \in Sema, SemaTryDown(s) PROVE SynchInv' /\ OwnersStep
<1>1. PICK r \in Thread : r = running /\ ~ in_external_intr /\ pc[r] = "run"
  BY Zenon DEF SemaTryDown, AtRun, SynchInv, SynchTypes, ThreadsTypeOK, AllThread
<1>2. /\ value[s] > 0 /\ value' = [value EXCEPT ![s] = @ - 1]
      /\ UNCHANGED <<threadVars, waiters, holder, cond_waiters, arg, ret, chain>>
  BY Zenon DEF SemaTryDown, sema_try_down, Taken
<1>3. /\ value \in [AllSema -> Nat] /\ value' \in [AllSema -> Nat]
      /\ \A u \in AllSema : value'[u] <= value[u] /\ (u # s => value'[u] = value[u])
  BY <1>2 DEF SynchInv, SynchTypes, AllSema
<1>4. /\ UNCHANGED <<schedVars, sleep_list, intrVars>> /\ pc' = pc
      /\ UNCHANGED <<base_priority, priority, donate_priority, waiting_lock>>
  BY <1>2, Zenon DEF threadVars, priorityVars
<1>5. Goto("run") /\ "run" \in Label \ {"loop", "hlt"}
  BY <1>1, <1>4, InvFacts, ZenonT(30) DEF Goto, Label, SynchInv, SynchTypes,
     ThreadsTypeOK
<1>7. /\ SynchTypes' /\ Places' /\ ElemInOneList' /\ SleepersBlocked' /\ NoLostWakeup'
      /\ OthersStay
  BY <1>1, <1>2, <1>3, <1>4, <1>5, MoveCommon, DataFacts, Zenon DEF DataTypes
<1>8. OwnersStep
  BY <1>3, SynchAssumption, <1>2, <1>4, OwnersSame, Zenon DEF AllSema, Owns
<1>9. HolderUnset'
  BY <1>2, <1>4, Zenon DEF HolderUnset, SynchInv
<1>10. DonationsLive'
  BY <1>2, <1>4, DonationsQuiet, Zenon
<1>11. ExactButChain'
  BY <1>1, <1>4, ExactQuiet, Zenon DEF At
<1>12. Signals'
  BY <1>2, <1>4, <1>3, SynchAssumption, SignalsSame, Zenon DEF InWait, AllSema
<1> QED BY <1>7, <1>8, <1>9, <1>10, <1>11, <1>12, OneOwnerKept, Zenon DEF SynchInv

(* lock_try_acquire takes the semaphore of a free lock.                     *)
LEMMA LockTryAcquireKept ==
  ASSUME Laws, SynchInv, NEW l \in Lock, LockTryAcquire(l) PROVE SynchInv' /\ OwnersStep
<1>1. PICK r \in Thread : r = running /\ ~ in_external_intr /\ pc[r] = "run"
  BY Zenon DEF LockTryAcquire, AtRun, SynchInv, SynchTypes, ThreadsTypeOK, AllThread
<1>2. /\ value[l] > 0 /\ value' = [value EXCEPT ![l] = @ - 1] /\ Goto("la_own")
      /\ arg' = [arg EXCEPT ![r] = l] /\ ret' = [ret EXCEPT ![r] = "run"]
      /\ UNCHANGED <<schedVars, sleep_list, intrVars, waiters, holder, cond_waiters, chain>>
      /\ UNCHANGED <<base_priority, priority, donate_priority, waiting_lock>>
  BY <1>1, Zenon DEF LockTryAcquire, sema_try_down, Taken, priorityVars
<1>3. /\ value[l] # 0 /\ value' \in [AllSema -> Nat] /\ value'[l] = value[l] - 1
      /\ \A u \in AllSema : value'[u] <= value[u] /\ (u # l => value'[u] = value[u])
  BY <1>2 DEF SynchInv, SynchTypes, AllSema
<1>4. /\ arg' \in [AllThread -> AllSema \cup Cond \cup {NULL}]
      /\ ret' \in [AllThread -> {"run", "cw_down"}] /\ arg'[r] = l /\ ret'[r] = "run"
      /\ \A t \in Thread : t # r => arg'[t] = arg[t] /\ ret'[t] = ret[t]
  BY <1>1, <1>2, InvFacts, Zenon DEF SynchInv, SynchTypes, AllSema
<1>5. DataTypes'
  BY <1>2, <1>3, <1>4, DataFacts, Zenon DEF DataTypes
<1>6. /\ SynchTypes' /\ Places' /\ ElemInOneList' /\ SleepersBlocked' /\ NoLostWakeup'
      /\ OthersStay /\ pc'[r] = "la_own"
  <2> QED BY <1>1, <1>2, <1>3, <1>4, <1>5, MoveCommon DEF Label
<1>7. holder[l] = NULL /\ NULL # r
  BY <1>3, RaisedIsFree, InvFacts, ThreadsAssumption, ZenonT(30)
<1>8. OwnersStep
  <2>1. ASSUME NEW m \in Lock PROVE Owns(r, m)' <=> Owns(r, m) \/ m = l
    BY <1>1, <1>2, <1>4, <1>6, Zenon DEF Owns
  <2>2. ASSUME NEW t \in Thread, t # r, NEW m \in Lock PROVE Owns(t, m)' <=> Owns(t, m)
    BY <1>1, <1>2, <1>6, <2>2, Zenon DEF Owns, OthersStay
  <2>3. \A m \in Lock : m # l => value'[m] = value[m]
    BY <1>3, Zenon DEF AllSema
  <2> QED BY <1>3, <2>1, <2>2, <2>3 DEF OwnersStep, TakesLock
<1>9. HolderUnset'
  BY <1>2, <1>4, <1>7, <1>1, <1>6, UnsetKept
<1>10. DonationsLive'
  BY <1>1, <1>6, <1>2, DonationsQuiet, Zenon DEF Acquiring, OthersStay
<1>11. ExactButChain'
  BY <1>1, <1>2, ExactQuiet, Zenon DEF At
<1>12. Signals'
  <2>1. \A t \in Thread : InWait(t)' <=> InWait(t)
    BY <1>1, <1>6, Zenon DEF InWait, OthersStay
  <2> QED BY <1>2, <2>1, SignalsSame, <1>3, SynchAssumption, Zenon DEF AllSema
<1> QED BY <1>6, <1>8, <1>9, <1>10, <1>11, <1>12, OneOwnerKept, Zenon DEF SynchInv

(* The assignment to holder records the owner.                              *)
LEMMA LockOwnKept ==
  ASSUME Laws, SynchInv, LockOwn PROVE SynchInv' /\ OwnersStep
<1>1. PICK r \in Thread, l \in Lock :
        /\ r = running /\ l = arg[r] /\ ~ in_external_intr /\ pc[r] = "la_own"
        /\ ret[r] = "run"
  BY InOperation, Zenon DEF LockOwn, SynchInv, Places
<1>2. /\ holder' = [holder EXCEPT ![l] = r] /\ Goto("run")
      /\ UNCHANGED <<schedVars, sleep_list, intrVars, value, waiters, cond_waiters, arg, ret,
                     chain>>
      /\ UNCHANGED <<base_priority, priority, donate_priority, waiting_lock>>
  BY <1>1, Zenon DEF LockOwn, priorityVars
<1>3. /\ holder' \in [Lock -> Thread \cup {NULL}] /\ holder'[l] = r
      /\ \A m \in Lock : m # l => holder'[m] = holder[m]
  BY <1>2, Zenon DEF SynchInv, SynchTypes
<1>4. DataTypes'
  BY <1>2, <1>3, DataFacts, Zenon DEF DataTypes
<1>5. \A u \in AllSema : value'[u] <= value[u]
  BY <1>2 DEF SynchInv, SynchTypes
<1>6. /\ SynchTypes' /\ Places' /\ ElemInOneList' /\ SleepersBlocked' /\ NoLostWakeup'
      /\ OthersStay /\ pc'[r] = "run"
  <2>1. "run" \in Label \ {"loop", "hlt"}
    BY Zenon DEF Label
  <2> QED BY <1>1, <1>2, <1>4, <1>5, <2>1, MoveCommon, Zenon
<1>7. \A t \in Thread : Owns(t, l) => t = r
  BY <1>1, Zenon DEF SynchInv, OneOwner, Owns
<1>8. holder[l] = NULL
  BY <1>1, <1>7, Zenon DEF SynchInv, HolderUnset, Owns, SynchTypes
<1>9. NULL \notin Thread
  BY ThreadsAssumption, Zenon DEF AllThread
<1>10. OwnersStep
  <2>1. ASSUME NEW m \in Lock PROVE Owns(r, m)' <=> Owns(r, m)
    BY <1>1, <1>6, <1>3, Zenon DEF Owns
  <2>2. ASSUME NEW t \in Thread, t # r, NEW m \in Lock PROVE Owns(t, m)' <=> Owns(t, m)
    <3>1. holder'[m] = t <=> holder[m] = t
      BY <1>3, <1>8, <1>9, <2>2, Zenon
    <3> QED BY <1>1, <1>6, <2>2, <3>1, Zenon DEF Owns, OthersStay
  <2> QED BY <1>2, <2>1, <2>2, OwnersSame, Zenon
<1>11. HolderUnset'
  <2>1. \A t \in Thread, m \in Lock : holder'[m] = t => holder[m] = t \/ t = running
    BY <1>1, <1>3, Zenon
  <2> QED BY <1>1, <1>6, <2>1, UnsetKept, Zenon
<1>12. DonationsLive'
  <2>1. \A t \in Thread : pc[t] \in Acquiring => pc'[t] = pc[t] /\ arg'[t] = arg[t]
    BY <1>1, <1>6, ZenonT(30) DEF Acquiring, OthersStay
  <2> QED BY <1>2, <2>1, DonationsQuiet, <1>3, <1>8, Zenon
<1>13. ExactButChain'
  BY <1>1, <1>2, ExactQuiet, Zenon DEF At
<1>14. Signals'
  <2>1. \A t \in Thread : InWait(t)' <=> InWait(t)
    BY <1>1, <1>6, Zenon DEF InWait, OthersStay
  <2> QED BY <1>2, <2>1, SignalsSame, Zenon
<1> QED BY <1>6, <1>10, <1>11, <1>12, <1>13, <1>14, OneOwnerKept, Zenon DEF SynchInv

(* lock_acquire up to sema_down, called by lock_acquire's caller or by      *)
(* cond_wait: if the lock has a holder, the thread becomes its donor.       *)
LEMMA AcquireKept ==
  ASSUME Laws, SynchInv, NEW r \in Thread, r = running, ~ in_external_intr,
         pc[r] = "run" \/ pc[r] = "cw_acquire", NEW l \in Lock, lock_acquire(l, "run")
  PROVE  SynchInv' /\ OwnersStep
<1> DEFINE h == holder[l]
<1>1. /\ arg' = [arg EXCEPT ![r] = l] /\ ret' = [ret EXCEPT ![r] = "run"]
      /\ UNCHANGED <<schedVars, sleep_list, intrVars, waiters, holder, cond_waiters, value>>
      /\ UNCHANGED <<base_priority, priority>>
  BY Zenon DEF lock_acquire
<1>2. /\ arg' \in [AllThread -> AllSema \cup Cond \cup {NULL}]
      /\ ret' \in [AllThread -> {"run", "cw_down"}] /\ arg'[r] = l /\ ret'[r] = "run"
      /\ \A t \in Thread : t # r => arg'[t] = arg[t] /\ ret'[t] = ret[t]
  BY <1>1, InvFacts, Zenon DEF SynchInv, SynchTypes, AllSema
<1>3. \A u \in AllSema : value'[u] <= value[u]
  BY <1>1 DEF SynchInv, SynchTypes
<1>4. h \in Thread \cup {NULL} /\ NULL \notin Thread
  BY ThreadsAssumption, Zenon DEF SynchInv, SynchTypes, AllThread
<1>5. ASSUME NEW p, p = "la_down" \/ p = "la_chain", Goto(p), DataTypes',
             p = "la_chain" => chain' \in Thread, DonationsLive', ExactButChain'
      PROVE  SynchInv' /\ OwnersStep
  <2>1. p \in Label \ {"loop", "hlt"} /\ pc[r] \notin {"la_retry", "sd_retry", "cw_retry"}
        /\ p \notin {"lr_up", "cw_release", "cw_down", "cw_retry", "cw_acquire"}
        /\ p # "sd_retry" /\ p # "cb_next"
    BY <1>5, Zenon DEF Label
  <2>2. /\ SynchTypes' /\ Places' /\ ElemInOneList' /\ SleepersBlocked' /\ NoLostWakeup'
        /\ OthersStay /\ pc'[r] = p
    BY <1>1, <1>2, <1>3, <1>5, <2>1, MoveCommon
  <2>3. pc'[r] \notin {"la_own", "lr_up"} /\ pc[r] \notin {"la_own", "lr_up"}
    BY <1>5, <2>2, Zenon
  <2>4. OwnersStep
    <3>1. \A t \in Thread, m \in Lock : Owns(t, m)' <=> Owns(t, m)
      BY <1>1, <2>2, <2>3, Zenon DEF Owns, OthersStay
    <3> QED BY <1>1, <3>1, OwnersSame, Zenon
  <2>5. HolderUnset'
    BY <1>1, <2>2, <2>3, UnsetKept, Zenon
  <2>6. Signals'
    <3>1. \A t \in Thread : InWait(t)' <=> InWait(t)
      BY <1>5, <2>2, Zenon DEF InWait, OthersStay
    <3> QED BY <1>1, <3>1, SignalsSame, Zenon
  <2> QED BY <1>5, <2>2, <2>4, <2>5, <2>6, OneOwnerKept, Zenon DEF SynchInv
<1>7. ASSUME NEW t \in Thread, pc[t] \in Acquiring
      PROVE  t # r /\ pc'[t] = pc[t] /\ arg'[t] = arg[t]
  <2>1. t # r /\ t \in AllThread /\ r \in AllThread
    BY <1>7, InvFacts, Zenon DEF Acquiring
  <2> QED
    BY <1>2, <2>1 DEF lock_acquire, Goto, SynchInv, SynchTypes, ThreadsTypeOK
<1>8. CASE h = NULL
  <2>1. Goto("la_down") /\ UNCHANGED <<donate_priority, waiting_lock, chain>>
    BY <1>8, Zenon DEF lock_acquire
  <2>2. DataTypes'
    BY <1>1, <1>2, <2>1, DataFacts, ZenonT(30) DEF DataTypes
  <2>3. DonationsLive'
    BY <1>1, <1>7, <2>1, DonationsQuiet, Zenon
  <2>4. ExactButChain'
    BY <1>1, <2>1, ExactQuiet, Zenon DEF At
  <2> QED BY <1>5, <2>1, <2>2, <2>3, <2>4, Zenon
<1>9. CASE h # NULL
  <2>1. /\ waiting_lock' = [waiting_lock EXCEPT ![r] = l] /\ chain' = h /\ Goto("la_chain")
        /\ donate_priority' = [donate_priority EXCEPT ![h] = @ \cup {[donor |-> r, lock |-> l]}]
    BY <1>9, Zenon DEF lock_acquire
  <2>2. h \in Thread /\ h \in AllThread /\ r \in AllThread
    BY <1>4, <1>9, InvFacts, Zenon
  <2>3. /\ waiting_lock' \in [AllThread -> Lock \cup {NULL}] /\ waiting_lock'[r] = l
        /\ \A t \in AllThread : t # r => waiting_lock'[t] = waiting_lock[t]
    BY <2>1, <2>2, DataFacts, Zenon DEF DataTypes
  <2>4. /\ donate_priority' \in [AllThread -> SUBSET Donation]
        /\ \A t \in AllThread : t # h => donate_priority'[t] = donate_priority[t]
        /\ \A d \in donate_priority'[h] :
             d \in donate_priority[h] \/ d = [donor |-> r, lock |-> l]
    <3>1. [donor |-> r, lock |-> l] \in Donation
      BY Zenon DEF Donation
    <3>2. donate_priority \in [AllThread -> SUBSET Donation]
      BY DataFacts, Zenon DEF DataTypes
    <3> QED BY <2>1, <2>2, <3>1, <3>2, Zenon
  <2>5. DataTypes'
    BY <1>1, <1>2, <1>4, <2>1, <2>3, <2>4, DataFacts, Zenon DEF DataTypes
  <2>6. DonationsLive'
    <3> SUFFICES ASSUME NEW t \in AllThread, NEW d \in donate_priority'[t]
                 PROVE  /\ holder'[d.lock] = t
                        /\ waiting_lock'[d.donor] = d.lock
                        /\ pc'[d.donor] \in Acquiring
                        /\ arg'[d.donor] = d.lock
      BY Zenon DEF DonationsLive, Acquiring
    <3>1. CASE d \in donate_priority[t]
      <4>1. /\ d.donor \in Thread /\ holder[d.lock] = t /\ waiting_lock[d.donor] = d.lock
            /\ pc[d.donor] \in Acquiring /\ arg[d.donor] = d.lock
        BY <3>1, DonationType, Zenon
      <4>2. d.donor # r /\ pc'[d.donor] = pc[d.donor] /\ arg'[d.donor] = arg[d.donor]
            /\ d.donor \in AllThread
        BY <1>7, <4>1, InvFacts, ZenonT(30)
      <4> QED BY <1>1, <2>3, <4>1, <4>2, Zenon
    <3>2. CASE d \notin donate_priority[t]
      <4>1. t = h /\ d = [donor |-> r, lock |-> l]
        BY <2>4, <3>2, Zenon
      <4>2. d.donor = r /\ d.lock = l
        BY <4>1, Zenon
      <4>3. pc'[r] = "la_chain"
        BY <2>1, <2>2, DataFacts, ZenonT(30) DEF Goto, SynchInv, SynchTypes,
           ThreadsTypeOK
      <4> QED BY <1>1, <1>2, <2>3, <4>1, <4>2, <4>3, ZenonT(30) DEF Acquiring
    <3> QED BY <3>1, <3>2, ZenonT(30)
  <2>7. ExactButChain'
    <3>1. At("la_chain")'
      <4>1. running' = r /\ ~ in_external_intr'
        BY <1>1, Zenon DEF schedVars, intrVars
      <4>2. pc'[r] = "la_chain"
        BY <2>1, <2>2, DataFacts, ZenonT(30) DEF Goto, SynchInv, SynchTypes,
           ThreadsTypeOK
      <4> QED BY <4>1, <4>2, Zenon DEF At
    <3>2. ASSUME NEW t \in Thread, t # h PROVE Exact(t)'
      <4>1. Exact(t)
        BY Zenon DEF SynchInv, ExactButChain, At
      <4>2. donate_priority'[t] = donate_priority[t]
        BY <2>4, <3>2, InvFacts, Zenon
      <4> QED BY <1>1, <4>1, <4>2, Zenon DEF Exact
    <3> QED BY <2>1, <3>1, <3>2, Zenon DEF ExactButChain
  <2> QED BY <1>5, <2>1, <2>2, <2>5, <2>6, <2>7, Zenon
<1> QED BY <1>8, <1>9, Zenon
==============================================================================
