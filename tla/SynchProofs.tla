----------------------------- MODULE SynchProofs -----------------------------
(* Theorems about the scheduler, semaphores, locks with priority donation   *)
(* and condition variables, for any number of threads, locks, semaphores    *)
(* and conditions, any priority range, slice and naps, whatever order       *)
(* threads take locks in.                                                   *)
EXTENDS SynchSteps

(* A round of lock_acquire's loop makes the priority of one thread exact;   *)
(* the only priority that depends on it is that of the next in the chain.   *)
LEMMA PropagateKept ==
  ASSUME Laws, SynchInv, PropagateDonation PROVE SynchInv' /\ OwnersStep
<1>1. PICK r \in Thread, c \in Thread :
        /\ r = running /\ c = chain /\ ~ in_external_intr /\ pc[r] = "la_chain"
        /\ arg[r] \in Lock /\ ret[r] = "run"
  BY InOperation, Zenon DEF PropagateDonation, SynchInv, Places
<1>2. /\ priority' = [priority EXCEPT ![c] =
                        EffectivePriority(base_priority[c], donate_priority[c], priority)]
      /\ UNCHANGED <<schedVars, sleep_list, intrVars, value, waiters, holder, cond_waiters,
                     arg, ret, base_priority, donate_priority, waiting_lock>>
      /\ chain' = NextInChain
  BY <1>1, Zenon DEF PropagateDonation
<1>3. PICK p : /\ p = "la_down" \/ (p = "la_chain" /\ chain' # NULL)
               /\ Goto(p) /\ (chain' # NULL => p = "la_chain")
  <2>1. CASE chain' = NULL
    BY <2>1, Zenon DEF PropagateDonation
  <2>2. CASE chain' # NULL
    BY <2>2, <1>1, InvFacts DEF PropagateDonation, Goto, SynchInv, SynchTypes,
       ThreadsTypeOK
  <2> QED BY <2>1, <2>2, Zenon
<1>4. c \in AllThread /\ r \in AllThread
  BY InvFacts, Zenon
<1>5. chain' \in Thread \cup {NULL}
  BY <1>4, DataFacts, <1>1, <1>2, Zenon DEF DataTypes, NextInChain
<1>6. DataTypes'
  <2>2. \A d \in donate_priority[c] : priority[d.donor] \in Priority
    BY <1>4, DonationType, InvFacts, DataFacts DEF DataTypes
  <2> QED BY <1>2, <1>5, DataFacts, <1>4, <2>2, EffectiveType, Zenon DEF DataTypes
<1>7. \A u \in AllSema : value'[u] <= value[u]
  BY <1>2 DEF SynchInv, SynchTypes
<1>8. /\ SynchTypes' /\ Places' /\ ElemInOneList' /\ SleepersBlocked' /\ NoLostWakeup'
      /\ OthersStay /\ pc'[r] = p
  <2>1. p \in Label \ {"loop", "hlt"} /\ pc[r] \notin {"la_retry", "sd_retry", "cw_retry"}
        /\ p \notin {"lr_up", "cw_release", "cw_down", "cw_retry", "cw_acquire"}
        /\ p # "sd_retry" /\ p # "cb_next" /\ (p = "la_chain" => chain' \in Thread)
    BY <1>1, <1>3, <1>5, Zenon DEF Label
  <2> QED BY <1>1, <1>2, <1>3, <1>6, <1>7, <2>1, MoveCommon
<1>9. OwnersStep
  BY <1>1, <1>2, <1>3, <1>8, OwnersSame DEF Owns, OthersStay
<1>10. HolderUnset'
  BY <1>1, <1>2, <1>3, <1>8, UnsetKept, Zenon
<1>11. DonationsLive'
  BY <1>1, <1>2, <1>3, <1>8, DonationsQuiet DEF Acquiring, OthersStay
<1>12. ExactButChain'
  <2>1. \A t \in Thread : t # c => Exact(t)
    BY <1>1, Zenon DEF SynchInv, ExactButChain
  <2>2. ASSUME NEW t \in Thread, NEW d \in donate_priority'[t], d.donor = c
        PROVE  At("la_chain")' /\ t = chain'
    <3>1. /\ holder[d.lock] = t /\ waiting_lock[c] = d.lock /\ d.lock \in Lock
      BY <1>2, <2>2, DonationType, InvFacts, Zenon
    <3>2. d.lock # NULL /\ NULL \notin Thread
      BY <3>1, ThreadsAssumption, Zenon DEF AllThread
    <3>3. chain' = t
      BY <1>1, <1>2, <3>1, <3>2, Zenon DEF NextInChain
    <3> QED BY <1>3, <1>8, <3>2, <3>3, <1>1, <1>2 DEF At, schedVars, intrVars
  <2>3. /\ priority' = [priority EXCEPT ![c] =
                          EffectivePriority(base_priority'[c], donate_priority'[c], priority)]
        /\ \A t \in Thread : t # c => /\ base_priority'[t] = base_priority[t]
                                      /\ donate_priority'[t] = donate_priority[t]
                                      /\ Exact(t)
        /\ \A d \in donate_priority'[c] : d \in donate_priority[c]
    BY <1>2, <2>1, Zenon
  <2> QED BY <2>2, <2>3, ExactUpdate, Zenon
<1>13. Signals'
  <2>1. \A t \in Thread : InWait(t)' <=> InWait(t)
    BY <1>1, <1>2, <1>3, <1>8, Zenon DEF InWait, OthersStay
  <2> QED BY <1>2, <2>1, SignalsSame, Zenon
<1> QED BY <1>8, <1>9, <1>10, <1>11, <1>12, <1>13, OneOwnerKept DEF SynchInv

(* lock_release up to sema_up, called by lock_release's caller or by        *)
(* cond_wait: it gives back exactly the donations for this lock.            *)
LEMMA ReleaseKept ==
  ASSUME Laws, SynchInv, NEW r \in Thread, r = running, ~ in_external_intr,
         NEW to, \/ pc[r] = "run" /\ to = "run"
                 \/ pc[r] = "cw_release" /\ to = "cw_down",
         NEW l \in Lock, lock_release(l, to)
  PROVE  SynchInv' /\ OwnersStep
<1>1. /\ holder[l] = r /\ holder' = [holder EXCEPT ![l] = NULL]
      /\ donate_priority' = [donate_priority EXCEPT ![r] = @ \ Returned(l)]
      /\ waiting_lock' = [t \in AllThread |->
                            IF StopsWaiting(t, l) THEN NULL ELSE waiting_lock[t]]
      /\ priority' = [priority EXCEPT ![r] =
                        EffectivePriority(base_priority[r], donate_priority'[r], priority)]
      /\ arg' = [arg EXCEPT ![r] = l] /\ ret' = [ret EXCEPT ![r] = to] /\ Goto("lr_up")
      /\ UNCHANGED <<schedVars, sleep_list, intrVars, waiters, cond_waiters, value, chain,
                     base_priority>>
  BY Zenon DEF lock_release
<1>2. r \in AllThread /\ NULL \notin Thread
  BY InvFacts, ThreadsAssumption, Zenon DEF AllThread
<1>3. /\ arg' \in [AllThread -> AllSema \cup Cond \cup {NULL}]
      /\ ret' \in [AllThread -> {"run", "cw_down"}] /\ arg'[r] = l /\ ret'[r] = to
      /\ \A t \in Thread : t # r => arg'[t] = arg[t] /\ ret'[t] = ret[t]
  BY <1>1, InvFacts, Zenon DEF SynchInv, SynchTypes, AllSema
<1>4. \A u \in AllSema : value'[u] <= value[u]
  BY <1>1 DEF SynchInv, SynchTypes
<1>5. /\ holder' \in [Lock -> Thread \cup {NULL}] /\ holder'[l] = NULL
      /\ \A m \in Lock : m # l => holder'[m] = holder[m]
  BY <1>1, DataFacts, Zenon DEF DataTypes
<1>6. /\ donate_priority' \in [AllThread -> SUBSET Donation]
      /\ \A t \in AllThread : t # r => donate_priority'[t] = donate_priority[t]
      /\ \A d \in donate_priority'[r] : d \in donate_priority[r] /\ d.lock # l
  BY DataFacts, <1>1, <1>2, Zenon DEF DataTypes, Returned
<1>7. waiting_lock' \in [AllThread -> Lock \cup {NULL}]
  BY <1>1, DataFacts, Zenon DEF DataTypes
<1>8. priority' \in [AllThread -> Priority]
  <2>1. base_priority[r] \in Priority
    BY <1>2, DataFacts, Zenon DEF DataTypes
  <2>2. \A d \in donate_priority'[r] : priority[d.donor] \in Priority
    <3>1. \A d \in donate_priority'[r] : d.donor \in AllThread
      BY <1>2, <1>6, DonationType, InvFacts, Zenon
    <3> QED BY <3>1, DataFacts, Zenon DEF DataTypes
  <2>3. EffectivePriority(base_priority[r], donate_priority'[r], priority) \in Priority
    BY <2>1, <2>2, EffectiveType, Zenon
  <2> QED BY <1>1, <1>2, <2>3, DataFacts, Zenon DEF DataTypes
<1>9. DataTypes'
  BY <1>1, <1>3, <1>5, <1>6, <1>7, <1>8, DataFacts DEF DataTypes
<1>10. /\ SynchTypes' /\ Places' /\ ElemInOneList' /\ SleepersBlocked' /\ NoLostWakeup'
       /\ OthersStay /\ pc'[r] = "lr_up"
  <2>1. "lr_up" \in Label \ {"loop", "hlt"} /\ pc[r] \notin {"la_retry", "sd_retry", "cw_retry"}
    BY Zenon DEF Label
  <2> QED BY <1>1, <1>3, <1>4, <1>9, <2>1, MoveCommon
<1>11. OwnersStep
  <2>1. ASSUME NEW m \in Lock PROVE Owns(r, m)' <=> Owns(r, m)
    <3>1. Owns(r, m) <=> holder[m] = r
      BY Zenon DEF Owns
    <3> QED BY <1>1, <1>5, <3>1, <1>3, <1>10, Zenon DEF Owns
  <2>2. ASSUME NEW t \in Thread, t # r, NEW m \in Lock PROVE Owns(t, m)' <=> Owns(t, m)
    <3>1. holder'[m] = t <=> holder[m] = t
      BY <1>1, <1>2, <1>5, <2>2, Zenon
    <3> QED BY <1>10, <2>2, <3>1, Zenon DEF Owns, OthersStay
  <2> QED BY <1>1, <2>1, <2>2, OwnersSame, Zenon
<1>12. HolderUnset'
  <2>1. \A t \in Thread, m \in Lock : holder'[m] = t => holder[m] = t \/ t = running
    BY <1>2, <1>5, Zenon
  <2>2. holder'[arg'[r]] # r
    BY <1>2, <1>3, <1>5, Zenon
  <2> QED BY <1>10, <2>1, <2>2, UnsetKept, Zenon
<1>13. DonationsLive'
  <2> SUFFICES ASSUME NEW h \in AllThread, NEW d \in donate_priority'[h]
               PROVE  /\ holder'[d.lock] = h
                      /\ waiting_lock'[d.donor] = d.lock
                      /\ pc'[d.donor] \in Acquiring
                      /\ arg'[d.donor] = d.lock
    BY Zenon DEF DonationsLive, Acquiring
  <2>1. d \in donate_priority[h]
    BY <1>6, Zenon
  <2>2. /\ d.donor \in Thread /\ d.lock \in Lock
        /\ holder[d.lock] = h /\ waiting_lock[d.donor] = d.lock
        /\ pc[d.donor] \in Acquiring /\ arg[d.donor] = d.lock
    BY <2>1, DonationType, Zenon
  <2>3. d.lock # l
    BY <1>1, <1>6, <2>2, Zenon
  <2>4. d.donor # r /\ pc'[d.donor] = pc[d.donor] /\ arg'[d.donor] = arg[d.donor]
    BY <1>10, <2>2, Zenon DEF OthersStay, Acquiring
  <2>5. waiting_lock'[d.donor] = waiting_lock[d.donor]
    BY <1>1, <2>2, <2>3, InvFacts, Zenon DEF StopsWaiting
  <2> QED BY <1>5, <2>2, <2>3, <2>4, <2>5
<1>14. ExactButChain'
  <2>1. \A t \in Thread : t # r => /\ base_priority'[t] = base_priority[t]
                                   /\ donate_priority'[t] = donate_priority[t]
                                   /\ Exact(t)
    BY <1>1, <1>6, InvFacts, Zenon DEF SynchInv, ExactButChain, At
  <2>2. ASSUME NEW t \in Thread, NEW d \in donate_priority'[t], d.donor = r PROVE FALSE
    <3>2. pc[r] \in Acquiring
      BY <2>2, DonationType, <1>6, InvFacts
    <3> QED BY <3>2, Zenon DEF Acquiring
  <2> QED BY <2>1, <2>2, ExactUpdate, <1>1, <1>6, Zenon
<1>15. Signals'
  BY <1>3, <1>10, <1>1, SignalsSame, Zenon DEF InWait, OthersStay
<1> QED BY <1>10, <1>11, <1>12, <1>13, <1>14, <1>15, OneOwnerKept DEF SynchInv

(* cond_wait up to lock_release: the thread's semaphore is fresh, and no    *)
(* other thread has ever waited for it.                                     *)
LEMMA CondWaitKept ==
  ASSUME Laws, SynchInv, NEW c \in Cond, CondWait(c) PROVE SynchInv' /\ OwnersStep
<1>1. PICK r \in Thread : r = running /\ ~ in_external_intr /\ pc[r] = "run"
  BY Zenon DEF CondWait, AtRun, SynchInv, SynchTypes, ThreadsTypeOK, AllThread
<1>2. /\ value' = [value EXCEPT ![r] = 0] /\ Goto("cw_release")
      /\ waiters' = [waiters EXCEPT ![r] = <<>>]
      /\ cond_waiters' = [cond_waiters EXCEPT ![c] = Append(@, r)]
      /\ arg' = [arg EXCEPT ![r] = CondLock[c]]
      /\ UNCHANGED <<schedVars, sleep_list, intrVars, holder, ret, chain>>
      /\ UNCHANGED <<base_priority, priority, donate_priority, waiting_lock>>
  BY <1>1, Zenon DEF CondWait, priorityVars
<1>3. r \in AllThread /\ r \in AllSema /\ CondLock[c] \in Lock
  BY InvFacts, SynchAssumption, Zenon
<1>4. waiters' = waiters
  <2>1. ASSUME NEW t \in Thread PROVE ~ WaitsFor(t, r)
    BY <1>1, SynchAssumption DEF SynchInv, Places, WaitsFor
  <2>2. waiters[r] \in Seq(Thread) /\ \A t \in Thread : t \notin Range(waiters[r])
    BY <1>3, <2>1, InvFacts, Zenon
  <2>3. waiters[r] = <<>>
    <3> SUFFICES ASSUME waiters[r] # <<>> PROVE FALSE
      BY Zenon
    <3>1. 1 \in DOMAIN waiters[r] /\ waiters[r][1] \in Thread
      BY <2>2
    <3> QED BY <2>2, <3>1, Zenon DEF Range
  <2>4. waiters \in [AllSema -> Seq(Thread)]
    BY Zenon DEF SynchInv, SynchTypes
  <2> QED BY <1>2, <2>3, <2>4, Zenon
<1>5. /\ value' \in [AllSema -> Nat] /\ value'[r] = 0
      /\ \A u \in AllSema : value'[u] <= value[u] /\ (u # r => value'[u] = value[u])
  BY <1>2, <1>3 DEF SynchInv, SynchTypes
<1>6. /\ arg' \in [AllThread -> AllSema \cup Cond \cup {NULL}] /\ arg'[r] \in Lock
      /\ \A t \in Thread : t # r => arg'[t] = arg[t]
  BY <1>2, <1>3, InvFacts, Zenon DEF SynchInv, SynchTypes, AllSema
<1>7. ~ InWait(r) /\ ~ Signallable(r)
  BY <1>1, Zenon DEF InWait, SynchInv, Signals
<1>8. /\ cond_waiters' \in [Cond -> Seq(Thread)]
      /\ \A d \in Cond : IsInjective(cond_waiters'[d])
      /\ Range(cond_waiters'[c]) = Range(cond_waiters[c]) \cup {r}
      /\ \A d \in Cond : d # c => cond_waiters'[d] = cond_waiters[d]
  <2>1. cond_waiters \in [Cond -> Seq(Thread)] /\ \A d \in Cond : IsInjective(cond_waiters[d])
    BY Zenon DEF SynchInv, SynchTypes, Signals
  <2>2. r \notin Range(cond_waiters[c])
    BY <1>7, Zenon DEF Signallable
  <2>3. /\ Append(cond_waiters[c], r) \in Seq(Thread)
        /\ Range(Append(cond_waiters[c], r)) = Range(cond_waiters[c]) \cup {r}
        /\ IsInjective(Append(cond_waiters[c], r))
    BY <2>1, <2>2, AppendFacts
  <2>4. cond_waiters' = [cond_waiters EXCEPT ![c] = Append(cond_waiters[c], r)]
    BY <1>2, Zenon
  <2> QED BY <2>1, <2>3, <2>4, Zenon
<1>9. DataTypes'
  BY <1>2, <1>5, <1>6, <1>8, DataFacts, Zenon DEF DataTypes
<1>10. /\ SynchTypes' /\ Places' /\ ElemInOneList' /\ SleepersBlocked' /\ NoLostWakeup'
       /\ OthersStay /\ pc'[r] = "cw_release"
  <2>1. "cw_release" \in Label \ {"loop", "hlt"}
    BY Zenon DEF Label
  <2> QED BY <1>1, <1>2, <1>4, <1>5, <1>6, <1>9, <2>1, MoveCommon
<1>11. OwnersStep
  <2>1. \A t \in Thread, m \in Lock : Owns(t, m)' <=> Owns(t, m)
    BY <1>1, <1>2, <1>10, Zenon DEF Owns, OthersStay
  <2>2. \A m \in Lock : value'[m] = value[m]
    BY <1>5, SynchAssumption, Zenon DEF AllSema
  <2> QED BY <2>1, <2>2, OwnersSame, Zenon
<1>12. HolderUnset'
  BY <1>1, <1>2, <1>10, UnsetKept, Zenon
<1>13. DonationsLive'
  <2>1. \A t \in Thread : pc[t] \in Acquiring => pc'[t] = pc[t] /\ arg'[t] = arg[t]
    BY <1>1, <1>10, Zenon DEF Acquiring, OthersStay
  <2> QED BY <1>2, <2>1, DonationsQuiet, Zenon
<1>14. ExactButChain'
  BY <1>1, <1>2, ExactQuiet, Zenon DEF At
<1>15. Signals'
  <2>1. \A t \in Thread : InWait(t)' <=> InWait(t) \/ t = r
    BY <1>1, <1>10, Zenon DEF InWait, OthersStay
  <2>2. \A t \in Thread : Signallable(t)' <=> Signallable(t) \/ t = r
    BY <1>8, Zenon DEF Signallable
  <2>3. /\ \A d, e \in Cond, t \in Thread :
             t \in Range(cond_waiters[d]) /\ t \in Range(cond_waiters[e]) => d = e
        /\ \A t \in Thread : Signallable(t) => InWait(t)
        /\ \A t \in Thread : InWait(t) => value[t] = IF Signallable(t) THEN 0 ELSE 1
    BY Zenon DEF SynchInv, Signals
  <2>4. \A d, e \in Cond, t \in Thread :
          t \in Range(cond_waiters'[d]) /\ t \in Range(cond_waiters'[e]) => d = e
    BY <1>7, <1>8, <2>3 DEF Signallable
  <2>5. \A t \in Thread : Signallable(t)' => InWait(t)'
    BY <2>1, <2>2, <2>3, Zenon
  <2>6. ASSUME NEW t \in Thread, InWait(t)'
        PROVE  value'[t] = IF Signallable(t)' THEN 0 ELSE 1
    <3>1. CASE t = r
      BY <1>5, <2>2, <3>1, Zenon
    <3>2. CASE t # r
      <4>1. InWait(t) /\ value'[t] = value[t] /\ (Signallable(t)' <=> Signallable(t))
        BY <1>5, <2>1, <2>2, <2>6, <3>2, InvFacts, Zenon
      <4> QED BY <2>3, <4>1, Zenon
    <3> QED BY <3>1, <3>2, Zenon
  <2> QED BY <1>8, <2>4, <2>5, <2>6, Zenon DEF Signals
<1> QED BY <1>10, <1>11, <1>12, <1>13, <1>14, <1>15, OneOwnerKept DEF SynchInv

(* cond_broadcast returns.                                                  *)
LEMMA BroadcastDoneKept ==
  ASSUME Laws, SynchInv, CondBroadcastDone PROVE SynchInv' /\ OwnersStep
<1>1. PICK r \in Thread : r = running /\ ~ in_external_intr /\ pc[r] = "cb_next"
  BY InOperation, Zenon DEF CondBroadcastDone
<1>2. /\ Goto("run")
      /\ UNCHANGED <<schedVars, sleep_list, intrVars, value, waiters, holder, cond_waiters, arg,
                     ret, chain>>
      /\ UNCHANGED <<base_priority, priority, donate_priority, waiting_lock>>
  BY Zenon DEF CondBroadcastDone, synchVars, priorityVars
<1>3. DataTypes'
  BY <1>2, DataFacts, Zenon DEF DataTypes
<1>4. \A u \in AllSema : value'[u] <= value[u]
  BY <1>2 DEF SynchInv, SynchTypes
<1>5. /\ SynchTypes' /\ Places' /\ ElemInOneList' /\ SleepersBlocked' /\ NoLostWakeup'
      /\ OthersStay /\ pc'[r] = "run"
  <2>1. "run" \in Label \ {"loop", "hlt"}
    BY Zenon DEF Label
  <2> QED BY <1>1, <1>2, <1>3, <1>4, <2>1, MoveCommon
<1>6. OwnersStep
  BY <1>1, <1>2, <1>5, OwnersSame, Zenon DEF Owns, OthersStay
<1>7. HolderUnset'
  BY <1>1, <1>2, <1>5, UnsetKept, Zenon
<1>8. DonationsLive'
  <2>1. \A t \in Thread : pc[t] \in Acquiring => pc'[t] = pc[t] /\ arg'[t] = arg[t]
    BY <1>1, <1>5, Zenon DEF Acquiring, OthersStay
  <2> QED BY <1>2, <2>1, DonationsQuiet, Zenon
<1>9. ExactButChain'
  BY <1>1, <1>2, ExactQuiet, Zenon DEF At
<1>10. Signals'
  <2>1. \A t \in Thread : InWait(t)' <=> InWait(t)
    BY <1>1, <1>5, Zenon DEF InWait, OthersStay
  <2> QED BY <1>2, <2>1, SignalsSame, Zenon
<1> QED BY <1>5, <1>6, <1>7, <1>8, <1>9, <1>10, OneOwnerKept, Zenon DEF SynchInv

-----------------------------------------------------------------------------
(* Steps of the scheduler and of the timer interrupt.                      *)

(* Such a step moves no thread, and no thread is in lock_acquire's loop.    *)
LEMMA StepCommon ==
  ASSUME Laws, SynchInv, UNCHANGED synchVars, \A t \in Thread : pc'[t] = pc[t],
         pc'[Idle] \in {"loop", "hlt"}, \A t \in Thread : pc[t] # "la_chain",
         donate_priority' = donate_priority, waiting_lock' = waiting_lock,
         ThreadsTypeOK', ElemInOneList', SleepersBlocked', ExactButChain',
         NEW W, NEW B, Switch(W, B),
         \A t \in Thread, u \in AllSema : WaitsFor(t, u) => t \notin B
  PROVE  SynchInv' /\ OwnersStep
<1>1. UNCHANGED <<value, waiters, holder, cond_waiters, arg, ret, chain>>
  BY Zenon DEF synchVars
<1>2. SynchTypes'
  BY <1>1, Zenon DEF SynchInv, SynchTypes
<1>3. Places'
  BY <1>1, Zenon DEF SynchInv, Places
<1>4. OwnersStep
  BY <1>1, OwnersSame, Zenon DEF Owns
<1>5. HolderUnset'
  BY <1>1, Zenon DEF SynchInv, HolderUnset
<1>6. DonationsLive'
  BY <1>1, DonationsQuiet, Zenon
<1>7. Signals'
  BY <1>1, SignalsSame, Zenon DEF InWait
<1>8. NoLostWakeup'
  <2>1. ASSUME NEW u \in AllSema
        PROVE  waiters'[u] # <<>> => value'[u] <= Cardinality(WokenFor(u)')
    <3>1. ASSUME NEW t \in Thread, t \in WokenFor(u) PROVE t \in WokenFor(u)'
      <4>1. WaitsFor(t, u) /\ status[t] # "BLOCKED"
        BY <3>1, Zenon DEF WokenFor
      <4>2. WaitsFor(t, u)'
        BY <1>1, <4>1, Zenon DEF WaitsFor
      <4>3. status'[t] # "BLOCKED"
        BY <4>1, Zenon DEF Switch
      <4> QED BY <4>2, <4>3, Zenon DEF WokenFor
    <3>2. value[u] \in Nat
      BY Zenon DEF SynchInv, SynchTypes
    <3>3. value'[u] \in Nat /\ value'[u] <= value[u] /\ waiters'[u] = waiters[u]
      BY <1>1, <3>2
    <3> QED BY <3>1, <3>3, WakeupKept, Zenon
  <2> QED BY <2>1, WakeupParts, Zenon
<1> QED BY <1>2, <1>3, <1>4, <1>5, <1>6, <1>7, <1>8, OneOwnerKept DEF SynchInv

(* A step that blocks no thread and leaves its lists and priorities alone.  *)
LEMMA StepQuiet ==
  ASSUME Laws, SynchInv, UNCHANGED synchVars, \A t \in Thread : pc'[t] = pc[t],
         pc'[Idle] \in {"loop", "hlt"}, \A t \in Thread : pc[t] # "la_chain",
         UNCHANGED priorityVars, ThreadsTypeOK', Switch({}, {}),
         DOMAIN sleep_list' = DOMAIN sleep_list,
         \A i \in DOMAIN sleep_list : sleep_list'[i].t = sleep_list[i].t
  PROVE  SynchInv' /\ OwnersStep
<1>1. UNCHANGED <<base_priority, priority, donate_priority, waiting_lock>>
  BY Zenon DEF priorityVars
<1>2. OthersStay /\ waiters' = waiters
  BY Zenon DEF OthersStay, synchVars
<1>3. ElemInOneList' /\ SleepersBlocked'
  BY <1>2, ElemQuiet, Zenon
<1>4. ExactButChain'
  <2>1. ~ At("la_chain")
    BY Zenon DEF At, SynchInv, SynchTypes, ThreadsTypeOK, AllThread, Places
  <2> QED BY <1>1, <2>1, ExactQuiet, Zenon
<1> QED BY <1>1, <1>3, <1>4, StepCommon

(* Where a thread calls the scheduler or timer_sleep.                       *)
LEMMA CallerFacts ==
  ASSUME SynchInv, NEW op, AtRun(op)
  PROVE  /\ running \in Thread /\ ~ in_external_intr /\ pc[running] = "run"
         /\ \A t \in Thread : pc[t] # "la_chain"
         /\ pc[Idle] \in {"loop", "hlt"}
BY Zenon DEF AtRun, SynchInv, SynchTypes, ThreadsTypeOK, AllThread, Places

(* thread_yield and thread_exit called by a thread.                         *)
LEMMA YieldExitKept ==
  ASSUME Laws, SynchInv, UNCHANGED synchVars, Yield \/ thread_exit PROVE SynchInv' /\ OwnersStep
<1>1. /\ ~ in_external_intr /\ \A t \in Thread : pc[t] # "la_chain"
      /\ running \in Thread /\ pc[Idle] \in {"loop", "hlt"}
  BY CallerFacts, Zenon DEF Yield, thread_exit
<1>2. UNCHANGED <<pc, sleep_list, priorityVars, intrVars>>
  BY Zenon DEF Yield, thread_exit
<1>3. Switch({}, {})
  <2>1. CASE Yield
    BY <2>1, PlainYield, InvFacts, ZenonT(30) DEF Yield
  <2>2. CASE thread_exit
    <3>1. PICK d \in Status \ {"RUNNING", "READY"} :
            d # "BLOCKED" /\ schedule(ready_list, [status EXCEPT ![running] = d])
      BY <2>2, Zenon DEF thread_exit, Status
    <3> QED BY <3>1, BlockSwitch, InvFacts, Zenon
  <2> QED BY <2>1, <2>2, Zenon
<1>4. ThreadsTypeOK'
  BY <1>2, <1>3, InvFacts, ThreadsTypes DEF ThreadsTypeOK
<1> QED BY <1>1, <1>2, <1>3, <1>4, StepQuiet

(* The idle thread blocks.                                                  *)
LEMMA IdleBlockKept ==
  ASSUME Laws, SynchInv, UNCHANGED synchVars, IdleBlock PROVE SynchInv' /\ OwnersStep
<1>1. /\ running = Idle /\ pc' = [pc EXCEPT ![Idle] = "hlt"]
      /\ UNCHANGED <<sleep_list, priorityVars, intrVars>>
      /\ schedule(ready_list, [status EXCEPT ![running] = "BLOCKED"])
  BY Zenon DEF IdleBlock, thread_block
<1>2. \A t \in Thread : pc[t] # "la_chain" /\ t # Idle /\ t \in AllThread
  BY <1>1, InvFacts, Zenon DEF SynchInv, Places
<1>3. /\ pc' \in [AllThread -> Label] /\ \A t \in Thread : pc'[t] = pc[t]
      /\ pc'[Idle] \in {"loop", "hlt"}
  BY <1>1, <1>2, Zenon DEF SynchInv, SynchTypes, ThreadsTypeOK, Label, AllThread
<1>4. Switch({}, {})
  BY <1>1, BlockSwitch, InvFacts, Zenon DEF Status
<1>5. ThreadsTypeOK'
  BY <1>1, <1>3, <1>4, InvFacts, ThreadsTypes, ZenonT(30) DEF ThreadsTypeOK
<1> QED BY <1>1, <1>2, <1>3, <1>4, <1>5, StepQuiet

(* thread_set_priority keeps the donations the thread has received.         *)
LEMMA SetPriorityKept ==
  ASSUME Laws, SynchInv, UNCHANGED synchVars, NEW p \in Priority, thread_set_priority(p)
  PROVE  SynchInv' /\ OwnersStep
<1>1. PICK r \in Thread :
        /\ r = running /\ pc[r] = "run" /\ ~ in_external_intr
        /\ pc[Idle] \in {"loop", "hlt"} /\ \A t \in Thread : pc[t] # "la_chain"
  BY CallerFacts, Zenon DEF thread_set_priority
<1>2. /\ base_priority' = [base_priority EXCEPT ![r] = p]
      /\ priority' = [priority EXCEPT ![r] =
                        EffectivePriority(p, donate_priority[r], priority)]
      /\ UNCHANGED <<pc, sleep_list, donate_priority, waiting_lock, intrVars>>
      /\ thread_yield(ready_list, status, priority') \/ UNCHANGED schedVars
  BY <1>1, Zenon DEF thread_set_priority
<1>3. r \in AllThread
  BY InvFacts, Zenon
<1>4. /\ base_priority' \in [AllThread -> Priority] /\ base_priority'[r] = p
      /\ \A t \in Thread : t # r => base_priority'[t] = base_priority[t]
  BY <1>2, <1>3, InvFacts, Zenon DEF SynchInv, SynchTypes, ThreadsTypeOK
<1>5. priority' \in [AllThread -> Priority]
  <2>1. \A d \in donate_priority[r] : priority[d.donor] \in Priority
    <3>1. \A d \in donate_priority[r] : d.donor \in AllThread
      BY <1>3, DonationType, InvFacts, Zenon
    <3> QED BY <3>1, DataFacts, Zenon DEF DataTypes
  <2>2. EffectivePriority(p, donate_priority[r], priority) \in Priority
    BY <2>1, EffectiveType, Zenon
  <2> QED BY <1>2, <1>3, <2>2, DataFacts, Zenon DEF DataTypes
<1>6. Switch({}, {})
  <2>1. priority' \in [AllThread -> Int]
    BY <1>5 DEF Priority
  <2> QED BY <1>2, <2>1, PlainYield, NoSwitch, InvFacts, Zenon
<1>7. ThreadsTypeOK'
  BY <1>6, <1>2, <1>4, <1>5 DEF Switch, SynchInv, SynchTypes, ThreadsTypeOK, intrVars
<1>9. ElemInOneList' /\ SleepersBlocked'
  BY <1>2, <1>6, ElemQuiet, Zenon DEF OthersStay, synchVars
<1>10. ExactButChain'
  <2>1. \A t \in Thread : t # r => /\ base_priority'[t] = base_priority[t]
                                   /\ donate_priority'[t] = donate_priority[t]
                                   /\ Exact(t)
    BY <1>1, <1>2, <1>4, Zenon DEF SynchInv, ExactButChain, At
  <2>2. ASSUME NEW t \in Thread, NEW d \in donate_priority'[t], d.donor = r PROVE FALSE
    BY <1>2, InvFacts, <2>2, DonationType, <1>1 DEF Acquiring
  <2>3. /\ priority' = [priority EXCEPT ![r] =
                          EffectivePriority(base_priority'[r], donate_priority'[r], priority)]
        /\ \A d \in donate_priority'[r] : d \in donate_priority[r]
    BY <1>2, <1>4, Zenon
  <2> QED BY <2>1, <2>2, <2>3, ExactUpdate, ZenonT(30)
<1> QED BY <1>1, <1>2, <1>6, <1>7, <1>9, <1>10, StepCommon

(* timer_sleep.                                                             *)
LEMMA SleepKept ==
  ASSUME Laws, SynchInv, UNCHANGED synchVars, NEW n \in Naps, timer_sleep(n)
  PROVE  SynchInv' /\ OwnersStep
<1>1. PICK r \in Thread :
        /\ r = running /\ pc[r] = "run" /\ ~ in_external_intr
        /\ pc[Idle] \in {"loop", "hlt"} /\ \A t \in Thread : pc[t] # "la_chain"
  BY CallerFacts, Zenon DEF timer_sleep
<1>2. /\ sleep_list' = SleepInsert(sleep_list, [t |-> r, left |-> n])
      /\ schedule(ready_list, [status EXCEPT ![running] = "BLOCKED"])
      /\ UNCHANGED <<pc, priorityVars, intrVars>>
  BY <1>1, Zenon DEF timer_sleep, thread_block
<1>3. Switch({}, {r})
  BY InvFacts, <1>1, <1>2, BlockSwitch, Zenon DEF Status
<1>4. /\ \A t \in Thread : \A s : WaitsFor(t, s)' <=> WaitsFor(t, s)
      /\ \A s : ~ WaitsFor(r, s)
      /\ waiters' = waiters
  BY <1>1, <1>2, Zenon DEF WaitsFor, synchVars
<1>5. ElemInOneList' /\ SleepersBlocked' /\ sleep_list' \in Seq(Sleeper)
  BY ThreadsAssumption, <1>1, <1>2, <1>3, <1>4, ElemSleep
<1>6. ThreadsTypeOK'
  BY <1>2, <1>3, <1>5, InvFacts, ThreadsTypes, Zenon DEF ThreadsTypeOK
<1>7. UNCHANGED <<base_priority, priority, donate_priority, waiting_lock>>
  BY <1>2, Zenon DEF priorityVars
<1>8. ExactButChain'
  BY <1>1, <1>7, ExactQuiet, Zenon DEF At
<1> QED BY <1>1, <1>2, <1>3, <1>4, <1>5, <1>6, <1>7, <1>8, StepCommon

(* The timer interrupt's tick.                                              *)
LEMMA TickKept ==
  ASSUME Laws, SynchInv, UNCHANGED synchVars, TimerInterrupt PROVE SynchInv' /\ OwnersStep
<1>1. /\ ~ in_external_intr /\ pc[running] \notin IntrOff
      /\ in_external_intr' = TRUE /\ yield_on_return' = FALSE
      /\ sleep_list' = [i \in DOMAIN sleep_list |-> [sleep_list[i] EXCEPT !.left = @ - 1]]
      /\ UNCHANGED <<schedVars, pc, priorityVars>>
  BY Zenon DEF TimerInterrupt
<1>2. /\ \A t \in Thread : pc[t] # "la_chain"
      /\ pc[Idle] \in {"loop", "hlt"}
  BY <1>1, Zenon DEF SynchInv, Places, IntrOff
<1>3. Switch({}, {})
  BY <1>1, NoSwitch, InvFacts, Zenon
<1>4. /\ DOMAIN sleep_list = 1..Len(sleep_list) /\ Len(sleep_list) \in Nat
      /\ \A i \in DOMAIN sleep_list : sleep_list[i] \in Sleeper
  BY DEF SynchInv, SynchTypes, ThreadsTypeOK
<1>5. /\ DOMAIN sleep_list' = DOMAIN sleep_list
      /\ \A i \in DOMAIN sleep_list : /\ sleep_list'[i] \in Sleeper
                                      /\ sleep_list'[i].t = sleep_list[i].t
  BY <1>1, <1>4 DEF Sleeper
<1>6. sleep_list' \in Seq(Sleeper)
  <2>1. sleep_list' \in [1..Len(sleep_list) -> Sleeper]
    BY <1>1, <1>4, <1>5, ZenonT(30)
  <2> QED BY <1>4, <2>1
<1>7. ThreadsTypeOK'
  BY <1>1, <1>6, Zenon DEF SynchInv, SynchTypes, ThreadsTypeOK, schedVars, priorityVars
<1> QED BY <1>1, <1>2, <1>3, <1>5, <1>7, StepQuiet

(* The timer interrupt unblocks a sleeper.                                  *)
LEMMA WakeSleeperKept ==
  ASSUME Laws, SynchInv, UNCHANGED synchVars, WakeSleeper PROVE SynchInv' /\ OwnersStep
<1>1. PICK w : w = Head(sleep_list).t
  BY Zenon
<1>2. /\ in_external_intr /\ sleep_list # <<>>
      /\ ready_list' = ReadyInsert(ready_list, w, priority)
      /\ status' = [status EXCEPT ![w] = "READY"]
      /\ yield_on_return' = (yield_on_return \/ priority[w] > priority[running])
      /\ sleep_list' = Tail(sleep_list)
      /\ UNCHANGED <<running, thread_ticks, pc, priorityVars, in_external_intr>>
  BY <1>1, Zenon DEF WakeSleeper, SleeperDue, SleepersLeft
<1>3. w \in Thread /\ status[w] = "BLOCKED"
  <2>1. sleep_list \in Seq(Sleeper)
    BY Zenon DEF SynchInv, SynchTypes, ThreadsTypeOK
  <2>2. 1 \in DOMAIN sleep_list /\ Head(sleep_list) = sleep_list[1] /\ sleep_list[1] \in Sleeper
    BY <1>2, <2>1
  <2> QED BY <1>1, <2>2, Zenon DEF Sleeper, SynchInv, SleepersBlocked
<1>4. Switch({w}, {})
  BY <1>2, <1>3, InvFacts, WakeQueue, SMTT(30) DEF RunQueueConsistent, SynchInv,
     SynchTypes, ThreadsTypeOK, Switch
<1>5. /\ \A t \in Thread : \A s : WaitsFor(t, s)' <=> WaitsFor(t, s)
      /\ waiters' = waiters
  BY <1>2, Zenon DEF WaitsFor, synchVars
<1>6. ElemInOneList' /\ SleepersBlocked' /\ sleep_list' \in Seq(Sleeper)
  BY <1>1, <1>2, <1>4, <1>5, ElemAwake, Zenon
<1>7. UNCHANGED <<base_priority, priority, donate_priority, waiting_lock>>
  BY <1>2, Zenon DEF priorityVars
<1>8. ThreadsTypeOK'
  <2> QED
    BY <1>6, <1>2, <1>7, <1>4, ZenonT(30) DEF ThreadsTypeOK, SynchInv, SynchTypes,
       Switch
<1>9. ExactButChain'
  BY <1>2, <1>7, ExactQuiet, Zenon DEF At
<1>10. (\A t \in Thread : pc[t] # "la_chain") /\ pc[Idle] \in {"loop", "hlt"}
  BY <1>2, Zenon DEF SynchInv, Places
<1> QED BY <1>2, <1>4, <1>6, <1>7, <1>8, <1>9, <1>10, StepCommon

(* The timer interrupt returns.                                             *)
LEMMA ReturnKept ==
  ASSUME Laws, SynchInv, UNCHANGED synchVars, InterruptReturn PROVE SynchInv' /\ OwnersStep
<1>1. /\ in_external_intr /\ in_external_intr' = FALSE /\ yield_on_return' = FALSE
      /\ UNCHANGED <<sleep_list, priorityVars>>
      /\ pc' = IF running = Idle THEN [pc EXCEPT ![Idle] = "loop"] ELSE pc
  BY Zenon DEF InterruptReturn
<1>2. (\A t \in Thread : pc[t] # "la_chain") /\ pc[Idle] \in {"loop", "hlt"}
  BY <1>1, Zenon DEF SynchInv, Places
<1>3. /\ pc' \in [AllThread -> Label] /\ \A t \in Thread : pc'[t] = pc[t]
      /\ pc'[Idle] \in {"loop", "hlt"}
  <2>1. pc \in [AllThread -> Label] /\ "loop" \in Label /\ Idle \in AllThread
    BY Zenon DEF SynchInv, SynchTypes, ThreadsTypeOK, Label, AllThread
  <2> QED BY <1>1, <1>2, <2>1, InvFacts
<1>4. Switch({}, {})
  <2>1. CASE thread_yield(ready_list, status, priority)
    BY <2>1, PlainYield, InvFacts, Zenon
  <2>2. CASE ~ thread_yield(ready_list, status, priority)
    <3>1. /\ ~ SliceEnds /\ thread_ticks' = thread_ticks + 1
          /\ UNCHANGED <<running, status, ready_list>>
      BY <2>2, Zenon DEF InterruptReturn
    <3>2. thread_ticks' \in 0..TIME_SLICE - 1
      BY <3>1, ThreadsAssumption DEF SliceEnds, SynchInv, SynchTypes,
         ThreadsTypeOK
    <3>3. RunQueueConsistent'
      BY <3>1, InvFacts, Zenon DEF RunQueueConsistent
    <3> QED BY <3>1, <3>2, <3>3, InvFacts, Zenon DEF Switch, ThreadsTypeOK
  <2> QED BY <2>1, <2>2, Zenon
<1>5. ThreadsTypeOK'
  BY <1>4, <1>1, <1>3, ZenonT(30) DEF Switch, SynchInv, SynchTypes, ThreadsTypeOK,
     priorityVars
<1> QED BY <1>1, <1>2, <1>3, <1>4, <1>5, StepQuiet

-----------------------------------------------------------------------------
(* The invariant.                                                          *)

(* The state after boot, whatever the semaphores' values.                   *)
LEMMA SynchInitInv ==
  ASSUME Laws PROVE SynchInit => SynchInv
<1> SUFFICES ASSUME SynchInit PROVE SynchInv
  BY Zenon
<1>1. /\ ThreadsTypeOK /\ RunQueueConsistent /\ SleepersBlocked
  BY InitInv, Zenon DEF SynchInit, ThreadsInv
<1>2. /\ pc = [t \in AllThread |-> IF t = Idle THEN "loop" ELSE "run"]
      /\ status = [t \in AllThread |-> IF t = Main THEN "RUNNING" ELSE "READY"]
      /\ priority = base_priority /\ base_priority \in [AllThread -> Priority]
      /\ sleep_list = <<>> /\ donate_priority = [t \in AllThread |-> {}]
  BY Zenon DEF SynchInit, ThreadsInit
<1>3. /\ value \in [AllSema -> 0..1]
      /\ (\A l \in Lock : value[l] = 1) /\ (\A t \in Thread : value[t] = 0)
      /\ waiters = [s \in AllSema |-> <<>>] /\ holder = [l \in Lock |-> NULL]
      /\ cond_waiters = [c \in Cond |-> <<>>]
      /\ arg = [t \in AllThread |-> NULL] /\ ret = [t \in AllThread |-> "run"]
      /\ chain = NULL
  BY Zenon DEF SynchInit
<1>4. \A t \in Thread : /\ pc[t] = "run" /\ status[t] # "BLOCKED" /\ t \in AllThread
                        /\ t # Idle /\ t # NULL
  BY <1>2, ThreadsAssumption, Zenon DEF AllThread
<1>5. SynchTypes
  <2>1. value \in [AllSema -> Nat]
    BY <1>3
  <2>2. waiters \in [AllSema -> Seq(Thread)] /\ cond_waiters \in [Cond -> Seq(Thread)]
    BY <1>3
  <2> QED BY <1>1, <1>3, <2>1, <2>2, Zenon DEF SynchTypes
<1>6. Places
  BY <1>2, <1>4, Zenon DEF Places, Label, AllThread
<1>7. ElemInOneList
  <2>1. \A s \in AllSema : waiters[s] = <<>> /\ IsInjective(waiters[s]) /\ Range(waiters[s]) = {}
    BY <1>3 DEF IsInjective, Range
  <2>2. DOMAIN sleep_list = {}
    BY <1>2
  <2> QED BY <1>1, <1>4, <2>1, <2>2, Zenon DEF ElemInOneList
<1>8. \A t \in Thread, l \in Lock : ~ Owns(t, l)
  BY <1>3, <1>4, Zenon DEF Owns
<1>9. OneOwner /\ HolderUnset
  BY <1>3, <1>4, <1>8, Zenon DEF OneOwner, HolderUnset
<1>10. DonationsLive
  BY <1>2, Zenon DEF DonationsLive
<1>11. ExactButChain
  <2>1. ASSUME NEW t \in Thread PROVE Exact(t)
    <3>1. donate_priority[t] = {} /\ base_priority[t] \in Priority
      BY <1>2, <1>4, Zenon
    <3>2. base_priority[t] \in Int
      BY <3>1, ThreadsAssumption DEF Priority, PRI_MIN
    <3> QED BY <1>2, <3>1, <3>2, NoDonation, Zenon DEF Exact
  <2> QED BY <2>1, Zenon DEF ExactButChain
<1>12. Signals
  BY <1>3, <1>4 DEF IsInjective, Range, Signallable, InWait, Signals
<1>13. NoLostWakeup
  BY <1>3, Zenon DEF NoLostWakeup
<1> QED BY <1>1, <1>5, <1>6, <1>7, <1>9, <1>10, <1>11, <1>12, <1>13, Zenon DEF SynchInv

(* The callers of sema_down.                                                *)
LEMMA DownStepKept ==
  ASSUME Laws, SynchInv, SemaRetry \/ LockDown \/ CondDown \/ (\E s \in Sema : SemaDown(s))
  PROVE  SynchInv' /\ OwnersStep
<1>0. arg \in [AllThread -> AllSema \cup Cond \cup {NULL}]
  BY Zenon DEF SynchInv, SynchTypes
<1>1. ASSUME NEW s \in Sema, SemaDown(s) PROVE SynchInv' /\ OwnersStep
  <2>1. PICK r \in Thread : r = running /\ ~ in_external_intr /\ pc[r] = "run"
    BY <1>1, CallerFacts, Zenon DEF SemaDown
  <2>2. /\ arg' = [arg EXCEPT ![r] = s] /\ UNCHANGED <<holder, cond_waiters, ret, chain>>
        /\ sema_down(s, "sd_retry", "run")
    BY <1>1, <2>1, Zenon DEF SemaDown
  <2>3. /\ arg' \in [AllThread -> AllSema \cup Cond \cup {NULL}] /\ arg'[r] = s
        /\ \A t \in Thread : t # r => arg'[t] = arg[t]
    BY <1>0, <2>2, InvFacts, Zenon DEF AllSema
  <2>4. InDown(r, s, "sd_retry", "run")
    BY <2>1, <2>2, <2>3, Zenon DEF InDown, sema_down
  <2> QED BY <2>2, <2>4, DownKept, Zenon
<1>2. CASE SemaRetry
  BY <1>2, InOperation, <1>0, DownKept, Zenon DEF SemaRetry, SynchInv, Places, InDown,
     sema_down
<1>3. CASE LockDown
  <2>1. PICK r \in Thread, s \in Lock :
          /\ r = running /\ ~ in_external_intr /\ pc[r] \in {"la_down", "la_retry"}
          /\ s = arg[r]
    BY <1>3, InOperation, ZenonT(30) DEF LockDown, SynchInv, Places
  <2>2. sema_down(s, "la_retry", "la_own") /\ UNCHANGED <<holder, cond_waiters, arg, ret, chain>>
    BY <1>3, <2>1, Zenon DEF LockDown
  <2> QED BY <2>2, DownKept, <1>0, <2>1, Zenon DEF InDown, sema_down
<1>4. CASE CondDown
  <2>1. PICK r \in Thread :
          r = running /\ ~ in_external_intr /\ pc[r] \in {"cw_down", "cw_retry"}
    BY <1>4, InOperation DEF CondDown
  <2>2. /\ sema_down(r, "cw_retry", "cw_acquire")
        /\ UNCHANGED <<holder, cond_waiters, arg, ret, chain>>
    BY <1>4, <2>1, Zenon DEF CondDown
  <2>3. InDown(r, r, "cw_retry", "cw_acquire")
    BY <1>0, <2>1, <2>2 DEF InDown, sema_down
  <2> QED BY <2>2, <2>3, DownKept, Zenon
<1> QED BY <1>1, <1>2, <1>3, <1>4

(* The steps of locks and condition variables that the lemmas about         *)
(* lock_acquire, lock_release and cond_signal cover.                        *)
LEMMA LockCondKept ==
  ASSUME Laws, SynchInv,
         \/ \E l \in Lock : LockAcquire(l) \/ LockRelease(l)
         \/ CondRelease \/ CondReacquire
         \/ \E c \in Cond : CondSignal(c) \/ CondBroadcast(c)
  PROVE  SynchInv' /\ OwnersStep
<1>1. ASSUME NEW l \in Lock, LockAcquire(l) PROVE SynchInv' /\ OwnersStep
  BY <1>1, CallerFacts, AcquireKept, Zenon DEF LockAcquire
<1>2. ASSUME NEW l \in Lock, LockRelease(l) PROVE SynchInv' /\ OwnersStep
  <2>1. lock_release(l, "run") /\ AtRun("lock")
    BY <1>2, Zenon DEF LockRelease
  <2> QED BY <2>1, CallerFacts, ReleaseKept, Zenon
<1>3. CASE CondRelease
  <2>1. PICK r \in Thread, l \in Lock :
          r = running /\ ~ in_external_intr /\ pc[r] = "cw_release" /\ l = arg[r]
    BY <1>3, InOperation, ZenonT(30) DEF CondRelease, SynchInv, Places
  <2>2. lock_release(l, "cw_down")
    BY <1>3, <2>1, ZenonT(30) DEF CondRelease
  <2> QED BY <2>1, <2>2, ReleaseKept
<1>4. CASE CondReacquire
  <2>1. PICK r \in Thread, l \in Lock :
          r = running /\ ~ in_external_intr /\ pc[r] = "cw_acquire" /\ l = arg[r]
    BY <1>4, InOperation, Zenon DEF CondReacquire, SynchInv, Places
  <2>2. lock_acquire(l, "run")
    BY <1>4, <2>1, Zenon DEF CondReacquire
  <2> QED BY <2>1, <2>2, AcquireKept, ZenonT(30)
<1>5. arg \in [AllThread -> AllSema \cup Cond \cup {NULL}]
  BY Zenon DEF SynchInv, SynchTypes
<1>6. ASSUME NEW c \in Cond, CondSignal(c) PROVE SynchInv' /\ OwnersStep
  <2>1. cond_signal(c, "run") /\ arg' = arg /\ AtRun("cond")
    BY <1>6, Zenon DEF CondSignal
  <2> QED BY <1>5, <2>1, CallerFacts, SignalKept
<1>7. ASSUME NEW c \in Cond, CondBroadcast(c) PROVE SynchInv' /\ OwnersStep
  <2>1. cond_signal(c, "cb_next") /\ arg' = [arg EXCEPT ![running] = c]
    BY <1>7, Zenon DEF CondBroadcast
  <2>2. /\ running \in Thread /\ ~ in_external_intr
        /\ pc[running] = "run" \/ pc[running] = "cb_next"
    BY <1>7, CallerFacts, InOperation, Zenon DEF CondBroadcast
  <2>3. /\ arg' \in [AllThread -> AllSema \cup Cond \cup {NULL}] /\ arg'[running] = c
        /\ \A t \in Thread : t # running => arg'[t] = arg[t]
    BY <1>5, <2>1, <2>2, InvFacts, Zenon
  <2> QED BY <2>1, <2>2, <2>3, SignalKept
<1> QED BY <1>1, <1>2, <1>3, <1>4, <1>6, <1>7

(* Every step keeps the invariant, and changes the owner of one lock at     *)
(* most.                                                                    *)
LEMMA SynchNextInv ==
  ASSUME Laws, SynchInv, [SynchNext]_vars PROVE SynchInv' /\ OwnersStep
<1>1. CASE ThreadStep
  <2>1. UNCHANGED synchVars
    BY <1>1, Zenon DEF ThreadStep
  <2>2. \/ Yield \/ thread_exit \/ IdleBlock
        \/ \E p \in Priority : thread_set_priority(p)
        \/ \E n \in Naps : timer_sleep(n)
        \/ TimerInterrupt \/ WakeSleeper \/ InterruptReturn
    BY <1>1, Zenon DEF ThreadStep, Interrupt
  <2> QED BY <2>1, <2>2, YieldExitKept, IdleBlockKept, SetPriorityKept, SleepKept, TickKept,
             WakeSleeperKept, ReturnKept
<1>2. CASE SemaStep
  BY <1>2, DownStepKept, SemaUpKept, SemaTryDownKept, Zenon DEF SemaStep
<1>3. CASE LockStep
  <2>1. \/ \E l \in Lock : LockAcquire(l) \/ LockRelease(l)
        \/ \E l \in Lock : LockTryAcquire(l)
        \/ PropagateDonation \/ LockDown \/ LockOwn \/ LockUp
    BY <1>3, Zenon DEF LockStep
  <2> QED
    BY <2>1, LockCondKept, LockTryAcquireKept, PropagateKept, DownStepKept, LockOwnKept,
       LockUpKept
<1>4. CASE CondStep
  <2>1. \/ \E c \in Cond : CondSignal(c) \/ CondBroadcast(c)
        \/ \E c \in Cond : CondWait(c)
        \/ CondRelease \/ CondDown \/ CondReacquire \/ CondBroadcastDone
    BY <1>4, Zenon DEF CondStep
  <2> QED BY <2>1, LockCondKept, CondWaitKept, DownStepKept, BroadcastDoneKept
<1>5. CASE UNCHANGED vars
  <2>1. /\ UNCHANGED <<schedVars, pc, sleep_list, priorityVars, intrVars>>
        /\ UNCHANGED <<value, waiters, holder, cond_waiters, arg, ret, chain>>
    BY <1>5, Zenon DEF vars, threadVars, synchVars
  <2>2. /\ UNCHANGED <<running, status, ready_list, thread_ticks, in_external_intr>>
        /\ UNCHANGED <<yield_on_return, base_priority, priority, donate_priority, waiting_lock>>
    BY <2>1, Zenon DEF schedVars, priorityVars, intrVars
  <2>3. SynchTypes'
    BY <2>1, <2>2, Zenon DEF SynchInv, SynchTypes, ThreadsTypeOK
  <2>4. Places'
    BY <2>1, <2>2, Zenon DEF SynchInv, Places
  <2>5. OneOwner' /\ HolderUnset'
    BY <2>1, <2>2 DEF SynchInv, OneOwner, HolderUnset, Owns
  <2>6. DonationsLive'
    BY <2>1, <2>2, Zenon DEF SynchInv, DonationsLive
  <2>7. ElemInOneList'
    BY <2>1, <2>2, ZenonT(30) DEF SynchInv, ElemInOneList, RunQueueConsistent, WaitsFor
  <2>8. SleepersBlocked'
    BY <2>1, <2>2, Zenon DEF SynchInv, SleepersBlocked
  <2>9. NoLostWakeup'
    BY <2>1, <2>2, Zenon DEF SynchInv, NoLostWakeup, WaitsFor
  <2>10. OwnersStep
    BY <2>1, Zenon DEF OwnersStep, KeepsOwners, Owns
  <2> QED
    BY <2>1, <2>2, <2>3, <2>4, <2>5, <2>6, <2>7, <2>8, <2>9, <2>10, Zenon DEF SynchInv, ExactButChain, Exact, At,
       Signals, Signallable, InWait
<1> QED BY <1>1, <1>2, <1>3, <1>4, <1>5, Zenon DEF SynchNext

-----------------------------------------------------------------------------
(* The laws of Counting, which the lemmas up to here assume.               *)
INSTANCE CountingProofs

-----------------------------------------------------------------------------
(* The theorems about the scheduler by itself.                             *)

(* In every reachable state of the scheduler, for any set of threads, any   *)
(* priority range, time slice and naps, ThreadsInv holds.                   *)
THEOREM SchedulerInvariant == ThreadsSpec => []ThreadsInv
<1>1. ThreadsInit => ThreadsInv
  BY InitInv, Counted, Zenon
<1>2. ThreadsInv /\ [ThreadsNext]_threadVars => ThreadsInv'
  BY NextInv, Counted
<1> QED BY <1>1, <1>2, PTL DEF ThreadsSpec

(* The variables keep their types.                                          *)
THEOREM SchedulerTypes == ThreadsSpec => []ThreadsTypeOK
<1>1. ThreadsInv => ThreadsTypeOK
  BY Zenon DEF ThreadsInv
<1> QED BY <1>1, SchedulerInvariant, PTL

(* ready_list holds exactly the ready threads, each once, and one thread    *)
(* runs: thread_unblock, thread_yield, thread_block and next_thread_to_run  *)
(* never leave a thread out or queue one twice.                             *)
THEOREM RunQueue == ThreadsSpec => []RunQueueConsistent
<1>1. ThreadsInv => RunQueueConsistent
  BY ZenonT(30) DEF ThreadsInv
<1> QED BY <1>1, SchedulerInvariant, PTL

(* The assertion in the thread_unblock that timer_interrupt calls holds.    *)
THEOREM Sleepers == ThreadsSpec => []SleepersBlocked
<1>1. ThreadsInv => SleepersBlocked
  BY Zenon DEF ThreadsInv
<1> QED BY <1>1, SchedulerInvariant, PTL

(* Outside the interrupt handler the running thread has the highest         *)
(* priority among the threads that are ready.                               *)
THEOREM HighestPriorityRuns == ThreadsSpec => []StrictPriority
<1>1. ThreadsInv => StrictPriority
  BY Zenon DEF ThreadsInv, StrictPriority, Range
<1> QED BY <1>1, SchedulerInvariant, PTL

(* When the timer interrupt returns, every sleeper that is due is awake,    *)
(* though the loop looks only at the head of sleep_list.                    *)
THEOREM NobodyOversleeps == ThreadsSpec => WokenOnTime
<1>1. ASSUME ThreadsInv, [ThreadsNext]_threadVars, in_external_intr, ~ in_external_intr',
             NEW i \in DOMAIN sleep_list
      PROVE  sleep_list[i].left > 0
  <2>1. sleep_list \in Seq(Sleeper) /\ EarliestFirst(sleep_list)
    BY <1>1, Zenon DEF ThreadsInv, ThreadsTypeOK
  <2>2. InterruptReturn
    BY <1>1, ZenonT(30) DEF ThreadsNext, Interrupt, Yield, thread_set_priority, timer_sleep, thread_exit,
       IdleBlock, TimerInterrupt, WakeSleeper, AtRun, threadVars, intrVars
  <2>3. /\ sleep_list # <<>> /\ 1 \in DOMAIN sleep_list
        /\ Head(sleep_list) = sleep_list[1] /\ (i = 1 \/ 1 < i)
    BY <2>1
  <2>4. sleep_list[1].left \in Int /\ sleep_list[i].left \in Int
    BY <2>1, <2>3, SleeperType
  <2>5. sleep_list[1].left > 0
    BY <2>2, <2>3, <2>4 DEF InterruptReturn, SleeperDue
  <2>6. i = 1 \/ sleep_list[1].left <= sleep_list[i].left
    BY <2>1, <2>3 DEF EarliestFirst
  <2> QED BY <2>4, <2>5, <2>6
<1>2. ThreadsInv /\ [ThreadsNext]_threadVars =>
        [in_external_intr /\ ~ in_external_intr'
           => \A i \in DOMAIN sleep_list : sleep_list[i].left > 0]_threadVars
  BY <1>1, Zenon
<1> QED BY <1>2, SchedulerInvariant, PTL DEF WokenOnTime, ThreadsSpec

-----------------------------------------------------------------------------
(* The theorems about synch.c.                                                           *)

(* synch.c and the scheduler keep the invariant.                            *)
THEOREM SynchInvariant == SynchSpec => []SynchInv
<1>1. SynchInv /\ [SynchNext]_vars => SynchInv'
  BY SynchNextInv, Counted
<1>2. SynchInit => SynchInv
  BY SynchInitInv, Counted
<1> QED BY <1>1, <1>2, PTL DEF SynchSpec

(* A thread's elem is in one list at most: in ready_list while it is ready, *)
(* in sleep_list or in the one semaphore's list while it is blocked.        *)
THEOREM ElemsInOneList == SynchSpec => []ElemInOneList
<1>1. SynchInv => ElemInOneList
  BY Zenon DEF SynchInv
<1> QED BY <1>1, SynchInvariant, PTL

(* sema_up's wake-ups are not lost although sema_down's loop lets another   *)
(* thread take the semaphore first.                                         *)
THEOREM WakeupsNotLost == SynchSpec => []NoLostWakeup
<1>1. SynchInv => NoLostWakeup
  BY Zenon DEF SynchInv
<1> QED BY <1>1, SynchInvariant, PTL

(* No donate_priority list holds a donate_elem of a lock_acquire that has   *)
(* returned, or of a lock that its owner has released.                      *)
THEOREM NoStaleDonation == SynchSpec => []DonationsLive
<1>1. SynchInv => DonationsLive
  BY Zenon DEF SynchInv
<1> QED BY <1>1, SynchInvariant, PTL

(* Outside lock_acquire's loop every priority is the maximum of the base    *)
(* priority and the donors' priorities, along chains of any length.         *)
THEOREM DonationsExact == SynchSpec => []PriorityExact
<1>1. SynchInv => PriorityExact
  BY Zenon DEF SynchInv, ExactButChain, Exact, PriorityExact
<1> QED BY <1>1, SynchInvariant, PTL

(* cond_signal's signal is not lost between cond_wait's lock_release and    *)
(* its sema_down.                                                           *)
THEOREM SignalsNotLost == SynchSpec => []NoLostSignal
<1>1. SynchInv => NoLostSignal
  BY Zenon DEF NoLostSignal, InWait, SynchInv, Signals, Signallable
<1> QED BY <1>1, SynchInvariant, PTL

-----------------------------------------------------------------------------
(* Locks are mutexes.                                                      *)

(* The owner of a lock, as the abstract mutex sees it.                      *)
LEMMA OwnerFacts ==
  OneOwner => /\ owner = [l \in Lock |-> owner[l]]
              /\ \A l \in Lock : (\A t \in Thread : ~ Owns(t, l)) => owner[l] = NULL
              /\ \A l \in Lock, t \in Thread : Owns(t, l) => owner[l] = t
<1> SUFFICES ASSUME OneOwner
             PROVE  /\ owner = [l \in Lock |-> owner[l]]
                    /\ \A l \in Lock : (\A t \in Thread : ~ Owns(t, l)) => owner[l] = NULL
                    /\ \A l \in Lock, t \in Thread : Owns(t, l) => owner[l] = t
  BY Zenon
<1>1. owner = [l \in Lock |-> owner[l]]
  BY DEF owner
<1>2. ASSUME NEW l \in Lock, \A t \in Thread : ~ Owns(t, l) PROVE owner[l] = NULL
  BY <1>2, Zenon DEF owner
<1>3. ASSUME NEW l \in Lock, NEW t \in Thread, Owns(t, l) PROVE owner[l] = t
  <2>1. \A u \in Thread : Owns(u, l) => u = t
    BY <1>3, Zenon DEF OneOwner
  <2>2. {u \in Thread : Owns(u, l)} = {t}
    BY <1>3, <2>1
  <2>3. Cardinality({u \in Thread : Owns(u, l)}) = 1
    BY <2>2, Counted DEF Laws, CountOne
  <2>4. (CHOOSE u \in Thread : Owns(u, l)) = t
    BY <1>3, <2>1
  <2> QED BY <2>3, <2>4, <2>2 DEF owner
<1> QED BY <1>1, <1>2, <1>3

(* The mutex's variable after a step.                                       *)
LEMMA OwnerStep ==
  ASSUME SynchInv, SynchInv', OwnersStep PROVE [MutexOfLocks!Next]_owner
<1>1. /\ owner = [l \in Lock |-> owner[l]]
      /\ \A l \in Lock : (\A t \in Thread : ~ Owns(t, l)) => owner[l] = NULL
      /\ \A l \in Lock, t \in Thread : Owns(t, l) => owner[l] = t
  BY OwnerFacts, Zenon DEF SynchInv
<1>2. /\ owner' = [l \in Lock |-> owner'[l]]
      /\ \A l \in Lock : (\A t \in Thread : ~ Owns(t, l)') => owner'[l] = NULL
      /\ \A l \in Lock, t \in Thread : Owns(t, l)' => owner'[l] = t
  <2>1. OneOwner'
    BY Zenon DEF SynchInv
  <2>2. (OneOwner => /\ owner = [l \in Lock |-> owner[l]]
                     /\ \A l \in Lock : (\A t \in Thread : ~ Owns(t, l)) => owner[l] = NULL
                     /\ \A l \in Lock, t \in Thread : Owns(t, l) => owner[l] = t)'
    BY OwnerFacts, PTL
  <2> QED BY <2>1, <2>2
<1>3. CASE KeepsOwners
  <2>1. \A l \in Lock : owner'[l] = owner[l]
    BY <1>1, <1>2, <1>3 DEF KeepsOwners
  <2> QED BY <1>1, <1>2, <2>1
<1>4. ASSUME NEW r \in Thread, NEW l \in Lock, TakesLock(r, l) PROVE MutexOfLocks!Acquire(r, l)
  <2>1. \A t \in Thread : ~ Owns(t, l)
    BY <1>4, Zenon DEF TakesLock, SynchInv, OneOwner
  <2>2. owner[l] = NULL /\ owner'[l] = r
    BY <1>1, <1>2, <1>4, <2>1 DEF TakesLock
  <2>3. \A m \in Lock : m # l => owner'[m] = owner[m]
    BY <1>1, <1>2, <1>4 DEF TakesLock
  <2> QED BY <2>2, <1>1, <1>2, <2>3 DEF MutexOfLocks!Acquire
<1>5. ASSUME NEW r \in Thread, NEW l \in Lock, FreesLock(r, l) PROVE MutexOfLocks!Release(r, l)
  BY <1>5, <1>1, <1>2 DEF FreesLock, SynchInv, OneOwner, MutexOfLocks!Release
<1> QED BY <1>3, <1>4, <1>5 DEF OwnersStep, MutexOfLocks!Next

(* lock_acquire, lock_try_acquire, lock_release and cond_wait implement     *)
(* Mutex: a lock has one owner at most, passes from one thread to another   *)
(* only through being free, and is freed by its owner only.                 *)
THEOREM LocksExclude == SynchSpec => LocksAreMutexes
<1>1. SynchInit => MutexOfLocks!Init
  BY SynchInitInv, Counted, OwnerFacts DEF SynchInv, OneOwner, SynchInit, MutexOfLocks!Init
<1>2. SynchInv /\ SynchInv' /\ [SynchNext]_vars => [MutexOfLocks!Next]_owner
  BY SynchNextInv, Counted, OwnerStep
<1> QED BY <1>1, <1>2, SynchInvariant, PTL DEF SynchSpec, LocksAreMutexes, MutexOfLocks!Spec
==============================================================================
