------------------------------ MODULE BlockStore ------------------------------
(* What block_read and block_write promise without any locking of their    *)
(* callers: every call takes effect at one moment between call and return. *)
CONSTANTS Thread, Disk, Sector, Value, NULL

VARIABLES media, req

vars == <<media, req>>

Idle == [pc |-> "idle", op |-> "none", disk |-> NULL, sec |-> NULL, val |-> NULL]

Init ==
  /\ media \in [Disk -> [Sector -> Value]]
  /\ req = [t \in Thread |-> Idle]

Call(t) ==
  /\ req[t].pc = "idle"
  /\ \E d \in Disk, s \in Sector, v \in Value :
       \/ req' = [req EXCEPT ![t] = [pc |-> "called", op |-> "read", disk |-> d, sec |-> s, val |-> NULL]]
       \/ req' = [req EXCEPT ![t] = [pc |-> "called", op |-> "write", disk |-> d, sec |-> s, val |-> v]]
  /\ UNCHANGED media

Effect(t) ==
  LET r == req[t]
  IN  /\ r.pc = "called"
      /\ \/ /\ r.op = "read"
            /\ req' = [req EXCEPT ![t].pc = "done", ![t].val = media[r.disk][r.sec]]
            /\ UNCHANGED media
         \/ /\ r.op = "write"
            /\ req' = [req EXCEPT ![t].pc = "done"]
            /\ media' = [media EXCEPT ![r.disk][r.sec] = r.val]

Return(t) ==
  /\ req[t].pc = "done"
  /\ req' = [req EXCEPT ![t] = Idle]
  /\ UNCHANGED media

Next == \E t \in Thread : Call(t) \/ Effect(t) \/ Return(t)

Spec == Init /\ [][Next]_vars
==============================================================================
