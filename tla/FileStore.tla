------------------------------ MODULE FileStore ------------------------------
(* What the file system promises: a map from names to contents.  A file is   *)
(* created with zeros, written in place, and removed, each at once.          *)
EXTENDS Naturals, Sequences

CONSTANTS Name, Value, Zero, MaxLen

VARIABLE files

Init == files = [n \in {} |-> <<>>]

Create(n, len) ==
  /\ n \notin DOMAIN files
  /\ files' = [m \in DOMAIN files \cup {n} |->
                 IF m = n THEN [i \in 1..len |-> Zero] ELSE files[m]]

Remove(n) ==
  /\ n \in DOMAIN files
  /\ files' = [m \in DOMAIN files \ {n} |-> files[m]]

Write(n, i, v) ==
  /\ n \in DOMAIN files
  /\ i \in DOMAIN files[n]
  /\ files' = [files EXCEPT ![n][i] = v]

Next ==
  \E n \in Name :
    \/ \E len \in 0..MaxLen : Create(n, len)
    \/ Remove(n)
    \/ \E i \in 1..MaxLen, v \in Value : Write(n, i, v)

Spec == Init /\ [][Next]_files
==============================================================================
