--------------------------------- MODULE Dict ---------------------------------
(* What lib/kernel/hash.h promises: at most one element per key, and what an *)
(* operation returns.                                                        *)
EXTENDS Integers

CONSTANTS Elem, NULL, key
VARIABLES content, returned

Equal(e) == {x \in content : key[x] = key[e]}
Answer(e) == IF Equal(e) = {} THEN NULL ELSE CHOOSE x \in Equal(e) : TRUE

Insert(e) == returned' = Answer(e) /\ content' = IF Equal(e) = {} THEN content \cup {e} ELSE content
Replace(e) == returned' = Answer(e) /\ content' = (content \ Equal(e)) \cup {e}
Delete(e) == returned' = Answer(e) /\ content' = content \ Equal(e)
Find(e) == returned' = Answer(e) /\ UNCHANGED content
Clear == returned' = NULL /\ content' = {}

DictInit == content = {} /\ returned = NULL
DictNext ==
  \/ \E e \in Elem \ content : Insert(e) \/ Replace(e)
  \/ \E e \in Elem : Delete(e) \/ Find(e)
  \/ Clear
DictSpec == DictInit /\ [][DictNext]_<<content, returned>>
==============================================================================
