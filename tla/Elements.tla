------------------------------ MODULE Elements -----------------------------
(***************************************************************************)
(* What an id table promises: a function from the ids in use to elements.  *)
(* The search for an unused id is no part of it: it changes nothing, and   *)
(* what it returns is promised nothing.                                    *)
(***************************************************************************)
EXTENDS Integers

CONSTANTS Ids, Data, NoData, Failed
VARIABLES elements, result

Init == elements = [i \in {} |-> 0] /\ result = 0

Install(id, data) ==
    /\ id \notin DOMAIN elements
    /\ elements' = [i \in DOMAIN elements \cup {id} |->
                      IF i # id THEN elements[i] ELSE IF data = NoData THEN 0 ELSE data]
    /\ result' = 0

Set(id, data) ==
    /\ id \in DOMAIN elements
    /\ elements' = [elements EXCEPT ![id] = data] /\ result' = 0

Get(id) ==
    /\ id \in DOMAIN elements
    /\ result' = elements[id] /\ UNCHANGED elements

Uninstall(id) ==
    /\ elements' = [i \in DOMAIN elements \ {id} |-> elements[i]]
    /\ UNCHANGED result

\* A call that fails changes nothing.
Fail == result' = Failed /\ UNCHANGED elements

Next ==
    \/ \E id \in Ids, data \in Data \cup {NoData} : Install(id, data)
    \/ \E id \in Ids, data \in Data : Set(id, data)
    \/ \E id \in Ids : Get(id) \/ Uninstall(id)
    \/ Fail

Step == [Next]_<<elements, result>>

Spec == Init /\ [][Next]_<<elements, result>>
=============================================================================
