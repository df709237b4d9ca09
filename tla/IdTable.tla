------------------------------ MODULE IdTable ------------------------------
(***************************************************************************)
(* The id table (sdk/module/bitmap/it_table.c) over the bitmap             *)
(* (sdk/module/bitmap/bitmap.c): elements of one size and one bit for each *)
(* id in use, eight to a byte.  Elements is what it promises.              *)
(***************************************************************************)
EXTENDS Integers

CONSTANTS
    Ids,        \* the ids its user hands in, of 0..limit-1: none is checked against limit
    limit,      \* number of elements
    Data,       \* contents of an element; 0 is the element full of zeros
    NoData,       \* the null pointer, given for the data
    Failed      \* what a failed call returns

VARIABLES
    map,        \* the bitmap: the offsets of the bits set in each byte
    table,      \* the elements
    result,     \* what the last call of the functions below returned
    unused      \* what the last search for an unused id returned

itvars == <<map, table, result, unused>>

TableInit ==
    /\ map = [b \in 0..(limit \div 8) |-> {}]
    /\ table = [i \in 0..(limit - 1) |-> 0]
    /\ result = 0 /\ unused = Failed

check_bitmap(index) == index % 8 \in map[index \div 8]

set_bitmap(index) == map' = [map EXCEPT ![index \div 8] = @ \cup {index % 8}]
\* Mutant: the whole byte is cleared.
UnsetByte(index) == map' = [map EXCEPT ![index \div 8] = {}]
unset_bitmap(index) == map' = [map EXCEPT ![index \div 8] = @ \ {index % 8}]

\* find_next_zero_bit: despite the name, the first id after 0 whose bit is set.  The promise
\* says nothing of the id: one "unused" would not be kept (bitmap.c:105).
get_unused_id ==
    LET set == {i \in 1..(limit - 1) : check_bitmap(i)}
    IN  IF set = {} THEN Failed ELSE CHOOSE i \in set : \A j \in set : i <= j

-----------------------------------------------------------------------------
\* data may be NULL, which leaves the element as it is.
Install(id, data) ==
    /\ UNCHANGED unused
    /\ IF check_bitmap(id) THEN result' = Failed /\ UNCHANGED <<map, table>>
       ELSE /\ table' = IF data = NoData THEN table ELSE [table EXCEPT ![id] = data]
            /\ set_bitmap(id) /\ result' = 0

Set(id, data) ==
    /\ table' = IF check_bitmap(id) THEN [table EXCEPT ![id] = data] ELSE table
    /\ result' = IF check_bitmap(id) THEN 0 ELSE Failed
    /\ UNCHANGED <<map, unused>>

Get(id) ==
    /\ result' = IF check_bitmap(id) THEN table[id] ELSE Failed
    /\ UNCHANGED <<map, table, unused>>

GetUnused == unused' = get_unused_id /\ UNCHANGED <<map, table, result>>

Uninstall(id) ==
    /\ IF check_bitmap(id)
       THEN table' = [table EXCEPT ![id] = 0] /\ unset_bitmap(id)
       ELSE UNCHANGED <<map, table>>
    /\ UNCHANGED <<result, unused>>

TableNext ==
    \/ \E id \in Ids, data \in Data \cup {NoData} : Install(id, data)
    \/ \E id \in Ids, data \in Data : Set(id, data)
    \/ \E id \in Ids : Get(id)
    \/ \E id \in Ids : Uninstall(id)
    \/ GetUnused

TableSpec == TableInit /\ [][TableNext]_itvars

-----------------------------------------------------------------------------
\* What the user counts on, of all functions but the search (GetUnused, a stutter here): the
\* table is a function from the ids in use to their elements.  An id put in use without data
\* reads as zeros, whoever used it before, and no call changes another id's element or
\* whether it is in use (it_table.c:93-153 over bitmap.c).
InUse == {j \in 0..(limit - 1) : check_bitmap(j)}
Held == [i \in InUse |-> table[i]]
Promise == INSTANCE Elements WITH elements <- Held
KeepsElementsApart == Promise!Spec
=============================================================================
