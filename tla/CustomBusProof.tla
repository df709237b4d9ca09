--------------------------- MODULE CustomBusProof ---------------------------
(***************************************************************************)
(* Proofs about CustomBus, for every number of writers, of messages and    *)
(* every set of drivers.                                                   *)
(***************************************************************************)
EXTENDS CustomBus, FiniteSetTheorems, SequenceTheorems, TLAPS

-----------------------------------------------------------------------------
(* The list holds ranks that decrease from head to tail. *)

Ranked ==
    /\ \A i \in 1..Len(list) : list[i] + i <= added + 1
    /\ \A i, j \in 1..Len(list) : i < j => list[j] < list[i]

\* sem_post cannot fail where SEM_VALUE_MAX is no smaller than the number of nodes;
\* where it is smaller, one thread alone calls custom_bus_write and no wait is cut short.
Alone == MaxEarly = 0 /\ \A v, w \in Writers : v = w
Roomy == SemMax >= MaxAdded
Tidy == Roomy \/ Alone

\* Between its list_add and its return a caller either cannot fail, or is the only one
\* and its node is still the newest: the bus thread takes the tail of a longer list.
CallOwnsHead ==
    \A w \in Writers : wpc[w] # "idle" =>
        \/ Roomy /\ wpc[w] = "post"
        \/ Alone /\ list # <<>> /\ wnode[w] = list[1]

\* The node in hand is the tail of the list.
TargetIsTail == InMessage => list # <<>> /\ target = list[Len(list)]

TargetIsGiven == target <= added

\* Outside a message the bus thread's node, if it has one, is off the list.
EndedIsUnlinked == ~InMessage => ~Linked(target)

\* There is a post for no more nodes than were ever added.
PostsAreGiven == sem + Cardinality(Unposted) <= added

\* The list a walk ended the process on stays empty.
FaultIsEmpty == bpc = "fault" => list = <<>>

WriterTypes ==
    /\ wpc \in [Writers -> {"idle", "post", "undo"}]
    /\ wnode \in [Writers -> Nodes \cup {Null}]

QueueTypes ==
    /\ added \in 0..MaxAdded
    /\ list \in Seq(Nodes)
    /\ sem \in 0..SemMax
    /\ alive \subseteq Nodes
    /\ early \in 0..MaxEarly
    /\ target \in Nodes \cup {Null}

LoopTypes ==
    /\ bpc \in {"wait", "traverse", "lookup", "get", "send", "cast", "recv",
               "unlink", "free", "fault"}
    /\ driver \in Profiles \cup {NoDriver}
    /\ remaining \in 0..(UnsignedMod - 1)
    /\ outcome \in {"neg", "zero", "pos"}
    /\ broadcast \in BOOLEAN
    /\ begun \in Nat /\ waited \in Nat

-----------------------------------------------------------------------------
\* The clamps yield natural numbers no greater than either bound.
LEMMA LesserBound ==
    ASSUME NEW a \in Nat, NEW b \in Nat
    PROVE  /\ Lesser(a, b) \in Nat
           /\ Lesser(a, b) <= a /\ Lesser(a, b) <= b
           /\ a >= 1 /\ b >= 1 => Lesser(a, b) >= 1
  BY DEF Lesser

\* The fields of a driver description are what Profile says.
LEMMA DriverFields ==
    ASSUME NEW d \in Profiles \cup {NoDriver}
    PROVE  /\ d.retransmission \in Nat /\ d.retransmission < UnsignedMod
           /\ d.timeout \in Nat
           /\ d.get \in BOOLEAN /\ d.put \in BOOLEAN /\ d.broadcast \in BOOLEAN
  <1>1. CASE d \in Profiles
    BY <1>1, ConstantsAssumption DEF Profile
  <1>2. CASE d = NoDriver
    BY <1>2, ConstantsAssumption DEF NoDriver
  <1>3. QED BY <1>1, <1>2

\* list_del of a linked node drops one entry and keeps the order of the others.
LEMMA DelEntry ==
    ASSUME list \in Seq(Nodes), NEW n, Linked(n), ListDel(n)
    PROVE  \E at \in 1..Len(list) :
             /\ list[at] = n
             /\ list' \in Seq(Nodes)
             /\ Len(list') = Len(list) - 1
             /\ \A i \in 1..(Len(list) - 1) :
                   list'[i] = IF i < at THEN list[i] ELSE list[i + 1]
  <1>1. PICK at : /\ at \in 1..Len(list) /\ list[at] = n
                  /\ list' = [i \in 1..(Len(list) - 1) |->
                                 IF i < at THEN list[i] ELSE list[i + 1]]
    <2> DEFINE at == CHOOSE i \in 1..Len(list) : list[i] = n
    <2>1. at \in 1..Len(list) /\ list[at] = n
      BY DEF Linked
    <2>2. QED BY <2>1 DEF ListDel
  <1>2. Len(list) \in Nat /\ Len(list) >= 1
    BY <1>1
  <1>3. \A i \in 1..(Len(list) - 1) :
           (IF i < at THEN list[i] ELSE list[i + 1]) \in Nodes
    BY <1>1, <1>2
  <1>4. list' \in Seq(Nodes) /\ Len(list') = Len(list) - 1
    BY <1>1, <1>2, <1>3
  <1>5. QED BY <1>1, <1>4

LEMMA DelTypes ==
    ASSUME list \in Seq(Nodes), NEW n, ListDel(n)
    PROVE  list' \in Seq(Nodes)
  <1>1. CASE Linked(n)
    BY <1>1, DelEntry
  <1>2. CASE ~Linked(n)
    BY <1>2 DEF ListDel
  <1>3. QED BY <1>1, <1>2

\* Unlinking the tail of a list of decreasing ranks drops its last entry.
LEMMA DelTail ==
    ASSUME list \in Seq(Nodes), list # <<>>, Ranked, MaxAdded \in Nat,
           ListDel(list[Len(list)])
    PROVE  /\ list' \in Seq(Nodes)
           /\ Len(list') = Len(list) - 1
           /\ \A i \in 1..(Len(list) - 1) : list'[i] = list[i]
  <1>1. Len(list) \in Nat /\ Len(list) >= 1
    OBVIOUS
  <1>2. Linked(list[Len(list)])
    BY <1>1 DEF Linked
  <1>3. PICK at \in 1..Len(list) :
             /\ list[at] = list[Len(list)]
             /\ list' \in Seq(Nodes)
             /\ Len(list') = Len(list) - 1
             /\ \A i \in 1..(Len(list) - 1) :
                   list'[i] = IF i < at THEN list[i] ELSE list[i + 1]
    BY <1>2, DelEntry
  <1>4. \A i \in 1..Len(list) : list[i] \in Nat
    BY DEF Nodes
  <1>5. at = Len(list)
    BY <1>1, <1>3, <1>4 DEF Ranked
  <1>6. QED
    BY <1>1, <1>3, <1>5

-----------------------------------------------------------------------------
(* Types *)

LEMMA TypeParts == StackTypeOK <=> QueueTypes /\ WriterTypes /\ LoopTypes
  BY DEF StackTypeOK, QueueTypes, WriterTypes, LoopTypes

LEMMA WriterKeepsTypes ==
    ASSUME StackTypeOK, NEW w \in Writers, Writer(w)
    PROVE  StackTypeOK'
  <1>1. QueueTypes /\ WriterTypes /\ LoopTypes
    BY TypeParts
  <1>2. LoopTypes'
    BY <1>1 DEF LoopTypes, Writer, Add, Post, Undo, loopVars
  <1>3. CASE Add(w)
    <2>1. added + 1 \in Nodes /\ added' = added + 1 /\ added' \in 0..MaxAdded
      BY <1>1, <1>3, ConstantsAssumption DEF QueueTypes, Add, Nodes
    <2>2. <<added + 1>> \o list \in Seq(Nodes)
      BY <1>1, <2>1 DEF QueueTypes
    <2>3. QueueTypes'
      BY <1>1, <1>3, <2>1, <2>2 DEF QueueTypes, Add
    <2>4. WriterTypes'
      BY <1>1, <1>3, <2>1 DEF WriterTypes, Add
    <2>5. QED BY <1>2, <2>3, <2>4 DEF StackTypeOK, QueueTypes, WriterTypes, LoopTypes
  <1>4. CASE Post(w)
    <2>1. QueueTypes'
      BY <1>1, <1>4, ConstantsAssumption DEF QueueTypes, Post
    <2>2. WriterTypes'
      BY <1>1, <1>4 DEF WriterTypes, Post
    <2>3. QED BY <1>2, <2>1, <2>2 DEF StackTypeOK, QueueTypes, WriterTypes, LoopTypes
  <1>5. CASE Undo(w)
    <2>1. list' \in Seq(Nodes)
      BY <1>1, <1>5, DelTypes DEF QueueTypes, Undo
    <2>2. QueueTypes'
      BY <1>1, <1>5, <2>1 DEF QueueTypes, Undo
    <2>3. WriterTypes'
      BY <1>1, <1>5 DEF WriterTypes, Undo
    <2>4. QED BY <1>2, <2>2, <2>3 DEF StackTypeOK, QueueTypes, WriterTypes, LoopTypes
  <1>6. QED BY <1>3, <1>4, <1>5 DEF Writer

\* One pass of the loop leaves the loop's variables in their types.
LEMMA PassKeepsTypes ==
    ASSUME LoopTypes, NEW r \in {"neg", "zero", "pos"}, EndOfPass(r)
    PROVE  /\ outcome' \in {"neg", "zero", "pos"}
           /\ remaining' \in 0..(UnsignedMod - 1)
           /\ bpc' \in {"get", "unlink"}
           /\ begun' \in Nat
  <1>1. UnsignedMod \in Nat /\ UnsignedMod > 0 /\ remaining \in Int
    BY ConstantsAssumption DEF LoopTypes
  <1>2. (remaining - 1) % UnsignedMod \in 0..(UnsignedMod - 1)
    BY <1>1
  <1>3. QED BY <1>2 DEF LoopTypes, EndOfPass

LEMMA WorkerKeepsTypes ==
    ASSUME StackTypeOK, BusThread \/ WaitSignalled
    PROVE  StackTypeOK'
  <1>1. QueueTypes /\ WriterTypes /\ LoopTypes
    BY TypeParts
  <1>2. WriterTypes'
    BY <1>1 DEF WriterTypes, BusThread, SemWait, WaitSignalled, Traverse, LookupNone, LookupDriver,
                Get, Send, Cast, Recv, Unlink, Free, writerVars, queueVars
  <1>3. QueueTypes'
    <2>1. CASE SemWait \/ WaitSignalled
      BY <1>1, <2>1, ConstantsAssumption DEF QueueTypes, SemWait, WaitSignalled
    <2>2. CASE Traverse
      <3>1. list # <<>> => list[Len(list)] \in Nodes
        BY <1>1 DEF QueueTypes
      <3>2. QED BY <1>1, <2>2, <3>1 DEF QueueTypes, Traverse, queueVars
    <2>3. CASE LookupNone \/ LookupDriver \/ Get \/ Send \/ Cast \/ Recv
      BY <1>1, <2>3 DEF QueueTypes, LookupNone, LookupDriver, Get, Send, Cast,
                        Recv, queueVars
    <2>4. CASE Unlink
      <3>1. list' \in Seq(Nodes)
        BY <1>1, <2>4, DelTypes DEF QueueTypes, Unlink
      <3>2. QED BY <1>1, <2>4, <3>1 DEF QueueTypes, Unlink
    <2>5. CASE Free
      BY <1>1, <2>5 DEF QueueTypes, Free
    <2>6. QED BY <2>1, <2>2, <2>3, <2>4, <2>5 DEF BusThread
  <1>4. LoopTypes'
    <2>1. CASE SemWait \/ WaitSignalled \/ Traverse \/ LookupNone \/ Unlink \/ Free
      BY <1>1, <2>1 DEF LoopTypes, SemWait, WaitSignalled, Traverse, LookupNone, Unlink, Free,
                        loopVars
    <2>2. CASE LookupDriver
      <3>1. driver' \in Profiles
        BY <2>2 DEF LookupDriver
      <3>2. driver'.retransmission \in Nat /\ driver'.retransmission < UnsignedMod
        BY <3>1, DriverFields
      <3>3. remaining' \in 0..(UnsignedMod - 1)
        BY <2>2, <3>2, LesserBound, ConstantsAssumption DEF LookupDriver
      <3>4. QED BY <1>1, <2>2, <3>1, <3>3 DEF LoopTypes, LookupDriver
    <2>3. CASE Get
      BY <1>1, <2>3 DEF LoopTypes, Get
    <2>4. CASE Send
      BY <1>1, <2>4 DEF LoopTypes, Send
    <2>5. CASE Cast
      BY <1>1, <2>5 DEF LoopTypes, Cast, loopVars
    <2>6. CASE Recv
      <3>1. waited' \in Nat
        <4>1. driver.timeout \in Nat
          BY <1>1, DriverFields DEF LoopTypes
        <4>2. Lesser(driver.timeout, TimeoutMax) \in Nat
          BY <4>1, LesserBound, ConstantsAssumption
        <4>3. QED BY <1>1, <2>6, <4>2 DEF LoopTypes, Recv
      <3>2. /\ outcome' \in {"neg", "zero", "pos"}
            /\ remaining' \in 0..(UnsignedMod - 1)
            /\ bpc' \in {"get", "unlink"}
            /\ begun' \in Nat
        BY <1>1, <2>6, PassKeepsTypes DEF LoopTypes, Recv
      <3>3. driver' = driver /\ broadcast' = broadcast
        BY <2>6 DEF Recv
      <3>4. QED BY <1>1, <3>1, <3>2, <3>3 DEF LoopTypes
    <2>7. QED BY <2>1, <2>2, <2>3, <2>4, <2>5, <2>6 DEF BusThread
  <1>5. QED BY <1>2, <1>3, <1>4 DEF StackTypeOK, QueueTypes, WriterTypes, LoopTypes

LEMMA InitTypes == StackInit => StackTypeOK
  <1> SUFFICES ASSUME StackInit PROVE StackTypeOK
    OBVIOUS
  <1>1. QueueTypes
    BY ConstantsAssumption DEF StackInit, QueueTypes, Null
  <1>2. WriterTypes
    BY DEF StackInit, WriterTypes
  <1>3. LoopTypes
    <2>1. 0 \in 0..(UnsignedMod - 1)
      BY ConstantsAssumption
    <2>2. QED BY <2>1 DEF StackInit, LoopTypes
  <1>4. QED BY <1>1, <1>2, <1>3, TypeParts

\* Every variable of the bus keeps its type, whatever the constants: the
\* retransmission counter in particular stays an unsigned int.
THEOREM TypeCorrect == StackSpec => []StackTypeOK
  <1>1. StackTypeOK /\ [StackNext]_stackvars => StackTypeOK'
    <2> SUFFICES ASSUME StackTypeOK, [StackNext]_stackvars PROVE StackTypeOK'
      OBVIOUS
    <2>1. CASE BusThread \/ WaitSignalled
      BY <2>1, WorkerKeepsTypes
    <2>2. ASSUME NEW w \in Writers, Writer(w) PROVE StackTypeOK'
      BY <2>2, WriterKeepsTypes
    <2>3. CASE UNCHANGED stackvars
      BY <2>3 DEF StackTypeOK, stackvars, queueVars, writerVars, loopVars
    <2>4. QED BY <2>1, <2>2, <2>3 DEF StackNext
  <1>2. QED
    BY InitTypes, <1>1, PTL DEF StackSpec

-----------------------------------------------------------------------------
(* The list and the semaphore.  A sem_post fails at SEM_VALUE_MAX; the node it *)
(* was for is then withdrawn.                                                  *)

ListInv ==
    /\ StackTypeOK
    /\ Ranked
    /\ CallOwnsHead
    /\ SemCountsNodes
    /\ TargetIsTail
    /\ TargetIsGiven
    /\ EndedIsUnlinked
    /\ ListHoldsTheLive
    /\ PostsAreGiven
    /\ FaultIsEmpty

LEMMA EntryIsNode ==
    ASSUME list \in Seq(Nodes), NEW i \in 1..Len(list)
    PROVE  list[i] \in Nodes /\ list[i] \in Nat /\ list[i] >= 1
  <1>1. list[i] \in Nodes
    OBVIOUS
  <1>2. QED BY <1>1, ConstantsAssumption DEF Nodes

LEMMA UnpostedFinite ==
    IsFiniteSet(Unposted) /\ Cardinality(Unposted) \in Nat
  <1>1. IsFiniteSet(Unposted)
    BY ConstantsAssumption, FS_Subset DEF Unposted
  <1>2. QED BY <1>1, FS_CardinalityType

LEMMA CallIsCounted ==
    ASSUME NEW w \in Writers, wpc[w] # "idle"
    PROVE  Cardinality(Unposted) >= 1
  <1>1. w \in Unposted
    BY DEF Unposted
  <1>2. Cardinality(Unposted \ {w}) = Cardinality(Unposted) - 1
        /\ Cardinality(Unposted \ {w}) \in Nat
    BY <1>1, UnpostedFinite, FS_RemoveElement, FS_CardinalityType
  <1> QED
    BY <1>2, UnpostedFinite

\* list_add at the head.
LEMMA AddAtHead ==
    ASSUME QueueTypes, Ranked, NEW w \in Writers, Add(w)
    PROVE  /\ Len(list') = Len(list) + 1
           /\ list'[1] = added + 1
           /\ \A i \in 1..Len(list) : list'[i + 1] = list[i]
           /\ Ranked'
           /\ ~Linked(added + 1)
  <1>1. list' = <<added + 1>> \o list /\ added' = added + 1 /\ added \in Nat
    BY ConstantsAssumption DEF Add, QueueTypes
  <1>2. /\ Len(list') = Len(list) + 1
        /\ list'[1] = added + 1
        /\ \A i \in 1..Len(list) : list'[i + 1] = list[i]
        /\ \A i \in 2..Len(list') : list'[i] = list[i - 1] /\ i - 1 \in 1..Len(list)
    BY <1>1 DEF QueueTypes
  <1>3. \A i \in 1..Len(list) : list[i] \in Nat /\ list[i] <= added
    <2> SUFFICES ASSUME NEW i \in 1..Len(list)
                 PROVE  list[i] \in Nat /\ list[i] <= added
      OBVIOUS
    <2>1. list[i] \in Nat
      BY EntryIsNode DEF QueueTypes
    <2>2. list[i] + i <= added + 1
      BY DEF Ranked
    <2>3. QED BY <1>1, <2>1, <2>2 DEF QueueTypes
  <1>4. \A i \in 1..Len(list') : list'[i] + i <= added' + 1
    <2> SUFFICES ASSUME NEW i \in 1..Len(list') PROVE list'[i] + i <= added' + 1
      OBVIOUS
    <2>1. CASE i = 1
      BY <2>1, <1>1, <1>2
    <2>2. CASE i \in 2..Len(list')
      <3>1. i - 1 \in 1..Len(list) /\ list'[i] = list[i - 1]
        BY <2>2, <1>2
      <3>2. list[i - 1] + (i - 1) <= added + 1 /\ list[i - 1] \in Nat
        BY <3>1, <1>3 DEF Ranked
      <3>3. QED
        <4> DEFINE q == list[i - 1]
        <4>1. q \in Nat /\ q + (i - 1) <= added + 1 /\ list'[i] = q /\ i \in Int
          BY <3>1, <3>2, <2>2
        <4> HIDE DEF q
        <4>2. QED BY <4>1, <1>1
    <2>3. QED BY <2>1, <2>2, <1>2
  <1>5. \A i, j \in 1..Len(list') : i < j => list'[j] < list'[i]
    <2> SUFFICES ASSUME NEW i \in 1..Len(list'), NEW j \in 1..Len(list'), i < j
                 PROVE  list'[j] < list'[i]
      OBVIOUS
    <2>1. j \in 2..Len(list') /\ list'[j] = list[j - 1] /\ j - 1 \in 1..Len(list)
      BY <1>2
    <2>2. CASE i = 1
      BY <2>1, <2>2, <1>1, <1>2, <1>3
    <2>3. CASE i \in 2..Len(list')
      <3>1. i - 1 \in 1..Len(list) /\ i - 1 < j - 1 /\ list'[i] = list[i - 1]
        BY <2>1, <2>3, <1>2
      <3>2. list[j - 1] < list[i - 1]
        BY <3>1, <2>1 DEF Ranked
      <3>3. QED BY <3>1, <3>2, <2>1
    <2>4. QED BY <2>2, <2>3
  <1>6. ~Linked(added + 1)
    BY <1>1, <1>3 DEF Linked
  <1>7. QED BY <1>2, <1>4, <1>5, <1>6 DEF Ranked

LEMMA InitList == StackInit => ListInv
  <1> SUFFICES ASSUME StackInit PROVE ListInv
    OBVIOUS
  <1>1. Unposted = {}
    BY DEF StackInit, Unposted
  <1>2. Cardinality(Unposted) = 0
    BY <1>1, FS_EmptySet
  <1>3. /\ Len(list) = 0 /\ bpc = "wait" /\ sem = 0 /\ alive = {} /\ ~InMessage
        /\ early = 0 /\ added = 0
    BY DEF StackInit, InMessage
  <1>4. SemCountsNodes /\ PostsAreGiven /\ FaultIsEmpty
    BY <1>2, <1>3 DEF SemCountsNodes, Admitted, PostsAreGiven, FaultIsEmpty
  <1>5. /\ Ranked /\ CallOwnsHead /\ TargetIsTail /\ TargetIsGiven /\ EndedIsUnlinked
        /\ ListHoldsTheLive
    BY <1>3 DEF StackInit, Ranked, CallOwnsHead, TargetIsTail, TargetIsGiven, EndedIsUnlinked,
                ListHoldsTheLive, Linked, Null
  <1>6. QED BY <1>4, <1>5, InitTypes DEF ListInv

\* list_add by a writer.
LEMMA AddKeepsList ==
    ASSUME ListInv, Tidy, NEW w \in Writers, Add(w)
    PROVE  (Ranked /\ CallOwnsHead /\ SemCountsNodes /\ TargetIsTail /\ TargetIsGiven
              /\ EndedIsUnlinked /\ ListHoldsTheLive /\ PostsAreGiven /\ FaultIsEmpty)'
  <1>1. QueueTypes /\ WriterTypes /\ LoopTypes
    BY TypeParts DEF ListInv
  <1>2. /\ Len(list') = Len(list) + 1
        /\ list'[1] = added + 1
        /\ \A i \in 1..Len(list) : list'[i + 1] = list[i]
        /\ Ranked'
        /\ ~Linked(added + 1)
    BY <1>1, AddAtHead DEF ListInv
  <1>3. Len(list) \in Nat
    BY <1>1 DEF QueueTypes
  <1>4. CallOwnsHead'
    <2> SUFFICES ASSUME NEW v \in Writers, wpc'[v] # "idle"
                 PROVE  \/ Roomy /\ wpc'[v] = "post"
                        \/ Alone /\ list' # <<>> /\ wnode'[v] = list'[1]
      BY DEF CallOwnsHead, Alone, Roomy
    <2>1. CASE v = w
      <3>1. wpc'[v] = "post" /\ wnode'[v] = added + 1
        BY <1>1, <2>1 DEF WriterTypes, Add
      <3>2. list' # <<>>
        BY <1>2, <1>3
      <3> QED
        BY <1>2, <3>1, <3>2 DEF Tidy
    <2>2. CASE v # w
      <3>1. wpc'[v] = wpc[v]
        BY <1>1, <2>2 DEF WriterTypes, Add
      <3>2. ~Alone
        BY <2>2 DEF Alone
      <3> QED
        BY <3>1, <3>2 DEF ListInv, CallOwnsHead
    <2> QED
      BY <2>1, <2>2
  <1>5. SemCountsNodes' /\ PostsAreGiven' /\ FaultIsEmpty'
    <2>1. w \notin Unposted
      BY DEF Add, Unposted
    <2>2. Unposted' = Unposted \cup {w}
      BY <1>1 DEF Add, Unposted, WriterTypes
    <2>3. Cardinality(Unposted') = Cardinality(Unposted) + 1
      BY <2>1, <2>2, UnpostedFinite, FS_AddElement
    <2>4. bpc' = bpc /\ sem' = sem /\ early' = early /\ added' = added + 1 /\ bpc # "fault"
          /\ Admitted' = Admitted /\ Admitted \in {0, 1}
      BY DEF Add, Up, Admitted, InMessage
    <2>5. SemCountsNodes'
      BY <1>1, <1>2, <1>3, <2>3, <2>4, UnpostedFinite, ConstantsAssumption
         DEF ListInv, SemCountsNodes, QueueTypes
    <2>6. PostsAreGiven' /\ FaultIsEmpty'
      BY <1>1, <2>3, <2>4, UnpostedFinite, ConstantsAssumption
         DEF ListInv, PostsAreGiven, FaultIsEmpty, QueueTypes
    <2> QED
      BY <2>5, <2>6
  <1>6. TargetIsTail'
    <2>1. bpc' = bpc /\ target' = target
      BY DEF Add
    <2>2. list # <<>> => list'[Len(list')] = list[Len(list)] /\ list' # <<>>
      BY <1>1, <1>2, <1>3 DEF QueueTypes
    <2>3. QED BY <2>1, <2>2 DEF ListInv, TargetIsTail, InMessage
  <1>7. \A n : Linked(n)' <=> (Linked(n) \/ n = added + 1)
    <2> SUFFICES ASSUME NEW n PROVE Linked(n)' <=> (Linked(n) \/ n = added + 1)
      OBVIOUS
    <2>1. ASSUME Linked(n)' PROVE Linked(n) \/ n = added + 1
      <3>1. PICK i \in 1..Len(list') : list'[i] = n
        BY <2>1 DEF Linked
      <3>2. CASE i = 1
        BY <3>1, <3>2, <1>2
      <3>3. CASE i > 1
        <4>1. i - 1 \in 1..Len(list)
          BY <3>1, <3>3, <1>2, <1>3
        <4>2. list'[(i - 1) + 1] = list[i - 1] /\ (i - 1) + 1 = i
          BY <4>1, <1>2
        <4>3. QED BY <4>1, <4>2, <3>1 DEF Linked
      <3>4. QED BY <3>2, <3>3
    <2>2. ASSUME Linked(n) PROVE Linked(n)'
      <3>1. PICK i \in 1..Len(list) : list[i] = n
        BY <2>2 DEF Linked
      <3>2. i + 1 \in 1..Len(list') /\ list'[i + 1] = n
        BY <3>1, <1>2, <1>3
      <3>3. QED BY <3>2 DEF Linked
    <2>3. ASSUME n = added + 1 PROVE Linked(n)'
      <3>1. 1 \in 1..Len(list') /\ list'[1] = n
        BY <2>3, <1>2, <1>3
      <3>2. QED BY <3>1 DEF Linked
    <2>4. QED BY <2>1, <2>2, <2>3
  <1>8. ListHoldsTheLive'
    BY <1>7, <1>1 DEF ListInv, ListHoldsTheLive, Add
  <1>9. TargetIsGiven'
    BY <1>1, ConstantsAssumption DEF ListInv, TargetIsGiven, Add, QueueTypes, Nodes, Null
  <1>10. EndedIsUnlinked'
    <2>1. target # added + 1
      BY <1>1, ConstantsAssumption DEF ListInv, TargetIsGiven, QueueTypes, Nodes, Null
    <2>2. QED BY <1>7, <2>1 DEF ListInv, EndedIsUnlinked, InMessage, Add
  <1>11. QED BY <1>2, <1>4, <1>5, <1>6, <1>8, <1>9, <1>10

\* sem_post by a writer: it fails only where one thread alone writes.
LEMMA PostKeepsList ==
    ASSUME ListInv, Tidy, NEW w \in Writers, Post(w)
    PROVE  (Ranked /\ CallOwnsHead /\ SemCountsNodes /\ TargetIsTail /\ TargetIsGiven
              /\ EndedIsUnlinked /\ ListHoldsTheLive /\ PostsAreGiven /\ FaultIsEmpty)'
  <1>1. QueueTypes /\ WriterTypes /\ LoopTypes
    BY TypeParts DEF ListInv
  <1>2. w \in Unposted /\ wpc[w] = "post"
    BY DEF Post, Unposted
  <1>3. Cardinality(Unposted \ {w}) = Cardinality(Unposted) - 1
        /\ Cardinality(Unposted \ {w}) \in Nat
    BY <1>2, UnpostedFinite, FS_RemoveElement, FS_CardinalityType
  <1>4. Roomy => sem < SemMax
    <2> SUFFICES ASSUME Roomy PROVE sem < SemMax
      OBVIOUS
    <2>1. sem + Cardinality(Unposted) <= added
      BY DEF ListInv, PostsAreGiven
    <2>3. QED
      BY <1>1, <1>3, <2>1, UnpostedFinite, ConstantsAssumption DEF QueueTypes, Roomy
  <1>5. UNCHANGED <<added, list, alive, early, wnode, bpc, target, Admitted>> /\ Admitted \in {0, 1}
    BY DEF Post, Admitted, InMessage
  <1>6. CallOwnsHead' /\ SemCountsNodes' /\ PostsAreGiven'
    <2>1. CASE sem' = sem + 1 /\ wpc' = [wpc EXCEPT ![w] = "idle"]
      <3>1. Unposted' = Unposted \ {w}
        BY <1>1, <2>1 DEF Unposted, WriterTypes
      <3>2. SemCountsNodes' /\ PostsAreGiven'
        BY <1>1, <1>3, <1>5, <2>1, <3>1, UnpostedFinite, ConstantsAssumption
           DEF ListInv, SemCountsNodes, PostsAreGiven, QueueTypes
      <3>3. CallOwnsHead'
        BY <1>1, <1>5, <2>1 DEF ListInv, CallOwnsHead, Alone, Roomy, WriterTypes
      <3> QED
        BY <3>2, <3>3
    <2>2. CASE sem = SemMax /\ sem' = sem /\ wpc' = [wpc EXCEPT ![w] = "undo"]
      <3>1. ~Roomy
        BY <1>1, <1>4, <2>2, ConstantsAssumption DEF QueueTypes
      <3>2. Alone /\ list # <<>> /\ wnode[w] = list[1]
        BY <1>2, <3>1 DEF ListInv, CallOwnsHead
      <3>3. Unposted' = Unposted
        BY <1>1, <1>2, <2>2 DEF Unposted, WriterTypes
      <3>4. SemCountsNodes' /\ PostsAreGiven'
        BY <1>5, <2>2, <3>3 DEF ListInv, SemCountsNodes, PostsAreGiven
      <3>5. CallOwnsHead'
        BY <1>5, <3>2 DEF CallOwnsHead, Alone
      <3> QED
        BY <3>4, <3>5
    <2> QED
      BY <2>1, <2>2 DEF Post
  <1>7. QED
    BY <1>5, <1>6 DEF ListInv, Ranked, TargetIsTail, TargetIsGiven, EndedIsUnlinked,
                      ListHoldsTheLive, Linked, InMessage, FaultIsEmpty

\* The list loses its tail: what remains is ranked, and linked as before.
LEMMA TailUnlinked ==
    ASSUME ListInv, bpc = "unlink", ListDel(target), added' = added
    PROVE  /\ Ranked'
           /\ Len(list') = Len(list) - 1
           /\ \A i \in 1..(Len(list) - 1) : list'[i] = list[i]
           /\ \A n : Linked(n)' <=> (Linked(n) /\ n # target)
  <1>1. QueueTypes /\ WriterTypes /\ LoopTypes
    BY TypeParts DEF ListInv
  <1>2. list # <<>> /\ target = list[Len(list)]
    BY DEF ListInv, TargetIsTail, InMessage
  <1>3. /\ list' \in Seq(Nodes)
        /\ Len(list') = Len(list) - 1
        /\ \A i \in 1..(Len(list) - 1) : list'[i] = list[i]
    BY <1>1, <1>2, DelTail, ConstantsAssumption DEF ListInv, QueueTypes
  <1>4. Len(list) \in Nat /\ Len(list) >= 1
    BY <1>1, <1>2 DEF QueueTypes
  <1>5. Ranked'
    BY <1>3, <1>4 DEF ListInv, Ranked
  <1>6. \A i \in 1..(Len(list) - 1) : list[i] # target
    <2> SUFFICES ASSUME NEW i \in 1..(Len(list) - 1) PROVE list[i] # target
      OBVIOUS
    <2>1. i \in 1..Len(list) /\ Len(list) \in 1..Len(list) /\ i < Len(list)
      BY <1>4
    <2>2. list[Len(list)] < list[i]
      BY <2>1 DEF ListInv, Ranked
    <2>3. list[i] \in Nat /\ list[Len(list)] \in Nat
      BY <1>1, <2>1, EntryIsNode DEF QueueTypes
    <2>4. QED BY <1>2, <2>2, <2>3
  <1>7. \A n : Linked(n)' <=> (Linked(n) /\ n # target)
    <2> SUFFICES ASSUME NEW n PROVE Linked(n)' <=> (Linked(n) /\ n # target)
      OBVIOUS
    <2>1. ASSUME Linked(n)' PROVE Linked(n) /\ n # target
      <3>1. PICK i \in 1..Len(list') : list'[i] = n
        BY <2>1 DEF Linked
      <3>2. i \in 1..(Len(list) - 1) /\ i \in 1..Len(list) /\ list[i] = n
        BY <3>1, <1>3, <1>4
      <3>3. QED BY <3>2, <1>6 DEF Linked
    <2>2. ASSUME Linked(n), n # target PROVE Linked(n)'
      <3>1. PICK i \in 1..Len(list) : list[i] = n
        BY <2>2 DEF Linked
      <3>2. i # Len(list)
        BY <3>1, <2>2, <1>2
      <3>3. i \in 1..Len(list') /\ list'[i] = n
        BY <3>1, <3>2, <1>3, <1>4
      <3>4. QED BY <3>3 DEF Linked
    <2>3. QED BY <2>1, <2>2
  <1>8. QED BY <1>3, <1>5, <1>7

\* The list loses its head: what remains is ranked, and linked as before.
LEMMA HeadUnlinked ==
    ASSUME QueueTypes, Ranked, list # <<>>, ListDel(list[1]), added' = added
    PROVE  /\ Ranked'
           /\ Len(list') = Len(list) - 1
           /\ \A i \in 1..(Len(list) - 1) : list'[i] = list[i + 1]
           /\ \A n : Linked(n)' <=> (Linked(n) /\ n # list[1])
  <1>1. Len(list) \in Nat /\ Len(list) >= 1 /\ added \in Nat
    BY ConstantsAssumption DEF QueueTypes
  <1>2. \A i \in 1..Len(list) : list[i] \in Nat
    BY EntryIsNode DEF QueueTypes
  <1>3. \A i \in 2..Len(list) : list[i] # list[1]
    <2> SUFFICES ASSUME NEW i \in 2..Len(list) PROVE list[i] # list[1]
      OBVIOUS
    <2>1. i \in 1..Len(list) /\ 1 \in 1..Len(list) /\ 1 < i
      BY <1>1
    <2>2. list[i] < list[1]
      BY <2>1 DEF Ranked
    <2> QED
      BY <1>2, <2>1, <2>2
  <1>4. Linked(list[1])
    BY <1>1 DEF Linked
  <1>5. PICK at \in 1..Len(list) :
             /\ list[at] = list[1]
             /\ Len(list') = Len(list) - 1
             /\ \A i \in 1..(Len(list) - 1) :
                   list'[i] = IF i < at THEN list[i] ELSE list[i + 1]
    BY <1>4, DelEntry DEF QueueTypes
  <1>6. at = 1
    BY <1>1, <1>3, <1>5
  <1>7. \A i \in 1..(Len(list) - 1) : list'[i] = list[i + 1] /\ i + 1 \in 2..Len(list)
    BY <1>1, <1>5, <1>6
  <1>8. Ranked'
    <2>1. ASSUME NEW i \in 1..Len(list') PROVE list'[i] + i <= added' + 1
      <3>1. i + 1 \in 1..Len(list) /\ list'[i] = list[i + 1]
        BY <1>1, <1>5, <1>7
      <3>2. list[i + 1] + (i + 1) <= added + 1 /\ list[i + 1] \in Nat
        BY <1>2, <3>1 DEF Ranked
      <3> DEFINE q == list[i + 1]
      <3>3. q \in Nat /\ q + (i + 1) <= added + 1 /\ list'[i] = q /\ i \in Int
        BY <3>1, <3>2
      <3> HIDE DEF q
      <3> QED
        BY <1>1, <3>3
    <2>2. ASSUME NEW i \in 1..Len(list'), NEW j \in 1..Len(list'), i < j
          PROVE  list'[j] < list'[i]
      <3>1. /\ i + 1 \in 1..Len(list) /\ list'[i] = list[i + 1]
            /\ j + 1 \in 1..Len(list) /\ list'[j] = list[j + 1] /\ i + 1 < j + 1
        BY <1>1, <1>5, <1>7, <2>2
      <3>2. list[j + 1] < list[i + 1]
        BY <3>1 DEF Ranked
      <3> QED
        BY <3>1, <3>2
    <2> QED
      BY <2>1, <2>2 DEF Ranked
  <1>9. ASSUME NEW n PROVE Linked(n)' <=> (Linked(n) /\ n # list[1])
    <2>1. ASSUME Linked(n)' PROVE Linked(n) /\ n # list[1]
      <3>1. PICK i \in 1..Len(list') : list'[i] = n
        BY <2>1 DEF Linked
      <3>2. i + 1 \in 2..Len(list) /\ i + 1 \in 1..Len(list) /\ list[i + 1] = n
        BY <1>1, <1>5, <1>7, <3>1
      <3> QED
        BY <1>3, <3>2 DEF Linked
    <2>2. ASSUME Linked(n), n # list[1] PROVE Linked(n)'
      <3>1. PICK i \in 1..Len(list) : list[i] = n
        BY <2>2 DEF Linked
      <3>2. i - 1 \in 1..(Len(list) - 1) /\ (i - 1) + 1 = i
        BY <1>1, <2>2, <3>1
      <3>3. list'[i - 1] = n /\ i - 1 \in 1..Len(list')
        BY <1>5, <1>7, <3>1, <3>2
      <3> QED
        BY <3>3 DEF Linked
    <2> QED
      BY <2>1, <2>2
  <1> QED
    BY <1>5, <1>7, <1>8, <1>9

\* What the caller that withdraws its node knows: the node is the newest of the list,
\* and the bus thread, if it is in a message, has an older one.
LEMMA UndoTakesHead ==
    ASSUME ListInv, NEW w \in Writers, wpc[w] = "undo"
    PROVE  /\ Alone /\ list # <<>> /\ wnode[w] = list[1]
           /\ Linked(wnode[w]) /\ wnode[w] \in alive /\ wnode[w] # target
           /\ Len(list) \in Nat /\ Len(list) >= 1
           /\ InMessage => Len(list) >= 2
  <1>1. QueueTypes /\ WriterTypes
    BY TypeParts DEF ListInv
  <1>2. Alone /\ list # <<>> /\ wnode[w] = list[1]
    BY DEF ListInv, CallOwnsHead
  <1>3. Len(list) \in Nat /\ Len(list) >= 1 /\ 1 \in 1..Len(list)
    BY <1>1, <1>2 DEF QueueTypes
  <1>4. Linked(wnode[w]) /\ wnode[w] \in alive
    <2>1. Linked(list[1]) /\ list[1] \in Nodes
      BY <1>1, <1>3, EntryIsNode DEF Linked, QueueTypes
    <2> QED
      BY <1>2, <2>1 DEF ListInv, ListHoldsTheLive
  <1>5. InMessage => Len(list) >= 2
    <2>1. Cardinality(Unposted) >= 1
      BY CallIsCounted
    <2>2. InMessage => Len(list) + early = sem + Cardinality(Unposted) + 1
      BY DEF ListInv, SemCountsNodes, Admitted
    <2>3. early = 0
      BY <1>1, <1>2 DEF QueueTypes, Alone
    <2> QED
      BY <1>1, <1>3, <2>1, <2>2, <2>3, UnpostedFinite, ConstantsAssumption DEF QueueTypes
  <1>6. wnode[w] # target
    <2>1. CASE InMessage
      <3>1. target = list[Len(list)] /\ Len(list) \in 1..Len(list) /\ 1 < Len(list)
        BY <1>3, <1>5, <2>1 DEF ListInv, TargetIsTail
      <3>2. list[Len(list)] < list[1]
        BY <1>3, <3>1 DEF ListInv, Ranked
      <3>3. list[1] \in Nat /\ list[Len(list)] \in Nat
        BY <1>1, <1>3, <3>1, EntryIsNode DEF QueueTypes
      <3> QED
        BY <1>2, <3>1, <3>2, <3>3
    <2>2. CASE ~InMessage
      BY <1>4, <2>2 DEF ListInv, EndedIsUnlinked
    <2> QED
      BY <2>1, <2>2
  <1> QED
    BY <1>2, <1>3, <1>4, <1>5, <1>6

\* sem_post_fail.
LEMMA UndoKeepsList ==
    ASSUME ListInv, NEW w \in Writers, Undo(w)
    PROVE  (Ranked /\ CallOwnsHead /\ SemCountsNodes /\ TargetIsTail /\ TargetIsGiven
              /\ EndedIsUnlinked /\ ListHoldsTheLive /\ PostsAreGiven /\ FaultIsEmpty)'
  <1>1. QueueTypes /\ WriterTypes
    BY TypeParts DEF ListInv
  <1>2. /\ wpc[w] = "undo" /\ wpc' = [wpc EXCEPT ![w] = "idle"]
        /\ ListDel(wnode[w]) /\ alive' = alive \ {wnode[w]}
        /\ UNCHANGED <<added, sem, early, wnode, bpc, target>> /\ bpc # "fault"
    BY DEF Undo, Up
  <1>3. /\ Alone /\ list # <<>> /\ wnode[w] = list[1]
        /\ Linked(wnode[w]) /\ wnode[w] # target
        /\ Len(list) \in Nat /\ Len(list) >= 1
        /\ InMessage => Len(list) >= 2
    BY <1>2, UndoTakesHead
  <1>4. /\ Ranked'
        /\ Len(list') = Len(list) - 1
        /\ \A i \in 1..(Len(list) - 1) : list'[i] = list[i + 1]
        /\ \A n : Linked(n)' <=> (Linked(n) /\ n # list[1])
    BY <1>1, <1>2, <1>3, HeadUnlinked DEF ListInv
  <1>5. CallOwnsHead'
    BY <1>1, <1>2, <1>3 DEF CallOwnsHead, Alone, WriterTypes
  <1>6. SemCountsNodes' /\ PostsAreGiven' /\ FaultIsEmpty'
    <2>1. w \in Unposted /\ Unposted' = Unposted \ {w}
      BY <1>1, <1>2 DEF Unposted, WriterTypes
    <2>2. Cardinality(Unposted') = Cardinality(Unposted) - 1
      BY <2>1, UnpostedFinite, FS_RemoveElement
    <2>3. Len(list) + early = sem + Cardinality(Unposted) + Admitted /\ Admitted' = Admitted
          /\ Admitted \in {0, 1}
      BY <1>2 DEF ListInv, SemCountsNodes, Admitted, InMessage
    <2>4. SemCountsNodes'
      BY <1>1, <1>2, <1>3, <1>4, <2>2, <2>3, UnpostedFinite, ConstantsAssumption
         DEF QueueTypes, SemCountsNodes
    <2>5. PostsAreGiven' /\ FaultIsEmpty'
      BY <1>1, <1>2, <2>2, UnpostedFinite, ConstantsAssumption
         DEF QueueTypes, ListInv, PostsAreGiven, FaultIsEmpty
    <2> QED
      BY <2>4, <2>5
  <1>7. TargetIsTail'
    <2> SUFFICES ASSUME InMessage PROVE list' # <<>> /\ target' = list'[Len(list')]
      BY <1>2 DEF TargetIsTail, InMessage
    <2>1. Len(list) - 1 \in 1..(Len(list) - 1) /\ (Len(list) - 1) + 1 = Len(list)
      BY <1>3
    <2>2. list'[Len(list')] = list[Len(list)]
      BY <1>4, <2>1
    <2>3. list' # <<>>
      BY <1>3, <1>4
    <2> QED
      BY <1>2, <2>2, <2>3 DEF ListInv, TargetIsTail
  <1>8. TargetIsGiven' /\ EndedIsUnlinked'
    BY <1>2, <1>4 DEF ListInv, TargetIsGiven, EndedIsUnlinked, InMessage
  <1>9. ListHoldsTheLive'
    <2> SUFFICES ASSUME NEW n \in Nodes
                 PROVE  n \in alive' <=> (Linked(n)' \/ (bpc' = "free" /\ n = target'))
      BY DEF ListHoldsTheLive
    <2>1. n \in alive <=> (Linked(n) \/ (bpc = "free" /\ n = target))
      BY DEF ListInv, ListHoldsTheLive
    <2> QED
      BY <1>2, <1>3, <1>4, <2>1
  <1> QED
    BY <1>4, <1>5, <1>6, <1>7, <1>8, <1>9

LEMMA WorkerKeepsList ==
    ASSUME ListInv, BusThread \/ WaitSignalled
    PROVE  (Ranked /\ CallOwnsHead /\ SemCountsNodes /\ TargetIsTail /\ TargetIsGiven
              /\ EndedIsUnlinked /\ ListHoldsTheLive /\ PostsAreGiven /\ FaultIsEmpty)'
  <1>1. QueueTypes /\ WriterTypes /\ LoopTypes
    BY TypeParts DEF ListInv
  <1>2. UNCHANGED writerVars /\ Unposted' = Unposted
    BY DEF Unposted, BusThread, SemWait, WaitSignalled, Traverse, LookupNone,
           LookupDriver, Get, Send, Cast, Recv, Unlink, Free, writerVars, queueVars
  <1>p. (added' = added /\ sem' <= sem) => PostsAreGiven'
    <2>1. sem' \in Int
      BY <1>1, WorkerKeepsTypes, ConstantsAssumption DEF ListInv, StackTypeOK
    <2> QED
      BY <1>1, <1>2, <2>1, UnpostedFinite, ConstantsAssumption
         DEF ListInv, PostsAreGiven, QueueTypes
  <1>h. list' = list => CallOwnsHead'
    BY <1>2 DEF ListInv, CallOwnsHead, Alone, Roomy, writerVars
  <1>3. CASE SemWait \/ WaitSignalled
    <2>1. /\ UNCHANGED <<added, list, alive, target>>
          /\ bpc = "wait" /\ bpc' = "traverse" /\ Admitted = 0 /\ Admitted' = 1
          /\ \/ sem' = sem - 1 /\ early' = early
             \/ sem' = sem /\ early' = early + 1
      BY <1>3 DEF SemWait, WaitSignalled, Admitted, InMessage
    <2>2. SemCountsNodes'
      BY <1>1, <1>2, <2>1, UnpostedFinite, ConstantsAssumption
         DEF ListInv, SemCountsNodes, QueueTypes
    <2>3. PostsAreGiven'
      BY <1>1, <1>p, <2>1, ConstantsAssumption DEF QueueTypes
    <2> QED
      BY <1>h, <2>1, <2>2, <2>3
         DEF ListInv, Ranked, TargetIsTail, TargetIsGiven, EndedIsUnlinked,
             ListHoldsTheLive, Linked, InMessage, FaultIsEmpty
  <1>4. CASE Traverse
    <2>1. /\ UNCHANGED <<added, list, sem, alive, early>> /\ bpc = "traverse"
          /\ target' = IF list = <<>> THEN Null ELSE list[Len(list)]
          /\ bpc' = IF list = <<>> THEN "fault" ELSE "lookup"
      BY <1>4 DEF Traverse, queueVars
    <2>2. SemCountsNodes' /\ PostsAreGiven' /\ Ranked'
      BY <1>1, <1>2, <1>p, <2>1, ConstantsAssumption
         DEF ListInv, SemCountsNodes, Admitted, InMessage, Ranked, QueueTypes
    <2>3. ListHoldsTheLive' /\ CallOwnsHead'
      BY <1>h, <2>1 DEF ListInv, ListHoldsTheLive, Linked
    <2>4. CASE list = <<>>
      BY <1>1, <2>1, <2>2, <2>3, <2>4, ConstantsAssumption
         DEF TargetIsTail, TargetIsGiven, EndedIsUnlinked, FaultIsEmpty, InMessage, Linked,
             QueueTypes, Null
    <2>5. CASE list # <<>>
      <3>1. Len(list) \in 1..Len(list)
        BY <2>5, <1>1 DEF QueueTypes
      <3>2. list[Len(list)] + Len(list) <= added + 1
        BY <3>1 DEF ListInv, Ranked
      <3>3. list[Len(list)] \in Nat
        BY <3>1, <1>1, EntryIsNode DEF QueueTypes
      <3>4. TargetIsGiven'
        BY <2>1, <2>5, <3>1, <3>2, <3>3, <1>1 DEF TargetIsGiven, QueueTypes
      <3> QED
        BY <2>1, <2>2, <2>3, <2>5, <3>4
           DEF TargetIsTail, EndedIsUnlinked, FaultIsEmpty, InMessage
    <2> QED
      BY <2>4, <2>5
  <1>5. CASE LookupNone \/ LookupDriver \/ Get \/ Send \/ Cast \/ Recv
    <2>1. /\ InMessage /\ InMessage'
          /\ UNCHANGED <<added, list, sem, alive, early, target>>
      BY <1>5 DEF LookupNone, LookupDriver, Get, Send, Cast, Recv, EndOfPass,
                  InMessage, queueVars
    <2>2. /\ bpc # "traverse" /\ bpc' # "traverse" /\ bpc # "free" /\ bpc' # "free"
          /\ bpc' # "fault"
      BY <2>1 DEF InMessage
    <2>3. PostsAreGiven'
      BY <1>1, <1>p, <2>1, ConstantsAssumption DEF QueueTypes
    <2>4. QED
      BY <1>2, <1>h, <2>1, <2>2, <2>3
         DEF ListInv, Ranked, SemCountsNodes, Admitted, FaultIsEmpty, TargetIsTail, TargetIsGiven,
             EndedIsUnlinked, ListHoldsTheLive, Linked
  <1>6. CASE Unlink
    <2>1. /\ bpc = "unlink" /\ bpc' = "free" /\ ListDel(target)
          /\ UNCHANGED <<added, sem, alive, early, target>>
      BY <1>6 DEF Unlink
    <2>2. /\ Ranked'
          /\ Len(list') = Len(list) - 1
          /\ \A i \in 1..(Len(list) - 1) : list'[i] = list[i]
          /\ \A n : Linked(n)' <=> (Linked(n) /\ n # target)
      BY <2>1, TailUnlinked
    <2>3. InMessage /\ ~InMessage'
      BY <2>1 DEF InMessage
    <2>4. SemCountsNodes' /\ PostsAreGiven'
      <3>1. Admitted = 1 /\ Admitted' = 0
        BY <2>1 DEF Admitted, InMessage
      <3>2. Len(list) \in Nat
        BY <1>1 DEF QueueTypes
      <3>3. SemCountsNodes'
        <4>1. Len(list') = Len(list) - 1 /\ sem' = sem /\ early' = early
          BY <2>1, <2>2
        <4>2. Len(list) + early = sem + Cardinality(Unposted) + 1
          BY <3>1 DEF ListInv, SemCountsNodes
        <4>3. Cardinality(Unposted') = Cardinality(Unposted)
          BY <1>2
        <4>4. sem \in Nat /\ early \in Nat
          BY <1>1, ConstantsAssumption DEF QueueTypes
        <4>5. Len(list') + early' = sem' + Cardinality(Unposted') + 0
          BY <3>2, <4>1, <4>2, <4>3, <4>4, UnpostedFinite
        <4> QED
          BY <3>1, <4>5 DEF SemCountsNodes
      <3> QED
        BY <1>1, <1>p, <2>1, <3>3, ConstantsAssumption DEF QueueTypes
    <2>5. Linked(target)
      BY <2>3, <1>1 DEF ListInv, TargetIsTail, Linked, QueueTypes
    <2>6. ListHoldsTheLive'
      BY <2>1, <2>2, <2>5 DEF ListInv, ListHoldsTheLive
    <2>8. CallOwnsHead'
      <3> SUFFICES ASSUME NEW w \in Writers, wpc[w] # "idle"
                   PROVE  \/ Roomy /\ wpc[w] = "post"
                          \/ Alone /\ list' # <<>> /\ wnode[w] = list'[1]
        BY <1>2 DEF CallOwnsHead, Alone, Roomy, writerVars
      <3>1. Cardinality(Unposted) >= 1
        BY CallIsCounted
      <3>2. ASSUME early = 0 PROVE list'[1] = list[1] /\ list' # <<>>
        <4>1. Len(list) + early = sem + Cardinality(Unposted) + 1
          BY <2>3 DEF ListInv, SemCountsNodes, Admitted
        <4>2. Len(list) >= 2 /\ Len(list) \in Nat
          BY <1>1, <3>1, <3>2, <4>1, UnpostedFinite, ConstantsAssumption DEF QueueTypes
        <4> QED
          BY <2>2, <4>2
      <3>3. Alone => early = 0
        BY <1>1 DEF QueueTypes, Alone
      <3> QED
        BY <3>2, <3>3 DEF ListInv, CallOwnsHead
    <2>7. QED
      BY <1>2, <2>1, <2>2, <2>3, <2>4, <2>6, <2>8
         DEF ListInv, TargetIsTail, TargetIsGiven, EndedIsUnlinked, FaultIsEmpty
  <1>7. CASE Free
    <2>1. /\ bpc = "free" /\ bpc' = "wait" /\ target' = Null
          /\ alive' = alive \ {target}
          /\ UNCHANGED <<added, list, sem, early>>
      BY <1>7 DEF Free
    <2>2. TargetIsGiven'
      BY <2>1, <1>1, ConstantsAssumption DEF TargetIsGiven, QueueTypes, Null
    <2>3. ListHoldsTheLive'
      BY <2>1 DEF ListInv, ListHoldsTheLive, EndedIsUnlinked, Linked, InMessage
    <2>4. EndedIsUnlinked'
      <3>1. \A i \in 1..Len(list) : list[i] # Null
        BY <1>1, EntryIsNode DEF QueueTypes, Null
      <3> QED
        BY <2>1, <3>1 DEF EndedIsUnlinked, Linked
    <2>5. PostsAreGiven'
      BY <1>1, <1>p, <2>1, ConstantsAssumption DEF QueueTypes
    <2>6. QED
      BY <1>2, <1>h, <2>1, <2>2, <2>3, <2>4, <2>5
         DEF ListInv, Ranked, SemCountsNodes, Admitted, TargetIsTail, InMessage, FaultIsEmpty
  <1>8. QED BY <1>3, <1>4, <1>5, <1>6, <1>7 DEF BusThread

LEMMA ListInductive ==
    ASSUME Tidy
    PROVE  ListInv /\ [StackNext]_stackvars => ListInv'
  <1> SUFFICES ASSUME ListInv, [StackNext]_stackvars PROVE ListInv'
    OBVIOUS
  <1>1. CASE BusThread \/ WaitSignalled
    BY <1>1, WorkerKeepsList, WorkerKeepsTypes DEF ListInv
  <1>2. ASSUME NEW w \in Writers, Writer(w) PROVE ListInv'
    <2>1. StackTypeOK'
      BY <1>2, WriterKeepsTypes DEF ListInv
    <2>2. QED
      BY <1>2, <2>1, AddKeepsList, PostKeepsList, UndoKeepsList DEF ListInv, Writer
  <1>3. CASE UNCHANGED stackvars
    BY <1>3 DEF ListInv, StackTypeOK, Ranked, CallOwnsHead, SemCountsNodes, TargetIsTail,
                TargetIsGiven, EndedIsUnlinked, ListHoldsTheLive, Linked, InMessage,
                Admitted, PostsAreGiven, FaultIsEmpty, Unposted, stackvars, queueVars,
                writerVars, loopVars
  <1>4. QED BY <1>1, <1>2, <1>3 DEF StackNext

LEMMA ListInvariant ==
    ASSUME Tidy
    PROVE  StackSpec => []ListInv
  BY InitList, ListInductive, PTL DEF StackSpec

-----------------------------------------------------------------------------
\* What the semaphore announces is on the list: stack->sem counts the nodes no
\* thread is busy with, for any number of writers.
THEOREM SemaphoreCountsList ==
    ASSUME Tidy
    PROVE  StackSpec => []SemCountsNodes
  <1>1. ListInv => SemCountsNodes
    BY DEF ListInv
  <1>2. QED BY <1>1, ListInvariant, PTL

\* Only an interrupted wait leads custom_stack_handle to an empty list, where it ends the
\* process: without one, the test on node it makes there, which cannot succeed, is not
\* needed.
THEOREM EmptyListTakesInterrupt ==
    ASSUME Tidy
    PROVE  StackSpec => []EmptyListMeansInterrupt
  <1>1. ListInv => EmptyListMeansInterrupt
    <2> SUFFICES ASSUME ListInv, bpc = "fault" \/ (bpc = "traverse" /\ list = <<>>)
                 PROVE  early > 0
      BY DEF EmptyListMeansInterrupt
    <2>1. QueueTypes /\ Len(list) = 0
      BY TypeParts DEF ListInv, FaultIsEmpty
    <2>2. Len(list) + early = sem + Cardinality(Unposted) + 1
      BY DEF ListInv, SemCountsNodes, Admitted
    <2> QED
      BY <2>1, <2>2, UnpostedFinite, ConstantsAssumption DEF QueueTypes
  <1>2. QED BY <1>1, ListInvariant, PTL

\* The message in hand is allocated, linked and the oldest one: first in, first
\* out, without a lock, whatever the interleaving of (atomic) list operations.
THEOREM OldestFirst ==
    ASSUME Tidy
    PROVE  StackSpec => []HandlesOldestLiveNode
  <1>1. ListInv => HandlesOldestLiveNode
    <2> SUFFICES ASSUME ListInv, InMessage
                 PROVE  /\ target \in alive
                        /\ Linked(target)
                        /\ \A i \in 1..Len(list) : target <= list[i]
      BY DEF HandlesOldestLiveNode
    <2>1. QueueTypes
      BY TypeParts DEF ListInv
    <2>2. list # <<>> /\ target = list[Len(list)]
      BY DEF ListInv, TargetIsTail
    <2>3. Len(list) \in 1..Len(list)
      BY <2>1, <2>2 DEF QueueTypes
    <2>4. Linked(target) /\ target \in Nodes
      BY <2>1, <2>2, <2>3, EntryIsNode DEF Linked, QueueTypes
    <2>5. target \in alive
      BY <2>4 DEF ListInv, ListHoldsTheLive
    <2>6. ASSUME NEW i \in 1..Len(list) PROVE target <= list[i]
      <3>1. list[i] \in Nat /\ list[Len(list)] \in Nat
        BY <2>1, <2>3, EntryIsNode DEF QueueTypes
      <3>2. i < Len(list) => list[Len(list)] < list[i]
        BY <2>3 DEF ListInv, Ranked
      <3>3. QED BY <2>1, <2>2, <2>3, <3>1, <3>2 DEF QueueTypes
    <2>7. QED BY <2>4, <2>5, <2>6
  <1>2. QED BY <1>1, ListInvariant, PTL

-----------------------------------------------------------------------------
(* The retransmission loop.  The bound needs drivers that ask for at least *)
(* one pass: with 0 the counter wraps.                                     *)

InLoop == bpc \in {"get", "send", "cast", "recv"}

LoopInv ==
    /\ StackTypeOK
    /\ BusHeldBound
    /\ InLoop => /\ remaining >= 1 /\ begun >= 1
                 /\ begun + remaining <= RetransMax + 1
                 /\ waited <= (begun - 1) * TimeoutMax

LEMMA PassesTimesTimeout ==
    ASSUME NEW n \in 1..RetransMax, NEW x \in Nat, NEW y \in Nat,
           x <= (n - 1) * TimeoutMax, y <= TimeoutMax
    PROVE  /\ x + y <= n * TimeoutMax
           /\ n * TimeoutMax <= RetransMax * TimeoutMax
  <1>1. TimeoutMax \in Nat /\ RetransMax \in Nat
    BY ConstantsAssumption
  <1>2. n * TimeoutMax = (n - 1) * TimeoutMax + TimeoutMax
    BY <1>1
  <1>3. x + y <= n * TimeoutMax
    <2> DEFINE p == (n - 1) * TimeoutMax
    <2>1. p \in Int
      BY <1>1
    <2>2. x + y <= p + TimeoutMax
      BY <1>1, <2>1
    <2>3. QED BY <1>2, <2>2
  <1>4. n * TimeoutMax <= RetransMax * TimeoutMax
    BY <1>1
  <1>5. QED BY <1>3, <1>4

LEMMA LoopInductive ==
    ASSUME \A p \in Profiles : p.retransmission >= 1
    PROVE  LoopInv /\ [StackNext]_stackvars => LoopInv'
  <1> SUFFICES ASSUME LoopInv, [StackNext]_stackvars PROVE LoopInv'
    OBVIOUS
  <1>1. QueueTypes /\ WriterTypes /\ LoopTypes
    BY TypeParts DEF LoopInv
  <1>2. RetransMax \in Nat /\ RetransMax >= 1 /\ TimeoutMax \in Nat
        /\ UnsignedMod \in Nat /\ RetransMax < UnsignedMod
    BY ConstantsAssumption
  <1>3. StackTypeOK'
    <2>1. CASE BusThread \/ WaitSignalled
      BY <2>1, WorkerKeepsTypes DEF LoopInv
    <2>2. ASSUME NEW w \in Writers, Writer(w) PROVE StackTypeOK'
      BY <2>2, WriterKeepsTypes DEF LoopInv
    <2>3. CASE UNCHANGED stackvars
      BY <2>3 DEF LoopInv, StackTypeOK, stackvars, queueVars, writerVars, loopVars
    <2>4. QED BY <2>1, <2>2, <2>3 DEF StackNext
  <1>4. CASE UNCHANGED <<remaining, begun, waited>> /\ (InLoop' => InLoop)
    BY <1>3, <1>4 DEF LoopInv, BusHeldBound
  <1>5. CASE LookupDriver
    <2>1. /\ driver' \in Profiles /\ begun' = 1 /\ waited' = 0
          /\ remaining' = Lesser(driver'.retransmission, RetransMax)
      BY <1>5 DEF LookupDriver
    <2>2. driver'.retransmission \in Nat /\ driver'.retransmission >= 1
      BY <2>1, DriverFields
    <2>3. remaining' \in Nat /\ remaining' >= 1 /\ remaining' <= RetransMax
      BY <2>1, <2>2, <1>2, LesserBound
    <2>4. 0 <= RetransMax * TimeoutMax /\ (1 - 1) * TimeoutMax = 0
      BY <1>2
    <2>5. QED BY <1>2, <1>3, <2>1, <2>3, <2>4 DEF LoopInv, BusHeldBound
  <1>6. CASE Recv
    <2>1. bpc = "recv" /\ waited' = waited + Lesser(driver.timeout, TimeoutMax)
      BY <1>6 DEF Recv
    <2>2. /\ remaining >= 1 /\ begun >= 1 /\ begun + remaining <= RetransMax + 1
          /\ waited <= (begun - 1) * TimeoutMax
      BY <2>1 DEF LoopInv, InLoop
    <2>3. remaining \in Nat /\ remaining < UnsignedMod /\ begun \in Nat /\ waited \in Nat
      BY <1>1, <1>2 DEF LoopTypes
    <2>4. Lesser(driver.timeout, TimeoutMax) \in Nat
          /\ Lesser(driver.timeout, TimeoutMax) <= TimeoutMax
      BY <1>1, <1>2, DriverFields, LesserBound DEF LoopTypes
    <2>5. begun \in 1..RetransMax
      BY <1>2, <2>2, <2>3
    <2>6. waited' <= begun * TimeoutMax /\ begun * TimeoutMax <= RetransMax * TimeoutMax
      BY <2>1, <2>2, <2>3, <2>4, <2>5, PassesTimesTimeout
    <2>7. waited' <= RetransMax * TimeoutMax
      <3>1. waited' \in Nat
        BY <2>1, <2>3, <2>4
      <3>2. begun * TimeoutMax \in Int /\ RetransMax * TimeoutMax \in Int
        BY <1>2, <2>3
      <3>3. QED BY <2>6, <3>1, <3>2
    <2>8. CASE bpc' = "unlink" /\ begun' = begun
      BY <1>3, <2>5, <2>7, <2>8, <1>2 DEF LoopInv, BusHeldBound, InLoop
    <2>9. CASE \E r \in {"neg", "zero"} :
                  /\ remaining' = (remaining - 1) % UnsignedMod
                  /\ remaining' # 0 /\ bpc' = "get" /\ begun' = begun + 1
      <3>1. remaining - 1 \in 0..(UnsignedMod - 1)
        BY <1>2, <2>2, <2>3
      <3>2. remaining' = remaining - 1 /\ remaining' # 0 /\ begun' = begun + 1
        BY <2>9, <3>1, <1>2
      <3>3. remaining' >= 1 /\ begun' >= 1 /\ begun' + remaining' <= RetransMax + 1
            /\ begun' <= RetransMax
        BY <3>2, <2>2, <2>3, <1>2
      <3>4. waited' <= (begun' - 1) * TimeoutMax
        BY <3>2, <2>3, <2>6
      <3>5. QED BY <1>3, <2>7, <3>3, <3>4 DEF LoopInv, BusHeldBound
    <2>10. QED BY <1>6, <2>8, <2>9 DEF Recv, EndOfPass
  <1>7. CASE BusThread
    BY <1>4, <1>5, <1>6, <1>7
       DEF BusThread, SemWait, WaitSignalled, Traverse, LookupNone, Get, Send, Cast, Unlink, Free,
           InLoop, loopVars
  <1>8. ASSUME NEW w \in Writers, Writer(w) PROVE LoopInv'
    BY <1>4, <1>8 DEF Writer, Add, Post, Undo, InLoop, loopVars
  <1>9. CASE UNCHANGED stackvars \/ WaitSignalled
    BY <1>4, <1>9 DEF stackvars, WaitSignalled, InLoop, loopVars
  <1>10. QED BY <1>7, <1>8, <1>9 DEF StackNext

\* do_bus_message holds the bus for at most CUSTOM_DATA_RETRANSMISSION_MAX passes
\* and that many clamped timeouts, if every driver asks for at least one pass.
THEOREM BusIsReleased ==
    ASSUME \A p \in Profiles : p.retransmission >= 1
    PROVE  StackSpec => []BusHeldBound
  <1>1. StackInit => LoopInv
    <2> SUFFICES ASSUME StackInit PROVE LoopInv
      OBVIOUS
    <2>1. 0 <= RetransMax /\ 0 <= RetransMax * TimeoutMax
      BY ConstantsAssumption
    <2>2. QED BY <2>1, InitTypes DEF StackInit, LoopInv, BusHeldBound, InLoop
  <1>2. LoopInv => BusHeldBound
    BY DEF LoopInv
  <1>3. QED BY <1>1, <1>2, LoopInductive, PTL DEF StackSpec

\* The passes made and the passes left are together what the driver is granted; the counter
\* is 0 only in the first pass for a driver that asks for none.
WithinBudget ==
    InLoop => /\ begun + remaining <= Granted + 1
              /\ remaining = 0 => begun = 1 /\ driver.retransmission = 0

LEMMA GrantedPasses ==
    ASSUME LoopTypes
    PROVE  /\ Granted \in Nat /\ driver.retransmission \in Nat
           /\ driver.retransmission = 0 => Granted = UnsignedMod
  <1>1. driver.retransmission \in Nat
    BY DriverFields DEF LoopTypes
  <1> QED
    BY <1>1, LesserBound, ConstantsAssumption DEF Granted

LEMMA PassKeepsBudget ==
    ASSUME LoopTypes, WithinBudget, Recv
    PROVE  /\ WithinBudget'
           /\ begun' > begun => outcome' # "zero" /\ begun' <= Granted
  <1>1. bpc = "recv" /\ InLoop /\ driver' = driver /\ Granted' = Granted
    BY DEF Recv, InLoop, Granted
  <1>2. /\ remaining \in Nat /\ remaining < UnsignedMod /\ begun \in Nat
        /\ UnsignedMod \in Nat /\ UnsignedMod >= 2
        /\ Granted \in Nat
        /\ driver.retransmission = 0 => Granted = UnsignedMod
    BY GrantedPasses, ConstantsAssumption DEF LoopTypes
  <1>3. /\ begun + remaining <= Granted + 1
        /\ remaining = 0 => begun = 1 /\ driver.retransmission = 0
    BY <1>1 DEF WithinBudget
  <1>4. CASE bpc' = "unlink" /\ begun' = begun
    BY <1>2, <1>4 DEF WithinBudget, InLoop
  <1>5. CASE \E r \in {"neg", "zero", "pos"} : EndOfPass(r) /\ bpc' # "unlink"
    <2>1. begun' = begun + 1 /\ outcome' # "zero"
      BY <1>5 DEF EndOfPass
    <2>4. remaining' = (remaining - 1) % UnsignedMod /\ remaining' # 0
      BY <1>5 DEF EndOfPass
    <2>2. CASE remaining = 0
      <3>1. -1 = (-1) * UnsignedMod + (UnsignedMod - 1) /\ 0 - 1 = -1
        BY <1>2
      <3>2. (0 - 1) % UnsignedMod = UnsignedMod - 1
        BY <1>2, <3>1
      <3>3. remaining' = UnsignedMod - 1
        BY <2>2, <2>4, <3>2
      <3>4. begun' = 2 /\ Granted = UnsignedMod
        <4>1. begun = 1 /\ driver.retransmission = 0
          BY <1>3, <2>2
        <4>2. begun' = 1 + 1
          BY <2>1, <4>1
        <4> QED
          BY <1>2, <4>1, <4>2
      <3> QED
        BY <1>1, <1>2, <2>1, <3>3, <3>4 DEF WithinBudget
    <2>3. CASE remaining >= 1
      <3>1. remaining' = remaining - 1 /\ remaining' >= 1
        BY <1>2, <2>3, <2>4
      <3>2. begun' <= Granted /\ begun' + remaining' <= Granted + 1
        <4> DEFINE granted == Granted
        <4>1. granted \in Nat /\ begun \in Nat /\ remaining \in Nat
          BY <1>2
        <4>2. begun + remaining <= granted + 1
          BY <1>3
        <4>3. begun' = begun + 1 /\ remaining' = remaining - 1 /\ remaining' >= 1
          BY <2>1, <3>1
        <4> HIDE DEF granted
        <4>4. begun' <= granted /\ begun' + remaining' <= granted + 1
          BY <4>1, <4>2, <4>3
        <4> QED
          BY <4>4 DEF granted
      <3> QED
        BY <1>1, <1>2, <2>1, <3>1, <3>2 DEF WithinBudget
    <2> QED
      BY <1>2, <2>2, <2>3
  <1> QED
    BY <1>2, <1>4, <1>5 DEF Recv, EndOfPass

LEMMA BudgetInductive == LoopTypes /\ WithinBudget /\ [StackNext]_stackvars => WithinBudget'
  <1> SUFFICES ASSUME LoopTypes, WithinBudget, [StackNext]_stackvars PROVE WithinBudget'
    OBVIOUS
  <1>1. CASE UNCHANGED <<driver, remaining, begun>> /\ (InLoop' => InLoop)
    BY <1>1 DEF WithinBudget, Granted
  <1>2. CASE LookupDriver
    <2>1. /\ driver' \in Profiles /\ begun' = 1
          /\ remaining' = Lesser(driver'.retransmission, RetransMax)
      BY <1>2 DEF LookupDriver
    <2>2. driver'.retransmission \in Nat /\ RetransMax \in Nat \ {0} /\ UnsignedMod \in Nat
      BY <2>1, DriverFields, ConstantsAssumption
    <2> DEFINE asked == driver'.retransmission
               least == Lesser(asked, RetransMax)
    <2>5. least \in Nat /\ least <= asked /\ (asked >= 1 => least >= 1)
      BY <2>2, LesserBound
    <2>6. remaining' = least /\ Granted' = IF asked = 0 THEN UnsignedMod ELSE least
      BY <2>1 DEF Granted
    <2> HIDE DEF asked, least
    <2>3. remaining' \in Nat /\ remaining' <= Granted' /\ Granted' \in Nat
      <3>1. asked \in Nat
        BY <2>2 DEF asked
      <3> QED
        BY <2>2, <2>5, <2>6, <3>1
    <2>4. remaining' = 0 => driver'.retransmission = 0
      BY <2>2, <2>5, <2>6 DEF asked
    <2> QED
      BY <2>1, <2>3, <2>4 DEF WithinBudget
  <1>3. CASE Recv
    BY <1>3, PassKeepsBudget
  <1>4. CASE BusThread
    BY <1>1, <1>2, <1>3, <1>4
       DEF BusThread, SemWait, Traverse, LookupNone, Get, Send, Cast, Unlink, Free,
           InLoop, loopVars
  <1>5. ASSUME NEW w \in Writers, Writer(w) PROVE WithinBudget'
    BY <1>1, <1>5 DEF Writer, Add, Post, Undo, InLoop, loopVars
  <1>6. CASE UNCHANGED stackvars \/ WaitSignalled
    BY <1>1, <1>6 DEF stackvars, WaitSignalled, InLoop, loopVars
  <1> QED
    BY <1>4, <1>5, <1>6 DEF StackNext

\* A pass is repeated only where no answer came or the driver's put did not return 0, and
\* no more often than the driver is granted, a driver that asks for 0 passes included: it
\* gets as many as it takes the counter to come round.
THEOREM RepeatsAreJustified == StackSpec => ResendsOnlyFailures
  <1>1. StackInit => WithinBudget
    BY DEF StackInit, InLoop, WithinBudget
  <1>2. StackTypeOK /\ StackTypeOK' /\ WithinBudget /\ [StackNext]_stackvars
        => /\ WithinBudget'
           /\ [(begun' > begun /\ bpc = "recv")
                 => (outcome' # "zero" /\ begun' <= Granted)]_stackvars
    <2> SUFFICES ASSUME StackTypeOK, WithinBudget, [StackNext]_stackvars
                 PROVE  /\ WithinBudget'
                        /\ [(begun' > begun /\ bpc = "recv")
                              => (outcome' # "zero" /\ begun' <= Granted)]_stackvars
      OBVIOUS
    <2>1. LoopTypes /\ begun \in Nat
      BY TypeParts DEF LoopTypes
    <2>2. WithinBudget'
      BY <2>1, BudgetInductive
    <2>3. ASSUME StackNext, begun' > begun, bpc = "recv"
          PROVE  outcome' # "zero" /\ begun' <= Granted
      <3>1. begun' # begun
        BY <2>1, <2>3
      <3>2. Recv
        BY <2>3, <3>1
           DEF StackNext, BusThread, WaitSignalled, Writer, Add, Post, Undo, SemWait, Traverse,
               LookupNone, LookupDriver, Get, Send, Cast, Unlink, Free, loopVars
      <3> QED
        BY <2>1, <2>3, <3>2, PassKeepsBudget
    <2>4. UNCHANGED stackvars => begun' = begun
      BY DEF stackvars, loopVars
    <2> QED
      BY <2>2, <2>3
  <1>3. QED
    BY <1>1, <1>2, TypeCorrect, PTL DEF StackSpec, ResendsOnlyFailures

-----------------------------------------------------------------------------
(* CustomBus implements BusQueue. *)

Waiting == Len(list) - Taken

\* The list from its tail, without the node in hand, and that node.
Pending == [i \in 1..(Len(list) - Taken) |-> list[Len(list) + 1 - Taken - i]]
Current == IF InMessage \/ bpc = "free" THEN target ELSE 0

PendingShape ==
    /\ Taken \in {0, 1} /\ Waiting \in Nat
    /\ Pending \in Seq(Nodes)
    /\ Len(Pending) = Waiting
    /\ \A i \in 1..Waiting : Pending[i] = list[Len(list) + 1 - Taken - i]

LEMMA PendingIsList == ListInv => PendingShape
  <1> SUFFICES ASSUME ListInv PROVE PendingShape
    OBVIOUS
  <1>1. list \in Seq(Nodes) /\ Len(list) \in Nat
    BY TypeParts DEF ListInv, QueueTypes
  <1>2. Taken \in {0, 1} /\ Waiting \in Nat
    BY <1>1 DEF ListInv, TargetIsTail, Taken, Waiting
  <1>3. ASSUME NEW i \in 1..Waiting PROVE list[Len(list) + 1 - Taken - i] \in Nodes
    <2>1. Len(list) + 1 - Taken - i \in 1..Len(list)
      BY <1>1, <1>2, <1>3 DEF Waiting
    <2> QED
      BY <1>1, <2>1
  <1>4. Pending \in [1..Waiting -> Nodes]
    BY <1>3 DEF Pending, Waiting
  <1>5. Pending \in Seq(Nodes) /\ Len(Pending) = Waiting
    BY <1>2, <1>4
  <1> QED
    BY <1>2, <1>5 DEF PendingShape, Pending, Waiting

LEMMA PendingStaysList == ListInv' => PendingShape'
  BY PendingIsList, PTL

LEMMA AddAccepts ==
    ASSUME ListInv, ListInv', NEW w \in Writers, Add(w)
    PROVE  Promise!Accept
  <1>1. QueueTypes
    BY TypeParts DEF ListInv
  <1>2. /\ Len(list') = Len(list) + 1
        /\ list'[1] = added + 1
        /\ \A i \in 1..Len(list) : list'[i + 1] = list[i]
    BY <1>1, AddAtHead DEF ListInv
  <1>3. /\ Taken' = Taken /\ Taken \in {0, 1} /\ Waiting \in Nat
        /\ Waiting' = Waiting + 1 /\ Len(list) \in Nat
    BY <1>1, <1>2, PendingIsList DEF PendingShape, Add, Taken, InMessage, Waiting, QueueTypes
  <1>4. /\ Pending' \in Seq(Nodes) /\ Len(Pending') = Waiting'
        /\ \A i \in 1..Waiting' : Pending'[i] = list'[Len(list') + 1 - Taken' - i]
    BY PendingStaysList DEF PendingShape
  <1>5. Pending' = Append(Pending, added + 1)
    <2>1. \A i \in 1..Waiting : Pending'[i] = Pending[i]
      <3> SUFFICES ASSUME NEW i \in 1..Waiting PROVE Pending'[i] = Pending[i]
        OBVIOUS
      <3> DEFINE j == Len(list) + 1 - Taken - i
      <3>1. j \in 1..Len(list)
        BY <1>3 DEF Waiting
      <3>2. Pending'[i] = list'[j + 1]
        BY <1>2, <1>3, <1>4
      <3> QED
        BY <1>2, <3>1, <3>2, PendingIsList DEF PendingShape
    <2>2. Pending'[Waiting + 1] = added + 1
      <3>1. Len(list') + 1 - Taken' - (Waiting + 1) = 1
        BY <1>2, <1>3 DEF Waiting
      <3> QED
        BY <1>2, <1>3, <1>4, <3>1
    <2>3. added + 1 \in Nodes
      BY <1>1, ConstantsAssumption DEF Add, QueueTypes, Nodes
    <2> QED
      BY <1>3, <1>4, <2>1, <2>2, <2>3, PendingIsList DEF PendingShape
  <1>6. added < MaxAdded /\ added' = added + 1 /\ Current' = Current
    BY DEF Add, Current, InMessage
  <1> QED
    BY <1>5, <1>6 DEF Promise!Accept, Pending, Current

\* list_for_each ends at the tail, which becomes the message in hand.
LEMMA TraverseHandsOver ==
    ASSUME ListInv, ListInv', Traverse, list # <<>>
    PROVE  Promise!HandOver
  <1>1. QueueTypes
    BY TypeParts DEF ListInv
  <1>2. list' = list /\ added' = added /\ bpc = "traverse" /\ bpc' = "lookup"
    BY DEF Traverse, queueVars
  <1>3. list # <<>> /\ target' = list[Len(list)] /\ Len(list) \in Nat
    BY <1>1, <1>2 DEF ListInv, TargetIsTail, InMessage, QueueTypes
  <1>4. Taken = 0 /\ Taken' = 1 /\ Current = 0 /\ Current' = target'
    BY <1>2 DEF Taken, Current, InMessage
  <1>5. Waiting = Len(list) /\ Waiting >= 1
    BY <1>1, <1>3, <1>4 DEF Waiting, QueueTypes
  <1>6. Pending # <<>> /\ Head(Pending) = list[Len(list)]
    BY <1>3, <1>4, <1>5, PendingIsList DEF PendingShape
  <1>7. Pending' = Tail(Pending)
    <2>1. Pending' = [i \in 1..(Len(list) - 1) |-> list[Len(list) - i]]
      BY <1>2, <1>3, <1>4 DEF Pending
    <2>2. Tail(Pending) = [i \in 1..(Len(list) - 1) |-> Pending[i + 1]]
      <3>1. ASSUME NEW s \in Seq(Nodes), s # <<>>
            PROVE  Tail(s) = [i \in 1..(Len(s) - 1) |-> s[i + 1]]
        <4> DEFINE t == Tail(s)
        <4>1. /\ t \in Seq(Nodes) /\ Len(t) = Len(s) - 1
              /\ \A i \in 1..Len(t) : t[i] = s[i + 1]
          BY <3>1, HeadTailProperties
        <4> HIDE DEF t
        <4>2. t = [i \in 1..Len(t) |-> t[i]]
          BY <4>1
        <4>3. t = [i \in 1..(Len(s) - 1) |-> s[i + 1]]
          BY <4>1, <4>2
        <4> QED
          BY <4>3 DEF t
      <3> QED
        BY <1>5, <1>6, <3>1, PendingIsList DEF PendingShape
    <2>3. ASSUME NEW i \in 1..(Len(list) - 1) PROVE Pending[i + 1] = list[Len(list) - i]
      BY <1>3, <1>4, <1>5, <2>3, PendingIsList DEF PendingShape
    <2> QED
      BY <2>1, <2>2, <2>3
  <1> QED
    BY <1>2, <1>3, <1>4, <1>6, <1>7 DEF Promise!HandOver, Pending, Current

\* list_del takes the message in hand off the list: nothing pending changes.
LEMMA UnlinkStutters ==
    ASSUME ListInv, Unlink
    PROVE  UNCHANGED <<added, Pending, Current>>
  <1>1. /\ bpc = "unlink" /\ bpc' = "free" /\ ListDel(target)
        /\ UNCHANGED <<added, target>>
    BY DEF Unlink
  <1>2. QueueTypes /\ list # <<>> /\ target = list[Len(list)]
    BY <1>1, TypeParts DEF ListInv, TargetIsTail, InMessage
  <1>3. /\ Len(list') = Len(list) - 1 /\ Len(list) \in Nat
        /\ \A i \in 1..(Len(list) - 1) : list'[i] = list[i]
    BY <1>1, <1>2, DelTail, ConstantsAssumption DEF ListInv, QueueTypes
  <1>4. Taken = 1 /\ Taken' = 0 /\ Current' = Current
    BY <1>1 DEF Taken, Current, InMessage
  <1>5. Pending = [i \in 1..(Len(list) - 1) |-> list[Len(list) - i]]
    BY <1>3, <1>4 DEF Pending
  <1>6. Pending' = [i \in 1..(Len(list) - 1) |-> list'[Len(list) - i]]
    BY <1>3, <1>4 DEF Pending
  <1>7. ASSUME NEW i \in 1..(Len(list) - 1)
        PROVE  list'[Len(list) - i] = list[Len(list) - i]
    BY <1>3, <1>7
  <1> QED
    BY <1>1, <1>4, <1>5, <1>6, <1>7

\* The error path takes the newest message back, which nobody has been handed.
LEMMA UndoWithdraws ==
    ASSUME ListInv, ListInv', NEW w \in Writers, Undo(w)
    PROVE  Promise!Withdraw
  <1>1. QueueTypes
    BY TypeParts DEF ListInv
  <1>2. /\ wpc[w] = "undo" /\ ListDel(wnode[w])
        /\ UNCHANGED <<added, bpc, target>>
    BY DEF Undo
  <1>3. /\ list # <<>> /\ wnode[w] = list[1]
        /\ Len(list) \in Nat /\ Len(list) >= 1
        /\ InMessage => Len(list) >= 2
    BY <1>2, UndoTakesHead
  <1>4. /\ Len(list') = Len(list) - 1
        /\ \A i \in 1..(Len(list) - 1) : list'[i] = list[i + 1]
    BY <1>1, <1>2, <1>3, HeadUnlinked DEF ListInv
  <1>5. /\ Taken' = Taken /\ Taken \in {0, 1} /\ Current' = Current
        /\ Waiting \in Nat /\ Waiting >= 1 /\ Waiting' = Waiting - 1
    BY <1>2, <1>3, <1>4 DEF Taken, Current, InMessage, Waiting
  <1> DEFINE n == Waiting
             q == Pending
  <1>6. /\ q \in Seq(Nodes) /\ Len(q) = n /\ n \in Nat /\ n >= 1
        /\ Pending' \in Seq(Nodes) /\ Len(Pending') = n - 1
    BY <1>5, PendingIsList, PendingStaysList DEF PendingShape
  <1>7. \A i \in 1..(n - 1) : Pending'[i] = q[i]
    <2> SUFFICES ASSUME NEW i \in 1..(Waiting - 1) PROVE Pending'[i] = Pending[i]
      OBVIOUS
    <2> DEFINE j == Len(list) - Taken - i
    <2>1. j \in 1..(Len(list) - 1) /\ i \in 1..Waiting /\ i \in 1..Waiting'
      BY <1>3, <1>5 DEF Waiting
    <2>2. Pending'[i] = list'[j]
      <3>1. Len(list') + 1 - Taken' - i = j
        BY <1>3, <1>4, <1>5
      <3> QED
        BY <2>1, <3>1, PendingStaysList DEF PendingShape
    <2>3. Pending[i] = list[j + 1]
      <3>1. Len(list) + 1 - Taken - i = j + 1
        BY <1>3, <1>5
      <3> QED
        BY <2>1, <3>1, PendingIsList DEF PendingShape
    <2> QED
      BY <1>4, <2>1, <2>2, <2>3
  <1>8. Pending' = SubSeq(q, 1, n - 1) \o SubSeq(q, n + 1, n)
    <2> HIDE DEF n, q
    <2>1. SubSeq(q, 1, n - 1) = [i \in 1..(n - 1) |-> q[i]]
      BY <1>6
    <2>2. SubSeq(q, n + 1, n) = <<>>
      BY <1>6
    <2>3. Pending' = [i \in 1..(n - 1) |-> Pending'[i]]
      BY <1>6
    <2>4. SubSeq(q, 1, n - 1) = Pending' /\ SubSeq(q, 1, n - 1) \in Seq(Nodes)
      BY <1>6, <1>7, <2>1, <2>3
    <2>5. SubSeq(q, 1, n - 1) \o <<>> = SubSeq(q, 1, n - 1)
      BY <2>4, ConcatEmptySeq
    <2> QED
      BY <2>2, <2>4, <2>5
  <1>9. \E i \in 1..Len(Pending) :
           Pending' = SubSeq(Pending, 1, i - 1) \o SubSeq(Pending, i + 1, Len(Pending))
    <2>1. Waiting \in 1..Len(Pending) /\ Len(Pending) = Waiting
      BY <1>6
    <2> QED
      BY <1>8, <2>1
  <1> QED
    BY <1>2, <1>5, <1>9 DEF Promise!Withdraw, Pending, Current

LEMMA StepMaps ==
    ASSUME ListInv, ListInv', [StackNext]_stackvars
    PROVE  [Promise!Next]_(Promise!vars)
  <1> USE DEF Promise!Next
  <1>1. ASSUME UNCHANGED <<added, Pending, Current>>
        PROVE  [Promise!Next]_(Promise!vars)
    BY <1>1 DEF Promise!vars, Pending, Current
  <1>2. ASSUME NEW w \in Writers, Writer(w)
        PROVE  [Promise!Next]_(Promise!vars)
    <2>1. CASE Add(w)
      BY <2>1, AddAccepts
    <2>2. CASE Post(w)
      BY <1>1, <2>2 DEF Post, Pending, Current, Taken, InMessage
    <2>3. CASE Undo(w)
      BY <2>3, UndoWithdraws
    <2> QED
      BY <1>2, <2>1, <2>2, <2>3 DEF Writer
  <1>3. CASE Traverse
    <2>1. CASE list = <<>>
      BY <1>1, <1>3, <2>1 DEF Traverse, queueVars, Pending, Current, Taken, InMessage
    <2>2. CASE list # <<>>
      BY <1>3, <2>2, TraverseHandsOver
    <2> QED
      BY <2>1, <2>2
  <1>4. CASE Unlink
    BY <1>1, <1>4, UnlinkStutters
  <1>5. CASE Free
    <2>1. /\ bpc = "free" /\ bpc' = "wait" /\ UNCHANGED <<added, list>>
          /\ Taken' = Taken /\ Current = target /\ Current' = 0
      BY <1>5 DEF Free, Taken, Current, InMessage
    <2>2. Pending' = Pending
      BY <2>1 DEF Pending
    <2>3. CASE target = 0
      BY <1>1, <2>1, <2>2, <2>3
    <2>4. CASE target # 0
      BY <2>1, <2>2, <2>4 DEF Promise!Finish, Pending, Current
    <2> QED
      BY <2>3, <2>4
  <1>6. CASE \/ SemWait \/ WaitSignalled \/ LookupNone \/ LookupDriver
             \/ Get \/ Send \/ Cast \/ Recv
    <2>1. /\ UNCHANGED <<added, list, target>> /\ (InMessage' <=> InMessage)
          /\ bpc # "free" /\ bpc' # "free"
      BY <1>6 DEF SemWait, WaitSignalled, LookupNone, LookupDriver, Get, Send, Cast, Recv,
                  EndOfPass, InMessage, queueVars
    <2> QED
      BY <1>1, <2>1 DEF Pending, Current, Taken
  <1>7. CASE UNCHANGED stackvars
    BY <1>1, <1>7 DEF stackvars, queueVars, writerVars, Pending, Current, Taken, InMessage
  <1> QED
    BY <1>2, <1>3, <1>4, <1>5, <1>6, <1>7 DEF StackNext, BusThread

\* custom_bus_write and the bus thread make a first-in first-out queue that hands every
\* message over once, or withdraws it before: it needs no lock around the list as long as
\* the list's operations are atomic and either no sem_post fails, or one thread writes and
\* no wait is cut short.
THEOREM ImplementsBusQueue ==
    ASSUME Tidy
    PROVE  StackSpec => PromiseKept
  <1>1. StackInit => Promise!Init
    BY DEF StackInit, Promise!Init, Taken, InMessage
  <1>2. QED
    BY <1>1, StepMaps, ListInvariant, PTL DEF StackSpec, PromiseKept, Promise!Spec
=============================================================================
