-------------------------- MODULE DriverModelProof --------------------------
(***************************************************************************)
(* Proofs about DriverModel, for every number of buses, drivers, devices   *)
(* and registrations.                                                      *)
(***************************************************************************)
EXTENDS DriverModel, WellFoundedInduction, SequenceTheorems, TLAPS

-----------------------------------------------------------------------------
(* What wlist's operations do to the entries of a list *)

\* Every set of natural numbers has a least one.
LEMMA Least ==
    ASSUME NEW T \in SUBSET Nat, T # {}
    PROVE  \E m \in T : \A n \in T : m <= n
  <1>1. PICK m \in T : \A n \in T : ~(<<n, m>> \in OpToRel(<, Nat))
    BY NatLessThanWellFounded, WFMin
  <1>2. ASSUME NEW n \in T PROVE ~(n < m)
    BY <1>1, <1>2 DEF OpToRel
  <1> QED
    BY <1>2

\* The first index is one of them, if there are any.
LEMMA FirstIs ==
    ASSUME NEW T \in SUBSET Nat
    PROVE  IF T = {} THEN FirstOf(T) = 0 ELSE FirstOf(T) \in T
  <1>1. CASE T # {}
    <2>1. \E i \in T : \A j \in T : i <= j
      BY <1>1, Least
    <2> QED
      BY <1>1, <2>1 DEF FirstOf
  <1> QED
    BY <1>1 DEF FirstOf

\* So the answer for the positions of a list tells whether there are any.
LEMMA FoundAt ==
    ASSUME NEW T \in SUBSET Nat, 0 \notin T
    PROVE  FirstOf(T) \in Nat /\ (FirstOf(T) = 0 => T = {})
  <1>1. CASE T = {}
    BY <1>1, FirstIs
  <1>2. CASE T # {}
    BY <1>2, FirstIs
  <1> QED
    BY <1>1, <1>2

LEMMA AppendIs ==
    ASSUME NEW S, NEW s \in Seq(S), NEW x \in S
    PROVE  /\ Append(s, x) \in Seq(S)
           /\ Elems(Append(s, x)) = Elems(s) \cup {x}
           /\ Once(s) /\ x \notin Elems(s) => Once(Append(s, x))
  <1> DEFINE t == Append(s, x)
  <1>1. /\ t \in Seq(S) /\ Len(t) = Len(s) + 1 /\ Len(s) \in Nat
        /\ t[Len(s) + 1] = x
        /\ \A i \in 1..Len(s) : t[i] = s[i]
    OBVIOUS
  <1> HIDE DEF t
  <1>2. Elems(t) = Elems(s) \cup {x}
    <2>1. ASSUME NEW y \in Elems(t) PROVE y \in Elems(s) \cup {x}
      <3>1. PICK i \in 1..Len(t) : y = t[i]
        BY DEF Elems
      <3>2. i = Len(s) + 1 \/ i \in 1..Len(s)
        BY <1>1
      <3> QED
        BY <1>1, <3>1, <3>2 DEF Elems
    <2>2. ASSUME NEW y \in Elems(s) PROVE y \in Elems(t)
      <3>1. PICK i \in 1..Len(s) : y = s[i]
        BY DEF Elems
      <3>2. i \in 1..Len(t) /\ t[i] = y
        BY <1>1, <3>1
      <3> QED
        BY <3>2 DEF Elems
    <2>3. x \in Elems(t)
      <3>1. Len(s) + 1 \in 1..Len(t)
        BY <1>1
      <3> QED
        BY <1>1, <3>1 DEF Elems
    <2> QED
      BY <2>1, <2>2, <2>3
  <1>3. ASSUME Once(s), x \notin Elems(s) PROVE Once(t)
    <2> SUFFICES ASSUME NEW i \in 1..Len(t), NEW j \in 1..Len(t), t[i] = t[j] PROVE i = j
      BY DEF Once
    <2>1. \A k \in 1..Len(s) : t[k] # x
      BY <1>1, <1>3 DEF Elems
    <2>2. i \in 1..Len(s) /\ j \in 1..Len(s) => i = j
      BY <1>1, <1>3 DEF Once
    <2> QED
      BY <1>1, <2>1, <2>2
  <1> QED
    BY <1>1, <1>2, <1>3 DEF t

\* Taking the entry at an index off a list.
LEMMA WithoutIs ==
    ASSUME NEW S, NEW s \in Seq(S), NEW k \in Nat
    PROVE  /\ Without(s, k) \in Seq(S)
           /\ Once(s) => /\ Once(Without(s, k))
                         /\ Elems(Without(s, k))
                              = Elems(s) \ (IF k \in 1..Len(s) THEN {s[k]} ELSE {})
  <1>1. CASE k \notin 1..Len(s)
    BY <1>1 DEF Without
  <1>2. CASE k \in 1..Len(s)
    <2> DEFINE t == RemoveAt(s, k)
    <2>1. Without(s, k) = t
      BY <1>2 DEF Without
    <2>2. /\ t \in Seq(S) /\ Len(t) = Len(s) - 1 /\ Len(s) \in Nat
          /\ \A i \in 1..Len(t) : t[i] = IF i < k THEN s[i] ELSE s[i + 1]
      <3>1. Len(s) \in Nat /\ k >= 1 /\ k <= Len(s)
        BY <1>2
      <3> DEFINE before == SubSeq(s, 1, k - 1)
                 after == SubSeq(s, k + 1, Len(s))
      <3>2. /\ before \in Seq(S) /\ Len(before) = k - 1
            /\ \A i \in 1..(k - 1) : before[i] = s[i]
        BY <3>1
      <3>3. /\ after \in Seq(S) /\ Len(after) = Len(s) - k
            /\ \A i \in 1..(Len(s) - k) : after[i] = s[k + i]
        BY <3>1
      <3>4. t = before \o after
        BY DEF RemoveAt
      <3> HIDE DEF t, before, after
      <3>5. /\ t \in Seq(S) /\ Len(t) = Len(s) - 1
            /\ \A i \in 1..Len(t) :
                  t[i] = IF i <= k - 1 THEN before[i] ELSE after[i - (k - 1)]
        <4>1. t \in Seq(S) /\ Len(t) = Len(before) + Len(after)
          BY <3>2, <3>3, <3>4, ConcatProperties
        <4>2. \A i \in 1..(Len(before) + Len(after)) :
                 t[i] = IF i <= Len(before) THEN before[i] ELSE after[i - Len(before)]
          BY <3>2, <3>3, <3>4, ConcatProperties
        <4>3. Len(before) + Len(after) = Len(s) - 1 /\ Len(before) = k - 1
          BY <3>1, <3>2, <3>3
        <4> QED
          BY <4>1, <4>2, <4>3
      <3>6. ASSUME NEW i \in 1..Len(t) PROVE t[i] = IF i < k THEN s[i] ELSE s[i + 1]
        <4>1. CASE i < k
          <5>1. i \in 1..(k - 1) /\ i <= k - 1
            BY <3>1, <3>5, <4>1
          <5> QED
            BY <3>2, <3>5, <4>1, <5>1
        <4>2. CASE i >= k
          <5>1. i - (k - 1) \in 1..(Len(s) - k) /\ k + (i - (k - 1)) = i + 1 /\ ~(i <= k - 1)
            BY <3>1, <3>5, <4>2
          <5> QED
            BY <3>3, <3>5, <4>2, <5>1
        <4> QED
          BY <3>1, <4>1, <4>2
      <3> QED
        BY <3>1, <3>5, <3>6
    <2> HIDE DEF t
    <2>3. ASSUME Once(s) PROVE Once(t) /\ Elems(t) = Elems(s) \ {s[k]}
      <3> DEFINE At(i) == IF i < k THEN i ELSE i + 1
      <3>1. \A i \in 1..Len(t) : At(i) \in 1..Len(s) /\ At(i) # k /\ t[i] = s[At(i)]
        BY <1>2, <2>2
      <3>2. Once(t)
        <4> SUFFICES ASSUME NEW i \in 1..Len(t), NEW j \in 1..Len(t), t[i] = t[j] PROVE i = j
          BY DEF Once
        <4>1. At(i) = At(j)
          BY <2>3, <3>1 DEF Once
        <4> QED
          BY <1>2, <4>1
      <3>3. ASSUME NEW y \in Elems(t) PROVE y \in Elems(s) /\ y # s[k]
        <4>1. PICK i \in 1..Len(t) : y = t[i]
          BY DEF Elems
        <4> QED
          BY <1>2, <2>3, <3>1, <4>1 DEF Once, Elems
      <3>4. ASSUME NEW y \in Elems(s), y # s[k] PROVE y \in Elems(t)
        <4>1. PICK j \in 1..Len(s) : y = s[j]
          BY DEF Elems
        <4>2. j # k
          BY <3>4, <4>1
        <4> DEFINE i == IF j < k THEN j ELSE j - 1
        <4>3. i \in 1..Len(t) /\ At(i) = j
          BY <1>2, <2>2, <4>2
        <4>4. t[i] = y
          BY <3>1, <4>1, <4>3
        <4> QED
          BY <4>3, <4>4 DEF Elems
      <3> QED
        BY <3>2, <3>3, <3>4
    <2> QED
      BY <1>2, <2>1, <2>2, <2>3
  <1> QED
    BY <1>1, <1>2

\* The selection is the limit of a function of the prefixes, which exists: one entry at a
\* time.
SelectsUpTo(f, s, set, n) ==
    f = [i \in 0..n |-> IF i = 0 THEN <<>>
                        ELSE IF s[i] \in set THEN Append(f[i - 1], s[i]) ELSE f[i - 1]]

LEMMA SelectionExists ==
    ASSUME NEW S, NEW s \in Seq(S), NEW set, NEW n \in 0..Len(s)
    PROVE  \E f : SelectsUpTo(f, s, set, n)
  <1> DEFINE T == {m \in Nat : ~\E f : SelectsUpTo(f, s, set, m)}
  <1>0. Len(s) \in Nat /\ n \in Nat
    OBVIOUS
  <1> SUFFICES ASSUME T # {} PROVE FALSE
    BY <1>0
  <1>1. PICK m \in T : \A k \in T : m <= k
    BY Least
  <1>2. CASE m = 0
    <2> DEFINE f == [i \in 0..0 |-> <<>>]
    <2>1. SelectsUpTo(f, s, set, 0)
      BY DEF SelectsUpTo
    <2> QED
      BY <1>2, <2>1
  <1>3. CASE m > 0
    <2>1. m - 1 \in Nat /\ m - 1 \notin T
      BY <1>1, <1>3
    <2>2. PICK f : SelectsUpTo(f, s, set, m - 1)
      BY <2>1
    <2> DEFINE g == [i \in 0..m |->
                       IF i < m THEN f[i]
                       ELSE IF s[m] \in set THEN Append(f[m - 1], s[m]) ELSE f[m - 1]]
    <2>3. ASSUME NEW i \in 0..m
          PROVE  g[i] = IF i = 0 THEN <<>>
                        ELSE IF s[i] \in set THEN Append(g[i - 1], s[i]) ELSE g[i - 1]
      <3>1. CASE i = m
        BY <1>3, <3>1
      <3>2. CASE i < m
        <4>1. i \in 0..(m - 1) /\ g[i] = f[i] /\ (i # 0 => i - 1 \in 0..m /\ g[i - 1] = f[i - 1])
          BY <3>2
        <4> QED
          BY <2>2, <4>1 DEF SelectsUpTo
      <3> QED
        BY <3>1, <3>2
    <2>4. SelectsUpTo(g, s, set, m)
      BY <2>3 DEF SelectsUpTo
    <2> QED
      BY <2>4
  <1> QED
    BY <1>1, <1>2, <1>3

\* The selection has the entries that are in the set, each as often as the list has it.
LEMMA SelectedIs ==
    ASSUME NEW S, NEW s \in Seq(S), NEW set
    PROVE  /\ Selected(s, set) \in Seq(S)
           /\ Elems(Selected(s, set)) = Elems(s) \cap set
           /\ Once(s) => Once(Selected(s, set))
  <1> DEFINE F == CHOOSE f : SelectsUpTo(f, s, set, Len(s))
             Upto(n) == {s[i] : i \in 1..n} \cap set
             Good(n) == /\ F[n] \in Seq(S)
                        /\ Elems(F[n]) = Upto(n)
                        /\ Once(s) => Once(F[n])
  <1>1. Selected(s, set) = F[Len(s)]
    BY DEF Selected, SelectsUpTo
  <1>2. SelectsUpTo(F, s, set, Len(s))
    <2>1. \E f : SelectsUpTo(f, s, set, Len(s))
      <3>1. Len(s) \in 0..Len(s)
        OBVIOUS
      <3> QED
        BY <3>1, SelectionExists
    <2> QED
      BY <2>1
  <1>3. \A i \in 0..Len(s) :
           F[i] = IF i = 0 THEN <<>>
                  ELSE IF s[i] \in set THEN Append(F[i - 1], s[i]) ELSE F[i - 1]
    BY <1>2 DEF SelectsUpTo
  <1> HIDE DEF F
  <1>4. ASSUME NEW n \in 0..Len(s), ~Good(n) PROVE FALSE
    <2> DEFINE T == {k \in 0..Len(s) : ~Good(k)}
    <2>1. PICK m \in T : \A k \in T : m <= k
      <3> HIDE DEF Good
      <3>1. T \in SUBSET Nat /\ T # {}
        BY <1>4
      <3> QED
        BY <3>1, Least
    <2>2. CASE m = 0
      <3>1. F[0] = <<>>
        BY <1>3
      <3>2. Good(0)
        BY <3>1 DEF Elems, Once
      <3> QED
        BY <2>2, <3>2
    <2>3. CASE m > 0
      <3>1. /\ m - 1 \in 0..Len(s) /\ m \in 0..Len(s) /\ m \in 1..Len(s)
            /\ m # 0 /\ ~(m <= m - 1)
        BY <2>3
      <3>2. Good(m - 1)
        <4> HIDE DEF Good
        <4>1. m - 1 \notin T
          BY <2>1, <3>1
        <4> QED
          BY <3>1, <4>1
      <3>3. s[m] \in S /\ Upto(m) = Upto(m - 1) \cup ({s[m]} \cap set)
        BY <3>1
      <3>4. CASE s[m] \notin set
        <4>1. F[m] = F[m - 1]
          BY <1>3, <3>1, <3>4
        <4> QED
          BY <3>2, <3>3, <3>4, <4>1
      <3>5. CASE s[m] \in set
        <4>1. F[m] = Append(F[m - 1], s[m])
          BY <1>3, <3>1, <3>5
        <4>2. Once(s) => s[m] \notin Elems(F[m - 1])
          BY <3>1, <3>2 DEF Once
        <4>3. /\ F[m] \in Seq(S)
              /\ Elems(F[m]) = Elems(F[m - 1]) \cup {s[m]}
              /\ Once(s) => Once(F[m])
          BY <3>2, <3>3, <4>1, <4>2, AppendIs
        <4> QED
          BY <3>2, <3>3, <3>5, <4>3
      <3> QED
        BY <3>4, <3>5
    <2> QED
      BY <2>2, <2>3
  <1>5. Good(Len(s))
    <2> HIDE DEF Good
    <2>1. Len(s) \in 0..Len(s)
      OBVIOUS
    <2> QED
      BY <1>4, <2>1
  <1>6. Upto(Len(s)) = Elems(s) \cap set
    BY DEF Elems
  <1> QED
    BY <1>1, <1>5, <1>6

-----------------------------------------------------------------------------
(* The inductive invariant *)

BusTypes ==
    /\ bus \in [Buses -> {"none", "live", "gone"}]
    /\ drvList \in [Buses -> Seq(Privs)] /\ devList \in [Buses -> Seq(Devices)]

PrivTypes ==
    /\ made \in 0..MaxPriv
    /\ owner \in [Privs -> Drivers \cup {None}]
    /\ privOn \in [Privs -> Buses \cup {None}]
    /\ bound \in [Privs -> Seq(Devices)]
    /\ drvP \in [Drivers -> Privs \cup {None}]
    /\ registered \in [Drivers -> 0..MaxPriv]

DeviceTypes ==
    /\ device \in [Devices -> {"none", "live", "freed"}]
    /\ wants \in [Devices -> Names \cup {None}]
    /\ devBus \in [Devices -> Buses \cup {None}]
    /\ devOn \in [Devices -> Buses \cup {None}]
    /\ devDriver \in [Devices -> Drivers \cup {None}]
    /\ devAt \in [Devices -> Privs \cup {None}]
    /\ id \in [Devices -> Ids]
    /\ table \in [Ids -> Devices \cup {None}]

\* The three kinds of lists, each with the pointers of its nodes.
DrvLists ==
    \A b \in Buses : Once(drvList[b]) /\ Elems(drvList[b]) = {p \in Privs : privOn[p] = b}
DevLists ==
    \A b \in Buses : Once(devList[b]) /\ Elems(devList[b]) = {v \in Devices : devOn[v] = b}
BoundLists ==
    \A p \in Privs : Once(bound[p]) /\ Elems(bound[p]) = {v \in Devices : devAt[v] = p}

NamesApart ==
    \A p, q \in Privs :
       privOn[p] # None /\ privOn[p] = privOn[q] /\ DriverName[owner[p]] = DriverName[owner[q]]
       => p = q

\* Each successful registration has allocated a driver_private.
Counted ==
    \A d \in Drivers : /\ registered[d] <= made
                       /\ registered[d] > 0 => drvP[d] # None

\* A linked driver_private has an owner, its owner points to one of its own or to one it
\* had and has freed, and none exists that was not allocated.
PrivsOwned ==
    /\ \A p \in Privs : privOn[p] # None => owner[p] # None
    /\ \A p \in Privs : owner[p] # None => p <= made /\ drvP[owner[p]] # None
    /\ \A d \in Drivers :
          drvP[d] # None => drvP[d] <= made /\ owner[drvP[d]] \in {d, None}

OnlyLive ==
    \A v \in Devices :
       /\ device[v] # "live" => devOn[v] = None /\ devDriver[v] = None
       /\ device[v] = "live" => devBus[v] # None
       /\ devOn[v] \in {devBus[v], None}

DriverSide == DrvLists /\ NamesApart /\ Counted /\ PrivsOwned
DeviceSide == DevLists /\ BoundLists /\ BoundAgree /\ OnlyLive

Inv == BusTypes /\ PrivTypes /\ DeviceTypes /\ DriverSide /\ DeviceSide

CallersKnown == callers \in Callers

LEMMA TypeParts == TypeOK <=> BusTypes /\ PrivTypes /\ DeviceTypes /\ CallersKnown
  BY DEF CallersKnown, TypeOK, BusTypes, PrivTypes, DeviceTypes

LEMMA PrivsAreNumbers == \A p \in Privs : p \in Nat /\ p >= 1 /\ p <= MaxPriv
  BY DriverModelAssumption DEF Privs

\* What the runs check follows.
LEMMA InvGivesLists == Inv => BusListsAgree
  <1> SUFFICES ASSUME Inv PROVE BusListsAgree
    OBVIOUS
  <1>1. ListsAgree
    BY DEF Inv, DriverSide, DeviceSide, DrvLists, DevLists, BoundLists, ListsAgree
  <1>2. OneDriverPerName
    <2> SUFFICES ASSUME NEW b \in Buses,
                        NEW i \in 1..Len(drvList[b]), NEW j \in 1..Len(drvList[b]),
                        DriverName[owner[drvList[b][i]]] = DriverName[owner[drvList[b][j]]]
                 PROVE  i = j
      BY DEF OneDriverPerName
    <2> DEFINE p == drvList[b][i]
               q == drvList[b][j]
    <2>1. p \in Elems(drvList[b]) /\ q \in Elems(drvList[b])
      BY DEF Elems
    <2>2. p \in Privs /\ q \in Privs /\ privOn[p] = b /\ privOn[q] = b
      BY <2>1 DEF Inv, DriverSide, DrvLists
    <2>3. p = q
      BY <2>2, DriverModelAssumption DEF Inv, DriverSide, NamesApart
    <2> QED
      BY <2>3 DEF Inv, DriverSide, DrvLists, Once
  <1> QED
    BY <1>1, <1>2 DEF BusListsAgree, Inv, DeviceSide

LEMMA InitInv == Init => Inv
  <1> SUFFICES ASSUME Init PROVE Inv
    OBVIOUS
  <1>1. BusTypes /\ PrivTypes
    BY DriverModelAssumption DEF Init, BusTypes, PrivTypes
  <1>2. DeviceTypes
    <2>1. 0 \in Ids
      BY DriverModelAssumption DEF Ids, NoId
    <2> QED
      BY <2>1 DEF Init, DeviceTypes
  <1>3. Once(<<>>) /\ Elems(<<>>) = {}
    BY DEF Once, Elems
  <1>4. DriverSide
    BY <1>3, DriverModelAssumption DEF Init, DriverSide, DrvLists, NamesApart, Counted, PrivsOwned
  <1>5. DeviceSide
    BY <1>3, DriverModelAssumption DEF Init, DeviceSide, DevLists, BoundLists, BoundAgree, OnlyLive
  <1> QED
    BY <1>1, <1>2, <1>4, <1>5 DEF Inv

-----------------------------------------------------------------------------
(* Iterations *)

\* An iteration that stops early takes the next driver off the list: the list and the
\* pointer of that driver's node still agree.
IterationLeft(b, at) ==
    /\ drvList' = [drvList EXCEPT ![b] = Without(@, Leftover(@, at))]
    /\ privOn' = [p \in Privs |->
                    IF p \in Unlinked(drvList[b], at) THEN None ELSE privOn[p]]

LEMMA IterationKeepsLists ==
    ASSUME Inv, NEW b \in Buses, NEW at \in Nat, IterationLeft(b, at)
    PROVE  /\ drvList' \in [Buses -> Seq(Privs)]
           /\ privOn' \in [Privs -> Buses \cup {None}]
           /\ DrvLists'
           /\ \A p \in Privs : privOn'[p] # None => privOn'[p] = privOn[p]
  <1> DEFINE s == drvList[b]
             k == Leftover(s, at)
             gone == Unlinked(s, at)
  <1>1. s \in Seq(Privs) /\ k \in Nat /\ Once(s) /\ Elems(s) = {p \in Privs : privOn[p] = b}
    BY DEF Inv, BusTypes, DriverSide, DrvLists, Leftover
  <1>2. gone = IF k \in 1..Len(s) THEN {s[k]} ELSE {}
    BY DEF Unlinked
  <1>3. /\ Without(s, k) \in Seq(Privs) /\ Once(Without(s, k))
        /\ Elems(Without(s, k)) = Elems(s) \ gone
    BY <1>1, <1>2, WithoutIs
  <1>4. gone \subseteq Elems(s)
    BY <1>1, <1>2 DEF Elems
  <1>5. drvList' = [drvList EXCEPT ![b] = Without(s, k)]
    BY DEF IterationLeft
  <1>6. privOn' = [p \in Privs |-> IF p \in gone THEN None ELSE privOn[p]]
    BY DEF IterationLeft
  <1> HIDE DEF s, k, gone
  <1>7. drvList' \in [Buses -> Seq(Privs)] /\ privOn' \in [Privs -> Buses \cup {None}]
    BY <1>3, <1>5, <1>6 DEF Inv, BusTypes, PrivTypes
  <1>8. ASSUME NEW c \in Buses
        PROVE  Once(drvList'[c]) /\ Elems(drvList'[c]) = {p \in Privs : privOn'[p] = c}
    <2>1. c # None
      BY DriverModelAssumption
    <2>2. CASE c = b
      <3>1. drvList'[c] = Without(s, k)
        BY <1>5, <2>2 DEF Inv, BusTypes
      <3>2. {p \in Privs : privOn'[p] = b} = {p \in Privs : privOn[p] = b} \ gone
        BY <1>6, <2>1, <2>2
      <3> QED
        BY <1>1, <1>3, <2>2, <3>1, <3>2
    <2>3. CASE c # b
      <3>1. drvList'[c] = drvList[c]
        BY <1>5, <2>3 DEF Inv, BusTypes
      <3>2. \A p \in Privs : p \in gone => privOn[p] = b
        BY <1>1, <1>4
      <3>3. {p \in Privs : privOn'[p] = c} = {p \in Privs : privOn[p] = c}
        BY <1>6, <2>1, <2>3, <3>2
      <3> QED
        BY <3>1, <3>3 DEF Inv, DriverSide, DrvLists
    <2> QED
      BY <2>2, <2>3
  <1> QED
    BY <1>6, <1>7, <1>8 DEF DrvLists

\* Taking nodes off lists does not disturb what else is known of the drivers.
LEMMA FewerLinked ==
    ASSUME Inv, DrvLists',
           \A p \in Privs : privOn'[p] # None => privOn'[p] = privOn[p],
           UNCHANGED <<owner, made, drvP, registered>>
    PROVE  DriverSide'
  <1>1. NamesApart'
    BY DEF Inv, DriverSide, NamesApart
  <1>2. PrivsOwned' /\ Counted'
    BY DEF Inv, DriverSide, PrivsOwned, Counted
  <1> QED
    BY <1>1, <1>2 DEF DriverSide

-----------------------------------------------------------------------------
(* Binding *)

\* The driver that takes a device has a driver_private, on whose list the device goes.
LEMMA TakerIs ==
    ASSUME Inv, NEW b \in Buses, NEW name, NEW accept
    PROVE  LET at == Taker(b, name, accept)
               d == owner[drvList[b][at]]
           IN  /\ at \in Nat
               /\ at # 0 => /\ at \in 1..Len(drvList[b])
                            /\ d \in Drivers /\ drvP[d] \in Privs
                            /\ Offered(d, name) /\ d \in accept
                            /\ owner[drvP[d]] \in {d, None}
  <1> DEFINE hits == {i \in 1..Len(drvList[b]) :
                         LET d == owner[drvList[b][i]] IN Offered(d, name) /\ d \in accept}
             at == FirstOf(hits)
             p == drvList[b][at]
             e == owner[p]
  <1>1. drvList[b] \in Seq(Privs)
    BY DEF Inv, BusTypes
  <1>2. hits \in SUBSET Nat
    BY <1>1
  <1>3. at = 0 \/ at \in hits
    BY <1>2, FirstIs
  <1>4. ASSUME at # 0
        PROVE  /\ at \in 1..Len(drvList[b])
               /\ e \in Drivers /\ drvP[e] \in Privs
               /\ Offered(e, name) /\ e \in accept
               /\ owner[drvP[e]] \in {e, None}
    <2>1. at \in hits
      BY <1>3, <1>4
    <2>2. at \in 1..Len(drvList[b]) /\ Offered(e, name) /\ e \in accept
      BY <2>1
    <2> HIDE DEF hits, at
    <2>3. p \in Elems(drvList[b])
      BY <2>2 DEF Elems
    <2> HIDE DEF p
    <2>4. p \in Privs /\ privOn[p] = b
      BY <2>3 DEF Inv, DriverSide, DrvLists
    <2>5. e # None
      BY <2>4, DriverModelAssumption DEF Inv, DriverSide, PrivsOwned
    <2>6. e \in Drivers /\ drvP[e] # None
      BY <2>4, <2>5 DEF Inv, DriverSide, PrivTypes, PrivsOwned
    <2>7. drvP[e] \in Privs /\ owner[drvP[e]] \in {e, None}
      BY <2>6 DEF Inv, DriverSide, PrivTypes, PrivsOwned
    <2> QED
      BY <2>2, <2>6, <2>7
  <1>5. Taker(b, name, accept) = at
    BY DEF Taker
  <1>6. at \in Nat
    BY <1>2, <1>3
  <1> HIDE DEF at, hits
  <1> QED
    BY <1>4, <1>5, <1>6

\* A device goes to at most one list, that of the driver it says it has.
LEMMA AttachKeeps ==
    ASSUME Inv, NEW v \in Devices, NEW b \in Buses, NEW name, NEW accept, NEW lists,
           lists \in [Privs -> Seq(Devices)],
           \A p \in Privs : /\ Once(lists[p])
                            /\ Elems(lists[p]) = {u \in Devices : devAt[u] = p} \ {v},
           ~AttachFaults(b, name, accept), Attach(v, b, name, accept, lists),
           UNCHANGED <<made, owner, drvP, registered>>
    PROVE  /\ drvList' \in [Buses -> Seq(Privs)]
           /\ privOn' \in [Privs -> Buses \cup {None}]
           /\ bound' \in [Privs -> Seq(Devices)]
           /\ devDriver' \in [Devices -> Drivers \cup {None}]
           /\ devAt' \in [Devices -> Privs \cup {None}]
           /\ DriverSide' /\ BoundLists' /\ BoundAgree'
           /\ \A u \in Devices : u # v => devDriver'[u] = devDriver[u]
  <1> DEFINE at == Taker(b, name, accept)
             e == owner[drvList[b][at]]
             d == IF at = 0 THEN None ELSE e
             home == IF at = 0 THEN None ELSE drvP[d]
  <1>1. /\ at \in Nat
        /\ at # 0 => /\ e \in Drivers /\ drvP[e] \in Privs
                     /\ owner[drvP[e]] \in {e, None}
    BY TakerIs
  <1>2. /\ bound' = IF at = 0 THEN lists ELSE [lists EXCEPT ![drvP[d]] = Append(@, v)]
        /\ devDriver' = [devDriver EXCEPT ![v] = d]
        /\ devAt' = [devAt EXCEPT ![v] = home]
        /\ IterationLeft(b, at)
    BY DEF Attach, IterationLeft
  <1>3. at # 0 => owner[drvP[e]] # None
    BY <1>1 DEF AttachFaults
  <1> HIDE DEF at, e
  <1>4. /\ at = 0 => d = None /\ home = None
        /\ at # 0 => d \in Drivers /\ home \in Privs /\ owner[home] = d
    BY <1>1, <1>3
  <1>5. /\ drvList' \in [Buses -> Seq(Privs)]
        /\ privOn' \in [Privs -> Buses \cup {None}]
        /\ DriverSide'
    BY <1>1, <1>2, IterationKeepsLists, FewerLinked
  <1>6. bound' = IF at = 0 THEN lists ELSE [lists EXCEPT ![home] = Append(@, v)]
    BY <1>2
  <1> HIDE DEF d, home
  <1>7. /\ devDriver' \in [Devices -> Drivers \cup {None}]
        /\ devAt' \in [Devices -> Privs \cup {None}]
    BY <1>2, <1>4 DEF Inv, DeviceTypes
  <1>8. \A u \in Devices : u # v => devDriver'[u] = devDriver[u] /\ devAt'[u] = devAt[u]
    BY <1>2 DEF Inv, DeviceTypes
  <1>9. devDriver'[v] = d /\ devAt'[v] = home
    BY <1>2 DEF Inv, DeviceTypes
  <1>10. BoundAgree'
    <2> SUFFICES ASSUME NEW u \in Devices
                 PROVE  /\ (devDriver'[u] = None) <=> (devAt'[u] = None)
                        /\ devAt'[u] # None => owner'[devAt'[u]] = devDriver'[u]
      BY DEF BoundAgree
    <2>1. CASE u = v
      BY <1>4, <1>9, <2>1, DriverModelAssumption
    <2>2. CASE u # v
      BY <1>8, <2>2 DEF Inv, DeviceSide, BoundAgree
    <2> QED
      BY <2>1, <2>2
  <1>11. ASSUME NEW p \in Privs
         PROVE  /\ bound'[p] \in Seq(Devices) /\ Once(bound'[p])
                /\ Elems(bound'[p]) = {u \in Devices : devAt'[u] = p}
    <2>1. p # None
      BY DriverModelAssumption
    <2>2. {u \in Devices : devAt'[u] = p}
            = ({u \in Devices : devAt[u] = p} \ {v}) \cup (IF home = p THEN {v} ELSE {})
      BY <1>8, <1>9
    <2>3. CASE at # 0 /\ home = p
      <3>1. bound'[p] = Append(lists[p], v)
        BY <1>6, <2>3
      <3>2. lists[p] \in Seq(Devices) /\ Once(lists[p]) /\ v \notin Elems(lists[p])
        OBVIOUS
      <3>3. /\ Append(lists[p], v) \in Seq(Devices) /\ Once(Append(lists[p], v))
            /\ Elems(Append(lists[p], v)) = Elems(lists[p]) \cup {v}
        BY <3>2, AppendIs
      <3> QED
        BY <2>2, <2>3, <3>1, <3>3
    <2>4. CASE ~(at # 0 /\ home = p)
      <3>1. bound'[p] = lists[p] /\ home # p
        BY <1>4, <1>6, <2>1, <2>4
      <3> QED
        BY <2>2, <3>1
    <2> QED
      BY <2>3, <2>4
  <1>12. bound' \in [Privs -> Seq(Devices)] /\ BoundLists'
    <2>1. DOMAIN bound' = Privs /\ bound' = [p \in Privs |-> bound'[p]]
      BY <1>6
    <2> QED
      BY <1>11, <2>1 DEF BoundLists
  <1> QED
    BY <1>5, <1>7, <1>8, <1>10, <1>12

-----------------------------------------------------------------------------
(* One lemma per operation *)

LEMMA ListsStay ==
    ASSUME Inv, UNCHANGED <<drvList, devList, driverVars, deviceVars>>,
           bus' \in [Buses -> {"none", "live", "gone"}]
    PROVE  Inv'
  <1>1. BusTypes' /\ PrivTypes' /\ DeviceTypes'
    BY DEF Inv, BusTypes, PrivTypes, DeviceTypes, driverVars, deviceVars
  <1>2. DriverSide'
    BY DEF Inv, DriverSide, DrvLists, NamesApart, Counted, PrivsOwned, driverVars
  <1>3. DeviceSide'
    BY DEF Inv, DeviceSide, DevLists, BoundLists, BoundAgree, OnlyLive, driverVars, deviceVars
  <1> QED
    BY <1>1, <1>2, <1>3 DEF Inv

LEMMA FailsKeeps == ASSUME Inv, NEW what, Fails(what) PROVE Inv'
  BY ListsStay DEF Fails, busVars, Inv, BusTypes

LEMMA BusKeeps ==
    ASSUME Inv, NEW b \in Buses, BusRegister(b) \/ BusUnregister(b)
    PROVE  Inv'
  BY ListsStay DEF BusRegister, BusUnregister, Inv, BusTypes

\* A name that is found costs the list the driver after it, and nothing else.
LEMMA ExistsKeeps ==
    ASSUME Inv, NEW d \in Drivers, NEW b \in Buses, NEW at \in Nat, DriverExists(d, b, at)
    PROVE  Inv'
  <1>1. IterationLeft(b, at) /\ UNCHANGED <<bus, devList, made, owner, bound, drvP, registered,
                                            deviceVars>>
    BY DEF DriverExists, IterationLeft
  <1>2. BusTypes' /\ PrivTypes' /\ DeviceTypes'
    BY <1>1, IterationKeepsLists DEF Inv, BusTypes, PrivTypes, DeviceTypes, deviceVars
  <1>3. DriverSide'
    BY <1>1, IterationKeepsLists, FewerLinked
  <1>4. DeviceSide'
    BY <1>1 DEF Inv, DeviceSide, DevLists, BoundLists, BoundAgree, OnlyLive, deviceVars
  <1> QED
    BY <1>2, <1>3, <1>4 DEF Inv

\* A driver_private that has not been allocated is on no list and has none.
LEMMA NextIsFresh ==
    ASSUME Inv, made < MaxPriv
    PROVE  LET p == made + 1
           IN  /\ p \in Privs /\ p # None /\ owner[p] = None /\ privOn[p] = None
               /\ \A d \in Drivers : drvP[d] # p
               /\ \A v \in Devices : devAt[v] # p
  <1> DEFINE p == made + 1
  <1>1. made \in Nat /\ MaxPriv \in Nat
    BY DriverModelAssumption DEF Inv, PrivTypes
  <1>2. p \in Privs /\ p # None /\ ~(p <= made)
    BY <1>1, DriverModelAssumption DEF Privs
  <1> HIDE DEF p
  <1>3. owner[p] = None
    BY <1>2 DEF Inv, DriverSide, PrivsOwned
  <1>4. privOn[p] = None
    BY <1>2, <1>3 DEF Inv, DriverSide, PrivsOwned
  <1>5. \A d \in Drivers : drvP[d] # p
    BY <1>2 DEF Inv, DriverSide, PrivsOwned
  <1>6. ASSUME NEW v \in Devices, devAt[v] = p PROVE FALSE
    <2>1. owner[p] = devDriver[v] /\ devDriver[v] # None
      BY <1>2, <1>6 DEF Inv, DeviceSide, BoundAgree
    <2> QED
      BY <1>3, <2>1
  <1> QED
    BY <1>2, <1>3, <1>4, <1>5, <1>6 DEF p

\* bus_add_driver: the new driver has the devices that had none and that it takes.
LEMMA AddKeeps ==
    ASSUME Inv, NEW d \in Drivers, NEW b \in Buses, NEW accept \in SUBSET Devices,
           \A i \in 1..Len(drvList[b]) : DriverName[owner[drvList[b][i]]] # DriverName[d],
           DriverAdd(d, b, accept)
    PROVE  Inv'
  <1> DEFINE p == made + 1
             taken == {v \in accept : devOn[v] = b /\ devDriver[v] = None
                                        /\ Offered(d, wants[v])}
  <1>1. /\ made < MaxPriv /\ made' = p
        /\ owner' = [owner EXCEPT ![p] = d]
        /\ drvP' = [drvP EXCEPT ![d] = p]
        /\ bound' = [bound EXCEPT ![p] = Selected(devList[b], taken)]
        /\ devDriver' = [v \in Devices |-> IF v \in taken THEN d ELSE devDriver[v]]
        /\ devAt' = [v \in Devices |-> IF v \in taken THEN p ELSE devAt[v]]
        /\ drvList' = [drvList EXCEPT ![b] = Append(@, p)]
        /\ privOn' = [privOn EXCEPT ![p] = b]
        /\ registered' = [registered EXCEPT ![d] = @ + 1]
        /\ UNCHANGED <<bus, devList, device, wants, devBus, devOn, id, table>>
    BY DEF DriverAdd
  <1>2. /\ p \in Privs /\ p # None /\ owner[p] = None /\ privOn[p] = None
        /\ \A e \in Drivers : drvP[e] # p
        /\ \A v \in Devices : devAt[v] # p
    BY <1>1, NextIsFresh
  <1>3. made \in Nat /\ MaxPriv \in Nat /\ p = made + 1 /\ p \in Nat
    BY DriverModelAssumption DEF Inv, PrivTypes
  <1>4. taken \subseteq Devices /\ \A v \in taken : devOn[v] = b /\ devDriver[v] = None
    OBVIOUS
  <1> HIDE DEF p, taken
  <1>5. d # None /\ b # None
    BY DriverModelAssumption
  <1>6. \A q \in Privs : q # p => owner'[q] = owner[q] /\ privOn'[q] = privOn[q]
                                  /\ bound'[q] = bound[q]
    BY <1>1 DEF Inv, PrivTypes
  <1>7. owner'[p] = d /\ privOn'[p] = b /\ drvP'[d] = p
        /\ \A e \in Drivers : e # d => drvP'[e] = drvP[e] /\ registered'[e] = registered[e]
    BY <1>1, <1>2 DEF Inv, PrivTypes
  <1>8. /\ Selected(devList[b], taken) \in Seq(Devices)
        /\ Once(Selected(devList[b], taken))
        /\ Elems(Selected(devList[b], taken)) = taken
    <2>1. devList[b] \in Seq(Devices) /\ Once(devList[b])
          /\ Elems(devList[b]) = {v \in Devices : devOn[v] = b}
      BY DEF Inv, BusTypes, DeviceSide, DevLists
    <2>2. Elems(devList[b]) \cap taken = taken
      BY <1>4, <2>1
    <2> QED
      BY <2>1, <2>2, SelectedIs
  <1>9. /\ Append(drvList[b], p) \in Seq(Privs) /\ Once(Append(drvList[b], p))
        /\ Elems(Append(drvList[b], p)) = Elems(drvList[b]) \cup {p}
    <2>1. drvList[b] \in Seq(Privs) /\ Once(drvList[b]) /\ p \notin Elems(drvList[b])
      BY <1>2, <1>5 DEF Inv, BusTypes, DriverSide, DrvLists
    <2> QED
      BY <1>2, <2>1, AppendIs
  <1>10. BusTypes'
    BY <1>1, <1>9 DEF Inv, BusTypes
  <1>11. registered[d] + 1 \in 0..MaxPriv /\ registered[d] <= made /\ registered[d] \in Nat
    BY <1>1, <1>3 DEF Inv, PrivTypes, DriverSide, Counted
  <1>12. PrivTypes'
    <2>1. made' \in 0..MaxPriv
      BY <1>1, <1>3
    <2>2. bound' \in [Privs -> Seq(Devices)]
      BY <1>1, <1>8 DEF Inv, PrivTypes
    <2>3. registered' \in [Drivers -> 0..MaxPriv]
      BY <1>1, <1>11 DEF Inv, PrivTypes
    <2>4. /\ owner' \in [Privs -> Drivers \cup {None}]
          /\ privOn' \in [Privs -> Buses \cup {None}]
          /\ drvP' \in [Drivers -> Privs \cup {None}]
      BY <1>1, <1>2 DEF Inv, PrivTypes
    <2> QED
      BY <2>1, <2>2, <2>3, <2>4 DEF PrivTypes
  <1>13. DeviceTypes'
    BY <1>1, <1>2 DEF Inv, DeviceTypes
  <1>14. DrvLists'
    <2> SUFFICES ASSUME NEW c \in Buses
                 PROVE  Once(drvList'[c]) /\ Elems(drvList'[c]) = {q \in Privs : privOn'[q] = c}
      BY DEF DrvLists
    <2>1. CASE c = b
      <3>1. drvList'[c] = Append(drvList[b], p)
        BY <1>1, <2>1 DEF Inv, BusTypes
      <3>2. {q \in Privs : privOn'[q] = b} = {q \in Privs : privOn[q] = b} \cup {p}
        BY <1>2, <1>6, <1>7
      <3>3. Elems(drvList[b]) = {q \in Privs : privOn[q] = b}
        BY DEF Inv, DriverSide, DrvLists
      <3> QED
        BY <1>9, <2>1, <3>1, <3>2, <3>3
    <2>2. CASE c # b
      <3>1. drvList'[c] = drvList[c]
        BY <1>1, <2>2 DEF Inv, BusTypes
      <3>2. c # None
        BY DriverModelAssumption
      <3>3. {q \in Privs : privOn'[q] = c} = {q \in Privs : privOn[q] = c}
        BY <1>2, <1>6, <1>7, <2>2, <3>2
      <3> QED
        BY <3>1, <3>3 DEF Inv, DriverSide, DrvLists
    <2> QED
      BY <2>1, <2>2
  <1>15. NamesApart'
    <2>1. ASSUME NEW q \in Privs, privOn[q] = b PROVE DriverName[owner[q]] # DriverName[d]
      <3>1. q \in Elems(drvList[b])
        BY <2>1 DEF Inv, DriverSide, DrvLists
      <3> QED
        BY <3>1 DEF Elems
    <2> SUFFICES ASSUME NEW q \in Privs, NEW r \in Privs, privOn'[q] # None,
                        privOn'[q] = privOn'[r],
                        DriverName[owner'[q]] = DriverName[owner'[r]]
                 PROVE  q = r
      BY DEF NamesApart
    <2>2. CASE q # p /\ r # p
      BY <1>6, <2>2 DEF Inv, DriverSide, NamesApart
    <2>3. CASE q = p /\ r # p
      BY <1>6, <1>7, <2>1, <2>3
    <2>4. CASE q # p /\ r = p
      BY <1>6, <1>7, <2>1, <2>4
    <2> QED
      BY <2>2, <2>3, <2>4
  <1>16. Counted'
    <2> SUFFICES ASSUME NEW e \in Drivers
                 PROVE  /\ registered'[e] <= made'
                        /\ registered'[e] > 0 => drvP'[e] # None
      BY DEF Counted
    <2>1. CASE e = d
      <3>1. registered'[e] = registered[d] + 1
        BY <1>1, <2>1 DEF Inv, PrivTypes
      <3> QED
        BY <1>1, <1>2, <1>3, <1>7, <1>11, <2>1, <3>1
    <2>2. CASE e # d
      <3>1. registered[e] <= made /\ registered[e] \in Nat
            /\ (registered[e] > 0 => drvP[e] # None)
        BY DEF Inv, PrivTypes, DriverSide, Counted
      <3> QED
        BY <1>1, <1>3, <1>7, <2>2, <3>1
    <2> QED
      BY <2>1, <2>2
  <1>17. PrivsOwned'
    <2>1. ASSUME NEW q \in Privs
          PROVE  /\ privOn'[q] # None => owner'[q] # None
                 /\ owner'[q] # None => q <= made' /\ drvP'[owner'[q]] # None
      <3>1. CASE q = p
        BY <1>1, <1>2, <1>3, <1>5, <1>7, <3>1
      <3>2. CASE q # p
        <4>1. /\ privOn[q] # None => owner[q] # None
              /\ owner[q] # None => q <= made /\ drvP[owner[q]] # None /\ owner[q] \in Drivers
          BY DEF Inv, DriverSide, PrivsOwned, PrivTypes
        <4>2. q \in Nat
          BY PrivsAreNumbers
        <4>3. owner[q] # None => drvP'[owner[q]] # None
          BY <1>2, <1>7, <4>1
        <4> QED
          BY <1>1, <1>3, <1>6, <3>2, <4>1, <4>2, <4>3
      <3> QED
        BY <3>1, <3>2
    <2>2. ASSUME NEW e \in Drivers, drvP'[e] # None
          PROVE  drvP'[e] <= made' /\ owner'[drvP'[e]] \in {e, None}
      <3>1. CASE e = d
        BY <1>1, <1>3, <1>7, <3>1
      <3>2. CASE e # d
        <4>1. drvP'[e] = drvP[e] /\ drvP[e] \in Privs /\ drvP[e] # p
          BY <1>2, <1>7, <2>2, <3>2 DEF Inv, PrivTypes
        <4>2. drvP[e] <= made /\ owner[drvP[e]] \in {e, None} /\ drvP[e] \in Nat
          BY <2>2, <4>1, PrivsAreNumbers DEF Inv, DriverSide, PrivsOwned
        <4> QED
          BY <1>1, <1>3, <1>6, <4>1, <4>2
      <3> QED
        BY <3>1, <3>2
    <2> QED
      BY <2>1, <2>2 DEF PrivsOwned
  <1>18. DevLists' /\ OnlyLive'
    <2>1. DevLists'
      BY <1>1 DEF Inv, DeviceSide, DevLists
    <2>2. \A v \in taken : device[v] = "live"
      BY <1>4, <1>5 DEF Inv, DeviceSide, OnlyLive
    <2> QED
      BY <1>1, <2>1, <2>2 DEF Inv, DeviceSide, OnlyLive
  <1>19. BoundLists'
    <2> SUFFICES ASSUME NEW q \in Privs
                 PROVE  Once(bound'[q]) /\ Elems(bound'[q]) = {v \in Devices : devAt'[v] = q}
      BY DEF BoundLists
    <2>1. \A v \in taken : devAt[v] = None
      BY <1>4 DEF Inv, DeviceSide, BoundAgree
    <2>2. CASE q = p
      <3>1. bound'[q] = Selected(devList[b], taken)
        BY <1>1, <2>2 DEF Inv, PrivTypes
      <3>2. {v \in Devices : devAt'[v] = p} = taken
        BY <1>1, <1>2, <1>4
      <3> QED
        BY <1>8, <2>2, <3>1, <3>2
    <2>3. CASE q # p
      <3>1. q # None
        BY DriverModelAssumption
      <3>2. {v \in Devices : devAt'[v] = q} = {v \in Devices : devAt[v] = q}
        BY <1>1, <2>1, <2>3, <3>1
      <3> QED
        BY <1>6, <2>3, <3>2 DEF Inv, DeviceSide, BoundLists
    <2> QED
      BY <2>2, <2>3
  <1>20. BoundAgree'
    <2> SUFFICES ASSUME NEW v \in Devices
                 PROVE  /\ (devDriver'[v] = None) <=> (devAt'[v] = None)
                        /\ devAt'[v] # None => owner'[devAt'[v]] = devDriver'[v]
      BY DEF BoundAgree
    <2>1. CASE v \in taken
      BY <1>1, <1>2, <1>5, <1>7, <2>1
    <2>2. CASE v \notin taken
      <3>1. devDriver'[v] = devDriver[v] /\ devAt'[v] = devAt[v]
        BY <1>1, <2>2
      <3>2. devAt[v] # None => devAt[v] \in Privs /\ devAt[v] # p
        BY <1>2 DEF Inv, DeviceTypes
      <3> QED
        BY <1>6, <3>1, <3>2 DEF Inv, DeviceSide, BoundAgree
    <2> QED
      BY <2>1, <2>2
  <1> QED
    BY <1>10, <1>12, <1>13, <1>14, <1>15, <1>16, <1>17, <1>18, <1>19, <1>20
       DEF Inv, DriverSide, DeviceSide

\* wlist_remove, driver_detach, free: no list and no device is left with the driver_private.
LEMMA RemoveKeeps ==
    ASSUME Inv, NEW d \in Drivers, registered[d] > 0, owner[drvP[d]] # None,
           privOn[drvP[d]] # None, DriverRemove(d, drvP[d])
    PROVE  Inv'
  <1> DEFINE p == drvP[d]
             b == privOn[p]
  <1>1. /\ drvList' = [drvList EXCEPT ![b] = Selected(@, Privs \ {p})]
        /\ privOn' = [privOn EXCEPT ![p] = None]
        /\ devDriver' = [v \in Devices |-> IF devAt[v] = p THEN None ELSE devDriver[v]]
        /\ devAt' = [v \in Devices |-> IF devAt[v] = p THEN None ELSE devAt[v]]
        /\ bound' = [bound EXCEPT ![p] = <<>>]
        /\ owner' = [owner EXCEPT ![p] = None]
        /\ registered' = [registered EXCEPT ![d] = @ - 1]
        /\ UNCHANGED <<bus, devList, made, drvP, device, wants, devBus, devOn, id, table>>
    BY DEF DriverRemove
  <1>2. p \in Privs
    BY DEF Inv, PrivTypes, DriverSide, Counted
  <1>3. b \in Buses
    BY <1>2 DEF Inv, PrivTypes
  <1>4. drvP' = drvP /\ drvP[d] = p
    BY <1>1
  <1> HIDE DEF p, b
  <1>5. p # None
    BY <1>2, DriverModelAssumption
  <1>6. \A q \in Privs : q # p => owner'[q] = owner[q] /\ privOn'[q] = privOn[q]
                                  /\ bound'[q] = bound[q]
    BY <1>1 DEF Inv, PrivTypes
  <1>7. owner'[p] = None /\ privOn'[p] = None /\ bound'[p] = <<>>
    BY <1>1, <1>2 DEF Inv, PrivTypes
  <1>8. /\ Selected(drvList[b], Privs \ {p}) \in Seq(Privs)
        /\ Once(Selected(drvList[b], Privs \ {p}))
        /\ Elems(Selected(drvList[b], Privs \ {p})) = {q \in Privs : privOn[q] = b} \ {p}
    <2>1. drvList[b] \in Seq(Privs) /\ Once(drvList[b])
          /\ Elems(drvList[b]) = {q \in Privs : privOn[q] = b}
      BY <1>3 DEF Inv, BusTypes, DriverSide, DrvLists
    <2>2. {q \in Privs : privOn[q] = b} \cap (Privs \ {p}) = {q \in Privs : privOn[q] = b} \ {p}
      OBVIOUS
    <2> QED
      BY <2>1, <2>2, SelectedIs
  <1>9. BusTypes' /\ DeviceTypes'
    BY <1>1, <1>8 DEF Inv, BusTypes, DeviceTypes
  <1>10. PrivTypes'
    <2>1. registered[d] - 1 \in 0..MaxPriv
      BY DriverModelAssumption DEF Inv, PrivTypes
    <2>2. bound' \in [Privs -> Seq(Devices)]
      <3>1. <<>> \in Seq(Devices)
        OBVIOUS
      <3> QED
        BY <1>1, <3>1 DEF Inv, PrivTypes
    <2> QED
      BY <1>1, <2>1, <2>2 DEF Inv, PrivTypes
  <1>11. DrvLists'
    <2> SUFFICES ASSUME NEW c \in Buses
                 PROVE  Once(drvList'[c]) /\ Elems(drvList'[c]) = {q \in Privs : privOn'[q] = c}
      BY DEF DrvLists
    <2>1. c # None
      BY DriverModelAssumption
    <2>2. CASE c = b
      <3>1. drvList'[c] = Selected(drvList[b], Privs \ {p})
        BY <1>1, <2>2 DEF Inv, BusTypes
      <3>2. {q \in Privs : privOn'[q] = b} = {q \in Privs : privOn[q] = b} \ {p}
        BY <1>6, <1>7, <2>1, <2>2
      <3> QED
        BY <1>8, <2>2, <3>1, <3>2
    <2>3. CASE c # b
      <3>1. drvList'[c] = drvList[c]
        BY <1>1, <2>3 DEF Inv, BusTypes
      <3>2. privOn[p] = b
        BY DEF p, b
      <3>3. {q \in Privs : privOn'[q] = c} = {q \in Privs : privOn[q] = c}
        BY <1>6, <1>7, <2>1, <2>3, <3>2
      <3> QED
        BY <3>1, <3>3 DEF Inv, DriverSide, DrvLists
    <2> QED
      BY <2>2, <2>3
  <1>12. NamesApart'
    <2> SUFFICES ASSUME NEW q \in Privs, NEW r \in Privs, privOn'[q] # None,
                        privOn'[q] = privOn'[r],
                        DriverName[owner'[q]] = DriverName[owner'[r]]
                 PROVE  q = r
      BY DEF NamesApart
    <2>1. q # p /\ r # p
      BY <1>7
    <2> QED
      BY <1>6, <2>1 DEF Inv, DriverSide, NamesApart
  <1>13. Counted'
    <2> SUFFICES ASSUME NEW e \in Drivers
                 PROVE  /\ registered'[e] <= made'
                        /\ registered'[e] > 0 => drvP'[e] # None
      BY DEF Counted
    <2>1. registered[e] \in Nat /\ registered[e] <= made /\ made \in Nat
          /\ (registered[e] > 0 => drvP[e] # None)
      BY DriverModelAssumption DEF Inv, PrivTypes, DriverSide, Counted
    <2>2. registered'[e] = registered[e] \/ registered'[e] = registered[e] - 1
      BY <1>1 DEF Inv, PrivTypes
    <2> QED
      BY <1>1, <2>1, <2>2
  <1>14. PrivsOwned'
    <2>1. ASSUME NEW q \in Privs
          PROVE  /\ privOn'[q] # None => owner'[q] # None
                 /\ owner'[q] # None => q <= made' /\ drvP'[owner'[q]] # None
      <3>1. CASE q = p
        BY <1>7, <3>1
      <3>2. CASE q # p
        BY <1>1, <1>6, <3>2 DEF Inv, DriverSide, PrivsOwned
      <3> QED
        BY <3>1, <3>2
    <2>2. ASSUME NEW e \in Drivers, drvP'[e] # None
          PROVE  drvP'[e] <= made' /\ owner'[drvP'[e]] \in {e, None}
      <3>1. drvP'[e] = drvP[e] /\ drvP[e] \in Privs
        BY <1>1, <2>2 DEF Inv, PrivTypes
      <3>2. drvP[e] <= made /\ owner[drvP[e]] \in {e, None}
        BY <2>2, <3>1 DEF Inv, DriverSide, PrivsOwned
      <3>3. owner'[drvP[e]] \in {owner[drvP[e]], None}
        BY <1>6, <1>7, <3>1
      <3> QED
        BY <1>1, <3>1, <3>2, <3>3
    <2> QED
      BY <2>1, <2>2 DEF PrivsOwned
  <1>15. DevLists' /\ OnlyLive'
    BY <1>1 DEF Inv, DeviceSide, DevLists, OnlyLive
  <1>16. BoundLists'
    <2> SUFFICES ASSUME NEW q \in Privs
                 PROVE  Once(bound'[q]) /\ Elems(bound'[q]) = {v \in Devices : devAt'[v] = q}
      BY DEF BoundLists
    <2>1. q # None
      BY DriverModelAssumption
    <2>2. CASE q = p
      <3>1. {v \in Devices : devAt'[v] = q} = {}
        BY <1>1, <2>1, <2>2
      <3>2. Once(<<>>) /\ Elems(<<>>) = {}
        BY DEF Once, Elems
      <3> QED
        BY <1>7, <2>2, <3>1, <3>2
    <2>3. CASE q # p
      <3>1. {v \in Devices : devAt'[v] = q} = {v \in Devices : devAt[v] = q}
        BY <1>1, <2>1, <2>3
      <3> QED
        BY <1>6, <2>3, <3>1 DEF Inv, DeviceSide, BoundLists
    <2> QED
      BY <2>2, <2>3
  <1>17. BoundAgree'
    <2> SUFFICES ASSUME NEW v \in Devices
                 PROVE  /\ (devDriver'[v] = None) <=> (devAt'[v] = None)
                        /\ devAt'[v] # None => owner'[devAt'[v]] = devDriver'[v]
      BY DEF BoundAgree
    <2>1. CASE devAt[v] = p
      BY <1>1, <2>1
    <2>2. CASE devAt[v] # p
      <3>1. devDriver'[v] = devDriver[v] /\ devAt'[v] = devAt[v]
        BY <1>1, <2>2
      <3>2. devAt[v] # None => devAt[v] \in Privs
        BY DEF Inv, DeviceTypes
      <3> QED
        BY <1>6, <2>2, <3>1, <3>2 DEF Inv, DeviceSide, BoundAgree
    <2> QED
      BY <2>1, <2>2
  <1> QED
    BY <1>9, <1>10, <1>11, <1>12, <1>13, <1>14, <1>15, <1>16, <1>17
       DEF Inv, DriverSide, DeviceSide

\* get_device_id answers an index of the table, or -EPERM.
LEMMA NextIdIs == NextId \in Ids
  <1> DEFINE free == {i \in 1..(TableSize - 1) : table[i] = None}
  <1>1. TableSize \in Nat /\ TableSize > 0
    BY DriverModelAssumption
  <1>2. free \in SUBSET Nat /\ free \subseteq Ids /\ NoId \in Ids
    BY <1>1 DEF Ids, NoId
  <1>3. free # {} => FirstOf(free) \in free
    BY <1>2, FirstIs
  <1>4. NextId = IF free = {} THEN NoId ELSE FirstOf(free)
    BY DEF NextId
  <1> HIDE DEF free
  <1> QED
    BY <1>2, <1>3, <1>4

LEMMA CreateFullKeeps ==
    ASSUME Inv, NEW v \in Devices, device[v] = "none", CreateFull(v)
    PROVE  Inv'
  <1>1. /\ table' = [table EXCEPT ![NoId] = v]
        /\ device' = [device EXCEPT ![v] = "freed"]
        /\ id' = [id EXCEPT ![v] = NoId]
        /\ UNCHANGED <<busVars, driverVars, wants, devBus, devOn, devDriver, devAt>>
    BY DEF CreateFull
  <1>2. NoId \in Ids
    BY DriverModelAssumption DEF Ids, NoId
  <1>3. BusTypes' /\ PrivTypes' /\ DeviceTypes'
    BY <1>1, <1>2 DEF Inv, BusTypes, PrivTypes, DeviceTypes, busVars, driverVars
  <1>4. DriverSide'
    BY <1>1 DEF Inv, DriverSide, DrvLists, NamesApart, Counted, PrivsOwned, busVars, driverVars
  <1>5. DeviceSide'
    BY <1>1 DEF Inv, DeviceTypes, DeviceSide, DevLists, BoundLists, BoundAgree, OnlyLive, busVars,
                driverVars
  <1> QED
    BY <1>3, <1>4, <1>5 DEF Inv

\* A new device goes to the tail of its bus's list, and to at most one driver.
LEMMA CreateKeeps ==
    ASSUME Inv, NEW v \in Devices, NEW b \in Buses, NEW name \in Names, NEW accept,
           device[v] = "none", ~AttachFaults(b, name, accept),
           CreateAttached(v, b, name, accept)
    PROVE  Inv'
  <1>1. /\ table' = [table EXCEPT ![NextId] = v]
        /\ id' = [id EXCEPT ![v] = NextId]
        /\ device' = [device EXCEPT ![v] = "live"]
        /\ wants' = [wants EXCEPT ![v] = name]
        /\ devBus' = [devBus EXCEPT ![v] = b]
        /\ Attach(v, b, name, accept, bound)
        /\ devOn' = [devOn EXCEPT ![v] = b]
        /\ devList' = [devList EXCEPT ![b] = Append(@, v)]
        /\ UNCHANGED <<bus, made, owner, drvP, registered>>
    BY DEF CreateAttached
  <1>2. devOn[v] = None /\ devAt[v] = None
    BY DEF Inv, DeviceSide, OnlyLive, BoundAgree
  <1>3. /\ bound \in [Privs -> Seq(Devices)]
        /\ \A p \in Privs : /\ Once(bound[p])
                            /\ Elems(bound[p]) = {u \in Devices : devAt[u] = p} \ {v}
    <2>1. ASSUME NEW p \in Privs
          PROVE  {u \in Devices : devAt[u] = p} = {u \in Devices : devAt[u] = p} \ {v}
      BY <1>2, DriverModelAssumption
    <2> QED
      BY <2>1 DEF Inv, PrivTypes, DeviceSide, BoundLists
  <1>4. /\ drvList' \in [Buses -> Seq(Privs)]
        /\ privOn' \in [Privs -> Buses \cup {None}]
        /\ bound' \in [Privs -> Seq(Devices)]
        /\ devDriver' \in [Devices -> Drivers \cup {None}]
        /\ devAt' \in [Devices -> Privs \cup {None}]
        /\ DriverSide' /\ BoundLists' /\ BoundAgree'
        /\ \A u \in Devices : u # v => devDriver'[u] = devDriver[u]
    BY <1>1, <1>3, AttachKeeps
  <1>5. b # None
    BY DriverModelAssumption
  <1>6. /\ Append(devList[b], v) \in Seq(Devices) /\ Once(Append(devList[b], v))
        /\ Elems(Append(devList[b], v)) = {u \in Devices : devOn[u] = b} \cup {v}
    <2>1. devList[b] \in Seq(Devices) /\ Once(devList[b])
          /\ Elems(devList[b]) = {u \in Devices : devOn[u] = b}
      BY DEF Inv, BusTypes, DeviceSide, DevLists
    <2> QED
      BY <1>2, <1>5, <2>1, AppendIs
  <1>7. BusTypes'
    BY <1>1, <1>4, <1>6 DEF Inv, BusTypes
  <1>8. PrivTypes'
    BY <1>1, <1>4 DEF Inv, PrivTypes
  <1>9. DeviceTypes'
    <2>1. id' \in [Devices -> Ids] /\ table' \in [Ids -> Devices \cup {None}]
      BY <1>1, NextIdIs DEF Inv, DeviceTypes
    <2>2. /\ device' \in [Devices -> {"none", "live", "freed"}]
          /\ wants' \in [Devices -> Names \cup {None}]
          /\ devBus' \in [Devices -> Buses \cup {None}]
          /\ devOn' \in [Devices -> Buses \cup {None}]
      BY <1>1 DEF Inv, DeviceTypes
    <2> QED
      BY <1>4, <2>1, <2>2 DEF DeviceTypes
  <1>10. DevLists'
    <2> SUFFICES ASSUME NEW c \in Buses
                 PROVE  Once(devList'[c]) /\ Elems(devList'[c]) = {u \in Devices : devOn'[u] = c}
      BY DEF DevLists
    <2>1. CASE c = b
      <3>1. devList'[c] = Append(devList[b], v)
        BY <1>1, <2>1 DEF Inv, BusTypes
      <3>2. {u \in Devices : devOn'[u] = b} = {u \in Devices : devOn[u] = b} \cup {v}
        BY <1>1 DEF Inv, DeviceTypes
      <3> QED
        BY <1>6, <2>1, <3>1, <3>2
    <2>2. CASE c # b
      <3>1. devList'[c] = devList[c]
        BY <1>1, <2>2 DEF Inv, BusTypes
      <3>2. c # None
        BY DriverModelAssumption
      <3>3. {u \in Devices : devOn'[u] = c} = {u \in Devices : devOn[u] = c}
        BY <1>1, <1>2, <2>2, <3>2 DEF Inv, DeviceTypes
      <3> QED
        BY <3>1, <3>3 DEF Inv, DeviceSide, DevLists
    <2> QED
      BY <2>1, <2>2
  <1>11. OnlyLive'
    <2> SUFFICES ASSUME NEW u \in Devices
                 PROVE  /\ device'[u] # "live" => devOn'[u] = None /\ devDriver'[u] = None
                        /\ device'[u] = "live" => devBus'[u] # None
                        /\ devOn'[u] \in {devBus'[u], None}
      BY DEF OnlyLive
    <2>1. CASE u = v
      BY <1>1, <1>5, <2>1 DEF Inv, DeviceTypes
    <2>2. CASE u # v
      <3>1. /\ device'[u] = device[u] /\ devOn'[u] = devOn[u] /\ devBus'[u] = devBus[u]
            /\ devDriver'[u] = devDriver[u]
        BY <1>1, <1>4, <2>2 DEF Inv, DeviceTypes
      <3> QED
        BY <3>1 DEF Inv, DeviceSide, OnlyLive
    <2> QED
      BY <2>1, <2>2
  <1> QED
    BY <1>4, <1>7, <1>8, <1>9, <1>10, <1>11 DEF Inv, DeviceSide

\* device_release_driver takes the device off its driver's list, device_attach puts it on
\* at most one.
LEMMA ReprobeKeeps ==
    ASSUME Inv, NEW v \in Devices, DeviceReprobe(v)
    PROVE  Inv'
  <1> DEFINE b == devBus[v]
             released == IF devDriver[v] = None THEN bound
                         ELSE [bound EXCEPT ![devAt[v]] = Selected(@, Devices \ {v})]
  <1>1. CASE Fails("use after free")
    BY <1>1, FailsKeeps
  <1>2. ASSUME NEW accept, ~AttachFaults(b, wants[v], accept),
               Attach(v, b, wants[v], accept, released),
               UNCHANGED <<bus, devList, made, owner, drvP, registered, device, wants, devBus,
                           devOn, id, table>>
        PROVE  Inv'
    <2>1. b \in Buses
      BY DEF DeviceReprobe, Inv, DeviceTypes, DeviceSide, OnlyLive
    <2>2. ASSUME NEW p \in Privs
          PROVE  /\ released[p] \in Seq(Devices) /\ Once(released[p])
                 /\ Elems(released[p]) = {u \in Devices : devAt[u] = p} \ {v}
      <3>1. /\ bound[p] \in Seq(Devices) /\ Once(bound[p])
            /\ Elems(bound[p]) = {u \in Devices : devAt[u] = p}
        BY DEF Inv, PrivTypes, DeviceSide, BoundLists
      <3>2. p # None
        BY DriverModelAssumption
      <3>3. CASE devAt[v] # p
        <4>1. released[p] = bound[p]
          BY <3>3 DEF Inv, PrivTypes
        <4> QED
          BY <3>1, <3>3, <4>1
      <3>4. CASE devAt[v] = p
        <4>1. devDriver[v] # None
          BY <3>2, <3>4 DEF Inv, DeviceSide, BoundAgree
        <4>2. released[p] = Selected(bound[p], Devices \ {v})
          BY <3>4, <4>1 DEF Inv, PrivTypes
        <4>3. /\ Selected(bound[p], Devices \ {v}) \in Seq(Devices)
              /\ Once(Selected(bound[p], Devices \ {v}))
              /\ Elems(Selected(bound[p], Devices \ {v})) = Elems(bound[p]) \cap (Devices \ {v})
          BY <3>1, SelectedIs
        <4> QED
          BY <3>1, <4>2, <4>3
      <3> QED
        BY <3>3, <3>4
    <2>3. released \in [Privs -> Seq(Devices)]
      <3>1. released = [p \in Privs |-> released[p]]
        BY DEF Inv, PrivTypes
      <3> HIDE DEF released
      <3> QED
        BY <2>2, <3>1
    <2> HIDE DEF b, released
    <2>4. /\ drvList' \in [Buses -> Seq(Privs)]
          /\ privOn' \in [Privs -> Buses \cup {None}]
          /\ bound' \in [Privs -> Seq(Devices)]
          /\ devDriver' \in [Devices -> Drivers \cup {None}]
          /\ devAt' \in [Devices -> Privs \cup {None}]
          /\ DriverSide' /\ BoundLists' /\ BoundAgree'
          /\ \A u \in Devices : u # v => devDriver'[u] = devDriver[u]
      BY <1>2, <2>1, <2>2, <2>3, AttachKeeps
    <2>5. BusTypes' /\ PrivTypes' /\ DeviceTypes'
      BY <1>2, <2>4 DEF Inv, BusTypes, PrivTypes, DeviceTypes
    <2>6. device[v] = "live"
      BY DEF DeviceReprobe
    <2>7. DevLists' /\ OnlyLive'
      BY <1>2, <2>4, <2>6 DEF Inv, DeviceSide, DevLists, OnlyLive
    <2> QED
      BY <2>4, <2>5, <2>7 DEF Inv, DeviceSide
  <1> QED
    BY <1>1, <1>2 DEF DeviceReprobe

\* A device that is found is on no list afterwards.
LEMMA FindKeeps ==
    ASSUME Inv, NEW v \in Devices, DeviceFind(v)
    PROVE  Inv'
  <1> DEFINE b == devBus[v]
             rest == Selected(devList[b], Devices \ {v})
  <1>1. /\ devList' = [devList EXCEPT ![b] = Selected(@, Devices \ {v})]
        /\ devOn' = [devOn EXCEPT ![v] = None]
        /\ UNCHANGED <<bus, drvList, driverVars, device, wants, devBus, devDriver, devAt, id,
                       table>>
    BY DEF DeviceFind
  <1>2. b \in Buses /\ devOn[v] = b
    BY DEF DeviceFind, Inv, DeviceTypes, DeviceSide, OnlyLive
  <1> HIDE DEF b
  <1>3. /\ rest \in Seq(Devices) /\ Once(rest)
        /\ Elems(rest) = {u \in Devices : devOn[u] = b} \ {v}
    <2>1. devList[b] \in Seq(Devices) /\ Once(devList[b])
          /\ Elems(devList[b]) = {u \in Devices : devOn[u] = b}
      BY <1>2 DEF Inv, BusTypes, DeviceSide, DevLists
    <2>2. Elems(rest) = {u \in Devices : devOn[u] = b} \cap (Devices \ {v})
      BY <2>1, SelectedIs
    <2> QED
      BY <2>1, <2>2, SelectedIs
  <1>4. devList' = [devList EXCEPT ![b] = rest]
    BY <1>1
  <1> HIDE DEF rest
  <1>5. BusTypes' /\ PrivTypes' /\ DeviceTypes'
    BY <1>1, <1>3, <1>4 DEF Inv, BusTypes, PrivTypes, DeviceTypes, driverVars
  <1>6. DriverSide'
    BY <1>1 DEF Inv, DriverSide, DrvLists, NamesApart, Counted, PrivsOwned, driverVars
  <1>7. BoundLists' /\ BoundAgree' /\ OnlyLive'
    BY <1>1 DEF Inv, DeviceTypes, DeviceSide, BoundLists, BoundAgree, OnlyLive, driverVars
  <1>8. DevLists'
    <2> SUFFICES ASSUME NEW c \in Buses
                 PROVE  Once(devList'[c]) /\ Elems(devList'[c]) = {u \in Devices : devOn'[u] = c}
      BY DEF DevLists
    <2>1. c # None
      BY DriverModelAssumption
    <2>2. CASE c = b
      <3>1. devList'[c] = rest
        BY <1>4, <2>2 DEF Inv, BusTypes
      <3>2. {u \in Devices : devOn'[u] = b} = {u \in Devices : devOn[u] = b} \ {v}
        BY <1>1, <2>1, <2>2 DEF Inv, DeviceTypes
      <3> QED
        BY <1>3, <2>2, <3>1, <3>2
    <2>3. CASE c # b
      <3>1. devList'[c] = devList[c]
        BY <1>4, <2>3 DEF Inv, BusTypes
      <3>2. {u \in Devices : devOn'[u] = c} = {u \in Devices : devOn[u] = c}
        BY <1>1, <1>2, <2>1, <2>3 DEF Inv, DeviceTypes
      <3> QED
        BY <3>1, <3>2 DEF Inv, DeviceSide, DevLists
    <2> QED
      BY <2>2, <2>3
  <1> QED
    BY <1>5, <1>6, <1>7, <1>8 DEF Inv, DeviceSide

-----------------------------------------------------------------------------
(* Theorems *)

LEMMA RegisterKeeps ==
    ASSUME Inv, NEW d \in Drivers, NEW b \in Buses, DriverRegister(d, b)
    PROVE  Inv'
  <1> DEFINE hits == {i \in 1..Len(drvList[b]) :
                         DriverName[owner[drvList[b][i]]] = DriverName[d]}
             at == FirstOf(hits)
  <1>1. Len(drvList[b]) \in Nat
    BY DEF Inv, BusTypes
  <1>2. hits \in SUBSET Nat /\ 0 \notin hits
    BY <1>1
  <1>3. at \in Nat /\ (at = 0 => hits = {})
    BY <1>2, FoundAt
  <1>4. \/ at > 0 /\ DriverExists(d, b, at)
        \/ ~(at > 0) /\ \E accept \in SUBSET Devices : DriverAdd(d, b, accept)
    BY DEF DriverRegister
  <1> HIDE DEF hits, at
  <1>5. ~(at > 0) => hits = {}
    BY <1>3
  <1>6. ~(at > 0) =>
           \A i \in 1..Len(drvList[b]) : DriverName[owner[drvList[b][i]]] # DriverName[d]
    BY <1>5 DEF hits
  <1> QED
    BY <1>3, <1>4, <1>6, ExistsKeeps, AddKeeps

LEMMA UnregisterKeeps ==
    ASSUME Inv, NEW d \in Drivers, DriverUnregister(d)
    PROVE  Inv'
  <1>1. CASE \E what : Fails(what)
    BY <1>1, FailsKeeps
  <1>2. CASE /\ registered[d] > 0 /\ owner[drvP[d]] # None /\ privOn[drvP[d]] # None
             /\ DriverRemove(d, drvP[d])
    BY <1>2, RemoveKeeps
  <1> QED
    BY <1>1, <1>2 DEF DriverUnregister

LEMMA NextInv ==
    ASSUME Inv, [Next]_vars
    PROVE  Inv'
  <1>1. CASE UNCHANGED vars
    BY <1>1, ListsStay DEF vars, busVars, Inv, BusTypes
  <1>2. ASSUME NEW b \in Buses, BusRegister(b) \/ BusUnregister(b) PROVE Inv'
    BY <1>2, BusKeeps
  <1>3. ASSUME NEW d \in Drivers, NEW b \in Buses, DriverRegister(d, b) PROVE Inv'
    BY <1>3, RegisterKeeps
  <1>4. ASSUME NEW d \in Drivers, DriverUnregister(d) PROVE Inv'
    BY <1>4, UnregisterKeeps
  <1>5. ASSUME NEW v \in Devices, NEW b \in Buses, DeviceCreate(v, b) PROVE Inv'
    <2>1. device[v] = "none"
      BY <1>5 DEF DeviceCreate
    <2>2. \/ CreateFull(v) \/ Fails("use after free")
          \/ \E name \in Names, accept \in SUBSET Drivers :
                ~AttachFaults(b, name, accept) /\ CreateAttached(v, b, name, accept)
      BY <1>5 DEF DeviceCreate
    <2> QED
      BY <2>1, <2>2, CreateFullKeeps, FailsKeeps, CreateKeeps
  <1>6. ASSUME NEW v \in Devices, DeviceDestroy(v) PROVE Inv'
    BY <1>6, FailsKeeps DEF DeviceDestroy
  <1>7. ASSUME NEW v \in Devices, DeviceReprobe(v) PROVE Inv'
    BY <1>7, ReprobeKeeps
  <1>8. ASSUME NEW v \in Devices, DeviceFind(v) PROVE Inv'
    BY <1>8, FindKeeps
  <1> QED
    BY <1>1, <1>2, <1>3, <1>4, <1>5, <1>6, <1>7, <1>8 DEF Next, Call

LEMMA Invariance == Spec => []Inv
  BY InitInv, NextInv, PTL DEF Spec

\* get_device_id answers an index of the table or -EPERM (mdev.c:45-73), driver_privates are
\* never more than the registrations that allocated them, and every pointer of a node is to
\* something of its kind.
THEOREM TypesHold == Spec => []TypeOK
  <1>1. Inv /\ CallersKnown => TypeOK
    BY TypeParts DEF Inv
  <1>2. Init => CallersKnown
    BY DEF Init, CallersKnown
  <1>3. CallersKnown /\ [Next]_vars => CallersKnown'
    BY DEF Next, vars, CallersKnown
  <1> QED
    BY <1>1, <1>2, <1>3, Invariance, PTL DEF Spec

\* Whatever is registered, searched, probed again, unregistered and left dangling, a node is
\* on the list it says it is on, once, and on no other; no two drivers of a bus have the
\* same name; and a device that has a driver is on the list of that driver (wlist.c,
\* device_driver.c, bus.c), so that driver_detach ends.
THEOREM ListsStayInOrder == Spec => []BusListsAgree
  BY Invariance, InvGivesLists, PTL

\* No registration, creation or search takes a bound device from its driver.
THEOREM RegistrationTakesNoDevice == Spec => BindingsStay
  <1>1. ASSUME Inv, [Next]_vars
        PROVE  [\A v \in Devices :
                  (devDriver[v] # None /\ devDriver'[v] # devDriver[v]) =>
                     DriverUnregister(devDriver[v]) \/ DeviceReprobe(v)]_vars
    <2> SUFFICES ASSUME Next, NEW v \in Devices, devDriver[v] # None,
                        devDriver'[v] # devDriver[v]
                 PROVE  DriverUnregister(devDriver[v]) \/ DeviceReprobe(v)
      BY <1>1
    <2>1. ASSUME NEW b \in Buses, BusRegister(b) \/ BusUnregister(b) PROVE FALSE
      BY <2>1 DEF BusRegister, BusUnregister, deviceVars
    <2>2. ASSUME NEW what, Fails(what) PROVE FALSE
      BY <2>2 DEF Fails, deviceVars
    <2>3. ASSUME NEW d \in Drivers, NEW b \in Buses, DriverRegister(d, b) PROVE FALSE
      <3>1. UNCHANGED devDriver \/ \E accept : DriverAdd(d, b, accept)
        BY <2>3 DEF DriverRegister, DriverExists, deviceVars
      <3> QED
        BY <3>1 DEF DriverAdd
    <2>4. ASSUME NEW d \in Drivers, DriverUnregister(d) PROVE DriverUnregister(devDriver[v])
      <3>1. DriverRemove(d, drvP[d]) /\ registered[d] > 0 /\ owner[drvP[d]] # None
        BY <2>2, <2>4 DEF DriverUnregister
      <3>2. devAt[v] = drvP[d]
        BY <3>1 DEF DriverRemove
      <3>3. devAt[v] # None /\ owner[devAt[v]] = devDriver[v]
        BY <1>1 DEF Inv, DeviceSide, BoundAgree
      <3>4. owner[drvP[d]] = d
        BY <1>1, <3>1, <3>2, <3>3 DEF Inv, DriverSide, PrivsOwned
      <3> QED
        BY <2>4, <3>2, <3>3, <3>4
    <2>5. ASSUME NEW u \in Devices, NEW b \in Buses, DeviceCreate(u, b) PROVE FALSE
      <3>1. device[u] = "none"
        BY <2>5 DEF DeviceCreate
      <3>2. u # v
        BY <1>1, <3>1 DEF Inv, DeviceSide, OnlyLive
      <3>3. CASE CreateFull(u)
        BY <3>3 DEF CreateFull
      <3>4. ASSUME NEW name, NEW accept, CreateAttached(u, b, name, accept) PROVE FALSE
        BY <1>1, <3>2, <3>4 DEF CreateAttached, Attach, Inv, DeviceTypes
      <3> QED
        BY <2>2, <2>5, <3>3, <3>4 DEF DeviceCreate
    <2>6. ASSUME NEW u \in Devices, DeviceDestroy(u) PROVE FALSE
      BY <2>2, <2>6 DEF DeviceDestroy
    <2>7. ASSUME NEW u \in Devices, DeviceReprobe(u) PROVE u = v
      <3> SUFFICES ASSUME u # v PROVE FALSE
        OBVIOUS
      <3>1. ASSUME NEW b, NEW name, NEW accept, NEW lists, Attach(u, b, name, accept, lists)
            PROVE  FALSE
        BY <1>1, <3>1 DEF Attach, Inv, DeviceTypes
      <3> QED
        BY <2>2, <2>7, <3>1 DEF DeviceReprobe
    <2>8. ASSUME NEW u \in Devices, DeviceFind(u) PROVE FALSE
      BY <2>8 DEF DeviceFind
    <2> QED
      BY <2>1, <2>3, <2>4, <2>5, <2>6, <2>7, <2>8 DEF Next, Call
  <1> QED
    BY <1>1, Invariance, PTL DEF BindingsStay, Spec

-----------------------------------------------------------------------------
(* Callers that keep their drivers apart *)

\* The driver of a linked driver_private points to one of its own that has not been freed,
\* and to this one if it may be unregistered; it was registered on the bus the node is on.
CurrentOnly ==
    \A p \in Privs : privOn[p] # None =>
       /\ <<owner[p], privOn[p]>> \in callers.registers
       /\ owner[drvP[owner[p]]] = owner[p]
       /\ owner[p] \in callers.unregisters => drvP[owner[p]] = p

\* A registered driver has its driver_private, and that is linked; a driver that may be
\* unregistered is registered once.
Listed ==
    \A d \in Drivers : registered[d] > 0 =>
       /\ owner[drvP[d]] = d /\ privOn[drvP[d]] # None
       /\ d \in callers.unregisters => registered[d] <= 1

ApartInv ==
    /\ CurrentOnly /\ Listed
    /\ \A b \in Buses : bus[b] # "gone"
    /\ fault = "none"

\* No bus has more than one driver, so no iteration has a next entry to take off.
LEMMA OnePerBus ==
    ASSUME Inv, CurrentOnly, KeepApart(callers), NEW b \in Buses
    PROVE  /\ \A p, q \in Privs : privOn[p] = b /\ privOn[q] = b => p = q
           /\ Len(drvList[b]) \in Nat /\ Len(drvList[b]) <= 1
  <1>1. ASSUME NEW p \in Privs, NEW q \in Privs, privOn[p] = b, privOn[q] = b PROVE p = q
    <2>1. b # None
      BY DriverModelAssumption
    <2> DEFINE r == <<owner[p], privOn[p]>>
               t == <<owner[q], privOn[q]>>
    <2>2. r \in callers.registers /\ t \in callers.registers
      BY <1>1, <2>1 DEF CurrentOnly
    <2>3. r[2] = t[2]
      BY <1>1
    <2>4. r[1] = t[1]
      BY <2>2, <2>3 DEF KeepApart
    <2> QED
      BY <1>1, <2>1, <2>4 DEF Inv, DriverSide, NamesApart
  <1>2. Len(drvList[b]) \in Nat
    BY DEF Inv, BusTypes
  <1>3. ASSUME Len(drvList[b]) > 1 PROVE FALSE
    <2>1. 1 \in 1..Len(drvList[b]) /\ 2 \in 1..Len(drvList[b])
      BY <1>2, <1>3
    <2>2. drvList[b][1] \in Elems(drvList[b]) /\ drvList[b][2] \in Elems(drvList[b])
      BY <2>1 DEF Elems
    <2>3. drvList[b][1] = drvList[b][2]
      BY <1>1, <2>2 DEF Inv, DriverSide, DrvLists
    <2> QED
      BY <2>1, <2>3 DEF Inv, DriverSide, DrvLists, Once
  <1> QED
    BY <1>1, <1>2, <1>3

\* So an iteration leaves every driver linked.
LEMMA NoneUnlinked ==
    ASSUME Inv, CurrentOnly, KeepApart(callers), NEW b \in Buses, NEW at \in Nat,
           IterationLeft(b, at)
    PROVE  privOn' = privOn
  <1> DEFINE n == Len(drvList[b])
  <1>1. n \in Nat /\ n <= 1
    BY OnePerBus
  <1>2. Leftover(drvList[b], at) = 0 \/ Leftover(drvList[b], at) > 1
    BY DEF Leftover
  <1> HIDE DEF n
  <1>3. Leftover(drvList[b], at) \notin 1..n
    BY <1>1, <1>2 DEF Leftover
  <1>4. Unlinked(drvList[b], at) = {}
    BY <1>3 DEF Unlinked, n
  <1>5. privOn' = [p \in Privs |-> privOn[p]]
    BY <1>4 DEF IterationLeft
  <1> QED
    BY <1>5 DEF Inv, PrivTypes

\* A driver that takes a device has not been freed.
LEMMA NoAttachFault ==
    ASSUME Inv, CurrentOnly, NEW b \in Buses, NEW name, NEW accept
    PROVE  ~AttachFaults(b, name, accept)
  <1> DEFINE at == Taker(b, name, accept)
             p == drvList[b][at]
  <1>1. at \in Nat /\ (at # 0 => at \in 1..Len(drvList[b]))
    BY TakerIs
  <1> HIDE DEF at
  <1>2. ASSUME at > 0 PROVE owner[drvP[owner[p]]] # None
    <2>1. p \in Elems(drvList[b])
      BY <1>1, <1>2 DEF Elems
    <2>2. p \in Privs /\ privOn[p] = b /\ b # None
      BY <2>1, DriverModelAssumption DEF Inv, DriverSide, DrvLists
    <2>3. owner[drvP[owner[p]]] = owner[p] /\ owner[p] # None
      BY <2>2 DEF CurrentOnly, Inv, DriverSide, PrivsOwned
    <2> QED
      BY <2>3
  <1> QED
    BY <1>2 DEF AttachFaults, at

\* What binds and unbinds devices leaves the drivers as they are.
LEMMA DriversStay ==
    ASSUME ApartInv, UNCHANGED <<bus, owner, privOn, drvP, registered, fault, callers>>
    PROVE  ApartInv'
  BY DEF ApartInv, CurrentOnly, Listed

LEMMA RegisterApart ==
    ASSUME Inv, ApartInv, KeepApart(callers), UNCHANGED callers,
           NEW d \in Drivers, NEW b \in Buses, DriverRegister(d, b)
    PROVE  ApartInv'
  <1> DEFINE hits == {i \in 1..Len(drvList[b]) :
                         DriverName[owner[drvList[b][i]]] = DriverName[d]}
             at == FirstOf(hits)
             p == made + 1
  <1>1. Len(drvList[b]) \in Nat
    BY DEF Inv, BusTypes
  <1>2. hits \in SUBSET Nat /\ 0 \notin hits
    BY <1>1
  <1> HIDE DEF hits
  <1>3. at \in Nat /\ (at = 0 => hits = {})
    BY <1>2, FoundAt
  <1> USE DEF hits
  <1>4. \/ at > 0 /\ DriverExists(d, b, at)
        \/ ~(at > 0) /\ \E accept \in SUBSET Devices : DriverAdd(d, b, accept)
    BY DEF DriverRegister
  <1> HIDE DEF at
  <1>5. CASE DriverExists(d, b, at)
    <2>1. IterationLeft(b, at) /\ UNCHANGED <<bus, owner, drvP, registered, fault>>
      BY <1>5 DEF DriverExists, IterationLeft
    <2>2. privOn' = privOn
      BY <1>3, <2>1, NoneUnlinked DEF ApartInv
    <2> QED
      BY <2>1, <2>2, DriversStay
  <1>6. ASSUME hits = {}, NEW accept \in SUBSET Devices, DriverAdd(d, b, accept)
        PROVE  ApartInv'
    <2>1. /\ owner' = [owner EXCEPT ![p] = d]
          /\ drvP' = [drvP EXCEPT ![d] = p]
          /\ privOn' = [privOn EXCEPT ![p] = b]
          /\ registered' = [registered EXCEPT ![d] = @ + 1]
          /\ made < MaxPriv
          /\ UNCHANGED <<bus, fault>>
      BY <1>6 DEF DriverAdd
    <2>2. p \in Privs /\ p # None /\ privOn[p] = None /\ \A e \in Drivers : drvP[e] # p
      BY <2>1, NextIsFresh
    <2> HIDE DEF p
    <2>3. <<d, b>> \in callers.registers /\ b # None
      BY DriverModelAssumption DEF DriverRegister
    <2>4. ASSUME NEW q \in Privs, privOn[q] = b, owner[q] = d PROVE FALSE
      <3>1. q \in Elems(drvList[b])
        BY <2>4 DEF Inv, DriverSide, DrvLists
      <3>2. PICK i \in 1..Len(drvList[b]) : q = drvList[b][i]
        BY <3>1 DEF Elems
      <3> QED
        BY <1>6, <2>4, <3>2
    <2>5. ASSUME d \in callers.unregisters, NEW q \in Privs, privOn[q] # None
          PROVE  owner[q] # d
      <3>1. <<owner[q], privOn[q]>> \in callers.registers
        BY <2>5 DEF ApartInv, CurrentOnly
      <3> SUFFICES ASSUME owner[q] = d PROVE FALSE
        OBVIOUS
      <3>2. <<owner[q], privOn[q]>>[1] = <<d, b>>[1]
        OBVIOUS
      <3>3. <<owner[q], privOn[q]>>[2] = <<d, b>>[2]
        BY <2>3, <2>5, <3>1, <3>2 DEF KeepApart
      <3> QED
        BY <2>4, <3>3
    <2>6. \A q \in Privs : q # p => owner'[q] = owner[q] /\ privOn'[q] = privOn[q]
      BY <2>1 DEF Inv, PrivTypes
    <2>7. /\ owner'[p] = d /\ privOn'[p] = b /\ drvP'[d] = p
          /\ \A e \in Drivers : e # d => drvP'[e] = drvP[e] /\ registered'[e] = registered[e]
      BY <2>1, <2>2 DEF Inv, PrivTypes
    <2>8. CurrentOnly'
      <3> SUFFICES ASSUME NEW q \in Privs, privOn'[q] # None
                   PROVE  /\ <<owner'[q], privOn'[q]>> \in callers.registers
                          /\ owner'[drvP'[owner'[q]]] = owner'[q]
                          /\ owner'[q] \in callers.unregisters => drvP'[owner'[q]] = q
        BY DEF CurrentOnly
      <3>1. CASE q = p
        BY <2>3, <2>7, <3>1
      <3>2. CASE q # p
        <4>1. privOn[q] # None /\ owner'[q] = owner[q] /\ privOn'[q] = privOn[q]
          BY <2>6, <3>2
        <4>2. /\ owner[q] \in Drivers /\ drvP[owner[q]] \in Privs
              /\ <<owner[q], privOn[q]>> \in callers.registers
              /\ owner[drvP[owner[q]]] = owner[q]
              /\ owner[q] \in callers.unregisters => drvP[owner[q]] = q
          BY <4>1 DEF ApartInv, CurrentOnly, Inv, PrivTypes, DriverSide, PrivsOwned
        <4>3. CASE owner[q] = d
          BY <2>5, <2>7, <4>1, <4>2, <4>3
        <4>4. CASE owner[q] # d
          <5>1. drvP'[owner[q]] = drvP[owner[q]] /\ drvP[owner[q]] # p
            BY <2>2, <2>7, <4>2, <4>4
          <5> QED
            BY <2>6, <4>1, <4>2, <5>1
        <4> QED
          BY <4>3, <4>4
      <3> QED
        BY <3>1, <3>2
    <2>9. Listed'
      <3> SUFFICES ASSUME NEW e \in Drivers, registered'[e] > 0
                   PROVE  /\ owner'[drvP'[e]] = e /\ privOn'[drvP'[e]] # None
                          /\ e \in callers.unregisters => registered'[e] <= 1
        BY DEF Listed
      <3>1. CASE e = d
        <4>1. d \in callers.unregisters => ~(registered[d] > 0)
          BY <2>5 DEF ApartInv, Listed, Inv, PrivTypes, DriverSide, Counted
        <4>2. registered[d] \in Nat /\ registered'[d] = registered[d] + 1
          BY <2>1 DEF Inv, PrivTypes
        <4> QED
          BY <2>3, <2>7, <3>1, <4>1, <4>2
      <3>2. CASE e # d
        <4>1. /\ registered[e] > 0 /\ drvP'[e] = drvP[e] /\ drvP[e] # p
              /\ registered'[e] = registered[e]
          BY <2>2, <2>7, <3>2
        <4>2. drvP[e] \in Privs
          BY <4>1 DEF Inv, PrivTypes, DriverSide, Counted
        <4> QED
          BY <2>6, <4>1, <4>2 DEF ApartInv, Listed
      <3> QED
        BY <3>1, <3>2
    <2> QED
      BY <2>1, <2>8, <2>9 DEF ApartInv
  <1> QED
    BY <1>3, <1>4, <1>5, <1>6

LEMMA UnregisterApart ==
    ASSUME Inv, ApartInv, UNCHANGED callers, NEW d \in Drivers, DriverUnregister(d)
    PROVE  ApartInv'
  <1> DEFINE p == drvP[d]
  <1>1. registered[d] > 0 /\ d \in callers.unregisters
    BY DEF DriverUnregister
  <1>2. owner[p] = d /\ privOn[p] # None /\ p \in Privs
    BY <1>1 DEF ApartInv, Listed, Inv, PrivTypes, DriverSide, Counted
  <1>3. d # None /\ bus[privOn[p]] # "gone"
    BY <1>2, DriverModelAssumption DEF ApartInv, Inv, PrivTypes
  <1>4. ASSUME NEW i \in 1..Len(bound[p]) PROVE devDriver[bound[p][i]] = d
    <2>1. bound[p][i] \in Elems(bound[p])
      BY DEF Elems
    <2>2. bound[p][i] \in Devices /\ devAt[bound[p][i]] = p
      BY <1>2, <2>1 DEF Inv, DeviceSide, BoundLists
    <2>3. p # None
      BY <1>2, DriverModelAssumption
    <2> QED
      BY <1>2, <2>2, <2>3 DEF Inv, DeviceSide, BoundAgree
  <1>5. DriverRemove(d, p)
    BY <1>2, <1>3, <1>4 DEF DriverUnregister
  <1>6. /\ privOn' = [privOn EXCEPT ![p] = None]
        /\ owner' = [owner EXCEPT ![p] = None]
        /\ registered' = [registered EXCEPT ![d] = @ - 1]
        /\ UNCHANGED <<bus, drvP, fault>>
    BY <1>5 DEF DriverRemove
  <1>7. drvP[d] = p
    OBVIOUS
  <1> HIDE DEF p
  <1>8. CurrentOnly'
    <2> SUFFICES ASSUME NEW q \in Privs, privOn'[q] # None
                 PROVE  /\ <<owner'[q], privOn'[q]>> \in callers.registers
                        /\ owner'[drvP[owner'[q]]] = owner'[q]
                        /\ owner'[q] \in callers.unregisters => drvP[owner'[q]] = q
      BY <1>6 DEF CurrentOnly
    <2>1. q # p /\ owner'[q] = owner[q] /\ privOn'[q] = privOn[q]
      BY <1>2, <1>6 DEF Inv, PrivTypes
    <2>2. /\ owner[q] \in Drivers /\ drvP[owner[q]] \in Privs
          /\ <<owner[q], privOn[q]>> \in callers.registers
          /\ owner[drvP[owner[q]]] = owner[q]
          /\ owner[q] \in callers.unregisters => drvP[owner[q]] = q
      BY <2>1 DEF ApartInv, CurrentOnly, Inv, PrivTypes, DriverSide, PrivsOwned
    <2>3. owner[q] # d
      BY <1>1, <1>7, <2>1, <2>2
    <2>4. drvP[owner[q]] # p
      BY <1>2, <2>2, <2>3
    <2>5. owner'[drvP[owner[q]]] = owner[drvP[owner[q]]]
      BY <1>6, <2>2, <2>4 DEF Inv, PrivTypes
    <2> QED
      BY <2>1, <2>2, <2>5
  <1>9. Listed'
    <2> SUFFICES ASSUME NEW e \in Drivers, registered'[e] > 0
                 PROVE  /\ owner'[drvP[e]] = e /\ privOn'[drvP[e]] # None
                        /\ e \in callers.unregisters => registered'[e] <= 1
      BY <1>6 DEF Listed
    <2>1. CASE e = d
      <3>1. registered[d] <= 1 /\ registered[d] \in Nat /\ registered'[d] = registered[d] - 1
        BY <1>1, <1>6 DEF ApartInv, Listed, Inv, PrivTypes
      <3> QED
        BY <2>1, <3>1
    <2>2. CASE e # d
      <3>1. registered[e] > 0
        BY <1>6, <2>2 DEF Inv, PrivTypes
      <3>2. /\ owner[drvP[e]] = e /\ privOn[drvP[e]] # None /\ drvP[e] \in Privs
            /\ e \in callers.unregisters => registered[e] <= 1
            /\ registered'[e] = registered[e]
        BY <1>6, <2>2, <3>1 DEF ApartInv, Listed, Inv, PrivTypes, DriverSide, Counted
      <3>3. drvP[e] # p
        BY <1>2, <2>2, <3>2
      <3> QED
        BY <1>6, <3>2, <3>3 DEF Inv, PrivTypes
    <2> QED
      BY <2>1, <2>2
  <1> QED
    BY <1>6, <1>8, <1>9 DEF ApartInv

Apart == KeepApart(callers) => ApartInv

LEMMA ApartInit == Init => Apart
  BY DriverModelAssumption DEF Init, Apart, ApartInv, CurrentOnly, Listed

LEMMA ApartNext ==
    ASSUME Inv, Apart, [Next]_vars
    PROVE  Apart'
  <1>1. UNCHANGED callers
    BY DEF Next, vars
  <1> SUFFICES ASSUME KeepApart(callers), ApartInv PROVE ApartInv'
    BY <1>1 DEF Apart, KeepApart
  <1>2. CASE UNCHANGED vars
    BY <1>2, DriversStay DEF vars, busVars, driverVars
  <1>3. ASSUME NEW b \in Buses, BusRegister(b) \/ BusUnregister(b) PROVE ApartInv'
    <2>1. BusRegister(b)
      BY <1>3 DEF BusUnregister, KeepApart
    <2>2. /\ \A c \in Buses : bus'[c] # "gone"
          /\ UNCHANGED <<owner, privOn, drvP, registered, fault>>
      BY <2>1 DEF BusRegister, driverVars, ApartInv, Inv, BusTypes
    <2> QED
      BY <1>1, <2>2 DEF ApartInv, CurrentOnly, Listed
  <1>4. ASSUME NEW d \in Drivers, NEW b \in Buses, DriverRegister(d, b) PROVE ApartInv'
    BY <1>1, <1>4, RegisterApart
  <1>5. ASSUME NEW d \in Drivers, DriverUnregister(d) PROVE ApartInv'
    BY <1>1, <1>5, UnregisterApart
  <1>6. ASSUME NEW v \in Devices, NEW b \in Buses, NEW name, NEW accept, NEW lists,
               Attach(v, b, name, accept, lists),
               UNCHANGED <<bus, owner, drvP, registered, fault>>
        PROVE  ApartInv'
    <2> DEFINE at == Taker(b, name, accept)
    <2>1. at \in Nat
      BY TakerIs
    <2>2. IterationLeft(b, at)
      BY <1>6 DEF Attach, IterationLeft
    <2> HIDE DEF at
    <2>3. privOn' = privOn
      BY <2>1, <2>2, NoneUnlinked DEF ApartInv
    <2> QED
      BY <1>1, <1>6, <2>3, DriversStay
  <1>7. ASSUME NEW v \in Devices, NEW b \in Buses, DeviceCreate(v, b) PROVE ApartInv'
    <2>1. CASE CreateFull(v)
      BY <1>1, <2>1, DriversStay DEF CreateFull, busVars, driverVars
    <2>2. ASSUME NEW name, NEW accept, CreateAttached(v, b, name, accept) PROVE ApartInv'
      BY <1>6, <2>2 DEF CreateAttached
    <2>3. \A name, accept : ~AttachFaults(b, name, accept)
      BY NoAttachFault DEF ApartInv
    <2> QED
      BY <1>7, <2>1, <2>2, <2>3 DEF DeviceCreate
  <1>8. ASSUME NEW v \in Devices, DeviceDestroy(v) PROVE FALSE
    BY <1>8 DEF DeviceDestroy, KeepApart
  <1>9. ASSUME NEW v \in Devices, DeviceReprobe(v) PROVE ApartInv'
    <2> DEFINE b == devBus[v]
    <2>1. b \in Buses
      BY <1>9 DEF DeviceReprobe, Inv, DeviceTypes, DeviceSide, OnlyLive
    <2>2. \A name, accept : ~AttachFaults(b, name, accept)
      BY <2>1, NoAttachFault DEF ApartInv
    <2>3. PICK accept, lists : /\ Attach(v, b, wants[v], accept, lists)
                               /\ UNCHANGED <<bus, owner, drvP, registered>>
      BY <1>9, <2>2 DEF DeviceReprobe
    <2>4. UNCHANGED fault
      BY <1>9, <2>2 DEF DeviceReprobe
    <2> HIDE DEF b
    <2> QED
      BY <1>6, <2>1, <2>3, <2>4
  <1>10. ASSUME NEW v \in Devices, DeviceFind(v) PROVE ApartInv'
    BY <1>1, <1>10, DriversStay DEF DeviceFind, driverVars
  <1> QED
    BY <1>2, <1>3, <1>4, <1>5, <1>7, <1>8, <1>9, <1>10 DEF Next, Call

\* With one driver on each bus, no driver of several buses unregistered, and no bus and no
\* device taken down, which is how main.c calls it, no call follows a null pointer, uses freed
\* memory or runs for ever, and a registered driver is found on its bus until it is
\* unregistered (core.c, bus.c, device_driver.c, wlist.c).
THEOREM KeepingApartIsSound == Spec => []SoundWhenApart
  <1>1. Apart => SoundWhenApart
    BY DEF Apart, ApartInv, Listed, SoundWhenApart, NoFault, DriverStaysListed
  <1> QED
    BY <1>1, ApartInit, ApartNext, Invariance, PTL DEF Spec

=============================================================================
