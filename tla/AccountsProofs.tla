--------------------------- MODULE AccountsProofs ---------------------------
(***************************************************************************)
(* Theorems about Accounts, for any number of callers, processes, names,   *)
(* slots and events.                                                       *)
(***************************************************************************)
EXTENDS Accounts, FiniteSetTheorems, FunctionTheorems, SequenceTheorems, WellFoundedInduction, TLAPS

\* Who writes has a verdict on the password.
Decided == \A c \in Callers : caller[c].pc = "writing" => caller[c].outcome # "none"

FailedIn(events) == {i \in DOMAIN events : IsFailedLogin(events[i])}

\* places says which event of past each event of the log is: they are in order, every
\* event but failed logins is there, and the failed logins that are not are older than
\* those that are, of which there are MaxFailures then.
Places(events, places, all) ==
    /\ places \in [DOMAIN events -> DOMAIN all]
    /\ \A k, l \in DOMAIN events : k < l => places[k] < places[l]
    /\ \A k \in DOMAIN events : events[k] = all[places[k]]
    /\ Cardinality(FailedIn(events)) <= MaxFailures
    /\ \A i \in DOMAIN all :
        \/ \E k \in DOMAIN events : places[k] = i
        \/ /\ i \in FailedIn(all) /\ Cardinality(FailedIn(events)) = MaxFailures
           /\ \A k \in FailedIn(events) : i < places[k]

LogOK ==
    /\ \E places \in [DOMAIN log -> DOMAIN past] : Places(log, places, past)
    /\ \A name \in users : \E i \in DOMAIN past : past[i] = Created(name)

IInv == TypeOK /\ Decided /\ OneAdministrator /\ LogOK

-----------------------------------------------------------------------------
(* The slots *)

LEMMA HashingFinite ==
    ASSUME NEW p \in Processes
    PROVE  IsFiniteSet(Hashing(p)) /\ Cardinality(Hashing(p)) \in Nat
<1>1. Hashing(p) \subseteq Callers
  BY DEF Hashing
<1> QED BY <1>1, AccountsAssumption, FS_Subset, FS_CardinalityType

\* Steps that let nobody begin or end hashing.
LEMMA SlotsKept ==
    ASSUME TypeOK, UNCHANGED slots,
           \A c \in Callers : caller'[c].pc = "hashing" <=> caller[c].pc = "hashing"
    PROVE  /\ slots' \in [Processes -> 0..Slots]
           /\ \A p \in Processes : slots'[p] = Cardinality(Hashing(p)')
<1>1. ASSUME NEW p \in Processes PROVE Hashing(p)' = Hashing(p)
  BY DEF Hashing
<1> QED BY <1>1 DEF TypeOK

\* A caller begins to hash and takes a slot.
LEMMA SlotTaken ==
    ASSUME TypeOK, NEW c \in Callers, AcquireSlot(c)
    PROVE  /\ slots' \in [Processes -> 0..Slots]
           /\ \A p \in Processes : slots'[p] = Cardinality(Hashing(p)')
<1> DEFINE o == ProcessOf[c]
<1>1. /\ o \in Processes /\ caller[c].pc = "waiting" /\ slots[o] < Slots
      /\ slots' = [slots EXCEPT ![o] = @ + 1] /\ slots[o] \in Nat /\ Slots \in Nat
  <2>1. o \in Processes /\ Slots \in Nat
    BY AccountsAssumption
  <2>2. slots[o] \in Nat
    BY <2>1 DEF TypeOK
  <2> QED BY <2>1, <2>2 DEF AcquireSlot
<1>2. caller'[c].pc = "hashing" /\ \A d \in Callers \ {c} : caller'[d] = caller[d]
  <2>1. caller[c] \in Tasks
    BY <1>1 DEF TypeOK, AtRest
  <2> QED BY <2>1 DEF AcquireSlot, TypeOK, Tasks
<1>3. Hashing(o)' = Hashing(o) \cup {c} /\ c \notin Hashing(o)
  BY <1>1, <1>2 DEF Hashing
<1>4. Cardinality(Hashing(o)') = Cardinality(Hashing(o)) + 1
  BY <1>1, <1>3, HashingFinite, FS_AddElement
<1>5. \A p \in Processes \ {o} : Hashing(p)' = Hashing(p)
  BY <1>1, <1>2 DEF Hashing
<1> QED BY <1>1, <1>4, <1>5 DEF TypeOK

\* A caller ends hashing and gives its slot back.
LEMMA SlotGivenBack ==
    ASSUME TypeOK, NEW c \in Callers, caller[c].pc = "hashing", ReleaseSlot(c),
           caller'[c].pc # "hashing", \A d \in Callers \ {c} : caller'[d] = caller[d]
    PROVE  /\ slots' \in [Processes -> 0..Slots]
           /\ \A p \in Processes : slots'[p] = Cardinality(Hashing(p)')
<1> DEFINE o == ProcessOf[c]
<1>1. /\ o \in Processes /\ slots' = [slots EXCEPT ![o] = @ - 1]
      /\ slots[o] \in 0..Slots /\ Slots \in Nat /\ slots[o] = Cardinality(Hashing(o))
  BY AccountsAssumption DEF ReleaseSlot, TypeOK
<1>2. Hashing(o)' = Hashing(o) \ {c} /\ c \in Hashing(o)
  BY <1>1 DEF Hashing
<1>3. Cardinality(Hashing(o)') = Cardinality(Hashing(o)) - 1 /\ slots[o] > 0
  <2>1. IsFiniteSet(Hashing(o)) /\ Cardinality(Hashing(o)) \in Nat
    BY <1>1, HashingFinite
  <2>2. Cardinality(Hashing(o) \ {c}) = Cardinality(Hashing(o)) - 1
    BY <1>2, <2>1, FS_RemoveElement
  <2>3. Cardinality(Hashing(o)) # 0
    BY <1>2, <2>1, FS_EmptySet
  <2> QED BY <1>1, <1>2, <2>1, <2>2, <2>3
<1>4. \A p \in Processes \ {o} : Hashing(p)' = Hashing(p)
  BY <1>1 DEF Hashing
<1> QED BY <1>1, <1>3, <1>4 DEF TypeOK

\* The slots of a process that ends are gone.
LEMMA SlotsGone ==
    ASSUME TypeOK, NEW p \in Processes, End(p)
    PROVE  /\ slots' \in [Processes -> 0..Slots]
           /\ \A q \in Processes : slots'[q] = Cardinality(Hashing(q)')
<1>1. Hashing(p)' = {} /\ Slots \in Nat
  BY AccountsAssumption DEF End, Hashing, AtRest
<1>2. \A q \in Processes \ {p} : Hashing(q)' = Hashing(q)
  BY DEF End, Hashing, AtRest
<1>3. slots' = [slots EXCEPT ![p] = 0]
  BY DEF End
<1>4. Cardinality(Hashing(p)') = 0 /\ 0 \in 0..Slots
  BY <1>1, FS_EmptySet
<1> QED BY <1>2, <1>3, <1>4 DEF TypeOK

-----------------------------------------------------------------------------
(* The audit log *)

\* Where failed logins are in a log.
LEMMA FailedType ==
    ASSUME NEW events \in Seq(Events)
    PROVE  /\ IsFiniteSet(FailedIn(events)) /\ Cardinality(FailedIn(events)) \in Nat
           /\ Len(events) \in Nat /\ DOMAIN events = 1..Len(events)
           /\ FailedIn(events) \subseteq 1..Len(events)
           /\ FailedIn(events) = {i \in DOMAIN events : Prunable(events[i])}
<1>1. Len(events) \in Nat /\ DOMAIN events = 1..Len(events)
  BY LenProperties
<1>2. IsFiniteSet(1..Len(events)) /\ FailedIn(events) \subseteq 1..Len(events)
  BY <1>1, FS_Interval DEF FailedIn
<1> QED
  BY <1>1, <1>2, FS_Subset, FS_CardinalityType DEF FailedIn, Prunable

\* The oldest failed login.
LEMMA Oldest ==
    ASSUME NEW S \in SUBSET Nat, S # {}
    PROVE  LET oldest == CHOOSE i \in S : \A j \in S : i <= j
           IN  oldest \in S /\ \A j \in S : oldest <= j
<1>1. \E i \in S : \A j \in S : ~(<<j, i>> \in OpToRel(<, Nat))
  BY NatLessThanWellFounded, WFMin
<1>2. ASSUME NEW i \in Nat, NEW j \in Nat, ~(<<j, i>> \in OpToRel(<, Nat))
      PROVE  i <= j
  <2>1. ~(j < i)
    BY <1>2 DEF OpToRel
  <2> QED BY <2>1
<1>3. \E i \in S : \A j \in S : i <= j
  BY <1>1, <1>2
<1> QED BY <1>3

\* Pruning takes the oldest failed login out if there are too many.
LEMMA Pruned ==
    ASSUME NEW events \in Seq(Events)
    PROVE  /\ Cardinality(FailedIn(events)) <= MaxFailures => Prune(events) = events
           /\ Cardinality(FailedIn(events)) > MaxFailures =>
                \E o \in FailedIn(events) :
                    /\ \A i \in FailedIn(events) : o <= i
                    /\ Prune(events) \in Seq(Events)
                    /\ Len(Prune(events)) = Len(events) - 1
                    /\ \A k \in 1..Len(events) - 1 :
                        Prune(events)[k] = IF k < o THEN events[k] ELSE events[k + 1]
<1> DEFINE failed == {i \in DOMAIN events : Prunable(events[i])}
           oldest == CHOOSE i \in failed : \A j \in failed : i <= j
<1>1. /\ failed = FailedIn(events) /\ failed \in SUBSET Nat /\ Cardinality(failed) \in Nat
      /\ failed \subseteq 1..Len(events) /\ Len(events) \in Nat /\ MaxFailures \in Nat
  <2>1. failed = FailedIn(events)
    BY FailedType
  <2> HIDE DEF failed
  <2> QED BY <2>1, FailedType, AccountsAssumption
<1>2. CASE Cardinality(failed) <= MaxFailures
  <2>1. Prune(events) = events
    BY <1>2 DEF Prune
  <2> HIDE DEF failed
  <2> QED BY <1>1, <1>2, <2>1
<1>3. CASE ~(Cardinality(failed) <= MaxFailures)
  <2>1. failed # {}
    <3> HIDE DEF failed
    <3>1. Cardinality({}) = 0 /\ MaxFailures \in Nat
      BY FS_EmptySet, AccountsAssumption
    <3> QED BY <1>3, <3>1
  <2>2. oldest \in failed /\ \A j \in failed : oldest <= j
    <3> HIDE DEF failed
    <3> QED BY <1>1, <2>1, Oldest
  <2>3. Prune(events) =
            SubSeq(events, 1, oldest - 1) \o SubSeq(events, oldest + 1, Len(events))
    BY <1>3 DEF Prune
  <2>4. oldest \in 1..Len(events)
    BY <1>1, <2>2
  <2> HIDE DEF oldest, failed
  <2> DEFINE front == SubSeq(events, 1, oldest - 1)
             back  == SubSeq(events, oldest + 1, Len(events))
  <2>5. /\ front \in Seq(Events) /\ Len(front) = oldest - 1
        /\ \A k \in 1..oldest - 1 : front[k] = events[k]
        /\ back \in Seq(Events) /\ Len(back) = Len(events) - oldest
        /\ \A k \in 1..Len(events) - oldest : back[k] = events[oldest + k]
    BY <1>1, <2>4
  <2> HIDE DEF front, back
  <2>6. /\ front \o back \in Seq(Events)
        /\ Len(front \o back) = Len(front) + Len(back)
        /\ \A k \in 1..Len(front) + Len(back) :
            (front \o back)[k] = IF k <= Len(front) THEN front[k] ELSE back[k - Len(front)]
    BY <2>5, ConcatProperties
  <2>7. Len(front \o back) = Len(events) - 1
    BY <1>1, <2>4, <2>5, <2>6
  <2>8. ASSUME NEW k \in 1..Len(events) - 1
        PROVE  (front \o back)[k] = IF k < oldest THEN events[k] ELSE events[k + 1]
    <3>1. CASE k < oldest
      <4>1. k \in 1..oldest - 1 /\ k <= Len(front) /\ k \in 1..Len(front) + Len(back)
        BY <1>1, <2>4, <2>5, <3>1
      <4> QED BY <2>5, <2>6, <3>1, <4>1
    <3>2. CASE ~(k < oldest)
      <4>1. /\ k - Len(front) \in 1..Len(events) - oldest /\ ~(k <= Len(front))
            /\ k \in 1..Len(front) + Len(back) /\ oldest + (k - Len(front)) = k + 1
        BY <1>1, <2>4, <2>5, <3>2
      <4>2. (front \o back)[k] = back[k - Len(front)]
        BY <2>6, <4>1
      <4>3. back[k - Len(front)] = events[oldest + (k - Len(front))]
        BY <2>5, <4>1
      <4> QED BY <3>2, <4>1, <4>2, <4>3
    <3> QED BY <3>1, <3>2
  <2>9. Prune(events) = front \o back
    BY <2>3 DEF front, back
  <2>10. ~(Cardinality(failed) <= MaxFailures) /\ oldest \in FailedIn(events)
         /\ \A i \in FailedIn(events) : oldest <= i
    BY <1>1, <1>3, <2>2
  <2> QED BY <1>1, <2>6, <2>7, <2>8, <2>9, <2>10
<1> QED BY <1>2, <1>3

\* An event more in the history and in the log, before old ones are pruned: Places but for
\* one failed login too many.
Draft(events, e, L, more, A) ==
    /\ L \in Seq(Events) /\ A \in Seq(Events)
    /\ more \in [DOMAIN L -> DOMAIN A]
    /\ \A k, l \in DOMAIN L : k < l => more[k] < more[l]
    /\ \A k \in DOMAIN L : L[k] = A[more[k]]
    /\ FailedIn(L) = FailedIn(events) \cup (IF IsFailedLogin(e) THEN {Len(events) + 1} ELSE {})
    /\ Cardinality(FailedIn(L)) =
         Cardinality(FailedIn(events)) + (IF IsFailedLogin(e) THEN 1 ELSE 0)
    /\ \A i \in DOMAIN A :
         \/ \E k \in DOMAIN L : more[k] = i
         \/ /\ i \in FailedIn(A) /\ Cardinality(FailedIn(events)) = MaxFailures
            /\ \A k \in FailedIn(L) : i < more[k]

LEMMA PlacesAppend ==
    ASSUME NEW events \in Seq(Events), NEW all \in Seq(Events), NEW e \in Events,
           NEW places, Places(events, places, all),
           NEW L, L = Append(events, e), NEW A, A = Append(all, e)
    PROVE  \E more : Draft(events, e, L, more, A)
<1> DEFINE m == Len(events)
           n == Len(all)
           more == [k \in 1..m + 1 |-> IF k <= m THEN places[k] ELSE n + 1]
<1>1. /\ m \in Nat /\ n \in Nat /\ DOMAIN events = 1..m /\ DOMAIN all = 1..n
      /\ L \in Seq(Events) /\ A \in Seq(Events) /\ Len(L) = m + 1 /\ Len(A) = n + 1
      /\ DOMAIN L = 1..m + 1 /\ DOMAIN A = 1..n + 1
      /\ \A k \in 1..m : L[k] = events[k]
      /\ \A i \in 1..n : A[i] = all[i]
      /\ L[m + 1] = e /\ A[n + 1] = e
  BY AppendProperties, LenProperties
<1>2. \A k \in 1..m : places[k] \in 1..n
  BY <1>1 DEF Places
<1>3. \A k \in 1..m : k \in 1..m + 1 /\ k <= m
  BY <1>1
<1>4. (\A k \in 1..m : more[k] = places[k]) /\ more[m + 1] = n + 1
  BY <1>1, <1>3
<1>5. \A k \in 1..m + 1 : k \in 1..m \/ k = m + 1
  BY <1>1
<1>6. more \in [1..m + 1 -> 1..n + 1]
  <2>1. \A k \in 1..m + 1 : more[k] \in 1..n + 1
    <3> HIDE DEF more
    <3> QED BY <1>1, <1>2, <1>4, <1>5
  <2> QED BY <2>1
<1> HIDE DEF more
<1>7. ASSUME NEW k \in 1..m + 1, NEW l \in 1..m + 1, k < l PROVE more[k] < more[l]
  <2>1. k \in 1..m /\ more[k] = places[k] /\ places[k] \in 1..n
    BY <1>1, <1>2, <1>4, <1>7
  <2>2. CASE l \in 1..m
    BY <1>1, <1>4, <1>7, <2>1, <2>2 DEF Places
  <2>3. CASE l = m + 1
    BY <1>1, <1>4, <2>1, <2>3
  <2> QED BY <1>5, <2>2, <2>3
<1>8. ASSUME NEW k \in 1..m + 1 PROVE L[k] = A[more[k]]
  <2>1. CASE k \in 1..m
    <3>1. L[k] = events[k] /\ more[k] = places[k] /\ events[k] = all[places[k]]
      BY <1>1, <1>4, <2>1 DEF Places
    <3>2. A[places[k]] = all[places[k]]
      BY <1>1, <1>2, <2>1
    <3> QED BY <3>1, <3>2
  <2>2. CASE k = m + 1
    BY <1>1, <1>4, <2>2
  <2> QED BY <1>5, <2>1, <2>2
<1>9. FailedIn(L) = FailedIn(events) \cup (IF IsFailedLogin(e) THEN {m + 1} ELSE {})
  BY <1>1, <1>3, <1>5 DEF FailedIn
<1>10. /\ FailedIn(events) \subseteq 1..m /\ m + 1 \notin FailedIn(events)
       /\ IsFiniteSet(FailedIn(events)) /\ Cardinality(FailedIn(events)) \in Nat
  BY <1>1, FailedType
<1>11. Cardinality(FailedIn(L)) =
            Cardinality(FailedIn(events)) + (IF IsFailedLogin(e) THEN 1 ELSE 0)
  <2>1. CASE IsFailedLogin(e)
    <3>1. FailedIn(L) = FailedIn(events) \cup {m + 1}
      BY <1>9, <2>1
    <3> QED BY <1>10, <2>1, <3>1, FS_AddElement
  <2>2. CASE ~IsFailedLogin(e)
    <3>1. FailedIn(L) = FailedIn(events)
      BY <1>9, <2>2
    <3> QED BY <1>10, <2>2, <3>1
  <2> QED BY <2>1, <2>2
<1>12. ASSUME NEW i \in 1..n + 1
       PROVE  \/ \E k \in 1..m + 1 : more[k] = i
              \/ /\ i \in FailedIn(A) /\ Cardinality(FailedIn(events)) = MaxFailures
                 /\ \A k \in FailedIn(L) : i < more[k]
  <2>1. CASE i = n + 1
    <3>1. m + 1 \in 1..m + 1
      BY <1>1
    <3> QED BY <1>4, <2>1, <3>1
  <2>2. CASE i \in 1..n
    <3>1. CASE \E k \in 1..m : places[k] = i
      BY <1>3, <1>4, <3>1
    <3>2. CASE ~ \E k \in 1..m : places[k] = i
      <4>1. /\ i \in FailedIn(all) /\ Cardinality(FailedIn(events)) = MaxFailures
            /\ \A k \in FailedIn(events) : i < places[k]
        BY <1>1, <2>2, <3>2 DEF Places
      <4>2. i \in FailedIn(A)
        BY <1>1, <2>2, <4>1 DEF FailedIn
      <4>3. \A k \in FailedIn(events) : i < more[k]
        BY <1>4, <1>10, <4>1
      <4>4. i < more[m + 1]
        BY <1>1, <1>4, <2>2
      <4>5. \A k \in FailedIn(L) : k \in FailedIn(events) \/ k = m + 1
        BY <1>9
      <4> QED BY <4>1, <4>2, <4>3, <4>4, <4>5
    <3> QED BY <3>1, <3>2
  <2>3. i = n + 1 \/ i \in 1..n
    BY <1>1
  <2> QED BY <2>1, <2>2, <2>3
<1> QED
  BY <1>1, <1>6, <1>7, <1>8, <1>9, <1>11, <1>12 DEF Draft

\* The oldest failed login of too many is pruned.
LEMMA PlacesPruned ==
    ASSUME NEW L \in Seq(Events), NEW A \in Seq(Events),
           NEW more \in [DOMAIN L -> DOMAIN A],
           \A k, l \in DOMAIN L : k < l => more[k] < more[l],
           \A k \in DOMAIN L : L[k] = A[more[k]],
           Cardinality(FailedIn(L)) = MaxFailures + 1,
           \A i \in DOMAIN A :
              \/ \E k \in DOMAIN L : more[k] = i
              \/ i \in FailedIn(A) /\ \A k \in FailedIn(L) : i < more[k]
    PROVE  /\ Prune(L) \in Seq(Events)
           /\ \E places : Places(Prune(L), places, A)
<1> DEFINE P == Prune(L)
           m == Len(L) - 1
<1>1. /\ MaxFailures \in Nat /\ Len(L) \in Nat /\ DOMAIN L = 1..Len(L)
      /\ IsFiniteSet(FailedIn(L)) /\ FailedIn(L) \subseteq 1..Len(L)
      /\ Cardinality(FailedIn(L)) > MaxFailures
      /\ \A i \in DOMAIN A : i \in Nat
  BY AccountsAssumption, FailedType, LenProperties
<1>2. PICK o \in FailedIn(L) :
        /\ \A i \in FailedIn(L) : o <= i
        /\ P \in Seq(Events)
        /\ Len(P) = m
        /\ \A k \in 1..m : P[k] = IF k < o THEN L[k] ELSE L[k + 1]
  BY <1>1, Pruned
<1>3. o \in 1..Len(L) /\ m \in Nat /\ DOMAIN P = 1..m
  BY <1>1, <1>2, LenProperties
<1> HIDE DEF P
\* Where the events that remain were.
<1> DEFINE was(k) == IF k < o THEN k ELSE k + 1
           places == [k \in 1..m |-> more[was(k)]]
<1>4. \A k \in 1..m : was(k) \in 1..Len(L) /\ was(k) # o /\ P[k] = L[was(k)]
  BY <1>1, <1>2, <1>3
<1>5. \A k, l \in 1..m : k < l => was(k) < was(l)
  BY <1>1, <1>3
<1>6. ASSUME NEW i \in 1..Len(L), i # o PROVE \E k \in 1..m : was(k) = i
  <2>1. CASE i < o
    <3>1. i \in 1..m
      BY <1>1, <1>3, <2>1
    <3> QED BY <2>1, <3>1
  <2>2. CASE ~(i < o)
    <3>1. i - 1 \in 1..m /\ ~(i - 1 < o) /\ (i - 1) + 1 = i
      BY <1>1, <1>3, <1>6, <2>2
    <3> QED BY <3>1
  <2> QED BY <2>1, <2>2
<1> HIDE DEF was
<1>7. places \in [DOMAIN P -> DOMAIN A] /\ \A k \in 1..m : places[k] = more[was(k)]
  BY <1>1, <1>3, <1>4
<1> HIDE DEF places
<1>8. ASSUME NEW k \in DOMAIN P, NEW l \in DOMAIN P, k < l PROVE places[k] < places[l]
  <2>1. k \in 1..m /\ l \in 1..m
    BY <1>3
  <2>2. was(k) \in DOMAIN L /\ was(l) \in DOMAIN L /\ was(k) < was(l)
    BY <1>1, <1>4, <1>5, <1>8, <2>1
  <2> QED BY <1>7, <2>1, <2>2
<1>9. \A k \in DOMAIN P : P[k] = A[places[k]]
  BY <1>1, <1>3, <1>4, <1>7
<1>10. \A k \in 1..m : k \in FailedIn(P) <=> was(k) \in FailedIn(L) \ {o}
  BY <1>1, <1>3, <1>4 DEF FailedIn
<1>11. Cardinality(FailedIn(P)) = MaxFailures
  <2> DEFINE f == [k \in FailedIn(P) |-> was(k)]
             S == FailedIn(P)
             T == FailedIn(L) \ {o}
  <2>1. S \subseteq 1..m /\ T \subseteq 1..Len(L) /\ o \notin T
    BY <1>1, <1>2, <1>3, FailedType
  <2> HIDE DEF S, T
  <2>2. IsFiniteSet(T) /\ Cardinality(T) = MaxFailures
    <3>1. /\ IsFiniteSet(FailedIn(L) \ {o})
          /\ Cardinality(FailedIn(L) \ {o}) = (MaxFailures + 1) - 1
      BY <1>1, <1>2, FS_RemoveElement
    <3>2. (MaxFailures + 1) - 1 = MaxFailures
      BY <1>1
    <3> QED BY <3>1, <3>2 DEF T
  <2>3. f \in [S -> T]
    BY <1>10, <2>1 DEF S, T
  <2>4. \A k, l \in S : f[k] = f[l] => k = l
    <3>1. \A k, l \in S : was(k) = was(l) => k = l
      <4>1. \A k, l \in S : /\ k < l \/ l < k \/ k = l
                            /\ was(k) \in Nat /\ was(l) \in Nat
                            /\ (k < l => was(k) < was(l)) /\ (l < k => was(l) < was(k))
        BY <1>4, <1>5, <2>1
      <4> QED BY <4>1
    <3> QED BY <3>1 DEF S
  <2>5. \A t \in T : \E k \in S : f[k] = t
    BY <1>6, <1>10, <2>1 DEF S, T
  <2> HIDE DEF f
  <2>6. f \in Bijection(S, T)
    BY <2>3, <2>4, <2>5, Fun_IsBij
  <2>7. IsFiniteSet(S)
    BY <1>2, FailedType DEF S
  <2>8. Cardinality(T) = Cardinality(S)
    BY <2>6, <2>7, FS_Bijection, Fun_ExistsBij
  <2> QED BY <2>2, <2>8 DEF S
<1>12. ASSUME NEW i \in DOMAIN A, ~ \E k \in DOMAIN P : places[k] = i
       PROVE  i \in FailedIn(A) /\ \A k \in FailedIn(P) : i < places[k]
  <2>1. CASE \E k \in DOMAIN L : more[k] = i
    <3>1. PICK l \in DOMAIN L : more[l] = i
      BY <2>1
    <3>2. l = o
      BY <1>1, <1>3, <1>6, <1>7, <1>12, <3>1
    <3>3. i \in FailedIn(A)
      BY <1>2, <3>1, <3>2 DEF FailedIn
    <3>4. ASSUME NEW k \in FailedIn(P) PROVE i < places[k]
      <4>1. k \in 1..m /\ was(k) \in FailedIn(L) /\ was(k) # o
        BY <1>3, <1>4, <1>10 DEF FailedIn
      <4>2. o < was(k)
        BY <1>1, <1>2, <1>3, <1>4, <4>1
      <4> QED BY <1>1, <1>4, <1>7, <3>1, <3>2, <4>1, <4>2
    <3> QED BY <3>3, <3>4
  <2>2. CASE i \in FailedIn(A) /\ \A k \in FailedIn(L) : i < more[k]
    <3>1. ASSUME NEW k \in FailedIn(P) PROVE i < places[k]
      <4>1. k \in 1..m /\ was(k) \in FailedIn(L)
        BY <1>3, <1>10 DEF FailedIn
      <4> QED BY <1>7, <2>2, <4>1
    <3> QED BY <2>2, <3>1
  <2> QED BY <2>1, <2>2
<1>13. Cardinality(FailedIn(P)) <= MaxFailures
  BY <1>1, <1>11
<1>14. Places(P, places, A)
  BY <1>7, <1>8, <1>9, <1>11, <1>12, <1>13 DEF Places
<1> QED BY <1>2, <1>14 DEF P

\* Steps that log nothing.
LEMMA LogStays == ASSUME LogOK, UNCHANGED <<users, log, past>> PROVE LogOK'
  BY DEF LogOK

\* One event is logged, and old failed logins are pruned if it is one more.
LEMMA Logged ==
    ASSUME TypeOK, LogOK, NEW e \in Events, past' = Append(past, e),
           log' = IF IsFailedLogin(e) THEN Prune(Append(log, e)) ELSE Append(log, e),
           \A name \in users' : name \in users \/ e = Created(name)
    PROVE  log' \in Seq(Events) /\ LogOK'
<1> DEFINE L == Append(log, e)
           A == Append(past, e)
<1>1. log \in Seq(Events) /\ past \in Seq(Events) /\ MaxFailures \in Nat
  BY AccountsAssumption DEF TypeOK
<1>2. PICK places : Places(log, places, past)
  BY DEF LogOK
<1>3. /\ Cardinality(FailedIn(log)) \in Nat /\ Cardinality(FailedIn(log)) <= MaxFailures
  BY <1>1, <1>2, FailedType DEF Places
<1>4. PICK more : Draft(log, e, L, more, A)
  BY <1>1, <1>2, PlacesAppend
<1> HIDE DEF L, A
<1>5. log' \in Seq(Events) /\ \E p : Places(log', p, A)
  <2>1. CASE ~IsFailedLogin(e)
    <3>1. log' = L /\ FailedIn(L) = FailedIn(log)
      BY <1>4, <2>1 DEF L, Draft
    <3>2. Places(L, more, A)
      BY <1>3, <1>4, <3>1 DEF Places, Draft
    <3> QED BY <1>4, <3>1, <3>2 DEF Draft
  <2>2. CASE IsFailedLogin(e) /\ Cardinality(FailedIn(log)) < MaxFailures
    <3>1. Cardinality(FailedIn(L)) <= MaxFailures
      <4>1. Cardinality(FailedIn(L)) = Cardinality(FailedIn(log)) + 1
        BY <1>4, <2>2 DEF Draft
      <4> QED BY <1>1, <1>3, <2>2, <4>1
    <3>2. log' = L
      BY <1>4, <2>2, <3>1, Pruned DEF L, Draft
    <3>3. \A i \in DOMAIN A : \E k \in DOMAIN L : more[k] = i
      <4>1. Cardinality(FailedIn(log)) # MaxFailures
        BY <1>1, <1>3, <2>2
      <4> QED BY <1>4, <4>1, Zenon DEF Draft
    <3>4. Places(L, more, A)
      BY <1>4, <3>1, <3>3 DEF Places, Draft
    <3> QED BY <1>4, <3>2, <3>4 DEF Draft
  <2>3. CASE IsFailedLogin(e) /\ ~(Cardinality(FailedIn(log)) < MaxFailures)
    <3>1. Cardinality(FailedIn(L)) = MaxFailures + 1
      <4>1. Cardinality(FailedIn(L)) = Cardinality(FailedIn(log)) + 1
        BY <1>4, <2>3 DEF Draft
      <4> QED BY <1>1, <1>3, <2>3, <4>1
    <3>2. Prune(L) \in Seq(Events) /\ \E p : Places(Prune(L), p, A)
      BY <1>4, <3>1, PlacesPruned DEF Draft
    <3> QED BY <2>3, <3>2 DEF L
  <2> QED BY <2>1, <2>2, <2>3
<1>6. ASSUME NEW name \in users' PROVE \E i \in DOMAIN A : A[i] = Created(name)
  <2>1. /\ Len(A) = Len(past) + 1 /\ Len(past) \in Nat /\ DOMAIN A = 1..Len(past) + 1
        /\ DOMAIN past = 1..Len(past)
        /\ A[Len(past) + 1] = e /\ \A i \in 1..Len(past) : A[i] = past[i]
    BY <1>1, AppendProperties, LenProperties DEF A
  <2>2. CASE e = Created(name)
    <3>1. Len(past) + 1 \in DOMAIN A
      BY <2>1
    <3> QED BY <2>1, <2>2, <3>1
  <2>3. CASE name \in users
    <3>1. PICK i \in DOMAIN past : past[i] = Created(name)
      BY <2>3 DEF LogOK
    <3>2. i \in DOMAIN A /\ A[i] = Created(name)
      BY <2>1, <3>1
    <3> QED BY <3>2
  <2> QED BY <2>2, <2>3
<1>7. \E p \in [DOMAIN log' -> DOMAIN A] : Places(log', p, A)
  BY <1>5 DEF Places
<1> QED BY <1>5, <1>6, <1>7 DEF LogOK, A

\* Places tells different events apart.
LEMMA PlacesApart ==
    ASSUME TypeOK, NEW places, Places(log, places, past)
    PROVE  /\ \A k, l \in DOMAIN log : places[k] = places[l] => k = l
           /\ \A k, l \in DOMAIN log : k <= l <=> places[k] <= places[l]
           /\ DOMAIN log = 1..Len(log) /\ Len(log) \in Nat
           /\ DOMAIN past = 1..Len(past) /\ Len(past) \in Nat
           /\ \A k \in DOMAIN log : k \in FailedIn(log) <=> places[k] \in FailedIn(past)
<1>1. /\ DOMAIN log = 1..Len(log) /\ Len(log) \in Nat
      /\ DOMAIN past = 1..Len(past) /\ Len(past) \in Nat
  BY LenProperties DEF TypeOK
<1>2. \A k \in DOMAIN log : places[k] \in DOMAIN past /\ places[k] \in Nat /\ k \in Nat
  BY <1>1 DEF Places
<1>3. ASSUME NEW k \in DOMAIN log, NEW l \in DOMAIN log
      PROVE  /\ places[k] = places[l] => k = l
             /\ k <= l <=> places[k] <= places[l]
  <2>1. (k < l => places[k] < places[l]) /\ (l < k => places[l] < places[k])
    BY DEF Places
  <2> QED BY <1>2, <2>1
<1>4. \A k \in DOMAIN log : k \in FailedIn(log) <=> places[k] \in FailedIn(past)
  BY <1>2 DEF FailedIn, Places
<1> QED BY <1>1, <1>3, <1>4

\* A failed login is in the log exactly if fewer than MaxFailures are newer.
LEMMA NewestKept ==
    ASSUME TypeOK, NEW places, Places(log, places, past), NEW i \in FailedIn(past)
    PROVE  (\E k \in DOMAIN log : places[k] = i) <=>
               Cardinality({j \in FailedIn(past) : i < j}) < MaxFailures
<1> DEFINE newer == {j \in FailedIn(past) : i < j}
<1>1. /\ IsFiniteSet(FailedIn(log)) /\ Cardinality(FailedIn(log)) \in Nat
      /\ Cardinality(FailedIn(log)) <= MaxFailures /\ MaxFailures \in Nat
      /\ FailedIn(log) \subseteq DOMAIN log
  BY FailedType, AccountsAssumption DEF TypeOK, Places
<1>2. IsFiniteSet(newer) /\ Cardinality(newer) \in Nat
  <2>1. IsFiniteSet(FailedIn(past)) /\ newer \in SUBSET FailedIn(past)
    BY FailedType DEF TypeOK
  <2> QED BY <2>1, FS_Subset, FS_CardinalityType
<1>3. FailedIn(past) \subseteq DOMAIN past /\ \A j \in DOMAIN past : j \in Nat
  BY PlacesApart DEF FailedIn
<1>4. ASSUME NEW k \in DOMAIN log, places[k] = i PROVE Cardinality(newer) < MaxFailures
  <2> DEFINE others == {l \in FailedIn(log) : places[l] \in newer}
             f == [l \in others |-> places[l]]
  <2>1. k \in FailedIn(log)
    BY <1>4, PlacesApart
  <2>2. ASSUME NEW j \in newer PROVE \E l \in others : places[l] = j
    <3>1. j \in FailedIn(past) /\ i < j /\ j \in Nat /\ i \in Nat
      BY <1>3
    <3>2. \E l \in DOMAIN log : places[l] = j
      <4>1. ~(j < places[k])
        BY <1>4, <3>1
      <4> QED BY <1>3, <2>1, <3>1, <4>1 DEF Places
    <3> QED BY <3>1, <3>2, PlacesApart
  <2>3. others \subseteq FailedIn(log) \ {k}
    BY <1>3, <1>4
  <2>4. /\ IsFiniteSet(FailedIn(log) \ {k})
        /\ Cardinality(FailedIn(log) \ {k}) = Cardinality(FailedIn(log)) - 1
    BY <1>1, <2>1, FS_RemoveElement
  <2>5. /\ IsFiniteSet(others) /\ Cardinality(others) \in Nat
        /\ Cardinality(others) <= Cardinality(FailedIn(log)) - 1
    <3> HIDE DEF others
    <3>1. /\ IsFiniteSet(others)
          /\ Cardinality(others) <= Cardinality(FailedIn(log) \ {k})
      BY <2>3, <2>4, FS_Subset
    <3> QED BY <2>4, <3>1, FS_CardinalityType
  <2>6. f \in Surjection(others, newer)
    <3>1. f \in [others -> newer] /\ \A j \in newer : \E l \in others : f[l] = j
      BY <2>2
    <3> HIDE DEF f, others, newer
    <3> QED BY <3>1, Fun_IsSurj
  <2>7. Cardinality(newer) <= Cardinality(others)
    <3> HIDE DEF f, others, newer
    <3> QED BY <2>5, <2>6, FS_Surjection
  <2> HIDE DEF others, newer
  <2> QED BY <1>1, <1>2, <2>5, <2>7
<1>5. ASSUME ~ \E k \in DOMAIN log : places[k] = i PROVE ~(Cardinality(newer) < MaxFailures)
  <2> DEFINE f == [k \in FailedIn(log) |-> places[k]]
  <2>1. /\ Cardinality(FailedIn(log)) = MaxFailures
        /\ \A k \in FailedIn(log) : i < places[k]
    BY <1>3, <1>5 DEF Places
  <2>2. \A k \in FailedIn(log) : places[k] \in newer
    BY <1>1, <2>1, PlacesApart
  <2>3. f \in Injection(FailedIn(log), newer)
    <3>1. /\ f \in [FailedIn(log) -> newer]
          /\ \A k, l \in FailedIn(log) : f[k] = f[l] => k = l
      BY <1>1, <2>2, PlacesApart
    <3> HIDE DEF f, newer
    <3> QED BY <3>1, Fun_IsInj
  <2>4. Cardinality(FailedIn(log)) <= Cardinality(newer)
    <3> HIDE DEF f, newer
    <3> QED BY <1>2, <2>3, FS_Injection
  <2> HIDE DEF newer
  <2> QED BY <1>1, <1>2, <2>1, <2>4
<1> QED BY <1>4, <1>5

\* What LogOK says in terms of the history alone.
LEMMA KeptAudit == ASSUME TypeOK, LogOK PROVE AuditKept
<1> DEFINE failed == {i \in DOMAIN past : IsFailedLogin(past[i])}
           recent == {i \in failed : Cardinality({j \in failed : i < j}) < MaxFailures}
           kept   == (DOMAIN past \ failed) \cup recent
<1>1. PICK p : Places(log, p, past)
  BY DEF LogOK
<1>2. failed = FailedIn(past)
  BY DEF FailedIn
<1>3. /\ p \in [DOMAIN log -> DOMAIN past]
      /\ \A k \in DOMAIN log : log[k] = past[p[k]]
      /\ DOMAIN log = 1..Len(log) /\ Len(log) \in Nat
      /\ \A k, l \in DOMAIN log : p[k] = p[l] => k = l
      /\ \A k, l \in DOMAIN log : k <= l <=> p[k] <= p[l]
  BY <1>1, PlacesApart DEF Places
<1>4. ASSUME NEW i \in DOMAIN past PROVE i \in kept <=> \E k \in DOMAIN log : p[k] = i
  <2>1. CASE i \in failed
    <3>1. i \in kept <=> Cardinality({j \in failed : i < j}) < MaxFailures
      BY <2>1
    <3> HIDE DEF failed, kept
    <3> QED BY <1>1, <1>2, <2>1, <3>1, NewestKept
  <2>2. CASE i \notin failed
    <3>1. i \in kept
      BY <2>2
    <3>2. i \notin FailedIn(past)
      BY <1>2, <2>2
    <3> HIDE DEF failed, kept
    <3> QED BY <1>1, <3>1, <3>2 DEF Places
  <2> QED BY <2>1, <2>2
<1>5. kept \subseteq DOMAIN past
  OBVIOUS
<1> HIDE DEF kept
<1>6. Len(log) = Cardinality(kept)
  <2>1. /\ p \in [DOMAIN log -> kept]
        /\ \A i \in kept : \E k \in DOMAIN log : p[k] = i
    BY <1>3, <1>4, <1>5
  <2>2. p \in Bijection(DOMAIN log, kept)
    BY <1>3, <2>1, Fun_IsBij
  <2>3. IsFiniteSet(DOMAIN log) /\ Cardinality(DOMAIN log) = Len(log)
    <3>1. \A n \in Nat : IsFiniteSet(1..n) /\ Cardinality(1..n) = n
      BY FS_Interval
    <3> QED BY <1>3, <3>1, Zenon
  <2> QED BY <2>2, <2>3, FS_Bijection, Fun_ExistsBij
<1>7. ASSUME NEW i \in kept PROVE log[Cardinality({j \in kept : j <= i})] = past[i]
  <2>1. PICK k \in DOMAIN log : p[k] = i
    BY <1>4, <1>5
  <2> DEFINE upto == {j \in kept : j <= i}
             f == [l \in 1..k |-> p[l]]
  <2>2. k \in 1..Len(log) /\ k \in Nat /\ \A l \in 1..k : l \in DOMAIN log /\ l <= k
    BY <1>3
  <2>3. f \in [1..k -> upto] /\ \A l, m \in 1..k : f[l] = f[m] => l = m
    BY <1>3, <1>4, <2>1, <2>2
  <2>4. \A j \in upto : \E l \in 1..k : f[l] = j
    <3>1. ASSUME NEW j \in upto PROVE \E l \in 1..k : p[l] = j
      <4>1. PICK l \in DOMAIN log : p[l] = j
        BY <1>4, <1>5
      <4>2. l <= k /\ l \in 1..Len(log)
        BY <1>3, <2>1, <4>1
      <4> QED BY <2>2, <4>1, <4>2
    <3> QED BY <3>1
  <2>5. f \in Bijection(1..k, upto)
    <3> HIDE DEF f, upto
    <3> QED BY <2>3, <2>4, Fun_IsBij
  <2>6. Cardinality(upto) = k
    <3>1. IsFiniteSet(1..k) /\ Cardinality(1..k) = k
      BY <2>2, FS_Interval
    <3> HIDE DEF f, upto
    <3> QED BY <2>5, <3>1, FS_Bijection, Fun_ExistsBij
  <2> QED BY <1>3, <2>1, <2>6
<1>8. ASSUME NEW name \in users PROVE \E k \in DOMAIN log : log[k] = Created(name)
  <2>1. PICK i \in DOMAIN past : past[i] = Created(name)
    BY DEF LogOK
  <2>2. i \notin FailedIn(past)
    BY <2>1 DEF FailedIn, IsFailedLogin, Created
  <2>3. \E k \in DOMAIN log : p[k] = i
    BY <1>1, <2>2 DEF Places
  <2> QED BY <1>3, <2>1, <2>3
<1> QED BY <1>6, <1>7, <1>8 DEF AuditKept, kept

-----------------------------------------------------------------------------
(* The invariant is inductive *)

LEMMA Initial == Init => IInv
<1> SUFFICES ASSUME Init PROVE IInv
  OBVIOUS
<1>1. \A p \in Processes : Hashing(p) = {}
  BY DEF Init, Hashing, AtRest
<1>2. Cardinality({}) = 0 /\ 0 \in 0..Slots
  BY FS_EmptySet, AccountsAssumption
<1>3. TypeOK
  <2>1. slots \in [Processes -> 0..Slots] /\ \A p \in Processes : slots[p] = Cardinality(Hashing(p))
    BY <1>1, <1>2 DEF Init
  <2>2. log \in Seq(Events) /\ past \in Seq(Events)
    BY DEF Init
  <2> QED BY <2>1, <2>2 DEF Init, TypeOK
<1>4. Decided /\ OneAdministrator
  BY <1>2 DEF Init, Decided, AtRest, OneAdministrator
<1>5. LogOK
  <2>1. /\ log = <<>> /\ past = <<>> /\ users = {}
        /\ DOMAIN log = {} /\ DOMAIN past = {} /\ FailedIn(log) = {}
    BY DEF Init, FailedIn
  <2>2. Cardinality(FailedIn(log)) <= MaxFailures
    <3>1. MaxFailures \in Nat /\ Cardinality({}) = 0
      BY <1>2, AccountsAssumption
    <3>2. 0 <= MaxFailures
      BY <3>1
    <3>3. Cardinality(FailedIn(log)) = 0
      BY <2>1, <3>1, Zenon
    <3> QED BY <3>2, <3>3, Zenon
  <2>3. [k \in {} |-> 0] \in [DOMAIN log -> DOMAIN past]
    BY <2>1
  <2>4. Places(log, [k \in {} |-> 0], past)
    BY <2>1, <2>2, <2>3 DEF Places
  <2> QED BY <2>1, <2>3, <2>4 DEF LogOK
<1> QED BY <1>3, <1>4, <1>5 DEF IInv

\* What the types say of one caller that is at work.
LEMMA CallerType ==
    ASSUME TypeOK, NEW c \in Callers, caller[c].pc # "idle"
    PROVE  caller[c] \in Tasks
  BY DEF TypeOK, AtRest

\* Steps by which a caller leaves, without a slot.
LEMMA LeaveKeeps ==
    ASSUME TypeOK, Decided, NEW c \in Callers, Leave(c), caller[c].pc # "hashing",
           UNCHANGED slots, users' \in SUBSET Names, log' \in Seq(Events), past' \in Seq(Events)
    PROVE  TypeOK' /\ Decided'
<1>1. /\ caller' \in [Callers -> Tasks \cup {AtRest}]
      /\ caller'[c] = AtRest /\ \A d \in Callers \ {c} : caller'[d] = caller[d]
  BY DEF Leave, TypeOK
<1>2. \A d \in Callers : caller'[d].pc = "hashing" <=> caller[d].pc = "hashing"
  BY <1>1 DEF AtRest
<1>3. TypeOK'
  BY <1>1, <1>2, SlotsKept DEF TypeOK
<1>4. Decided'
  BY <1>1 DEF Decided, AtRest
<1> QED BY <1>3, <1>4

LEMMA TakeKeeps ==
    ASSUME IInv, NEW c \in Callers, caller[c].pc = "idle", NEW kind \in {"setup", "login"},
           NEW name \in Names, NEW user \in Names \cup {None}, Take(c, kind, name, user),
           UNCHANGED <<users, log, past, slots>>
    PROVE  IInv'
<1> DEFINE task == [pc |-> "waiting", kind |-> kind, name |-> name, user |-> user,
                    outcome |-> "none"]
<1>1. task \in Tasks /\ task.pc = "waiting"
  BY DEF Tasks
<1>2. /\ caller' \in [Callers -> Tasks \cup {AtRest}]
      /\ caller'[c] = task /\ \A d \in Callers \ {c} : caller'[d] = caller[d]
  BY <1>1 DEF Take, IInv, TypeOK
<1>3. \A d \in Callers : caller'[d].pc = "hashing" <=> caller[d].pc = "hashing"
  BY <1>1, <1>2
<1>4. TypeOK'
  BY <1>2, <1>3, SlotsKept DEF IInv, TypeOK
<1>5. Decided' /\ OneAdministrator'
  BY <1>1, <1>2 DEF IInv, Decided, OneAdministrator
<1> QED BY <1>4, <1>5, LogStays DEF IInv

LEMMA AcquireSlotKeeps == ASSUME IInv, NEW c \in Callers, AcquireSlot(c) PROVE IInv'
<1>1. caller[c] \in Tasks /\ UNCHANGED <<users, log, past>>
  BY CallerType DEF AcquireSlot, IInv
<1>2. /\ caller'[c] = [caller[c] EXCEPT !.pc = "hashing"]
      /\ \A d \in Callers \ {c} : caller'[d] = caller[d]
  BY DEF AcquireSlot, IInv, TypeOK
<1>3. [caller[c] EXCEPT !.pc = "hashing"] \in Tasks
  BY <1>1 DEF Tasks
<1>4. caller' \in [Callers -> Tasks \cup {AtRest}]
  BY <1>2, <1>3 DEF AcquireSlot, IInv, TypeOK
<1>5. TypeOK'
  BY <1>1, <1>4, SlotTaken DEF IInv, TypeOK
<1>6. Decided' /\ OneAdministrator'
  BY <1>1, <1>2 DEF IInv, Decided, OneAdministrator, Tasks
<1> QED BY <1>1, <1>5, <1>6, LogStays DEF IInv

LEMMA HashEndsKeeps == ASSUME IInv, NEW c \in Callers, HashEnds(c) PROVE IInv'
<1> PICK outcome \in {"success", "failure"} :
        caller' = [caller EXCEPT ![c].pc = "writing", ![c].outcome = outcome]
  BY DEF HashEnds
<1>1. /\ caller[c].pc = "hashing" /\ ReleaseSlot(c) /\ caller[c] \in Tasks
      /\ UNCHANGED <<users, log, past>>
  BY CallerType DEF HashEnds, IInv
<1>2. /\ caller'[c] = [caller[c] EXCEPT !.pc = "writing", !.outcome = outcome]
      /\ \A d \in Callers \ {c} : caller'[d] = caller[d]
  BY DEF IInv, TypeOK
<1>3. caller'[c] \in Tasks /\ caller'[c].pc = "writing" /\ caller'[c].outcome = outcome
  <2>1. outcome \in {"none", "success", "failure"}
    OBVIOUS
  <2>2. ASSUME NEW next, next = [caller[c] EXCEPT !.pc = "writing", !.outcome = outcome]
        PROVE  next \in Tasks /\ next.pc = "writing" /\ next.outcome = outcome
    BY <1>1, <2>1, <2>2 DEF Tasks
  <2> QED BY <1>2, <2>2
<1>4. caller' \in [Callers -> Tasks \cup {AtRest}]
  BY <1>3 DEF IInv, TypeOK
<1>5. TypeOK'
  BY <1>1, <1>2, <1>3, <1>4, SlotGivenBack DEF IInv, TypeOK
<1>6. Decided' /\ OneAdministrator'
  BY <1>1, <1>2, <1>3 DEF IInv, Decided, OneAdministrator
<1> QED BY <1>1, <1>5, <1>6, LogStays DEF IInv

LEMMA HashFailsKeeps == ASSUME IInv, NEW c \in Callers, HashFails(c) PROVE IInv'
<1>1. /\ caller[c].pc = "hashing" /\ ReleaseSlot(c) /\ UNCHANGED <<users, log, past>>
      /\ caller'[c] = AtRest /\ AtRest.pc = "idle"
      /\ \A d \in Callers \ {c} : caller'[d] = caller[d]
      /\ caller' \in [Callers -> Tasks \cup {AtRest}]
  BY DEF HashFails, Leave, IInv, TypeOK, AtRest
<1>2. TypeOK'
  BY <1>1, SlotGivenBack DEF IInv, TypeOK
<1>3. Decided' /\ OneAdministrator'
  BY <1>1 DEF IInv, Decided, OneAdministrator
<1> QED BY <1>1, <1>2, <1>3, LogStays DEF IInv

\* Only an empty table gets an administrator.
LEMMA CreateAdministratorKeeps ==
    ASSUME IInv, NEW c \in Callers, CreateAdministrator(c) PROVE IInv'
<1>1. /\ caller[c].pc = "writing" /\ users = {} /\ users' = {caller[c].name} /\ Leave(c)
      /\ log' = Append(log, Created(caller[c].name))
      /\ past' = Append(past, Created(caller[c].name)) /\ UNCHANGED slots
  BY DEF CreateAdministrator, Uninitialized
<1>2. caller[c].name \in Names
  BY <1>1, CallerType DEF IInv, Tasks
<1>3. Created(caller[c].name) \in Events
  BY <1>2 DEF Created, Events
<1>4. log' \in Seq(Events) /\ past' \in Seq(Events)
  BY <1>1, <1>3 DEF IInv, TypeOK
<1>5. OneAdministrator'
  <2>1. Cardinality({caller[c].name}) = 1
    BY FS_Singleton
  <2> QED BY <1>1, <2>1 DEF OneAdministrator
<1>6. LogOK'
  <2>1. ~IsFailedLogin(Created(caller[c].name))
    BY DEF IsFailedLogin, Created
  <2> QED BY <1>1, <1>3, <2>1, Logged DEF IInv
<1> QED BY <1>1, <1>2, <1>4, <1>5, <1>6, LeaveKeeps DEF IInv

LEMMA RecordLoginKeeps == ASSUME IInv, NEW c \in Callers, RecordLogin(c) PROVE IInv'
<1> DEFINE e == [action |-> "user.login", user |-> caller[c].user,
                 outcome |-> caller[c].outcome]
<1>1. /\ caller[c].pc = "writing" /\ Leave(c) /\ UNCHANGED <<users, slots>>
      /\ log' = IF IsFailedLogin(e) THEN Prune(Append(log, e)) ELSE Append(log, e)
      /\ past' = Append(past, e)
  BY DEF RecordLogin
<1>2. e \in Events
  BY <1>1, CallerType DEF IInv, Decided, Tasks, Events
<1>3. Append(log, e) \in Seq(Events) /\ past' \in Seq(Events)
  BY <1>1, <1>2 DEF IInv, TypeOK
<1>4. log' \in Seq(Events) /\ LogOK'
  <2> HIDE DEF e
  <2> QED BY <1>1, <1>2, Logged DEF IInv
<1>5. OneAdministrator' /\ users' \in SUBSET Names
  BY <1>1 DEF IInv, OneAdministrator, TypeOK
<1> QED BY <1>1, <1>3, <1>4, <1>5, LeaveKeeps DEF IInv

LEMMA EndKeeps == ASSUME IInv, NEW p \in Processes, End(p) PROVE IInv'
<1>1. /\ caller' \in [Callers -> Tasks \cup {AtRest}] /\ UNCHANGED <<users, log, past>>
      /\ \A c \in Callers : caller'[c] = caller[c] \/ caller'[c] = AtRest
  BY DEF End, IInv, TypeOK
<1>2. TypeOK'
  BY <1>1, SlotsGone DEF IInv, TypeOK
<1>3. Decided' /\ OneAdministrator'
  BY <1>1 DEF IInv, Decided, AtRest, OneAdministrator
<1> QED BY <1>1, <1>2, <1>3, LogStays DEF IInv

\* Every step preserves the invariant.
LEMMA Preserved == IInv /\ [Next]_vars => IInv'
<1> SUFFICES ASSUME IInv, [Next]_vars PROVE IInv'
  OBVIOUS
<1>1. CASE UNCHANGED vars
  <2>1. \A p \in Processes : Hashing(p)' = Hashing(p)
    BY <1>1 DEF vars, Hashing
  <2>2. TypeOK' /\ Decided' /\ OneAdministrator'
    BY <2>1, <1>1 DEF vars, IInv, TypeOK, Decided, OneAdministrator
  <2> QED BY <1>1, <2>2, LogStays DEF vars, IInv
<1>2. ASSUME NEW c \in Callers, NEW name \in Names,
             SetupBegins(c, name) \/ LoginBegins(c, name)
      PROVE  IInv'
  <2>1. None \in Names \cup {None}
    OBVIOUS
  <2> QED BY <1>2, <2>1, TakeKeeps DEF SetupBegins, LoginBegins
<1>3. ASSUME NEW c \in Callers, GiveUp(c) \/ AlreadyInitialized(c) \/ WriteFails(c)
      PROVE  IInv'
  <2>1. caller[c].pc # "hashing" /\ Leave(c) /\ UNCHANGED <<users, log, past, slots>>
    BY <1>3 DEF GiveUp, AlreadyInitialized, WriteFails
  <2>2. users' \in SUBSET Names /\ log' \in Seq(Events) /\ past' \in Seq(Events)
        /\ OneAdministrator'
    BY <2>1 DEF IInv, TypeOK, OneAdministrator
  <2> QED BY <2>1, <2>2, LeaveKeeps, LogStays DEF IInv
<1> QED
  BY <1>1, <1>2, <1>3, AcquireSlotKeeps, HashEndsKeeps, HashFailsKeeps,
     CreateAdministratorKeeps, RecordLoginKeeps, EndKeeps DEF Next

-----------------------------------------------------------------------------
(* Theorems *)

\* The inductive invariant holds through any interleaving of requests and commands, and
\* whichever processes end.
THEOREM Invariance == Spec => []IInv
  BY Initial, Preserved, PTL DEF Spec

\* Type correctness; the slots taken are exactly those of the callers that hash, and
\* never more than there are.
THEOREM TypeCorrect == Spec => []TypeOK
<1>1. IInv => TypeOK
  BY DEF IInv
<1> QED BY <1>1, Invariance, PTL

\* At most one administrator is created.
THEOREM AdministratorUnique == Spec => []OneAdministrator
<1>1. IInv => OneAdministrator
  BY DEF IInv
<1> QED BY <1>1, Invariance, PTL

\* The audit log keeps every event but old failed logins, and of those the newest.
THEOREM AuditIsKept == Spec => []AuditKept
<1>1. IInv => AuditKept
  BY KeptAudit DEF IInv
<1> QED BY <1>1, Invariance, PTL
=============================================================================
