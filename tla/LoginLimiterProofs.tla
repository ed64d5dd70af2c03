------------------------- MODULE LoginLimiterProofs -------------------------
(***************************************************************************)
(* Theorems about LoginLimiter, for any keys, windows, limits and bounds.  *)
(***************************************************************************)
EXTENDS LoginLimiter, FiniteSetTheorems, SequenceTheorems, WellFoundedInduction, TLAPS

\* What holds of table t between two operations: its keys are few; a record holds no more
\* attempts than the limit, and none later than when its key was last seen.
TableOK(t, table) ==
    /\ table \in [Keys[t] -> Record \cup {None}]
    /\ IsFiniteSet(Present(table)) /\ Cardinality(Present(table)) <= MaxKeys
    /\ \A k \in Present(table) :
        /\ Len(table[k].attempts) <= Limit[t]
        /\ table[k].attempts \in Seq(0..table[k].lastSeen)
        /\ table[k].lastSeen <= now

\* A record still knows every attempt that counts.
Remembered == \A t \in Tables : \A k \in Keys[t] : let[t][k] = Recent(records[t], t, k)

\* Nothing that the last sweep should have forgotten is left.
SweptLately ==
    /\ lastSweep # None => lastSweep <= now
    /\ \A t \in Tables : \A k \in Present(records[t]) :
        lastSweep # None /\ records[t][k].lastSeen >= lastSweep - Window[t]

IInv ==
    /\ TypeOK
    /\ records = [t \in Tables |-> records[t]] /\ let = [t \in Tables |-> let[t]]
    /\ \A t \in Tables : TableOK(t, records[t])
    /\ Remembered
    /\ SweptLately

-----------------------------------------------------------------------------
(* Numbers and sequences *)

\* Numbers have a least one.
LEMMA Least ==
    ASSUME NEW S \in SUBSET Nat, S # {}
    PROVE  \E n \in S : \A m \in S : n <= m
<1>1. \E n \in S : \A m \in S : ~(<<m, n>> \in OpToRel(<, Nat))
  BY NatLessThanWellFounded, WFMin
<1>2. ASSUME NEW m \in Nat, NEW n \in Nat, ~(<<m, n>> \in OpToRel(<, Nat))
      PROVE  n <= m
  <2>1. ~(m < n)
    BY <1>2 DEF OpToRel
  <2> QED BY <2>1
<1> QED
  BY <1>1, <1>2

\* A sequence of members is one of members of a larger set.
LEMMA Widen == ASSUME NEW B, NEW A \in SUBSET B, NEW s \in Seq(A) PROVE s \in Seq(B)
<1>1. /\ Len(s) \in Nat /\ s = [i \in 1..Len(s) |-> s[i]]
      /\ \A i \in 1..Len(s) : s[i] \in B
  BY LenProperties, ElementOfSeq
<1> QED
  BY <1>1

\* A set of sequences that has the empty one, and every extension of its members by
\* one element, has them all.
LEMMA EverySequence ==
    ASSUME NEW A, NEW S, <<>> \in S,
           \A s \in Seq(A) : \A x \in A : s \in S => Append(s, x) \in S
    PROVE  Seq(A) \subseteq S
<1> DEFINE Missing == {n \in Nat : \E s \in Seq(A) : Len(s) = n /\ s \notin S}
<1>1. SUFFICES ASSUME Missing # {} PROVE FALSE
  BY LenProperties
<1>2. Missing \in SUBSET Nat
  BY LenProperties
<1>3. PICK n \in Missing : \A m \in Missing : n <= m
  <2> HIDE DEF Missing
  <2> QED BY <1>1, <1>2, Least
<1>4. PICK s \in Seq(A) : Len(s) = n /\ s \notin S
  OBVIOUS
<1>5. s # <<>>
  BY <1>4
<1>6. PICK front \in Seq(A), x \in A : s = Append(front, x)
  BY <1>5, SequenceEmptyOrAppend
<1>7. Len(front) + 1 = n /\ Len(front) \in Nat
  BY <1>4, <1>6, AppendProperties, LenProperties
<1>8. front \in S
  BY <1>3, <1>7
<1> QED
  BY <1>4, <1>6, <1>8

-----------------------------------------------------------------------------
(* allowAttempt's loop *)

\* recent is what the loop has gathered after each number of attempts.
Gathers(attempts, cutoff, recent) ==
    recent = [i \in 0..Len(attempts) |->
                IF i = 0 THEN <<>>
                ELSE IF attempts[i] > cutoff THEN Append(recent[i - 1], attempts[i])
                ELSE recent[i - 1]]

\* What one turn of the loop does.
LEMMA GathersAt ==
    ASSUME NEW a \in Seq(Nat), NEW c \in Int, NEW f, Gathers(a, c, f), NEW i \in 1..Len(a)
    PROVE  f[i] = IF a[i] > c THEN Append(f[i - 1], a[i]) ELSE f[i - 1]
<1>1. i # 0 /\ i \in 0..Len(a)
  BY LenProperties
<1> QED
  BY <1>1 DEF Gathers

\* The loop is determined.
LEMMA GathersOnce ==
    ASSUME NEW a \in Seq(Nat), NEW c \in Int, NEW f, Gathers(a, c, f), NEW g, Gathers(a, c, g)
    PROVE  f[Len(a)] = g[Len(a)]
<1> DEFINE Apart == {n \in 0..Len(a) : f[n] # g[n]}
<1>1. SUFFICES ASSUME Apart # {} PROVE FALSE
  BY LenProperties
<1>2. Apart \in SUBSET Nat
  BY LenProperties
<1>3. PICK n \in Apart : \A m \in Apart : n <= m
  <2> HIDE DEF Apart
  <2> QED BY <1>1, <1>2, Least
<1>4. n # 0
  BY DEF Gathers
<1>5. n - 1 \in 0..Len(a) /\ n - 1 \notin Apart
  BY <1>3, <1>4
<1>6. f[n - 1] = g[n - 1]
  BY <1>5
<1> QED
  BY <1>4, <1>6 DEF Gathers

\* The loop over one attempt more.
LEMMA GathersMore ==
    ASSUME NEW a \in Seq(Nat), NEW c \in Int, NEW f, Gathers(a, c, f), NEW x \in Nat
    PROVE  LET last == IF x > c THEN Append(f[Len(a)], x) ELSE f[Len(a)]
           IN  Gathers(Append(a, x), c,
                   [i \in 0..Len(a) + 1 |-> IF i <= Len(a) THEN f[i] ELSE last])
<1> DEFINE last == IF x > c THEN Append(f[Len(a)], x) ELSE f[Len(a)]
           more == [i \in 0..Len(a) + 1 |-> IF i <= Len(a) THEN f[i] ELSE last]
           b == Append(a, x)
<1>1. /\ Len(a) \in Nat /\ Len(b) = Len(a) + 1
      /\ \A i \in 1..Len(a) : b[i] = a[i]
      /\ b[Len(a) + 1] = x
  BY AppendProperties, LenProperties
<1>2. ASSUME NEW i \in 0..Len(b)
      PROVE  more[i] = IF i = 0 THEN <<>>
                       ELSE IF b[i] > c THEN Append(more[i - 1], b[i]) ELSE more[i - 1]
  <2>1. CASE i = 0
    BY <1>1, <2>1 DEF Gathers
  <2>2. CASE i \in 1..Len(a)
    <3>1. more[i] = f[i] /\ more[i - 1] = f[i - 1] /\ b[i] = a[i]
      BY <1>1, <2>2
    <3>2. f[i] = IF a[i] > c THEN Append(f[i - 1], a[i]) ELSE f[i - 1]
      BY <2>2, GathersAt
    <3> HIDE DEF more, b
    <3> QED BY <2>2, <3>1, <3>2
  <2>3. CASE i = Len(a) + 1
    <3>1. more[i] = last /\ more[i - 1] = f[Len(a)] /\ b[i] = x
      BY <1>1, <2>3
    <3> HIDE DEF more, b
    <3> QED BY <1>1, <2>3, <3>1
  <2> QED BY <1>1, <2>1, <2>2, <2>3
<1> HIDE DEF b, last
<1> QED
  BY <1>1, <1>2 DEF Gathers, b, last

\* After is what the loop has gathered in the end.
LEMMA AfterGathers ==
    ASSUME NEW c \in Int, NEW a \in Seq(Nat)
    PROVE  \E f : Gathers(a, c, f) /\ After(a, c) = f[Len(a)]
<1> DEFINE S == {s \in Seq(Nat) : \E f : Gathers(s, c, f)}
<1>1. <<>> \in S
  <2>1. Gathers(<<>>, c, [i \in 0..0 |-> <<>>])
    BY DEF Gathers
  <2> QED BY <2>1
<1>2. ASSUME NEW s \in Seq(Nat), NEW x \in Nat, s \in S PROVE Append(s, x) \in S
  <2>1. PICK f : Gathers(s, c, f)
    BY <1>2
  <2>2. \E g : Gathers(Append(s, x), c, g)
    BY <2>1, GathersMore
  <2> QED BY <2>2, AppendProperties
<1>3. a \in S
  <2> HIDE DEF S
  <2> QED BY <1>1, <1>2, EverySequence
<1>4. PICK f : Gathers(a, c, f)
  BY <1>3
<1> DEFINE r == CHOOSE g : Gathers(a, c, g)
<1>5. Gathers(a, c, r)
  BY <1>4
<1>6. After(a, c) = r[Len(a)]
  BY DEF After, Gathers
<1> QED
  BY <1>5, <1>6

\* No attempt: nothing to gather.
LEMMA AfterNone == ASSUME NEW c \in Int PROVE After(<<>>, c) = <<>>
<1>1. <<>> \in Seq(Nat) /\ Len(<<>>) = 0
  OBVIOUS
<1>2. PICK f : Gathers(<<>>, c, f) /\ After(<<>>, c) = f[Len(<<>>)]
  BY <1>1, AfterGathers
<1>3. f[0] = <<>>
  BY <1>1, <1>2 DEF Gathers
<1> QED
  BY <1>1, <1>2, <1>3

\* One attempt more is gathered if it is after the cutoff.
LEMMA AfterAppend ==
    ASSUME NEW c \in Int, NEW a \in Seq(Nat), NEW x \in Nat
    PROVE  After(Append(a, x), c) = IF x > c THEN Append(After(a, c), x) ELSE After(a, c)
<1>1. PICK f : Gathers(a, c, f) /\ After(a, c) = f[Len(a)]
  BY AfterGathers
<1> DEFINE b == Append(a, x)
           last == IF x > c THEN Append(f[Len(a)], x) ELSE f[Len(a)]
           more == [i \in 0..Len(a) + 1 |-> IF i <= Len(a) THEN f[i] ELSE last]
<1>2. Gathers(b, c, more)
  BY <1>1, GathersMore
<1>3. b \in Seq(Nat) /\ Len(b) = Len(a) + 1 /\ Len(a) \in Nat
  BY AppendProperties, LenProperties
<1>4. PICK g : Gathers(b, c, g) /\ After(b, c) = g[Len(b)]
  BY <1>3, AfterGathers
<1>5. g[Len(b)] = more[Len(b)]
  <2> HIDE DEF b, more
  <2> QED BY <1>2, <1>3, <1>4, GathersOnce
<1>6. more[Len(b)] = last
  BY <1>3
<1> QED
  BY <1>1, <1>4, <1>5, <1>6

\* No more is gathered than there is, and nothing else.
LEMMA AfterType ==
    ASSUME NEW c \in Int, NEW A \in SUBSET Nat, NEW a \in Seq(A)
    PROVE  After(a, c) \in Seq(A) /\ Len(After(a, c)) <= Len(a)
<1> DEFINE S == {s \in Seq(A) : After(s, c) \in Seq(A) /\ Len(After(s, c)) <= Len(s)}
<1>1. <<>> \in S
  <2>1. <<>> \in Seq(A) /\ Len(<<>>) <= Len(<<>>)
    OBVIOUS
  <2>2. After(<<>>, c) = <<>>
    BY AfterNone
  <2>3. After(<<>>, c) \in Seq(A) /\ Len(After(<<>>, c)) <= Len(<<>>)
    BY <2>1, <2>2, Zenon
  <2> QED BY <2>1, <2>3
<1>2. ASSUME NEW s \in Seq(A), NEW x \in A, s \in S PROVE Append(s, x) \in S
  <2>1. s \in Seq(Nat) /\ x \in Nat
    BY Widen
  <2>2. After(Append(s, x), c) = IF x > c THEN Append(After(s, c), x) ELSE After(s, c)
    BY <2>1, AfterAppend
  <2>3. After(s, c) \in Seq(A) /\ Len(After(s, c)) <= Len(s)
    BY <1>2
  <2>4. /\ Append(s, x) \in Seq(A) /\ Len(Append(s, x)) = Len(s) + 1
        /\ Append(After(s, c), x) \in Seq(A)
        /\ Len(Append(After(s, c), x)) = Len(After(s, c)) + 1
        /\ Len(s) \in Nat /\ Len(After(s, c)) \in Nat
    BY <2>3, AppendProperties, LenProperties
  <2> QED BY <2>2, <2>3, <2>4
<1>3. a \in S
  <2> HIDE DEF S
  <2> QED BY <1>1, <1>2, EverySequence
<1> QED
  BY <1>3

\* Gathering twice is gathering after the later cutoff.
LEMMA AfterTwice ==
    ASSUME NEW c \in Int, NEW d \in Int, c <= d, NEW a \in Seq(Nat)
    PROVE  After(After(a, c), d) = After(a, d)
<1> DEFINE S == {s \in Seq(Nat) : After(After(s, c), d) = After(s, d)}
<1>1. <<>> \in S
  BY AfterNone, EmptySeq
<1>2. ASSUME NEW s \in Seq(Nat), NEW x \in Nat, s \in S PROVE Append(s, x) \in S
  <2>1. /\ After(s, c) \in Seq(Nat)
        /\ After(After(s, c), d) = After(s, d)
        /\ Append(s, x) \in Seq(Nat)
    BY <1>2, AfterType, AppendProperties
  <2>2. After(Append(s, x), d) = IF x > d THEN Append(After(s, d), x) ELSE After(s, d)
    BY AfterAppend
  <2>3. CASE x > c
    <3>1. After(Append(s, x), c) = Append(After(s, c), x)
      BY <2>3, AfterAppend
    <3>2. After(Append(After(s, c), x), d)
            = IF x > d THEN Append(After(After(s, c), d), x) ELSE After(After(s, c), d)
      BY <2>1, AfterAppend
    <3> QED BY <2>1, <2>2, <3>1, <3>2
  <2>4. CASE ~(x > c)
    <3>1. After(Append(s, x), c) = After(s, c) /\ ~(x > d)
      BY <2>4, AfterAppend
    <3> QED BY <2>1, <2>2, <3>1
  <2> QED BY <2>3, <2>4
<1>3. a \in S
  <2> HIDE DEF S
  <2> QED BY <1>1, <1>2, EverySequence
<1> QED
  BY <1>3

\* Nothing is gathered of attempts that are all too early.
LEMMA AfterAll ==
    ASSUME NEW c \in Int, NEW b \in Nat, b <= c, NEW a \in Seq(0..b)
    PROVE  After(a, c) = <<>>
<1> DEFINE S == {s \in Seq(0..b) : After(s, c) = <<>>}
<1>1. <<>> \in S
  BY AfterNone, EmptySeq
<1>2. ASSUME NEW s \in Seq(0..b), NEW x \in 0..b, s \in S PROVE Append(s, x) \in S
  <2>1. s \in Seq(Nat) /\ x \in Nat /\ ~(x > c)
    OBVIOUS
  <2>2. After(Append(s, x), c) = After(s, c)
    BY <2>1, AfterAppend
  <2> QED BY <1>2, <2>2, AppendProperties
<1>3. a \in S
  <2> HIDE DEF S
  <2> QED BY <1>1, <1>2, EverySequence
<1> QED
  BY <1>3

-----------------------------------------------------------------------------
(* The operations on a table *)

\* The parameters and the clock are numbers.
LEMMA Numbers ==
    ASSUME TypeOK, NEW t \in Tables
    PROVE  /\ now \in Nat /\ now - Window[t] \in Int /\ Window[t] \in Nat \ {0}
           /\ Limit[t] \in Nat \ {0} /\ Retention(t) = Window[t]
           /\ MaxKeys \in Nat \ {0} /\ SweepInterval \in Nat \ {0} /\ None \notin Nat
           /\ None \notin Record
<1>1. now \in Nat /\ Window[t] \in Nat \ {0} /\ Limit[t] \in Nat \ {0}
  BY LimiterAssumption DEF TypeOK
<1> QED
  BY <1>1, LimiterAssumption DEF Retention, Record

\* A table within its bound is what evictOldest leaves.
LEMMA NothingToEvict ==
    ASSUME NEW table, IsFiniteSet(Present(table)), Cardinality(Present(table)) <= MaxKeys,
           table = [k \in DOMAIN table |-> table[k]]
    PROVE  Evictions(table) = {table}
<1> DEFINE keys == Present(table)
           only(kept) == [k \in DOMAIN table |-> IF k \in kept THEN table[k] ELSE None]
           size == IF Cardinality(keys) > MaxKeys THEN MaxKeys ELSE Cardinality(keys)
           choices == {S \in SUBSET keys :
                        /\ Cardinality(S) = size
                        /\ \A k \in S, l \in keys \ S : table[l].lastSeen <= table[k].lastSeen}
<1>1. size = Cardinality(keys)
  BY FS_CardinalityType, LimiterAssumption
<1>2. \A S \in SUBSET keys : Cardinality(S) = Cardinality(keys) => S = keys
  BY FS_Subset
<1>3. choices = {keys}
  BY <1>1, <1>2
<1>4. only(keys) = table
  BY DEF Present
<1>5. Evictions(table) = {only(kept) : kept \in choices}
  BY DEF Evictions
<1> QED
  BY <1>3, <1>4, <1>5

\* What a record remembers of its key: no more attempts than it holds, and none but theirs.
LEMMA RecentType ==
    ASSUME TypeOK, NEW t \in Tables, NEW table, TableOK(t, table), NEW k \in Keys[t]
    PROVE  /\ Recent(table, t, k) \in Seq(0..now) /\ Recent(table, t, k) \in Seq(Nat)
           /\ Len(Recent(table, t, k)) <= Limit[t]
           /\ Len(Recent(table, t, k)) \in Nat
           /\ table[k] = None => Recent(table, t, k) = <<>>
           /\ table[k] # None =>
                /\ k \in Present(table) /\ table[k] \in Record
                /\ table[k].attempts \in Seq(Nat) /\ table[k].attempts \in Seq(0..now)
                /\ Recent(table, t, k) = After(table[k].attempts, now - Window[t])
<1> DEFINE r == Recent(table, t, k)
<1>1. CASE table[k] = None
  <2>1. r = <<>>
    BY <1>1 DEF Recent
  <2>2. /\ <<>> \in Seq(0..now) /\ <<>> \in Seq(Nat)
        /\ Len(<<>>) <= Limit[t] /\ Len(<<>>) \in Nat
    BY Numbers
  <2> HIDE DEF r
  <2>3. r \in Seq(0..now) /\ r \in Seq(Nat) /\ Len(r) <= Limit[t] /\ Len(r) \in Nat
    BY <2>1, <2>2, Zenon
  <2> QED BY <1>1, <2>1, <2>3 DEF r
<1>2. CASE table[k] # None
  <2> DEFINE a == table[k].attempts
  <2>1. k \in Present(table) /\ table[k] \in Record
    BY <1>2 DEF TableOK, Present
  <2>2. /\ a \in Seq(0..table[k].lastSeen) /\ Len(a) <= Limit[t]
        /\ table[k].lastSeen \in Nat /\ table[k].lastSeen <= now
    BY <2>1 DEF TableOK, Record
  <2>3. /\ now \in Nat /\ now - Window[t] \in Int /\ Limit[t] \in Nat
        /\ 0..now \in SUBSET Nat /\ 0..table[k].lastSeen \in SUBSET (0..now)
    BY <2>2, Numbers
  <2>4. a \in Seq(0..now) /\ a \in Seq(Nat)
    BY <2>2, <2>3, Widen
  <2>5. r = After(a, now - Window[t])
    BY <1>2 DEF Recent
  <2>6. r \in Seq(0..now) /\ Len(r) <= Len(a)
    <3> HIDE DEF r, a
    <3> QED BY <2>3, <2>4, <2>5, AfterType
  <2>7. r \in Seq(Nat) /\ Len(r) \in Nat /\ Len(a) \in Nat
    <3> HIDE DEF r, a
    <3> QED BY <2>3, <2>4, <2>6, Widen, LenProperties
  <2>8. Len(r) <= Limit[t]
    BY <2>2, <2>3, <2>6, <2>7
  <2> QED BY <1>2, <2>1, <2>4, <2>5, <2>6, <2>7, <2>8
<1> QED
  BY <1>1, <1>2

\* What allowAttempt does to a table: the key has one attempt more if it was let through,
\* and was seen now unless there was no room for it; the others are as they were.
LEMMA Attempted ==
    ASSUME TypeOK, NEW t \in Tables, NEW table, TableOK(t, table), NEW k \in Keys[t]
    PROVE  LET after == Attempt(table, t, k)
           IN  /\ TableOK(t, after)
               /\ Recent(after, t, k) = Counted(table, t, k)
               /\ \A l \in Keys[t] \ {k} : Recent(after, t, l) = Recent(table, t, l)
               /\ \A l \in Present(after) :
                    \/ after[l].lastSeen = now
                    \/ l \in Present(table) /\ after[l] = table[l]
<1> DEFINE after == Attempt(table, t, k)
           old == Recent(table, t, k)
           counted == Counted(table, t, k)
<1>1. CASE NoRoom(table, k)
  <2>1. after = table /\ counted = old
    BY <1>1 DEF Attempt, Counted, Allowed
  <2> QED BY <2>1
<1>2. CASE ~NoRoom(table, k)
  <2> DEFINE new == [attempts |-> counted, lastSeen |-> now]
  <2>1. after = [table EXCEPT ![k] = new]
    BY <1>2 DEF Attempt
  <2>2. /\ now \in Nat /\ now - Window[t] \in Int /\ now > now - Window[t] /\ now \in 0..now
        /\ None \notin Record /\ Limit[t] \in Nat
    BY Numbers
  <2>3. /\ old \in Seq(0..now) /\ old \in Seq(Nat)
        /\ Len(old) \in Nat /\ Len(old) <= Limit[t]
    BY RecentType
  <2>4. counted = IF Len(old) < Limit[t] THEN Append(old, now) ELSE old
    BY <1>2 DEF Counted, Allowed
  <2>5. /\ Append(old, now) \in Seq(0..now) /\ Append(old, now) \in Seq(Nat)
        /\ Len(Append(old, now)) = Len(old) + 1
    <3> HIDE DEF old
    <3> QED BY <2>2, <2>3, AppendProperties
  <2>6. counted \in Seq(0..now) /\ counted \in Seq(Nat) /\ Len(counted) <= Limit[t]
    <3> HIDE DEF old, counted
    <3>1. CASE Len(old) < Limit[t]
      <4>1. counted = Append(old, now) /\ Len(old) + 1 <= Limit[t]
        BY <2>2, <2>3, <2>4, <3>1
      <4> QED BY <2>5, <4>1, Zenon
    <3>2. CASE ~(Len(old) < Limit[t])
      BY <2>3, <2>4, <3>2, Zenon
    <3> QED BY <3>1, <3>2
  <2>7. new \in Record /\ new # None /\ new.attempts = counted /\ new.lastSeen = now
    <3> HIDE DEF counted
    <3> QED BY <2>2, <2>6 DEF Record
  <2>8. after \in [Keys[t] -> Record \cup {None}] /\ after[k] = new
        /\ \A l \in Keys[t] \ {k} : after[l] = table[l]
    <3> HIDE DEF new, after
    <3> QED BY <2>1, <2>7 DEF TableOK
  <2>9. Present(after) = Present(table) \cup {k}
    <3> HIDE DEF new, after
    <3> QED BY <2>7, <2>8 DEF TableOK, Present
  <2>10. IsFiniteSet(Present(after)) /\ Cardinality(Present(after)) <= MaxKeys
    <3>1. /\ IsFiniteSet(Present(table)) /\ Cardinality(Present(table)) <= MaxKeys
          /\ Cardinality(Present(table)) \in Nat /\ MaxKeys \in Nat
      BY FS_CardinalityType, Numbers DEF TableOK
    <3>2. k \in Present(table) \/ Cardinality(Present(table)) < MaxKeys
      BY <1>2, <3>1 DEF NoRoom, Present, TableOK
    <3>3. /\ IsFiniteSet(Present(table) \cup {k})
          /\ Cardinality(Present(table) \cup {k})
                = IF k \in Present(table) THEN Cardinality(Present(table))
                  ELSE Cardinality(Present(table)) + 1
      BY <3>1, FS_AddElement
    <3> HIDE DEF after
    <3> QED BY <2>9, <3>1, <3>2, <3>3
  <2>11. \A l \in Present(after) : \/ l = k
                                   \/ l \in Present(table) /\ after[l] = table[l] /\ l # k
    <3> HIDE DEF after
    <3> QED BY <2>8, <2>9 DEF TableOK, Present
  <2>12. TableOK(t, after)
    <3> HIDE DEF after, new, counted
    <3> QED BY <2>2, <2>6, <2>7, <2>8, <2>10, <2>11 DEF TableOK
  <2>13. Recent(after, t, k) = After(counted, now - Window[t])
    <3> HIDE DEF after, new, counted
    <3> QED BY <2>7, <2>8 DEF Recent
  <2>14. After(old, now - Window[t]) = old
    <3>1. CASE table[k] = None
      BY <3>1, <2>2, AfterNone DEF Recent
    <3>2. CASE table[k] # None
      <4>1. /\ old = After(table[k].attempts, now - Window[t])
            /\ table[k].attempts \in Seq(Nat)
        BY <3>2, RecentType
      <4>2. now - Window[t] <= now - Window[t]
        BY <2>2
      <4> HIDE DEF old
      <4> QED BY <2>2, <4>1, <4>2, AfterTwice
    <3> QED BY <3>1, <3>2
  <2>15. After(counted, now - Window[t]) = counted
    <3>1. After(Append(old, now), now - Window[t]) = Append(old, now)
      <4> HIDE DEF old
      <4> QED BY <2>2, <2>3, <2>14, AfterAppend
    <3> HIDE DEF old, counted
    <3> QED BY <2>4, <2>14, <3>1
  <2>16. \A l \in Keys[t] \ {k} : Recent(after, t, l) = Recent(table, t, l)
    <3> HIDE DEF after
    <3> QED BY <2>8 DEF Recent
  <2> HIDE DEF after, new, counted
  <2> QED BY <2>7, <2>8, <2>11, <2>12, <2>13, <2>15, <2>16 DEF after, counted
<1> QED
  BY <1>1, <1>2

\* What sweep may leave of a table still knows every attempt that counts, and no key that
\* was last seen before the sweep's cutoff.
LEMMA Sweeping ==
    ASSUME IInv, NEW t \in Tables, NEW table \in Swept(t)
    PROVE  /\ TableOK(t, table)
           /\ \A k \in Keys[t] : Recent(table, t, k) = let[t][k]
           /\ \A k \in Present(table) : table[k].lastSeen >= SweptAt - Window[t]
           /\ SweptAt \in Nat /\ SweptAt <= now /\ now - SweptAt < SweepInterval
<1> DEFINE old == records[t]
           cutoff == now - Window[t]
<1>1. /\ TypeOK /\ TableOK(t, old)
      /\ \A k \in Keys[t] : Recent(old, t, k) = let[t][k]
      /\ now \in Nat /\ cutoff \in Int /\ Window[t] \in Nat \ {0} /\ Retention(t) = Window[t]
      /\ SweepInterval \in Nat \ {0} /\ None \notin Record /\ None \notin Nat
      /\ lastSweep \in Nat \cup {None}
  BY Numbers DEF IInv, Remembered, TypeOK
<1>2. CASE ~SweepDue
  <2>1. table = old /\ SweptAt = lastSweep /\ lastSweep # None /\ lastSweep \in Nat
        /\ ~(now - lastSweep >= SweepInterval)
    BY <1>1, <1>2 DEF Swept, SweptAt, SweepDue
  <2>2. /\ lastSweep <= now
        /\ \A k \in Present(old) : old[k].lastSeen >= lastSweep - Window[t]
    BY <2>1 DEF IInv, SweptLately
  <2> QED BY <1>1, <2>1, <2>2
<1>3. CASE SweepDue
  <2> DEFINE left == RemoveExpired(old, t)
  <2>1. /\ old = [k \in Keys[t] |-> old[k]] /\ DOMAIN old = Keys[t]
        /\ IsFiniteSet(Present(old)) /\ Cardinality(Present(old)) <= MaxKeys
        /\ \A k \in Present(old) : /\ old[k] \in Record /\ k \in Keys[t]
                                   /\ Len(old[k].attempts) <= Limit[t]
                                   /\ old[k].attempts \in Seq(0..old[k].lastSeen)
                                   /\ old[k].lastSeen \in Nat /\ old[k].lastSeen <= now
    BY <1>1 DEF TableOK, Present, Record
  <2>2. left = [k \in Keys[t] |->
                    IF old[k] # None /\ old[k].lastSeen < cutoff THEN None ELSE old[k]]
    BY <1>1, <2>1 DEF RemoveExpired
  <2>3. /\ left = [k \in DOMAIN left |-> left[k]] /\ DOMAIN left = Keys[t]
        /\ left \in [Keys[t] -> Record \cup {None}]
        /\ \A k \in Present(left) : /\ k \in Present(old) /\ left[k] = old[k]
                                    /\ ~(old[k].lastSeen < cutoff)
        /\ \A k \in Keys[t] :
            left[k] # old[k] => left[k] = None /\ k \in Present(old) /\ old[k].lastSeen < cutoff
    <3> HIDE DEF left, cutoff, old
    <3>1. /\ left = [k \in DOMAIN left |-> left[k]] /\ DOMAIN left = Keys[t]
          /\ \A k \in Keys[t] : left[k] = IF old[k] # None /\ old[k].lastSeen < cutoff
                                        THEN None ELSE old[k]
      BY <2>2
    <3>2. left \in [Keys[t] -> Record \cup {None}]
      BY <1>1, <3>1 DEF TableOK
    <3>3. \A k \in Keys[t] :
            left[k] # old[k] => left[k] = None /\ k \in Present(old) /\ old[k].lastSeen < cutoff
      <4>1. \A k \in Keys[t] : old[k] # None => k \in Present(old)
        BY <2>1 DEF Present
      <4>2. ASSUME NEW k \in Keys[t]
            PROVE  left[k] # old[k] => left[k] = None /\ old[k] # None /\ old[k].lastSeen < cutoff
        BY <3>1
      <4> QED BY <4>1, <4>2
    <3>4. \A k \in Present(left) : /\ k \in Present(old) /\ left[k] = old[k]
                                  /\ ~(old[k].lastSeen < cutoff)
      <4>1. ASSUME NEW k \in Present(left) PROVE k \in Keys[t] /\ left[k] # None
        BY <3>1 DEF Present
      <4>2. ASSUME NEW k \in Present(left)
            PROVE  left[k] = old[k] /\ ~(old[k].lastSeen < cutoff) /\ old[k] # None
        BY <3>1, <4>1
      <4> QED BY <2>1, <4>1, <4>2 DEF Present
    <3> QED BY <3>1, <3>2, <3>3, <3>4
  <2>4. IsFiniteSet(Present(left)) /\ Cardinality(Present(left)) <= MaxKeys
    <3>1. Present(left) \in SUBSET Present(old)
      BY <2>3
    <3>2. /\ IsFiniteSet(Present(left)) /\ Cardinality(Present(left)) \in Nat
          /\ Cardinality(Present(left)) <= Cardinality(Present(old))
          /\ Cardinality(Present(old)) \in Nat
      BY <2>1, <3>1, FS_Subset, FS_CardinalityType
    <3> QED BY <1>1, <2>1, <3>2, Numbers
  <2>5. table = left
    <3>1. Evictions(left) = {left}
      <4> HIDE DEF left
      <4> QED BY <2>3, <2>4, NothingToEvict
    <3> QED BY <1>3, <3>1 DEF Swept
  <2>6. TableOK(t, left)
    <3> HIDE DEF left, old
    <3> QED BY <2>1, <2>3, <2>4 DEF TableOK
  <2>7. ASSUME NEW k \in Keys[t] PROVE Recent(left, t, k) = let[t][k]
    <3>1. CASE left[k] = old[k]
      <4> HIDE DEF left
      <4> QED BY <1>1, <3>1 DEF Recent
    <3>2. CASE left[k] # old[k]
      <4>1. left[k] = None /\ k \in Present(old) /\ old[k].lastSeen < cutoff
        BY <2>3, <3>2
      <4>2. Recent(old, t, k) = After(old[k].attempts, cutoff)
        BY <4>1 DEF Recent, Present
      <4>3. old[k].lastSeen <= cutoff
        BY <1>1, <2>1, <4>1
      <4>4. After(old[k].attempts, cutoff) = <<>>
        <5> HIDE DEF cutoff, old
        <5> QED BY <1>1, <2>1, <4>1, <4>3, AfterAll
      <4>5. Recent(left, t, k) = <<>>
        <5> HIDE DEF left
        <5> QED BY <4>1 DEF Recent
      <4> QED BY <1>1, <4>2, <4>4, <4>5, Zenon
    <3> QED BY <3>1, <3>2
  <2>8. SweptAt = now
    BY <1>3 DEF SweptAt
  <2>9. \A k \in Present(left) : left[k].lastSeen >= SweptAt - Window[t]
    <3> HIDE DEF left, old
    <3> QED BY <1>1, <2>1, <2>3, <2>8
  <2> HIDE DEF left, old
  <2> QED BY <1>1, <2>5, <2>6, <2>7, <2>8, <2>9
<1> QED
  BY <1>2, <1>3

-----------------------------------------------------------------------------
(* Initially, and preserved by every step *)

LEMMA Initial == Init => IInv
<1> SUFFICES ASSUME Init PROVE IInv
  OBVIOUS
<1>1. /\ records = [t \in Tables |-> [k \in Keys[t] |-> None]]
      /\ let = [t \in Tables |-> [k \in Keys[t] |-> <<>>]]
      /\ lastSweep = None /\ now = 0 /\ checking = {}
  BY DEF Init
<1>2. ASSUME NEW t \in Tables
      PROVE  /\ records[t] = [k \in Keys[t] |-> None] /\ let[t] = [k \in Keys[t] |-> <<>>]
             /\ Present(records[t]) = {}
             /\ records[t] \in [Keys[t] -> Record \cup {None}]
             /\ let[t] \in [Keys[t] -> Seq(Nat)]
  BY <1>1 DEF Present
<1>3. IsFiniteSet({}) /\ Cardinality({}) <= MaxKeys
  BY FS_EmptySet, LimiterAssumption
<1>4. TypeOK
  <2>1. /\ lastSweep \in Nat \cup {None} /\ now \in 0..MaxTime
        /\ checking \in SUBSET (Sources \X Accounts)
    BY <1>1, LimiterAssumption
  <2>2. ASSUME NEW t \in Tables, NEW k \in Keys[t] PROVE records[t][k] = None
    BY <1>2
  <2> QED BY <1>2, <1>3, <2>1, <2>2 DEF TypeOK
<1>5. \A t \in Tables : TableOK(t, records[t])
  BY <1>2, <1>3 DEF TableOK
<1>6. Remembered
  <2>1. ASSUME NEW t \in Tables, NEW k \in Keys[t]
        PROVE  records[t][k] = None /\ let[t][k] = <<>>
    BY <1>2
  <2> QED BY <2>1, Zenon DEF Remembered, Recent
<1>7. SweptLately
  BY <1>1, <1>2 DEF SweptLately
<1> QED
  BY <1>1, <1>2, <1>4, <1>5, <1>6, <1>7 DEF IInv

\* IInv in the next state, table by table.
LEMMA Whole ==
    ASSUME TypeOK, now' \in 0..MaxTime, lastSweep' \in Nat \cup {None},
           checking' \in SUBSET (Sources \X Accounts),
           lastSweep' # None => lastSweep' <= now',
           records' = [t \in Tables |-> records'[t]], let' = [t \in Tables |-> let'[t]],
           \A t \in Tables :
             /\ TableOK(t, records[t])'
             /\ \A k \in Keys[t] : let'[t][k] = Recent(records[t], t, k)'
             /\ let'[t] \in [Keys[t] -> Seq(Nat)]
             /\ \A k \in Present(records[t])' :
                  lastSweep' # None /\ records'[t][k].lastSeen >= lastSweep' - Window[t]
    PROVE  IInv'
<1>1. \A t \in Tables : TableOK(t, records[t])'
  OBVIOUS
<1>2. Remembered' /\ SweptLately'
  BY DEF Remembered, SweptLately
<1>3. ASSUME NEW t \in Tables
      PROVE  /\ records'[t] \in [Keys[t] -> Record \cup {None}]
             /\ \A k \in Keys[t] :
                  records'[t][k] # None => Len(records'[t][k].attempts) <= Limit[t]
             /\ Cardinality(Present(records[t])') <= MaxKeys
  BY <1>1, <1>3 DEF TableOK, Present
<1>4. TypeOK'
  BY <1>3 DEF TypeOK
<1> QED
  BY <1>1, <1>2, <1>4 DEF IInv

\* A login that is dealt with: each table is what allowAttempt makes of what sweep left.
LEMMA AllowTables ==
    ASSUME IInv, NEW s \in Sources, NEW a \in Accounts, Allow(s, a)
    PROVE  \E swept :
             /\ records' = [t \in Tables |-> Attempt(swept[t], t, KeyOf(s, a)[t])]
             /\ let' = [t \in Tables |->
                          IF Allowed(swept[t], t, KeyOf(s, a)[t])
                          THEN [let[t] EXCEPT ![KeyOf(s, a)[t]] = Append(@, now)] ELSE let[t]]
             /\ \A t \in Tables : swept[t] \in Swept(t) /\ KeyOf(s, a)[t] \in Keys[t]
<1>1. PICK sources \in Swept("sources"), accounts \in Swept("accounts") :
        LET swept   == [sources |-> sources, accounts |-> accounts]
            key     == KeyOf(s, a)
            allowed == [t \in Tables |-> Allowed(swept[t], t, key[t])]
        IN  /\ records' = [t \in Tables |-> Attempt(swept[t], t, key[t])]
            /\ let' = [t \in Tables |->
                         IF allowed[t] THEN [let[t] EXCEPT ![key[t]] = Append(@, now)]
                         ELSE let[t]]
  BY DEF Allow
<1> DEFINE swept == [sources |-> sources, accounts |-> accounts]
<1>2. \A t \in Tables : swept[t] \in Swept(t) /\ KeyOf(s, a)[t] \in Keys[t]
  BY DEF Tables, KeyOf, Keys
<1> HIDE DEF swept
<1>3. /\ records' = [t \in Tables |-> Attempt(swept[t], t, KeyOf(s, a)[t])]
      /\ let' = [t \in Tables |->
                   IF Allowed(swept[t], t, KeyOf(s, a)[t])
                   THEN [let[t] EXCEPT ![KeyOf(s, a)[t]] = Append(@, now)] ELSE let[t]]
  BY <1>1 DEF swept
<1> QED
  BY <1>2, <1>3

\* A login dealt with: each table remembers what it lets through.
LEMMA AllowKeeps ==
    ASSUME IInv, NEW s \in Sources, NEW a \in Accounts, Allow(s, a)
    PROVE  IInv'
<1>1. PICK swept :
         /\ records' = [t \in Tables |-> Attempt(swept[t], t, KeyOf(s, a)[t])]
         /\ let' = [t \in Tables |->
                      IF Allowed(swept[t], t, KeyOf(s, a)[t])
                      THEN [let[t] EXCEPT ![KeyOf(s, a)[t]] = Append(@, now)] ELSE let[t]]
         /\ \A t \in Tables : swept[t] \in Swept(t) /\ KeyOf(s, a)[t] \in Keys[t]
  BY AllowTables
<1>2. now' = now /\ lastSweep' = SweptAt
      /\ (checking' = checking \cup {<<s, a>>} \/ checking' = checking)
  BY DEF Allow
<1>3. TypeOK
  BY DEF IInv
<1>4. ASSUME NEW t \in Tables
      PROVE  /\ TableOK(t, records'[t])
             /\ \A k \in Keys[t] : let'[t][k] = Recent(records'[t], t, k)
             /\ let'[t] \in [Keys[t] -> Seq(Nat)]
             /\ \A k \in Present(records'[t]) : records'[t][k].lastSeen >= SweptAt - Window[t]
             /\ SweptAt \in Nat /\ SweptAt <= now
  <2> DEFINE table == swept[t]
             key == KeyOf(s, a)[t]
  <2>1. /\ table \in Swept(t) /\ key \in Keys[t]
        /\ records'[t] = Attempt(table, t, key)
        /\ let'[t] = IF Allowed(table, t, key) THEN [let[t] EXCEPT ![key] = Append(@, now)]
                     ELSE let[t]
    BY <1>1
  <2> HIDE DEF table, key
  <2>2. /\ TableOK(t, table)
        /\ \A k \in Keys[t] : Recent(table, t, k) = let[t][k]
        /\ \A k \in Present(table) : table[k].lastSeen >= SweptAt - Window[t]
        /\ SweptAt \in Nat /\ SweptAt <= now
    BY <2>1, Sweeping
  <2>3. /\ TableOK(t, records'[t])
        /\ Recent(records'[t], t, key) = Counted(table, t, key)
        /\ \A l \in Keys[t] \ {key} : Recent(records'[t], t, l) = Recent(table, t, l)
        /\ \A l \in Present(records'[t]) :
             \/ records'[t][l].lastSeen = now
             \/ l \in Present(table) /\ records'[t][l] = table[l]
    BY <1>3, <2>1, <2>2, Attempted
  <2>4. let[t] \in [Keys[t] -> Seq(Nat)] /\ now \in Nat /\ Window[t] \in Nat \ {0}
    BY <1>3, Numbers DEF TypeOK
  <2>5. /\ let'[t][key] = Counted(table, t, key)
        /\ \A l \in Keys[t] \ {key} : let'[t][l] = let[t][l]
        /\ let'[t] \in [Keys[t] -> Seq(Nat)]
    <3>1. CASE Allowed(table, t, key)
      <4>1. /\ Counted(table, t, key) = Append(let[t][key], now)
            /\ let'[t] = [let[t] EXCEPT ![key] = Append(let[t][key], now)]
            /\ Append(let[t][key], now) \in Seq(Nat)
        BY <2>1, <2>2, <2>4, <3>1, AppendProperties DEF Counted
      <4> QED BY <2>1, <2>4, <4>1, Zenon
    <3>2. CASE ~Allowed(table, t, key)
      BY <2>1, <2>2, <2>4, <3>2 DEF Counted
    <3> QED BY <3>1, <3>2
  <2>6. \A k \in Keys[t] : let'[t][k] = Recent(records'[t], t, k)
    BY <2>2, <2>3, <2>5
  <2>7. \A k \in Present(records'[t]) : records'[t][k].lastSeen >= SweptAt - Window[t]
    BY <2>2, <2>3, <2>4
  <2> QED BY <2>2, <2>3, <2>5, <2>6, <2>7
<1>5. records' = [t \in Tables |-> records'[t]] /\ let' = [t \in Tables |-> let'[t]]
  BY <1>1
<1>6. \A t \in Tables : /\ TableOK(t, records[t])'
                        /\ \A k \in Keys[t] : let'[t][k] = Recent(records[t], t, k)'
  BY <1>2, <1>4 DEF TableOK, Recent, Present
<1>7. \A t \in Tables : \A k \in Present(records[t])' :
        records'[t][k].lastSeen >= SweptAt - Window[t]
  BY <1>4 DEF Present
<1>8. "sources" \in Tables
  BY DEF Tables
<1>9. /\ SweptAt \in Nat /\ SweptAt <= now /\ SweptAt # None
      /\ now' \in 0..MaxTime /\ checking' \in SUBSET (Sources \X Accounts)
  BY <1>2, <1>3, <1>4, <1>8, LimiterAssumption DEF TypeOK
<1> HIDE DEF IInv
<1> QED
  BY <1>2, <1>3, <1>4, <1>5, <1>6, <1>7, <1>9, Whole

\* A reset takes a key out of each table, and what it had let through with it.
LEMMA ResetKeeps ==
    ASSUME IInv, NEW s \in Sources, NEW a \in Accounts, LoginSucceeds(s, a)
    PROVE  IInv'
<1>1. /\ records' = [records EXCEPT !.sources[s] = None, !.accounts[a] = None]
      /\ let' = [let EXCEPT !.sources[s] = <<>>, !.accounts[a] = <<>>]
      /\ checking' = checking \ {<<s, a>>} /\ lastSweep' = lastSweep /\ now' = now
  BY DEF LoginSucceeds
<1>2. /\ TypeOK /\ Remembered /\ SweptLately
      /\ records = [t \in Tables |-> records[t]] /\ let = [t \in Tables |-> let[t]]
      /\ \A t \in Tables : TableOK(t, records[t])
  BY DEF IInv
<1>3. ASSUME NEW t \in Tables
      PROVE  /\ KeyOf(s, a)[t] \in Keys[t]
             /\ records'[t] = [records[t] EXCEPT ![KeyOf(s, a)[t]] = None]
             /\ let'[t] = [let[t] EXCEPT ![KeyOf(s, a)[t]] = <<>>]
  <2>1. CASE t = "sources"
    <3>1. KeyOf(s, a)[t] = s /\ Keys[t] = Sources
      BY <2>1 DEF Tables, KeyOf, Keys
    <3>2. /\ records'["sources"] = [records["sources"] EXCEPT ![s] = None]
          /\ let'["sources"] = [let["sources"] EXCEPT ![s] = <<>>]
      BY <1>1, <1>2 DEF Tables
    <3> QED BY <2>1, <3>1, <3>2, Zenon
  <2>2. CASE t = "accounts"
    <3>1. KeyOf(s, a)[t] = a /\ Keys[t] = Accounts
      BY <2>2 DEF Tables, KeyOf, Keys
    <3>2. /\ records'["accounts"] = [records["accounts"] EXCEPT ![a] = None]
          /\ let'["accounts"] = [let["accounts"] EXCEPT ![a] = <<>>]
      BY <1>1, <1>2 DEF Tables
    <3> QED BY <2>2, <3>1, <3>2, Zenon
  <2> QED BY <2>1, <2>2 DEF Tables
<1>4. records' = [t \in Tables |-> records'[t]] /\ let' = [t \in Tables |-> let'[t]]
  BY <1>1, <1>2, "sources" # "accounts" DEF Tables
<1>5. ASSUME NEW t \in Tables
      PROVE  /\ TableOK(t, records'[t])
             /\ \A k \in Keys[t] : let'[t][k] = Recent(records'[t], t, k)
             /\ let'[t] \in [Keys[t] -> Seq(Nat)]
             /\ \A k \in Present(records'[t]) :
                  lastSweep # None /\ records'[t][k].lastSeen >= lastSweep - Window[t]
  <2> DEFINE key == KeyOf(s, a)[t]
             old == records[t]
             new == records'[t]
  <2>1. /\ key \in Keys[t] /\ new = [old EXCEPT ![key] = None]
        /\ let'[t] = [let[t] EXCEPT ![key] = <<>>]
    BY <1>3
  <2>2. /\ old \in [Keys[t] -> Record \cup {None}] /\ let[t] \in [Keys[t] -> Seq(Nat)]
        /\ IsFiniteSet(Present(old)) /\ Cardinality(Present(old)) <= MaxKeys
    BY <1>2 DEF TableOK, TypeOK
  <2>3. /\ new \in [Keys[t] -> Record \cup {None}] /\ new[key] = None
        /\ \A k \in Keys[t] \ {key} : new[k] = old[k]
    <3> HIDE DEF key, old, new
    <3> QED BY <2>1, <2>2
  <2>4. \A k \in Present(new) : k \in Present(old) /\ new[k] = old[k]
    <3> HIDE DEF key, old, new
    <3> QED BY <2>2, <2>3 DEF Present
  <2>5. IsFiniteSet(Present(new)) /\ Cardinality(Present(new)) <= MaxKeys
    <3>1. Present(new) \in SUBSET Present(old)
      BY <2>4
    <3>2. /\ IsFiniteSet(Present(new)) /\ Cardinality(Present(new)) \in Nat
          /\ Cardinality(Present(new)) <= Cardinality(Present(old))
          /\ Cardinality(Present(old)) \in Nat
      BY <2>2, <3>1, FS_Subset, FS_CardinalityType
    <3> QED BY <1>2, <2>2, <3>2, Numbers
  <2>6. TableOK(t, new)
    <3> HIDE DEF key, old, new
    <3>1. TableOK(t, old)
      BY <1>2 DEF old
    <3> QED BY <2>3, <2>4, <2>5, <3>1 DEF TableOK
  <2>7. /\ let'[t] \in [Keys[t] -> Seq(Nat)] /\ let'[t][key] = <<>>
        /\ \A k \in Keys[t] \ {key} : let'[t][k] = let[t][k]
    <3>1. <<>> \in Seq(Nat)
      OBVIOUS
    <3> HIDE DEF key
    <3> QED BY <2>1, <2>2, <3>1, Zenon
  <2>8. \A k \in Keys[t] : let'[t][k] = Recent(new, t, k)
    <3>1. \A k \in Keys[t] \ {key} : let'[t][k] = Recent(new, t, k)
      <4>1. \A k \in Keys[t] : let[t][k] = Recent(old, t, k)
        BY <1>2 DEF Remembered
      <4> HIDE DEF key, old, new
      <4> QED BY <2>3, <2>7, <4>1 DEF Recent
    <3>2. let'[t][key] = Recent(new, t, key)
      <4> HIDE DEF key, old, new
      <4> QED BY <2>3, <2>7, Zenon DEF Recent
    <3> QED BY <3>1, <3>2
  <2>9. \A k \in Present(new) : lastSweep # None /\ new[k].lastSeen >= lastSweep - Window[t]
    BY <1>2, <2>4 DEF SweptLately
  <2> QED BY <2>6, <2>7, <2>8, <2>9
<1>6. \A t \in Tables : /\ TableOK(t, records[t])'
                        /\ \A k \in Keys[t] : let'[t][k] = Recent(records[t], t, k)'
  <2>1. now' = now
    BY <1>1
  <2> QED BY <1>5, <2>1 DEF TableOK, Recent, Present
<1>7. \A t \in Tables : \A k \in Present(records[t])' :
        lastSweep # None /\ records'[t][k].lastSeen >= lastSweep - Window[t]
  BY <1>5 DEF Present
<1>8. /\ now' \in 0..MaxTime /\ checking' \in SUBSET (Sources \X Accounts)
      /\ lastSweep' \in Nat \cup {None} /\ (lastSweep' # None => lastSweep' <= now')
  BY <1>1, <1>2 DEF TypeOK, SweptLately
<1> HIDE DEF IInv
<1> QED
  BY <1>1, <1>2, <1>4, <1>5, <1>6, <1>7, <1>8, Whole

\* Time goes by: what no longer counts is what a record would forget of itself.
LEMMA ElapseKeeps ==
    ASSUME IInv, Elapse
    PROVE  IInv'
<1>1. /\ now' = now + 1 /\ now < MaxTime
      /\ let' = [t \in Tables |-> [k \in Keys[t] |-> After(let[t][k], now' - Window[t])]]
      /\ records' = records /\ lastSweep' = lastSweep /\ checking' = checking
  BY DEF Elapse
<1>2. /\ TypeOK /\ Remembered /\ SweptLately
      /\ records = [t \in Tables |-> records[t]]
      /\ \A t \in Tables : TableOK(t, records[t])
  BY DEF IInv
<1>3. now \in Nat /\ MaxTime \in Nat
  BY <1>2, LimiterAssumption DEF TypeOK
<1>4. ASSUME NEW t \in Tables
      PROVE  /\ let'[t] \in [Keys[t] -> Seq(Nat)]
             /\ \A k \in Keys[t] : let'[t][k] = Recent(records[t], t, k)'
             /\ TableOK(t, records[t])'
             /\ \A k \in Present(records[t])' :
                  lastSweep' # None /\ records'[t][k].lastSeen >= lastSweep' - Window[t]
  <2>1. /\ now - Window[t] \in Int /\ now' - Window[t] \in Int
        /\ now - Window[t] <= now' - Window[t]
    BY <1>1, <1>2, <1>3, Numbers
  <2>2. ASSUME NEW k \in Keys[t]
        PROVE  /\ let'[t][k] = After(let[t][k], now' - Window[t])
               /\ let[t][k] = Recent(records[t], t, k) /\ let[t][k] \in Seq(Nat)
    BY <1>1, <1>2 DEF Remembered, TypeOK
  <2>3. let'[t] \in [Keys[t] -> Seq(Nat)]
    <3>1. \A k \in Keys[t] : After(let[t][k], now' - Window[t]) \in Seq(Nat)
      BY <2>1, <2>2, AfterType
    <3>2. let'[t] = [k \in Keys[t] |-> After(let[t][k], now' - Window[t])]
      BY <1>1
    <3> QED BY <3>1, <3>2
  <2>4. ASSUME NEW k \in Keys[t] PROVE let'[t][k] = Recent(records[t], t, k)'
    <3>1. CASE records[t][k] = None
      <4>1. Recent(records[t], t, k) = <<>> /\ Recent(records[t], t, k)' = <<>>
        BY <1>1, <3>1 DEF Recent
      <4> QED BY <2>1, <2>2, <4>1, AfterNone, Zenon
    <3>2. CASE records[t][k] # None
      <4>1. /\ Recent(records[t], t, k) = After(records[t][k].attempts, now - Window[t])
            /\ records[t][k].attempts \in Seq(Nat)
        BY <1>2, <3>2, RecentType
      <4>2. Recent(records[t], t, k)' = After(records[t][k].attempts, now' - Window[t])
        BY <1>1, <3>2 DEF Recent
      <4> QED BY <2>1, <2>2, <4>1, <4>2, AfterTwice
    <3> QED BY <3>1, <3>2
  <2>5. TableOK(t, records[t])'
    <3>1. TableOK(t, records[t])
      BY <1>2
    <3>2. \A k \in Present(records[t]) : records[t][k].lastSeen \in Nat
      BY <3>1 DEF TableOK, Record, Present
    <3>3. \A k \in Present(records[t]) : records[t][k].lastSeen <= now'
      BY <1>1, <1>3, <3>1, <3>2 DEF TableOK
    <3> QED BY <1>1, <3>1, <3>3 DEF TableOK, Present
  <2>6. \A k \in Present(records[t])' :
            lastSweep' # None /\ records'[t][k].lastSeen >= lastSweep' - Window[t]
    BY <1>1, <1>2 DEF SweptLately, Present
  <2> QED BY <2>3, <2>4, <2>5, <2>6
<1>5. /\ now' \in 0..MaxTime /\ checking' \in SUBSET (Sources \X Accounts)
      /\ lastSweep' \in Nat \cup {None} /\ (lastSweep' # None => lastSweep' <= now')
  BY <1>1, <1>2, <1>3, LimiterAssumption DEF TypeOK, SweptLately
<1>6. records' = [t \in Tables |-> records'[t]] /\ let' = [t \in Tables |-> let'[t]]
  BY <1>1, <1>2
<1> HIDE DEF IInv
<1> QED
  BY <1>2, <1>4, <1>5, <1>6, Whole

LEMMA Preserved == IInv /\ [Next]_vars => IInv'
<1> SUFFICES ASSUME IInv, [Next]_vars PROVE IInv'
  OBVIOUS
<1>1. ASSUME NEW s \in Sources, NEW a \in Accounts, LoginFails(s, a) PROVE IInv'
  <2>1. /\ records' = records /\ let' = let /\ lastSweep' = lastSweep /\ now' = now
        /\ checking' \in SUBSET (Sources \X Accounts)
    BY <1>1 DEF LoginFails, IInv, TypeOK
  <2>2. TypeOK'
    BY <2>1 DEF IInv, TypeOK, Present
  <2>3. Remembered' /\ SweptLately' /\ \A t \in Tables : TableOK(t, records[t])'
    BY <2>1 DEF IInv, Remembered, Recent, SweptLately, Present, TableOK
  <2> QED BY <2>1, <2>2, <2>3 DEF IInv
<1>2. CASE UNCHANGED vars
  <2>1. /\ records' = records /\ let' = let /\ lastSweep' = lastSweep /\ now' = now
        /\ checking' = checking
    BY <1>2 DEF vars
  <2>2. TypeOK'
    BY <2>1 DEF IInv, TypeOK, Present
  <2>3. Remembered' /\ SweptLately' /\ \A t \in Tables : TableOK(t, records[t])'
    BY <2>1 DEF IInv, Remembered, Recent, SweptLately, Present, TableOK
  <2> QED BY <2>1, <2>2, <2>3 DEF IInv
<1> QED
  BY <1>1, <1>2, AllowKeeps, ResetKeeps, ElapseKeeps DEF Next

-----------------------------------------------------------------------------
(* Theorems *)

\* The inductive invariant holds through any interleaving of logins, resets and time.
THEOREM Invariance == Spec => []IInv
  BY Initial, Preserved, PTL DEF Spec

\* Type correctness: no record outgrows its limit, no table its bound.
THEOREM TypeCorrect == Spec => []TypeOK
<1>1. IInv => TypeOK
  BY DEF IInv
<1> QED BY <1>1, Invariance, PTL

\* No key is let through more often than its limit in any window.
THEOREM LimitsHold == Spec => []WindowLimit
<1>1. ASSUME IInv PROVE WindowLimit
  <2>1. TypeOK /\ Remembered /\ \A t \in Tables : TableOK(t, records[t])
    BY <1>1 DEF IInv
  <2>2. ASSUME NEW t \in Tables, NEW k \in Keys[t] PROVE Len(let[t][k]) <= Limit[t]
    <3>1. Len(Recent(records[t], t, k)) <= Limit[t]
      BY <2>1, RecentType
    <3>2. let[t][k] = Recent(records[t], t, k)
      BY <2>1 DEF Remembered
    <3> QED BY <3>1, <3>2, Zenon
  <2> QED BY <2>2 DEF WindowLimit
<1> QED BY <1>1, Invariance, PTL

\* A key is turned away only at its limit, or from a table that is full of others.
THEOREM RefusalsAreDue == Spec => RefusedOnlyAtLimit
<1>1. ASSUME IInv, NEW s \in Sources, NEW a \in Accounts, Allow(s, a), NEW t \in Tables
      PROVE  LET k == KeyOf(s, a)[t]
             IN  let'[t][k] # let[t][k] \/ NoRoom(records'[t], k) \/ Len(let[t][k]) >= Limit[t]
  <2> DEFINE k == KeyOf(s, a)[t]
  <2>1. PICK swept :
         /\ records' = [u \in Tables |-> Attempt(swept[u], u, KeyOf(s, a)[u])]
         /\ let' = [u \in Tables |->
                      IF Allowed(swept[u], u, KeyOf(s, a)[u])
                      THEN [let[u] EXCEPT ![KeyOf(s, a)[u]] = Append(@, now)] ELSE let[u]]
         /\ \A u \in Tables : swept[u] \in Swept(u) /\ KeyOf(s, a)[u] \in Keys[u]
    BY <1>1, AllowTables
  <2> DEFINE table == swept[t]
  <2>2. /\ table \in Swept(t) /\ k \in Keys[t]
        /\ records'[t] = Attempt(table, t, k)
        /\ let'[t] = IF Allowed(table, t, k) THEN [let[t] EXCEPT ![k] = Append(@, now)]
                     ELSE let[t]
    BY <2>1
  <2> HIDE DEF table, k
  <2>3. /\ Recent(table, t, k) = let[t][k] /\ let[t] \in [Keys[t] -> Seq(Nat)]
        /\ now \in Nat /\ Limit[t] \in Nat
    BY <1>1, <2>2, Sweeping, Numbers DEF IInv, TypeOK
  <2>4. CASE Allowed(table, t, k)
    <3>1. let'[t][k] = Append(let[t][k], now)
      BY <2>2, <2>3, <2>4
    <3>2. Len(Append(let[t][k], now)) = Len(let[t][k]) + 1 /\ Len(let[t][k]) \in Nat
      BY <2>2, <2>3, AppendProperties, LenProperties
    <3>3. Append(let[t][k], now) # let[t][k]
      BY <3>2
    <3> QED BY <3>1, <3>3 DEF k
  <2>5. CASE NoRoom(table, k)
    BY <2>2, <2>5 DEF Attempt, k
  <2>6. CASE ~Allowed(table, t, k) /\ ~NoRoom(table, k)
    <3>1. ~(Len(let[t][k]) < Limit[t]) /\ Len(let[t][k]) \in Nat
      BY <2>2, <2>3, <2>6, LenProperties DEF Allowed
    <3>2. Len(let[t][k]) >= Limit[t]
      BY <2>3, <3>1
    <3> QED BY <3>2 DEF k
  <2> QED BY <2>4, <2>5, <2>6
<1>2. IInv /\ [Next]_vars =>
        [\A s \in Sources, a \in Accounts : Allow(s, a) =>
           \A t \in Tables :
              LET k == KeyOf(s, a)[t]
              IN  let'[t][k] # let[t][k] \/ NoRoom(records'[t], k)
                      \/ Len(let[t][k]) >= Limit[t]]_vars
  BY <1>1
<1> QED BY <1>2, Invariance, PTL DEF Spec, RefusedOnlyAtLimit

\* Every key that a table keeps has tried within its window and one interval of the sweep.
THEOREM TablesRecover == Spec => KeysSeenLately
<1>1. ASSUME IInv, NEW s \in Sources, NEW a \in Accounts, Allow(s, a), NEW t \in Tables,
             NEW k \in Present(records'[t])
      PROVE  records'[t][k].lastSeen > now - Window[t] - SweepInterval
  <2>1. PICK swept :
         /\ records' = [u \in Tables |-> Attempt(swept[u], u, KeyOf(s, a)[u])]
         /\ \A u \in Tables : swept[u] \in Swept(u) /\ KeyOf(s, a)[u] \in Keys[u]
    BY <1>1, AllowTables
  <2> DEFINE table == swept[t]
  <2>2. /\ table \in Swept(t) /\ KeyOf(s, a)[t] \in Keys[t]
        /\ records'[t] = Attempt(table, t, KeyOf(s, a)[t])
    BY <2>1
  <2> HIDE DEF table
  <2>3. /\ TableOK(t, table) /\ TypeOK
        /\ \A l \in Present(table) : table[l].lastSeen >= SweptAt - Window[t]
        /\ SweptAt \in Nat /\ now - SweptAt < SweepInterval
        /\ now \in Nat /\ Window[t] \in Nat \ {0} /\ SweepInterval \in Nat \ {0}
    BY <1>1, <2>2, Sweeping, Numbers DEF IInv
  <2>4. \/ records'[t][k].lastSeen = now
        \/ k \in Present(table) /\ records'[t][k] = table[k]
    BY <1>1, <2>2, <2>3, Attempted
  <2>5. CASE records'[t][k].lastSeen = now
    BY <2>3, <2>5
  <2>6. CASE k \in Present(table) /\ records'[t][k] = table[k]
    <3>1. table[k].lastSeen \in Nat
      BY <2>3, <2>6 DEF TableOK, Record, Present
    <3> QED BY <2>3, <2>6, <3>1
  <2> QED BY <2>4, <2>5, <2>6
<1>2. IInv /\ [Next]_vars =>
        [\A s \in Sources, a \in Accounts : Allow(s, a) =>
           \A t \in Tables : \A k \in Present(records'[t]) :
              records'[t][k].lastSeen > now - Window[t] - SweepInterval]_vars
  BY <1>1
<1> QED BY <1>2, Invariance, PTL DEF Spec, KeysSeenLately
=============================================================================
