---------------------------- MODULE SurveyProofs ----------------------------
(***************************************************************************)
(* Theorems about Survey, for addresses of any width, any limits and any   *)
(* network: what a form makes the scanner visit, which networks the page   *)
(* suggests, and which devices it shows as the same machine.               *)
(***************************************************************************)
EXTENDS Survey, FiniteSetTheorems, FunctionTheorems, SequenceTheorems,
        WellFoundedInduction, TLAPS

\* A job has the addresses of its form, and a device some of its own keys.
IInv ==
    /\ TypeOK
    /\ scanned = (IF form = NoForm \/ Refused(form, allowed) THEN <<>> ELSE ParseTarget(form))
    /\ \A a \in DOMAIN devices : devices[a].ssh \subseteq HostKeys[a]

-----------------------------------------------------------------------------
(* Powers of two *)

\* Numbers have a least one.
LEMMA Least ==
    ASSUME NEW S \in SUBSET Nat, S # {}
    PROVE  \E n \in S : \A m \in S : n <= m
<1>1. \E n \in S : \A m \in S : ~(<<m, n>> \in OpToRel(<, Nat))
  BY NatLessThanWellFounded, WFMin
<1>2. ASSUME NEW m \in Nat, NEW n \in Nat, ~(<<m, n>> \in OpToRel(<, Nat))
      PROVE  n <= m
  <2>1. ~(m < n)
    BY <1>2 DEF OpToRel
  <2> QED BY <2>1
<1> QED
  BY <1>1, <1>2

\* They count the sets of numbers up to n.
LEMMA PowerCounts ==
    ASSUME NEW n \in Nat
    PROVE  IsFiniteSet(SUBSET (1..n)) /\ Cardinality(SUBSET (1..n)) = 2^n
<1>1. IsFiniteSet(1..n) /\ Cardinality(1..n) = n
  BY FS_Interval
<1> QED
  BY <1>1, FS_SUBSET

LEMMA PowerPositive ==
    ASSUME NEW n \in Nat
    PROVE  2^n \in Nat /\ 2^n > 0
<1>1. IsFiniteSet(SUBSET (1..n)) /\ Cardinality(SUBSET (1..n)) = 2^n /\ SUBSET (1..n) # {}
  BY PowerCounts
<1>2. 2^n \in Nat
  BY <1>1, FS_CardinalityType
<1>3. 2^n # 0
  BY <1>1, FS_EmptySet
<1> QED
  BY <1>2, <1>3

\* Half of the sets of numbers up to n + 1 do not have it.
LEMMA PowerDoubles ==
    ASSUME NEW n \in Nat
    PROVE  2^(n + 1) = 2 * 2^n
<1> DEFINE A == SUBSET (1..n)
           x == n + 1
           B == {s \cup {x} : s \in A}
           f == [s \in A |-> s \cup {x}]
<1>1. IsFiniteSet(A) /\ Cardinality(A) = 2^n /\ 2^n \in Nat
  BY PowerCounts, PowerPositive
<1>2. IsFiniteSet(SUBSET (1..x)) /\ Cardinality(SUBSET (1..x)) = 2^(n + 1)
  <2>1. x \in Nat
    OBVIOUS
  <2> HIDE DEF x
  <2>2. IsFiniteSet(SUBSET (1..x)) /\ Cardinality(SUBSET (1..x)) = 2^x
    BY <2>1, PowerCounts
  <2> QED BY <2>2 DEF x
<1>3. 1..x = (1..n) \cup {x} /\ x \notin 1..n
  OBVIOUS
<1> HIDE DEF x
<1>4. SUBSET (1..x) = A \cup B
  <2>1. ASSUME NEW s \in SUBSET (1..x) PROVE s \in A \cup B
    <3>1. CASE x \in s
      <4>1. s \ {x} \in A /\ s = (s \ {x}) \cup {x}
        BY <1>3, <3>1
      <4> QED BY <4>1
    <3>2. CASE x \notin s
      BY <1>3, <3>2
    <3> QED BY <3>1, <3>2
  <2>2. ASSUME NEW s \in A \cup B PROVE s \in SUBSET (1..x)
    BY <1>3
  <2> QED BY <2>1, <2>2
<1>5. A \cap B = {}
  BY <1>3
<1>6. f \in Bijection(A, B)
  <2>1. f \in [A -> B]
    OBVIOUS
  <2>2. ASSUME NEW s \in A, NEW t \in A, f[s] = f[t] PROVE s = t
    <3>1. s \cup {x} = t \cup {x} /\ x \notin s /\ x \notin t
      BY <1>3, <2>2
    <3> HIDE DEF f, A
    <3> QED BY <3>1
  <2>3. ASSUME NEW b \in B PROVE \E s \in A : f[s] = b
    OBVIOUS
  <2> HIDE DEF A, B, f
  <2> QED BY <2>1, <2>2, <2>3, Fun_IsBij
<1> HIDE DEF A, B, f
<1>7. ExistsBijection(A, B)
  BY <1>6 DEF ExistsBijection
<1>8. IsFiniteSet(B) /\ Cardinality(B) = Cardinality(A)
  BY <1>1, <1>7, FS_Bijection
<1>9. Cardinality(A \cup B) = Cardinality(A) + Cardinality(B) - Cardinality(A \cap B)
  BY <1>1, <1>8, FS_Union
<1>10. Cardinality(A \cap B) = 0
  BY <1>5, FS_EmptySet
<1>11. Cardinality(SUBSET (1..x)) = Cardinality(A) + Cardinality(A)
  BY <1>1, <1>4, <1>8, <1>9, <1>10
<1> QED
  BY <1>1, <1>2, <1>11

LEMMA PowerSum ==
    ASSUME NEW m \in Nat, NEW k \in Nat
    PROVE  2^(m + k) = 2^m * 2^k
<1> DEFINE Bad == {n \in Nat : 2^(m + n) # 2^m * 2^n}
<1>1. SUFFICES ASSUME Bad # {} PROVE FALSE
  OBVIOUS
<1>2. PICK n \in Bad : \A l \in Bad : n <= l
  <2>1. Bad \in SUBSET Nat
    OBVIOUS
  <2> HIDE DEF Bad
  <2> QED BY <1>1, <2>1, Least
<1>3. CASE n = 0
  <2>1. 2^0 = 1 /\ m + 0 = m /\ 2^m \in Nat
    BY PowerPositive
  <2> QED BY <1>3, <2>1
<1>4. CASE n # 0
  <2> DEFINE l == n - 1
  <2>1. l \in Nat /\ n = l + 1 /\ m + l \in Nat /\ m + n = (m + l) + 1
    BY <1>4
  <2>2. l \notin Bad
    BY <1>2, <2>1
  <2> HIDE DEF l
  <2>3. 2^(m + l) = 2^m * 2^l
    BY <2>1, <2>2
  <2>4. 2^n = 2 * 2^l
    BY <2>1, PowerDoubles
  <2>5. 2^(m + n) = 2 * 2^(m + l)
    <3> DEFINE j == m + l
    <3>1. j \in Nat /\ m + n = j + 1
      BY <2>1
    <3> HIDE DEF j
    <3>2. 2^(m + n) = 2 * 2^j
      BY <3>1, PowerDoubles
    <3> QED BY <3>2 DEF j
  <2>6. 2^m \in Nat /\ 2^l \in Nat
    BY <2>1, PowerPositive
  <2>7. 2^(m + n) = 2^m * 2^n
    BY <2>3, <2>4, <2>5, <2>6
  <2> QED BY <2>7
<1> QED
  BY <1>3, <1>4

-----------------------------------------------------------------------------
(* Networks *)

\* What division by h says.
LEMMA Quotient ==
    ASSUME NEW n \in Nat, NEW h \in Nat, h > 0
    PROVE  /\ n \div h \in Nat
           /\ (n \div h) * h \in Nat
           /\ (n \div h) * h <= n /\ n < (n \div h) * h + h
  OBVIOUS

LEMMA QuotientIs ==
    ASSUME NEW n \in Nat, NEW h \in Nat, h > 0, NEW k \in Nat, k * h <= n, n < k * h + h
    PROVE  n \div h = k
  OBVIOUS

\* A larger quotient is that of a number beyond.
LEMMA QuotientLess ==
    ASSUME NEW m \in Nat, NEW n \in Nat, NEW h \in Nat, h > 0, m \div h < n \div h
    PROVE  m < (n \div h) * h
<1> DEFINE j == m \div h
           k == n \div h
<1>1. j \in Nat /\ k \in Nat /\ j < k /\ m < j * h + h
  BY Quotient
<1> HIDE DEF j, k
<1>2. j * h + h <= k * h
  BY <1>1
<1>3. j * h \in Nat /\ k * h \in Nat
  BY <1>1
<1> QED
  BY <1>1, <1>2, <1>3 DEF k

LEMMA QuotientTwice ==
    ASSUME NEW n \in Nat, NEW h \in Nat, h > 0, NEW j \in Nat, j > 0
    PROVE  (n \div h) \div j = n \div (h * j)
  OBVIOUS

\* The size of a network of that many bits.
Size(bits) == 2^(Width - bits)

LEMMA Sizes ==
    ASSUME NEW bits \in Bits
    PROVE  /\ Size(bits) \in Nat /\ Size(bits) > 0
           /\ 2^bits \in Nat /\ 2^bits > 0
           /\ 2^Width = 2^bits * Size(bits)
<1> DEFINE rest == Width - bits
<1>1. bits \in Nat /\ rest \in Nat /\ bits + rest = Width
  BY TargetsAssumption DEF Bits
<1> HIDE DEF rest
<1>2. 2^(bits + rest) = 2^bits * 2^rest
  BY <1>1, PowerSum
<1>3. 2^bits \in Nat /\ 2^bits > 0 /\ 2^rest \in Nat /\ 2^rest > 0
  BY <1>1, PowerPositive
<1> QED
  BY <1>1, <1>2, <1>3 DEF Size, rest

\* A network is a whole number of smaller ones.
LEMMA SizesNest ==
    ASSUME NEW b \in Bits, NEW c \in Bits, b <= c
    PROVE  \E j \in Nat : j > 0 /\ Size(b) = Size(c) * j
<1> DEFINE m == Width - c
           k == c - b
<1>1. m \in Nat /\ k \in Nat /\ m + k = Width - b
  BY TargetsAssumption DEF Bits
<1> HIDE DEF m, k
<1>2. 2^(m + k) = 2^m * 2^k /\ 2^k \in Nat /\ 2^k > 0
  BY <1>1, PowerSum, PowerPositive
<1> QED
  BY <1>1, <1>2 DEF Size, m

LEMMA AddressesAre ==
    /\ 2^Width \in Nat /\ 2^Width > 0
    /\ \A a : a \in Addresses <=> a \in Nat /\ a < 2^Width
<1>1. 2^Width \in Nat /\ 2^Width > 0
  BY TargetsAssumption, PowerPositive
<1> DEFINE all == 2^Width
<1>2. all \in Nat /\ all > 0 /\ Addresses = 0..(all - 1)
  BY <1>1 DEF Addresses
<1> HIDE DEF all
<1>3. \A a : a \in Addresses <=> a \in Nat /\ a < all
  BY <1>2
<1> QED
  BY <1>1, <1>3 DEF all

\* Addresses of one network are in one wider network.
LEMMA Coarser ==
    ASSUME NEW a \in Nat, NEW n \in Nat, NEW b \in Bits, NEW c \in Bits, b <= c,
           NetworkOf(a, c) = NetworkOf(n, c)
    PROVE  NetworkOf(a, b) = NetworkOf(n, b)
<1>1. PICK j \in Nat : j > 0 /\ Size(b) = Size(c) * j
  BY SizesNest
<1>2. Size(c) \in Nat /\ Size(c) > 0
  BY Sizes
<1>3. a \div Size(c) = n \div Size(c)
  BY DEF NetworkOf, Size
<1>4. (a \div Size(c)) \div j = a \div (Size(c) * j) /\ (n \div Size(c)) \div j = n \div (Size(c) * j)
  BY <1>1, <1>2, QuotientTwice
<1>5. a \div Size(b) = n \div Size(b)
  BY <1>1, <1>3, <1>4
<1> QED
  BY <1>5 DEF NetworkOf, Size

\* The addresses of a network, from its first to its last.
LEMMA NetworkExtent ==
    ASSUME NEW n \in Addresses, NEW b \in Bits
    PROVE  /\ Masked(n, b) \in Nat
           /\ Masked(n, b) <= n /\ n < Masked(n, b) + Size(b)
           /\ Masked(n, b) + Size(b) <= 2^Width
           /\ \A a \in Nat : NetworkOf(a, b) = NetworkOf(n, b) <=>
                                Masked(n, b) <= a /\ a < Masked(n, b) + Size(b)
<1> DEFINE h == Size(b)
           k == n \div h
           all == 2^b
<1>1. /\ h \in Nat /\ h > 0 /\ all \in Nat /\ all > 0 /\ 2^Width = all * h
      /\ n \in Nat /\ n < 2^Width
  BY Sizes, AddressesAre
<1>2. Masked(n, b) = k * h
  BY DEF Masked, NetworkOf, Size
<1> HIDE DEF h
<1>3. k \in Nat /\ k * h \in Nat /\ k * h <= n /\ n < k * h + h
  BY <1>1, Quotient
<1> HIDE DEF all
<1>4. k * h + h <= all * h
  <2>1. k < all
    <3>1. SUFFICES ASSUME all <= k PROVE FALSE
      BY <1>1, <1>3
    <3> HIDE DEF k
    <3>2. all * h <= k * h
      BY <1>1, <1>3, <3>1
    <3>3. all * h \in Nat
      BY <1>1
    <3> QED BY <1>1, <1>3, <3>2, <3>3
  <2> HIDE DEF k
  <2> QED BY <1>1, <1>3, <2>1
<1>5. ASSUME NEW a \in Nat
      PROVE  a \div h = k <=> k * h <= a /\ a < k * h + h
  <2>1. a \div h = k => k * h <= a /\ a < k * h + h
    BY <1>1, Quotient
  <2> HIDE DEF k
  <2>2. k * h <= a /\ a < k * h + h => a \div h = k
    BY <1>1, <1>3, QuotientIs
  <2> QED BY <2>1, <2>2
<1>6. \A a \in Nat : NetworkOf(a, b) = NetworkOf(n, b) <=> k * h <= a /\ a < k * h + h
  BY <1>5 DEF NetworkOf, h, Size
<1> HIDE DEF k
<1> QED
  BY <1>1, <1>2, <1>3, <1>4, <1>6 DEF h

-----------------------------------------------------------------------------
(* Targets *)

LEMMA WalkVisits ==
    ASSUME NEW first \in Nat, NEW last \in Nat, first <= last
    PROVE  /\ Walk(first, last) # <<>>
           /\ Range(Walk(first, last)) = first..last
           /\ Len(Walk(first, last)) = Cardinality(first..last)
           /\ IsFiniteSet(first..last)
           /\ Cardinality(first..last) = last - first + 1
           /\ \A S : first..last \subseteq S => Walk(first, last) \in Seq(S)
<1> DEFINE w == Walk(first, last)
           n == last - first + 1
<1>1. n \in Nat /\ n > 0 /\ w = [i \in 1..n |-> first + i - 1]
  BY DEF Walk
<1>2. IsFiniteSet(first..last) /\ Cardinality(first..last) = n
  BY FS_Interval
<1> HIDE DEF w
<1>3. DOMAIN w = 1..n /\ \A i \in 1..n : w[i] = first + i - 1
  BY <1>1
<1>4. Range(w) = first..last
  <2>1. ASSUME NEW i \in 1..n PROVE w[i] \in first..last
    BY <1>3
  <2>2. ASSUME NEW a \in first..last PROVE \E i \in 1..n : w[i] = a
    <3>1. a - first + 1 \in 1..n /\ w[a - first + 1] = a
      BY <1>3
    <3> QED BY <3>1
  <2> HIDE DEF n
  <2> QED BY <1>3, <2>1, <2>2 DEF Range
<1>5. ASSUME NEW S, first..last \subseteq S PROVE w \in Seq(S)
  <2>1. \A i \in 1..n : first + i - 1 \in S
    BY <1>5
  <2> QED BY <1>1, <2>1
<1>6. Len(w) = n
  BY <1>1
<1>7. w # <<>>
  BY <1>1, <1>6
<1> QED
  BY <1>1, <1>2, <1>4, <1>5, <1>6, <1>7 DEF w

\* How many addresses a network has at each end that are no hosts.
Edge(bits) == IF bits <= Width - 2 THEN 1 ELSE 0

\* A network's hosts are those between its edges.
LEMMA HostsAreWalked ==
    ASSUME NEW n \in Addresses, NEW b \in Bits
    PROVE  LET first == Masked(n, b) + Edge(b)
               last  == Masked(n, b) + Size(b) - 1 - Edge(b)
           IN  /\ HostsOf(Masked(n, b), b) = Walk(first, last)
               /\ first \in Nat /\ last \in Nat /\ first <= last /\ last \in Addresses
<1> DEFINE base == Masked(n, b)
           h == Size(b)
           all == Walk(base, base + h - 1)
           first == base + Edge(b)
           last == base + h - 1 - Edge(b)
<1>1. /\ base \in Nat /\ h \in Nat /\ h > 0 /\ base + h <= 2^Width
      /\ 2^Width \in Nat
      /\ \A a : a \in Addresses <=> a \in Nat /\ a < 2^Width
  BY NetworkExtent, Sizes, AddressesAre
<1>2. HostsOf(base, b) = IF b <= Width - 2 THEN SubSeq(all, 2, Len(all) - 1) ELSE all
  BY DEF HostsOf, Size
<1>3. CASE b <= Width - 2
  <2>1. h >= 4
    <3> DEFINE k == Width - b - 2
    <3>1. k \in Nat /\ Width - b = k + 2
      BY <1>3, TargetsAssumption DEF Bits
    <3> HIDE DEF k
    <3>2. 2^k \in Nat /\ 2^k > 0
      BY <3>1, PowerPositive
    <3>3. h = 4 * 2^k
      <4>1. 2^(k + 1) = 2 * 2^k
        BY <3>1, PowerDoubles
      <4> DEFINE j == k + 1
      <4>2. j \in Nat /\ k + 2 = j + 1
        BY <3>1
      <4> HIDE DEF j
      <4>3. 2^(k + 2) = 2 * 2^j
        BY <4>2, PowerDoubles
      <4>4. 2^(k + 2) = 2 * (2 * 2^k)
        BY <4>1, <4>3 DEF j
      <4> QED BY <3>1, <3>2, <4>4 DEF Size
    <3> HIDE DEF h
    <3> QED BY <3>2, <3>3
  <2> HIDE DEF base, h
  <2>2. all = [i \in 1..h |-> base + i - 1] /\ Len(all) = h
    BY <1>1 DEF Walk
  <2>3. SubSeq(all, 2, h - 1) = [i \in 1..(h - 2) |-> base + i]
    BY <1>1, <2>1, <2>2
  <2>4. Walk(base + 1, base + h - 2) = [i \in 1..(h - 2) |-> base + i]
    BY <1>1, <2>1 DEF Walk
  <2>5. Edge(b) = 1
    BY <1>3 DEF Edge
  <2>6. HostsOf(base, b) = SubSeq(all, 2, Len(all) - 1)
    BY <1>2, <1>3
  <2>7. first = base + 1 /\ last = base + h - 2
    BY <1>1, <2>5
  <2> HIDE DEF all, first, last
  <2>8. HostsOf(base, b) = Walk(first, last)
    BY <2>2, <2>3, <2>4, <2>6, <2>7
  <2>9. first \in Nat /\ last \in Nat /\ first <= last /\ last \in Addresses
    BY <1>1, <2>1, <2>7
  <2> QED BY <2>8, <2>9 DEF first, last, base, h
<1>4. CASE ~(b <= Width - 2)
  <2>1. HostsOf(base, b) = all /\ Edge(b) = 0
    BY <1>2, <1>4 DEF Edge
  <2> HIDE DEF base, h
  <2>2. first = base /\ last = base + h - 1
    BY <1>1, <2>1
  <2>3. first \in Nat /\ last \in Nat /\ first <= last /\ last \in Addresses
    BY <1>1, <2>2
  <2> QED BY <2>1, <2>2, <2>3 DEF base, h
<1> QED
  BY <1>3, <1>4

\* What a prefix names are its hosts.
LEMMA NamedByPrefix ==
    ASSUME NEW n \in Addresses, NEW b \in Bits,
           NEW f, f = [kind |-> "prefix", start |-> n, bits |-> b]
    PROVE  Named(f) = (Masked(n, b) + Edge(b))..(Masked(n, b) + Size(b) - 1 - Edge(b))
<1> DEFINE network == {a \in Addresses : NetworkOf(a, b) = NetworkOf(n, b)}
           base == Masked(n, b)
           h == Size(b)
<1>1. /\ base \in Nat /\ h \in Nat /\ h > 0 /\ base + h <= 2^Width /\ 2^Width \in Nat
      /\ \A a : a \in Addresses <=> a \in Nat /\ a < 2^Width
      /\ \A a \in Nat : NetworkOf(a, b) = NetworkOf(n, b) <=> base <= a /\ a < base + h
  BY NetworkExtent, Sizes, AddressesAre
<1>2. Named(f) = IF Width - b < 2 THEN network
                 ELSE {a \in network : a - 1 \in network /\ a + 1 \in network}
  BY DEF Named
<1>3. \A a : a \in network <=> a \in Nat /\ base <= a /\ a < base + h
  BY <1>1
<1> HIDE DEF base, h, network
<1>4. CASE Width - b < 2
  <2>1. ~(b <= Width - 2)
    BY <1>4, TargetsAssumption DEF Bits
  <2>2. Edge(b) = 0
    BY <2>1 DEF Edge
  <2>3. network = base..(base + h - 1)
    <3>1. \A a : a \in network <=> a \in base..(base + h - 1)
      BY <1>1, <1>3
    <3> QED BY <3>1
  <2>4. base + Edge(b) = base /\ base + h - 1 - Edge(b) = base + h - 1
    BY <1>1, <2>2
  <2> QED BY <1>2, <1>4, <2>3, <2>4 DEF base, h
<1>5. CASE ~(Width - b < 2)
  <2>1. b <= Width - 2
    BY <1>5, TargetsAssumption DEF Bits
  <2>2. Edge(b) = 1
    BY <2>1 DEF Edge
  <2>3. {a \in network : a - 1 \in network /\ a + 1 \in network} = (base + 1)..(base + h - 2)
    BY <1>1, <1>3
  <2>4. base + Edge(b) = base + 1 /\ base + h - 1 - Edge(b) = base + h - 2
    BY <1>1, <2>2
  <2> QED BY <1>2, <1>5, <2>3, <2>4 DEF base, h
<1> QED
  BY <1>4, <1>5

\* A form is an address, a range, a prefix or no target.
LEMMA FormKinds ==
    ASSUME NEW f \in Forms
    PROVE  \/ \E a \in Addresses : f = [kind |-> "address", start |-> a]
           \/ \E a \in Addresses, b \in Addresses :
                f = [kind |-> "range", start |-> a, end |-> b]
           \/ \E a \in Addresses, b \in Bits :
                f = [kind |-> "prefix", start |-> a, bits |-> b]
           \/ f = [kind |-> "other"]
<1>1. CASE f \in [kind : {"address"}, start : Addresses]
  BY <1>1
<1>2. CASE f \in [kind : {"range"}, start : Addresses, end : Addresses]
  BY <1>2
<1>3. CASE f \in [kind : {"prefix"}, start : Addresses, bits : Bits]
  BY <1>3
<1>4. CASE f \in [kind : {"other"}]
  BY <1>4
<1> QED
  BY <1>1, <1>2, <1>3, <1>4 DEF Forms

\* What a form names may be scanned, as far as its addresses' values say.
Fits(f) ==
    /\ Named(f) # {} /\ Cardinality(Named(f)) <= MaximumAddresses
    /\ Named(f) \cap ({0} \cup Multicast) = {}

\* What a form has to do with its target.
Exact(f) ==
    /\ ParseTarget(f) \in Seq(Addresses)
    /\ ParseTarget(f) # <<>> =>
        /\ Fits(f)
        /\ Range(ParseTarget(f)) = Named(f)
        /\ Len(ParseTarget(f)) = Cardinality(Named(f))
    /\ Fits(f) => ParseTarget(f) # <<>> \/ NetworkOf(f.start, MinimumPrefixBits) = 0

\* Networks of the least prefix are as large as a target may be, and whole networks are
\* multicast or local.
LEMMA Limits ==
    /\ MinimumPrefixBits \in Bits /\ MaximumAddresses = Size(MinimumPrefixBits)
    /\ MaximumAddresses \in Nat /\ MaximumAddresses >= 4
    /\ \A S \in {Multicast, Local} :
        /\ S \subseteq Addresses /\ 0 \notin S
        /\ \A a \in S, b \in Addresses :
            NetworkOf(a, MinimumPrefixBits) = NetworkOf(b, MinimumPrefixBits) => b \in S
<1>1. MinimumPrefixBits \in Bits
  BY TargetsAssumption DEF Bits
<1>2. MaximumAddresses = Size(MinimumPrefixBits)
  BY TargetsAssumption DEF Size
<1>3. MaximumAddresses \in Nat /\ MaximumAddresses >= 4
  <2> DEFINE k == Width - MinimumPrefixBits - 2
  <2>1. k \in Nat /\ Width - MinimumPrefixBits = (k + 1) + 1 /\ k + 1 \in Nat
    BY TargetsAssumption
  <2> HIDE DEF k
  <2>2. 2^k \in Nat /\ 2^k > 0 /\ 2^(k + 1) = 2 * 2^k
    BY <2>1, PowerPositive, PowerDoubles
  <2> DEFINE j == k + 1
  <2>3. j \in Nat /\ Width - MinimumPrefixBits = j + 1 /\ 2^j = 2 * 2^k
    BY <2>1, <2>2
  <2> HIDE DEF j
  <2>4. 2^(j + 1) = 2 * 2^j
    BY <2>3, PowerDoubles
  <2>5. MaximumAddresses = 2 * (2 * 2^k)
    BY <2>3, <2>4, TargetsAssumption
  <2> QED BY <2>2, <2>5
<1>4. \A S \in {Multicast, Local} :
        /\ S \subseteq Addresses /\ 0 \notin S
        /\ \A a \in S, b \in Addresses :
            NetworkOf(a, MinimumPrefixBits) = NetworkOf(b, MinimumPrefixBits) => b \in S
  BY TargetsAssumption
<1> QED
  BY <1>1, <1>2, <1>3, <1>4

LEMMA AddressExact ==
    ASSUME NEW a \in Addresses, NEW f, f = [kind |-> "address", start |-> a]
    PROVE  Exact(f)
<1>1. ParseTarget(f) = IF Scannable(a) THEN <<a>> ELSE <<>>
  BY DEF ParseTarget
<1>2. Named(f) = {a} /\ Cardinality({a}) = 1
  BY FS_Singleton DEF Named
<1>3. Scannable(a) <=> {a} \cap ({0} \cup Multicast) = {}
  BY DEF Scannable
<1>4. Fits(f) <=> Scannable(a)
  BY <1>2, <1>3, Limits DEF Fits
<1>5. <<a>> \in Seq(Addresses) /\ <<a>> # <<>> /\ Range(<<a>>) = {a} /\ Len(<<a>>) = 1
  <2>1. DOMAIN <<a>> = {1} /\ <<a>>[1] = a
    OBVIOUS
  <2>2. Range(<<a>>) = {a}
    BY <2>1 DEF Range
  <2> QED BY <2>2
<1> QED
  BY <1>1, <1>2, <1>4, <1>5, EmptySeq DEF Exact

\* Between two permitted addresses that are near each other all are permitted.
LEMMA NoneBetween ==
    ASSUME NEW a \in Addresses, NEW b \in Addresses, Scannable(a), Scannable(b),
           b - a < MaximumAddresses, NEW x \in a..b
    PROVE  x \in Addresses /\ x # 0 /\ x \notin Multicast
<1>1. a \in Nat /\ b \in Nat /\ b < 2^Width /\ 2^Width \in Nat
  BY AddressesAre
<1>2. x \in Nat /\ a <= x /\ x <= b
  BY <1>1
<1>3. x \in Addresses
  BY <1>1, <1>2, AddressesAre
<1>4. x # 0
  BY <1>1, <1>2 DEF Scannable
<1>5. ASSUME x \in Multicast PROVE FALSE
  <2> DEFINE m == MinimumPrefixBits
             base == Masked(x, m)
  <2>1. m \in Bits /\ NetworkOf(a, m) # NetworkOf(x, m) /\ NetworkOf(b, m) # NetworkOf(x, m)
    BY <1>3, <1>5, Limits DEF Scannable
  <2>2. /\ base \in Nat /\ base <= x /\ x < base + Size(m)
        /\ ~(base <= a /\ a < base + Size(m))
        /\ ~(base <= b /\ b < base + Size(m))
    BY <1>1, <1>3, <2>1, NetworkExtent
  <2>3. Size(m) = MaximumAddresses /\ MaximumAddresses \in Nat
    BY Limits
  <2> HIDE DEF base, m
  <2> QED BY <1>1, <1>2, <2>2, <2>3
<1> QED
  BY <1>3, <1>4, <1>5

LEMMA RangeExact ==
    ASSUME NEW a \in Addresses, NEW b \in Addresses,
           NEW f, f = [kind |-> "range", start |-> a, end |-> b]
    PROVE  Exact(f)
<1> DEFINE fine == Scannable(a) /\ Scannable(b) /\ a <= b /\ WithinLimit(a, b)
<1>1. ParseTarget(f) = IF fine THEN Walk(a, b) ELSE <<>>
  BY DEF ParseTarget
<1>2. a \in Nat /\ b \in Nat /\ b < 2^Width /\ 2^Width \in Nat
  BY AddressesAre
<1>3. Named(f) = a..b
  <2>1. Named(f) = {x \in Addresses : a <= x /\ x <= b}
    BY DEF Named
  <2>2. \A x : x \in a..b <=> x \in Addresses /\ a <= x /\ x <= b
    BY <1>2, AddressesAre
  <2> QED BY <2>1, <2>2
<1>4. CASE fine
  <2>1. b - a < MaximumAddresses /\ MaximumAddresses \in Nat
    BY <1>4, Limits DEF WithinLimit
  <2>2. \A x \in a..b : x \in Addresses /\ x # 0 /\ x \notin Multicast
    BY <1>4, <2>1, NoneBetween
  <2>3. /\ Walk(a, b) # <<>> /\ Range(Walk(a, b)) = a..b
        /\ Len(Walk(a, b)) = Cardinality(a..b) /\ Cardinality(a..b) = b - a + 1
        /\ \A S : a..b \subseteq S => Walk(a, b) \in Seq(S)
    BY <1>2, <1>4, WalkVisits
  <2>4. Walk(a, b) \in Seq(Addresses)
    BY <2>2, <2>3
  <2>5. Fits(f)
    <3>1. a..b # {} /\ Cardinality(a..b) <= MaximumAddresses
      <4>1. a <= b
        BY <1>4
      <4>2. a \in a..b
        BY <1>2, <4>1
      <4>3. Cardinality(a..b) = b - a + 1
        BY <2>3
      <4>4. b - a + 1 <= MaximumAddresses
        BY <1>2, <2>1
      <4>5. a..b # {}
        BY <4>2
      <4> QED BY <4>3, <4>4, <4>5, Zenon
    <3>2. (a..b) \cap ({0} \cup Multicast) = {}
      BY <2>2
    <3> QED BY <1>3, <3>1, <3>2 DEF Fits
  <2>6. ParseTarget(f) = Walk(a, b)
    BY <1>1, <1>4
  <2> QED BY <1>3, <2>3, <2>4, <2>5, <2>6 DEF Exact
<1>5. CASE ~fine
  <2>1. ASSUME Fits(f) PROVE FALSE
    <3>1. a..b # {} /\ Cardinality(a..b) <= MaximumAddresses /\ (a..b) \cap ({0} \cup Multicast) = {}
      BY <1>3, <2>1 DEF Fits
    <3>2. a <= b
      BY <1>2, <3>1
    <3>3. Cardinality(a..b) = b - a + 1 /\ MaximumAddresses \in Nat
      BY <1>2, <3>2, FS_Interval, Limits
    <3>4. WithinLimit(a, b)
      BY <1>2, <3>1, <3>3 DEF WithinLimit
    <3>5. a \in a..b /\ b \in a..b
      BY <1>2, <3>2
    <3>6. Scannable(a) /\ Scannable(b)
      BY <3>1, <3>5 DEF Scannable
    <3> QED BY <1>5, <3>2, <3>4, <3>6
  <2>2. ParseTarget(f) = <<>>
    BY <1>1, <1>5
  <2> QED BY <2>1, <2>2, EmptySeq DEF Exact
<1> QED
  BY <1>4, <1>5

\* A longer prefix names a smaller network, and a shorter one one of twice the size at least.
LEMMA SizesOrdered ==
    ASSUME NEW b \in Bits
    PROVE  /\ b >= MinimumPrefixBits => Size(b) <= MaximumAddresses
           /\ b < MinimumPrefixBits => Size(b) >= 2 * MaximumAddresses
<1>1. /\ MinimumPrefixBits \in Bits /\ MaximumAddresses = Size(MinimumPrefixBits)
      /\ MaximumAddresses \in Nat /\ Size(b) \in Nat
  BY Limits, Sizes
<1>2. CASE b >= MinimumPrefixBits
  <2>1. PICK j \in Nat : j > 0 /\ Size(MinimumPrefixBits) = Size(b) * j
    BY <1>1, <1>2, SizesNest
  <2>2. Size(b) <= Size(b) * j
    BY <1>1, <2>1
  <2>3. ~(b < MinimumPrefixBits)
    BY <1>2, TargetsAssumption DEF Bits
  <2> QED BY <1>1, <2>1, <2>2, <2>3
<1>3. CASE b < MinimumPrefixBits
  <2> DEFINE c == b + 1
  <2>1. c \in Bits /\ c <= MinimumPrefixBits
    BY <1>3, TargetsAssumption DEF Bits
  <2>2. Size(b) = 2 * Size(c)
    <3> DEFINE k == Width - c
    <3>1. k \in Nat /\ Width - b = k + 1
      BY <2>1, TargetsAssumption DEF Bits
    <3> HIDE DEF k, c
    <3>2. 2^(k + 1) = 2 * 2^k
      BY <3>1, PowerDoubles
    <3> QED BY <3>1, <3>2 DEF Size, k
  <2> HIDE DEF c
  <2>3. PICK j \in Nat : j > 0 /\ Size(c) = Size(MinimumPrefixBits) * j
    BY <1>1, <2>1, SizesNest
  <2>4. MaximumAddresses <= MaximumAddresses * j
    BY <1>1, <2>3
  <2>5. Size(c) >= MaximumAddresses
    BY <1>1, <2>1, <2>3, <2>4, Sizes
  <2>6. Size(b) >= 2 * MaximumAddresses
    BY <1>1, <2>1, <2>2, <2>5, Sizes
  <2>7. ~(b >= MinimumPrefixBits)
    BY <1>3, TargetsAssumption DEF Bits
  <2> QED BY <2>6, <2>7
<1> QED
  BY <1>2, <1>3

\* The addresses of a network of a prefix that is long enough are alike.
LEMMA Alike ==
    ASSUME NEW n \in Addresses, NEW b \in Bits, b >= MinimumPrefixBits,
           NEW x \in Nat, Masked(n, b) <= x, x < Masked(n, b) + Size(b)
    PROVE  /\ x \in Addresses
           /\ \A S \in {Multicast, Local} : x \in S <=> n \in S
<1>1. /\ Masked(n, b) \in Nat /\ Masked(n, b) + Size(b) <= 2^Width /\ n \in Nat
      /\ 2^Width \in Nat /\ Size(b) \in Nat
  BY NetworkExtent, AddressesAre, Sizes
<1>2. x \in Addresses
  BY <1>1, AddressesAre
<1>3. NetworkOf(x, b) = NetworkOf(n, b)
  BY NetworkExtent
<1>4. MinimumPrefixBits \in Bits /\ MinimumPrefixBits <= b
  BY Limits, TargetsAssumption DEF Bits
<1>5. NetworkOf(x, MinimumPrefixBits) = NetworkOf(n, MinimumPrefixBits)
  BY <1>1, <1>3, <1>4, Coarser
<1> QED
  BY <1>2, <1>5, Limits

LEMMA PrefixExact ==
    ASSUME NEW n \in Addresses, NEW b \in Bits,
           NEW f, f = [kind |-> "prefix", start |-> n, bits |-> b]
    PROVE  Exact(f)
<1> DEFINE base  == Masked(n, b)
           h     == Size(b)
           first == base + Edge(b)
           last  == base + h - 1 - Edge(b)
           fine  == b >= MinimumPrefixBits /\ Scannable(base)
<1>1. ParseTarget(f) = IF fine THEN HostsOf(base, b) ELSE <<>>
  BY DEF ParseTarget
<1>2. /\ HostsOf(base, b) = Walk(first, last)
      /\ first \in Nat /\ last \in Nat /\ first <= last /\ last \in Addresses
  BY HostsAreWalked
<1>3. Named(f) = first..last
  BY NamedByPrefix
<1>4. /\ base \in Nat /\ h \in Nat /\ h > 0 /\ base <= n /\ n < base + h /\ n \in Nat
      /\ Edge(b) \in {0, 1}
  BY NetworkExtent, Sizes, AddressesAre DEF Edge
<1>5. /\ base <= first /\ last < base + h /\ last - first + 1 <= h /\ last - first + 1 >= h - 2
  BY <1>4
<1>6. /\ b >= MinimumPrefixBits => h <= MaximumAddresses
      /\ b < MinimumPrefixBits => h >= 2 * MaximumAddresses
      /\ MaximumAddresses \in Nat /\ MaximumAddresses >= 4
  BY SizesOrdered, Limits
<1>7. b >= MinimumPrefixBits =>
        \A x \in Nat : base <= x /\ x < base + h =>
            x \in Addresses /\ (x \in Multicast <=> n \in Multicast)
  BY Alike
<1> HIDE DEF base, h, first, last
<1>8. /\ Walk(first, last) # <<>> /\ Range(Walk(first, last)) = first..last
      /\ Len(Walk(first, last)) = Cardinality(first..last)
      /\ Cardinality(first..last) = last - first + 1
      /\ \A S : first..last \subseteq S => Walk(first, last) \in Seq(S)
  BY <1>2, WalkVisits
<1>9. first \in first..last
  BY <1>2
<1>10. CASE fine
  <2>1. base # 0 /\ base \notin Multicast
    BY <1>10 DEF Scannable
  <2>2. n \notin Multicast
    BY <1>4, <1>7, <1>10, <2>1
  <2>3. ASSUME NEW x \in first..last PROVE x \in Addresses /\ x # 0 /\ x \notin Multicast
    <3>1. x \in Nat /\ base <= x /\ x < base + h
      BY <1>2, <1>4, <1>5
    <3>2. x # 0
      BY <1>4, <2>1, <3>1
    <3> QED BY <1>7, <1>10, <2>2, <3>1, <3>2
  <2>4. Walk(first, last) \in Seq(Addresses)
    BY <1>8, <2>3
  <2>5. last - first + 1 <= MaximumAddresses
    BY <1>2, <1>4, <1>5, <1>6, <1>10
  <2>6. Fits(f)
    <3>1. first..last # {} /\ (first..last) \cap ({0} \cup Multicast) = {}
      BY <1>9, <2>3
    <3> QED BY <1>3, <1>8, <2>5, <3>1 DEF Fits
  <2>7. ParseTarget(f) = Walk(first, last)
    BY <1>1, <1>2, <1>10
  <2> QED BY <1>3, <1>8, <2>4, <2>6, <2>7 DEF Exact
<1>11. CASE ~fine
  <2>1. ASSUME Fits(f) PROVE NetworkOf(n, MinimumPrefixBits) = 0
    <3>1. last - first + 1 <= MaximumAddresses /\ first \notin Multicast
      BY <1>3, <1>8, <1>9, <2>1 DEF Fits
    <3>2. ~(b < MinimumPrefixBits)
      BY <1>2, <1>4, <1>5, <1>6, <3>1
    <3>3. b >= MinimumPrefixBits
      BY <3>2, TargetsAssumption DEF Bits
    <3>4. first < base + h
      BY <1>2, <1>4, <1>5
    <3>5. n \notin Multicast
      BY <1>2, <1>5, <1>7, <3>1, <3>3, <3>4
    <3>6. base \notin Multicast
      BY <1>4, <1>7, <3>3, <3>5
    <3>7. base = 0
      BY <1>11, <3>3, <3>6 DEF Scannable
    <3>8. n < MaximumAddresses
      BY <1>4, <1>6, <3>3, <3>7
    <3>9. n \div MaximumAddresses = 0
      BY <1>4, <1>6, <3>8, QuotientIs
    <3> QED BY <3>9, Limits DEF NetworkOf, Size
  <2>2. ParseTarget(f) = <<>>
    BY <1>1, <1>11
  <2>3. f.start = n
    OBVIOUS
  <2> QED BY <2>1, <2>2, <2>3, EmptySeq DEF Exact
<1> QED
  BY <1>10, <1>11

\* The scanner visits what the form names, and every form that may be scanned is accepted
\* but for those of the first network.
LEMMA TargetsExact == ASSUME NEW f \in Forms PROVE Exact(f)
<1>1. CASE f = [kind |-> "other"]
  <2>1. Named(f) = {} /\ ParseTarget(f) = <<>>
    BY <1>1 DEF Named, ParseTarget
  <2> QED BY <2>1, EmptySeq DEF Exact, Fits
<1> QED
  BY <1>1, FormKinds, AddressExact, RangeExact, PrefixExact

\* A refused form is one without a target, or with a sensitive address.
LEMMA StartedExact ==
    ASSUME NEW f \in Forms, NEW may \in BOOLEAN
    PROVE  LET target == IF Refused(f, may) THEN <<>> ELSE ParseTarget(f)
               permitted == Fits(f) /\ (may \/ Named(f) \cap Sensitive = {})
           IN  /\ target # <<>> => /\ permitted
                                   /\ Range(target) = Named(f)
                                   /\ Len(target) = Cardinality(Named(f))
               /\ target = <<>> /\ permitted => NetworkOf(f.start, MinimumPrefixBits) = 0
<1>1. Exact(f)
  BY TargetsExact
<1>2. CASE ParseTarget(f) = <<>>
  BY <1>1, <1>2 DEF Exact
<1>3. CASE ParseTarget(f) # <<>>
  BY <1>1, <1>3 DEF Exact, Refused
<1> QED
  BY <1>2, <1>3

-----------------------------------------------------------------------------
(* Suggestions *)

\* What a suggestion to a server with interface i has to do with the interface.
Suits(f, i) ==
    LET target == Range(ParseTarget(f))
    IN  /\ ~Refused(f, TRUE)
        /\ \A a \in target : NetworkOf(a, i.bits) = NetworkOf(i.address, i.bits)
        /\ i.address \in target \/ {i.address - 1, i.address + 1} \cap target # {}

LEMMA SuggestionSuits ==
    ASSUME NEW i \in Interfaces, i.address \in Local
    PROVE  Suits(Suggestion(i), i)
<1> DEFINE n     == i.address
           b     == SuggestedBits(i)
           base  == Masked(n, b)
           h     == Size(b)
           first == base + Edge(b)
           last  == base + h - 1 - Edge(b)
           f     == Suggestion(i)
<1>1. /\ n \in Addresses /\ i.bits \in Bits /\ b \in Bits
      /\ b >= MinimumPrefixBits /\ i.bits <= b
  BY TargetsAssumption DEF Interfaces, SuggestedBits, Bits
<1>2. f = [kind |-> "prefix", bits |-> b, start |-> base]
  BY DEF Suggestion
<1> HIDE DEF b, f
<1>3. /\ base \in Nat /\ h \in Nat /\ h > 0 /\ base <= n /\ n < base + h /\ n \in Nat
      /\ \A a \in Nat : NetworkOf(a, b) = NetworkOf(n, b) <=> base <= a /\ a < base + h
  BY <1>1, NetworkExtent, Sizes, AddressesAre
<1>4. \A x \in Nat : base <= x /\ x < base + h =>
          x \in Addresses /\ \A S \in {Multicast, Local} : x \in S <=> n \in S
  BY <1>1, Alike
<1>5. base \in Addresses /\ base \in Local /\ NetworkOf(base, b) = NetworkOf(n, b)
  <2> HIDE DEF base, h
  <2> QED BY <1>3, <1>4
<1>6. Scannable(base)
  BY <1>5, TargetsAssumption DEF Scannable
<1>7. Masked(base, b) = base
  BY <1>5 DEF Masked
<1>8. ParseTarget(f) = HostsOf(base, b)
  BY <1>1, <1>2, <1>6, <1>7 DEF ParseTarget
<1>9. /\ HostsOf(base, b) = Walk(first, last)
      /\ first \in Nat /\ last \in Nat /\ first <= last
  BY <1>1, HostsAreWalked
<1>10. /\ Edge(b) \in {0, 1} /\ (Edge(b) = 1 => h >= 4)
  <2>1. ASSUME b <= Width - 2 PROVE h >= 4
    <3> DEFINE c == Width - 2
    <3>1. c \in Bits /\ b <= c /\ Width - c = 1 + 1
      BY <1>1, <2>1, TargetsAssumption DEF Bits
    <3> HIDE DEF c
    <3>2. PICK j \in Nat : j > 0 /\ h = Size(c) * j
      BY <1>1, <3>1, SizesNest
    <3>3. Size(c) = 4
      <4>1. Size(c) = 2^(1 + 1)
        BY <3>1, Zenon DEF Size
      <4>2. 2^(1 + 1) = 4
        OBVIOUS
      <4> QED BY <4>1, <4>2, Zenon
    <3> HIDE DEF h
    <3> QED BY <3>2, <3>3
  <2> QED BY <2>1 DEF Edge
<1> HIDE DEF base, h
<1>11. /\ Walk(first, last) # <<>> /\ Range(Walk(first, last)) = first..last
  <2> HIDE DEF first, last
  <2> QED BY <1>9, WalkVisits
<1>12. Range(ParseTarget(f)) = first..last /\ ParseTarget(f) # <<>>
  BY <1>8, <1>9, <1>11
<1>13. ~Refused(f, TRUE)
  BY <1>12 DEF Refused
<1>14. ASSUME NEW a \in first..last PROVE NetworkOf(a, i.bits) = NetworkOf(n, i.bits)
  <2>1. a \in Nat /\ base <= a /\ a < base + h
    BY <1>3, <1>9, <1>10
  <2>2. NetworkOf(a, b) = NetworkOf(n, b)
    BY <1>3, <2>1
  <2> HIDE DEF n
  <2> QED BY <1>1, <1>3, <2>1, <2>2, Coarser
<1>15. n \in first..last \/ {n - 1, n + 1} \cap first..last # {}
  <2>1. CASE Edge(b) = 0
    BY <1>3, <1>9, <2>1
  <2>2. CASE Edge(b) = 1
    <3>1. first = base + 1 /\ last = base + h - 2 /\ h >= 4
      BY <1>3, <1>10, <2>2
    <3> HIDE DEF first, last, n
    <3>2. n \in first..last \/ n - 1 \in first..last \/ n + 1 \in first..last
      BY <1>3, <1>9, <3>1
    <3> QED BY <3>2
  <2> QED BY <1>10, <2>1, <2>2
<1>16. Suits(f, i)
  BY <1>12, <1>13, <1>14, <1>15 DEF Suits
<1> QED
  BY <1>16 DEF f

-----------------------------------------------------------------------------
(* Which devices are shown as one machine *)

\* The devices of a page: finitely many addresses with their fingerprints.
Page(shown) ==
    /\ IsFiniteSet(DOMAIN shown) /\ DOMAIN shown \in SUBSET Nat
    /\ shown \in [DOMAIN shown -> Fingerprints]

\* The devices with the host keys of a.
Kin(shown, a) == {b \in DOMAIN shown : shown[b].ssh = shown[a].ssh}

Grouped(shown, a) == shown[a].ssh # {} /\ Cardinality(Kin(shown, a)) > 1

LEMMA GroupsAreKin ==
    ASSUME NEW shown, NEW g
    PROVE  g \in MatchingGroups(shown, "ssh") <=>
               \E a \in DOMAIN shown : Grouped(shown, a) /\ g = Kin(shown, a)
  BY DEF MatchingGroups, Kin, Grouped, Has, Absent

LEMMA KinAgree ==
    ASSUME NEW shown, NEW a \in DOMAIN shown, NEW b \in DOMAIN shown
    PROVE  /\ a \in Kin(shown, a)
           /\ a \in Kin(shown, b) <=> shown[a].ssh = shown[b].ssh
           /\ shown[a].ssh = shown[b].ssh =>
                Kin(shown, a) = Kin(shown, b) /\ (Grouped(shown, a) <=> Grouped(shown, b))
  BY DEF Kin, Grouped

LEMMA HintIs ==
    ASSUME NEW shown, NEW a \in DOMAIN shown
    PROVE  /\ HintOf(shown, a).says = "same VM" <=> Grouped(shown, a)
           /\ Grouped(shown, a) => HintOf(shown, a) = SSHHint(shown, Kin(shown, a))
<1> DEFINE in == {g \in MatchingGroups(shown, "ssh") : a \in g}
           certs == {g \in MatchingGroups(shown, "tls") : a \in g}
<1>1. HintOf(shown, a) =
        IF in # {} THEN SSHHint(shown, CHOOSE g \in in : TRUE)
        ELSE IF certs # {} THEN TLSHint(shown, CHOOSE g \in certs : TRUE)
        ELSE DefaultHint(shown[a])
  BY DEF HintOf, SSHFirst
<1>2. ASSUME NEW g \in in PROVE g = Kin(shown, a) /\ Grouped(shown, a)
  <2>1. PICK b \in DOMAIN shown : Grouped(shown, b) /\ g = Kin(shown, b)
    BY <1>2, GroupsAreKin
  <2>2. a \in Kin(shown, b)
    BY <1>2, <2>1
  <2> QED BY <2>1, <2>2, KinAgree
<1>3. Grouped(shown, a) => Kin(shown, a) \in in
  BY GroupsAreKin, KinAgree
<1> HIDE DEF in, certs
<1>4. CASE Grouped(shown, a)
  <2>1. (CHOOSE g \in in : TRUE) = Kin(shown, a) /\ in # {}
    BY <1>2, <1>3, <1>4
  <2>2. HintOf(shown, a) = SSHHint(shown, Kin(shown, a))
    BY <1>1, <2>1
  <2>3. SSHHint(shown, Kin(shown, a)).says = "same VM"
    BY DEF SSHHint
  <2> QED BY <1>4, <2>2, <2>3
<1>5. CASE ~Grouped(shown, a)
  <2>1. in = {}
    BY <1>2, <1>5
  <2>2. ASSUME NEW g PROVE TLSHint(shown, g).says # "same VM"
    BY DEF TLSHint
  <2>3. DefaultHint(shown[a]).says # "same VM"
    BY DEF DefaultHint
  <2>4. HintOf(shown, a).says # "same VM"
    BY <1>1, <2>1, <2>2, <2>3
  <2> QED BY <1>5, <2>4
<1> QED
  BY <1>4, <1>5

\* The first device of a group.
LEMMA FirstOf ==
    ASSUME NEW shown, Page(shown), NEW a \in DOMAIN shown
    PROVE  /\ First(Kin(shown, a)) \in Kin(shown, a)
           /\ First(Kin(shown, a)) \in Nat
<1>1. Kin(shown, a) \in SUBSET Nat /\ Kin(shown, a) # {}
  BY KinAgree DEF Page, Kin
<1>2. \E n \in Kin(shown, a) : \A m \in Kin(shown, a) : n <= m
  BY <1>1, Least
<1> QED
  BY <1>1, <1>2 DEF First

LEMMA GroupsFinite ==
    ASSUME NEW shown, Page(shown)
    PROVE  IsFiniteSet(MatchingGroups(shown, "ssh"))
<1> DEFINE S == {a \in DOMAIN shown : Grouped(shown, a)}
           T == MatchingGroups(shown, "ssh")
           f == [a \in S |-> Kin(shown, a)]
<1>1. IsFiniteSet(S)
  BY FS_Subset DEF Page
<1>2. f \in [S -> T]
  BY GroupsAreKin
<1>3. \A g \in T : \E a \in S : f[a] = g
  BY GroupsAreKin
<1> HIDE DEF S, T, f
<1>4. f \in Surjection(S, T)
  BY <1>2, <1>3, Fun_IsSurj
<1>5. IsFiniteSet(T)
  BY <1>1, <1>4, FS_Surjection
<1> QED
  BY <1>5 DEF T

\* Groups with the same number are the same.
LEMMA NumbersDiffer ==
    ASSUME NEW shown, Page(shown), NEW a \in DOMAIN shown, NEW b \in DOMAIN shown,
           Grouped(shown, a), Grouped(shown, b),
           NumberOf(shown, Kin(shown, a)) = NumberOf(shown, Kin(shown, b))
    PROVE  Kin(shown, a) = Kin(shown, b)
<1> DEFINE all == MatchingGroups(shown, "ssh")
           UpTo(c) == {g \in all : First(g) <= First(Kin(shown, c))}
<1>1. Kin(shown, a) \in all /\ Kin(shown, b) \in all
  BY GroupsAreKin
<1>2. \A g \in all : First(g) \in g /\ First(g) \in Nat
  BY GroupsAreKin, FirstOf
<1>3. IsFiniteSet(all)
  BY GroupsFinite
<1>4. Cardinality(UpTo(a)) = Cardinality(UpTo(b))
  BY DEF NumberOf
<1>5. \A c : UpTo(c) \in SUBSET all
  OBVIOUS
<1>6. First(Kin(shown, a)) = First(Kin(shown, b))
  <2> DEFINE m == First(Kin(shown, a))
             n == First(Kin(shown, b))
             A == UpTo(a)
             B == UpTo(b)
  <2>1. m \in Nat /\ n \in Nat
    BY <1>1, <1>2
  <2>2. IsFiniteSet(A) /\ IsFiniteSet(B) /\ Cardinality(A) = Cardinality(B)
    BY <1>3, <1>4, <1>5, FS_Subset
  <2>3. ASSUME m < n PROVE FALSE
    <3>1. A \in SUBSET B
      BY <1>2, <2>1, <2>3
    <3>2. Kin(shown, b) \in B /\ Kin(shown, b) \notin A
      BY <1>1, <2>1, <2>3
    <3> HIDE DEF A, B
    <3>3. A = B
      BY <2>2, <3>1, FS_Subset
    <3> QED BY <3>2, <3>3
  <2>4. ASSUME n < m PROVE FALSE
    <3>1. B \in SUBSET A
      BY <1>2, <2>1, <2>4
    <3>2. Kin(shown, a) \in A /\ Kin(shown, a) \notin B
      BY <1>1, <2>1, <2>4
    <3> HIDE DEF A, B
    <3>3. A = B
      BY <2>2, <3>1, FS_Subset
    <3> QED BY <3>2, <3>3
  <2> QED BY <2>1, <2>3, <2>4
<1>7. First(Kin(shown, a)) \in Kin(shown, a) /\ First(Kin(shown, a)) \in Kin(shown, b)
  BY <1>1, <1>2, <1>6
<1> QED
  BY <1>7 DEF Kin

\* Two devices are shown as the same machine just if the probes have taken the same keys
\* of both, and some.
LEMMA MergedIs ==
    ASSUME NEW shown, Page(shown), NEW a \in DOMAIN shown, NEW b \in DOMAIN shown
    PROVE  Merged(shown, a, b) <=> Grouped(shown, a) /\ shown[a].ssh = shown[b].ssh
<1>1. ASSUME Merged(shown, a, b) PROVE Grouped(shown, a) /\ shown[a].ssh = shown[b].ssh
  <2>1. Grouped(shown, a) /\ Grouped(shown, b)
    BY <1>1, HintIs DEF Merged
  <2>2. SSHHint(shown, Kin(shown, a)) = SSHHint(shown, Kin(shown, b))
    BY <1>1, <2>1, HintIs DEF Merged
  <2>3. NumberOf(shown, Kin(shown, a)) = NumberOf(shown, Kin(shown, b))
    <3>1. \A g : SSHHint(shown, g).number = NumberOf(shown, g)
      BY DEF SSHHint
    <3> QED BY <2>2, <3>1
  <2>4. Kin(shown, a) = Kin(shown, b)
    BY <2>1, <2>3, NumbersDiffer
  <2>5. a \in Kin(shown, b)
    BY <2>4, KinAgree
  <2> QED BY <2>1, <2>5, KinAgree
<1>2. ASSUME Grouped(shown, a), shown[a].ssh = shown[b].ssh PROVE Merged(shown, a, b)
  <2>1. Kin(shown, a) = Kin(shown, b) /\ Grouped(shown, b)
    BY <1>2, KinAgree
  <2> QED BY <1>2, <2>1, HintIs DEF Merged
<1> QED
  BY <1>1, <1>2

\* Two devices with the same keys are a group.
LEMMA PairIsGrouped ==
    ASSUME NEW shown, Page(shown), NEW a \in DOMAIN shown, NEW b \in DOMAIN shown, a # b,
           shown[a].ssh = shown[b].ssh, shown[a].ssh # {}
    PROVE  Grouped(shown, a)
<1>1. IsFiniteSet(Kin(shown, a)) /\ {a, b} \in SUBSET Kin(shown, a)
  BY FS_Subset DEF Page, Kin
<1>2. IsFiniteSet({a}) /\ Cardinality({a}) = 1
  BY FS_Singleton
<1>3. {a, b} = {a} \cup {b} /\ b \notin {a}
  OBVIOUS
<1>4. Cardinality({a} \cup {b}) = 2
  <2> DEFINE A == {a}
  <2>1. IsFiniteSet(A) /\ b \notin A /\ Cardinality(A) = 1
    BY <1>2, <1>3
  <2> HIDE DEF A
  <2>2. Cardinality(A \cup {b}) = Cardinality(A) + 1
    BY <2>1, FS_AddElement
  <2>3. Cardinality(A \cup {b}) = 2
    BY <2>1, <2>2
  <2> QED BY <2>3 DEF A
<1>5. Cardinality({a, b}) = 2
  BY <1>3, <1>4, Zenon
<1>6. Cardinality({a, b}) <= Cardinality(Kin(shown, a)) /\ Cardinality(Kin(shown, a)) \in Nat
  BY <1>1, FS_Subset, FS_CardinalityType
<1>7. Cardinality(Kin(shown, a)) > 1
  BY <1>5, <1>6
<1> QED
  BY <1>7 DEF Grouped

-----------------------------------------------------------------------------
(* Steps *)

LEMMA PageOf ==
    ASSUME NEW job \in Seq(Addresses), NEW shown,
           DOMAIN shown \subseteq Range(job) \cap DOMAIN HostKeys,
           shown \in [DOMAIN shown -> Fingerprints]
    PROVE  Page(shown)
<1>1. IsFiniteSet(Range(job))
  <2> DEFINE n == Len(job)
             S == Range(job)
  <2>1. n \in Nat /\ DOMAIN job = 1..n
    BY LenProperties
  <2>2. job \in [1..n -> S] /\ \A a \in S : \E i \in 1..n : job[i] = a
    BY <2>1 DEF Range
  <2> HIDE DEF n, S
  <2>3. job \in Surjection(1..n, S)
    BY <2>2, Fun_IsSurj
  <2>4. IsFiniteSet(1..n)
    BY <2>1, FS_Interval
  <2>5. IsFiniteSet(S)
    BY <2>3, <2>4, FS_Surjection
  <2> QED BY <2>5 DEF S
<1>2. IsFiniteSet(DOMAIN shown)
  BY <1>1, FS_Subset
<1>3. DOMAIN shown \in SUBSET Nat
  BY NetworkAssumption, AddressesAre
<1> QED
  BY <1>2, <1>3 DEF Page

LEMMA InitIInv == Init => IInv
  BY EmptySeq DEF Init, IInv, TypeOK, Range

LEMMA SuggestKeeps == ASSUME IInv, NEW i \in Nics, Suggest({i}) PROVE IInv'
  BY DEF Suggest, IInv, TypeOK

LEMMA StartKeeps == ASSUME IInv, NEW f \in Forms, Start(f) PROVE IInv'
<1>1. /\ form = NoForm /\ form' = f /\ interfaces' = {} /\ allowed' = allowed
      /\ devices' = devices
      /\ scanned' = IF Refused(f, allowed) THEN <<>> ELSE ParseTarget(f)
      /\ f # NoForm
  BY NetworkAssumption DEF Start
<1>2. scanned = <<>> /\ DOMAIN devices = {}
  <2>1. scanned = <<>>
    BY <1>1 DEF IInv
  <2>2. Range(scanned) = {}
    BY <2>1 DEF Range
  <2> QED BY <2>1, <2>2 DEF IInv, TypeOK
<1>3. scanned' \in Seq(Addresses)
  <2>1. ParseTarget(f) \in Seq(Addresses)
    BY TargetsExact DEF Exact
  <2> QED BY <1>1, <2>1, EmptySeq
<1>4. TypeOK'
  <2>1. allowed' \in BOOLEAN /\ interfaces' \subseteq Nics /\ form' \in Forms \cup {NoForm}
    BY <1>1 DEF IInv, TypeOK
  <2>2. DOMAIN devices' \subseteq Range(scanned') \cap DOMAIN HostKeys
    BY <1>1, <1>2
  <2>3. devices' \in [DOMAIN devices' -> Fingerprints]
    BY <1>1 DEF IInv, TypeOK
  <2> QED BY <1>3, <2>1, <2>2, <2>3 DEF TypeOK
<1>5. scanned' = (IF form' = NoForm \/ Refused(form', allowed') THEN <<>> ELSE ParseTarget(form'))
  BY <1>1
<1>6. \A a \in DOMAIN devices' : devices'[a].ssh \subseteq HostKeys[a]
  BY <1>1, <1>2
<1> QED
  BY <1>4, <1>5, <1>6 DEF IInv

\* What a probe adds to the page.
LEMMA RecordAdds ==
    ASSUME IInv, NEW a \in Addresses, RecordProbe(a)
    PROVE  /\ a \in (Range(scanned) \cap DOMAIN HostKeys) \ DOMAIN devices
           /\ DOMAIN devices' = DOMAIN devices \cup {a}
           /\ devices'[a] \in Fingerprints /\ devices'[a].ssh \subseteq HostKeys[a]
           /\ \A b \in DOMAIN devices : devices'[b] = devices[b]
           /\ devices' \in [DOMAIN devices' -> Fingerprints]
<1>1. PICK ssh \in Taken(a), tls \in {HostCert[a], NoCert} :
          devices' = [b \in DOMAIN devices \cup {a} |->
                        IF b = a THEN [ssh |-> ssh, tls |-> tls] ELSE devices[b]]
  BY DEF RecordProbe
<1>2. a \in (Range(scanned) \cap DOMAIN HostKeys) \ DOMAIN devices
  BY DEF RecordProbe
<1>3. [ssh |-> ssh, tls |-> tls] \in Fingerprints /\ ssh \subseteq HostKeys[a]
  <2>1. ssh \in SUBSET Keys /\ ssh \subseteq HostKeys[a]
    BY <1>2, NetworkAssumption DEF Taken
  <2>2. tls \in Certs \cup {NoCert}
    BY <1>2, NetworkAssumption
  <2> QED BY <2>1, <2>2 DEF Fingerprints
<1>4. devices \in [DOMAIN devices -> Fingerprints]
  BY DEF IInv, TypeOK
<1> QED
  BY <1>1, <1>2, <1>3, <1>4

LEMMA RecordKeeps == ASSUME IInv, NEW a \in Addresses, RecordProbe(a) PROVE IInv'
<1>1. UNCHANGED <<allowed, interfaces, form, scanned>>
  BY DEF RecordProbe
<1>2. TypeOK'
  BY <1>1, RecordAdds DEF IInv, TypeOK
<1>3. \A b \in DOMAIN devices' : devices'[b].ssh \subseteq HostKeys[b]
  BY RecordAdds DEF IInv
<1> QED
  BY <1>1, <1>2, <1>3 DEF IInv

LEMMA LeaveKeeps == ASSUME IInv, Leave PROVE IInv'
<1>1. /\ form' = NoForm /\ scanned' = <<>> /\ devices' = <<>>
      /\ allowed' = allowed /\ interfaces' = interfaces
  BY DEF Leave
<1>2. DOMAIN devices' = {} /\ devices' \in [DOMAIN devices' -> Fingerprints]
  BY <1>1
<1>3. TypeOK'
  BY <1>1, <1>2, EmptySeq DEF IInv, TypeOK
<1> QED
  BY <1>1, <1>2, <1>3 DEF IInv

LEMMA NextIInv == IInv /\ [Next]_vars => IInv'
<1> SUFFICES ASSUME IInv, [Next]_vars PROVE IInv'
  OBVIOUS
<1>1. CASE UNCHANGED vars
  BY <1>1 DEF vars, IInv, TypeOK
<1> QED
  BY <1>1, SuggestKeeps, StartKeeps, RecordKeeps, LeaveKeeps DEF Next

\* The page, the job and its devices agree with the form, for any network and any width
\* of addresses.
THEOREM Invariance == Spec => []IInv
  BY InitIInv, NextIInv, PTL DEF Spec

-----------------------------------------------------------------------------
(* The theorems *)

\* Every variable has its type: a job's addresses are addresses, whatever form it has.
THEOREM TypeCorrect == Spec => []TypeOK
<1>1. IInv => TypeOK
  BY DEF IInv
<1> QED
  BY <1>1, Invariance, PTL

\* A job visits exactly what its form names, within the limits and without what must not
\* be scanned; permitted forms are accepted.
THEOREM ScannedExactly == Spec => []ScannedIsNamed
<1>1. IInv => ScannedIsNamed
  <2> SUFFICES ASSUME IInv, form # NoForm
               PROVE  LET named == Named(form)
                          permitted == /\ named # {} /\ Cardinality(named) <= MaximumAddresses
                                       /\ named \cap ({0} \cup Multicast) = {}
                                       /\ allowed \/ named \cap Sensitive = {}
                      IN  IF scanned # <<>>
                          THEN permitted /\ Range(scanned) = named /\ Len(scanned) = Cardinality(named)
                          ELSE permitted => NetworkOf(form.start, MinimumPrefixBits) = 0
    BY DEF ScannedIsNamed
  <2>1. form \in Forms /\ allowed \in BOOLEAN
    BY DEF IInv, TypeOK
  <2>2. scanned = IF Refused(form, allowed) THEN <<>> ELSE ParseTarget(form)
    BY DEF IInv
  <2> QED BY <2>1, <2>2, StartedExact DEF Fits
<1> QED
  BY <1>1, Invariance, PTL

\* Every suggestion is a target the scanner accepts, around the interface it is made for.
THEOREM SuggestionsGood == Spec => []SuggestionsAccepted
<1>1. IInv => SuggestionsAccepted
  <2> SUFFICES ASSUME IInv, NEW i \in interfaces, i.up, ~i.loopback, i.address \in Local
               PROVE  \E f \in LocalCIDRs(interfaces) : Suits(f, i)
    BY DEF SuggestionsAccepted, Suits
  <2>1. i \in Interfaces
    BY NetworkAssumption DEF IInv, TypeOK
  <2>2. Suggestion(i) \in LocalCIDRs(interfaces)
    BY DEF LocalCIDRs
  <2> QED BY <2>1, <2>2, SuggestionSuits
<1> QED
  BY <1>1, Invariance, PTL

\* Where all host keys were captured, the sets of keys decide what is shown as the same
\* machine; where some were missed, all that is left is a key in common.
THEOREM KeySetsTell == Spec => []KeySetsTellApart
<1>1. IInv => KeySetsTellApart
  <2> SUFFICES ASSUME IInv, NEW a \in DOMAIN devices, NEW b \in DOMAIN devices, a # b
               PROVE  /\ Merged(devices, a, b) => HostKeys[a] \cap HostKeys[b] # {}
                      /\ devices[a].ssh = HostKeys[a] /\ devices[b].ssh = HostKeys[b] =>
                           (Merged(devices, a, b) <=> HostKeys[a] = HostKeys[b] /\ HostKeys[a] # {})
    BY DEF KeySetsTellApart
  <2>1. Page(devices)
    BY PageOf DEF IInv, TypeOK
  <2>2. Merged(devices, a, b) <=> devices[a].ssh = devices[b].ssh /\ devices[a].ssh # {}
    BY <2>1, MergedIs, PairIsGrouped DEF Grouped
  <2>3. devices[a].ssh \subseteq HostKeys[a] /\ devices[b].ssh \subseteq HostKeys[b]
    BY DEF IInv
  <2> QED BY <2>2, <2>3
<1> QED
  BY <1>1, Invariance, PTL

\* Devices shown as the same machine stay so as long as the job is shown.
THEOREM MergedForGood == Spec => StaysMerged
<1>1. ASSUME IInv, IInv', [Next]_vars
      PROVE  [form' = form =>
                \A a, b \in DOMAIN devices : Merged(devices, a, b) => Merged(devices', a, b)]_vars
  <2> SUFFICES ASSUME form' = form,
                      NEW a \in DOMAIN devices, NEW b \in DOMAIN devices, Merged(devices, a, b)
               PROVE  Merged(devices', a, b)
    OBVIOUS
  <2>1. Page(devices) /\ Page(devices')
    BY <1>1, PageOf DEF IInv, TypeOK
  <2>2. Grouped(devices, a) /\ devices[a].ssh = devices[b].ssh
    BY <2>1, MergedIs
  <2>3. CASE devices' = devices
    BY <2>3
  <2>4. CASE \E c \in Addresses : RecordProbe(c)
    <3>1. PICK c \in Addresses : RecordProbe(c)
      BY <2>4
    <3>2. /\ DOMAIN devices' = DOMAIN devices \cup {c}
          /\ \A d \in DOMAIN devices : devices'[d] = devices[d]
      BY <1>1, <3>1, RecordAdds
    <3>3. Kin(devices, a) \in SUBSET Kin(devices', a)
      BY <3>2 DEF Kin
    <3>4. IsFiniteSet(Kin(devices', a)) /\ IsFiniteSet(Kin(devices, a))
      BY <2>1, FS_Subset DEF Page, Kin
    <3>5. /\ Cardinality(Kin(devices, a)) <= Cardinality(Kin(devices', a))
          /\ Cardinality(Kin(devices, a)) \in Nat /\ Cardinality(Kin(devices', a)) \in Nat
      BY <3>3, <3>4, FS_Subset, FS_CardinalityType
    <3>6. Grouped(devices', a) /\ devices'[a].ssh = devices'[b].ssh
      BY <2>2, <3>2, <3>5 DEF Grouped
    <3>7. a \in DOMAIN devices' /\ b \in DOMAIN devices'
      BY <3>2
    <3> QED BY <2>1, <3>6, <3>7, MergedIs
  <2>5. \/ devices' = devices
        \/ \E c \in Addresses : RecordProbe(c)
    <3>1. ~(\E f \in Forms : Start(f)) \/ devices' = devices
      BY DEF Start
    <3>2. ~Leave
      BY DEF Leave
    <3>3. (\E i \in Nics : Suggest({i})) => devices' = devices
      BY DEF Suggest
    <3>4. UNCHANGED vars => devices' = devices
      BY DEF vars
    <3> QED BY <1>1, <3>1, <3>2, <3>3, <3>4 DEF Next
  <2> QED BY <2>3, <2>4, <2>5
<1> QED
  BY <1>1, Invariance, PTL DEF Spec, StaysMerged
=============================================================================
