---------------------------- MODULE MemoryProofs ----------------------------
(***************************************************************************)
(* For every set of keys, values, clients, prefixes and limits: Memory's   *)
(* type invariant holds, and its sorted index names exactly the keys its   *)
(* map holds.                                                              *)
(***************************************************************************)
EXTENDS Memory, SequenceTheorems, WellFoundedInduction, TLAPS

\* A nonempty set of naturals has a least element.
LEMMA LeastNatural ==
    ASSUME NEW T, T \subseteq Nat, T # {}
    PROVE  \E i \in T : \A j \in T : i <= j
<1>1. \E i \in T : \A j \in T : <<j, i>> \notin OpToRel(<, Nat)
    BY NatLessThanWellFounded, WFMin
<1>2. PICK i \in T : \A j \in T : <<j, i>> \notin OpToRel(<, Nat)
    BY <1>1
<1>3. \A j \in T : ~(j < i)
    BY <1>2 DEF OpToRel
<1> QED
    BY <1>3

\* Binary search finds the first position that holds x or more.
LEMMA SearchFinds ==
    ASSUME NEW s \in Seq(Nat), NEW x \in Nat
    PROVE  /\ Search(s, x) \in 1..(Len(s) + 1)
           /\ \A j \in 1..(Search(s, x) - 1) : s[j] < x
           /\ Search(s, x) <= Len(s) => s[Search(s, x)] >= x
<1> DEFINE T == {i \in 1..(Len(s) + 1) : i <= Len(s) => s[i] >= x}
<1>1. Len(s) \in Nat /\ \A i \in 1..Len(s) : s[i] \in Nat
    OBVIOUS
<1>2. T \subseteq Nat /\ Len(s) + 1 \in T
    BY <1>1
<1>3. PICK i \in T : \A j \in T : i <= j
    <2> HIDE DEF T
    <2> QED BY <1>2, LeastNatural
<1>4. \A j \in 1..(i - 1) : s[j] < x
    BY <1>1, <1>3
<1>5. /\ i \in 1..(Len(s) + 1)
      /\ \A j \in 1..(i - 1) : s[j] < x
      /\ i <= Len(s) => s[i] >= x
    BY <1>3, <1>4
<1> HIDE DEF T
<1> QED
    BY <1>5 DEF Search

-----------------------------------------------------------------------------
\* Keys are naturals, so an index is a sequence of naturals.
LEMMA IndexType ==
    ASSUME NEW s \in Seq(Keys)
    PROVE  /\ s \in Seq(Nat)
           /\ Len(s) \in Nat
           /\ \A j \in 1..Len(s) : s[j] \in Nat /\ s[j] \in Keys
<1>1. s \in Seq(Nat)
    BY KeysAssumption, SeqMonotonic
<1> QED
    BY <1>1

\* What is in a sequence.
LEMMA ToSetMember ==
    ASSUME NEW S, NEW s \in Seq(S)
    PROVE  \A x : x \in ToSet(s) <=> \E j \in 1..Len(s) : s[j] = x
BY DEF ToSet

\* Where the keys of an index are after insertKey.
LEMMA InsertKeyPositions ==
    ASSUME NEW s \in Seq(Keys), NEW k \in Keys
    PROVE  /\ insertKey(s, k) \in Seq(Keys)
           /\ Len(insertKey(s, k)) = Len(s) + 1
           /\ \A j \in 1..(Len(s) + 1) :
                 insertKey(s, k)[j] = IF j < Search(s, k) THEN s[j]
                                      ELSE IF j = Search(s, k) THEN k
                                      ELSE s[j - 1]
<1>1. s \in Seq(Nat) /\ k \in Nat /\ Len(s) \in Nat
    BY IndexType, KeysAssumption
<1> DEFINE i == Search(s, k)
<1>2. i \in 1..(Len(s) + 1)
    BY <1>1, SearchFinds
<1> HIDE DEF i
<1> DEFINE a == SubSeq(s, 1, i - 1)
           b == SubSeq(s, i, Len(s))
           ak == a \o <<k>>
<1>3. /\ a \in Seq(Keys) /\ Len(a) = i - 1
      /\ \A j \in 1..(i - 1) : a[j] = s[j]
    BY <1>2
<1>4. /\ b \in Seq(Keys) /\ Len(b) = Len(s) - i + 1
      /\ \A j \in 1..(Len(s) - i + 1) : b[j] = s[i + j - 1]
    BY <1>2
<1> HIDE DEF a, b
<1>5. /\ ak \in Seq(Keys) /\ Len(ak) = i
      /\ \A j \in 1..(i - 1) : ak[j] = s[j]
      /\ ak[i] = k
    BY <1>2, <1>3
<1> HIDE DEF ak
<1>6. /\ ak \o b \in Seq(Keys) /\ Len(ak \o b) = Len(s) + 1
      /\ \A j \in 1..(Len(s) + 1) : (ak \o b)[j] = IF j <= i THEN ak[j] ELSE b[j - i]
    <2>1. /\ ak \o b \in Seq(Keys) /\ Len(ak \o b) = Len(ak) + Len(b)
          /\ \A j \in 1..(Len(ak) + Len(b)) :
                (ak \o b)[j] = IF j <= Len(ak) THEN ak[j] ELSE b[j - Len(ak)]
        BY <1>4, <1>5, ConcatProperties
    <2>2. Len(ak) + Len(b) = Len(s) + 1
        BY <1>1, <1>2, <1>4, <1>5
    <2> QED BY <1>5, <2>1, <2>2
<1>7. insertKey(s, k) = ak \o b
    BY DEF insertKey, ak, a, b, i
<1>8. ASSUME NEW j \in 1..(Len(s) + 1)
      PROVE  (ak \o b)[j] = IF j < i THEN s[j] ELSE IF j = i THEN k ELSE s[j - 1]
    <2>1. CASE j <= i
        <3>1. (ak \o b)[j] = ak[j]
            BY <1>6, <2>1
        <3> QED BY <1>2, <1>5, <2>1, <3>1
    <2>2. CASE j > i
        <3>1. j - i \in 1..(Len(s) - i + 1) /\ i + (j - i) - 1 = j - 1
            BY <1>1, <1>2, <2>2
        <3>2. (ak \o b)[j] = b[j - i]
            BY <1>2, <1>6, <2>2
        <3>3. b[j - i] = s[j - 1]
            BY <1>4, <3>1
        <3> QED BY <1>2, <2>2, <3>2, <3>3
    <2>3. j <= i \/ j > i
        BY <1>1, <1>2
    <2> QED BY <2>1, <2>2, <2>3
<1> QED
    BY <1>6, <1>7, <1>8 DEF i

\* Inserting a new key keeps the index sorted and adds that key alone.
LEMMA InsertKeyIndexes ==
    ASSUME NEW s \in Seq(Keys), StrictlySorted(s), NEW k \in Keys, k \notin ToSet(s)
    PROVE  StrictlySorted(insertKey(s, k)) /\ ToSet(insertKey(s, k)) = ToSet(s) \cup {k}
<1>1. s \in Seq(Nat) /\ k \in Nat /\ Len(s) \in Nat
    BY IndexType, KeysAssumption
<1>2. \A j \in 1..Len(s) : s[j] \in Nat /\ s[j] # k
    BY IndexType, ToSetMember
<1> DEFINE i == Search(s, k)
           r == insertKey(s, k)
<1>3. /\ i \in 1..(Len(s) + 1)
      /\ \A j \in 1..(i - 1) : s[j] < k
      /\ i <= Len(s) => s[i] >= k
    BY <1>1, SearchFinds
<1>4. /\ r \in Seq(Keys) /\ Len(r) = Len(s) + 1
      /\ \A j \in 1..(Len(s) + 1) :
            r[j] = IF j < i THEN s[j] ELSE IF j = i THEN k ELSE s[j - 1]
    BY InsertKeyPositions
<1> HIDE DEF i, r
<1>0. \A p, q \in 1..Len(s) : p < q => s[p] < s[q]
    BY DEF StrictlySorted
<1>5. \A j \in i..Len(s) : s[j] > k
    BY <1>0, <1>1, <1>2, <1>3
<1>6. StrictlySorted(r)
    <2> SUFFICES ASSUME NEW p \in 1..Len(r), NEW q \in 1..Len(r), p < q
                 PROVE  r[p] < r[q]
        BY DEF StrictlySorted
    <2>1. CASE q < i
        <3>1. r[p] = s[p] /\ r[q] = s[q] /\ p \in 1..Len(s) /\ q \in 1..Len(s)
            BY <1>1, <1>3, <1>4, <2>1
        <3> QED BY <1>0, <3>1
    <2>2. CASE q = i
        BY <1>1, <1>3, <1>4, <2>2
    <2>3. CASE q > i
        <3>1. r[q] = s[q - 1] /\ q - 1 \in i..Len(s)
            BY <1>1, <1>3, <1>4, <2>3
        <3>2. CASE p < i
            <4>1. r[p] = s[p] /\ s[p] < k
                BY <1>3, <1>4, <3>2
            <4>2. s[q - 1] > k
                BY <1>5, <3>1
            <4>3. p \in 1..Len(s) /\ q - 1 \in 1..Len(s)
                BY <1>1, <1>3, <3>1, <3>2
            <4>4. s[q - 1] \in Nat /\ s[p] \in Nat
                BY <1>2, <4>3
            <4> QED BY <1>1, <3>1, <4>1, <4>2, <4>4
        <3>3. CASE p = i
            <4>1. r[p] = k
                BY <1>4, <3>3
            <4> QED BY <1>1, <1>2, <1>3, <1>5, <3>1, <4>1
        <3>4. CASE p > i
            <4>1. r[p] = s[p - 1] /\ p - 1 \in 1..Len(s) /\ p - 1 < q - 1
                BY <1>1, <1>3, <1>4, <3>4
            <4>2. q - 1 \in 1..Len(s)
                BY <1>1, <1>3, <3>1
            <4> QED BY <1>0, <3>1, <4>1, <4>2
        <3> QED BY <1>3, <1>4, <3>2, <3>3, <3>4
    <2> QED BY <1>3, <1>4, <2>1, <2>2, <2>3
<1>7. ASSUME NEW j \in 1..Len(r)
      PROVE  r[j] = k \/ \E n \in 1..Len(s) : s[n] = r[j]
    <2>1. CASE j > i
        <3>1. j - 1 \in 1..Len(s) /\ r[j] = s[j - 1]
            BY <1>1, <1>3, <1>4, <2>1
        <3> QED BY <3>1
    <2> QED BY <1>1, <1>3, <1>4, <2>1
<1>8. r[i] = k /\ i \in 1..Len(r)
    BY <1>1, <1>3, <1>4
<1>9. ASSUME NEW j \in 1..Len(s)
      PROVE  \E n \in 1..Len(r) : r[n] = s[j]
    <2>1. CASE j < i
        <3>1. j \in 1..Len(r) /\ r[j] = s[j]
            BY <1>1, <1>3, <1>4, <2>1
        <3> QED BY <3>1
    <2>2. CASE j >= i
        <3>1. j + 1 \in 1..Len(r) /\ r[j + 1] = s[j]
            BY <1>1, <1>3, <1>4, <2>2
        <3> QED BY <3>1
    <2> QED BY <1>1, <1>3, <2>1, <2>2
<1>10. /\ \A x : x \in ToSet(r) <=> \E j \in 1..Len(r) : r[j] = x
       /\ \A x : x \in ToSet(s) <=> \E j \in 1..Len(s) : s[j] = x
    BY <1>4, ToSetMember
<1>11. ToSet(r) = ToSet(s) \cup {k}
    BY <1>7, <1>8, <1>9, <1>10
<1> QED
    BY <1>6, <1>11 DEF r

-----------------------------------------------------------------------------
\* A sequence without its positions a to b - 1.
Cut(s, a, b) == SubSeq(s, 1, a - 1) \o SubSeq(s, b, Len(s))

\* Cutting positions out of an index keeps the rest, in order.
LEMMA CutIndexes ==
    ASSUME NEW s \in Seq(Keys), StrictlySorted(s), NEW a \in Nat, NEW b \in Nat,
           1 <= a, a <= b, b <= Len(s) + 1
    PROVE  /\ Cut(s, a, b) \in Seq(Keys)
           /\ StrictlySorted(Cut(s, a, b))
           /\ \A x : x \in ToSet(Cut(s, a, b))
                     <=> \E j \in 1..Len(s) : (j < a \/ j >= b) /\ s[j] = x
<1>1. Len(s) \in Nat /\ \A p, q \in 1..Len(s) : p < q => s[p] < s[q]
    BY IndexType DEF StrictlySorted
<1> DEFINE f == SubSeq(s, 1, a - 1)
           g == SubSeq(s, b, Len(s))
           r == Cut(s, a, b)
<1>2. /\ f \in Seq(Keys) /\ Len(f) = a - 1
      /\ \A j \in 1..(a - 1) : f[j] = s[j]
    BY <1>1
<1>3. /\ g \in Seq(Keys) /\ Len(g) = Len(s) - b + 1
      /\ \A j \in 1..(Len(s) - b + 1) : g[j] = s[b + j - 1]
    BY <1>1
<1>4. r = f \o g
    BY DEF Cut
<1> HIDE DEF f, g, r
<1>5. /\ r \in Seq(Keys) /\ Len(r) = Len(f) + Len(g)
      /\ \A j \in 1..(Len(f) + Len(g)) :
            r[j] = IF j <= Len(f) THEN f[j] ELSE g[j - Len(f)]
    BY <1>2, <1>3, <1>4, ConcatProperties
<1>6. Len(r) = Len(s) - (b - a)
    BY <1>1, <1>2, <1>3, <1>5
<1>7. \A j \in 1..Len(r) : j < a => j \in 1..Len(s) /\ r[j] = s[j]
    BY <1>1, <1>2, <1>5, <1>6
<1>8. ASSUME NEW j \in 1..Len(r), j >= a
      PROVE  j + (b - a) \in b..Len(s) /\ r[j] = s[j + (b - a)]
    <2>1. j - (a - 1) \in 1..(Len(s) - b + 1) /\ b + (j - (a - 1)) - 1 = j + (b - a)
        BY <1>1, <1>6, <1>8
    <2>2. r[j] = g[j - (a - 1)]
        BY <1>1, <1>2, <1>5, <1>8
    <2>3. g[j - (a - 1)] = s[b + (j - (a - 1)) - 1]
        BY <1>3, <2>1
    <2>4. j + (b - a) \in b..Len(s)
        BY <1>1, <1>6, <1>8
    <2> QED BY <2>1, <2>2, <2>3, <2>4
<1>9. StrictlySorted(r)
    <2> SUFFICES ASSUME NEW p \in 1..Len(r), NEW q \in 1..Len(r), p < q
                 PROVE  r[p] < r[q]
        BY DEF StrictlySorted
    <2>1. CASE q < a
        <3>1. r[p] = s[p] /\ r[q] = s[q] /\ p \in 1..Len(s) /\ q \in 1..Len(s)
            BY <1>1, <1>6, <1>7, <2>1
        <3> QED BY <1>1, <3>1
    <2>2. CASE p < a /\ q >= a
        <3>1. r[p] = s[p] /\ p \in 1..Len(s)
            BY <1>7, <2>2
        <3>2. r[q] = s[q + (b - a)] /\ q + (b - a) \in 1..Len(s) /\ p < q + (b - a)
            BY <1>1, <1>6, <1>8, <2>2
        <3> QED BY <1>1, <3>1, <3>2
    <2>3. CASE p >= a
        <3>1. r[q] = s[q + (b - a)] /\ q + (b - a) \in 1..Len(s)
            BY <1>1, <1>6, <1>8, <2>3
        <3>2. r[p] = s[p + (b - a)] /\ p + (b - a) \in 1..Len(s)
            BY <1>1, <1>6, <1>8, <2>3
        <3>3. p + (b - a) < q + (b - a)
            BY <1>1, <1>6
        <3> QED BY <1>1, <3>1, <3>2, <3>3
    <2> QED BY <1>1, <1>6, <2>1, <2>2, <2>3
<1>10. ASSUME NEW x, x \in ToSet(r)
       PROVE  \E j \in 1..Len(s) : (j < a \/ j >= b) /\ s[j] = x
    <2>1. PICK j \in 1..Len(r) : r[j] = x
        BY <1>5, <1>10, ToSetMember
    <2>2. CASE j < a
        BY <1>7, <2>1, <2>2
    <2>3. CASE j >= a
        <3>1. j + (b - a) \in b..Len(s) /\ s[j + (b - a)] = x
            BY <1>8, <2>1, <2>3
        <3>2. j + (b - a) \in 1..Len(s) /\ j + (b - a) >= b
            BY <1>1, <1>6, <3>1
        <3> QED BY <3>1, <3>2
    <2> QED BY <1>1, <1>6, <2>2, <2>3
<1>11. ASSUME NEW j \in 1..Len(s), j < a \/ j >= b
       PROVE  s[j] \in ToSet(r)
    <2>1. CASE j < a
        <3>1. j \in 1..Len(r) /\ r[j] = s[j]
            BY <1>1, <1>6, <1>7, <2>1
        <3> QED BY <1>5, <3>1, ToSetMember
    <2>2. CASE j >= b
        <3>1. j - (b - a) \in 1..Len(r) /\ j - (b - a) >= a
            BY <1>1, <1>6, <2>2
        <3>2. r[j - (b - a)] = s[(j - (b - a)) + (b - a)]
            BY <1>8, <3>1
        <3>3. (j - (b - a)) + (b - a) = j
            BY <1>1
        <3> QED BY <1>5, <3>1, <3>2, <3>3, ToSetMember
    <2> QED BY <1>11, <2>1, <2>2
<1> QED
    BY <1>5, <1>9, <1>10, <1>11 DEF r

\* Removing a key keeps the index sorted and removes that key alone.
LEMMA RemoveKeyIndexes ==
    ASSUME NEW s \in Seq(Keys), StrictlySorted(s), NEW k \in Keys, k \in ToSet(s)
    PROVE  /\ removeKey(s, k) \in Seq(Keys)
           /\ StrictlySorted(removeKey(s, k))
           /\ ToSet(removeKey(s, k)) = ToSet(s) \ {k}
<1>1. s \in Seq(Nat) /\ k \in Nat /\ Len(s) \in Nat /\ \A j \in 1..Len(s) : s[j] \in Nat
    BY IndexType, KeysAssumption
<1>2. \A p, q \in 1..Len(s) : p < q => s[p] < s[q]
    BY DEF StrictlySorted
<1> DEFINE i == Search(s, k)
<1>3. /\ i \in 1..(Len(s) + 1)
      /\ \A j \in 1..(i - 1) : s[j] < k
      /\ i <= Len(s) => s[i] >= k
    BY <1>1, SearchFinds
<1> HIDE DEF i
<1>4. PICK n \in 1..Len(s) : s[n] = k
    BY ToSetMember
<1>5. n = i
    BY <1>1, <1>2, <1>3, <1>4
<1>6. i \in Nat /\ i + 1 \in Nat /\ 1 <= i /\ i <= i + 1 /\ i + 1 <= Len(s) + 1
    BY <1>1, <1>4, <1>5
<1>7. removeKey(s, k) = Cut(s, i, i + 1)
    <2>1. i <= Len(s) /\ s[i] = k
        BY <1>1, <1>4, <1>5
    <2> QED BY <2>1 DEF removeKey, Cut, i
<1>8. /\ removeKey(s, k) \in Seq(Keys)
      /\ StrictlySorted(removeKey(s, k))
      /\ \A x : x \in ToSet(removeKey(s, k))
                <=> \E j \in 1..Len(s) : (j < i \/ j >= i + 1) /\ s[j] = x
    BY <1>6, <1>7, CutIndexes
<1>9. \A j \in 1..Len(s) : (j < i \/ j >= i + 1) <=> s[j] # k
    BY <1>1, <1>2, <1>4, <1>5
<1>10. \A x : x \in ToSet(s) <=> \E j \in 1..Len(s) : s[j] = x
    BY ToSetMember
<1>11. ToSet(removeKey(s, k)) = ToSet(s) \ {k}
    BY <1>8, <1>9, <1>10
<1> QED
    BY <1>8, <1>11

\* Reset's filter keeps exactly the keys outside the prefix, in order.
LEMMA KeysOutsideIndexes ==
    ASSUME NEW s \in Seq(Keys), StrictlySorted(s), NEW p \in KeyPrefixes
    PROVE  /\ keysOutside(s, p) \in Seq(Keys)
           /\ StrictlySorted(keysOutside(s, p))
           /\ ToSet(keysOutside(s, p)) = {x \in ToSet(s) : ~HasPrefix(x, p)}
<1>1. s \in Seq(Nat) /\ Len(s) \in Nat /\ \A j \in 1..Len(s) : s[j] \in Nat
    BY IndexType
<1>2. p[1] \in Nat /\ p[2] \in Nat /\ p[1] <= p[2] /\ p[2] + 1 \in Nat
    BY PrefixAssumption
<1>3. \A i, j \in 1..Len(s) : i < j => s[i] < s[j]
    BY DEF StrictlySorted
<1> DEFINE a == Search(s, p[1])
           b == Search(s, p[2] + 1)
<1>4. /\ a \in 1..(Len(s) + 1)
      /\ \A j \in 1..(a - 1) : s[j] < p[1]
      /\ a <= Len(s) => s[a] >= p[1]
    BY <1>1, <1>2, SearchFinds
<1>5. /\ b \in 1..(Len(s) + 1)
      /\ \A j \in 1..(b - 1) : s[j] < p[2] + 1
      /\ b <= Len(s) => s[b] >= p[2] + 1
    BY <1>1, <1>2, SearchFinds
<1>6. keysOutside(s, p) = Cut(s, a, b)
    BY DEF keysOutside, Cut
<1> HIDE DEF a, b
<1>7. a <= b
    BY <1>1, <1>2, <1>4, <1>5
<1>8. ASSUME NEW j \in 1..Len(s)
      PROVE  j < a <=> s[j] < p[1]
    <2>1. CASE j < a
        BY <1>1, <1>4, <2>1
    <2>2. CASE j >= a
        <3>1. a \in 1..Len(s) /\ (a = j \/ s[a] < s[j])
            BY <1>1, <1>3, <1>4, <2>2
        <3> QED BY <1>1, <1>2, <1>4, <2>2, <3>1
    <2> QED BY <1>1, <1>4, <2>1, <2>2
<1>9. ASSUME NEW j \in 1..Len(s)
      PROVE  j >= b <=> s[j] >= p[2] + 1
    <2>1. CASE j < b
        BY <1>1, <1>2, <1>5, <2>1
    <2>2. CASE j >= b
        <3>1. b \in 1..Len(s) /\ (b = j \/ s[b] < s[j])
            BY <1>1, <1>3, <1>5, <2>2
        <3> QED BY <1>1, <1>2, <1>5, <2>2, <3>1
    <2> QED BY <1>1, <1>5, <2>1, <2>2
<1>10. a \in Nat /\ b \in Nat /\ 1 <= a /\ a <= b /\ b <= Len(s) + 1
    BY <1>1, <1>4, <1>5, <1>7
<1>11. /\ keysOutside(s, p) \in Seq(Keys)
       /\ StrictlySorted(keysOutside(s, p))
       /\ \A x : x \in ToSet(keysOutside(s, p))
                 <=> \E j \in 1..Len(s) : (j < a \/ j >= b) /\ s[j] = x
    BY <1>6, <1>10, CutIndexes
<1>12. \A j \in 1..Len(s) : (j < a \/ j >= b) <=> ~HasPrefix(s[j], p)
    BY <1>1, <1>2, <1>8, <1>9 DEF HasPrefix
<1>13. \A x : x \in ToSet(s) <=> \E j \in 1..Len(s) : s[j] = x
    BY ToSetMember
<1>14. ToSet(keysOutside(s, p)) = {x \in ToSet(s) : ~HasPrefix(x, p)}
    BY <1>11, <1>12, <1>13
<1> QED
    BY <1>11, <1>14

\* Sorting a sorted index leaves an index of the same keys.
LEMMA SortedIndexes ==
    ASSUME NEW s \in Seq(Keys), StrictlySorted(s)
    PROVE  /\ Sorted(s) \in Seq(Keys)
           /\ StrictlySorted(Sorted(s))
           /\ ToSet(Sorted(s)) = ToSet(s)
<1>1. Len(s) \in Nat /\ \A x \in ToSet(s) : x \in Keys
    BY IndexType, ToSetMember
<1>2. s \in [1..Len(s) -> ToSet(s)]
    BY DEF ToSet
<1>3. /\ Sorted(s) \in [1..Len(s) -> ToSet(s)]
      /\ StrictlySorted(Sorted(s)) /\ ToSet(Sorted(s)) = ToSet(s)
    BY <1>2 DEF Sorted
<1>4. Sorted(s) \in [1..Len(s) -> Keys]
    BY <1>1, <1>3
<1>5. Sorted(s) \in Seq(Keys)
    BY <1>1, <1>4, SeqDef
<1> QED
    BY <1>3, <1>5

-----------------------------------------------------------------------------
\* A stored snapshot pairs a map with its own index, which is what makes
\* Restore safe at any later time.
SnapshotIndexed == snap # NoSnapshot => IndexOf(snap.m, snap.keys)

\* The inductive invariant behind the index.
IInv == TypeOK /\ IndexMatchesMap /\ SnapshotIndexed

LEMMA InitIInv == Init => IInv
<1> SUFFICES ASSUME Init PROVE IInv
    OBVIOUS
<1>1. TypeOK
    BY DEF Init, TypeOK, Entries, Absent, NotRead, NoSnapshot, Walks
<1>2. IndexMatchesMap
    BY DEF Init, IndexMatchesMap, IndexOf, StrictlySorted, ToSet, Holds, Absent
<1>3. SnapshotIndexed
    BY DEF Init, SnapshotIndexed
<1> QED BY <1>1, <1>2, <1>3 DEF IInv

\* A removal keeps the ghost bookkeeping well typed.
LEMMA RemovedType ==
    ASSUME TypeOK, NEW gone \in SUBSET Keys, Removed(gone)
    PROVE  life' \in [Keys -> Nat] /\ walk' \in Walks
<1>1. life' \in [Keys -> Nat]
    BY DEF TypeOK, Removed
<1>2. walk' \in Walks
    BY DEF TypeOK, Removed, Walks
<1> QED BY <1>1, <1>2

\* The last position of a page.
LastIndex(s, w) ==
    IF PageFull(s, w) THEN FirstIndex(s, w) + w.limit - 1 ELSE PrefixEnd(s, w)

\* A page is the run of the index from FirstIndex to LastIndex, and a full page
\* is not empty.
LEMMA PagePositions ==
    ASSUME NEW s \in Seq(Keys), NEW w \in Walks, w.on
    PROVE  /\ FirstIndex(s, w) \in 1..(Len(s) + 2)
           /\ PrefixEnd(s, w) \in 0..Len(s)
           /\ LastIndex(s, w) \in 0..Len(s)
           /\ LastIndex(s, w) <= PrefixEnd(s, w)
           /\ PageFull(s, w) => FirstIndex(s, w) <= LastIndex(s, w)
           /\ Page(s, w) \in Seq(Keys)
           /\ Len(Page(s, w)) = IF FirstIndex(s, w) <= LastIndex(s, w)
                                THEN LastIndex(s, w) - FirstIndex(s, w) + 1 ELSE 0
           /\ \A j \in 1..Len(Page(s, w)) : Page(s, w)[j] = s[FirstIndex(s, w) + j - 1]
<1> DEFINE a == FirstIndex(s, w)
           e == PrefixEnd(s, w)
           z == LastIndex(s, w)
<1>1. s \in Seq(Nat) /\ Len(s) \in Nat /\ \A j \in 1..Len(s) : s[j] \in Keys
    BY IndexType
<1>2. /\ w.prefix \in KeyPrefixes /\ w.limit \in Nat /\ w.token \in Nat
      /\ w.prefix[2] \in Nat /\ w.prefix[2] + 1 \in Nat
    <2>1. w.prefix \in KeyPrefixes /\ w.limit \in Limits /\ w.token \in Nat
        BY DEF Walks
    <2>2. w.prefix \in Nat \X Nat
        BY <2>1, PrefixAssumption
    <2>3. w.prefix[2] \in Nat
        BY <2>2
    <2>4. w.limit \in Nat
        BY <2>1, LimitAssumption
    <2>5. w.prefix[2] + 1 \in Nat
        BY <2>3
    <2> QED BY <2>1, <2>3, <2>4, <2>5, Zenon
<1>3. Search(s, w.token) \in 1..(Len(s) + 1)
    BY <1>1, <1>2, SearchFinds
<1>4. a \in 1..(Len(s) + 2)
    BY <1>1, <1>3 DEF FirstIndex
<1>5. Search(s, w.prefix[2] + 1) \in 1..(Len(s) + 1)
    BY <1>1, <1>2, SearchFinds
<1>6. e \in 0..Len(s)
    BY <1>1, <1>5 DEF PrefixEnd
<1>7. PageFull(s, w) <=> w.limit > 0 /\ e - a + 1 > w.limit
    BY DEF PageFull
<1>8. z = IF PageFull(s, w) THEN a + w.limit - 1 ELSE e
    BY DEF LastIndex
<1>9. Page(s, w) = SubSeq(s, a, z)
    BY <1>8 DEF Page
<1> HIDE DEF a, e, z
<1>10. /\ z \in 0..Len(s) /\ z <= e
       /\ PageFull(s, w) => a <= z
    <2> DEFINE n == Len(s)
               l == w.limit
    <2>1. n \in Nat /\ l \in Nat /\ a \in 1..(n + 2) /\ e \in 0..n
        BY <1>1, <1>2, <1>4, <1>6
    <2>2. CASE PageFull(s, w)
        <3>1. z = a + l - 1 /\ l > 0 /\ e - a + 1 > l
            BY <1>7, <1>8, <2>2
        <3> HIDE DEF n, l
        <3>2. z \in 0..n /\ z <= e /\ a <= z
            BY <2>1, <3>1
        <3> QED BY <3>2 DEF n
    <2>3. CASE ~PageFull(s, w)
        <3>1. z = e
            BY <1>8, <2>3
        <3> QED BY <2>1, <2>3, <3>1
    <2> QED BY <2>2, <2>3
<1>11. \A j \in a..z : s[j] \in Keys
    BY <1>1, <1>4, <1>10
<1>12. /\ SubSeq(s, a, z) \in Seq(Keys)
       /\ Len(SubSeq(s, a, z)) = IF a <= z THEN z - a + 1 ELSE 0
       /\ \A j \in 1..(z - a + 1) : SubSeq(s, a, z)[j] = s[a + j - 1]
    BY <1>1, <1>4, <1>10, <1>11, SubSeqProperties
<1>13. \A j \in 1..Len(SubSeq(s, a, z)) : j \in 1..(z - a + 1)
    BY <1>1, <1>4, <1>10, <1>12
<1> QED
    BY <1>4, <1>6, <1>9, <1>10, <1>12, <1>13 DEF a, e, z

\* ListPage keeps the walk well typed.
LEMMA ListPageType ==
    ASSUME TypeOK, ListPage
    PROVE  walk' \in Walks
<1> DEFINE page == Page(keys, walk)
<1>1. keys \in Seq(Keys) /\ walk \in Walks /\ walk.on
    BY DEF TypeOK, ListPage
<1>2. /\ page \in Seq(Keys)
      /\ PageFull(keys, walk) => Len(page) \in 1..Len(page)
    <2>1. /\ page \in Seq(Keys)
          /\ FirstIndex(keys, walk) \in 1..(Len(keys) + 2)
          /\ LastIndex(keys, walk) \in 0..Len(keys)
          /\ PageFull(keys, walk) => FirstIndex(keys, walk) <= LastIndex(keys, walk)
          /\ Len(page) = IF FirstIndex(keys, walk) <= LastIndex(keys, walk)
                         THEN LastIndex(keys, walk) - FirstIndex(keys, walk) + 1 ELSE 0
        BY <1>1, PagePositions
    <2>2. Len(keys) \in Nat
        BY <1>1
    <2> HIDE DEF page
    <2> QED BY <2>1, <2>2
<1>3. PageFull(keys, walk) => page[Len(page)] \in Nat
    BY <1>2, IndexType
<1>4. walk.returned \o page \in Seq(Keys)
    <2>1. walk.returned \in Seq(Keys)
        BY <1>1 DEF Walks
    <2> HIDE DEF page
    <2> QED BY <1>2, <2>1, ConcatProperties
<1>5. walk' = [walk EXCEPT
                 !.returned = @ \o page,
                 !.token = IF PageFull(keys, walk) THEN page[Len(page)] ELSE @,
                 !.paged = IF PageFull(keys, walk) THEN TRUE ELSE @,
                 !.done = ~PageFull(keys, walk)]
    BY DEF ListPage
<1>6. (~PageFull(keys, walk)) \in BOOLEAN
    OBVIOUS
<1> HIDE DEF page
<1> QED
    BY <1>1, <1>3, <1>4, <1>5, <1>6 DEF Walks

-----------------------------------------------------------------------------
\* Every step keeps the inductive invariant.
LEMMA NextIInv == IInv /\ [Next]_vars => IInv'
<1> SUFFICES ASSUME IInv, [Next]_vars PROVE IInv'
    OBVIOUS
<1> USE DEF IInv
<1>0. /\ m \in [Keys -> Entries] /\ keys \in Seq(Keys)
      /\ StrictlySorted(keys) /\ ToSet(keys) = {k \in Keys : Holds(m, k)}
    BY DEF TypeOK, IndexMatchesMap, IndexOf
<1>1. ASSUME NEW c \in Clients, NEW k \in Keys, Get(c, k) PROVE IInv'
    <2>1. TypeOK'
        BY <1>1 DEF Get, TypeOK
    <2> QED BY <1>1, <2>1 DEF Get, IndexMatchesMap, SnapshotIndexed
<1>2. ASSUME NEW c \in Clients, NEW v \in Values, PutHeld(c, v) PROVE IInv'
    <2> DEFINE k == held[c].key
    <2>1. k \in Keys
        BY <1>2 DEF PutHeld, TypeOK
    <2>2. UNCHANGED <<life, snap, walk>> /\ held' = [held EXCEPT ![c] = NotRead]
        BY <1>2 DEF PutHeld
    <2>3. CASE PutMatches(m, k, held[c].entry.version)
        <3>1. /\ m' = Put(m, k, v)
              /\ keys' = IF Holds(m, k) THEN keys ELSE insertKey(keys, k)
            BY <1>2, <2>3 DEF PutHeld
        <3> HIDE DEF k
        <3>2. m' \in [Keys -> Entries]
            BY <1>0, <1>2, <2>1, <3>1 DEF Put, Entries, Absent
        <3>3. {i \in Keys : Holds(m', i)} = {i \in Keys : Holds(m, i)} \cup {k}
            BY <1>0, <2>1, <3>1 DEF Put, Entries, Absent, Holds
        <3>4. keys' \in Seq(Keys) /\ IndexOf(m', keys')
            <4>1. CASE Holds(m, k)
                BY <1>0, <2>1, <3>1, <3>3, <4>1 DEF IndexOf
            <4>2. CASE ~Holds(m, k)
                <5>1. keys' = insertKey(keys, k) /\ k \notin ToSet(keys)
                    BY <1>0, <3>1, <4>2
                <5>2. /\ insertKey(keys, k) \in Seq(Keys)
                      /\ StrictlySorted(insertKey(keys, k))
                      /\ ToSet(insertKey(keys, k)) = ToSet(keys) \cup {k}
                    BY <1>0, <2>1, <5>1, InsertKeyPositions, InsertKeyIndexes
                <5> QED BY <1>0, <3>3, <5>1, <5>2 DEF IndexOf
            <4> QED BY <4>1, <4>2
        <3>5. TypeOK'
            BY <2>2, <3>2, <3>4 DEF TypeOK
        <3> QED BY <2>2, <3>4, <3>5 DEF IndexMatchesMap, SnapshotIndexed
    <2>4. CASE ~PutMatches(m, k, held[c].entry.version)
        <3>1. UNCHANGED <<m, keys>>
            BY <1>2, <2>4 DEF PutHeld
        <3>2. TypeOK'
            BY <2>2, <3>1 DEF TypeOK
        <3> QED BY <2>2, <3>1, <3>2 DEF IndexMatchesMap, SnapshotIndexed
    <2> QED BY <2>3, <2>4
<1>3. ASSUME NEW c \in Clients, NEW n \in 0..MaxVersion, DeleteHeld(c, n) PROVE IInv'
    <2> DEFINE k == held[c].key
    <2>1. k \in Keys
        BY <1>3 DEF DeleteHeld, TypeOK
    <2>2. UNCHANGED snap /\ held' = [held EXCEPT ![c] = NotRead]
        BY <1>3 DEF DeleteHeld
    <2>3. CASE DeleteMatches(m, k, n)
        <3>1. m' = Delete(m, k) /\ keys' = removeKey(keys, k) /\ Removed({k})
            BY <1>3, <2>3 DEF DeleteHeld
        <3>2. Holds(m, k)
            BY <2>3 DEF DeleteMatches
        <3> HIDE DEF k
        <3>3. m' \in [Keys -> Entries]
            BY <1>0, <2>1, <3>1 DEF Delete, Entries
        <3>4. {i \in Keys : Holds(m', i)} = {i \in Keys : Holds(m, i)} \ {k}
            BY <1>0, <2>1, <3>1 DEF Delete, Absent, Holds
        <3>5. k \in ToSet(keys)
            BY <1>0, <2>1, <3>2
        <3>6. /\ removeKey(keys, k) \in Seq(Keys)
              /\ StrictlySorted(removeKey(keys, k))
              /\ ToSet(removeKey(keys, k)) = ToSet(keys) \ {k}
            BY <1>0, <2>1, <3>5, RemoveKeyIndexes
        <3>7. keys' \in Seq(Keys) /\ IndexOf(m', keys')
            BY <1>0, <3>1, <3>4, <3>6 DEF IndexOf
        <3>8. life' \in [Keys -> Nat] /\ walk' \in Walks
            BY <2>1, <3>1, RemovedType
        <3>9. TypeOK'
            BY <2>2, <3>3, <3>7, <3>8 DEF TypeOK
        <3> QED BY <2>2, <3>7, <3>9 DEF IndexMatchesMap, SnapshotIndexed
    <2>4. CASE ~DeleteMatches(m, k, n)
        <3>1. UNCHANGED <<m, keys, life, walk>>
            BY <1>3, <2>4 DEF DeleteHeld
        <3>2. TypeOK'
            BY <2>2, <3>1 DEF TypeOK
        <3> QED BY <2>2, <3>1, <3>2 DEF IndexMatchesMap, SnapshotIndexed
    <2> QED BY <2>3, <2>4
<1>4. ASSUME NEW p \in KeyPrefixes, ResetPrefix(p) PROVE IInv'
    <2> DEFINE gone == {k \in Keys : HasPrefix(k, p) /\ Holds(m, k)}
    <2>1. /\ m' = Reset(m, {k \in Keys : HasPrefix(k, p)})
          /\ keys' = keysOutside(keys, p) /\ Removed(gone)
          /\ UNCHANGED <<held, snap>>
        BY <1>4 DEF ResetPrefix
    <2>2. m' \in [Keys -> Entries]
        BY <1>0, <2>1 DEF Reset, Entries
    <2>3. \A k \in Keys : Holds(m', k) <=> Holds(m, k) /\ ~HasPrefix(k, p)
        BY <1>0, <2>1 DEF Reset, Absent, Holds
    <2>4. /\ keysOutside(keys, p) \in Seq(Keys)
          /\ StrictlySorted(keysOutside(keys, p))
          /\ ToSet(keysOutside(keys, p)) = {x \in ToSet(keys) : ~HasPrefix(x, p)}
        BY <1>0, KeysOutsideIndexes
    <2>5. keys' \in Seq(Keys) /\ IndexOf(m', keys')
        BY <1>0, <2>1, <2>3, <2>4 DEF IndexOf
    <2>6. life' \in [Keys -> Nat] /\ walk' \in Walks
        BY <2>1, RemovedType
    <2>7. TypeOK'
        BY <2>1, <2>2, <2>5, <2>6 DEF TypeOK
    <2> QED BY <2>1, <2>5, <2>7 DEF IndexMatchesMap, SnapshotIndexed
<1>5. ASSUME TakeSnapshot PROVE IInv'
    <2>1. TypeOK'
        BY <1>5 DEF TakeSnapshot, TypeOK
    <2>2. IndexMatchesMap' /\ SnapshotIndexed'
        BY <1>0, <1>5 DEF TakeSnapshot, IndexMatchesMap, SnapshotIndexed, IndexOf
    <2> QED BY <2>1, <2>2
<1>6. ASSUME Restore PROVE IInv'
    <2>1. /\ snap.m \in [Keys -> Entries] /\ snap.keys \in Seq(Keys)
          /\ IndexOf(snap.m, snap.keys)
        BY <1>6 DEF Restore, TypeOK, SnapshotIndexed
    <2>2. m' = snap.m /\ keys' = Sorted(snap.keys) /\ Removed(Keys)
          /\ UNCHANGED <<held, snap>>
        BY <1>6 DEF Restore
    <2>3. keys' \in Seq(Keys) /\ IndexOf(m', keys')
        BY <2>1, <2>2, SortedIndexes DEF IndexOf
    <2>4. life' \in [Keys -> Nat] /\ walk' \in Walks
        BY <2>2, RemovedType
    <2>5. TypeOK'
        BY <2>1, <2>2, <2>3, <2>4 DEF TypeOK
    <2> QED BY <2>2, <2>3, <2>5 DEF IndexMatchesMap, SnapshotIndexed
<1>7. ASSUME NEW p \in KeyPrefixes, NEW n \in Limits, StartWalk(p, n) PROVE IInv'
    <2> DEFINE must == {k \in Present : HasPrefix(k, p)}
    <2>0. p[1] \in Nat /\ <<>> \in Seq(Keys) /\ must \in SUBSET Keys
        BY PrefixAssumption DEF Present
    <2>3. walk' = [on |-> TRUE, prefix |-> p, limit |-> n, paged |-> FALSE,
                   token |-> p[1], returned |-> <<>>, done |-> FALSE, must |-> must]
        BY <1>7 DEF StartWalk
    <2>1. walk' \in Walks
        <3> HIDE DEF must
        <3> QED BY <2>0, <2>3 DEF Walks
    <2>2. TypeOK'
        BY <1>7, <2>1 DEF StartWalk, TypeOK
    <2> QED BY <1>7, <2>2 DEF StartWalk, IndexMatchesMap, SnapshotIndexed
<1>8. ASSUME ListPage PROVE IInv'
    <2>1. walk' \in Walks
        BY <1>8, ListPageType
    <2>2. TypeOK'
        BY <1>8, <2>1 DEF ListPage, TypeOK
    <2> QED BY <1>8, <2>2 DEF ListPage, IndexMatchesMap, SnapshotIndexed
<1>9. CASE UNCHANGED vars
    BY <1>9 DEF vars, TypeOK, IndexMatchesMap, SnapshotIndexed
<1> QED
    BY <1>1, <1>2, <1>3, <1>4, <1>5, <1>6, <1>7, <1>8, <1>9 DEF Next

\* The map, the index, every value a caller holds and every page token keep
\* their types.
THEOREM TypeCorrect == Spec => []TypeOK
<1>1. IInv => TypeOK
    BY DEF IInv
<1> QED
    BY InitIInv, NextIInv, <1>1, PTL DEF Spec

\* The sorted index names exactly the keys the map holds, for any number of
\* keys, clients and prefixes and any order of calls.
THEOREM IndexIsTheMap == Spec => []IndexMatchesMap
<1>1. IInv => IndexMatchesMap
    BY DEF IInv
<1> QED
    BY InitIInv, NextIInv, <1>1, PTL DEF Spec

-----------------------------------------------------------------------------
\* What a client read stays behind the store: the key's life only goes up, and
\* within one life its version only goes up and names one entry.
ReadIsOld(h) ==
    h # NotRead =>
        /\ h.life <= life[h.key]
        /\ h.life = life[h.key] =>
             /\ h.entry.version <= m[h.key].version
             /\ h.entry.version = m[h.key].version => h.entry = m[h.key]

ReadsAreOld == \A c \in Clients : ReadIsOld(held[c])

\* A removal ends the life of the keys it removes and leaves the others alone.
LEMMA RemovedReads ==
    ASSUME TypeOK, ReadsAreOld, NEW gone \in SUBSET Keys, Removed(gone),
           m' \in [Keys -> Entries],
           \A k \in Keys \ gone : m'[k] = m[k],
           NEW c \in Clients, held'[c] \in {held[c], NotRead}
    PROVE  ReadIsOld(held[c])'
<1>1. CASE held'[c] = NotRead
    BY <1>1 DEF ReadIsOld
<1>2. CASE held'[c] = held[c] /\ held[c] # NotRead
    <2>1. held[c].key \in Keys /\ held[c].life \in Nat /\ life \in [Keys -> Nat]
        BY <1>2 DEF TypeOK
    <2>2. /\ held[c].key \in gone => life'[held[c].key] = life[held[c].key] + 1
          /\ held[c].key \notin gone => life'[held[c].key] = life[held[c].key]
        BY <2>1 DEF Removed
    <2>3. ReadIsOld(held[c])
        BY DEF ReadsAreOld
    <2> QED BY <1>2, <2>1, <2>2, <2>3 DEF ReadIsOld
<1> QED BY <1>1, <1>2

LEMMA NextReads == IInv /\ ReadsAreOld /\ [Next]_vars => ReadsAreOld'
<1> SUFFICES ASSUME IInv, ReadsAreOld, [Next]_vars, NEW c \in Clients
             PROVE  ReadIsOld(held[c])'
    BY DEF ReadsAreOld
<1>0. /\ TypeOK /\ TypeOK' /\ ReadIsOld(held[c])
      /\ m \in [Keys -> Entries] /\ m' \in [Keys -> Entries]
    BY NextIInv DEF IInv, TypeOK, ReadsAreOld
<1>1. ASSUME NEW d \in Clients, NEW k \in Keys, Get(d, k) PROVE ReadIsOld(held[c])'
    <2>1. CASE c = d
        <3>1. held'[c] = [key |-> k, entry |-> m[k], life |-> life[k]]
            BY <1>0, <1>1, <2>1 DEF Get, TypeOK
        <3>2. m[k].version \in Nat /\ life[k] \in Nat
            BY <1>0 DEF TypeOK, Entries, Absent
        <3> QED BY <1>1, <3>1, <3>2 DEF Get, ReadIsOld
    <2>2. CASE c # d
        BY <1>0, <1>1, <2>2 DEF Get, ReadIsOld, TypeOK
    <2> QED BY <2>1, <2>2
<1>2. ASSUME NEW d \in Clients, NEW v \in Values, PutHeld(d, v) PROVE ReadIsOld(held[c])'
    <2> DEFINE k == held[d].key
    <2>1. k \in Keys /\ life' = life /\ held'[c] \in {held[c], NotRead}
        BY <1>0, <1>2 DEF PutHeld, TypeOK
    <2>2. m' = m \/ m' = Put(m, k, v)
        BY <1>2 DEF PutHeld
    <2>3. CASE m' = m
        BY <1>0, <2>1, <2>3 DEF ReadIsOld
    <2>4. CASE m' = Put(m, k, v)
        <3> HIDE DEF k
        <3>1. /\ m'[k].version = m[k].version + 1
              /\ \A j \in Keys \ {k} : m'[j] = m[j]
            BY <1>0, <2>1, <2>4 DEF Put
        <3>2. CASE held'[c] = NotRead
            BY <3>2 DEF ReadIsOld
        <3>3. CASE held'[c] = held[c] /\ held[c] # NotRead
            <4>1. held[c].key \in Keys /\ held[c].entry \in Entries
                <5>1. held[c] \in [key : Keys, entry : Entries, life : Nat]
                    BY <1>0, <3>3 DEF TypeOK
                <5> QED BY <5>1
            <4>2. \A e \in Entries : e.version \in Nat
                BY DEF Entries, Absent
            <4>3. m[k] \in Entries
                BY <1>0, <2>1 DEF TypeOK
            <4>4. held[c].entry.version \in Nat /\ m[k].version \in Nat
                BY <4>1, <4>2, <4>3
            <4> QED BY <1>0, <2>1, <3>1, <3>3, <4>1, <4>4 DEF ReadIsOld
        <3> QED BY <2>1, <3>2, <3>3
    <2> QED BY <2>2, <2>3, <2>4
<1>3. ASSUME NEW d \in Clients, NEW n \in 0..MaxVersion, DeleteHeld(d, n)
      PROVE  ReadIsOld(held[c])'
    <2> DEFINE k == held[d].key
    <2>1. k \in Keys /\ held'[c] \in {held[c], NotRead}
        BY <1>0, <1>3 DEF DeleteHeld, TypeOK
    <2>2. CASE DeleteMatches(m, k, n)
        <3>1. m' = Delete(m, k) /\ Removed({k})
            BY <1>3, <2>2 DEF DeleteHeld
        <3> HIDE DEF k
        <3>2. \A j \in Keys \ {k} : m'[j] = m[j]
            BY <1>0, <2>1, <3>1 DEF Delete
        <3> QED BY <1>0, <2>1, <3>1, <3>2, RemovedReads
    <2>3. CASE ~DeleteMatches(m, k, n)
        <3>1. UNCHANGED <<m, life>>
            BY <1>3, <2>3 DEF DeleteHeld
        <3> QED BY <1>0, <2>1, <3>1 DEF ReadIsOld
    <2> QED BY <2>2, <2>3
<1>4. ASSUME NEW p \in KeyPrefixes, ResetPrefix(p) PROVE ReadIsOld(held[c])'
    <2> DEFINE gone == {k \in Keys : HasPrefix(k, p) /\ Holds(m, k)}
    <2>1. Removed(gone) /\ gone \in SUBSET Keys /\ held'[c] \in {held[c], NotRead}
        BY <1>4 DEF ResetPrefix
    <2>2. \A k \in Keys \ gone : m'[k] = m[k]
        <3>1. \A k \in Keys : ~Holds(m, k) => m[k] = Absent
            BY <1>0 DEF Entries, Holds
        <3> QED BY <1>0, <1>4, <3>1 DEF ResetPrefix, Reset
    <2> HIDE DEF gone
    <2> QED BY <1>0, <2>1, <2>2, RemovedReads
<1>5. ASSUME Restore PROVE ReadIsOld(held[c])'
    <2>1. Removed(Keys) /\ held'[c] \in {held[c], NotRead}
        BY <1>5 DEF Restore
    <2> QED BY <1>0, <2>1, RemovedReads
<1>6. CASE UNCHANGED <<m, life, held>>
    BY <1>0, <1>6 DEF ReadIsOld
<1> QED
    BY <1>1, <1>2, <1>3, <1>4, <1>5, <1>6
    DEF Next, TakeSnapshot, StartWalk, ListPage, vars

\* A compare-and-swap that matches replaces the entry its caller read, unless
\* the key was removed in between.
THEOREM CasReplacesWhatWasRead == Spec => []VersionNamesOneEntry
<1>1. Init => ReadsAreOld
    BY DEF Init, ReadsAreOld, ReadIsOld
<1>2. ReadsAreOld => VersionNamesOneEntry
    BY DEF ReadsAreOld, ReadIsOld, VersionNamesOneEntry
<1> QED
    BY InitIInv, NextIInv, NextReads, <1>1, <1>2, PTL DEF Spec
=============================================================================
