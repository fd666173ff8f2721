----------------------------- MODULE PageProofs -----------------------------
(***************************************************************************)
(* Theorems about the three parts of the workspace page that talk to the   *)
(* daemon: Terminal, Editor and FileTree, for every bound and every value  *)
(* of their constants.  They need the same facts about what travels on     *)
(* the wire.  Each is a specification by itself, of the same wire: no      *)
(* theorem relates two of them.                                            *)
(***************************************************************************)
EXTENDS Terminal, Editor, FileTree, FiniteSetTheorems, TLAPS

-----------------------------------------------------------------------------
(* What travels in a sequence.                                             *)
Has(s, x) == \E i \in DOMAIN s : s[i] = x

LEMMA HasAppend ==
    ASSUME NEW S, NEW s \in Seq(S), NEW y \in S
    PROVE  /\ Append(s, y) \in Seq(S)
           /\ \A x : Has(Append(s, y), x) <=> Has(s, x) \/ x = y
<1>1. /\ Append(s, y) \in Seq(S) /\ Len(Append(s, y)) = Len(s) + 1
      /\ \A i \in 1..Len(s) : Append(s, y)[i] = s[i]
      /\ Append(s, y)[Len(s) + 1] = y /\ Len(s) \in Nat
  OBVIOUS
<1>2. PICK t \in Seq(S) : t = Append(s, y)
  BY <1>1
<1>3. DOMAIN t = 1..(Len(s) + 1) /\ DOMAIN s = 1..Len(s)
  BY <1>1, <1>2
<1>4. ASSUME NEW x PROVE Has(t, x) <=> Has(s, x) \/ x = y
  <2>1. ASSUME NEW i \in DOMAIN t, t[i] = x PROVE Has(s, x) \/ x = y
    <3>1. i \in DOMAIN s \/ i = Len(s) + 1
      BY <1>1, <1>3, <2>1
    <3> QED BY <1>1, <1>2, <1>3, <2>1, <3>1 DEF Has
  <2>2. ASSUME NEW i \in DOMAIN s, s[i] = x PROVE Has(t, x)
    BY <1>1, <1>2, <1>3, <2>2 DEF Has
  <2>3. Has(t, y)
    <3>1. Len(s) + 1 \in DOMAIN t /\ t[Len(s) + 1] = y
      BY <1>1, <1>2, <1>3
    <3> QED BY <3>1 DEF Has
  <2> QED BY <2>1, <2>2, <2>3 DEF Has
<1> QED BY <1>1, <1>2, <1>4

LEMMA HasTail ==
    ASSUME NEW S, NEW s \in Seq(S), s # <<>>
    PROVE  /\ Tail(s) \in Seq(S) /\ Head(s) \in S
           /\ \A x : Has(s, x) <=> x = Head(s) \/ Has(Tail(s), x)
<1>1. /\ Tail(s) \in Seq(S) /\ Head(s) \in S /\ Len(s) \in Nat \ {0}
      /\ Len(Tail(s)) = Len(s) - 1 /\ Head(s) = s[1]
      /\ \A i \in 1..(Len(s) - 1) : Tail(s)[i] = s[i + 1]
  OBVIOUS
<1>2. PICK t \in Seq(S) : t = Tail(s)
  BY <1>1
<1>3. DOMAIN t = 1..(Len(s) - 1) /\ DOMAIN s = 1..Len(s)
  BY <1>1, <1>2
<1>4. ASSUME NEW x PROVE Has(s, x) <=> x = Head(s) \/ Has(t, x)
  <2>1. ASSUME NEW i \in DOMAIN s, s[i] = x PROVE x = Head(s) \/ Has(t, x)
    <3>1. CASE i = 1
      BY <1>1, <2>1, <3>1
    <3>2. CASE i # 1
      <4>1. i - 1 \in DOMAIN t /\ (i - 1) + 1 = i
        BY <1>1, <1>3, <3>2
      <4>2. t[i - 1] = s[i]
        BY <1>1, <1>2, <1>3, <4>1
      <4> QED BY <2>1, <4>1, <4>2 DEF Has
    <3> QED BY <3>1, <3>2
  <2>2. ASSUME NEW i \in DOMAIN t, t[i] = x PROVE Has(s, x)
    <3>1. i + 1 \in DOMAIN s /\ s[i + 1] = x
      BY <1>1, <1>2, <1>3, <2>2
    <3> QED BY <3>1 DEF Has
  <2>3. Has(s, Head(s))
    BY <1>1, <1>3 DEF Has
  <2> QED BY <2>1, <2>2, <2>3 DEF Has
<1> QED BY <1>1, <1>2, <1>4

LEMMA HasConcat ==
    ASSUME NEW S, NEW s \in Seq(S), NEW t \in Seq(S)
    PROVE  /\ s \o t \in Seq(S)
           /\ \A x : Has(s \o t, x) <=> Has(s, x) \/ Has(t, x)
<1>1. /\ s \o t \in Seq(S) /\ Len(s \o t) = Len(s) + Len(t)
      /\ \A i \in 1..Len(s) : (s \o t)[i] = s[i]
      /\ Len(s) \in Nat /\ Len(t) \in Nat
  OBVIOUS
<1>2. \A i \in 1..Len(t) : (s \o t)[Len(s) + i] = t[i]
  OBVIOUS
<1>3. PICK u \in Seq(S) : u = s \o t
  BY <1>1
<1>4. /\ DOMAIN u = 1..(Len(s) + Len(t)) /\ DOMAIN s = 1..Len(s)
      /\ DOMAIN t = 1..Len(t)
  BY <1>1, <1>3
<1>5. ASSUME NEW x PROVE Has(u, x) <=> Has(s, x) \/ Has(t, x)
  <2>1. ASSUME NEW i \in DOMAIN u, u[i] = x PROVE Has(s, x) \/ Has(t, x)
    <3>1. CASE i \in DOMAIN s
      BY <1>1, <1>3, <1>4, <2>1, <3>1 DEF Has
    <3>2. CASE i \notin DOMAIN s
      <4>1. i - Len(s) \in DOMAIN t /\ Len(s) + (i - Len(s)) = i
        BY <1>1, <1>4, <3>2
      <4>2. t[i - Len(s)] = x
        BY <1>2, <1>3, <1>4, <2>1, <4>1
      <4> QED BY <4>1, <4>2 DEF Has
    <3> QED BY <3>1, <3>2
  <2>2. ASSUME NEW i \in DOMAIN s, s[i] = x PROVE Has(u, x)
    <3>1. i \in DOMAIN u /\ u[i] = x
      BY <1>1, <1>3, <1>4, <2>2
    <3> QED BY <3>1 DEF Has
  <2>3. ASSUME NEW i \in DOMAIN t, t[i] = x PROVE Has(u, x)
    <3>1. Len(s) + i \in DOMAIN u
      BY <1>1, <1>4
    <3>2. u[Len(s) + i] = x
      BY <1>2, <1>3, <1>4, <2>3
    <3> QED BY <3>1, <3>2 DEF Has
  <2> QED BY <2>1, <2>2, <2>3 DEF Has
<1> QED BY <1>1, <1>3, <1>5

(* SetToSeq numbers the elements of a finite set.                          *)
LEMMA SetToSeqFacts ==
    ASSUME NEW S, IsFiniteSet(S)
    PROVE  /\ SetToSeq(S) \in Seq(S) /\ Len(SetToSeq(S)) = Cardinality(S)
           /\ \A i, j \in DOMAIN SetToSeq(S) :
                SetToSeq(S)[i] = SetToSeq(S)[j] => i = j
           /\ \A x : Has(SetToSeq(S), x) <=> x \in S
<1>1. PICK n \in Nat : n = Cardinality(S)
  BY FS_CardinalityType
<1>2. PICK g : g \in Bijection(1..n, S)
  BY <1>1, FS_CardinalityType DEF ExistsBijection
<1>3. g \in [1..n -> S] /\ IsInjective(g)
  BY <1>2 DEF Bijection, Injection
<1>4. PICK f : f = SetToSeq(S)
  OBVIOUS
<1>5. f \in [1..n -> S] /\ IsInjective(f)
  BY <1>1, <1>3, <1>4 DEF SetToSeq
<1>6. f \in Injection(1..n, S)
  BY <1>5 DEF Injection
<1>7. Cardinality(1..n) = n
  BY FS_Interval
<1>8. f \in Surjection(1..n, S)
  BY <1>1, <1>6, <1>7, FS_Injection
<1>9. f \in Seq(S) /\ Len(f) = n /\ DOMAIN f = 1..n
  BY <1>5
<1>10. \A i, j \in DOMAIN f : f[i] = f[j] => i = j
  BY <1>5 DEF IsInjective
<1>11. \A x : Has(f, x) <=> x \in S
  BY <1>5, <1>8, <1>9 DEF Surjection, Has
<1> QED BY <1>1, <1>4, <1>9, <1>10, <1>11

(* Keeping the positions I is a renumbering of them in the same order.     *)
Leaves(t, s, I, h) ==
    /\ h \in [DOMAIN t -> I]
    /\ \A m, n \in DOMAIN t : m < n => h[m] < h[n]
    /\ \A n \in DOMAIN t : t[n] = s[h[n]]
    /\ \A i \in I : \E n \in DOMAIN t : h[n] = i

LEMMA KeepFacts ==
    ASSUME NEW S, NEW s \in Seq(S), NEW I \in SUBSET DOMAIN s
    PROVE  /\ Keep(s, I) \in Seq(S)
           /\ \E h : Leaves(Keep(s, I), s, I, h)
<1>1. DOMAIN s = 1..Len(s) /\ Len(s) \in Nat
  OBVIOUS
<1>2. IsFiniteSet(I)
  <2>1. IsFiniteSet(1..Len(s)) /\ I \in SUBSET (1..Len(s))
    BY <1>1, FS_Interval
  <2> QED BY ONLY <2>1, FS_Subset
<1>3. PICK c \in Nat : c = Cardinality(I)
  BY <1>2, FS_CardinalityType
<1>4. PICK rank : rank = [i \in I |-> Cardinality(I \cap 1..i)]
  OBVIOUS
<1>5. ASSUME NEW i \in I PROVE rank[i] \in 1..c
  <2>1. IsFiniteSet(I \cap 1..i) /\ Cardinality(I \cap 1..i) <= c
    BY <1>2, <1>3, FS_Subset
  <2>2. Cardinality(I \cap 1..i) \in Nat
    BY <2>1, FS_CardinalityType
  <2>3. i \in I \cap 1..i
    BY <1>1
  <2>4. Cardinality(I \cap 1..i) # 0
    BY <2>1, <2>3, FS_EmptySet
  <2> QED BY <1>3, <1>4, <2>1, <2>2, <2>4
<1>6. ASSUME NEW i \in I, NEW j \in I, i < j PROVE rank[i] < rank[j]
  <2>1. IsFiniteSet(I \cap 1..j)
    BY <1>2, FS_Subset
  <2>2. I \cap 1..i \subseteq I \cap 1..j
    BY <1>1, <1>6
  <2>3. I \cap 1..i # I \cap 1..j
    BY <1>1, <1>6
  <2>4. rank[i] <= rank[j] /\ rank[i] # rank[j]
    BY <1>4, <2>1, <2>2, <2>3, FS_Subset
  <2> QED BY <1>5, <2>4
<1>7. \A i, j \in I : i # j => rank[i] # rank[j]
  BY <1>1, <1>5, <1>6
<1>8. rank \in Injection(I, 1..c)
  BY <1>4, <1>5, <1>7 DEF Injection, IsInjective
<1>9. IsFiniteSet(1..c) /\ Cardinality(1..c) = c
  BY <1>3, FS_Interval
<1>10. rank \in Surjection(I, 1..c)
  BY <1>3, <1>8, <1>9, FS_Injection
<1>11. PICK h : h = [n \in 1..c |-> Place(I, n)]
  OBVIOUS
<1>12. ASSUME NEW n \in 1..c PROVE h[n] \in I /\ rank[h[n]] = n
  <2>1. PICK i \in I : rank[i] = n
    BY <1>10 DEF Surjection
  <2>2. Cardinality(I \cap 1..i) = n
    BY <1>4, <2>1
  <2>3. Place(I, n) \in I /\ Cardinality(I \cap 1..Place(I, n)) = n
    BY ONLY <2>2, i \in I DEF Place
  <2> QED BY <1>4, <1>11, <2>3
<1>13. PICK t : t = Keep(s, I)
  OBVIOUS
<1>14. t = [n \in 1..c |-> s[h[n]]]
  BY <1>3, <1>11, <1>13 DEF Keep
<1>15. DOMAIN t = 1..c /\ \A n \in 1..c : t[n] = s[h[n]]
  BY <1>14
<1>16. \A n \in 1..c : s[h[n]] \in S
  BY <1>12
<1>17. t \in Seq(S)
  BY <1>3, <1>14, <1>16
<1>18. ASSUME NEW m \in 1..c, NEW n \in 1..c, m < n PROVE h[m] < h[n]
  <2>1. h[m] \in 1..Len(s) /\ h[n] \in 1..Len(s)
    BY <1>1, <1>12
  <2>2. rank[h[m]] = m /\ rank[h[n]] = n
    BY <1>12
  <2>3. ~(h[n] < h[m]) /\ h[m] # h[n]
    BY <1>3, <1>6, <1>12, <1>18, <2>2
  <2> QED BY <1>1, <2>1, <2>3
<1>19. ASSUME NEW i \in I PROVE \E n \in 1..c : h[n] = i
  <2>1. rank[i] \in 1..c /\ rank[h[rank[i]]] = rank[i] /\ h[rank[i]] \in I
    BY <1>5, <1>12
  <2> QED BY <1>7, <2>1
<1>20. Leaves(t, s, I, h)
  BY <1>11, <1>12, <1>15, <1>18, <1>19 DEF Leaves
<1> QED BY <1>13, <1>17, <1>20

(* How many frames of a sequence are in X.                                 *)
Zero(s, X) == \A i \in DOMAIN s : s[i] \notin X
One(s, X) ==
    \E i \in DOMAIN s : s[i] \in X /\ \A j \in DOMAIN s : s[j] \in X => j = i

(* t has what s has and y.                                                 *)
Gains(t, s, y, X) ==
    /\ y \notin X => (Zero(s, X) => Zero(t, X)) /\ (One(s, X) => One(t, X))
    /\ y \in X => (Zero(s, X) => One(t, X))

LEMMA CountAppend ==
    ASSUME NEW S, NEW s \in Seq(S), NEW y \in S, NEW X
    PROVE  Gains(Append(s, y), s, y, X)
<1>1. PICK t \in Seq(S) : t = Append(s, y)
  BY HasAppend
<1>2. /\ Len(s) \in Nat /\ DOMAIN s = 1..Len(s) /\ DOMAIN t = 1..(Len(s) + 1)
      /\ t[Len(s) + 1] = y /\ \A i \in 1..Len(s) : t[i] = s[i]
  BY <1>1
<1>3. Len(s) + 1 \in DOMAIN t /\ Len(s) + 1 \notin DOMAIN s
  BY <1>2
<1>4. \A i \in DOMAIN t : i \in DOMAIN s \/ i = Len(s) + 1
  BY <1>2
<1>5. \A i \in DOMAIN s : i \in DOMAIN t /\ t[i] = s[i]
  BY <1>2
<1>6. ASSUME y \notin X, One(s, X) PROVE One(t, X)
  BY <1>2, <1>4, <1>5, <1>6 DEF One
<1>7. ASSUME y \in X, Zero(s, X) PROVE One(t, X)
  BY <1>2, <1>3, <1>4, <1>5, <1>7 DEF One, Zero
<1>8. ASSUME y \notin X, Zero(s, X) PROVE Zero(t, X)
  BY <1>2, <1>4, <1>5, <1>8 DEF Zero
<1> QED BY <1>1, <1>6, <1>7, <1>8 DEF Gains

LEMMA CountConcat ==
    ASSUME NEW S, NEW s \in Seq(S), NEW t \in Seq(S), NEW X
    PROVE  /\ Zero(s, X) /\ Zero(t, X) => Zero(s \o t, X)
           /\ One(s, X) /\ Zero(t, X) => One(s \o t, X)
           /\ Zero(s, X) /\ One(t, X) => One(s \o t, X)
<1>1. PICK u \in Seq(S) : u = s \o t
  BY HasConcat
<1>2. /\ Len(s) \in Nat /\ DOMAIN s = 1..Len(s)
      /\ Len(t) \in Nat /\ DOMAIN t = 1..Len(t)
      /\ DOMAIN u = 1..(Len(s) + Len(t))
  BY <1>1
<1>3. \A i \in DOMAIN s : i \in DOMAIN u /\ u[i] = s[i]
  BY <1>1, <1>2
<1>4. ASSUME NEW j \in DOMAIN t
      PROVE  /\ Len(s) + j \in DOMAIN u /\ Len(s) + j \notin DOMAIN s
             /\ u[Len(s) + j] = t[j]
  BY <1>1, <1>2
<1>5. ASSUME NEW i \in DOMAIN u, i \notin DOMAIN s
      PROVE  i - Len(s) \in DOMAIN t /\ i = Len(s) + (i - Len(s))
  BY <1>2, <1>5
<1>6. ASSUME Zero(s, X), Zero(t, X) PROVE Zero(u, X)
  BY <1>3, <1>4, <1>5, <1>6 DEF Zero
<1>7. ASSUME One(s, X), Zero(t, X) PROVE One(u, X)
  BY <1>3, <1>4, <1>5, <1>7 DEF One, Zero
<1>8. ASSUME Zero(s, X), One(t, X) PROVE One(u, X)
  <2>1. PICK j \in DOMAIN t :
          t[j] \in X /\ \A k \in DOMAIN t : t[k] \in X => k = j
    BY <1>8 DEF One
  <2>2. Len(s) + j \in DOMAIN u /\ u[Len(s) + j] \in X
    BY <1>4, <2>1
  <2>3. ASSUME NEW i \in DOMAIN u, u[i] \in X PROVE i = Len(s) + j
    <3>1. i \notin DOMAIN s
      BY <1>3, <1>8, <2>3 DEF Zero
    <3>2. i - Len(s) \in DOMAIN t /\ i = Len(s) + (i - Len(s))
      BY <1>5, <3>1
    <3>3. t[i - Len(s)] = u[i]
      BY <1>4, <3>2
    <3> QED BY <2>1, <2>3, <3>2, <3>3
  <2> QED BY <2>2, <2>3 DEF One
<1> QED BY <1>1, <1>6, <1>7, <1>8

LEMMA CountLeaves ==
    ASSUME NEW s, NEW t, NEW I \in SUBSET DOMAIN s, NEW h, Leaves(t, s, I, h),
           I \subseteq Nat, DOMAIN t \subseteq Nat, NEW X
    PROVE  /\ (\A i \in I : s[i] \notin X) => Zero(t, X)
           /\ One(s, X) /\ (\A i \in DOMAIN s : s[i] \in X => i \in I)
                => One(t, X)
<1>1. ASSUME \A i \in I : s[i] \notin X PROVE Zero(t, X)
  BY <1>1 DEF Zero, Leaves
<1>2. ASSUME One(s, X), \A i \in DOMAIN s : s[i] \in X => i \in I
      PROVE  One(t, X)
  <2>1. PICK i \in DOMAIN s :
          s[i] \in X /\ \A j \in DOMAIN s : s[j] \in X => j = i
    BY <1>2 DEF One
  <2>2. PICK n \in DOMAIN t : h[n] = i
    BY <1>2, <2>1 DEF Leaves
  <2>3. t[n] \in X
    BY <2>1, <2>2 DEF Leaves
  <2>4. ASSUME NEW m \in DOMAIN t, t[m] \in X PROVE m = n
    <3>1. h[m] = i
      BY <2>1, <2>4 DEF Leaves
    <3>2. ~(m < n) /\ ~(n < m)
      <4>1. i \in Nat
        BY <1>2, <2>1
      <4> QED BY <2>2, <3>1, <4>1 DEF Leaves
    <3>3. m \in Nat /\ n \in Nat
      OBVIOUS
    <3> QED BY <3>2, <3>3
  <2> QED BY <2>3, <2>4 DEF One
<1> QED BY <1>1, <1>2

(* What is left when the first has been taken.                             *)
LEMMA TailLeaves ==
    ASSUME NEW S, NEW s \in Seq(S), s # <<>>
    PROVE  /\ Tail(s) \in Seq(S) /\ Head(s) \in S /\ Head(s) = s[1]
           /\ 1 \in DOMAIN s /\ DOMAIN s = {1} \cup 2..Len(s)
           /\ \E h : Leaves(Tail(s), s, 2..Len(s), h)
<1>1. /\ Tail(s) \in Seq(S) /\ Head(s) \in S /\ Len(s) \in Nat \ {0}
      /\ Len(Tail(s)) = Len(s) - 1 /\ Head(s) = s[1]
      /\ \A i \in 1..(Len(s) - 1) : Tail(s)[i] = s[i + 1]
  OBVIOUS
<1>2. PICK t \in Seq(S) : t = Tail(s)
  BY <1>1
<1>3. DOMAIN t = 1..(Len(s) - 1) /\ DOMAIN s = 1..Len(s)
  BY <1>1, <1>2
<1>4. PICK h : h = [n \in DOMAIN t |-> n + 1]
  OBVIOUS
<1>5. h \in [DOMAIN t -> 2..Len(s)]
  BY <1>1, <1>3, <1>4
<1>6. \A m, n \in DOMAIN t : m < n => h[m] < h[n]
  BY <1>3, <1>4
<1>7. \A n \in DOMAIN t : t[n] = s[h[n]]
  BY <1>1, <1>2, <1>3, <1>4
<1>8. ASSUME NEW i \in 2..Len(s) PROVE \E n \in DOMAIN t : h[n] = i
  <2>1. i - 1 \in DOMAIN t /\ (i - 1) + 1 = i
    BY <1>1, <1>3
  <2> QED BY <1>4, <2>1
<1>9. Leaves(t, s, 2..Len(s), h)
  BY <1>5, <1>6, <1>7, <1>8 DEF Leaves
<1>10. 1 \in DOMAIN s /\ DOMAIN s = {1} \cup 2..Len(s)
  BY <1>1, <1>3
<1> QED BY <1>1, <1>2, <1>9, <1>10

LEMMA CountTail ==
    ASSUME NEW S, NEW s \in Seq(S), s # <<>>, NEW X
    PROVE  /\ Zero(s, X) => Head(s) \notin X /\ Zero(Tail(s), X)
           /\ One(s, X) /\ Head(s) \notin X => One(Tail(s), X)
           /\ One(s, X) /\ Head(s) \in X => Zero(Tail(s), X)
<1>1. PICK t \in Seq(S) : t = Tail(s)
  BY TailLeaves
<1>2. PICK h : Leaves(t, s, 2..Len(s), h)
  BY <1>1, TailLeaves
<1>3. Head(s) = s[1] /\ 1 \in DOMAIN s /\ DOMAIN s = {1} \cup 2..Len(s)
  BY TailLeaves
<1>4. 2..Len(s) \in SUBSET DOMAIN s /\ 2..Len(s) \subseteq Nat
  BY <1>3
<1>5. DOMAIN t \subseteq Nat
  OBVIOUS
<1>6. /\ (\A i \in 2..Len(s) : s[i] \notin X) => Zero(t, X)
      /\ One(s, X) /\ (\A i \in DOMAIN s : s[i] \in X => i \in 2..Len(s))
           => One(t, X)
  BY <1>2, <1>4, <1>5, CountLeaves
<1>7. 1 \notin 2..Len(s)
  OBVIOUS
<1>8. ASSUME Zero(s, X) PROVE Head(s) \notin X /\ Zero(t, X)
  BY <1>3, <1>6, <1>8 DEF Zero
<1>9. ASSUME One(s, X), Head(s) \notin X PROVE One(t, X)
  BY <1>3, <1>6, <1>9
<1>10. ASSUME One(s, X), Head(s) \in X PROVE Zero(t, X)
  BY <1>3, <1>6, <1>7, <1>10 DEF One
<1> QED BY <1>1, <1>8, <1>9, <1>10

LEMMA CountKeep ==
    ASSUME NEW S, NEW s \in Seq(S), NEW I \in SUBSET DOMAIN s, NEW X
    PROVE  /\ (\A i \in I : s[i] \notin X) => Zero(Keep(s, I), X)
           /\ One(s, X) /\ (\A i \in DOMAIN s : s[i] \in X => i \in I)
                => One(Keep(s, I), X)
<1>1. PICK t \in Seq(S) : t = Keep(s, I) /\ \E h : Leaves(t, s, I, h)
  BY KeepFacts
<1>2. DOMAIN s \subseteq Nat /\ DOMAIN t \subseteq Nat
  OBVIOUS
<1>3. PICK h : Leaves(t, s, I, h)
  BY <1>1
<1> QED BY <1>1, <1>2, <1>3, CountLeaves

LEMMA CountSetToSeq ==
    ASSUME NEW S, IsFiniteSet(S), NEW X
    PROVE  /\ S \cap X = {} => Zero(SetToSeq(S), X)
           /\ \A x : S \cap X = {x} => One(SetToSeq(S), X)
<1>1. PICK t \in Seq(S) :
        /\ t = SetToSeq(S) /\ \A i, j \in DOMAIN t : t[i] = t[j] => i = j
        /\ \A x : Has(t, x) <=> x \in S
  BY SetToSeqFacts
<1>2. ASSUME S \cap X = {} PROVE Zero(t, X)
  BY <1>2 DEF Zero
<1>3. ASSUME NEW x, S \cap X = {x} PROVE One(t, X)
  <2>1. PICK i \in DOMAIN t : t[i] = x
    BY <1>1, <1>3 DEF Has
  <2>2. ASSUME NEW j \in DOMAIN t, t[j] \in X PROVE j = i
    <3>1. t[j] = x
      BY <1>3, <2>2
    <3> QED BY <1>1, <2>1, <3>1
  <2> QED BY <1>3, <2>1, <2>2 DEF One
<1> QED BY <1>1, <1>2, <1>3

-----------------------------------------------------------------------------
(* Terminal.                                                               *)

Requests == [op : {"open", "close", "input"}, pty : Opens]
AdriftRequests ==
    [op : {"open", "close", "input", "opened"}, pty : Opens, conn : 0..MaxConns]
Messages == [ev : {"opened", "refused", "exit"}, pty : Opens]
Exit(o) == [ev |-> "exit", pty |-> o]
OpenedMsg(o) == [ev |-> "opened", pty |-> o]

TypeInv ==
    /\ link \in {"ready", "refreshing", "down"} /\ conn \in 0..MaxConns
    /\ tabs \subseteq Keys /\ Cardinality(tabs) <= MAX_TABS
    /\ nextKey \in 1..(MaxTabs + 1)
    /\ status \in [Keys -> {"opening", "ready", "exited", "error"}]
    /\ owner \in [Opens -> Keys \cup {NoTab}]
    /\ hook \in [Opens -> {"none", "opening", "live", "abandoned", "gone",
                           "failed"}]
    /\ up \in Seq(Requests) /\ down \in Seq(Messages)
    /\ shell \in [Opens -> {"none", "running", "dying", "exited"}]
    /\ home \in [Opens -> 0..MaxConns] /\ serving \in Opens \cup {NoOpen}
    /\ missed \subseteq Opens /\ writing \subseteq (0..MaxConns) \X Opens
    /\ typed \in 0..MaxInputs /\ late \in BOOLEAN /\ strays \subseteq 0..MaxConns
    /\ adrift \subseteq AdriftRequests /\ \A r \in adrift : r.conn \in strays

(* NoStrays and ExitsShown with what they rest on.                         *)
On(o) == hook[o] \in {"opening", "live"}

(* A run that was not cleaned up is of a tab there is, on this connection. *)
Presented ==
    \A o \in Opens : On(o) => /\ owner[o] \in tabs /\ link = "ready"
                              /\ shell[o] # "none" => home[o] = conn

(* No tab has two of them.                                                 *)
OneRun ==
    \A o, p \in Opens : On(o) /\ On(p) /\ owner[o] = owner[p] => o = p

(* What was not called is not on its way, and has no shell.                *)
Uncalled ==
    \A o \in Opens : hook[o] = "none" =>
        shell[o] = "none" /\ ~Has(up, Request("open", o))

(* What is opened on a forgotten connection is no tab's any more.          *)
Abandoned ==
    \A r \in adrift : r.op = "open" => hook[r.pty] # "none" /\ ~On(r.pty)

Numbers ==
    /\ \A k \in tabs : k < nextKey
    /\ \A o \in Opens : home[o] <= conn
    /\ \A c \in strays : c <= conn /\ (c = conn => link = "down")

Followed ==
    \A o \in Opens :
        shell[o] = "running" /\ home[o] = conn /\ link # "down" =>
            \/ hook[o] = "live"
            \/ serving = o \/ Has(down, OpenedMsg(o)) \/ Has(up, Request("close", o))

(* An exit that is not shown is to be delivered, or was delivered early.   *)
Announced ==
    \A o \in Opens :
        On(o) /\ shell[o] = "exited" =>
            \/ hook[o] = "live" /\ status[owner[o]] = "exited"
            \/ Has(down, Exit(o)) \/ o \in missed

TabInv ==
    /\ TypeInv /\ Presented /\ OneRun /\ Uncalled /\ Numbers
    /\ Followed /\ Announced /\ Abandoned

(* What an effect's run in each tab of ks does, in whatever order the calls*)
(* are sent: calls nobody made before, one for each of these tabs.         *)
Started(os, key) ==
    /\ \A o \in os : hook[o] = "none"
    /\ \A o, p \in os : key[o] = key[p] => o = p
    /\ owner' = [o \in Opens |-> IF o \in os THEN key[o] ELSE owner[o]]
    /\ hook' = [o \in Opens |-> IF o \in os THEN "opening" ELSE hook[o]]
    /\ up' \in Seq(Requests)
    /\ \A x : Has(up', x) <=> Has(up, x) \/ \E o \in os : x = Request("open", o)

LEMMA OpensFinite ==
    /\ IsFiniteSet(Opens) /\ IsFiniteSet(Keys)
    /\ MaxTabs \in Nat \ {0} /\ MaxOpens \in Nat /\ MaxConns \in Nat
    /\ MAX_TABS \in Nat \ {0}
<1>1. MaxTabs \in Nat \ {0} /\ MaxOpens \in Nat /\ MaxConns \in Nat
      /\ MAX_TABS \in Nat \ {0}
  BY TerminalAssumption
<1> QED BY <1>1, FS_Interval DEF Opens, Keys

LEMMA RunEffectsFacts ==
    ASSUME TypeInv, NEW ks \in SUBSET Keys, RunEffects(ks)
    PROVE  \E os \in SUBSET Opens : \E key \in [os -> ks] : Started(os, key)
<1>1. PICK os \in SUBSET Fresh :
        /\ Cardinality(os) = Cardinality(ks)
        /\ LET calls == SetToSeq(os) keys == SetToSeq(ks)
               key(o) == keys[CHOOSE i \in DOMAIN calls : calls[i] = o]
           IN  /\ owner' = [o \in Opens |-> IF o \in os THEN key(o) ELSE owner[o]]
               /\ hook' = [o \in Opens |-> IF o \in os THEN "opening" ELSE hook[o]]
               /\ up' = up \o [i \in DOMAIN calls |-> Request("open", calls[i])]
  BY DEF RunEffects
<1>2. IsFiniteSet(os) /\ IsFiniteSet(ks) /\ os \subseteq Opens
  BY OpensFinite, FS_Subset DEF Fresh
<1>3. PICK n \in Nat : n = Cardinality(os) /\ n = Cardinality(ks)
  BY <1>1, <1>2, FS_CardinalityType
<1>4. PICK calls \in Seq(os) :
        /\ calls = SetToSeq(os) /\ Len(calls) = n
        /\ \A x : Has(calls, x) <=> x \in os
  BY <1>2, <1>3, SetToSeqFacts
<1>5. PICK keys \in Seq(ks) :
        /\ keys = SetToSeq(ks) /\ Len(keys) = n
        /\ \A i, j \in DOMAIN keys : keys[i] = keys[j] => i = j
  BY <1>2, <1>3, SetToSeqFacts
<1>6. PICK place : place = [o \in os |-> CHOOSE i \in DOMAIN calls : calls[i] = o]
  OBVIOUS
<1>7. ASSUME NEW o \in os
      PROVE  place[o] \in 1..n /\ calls[place[o]] = o
  <2>1. Has(calls, o) /\ DOMAIN calls = 1..n
    BY <1>4
  <2>2. \E i \in DOMAIN calls : calls[i] = o
    BY <2>1 DEF Has
  <2> QED BY <1>6, <2>1, <2>2
<1>8. PICK key : key = [o \in os |-> keys[place[o]]]
  OBVIOUS
<1>9. DOMAIN keys = 1..n /\ \A i \in 1..n : keys[i] \in ks
  BY <1>5
<1>10. key \in [os -> ks]
  BY <1>7, <1>8, <1>9
<1>11. \A o, p \in os : key[o] = key[p] => o = p
  BY <1>5, <1>7, <1>8, <1>9
<1>12. owner' = [o \in Opens |-> IF o \in os THEN key[o] ELSE owner[o]]
  BY <1>1, <1>4, <1>5, <1>6, <1>8
<1>13. PICK reqs : reqs = [i \in DOMAIN calls |-> Request("open", calls[i])]
  OBVIOUS
<1>14. up' = up \o reqs
  BY <1>1, <1>4, <1>13
<1>15. DOMAIN calls = 1..n /\ \A i \in 1..n : calls[i] \in os
  BY <1>4
<1>16. reqs \in Seq(Requests) /\ DOMAIN reqs = 1..n
  <2>1. \A i \in 1..n : Request("open", calls[i]) \in Requests
    BY <1>2, <1>15 DEF Request, Requests
  <2>2. reqs \in [1..n -> Requests]
    BY <1>13, <1>15, <2>1
  <2> QED BY <2>2
<1>17. \A x : Has(reqs, x) <=> \E o \in os : x = Request("open", o)
  <2>1. ASSUME NEW x, Has(reqs, x) PROVE \E o \in os : x = Request("open", o)
    BY <1>13, <1>15, <1>16, <2>1 DEF Has
  <2>2. ASSUME NEW o \in os PROVE Has(reqs, Request("open", o))
    <3>1. place[o] \in DOMAIN reqs /\ reqs[place[o]] = Request("open", o)
      BY <1>7, <1>13, <1>15
    <3> QED BY <3>1 DEF Has
  <2> QED BY <2>1, <2>2
<1>18. /\ up' \in Seq(Requests)
       /\ \A x : Has(up', x) <=> Has(up, x) \/ \E o \in os : x = Request("open", o)
  <2>1. up \in Seq(Requests)
    BY DEF TypeInv
  <2>2. /\ up \o reqs \in Seq(Requests)
        /\ \A x : Has(up \o reqs, x) <=> Has(up, x) \/ Has(reqs, x)
    BY <1>16, <2>1, HasConcat
  <2> QED BY <1>14, <1>17, <2>2
<1>19. Started(os, key)
  BY <1>1, <1>11, <1>12, <1>18 DEF Started, Fresh
<1> QED BY <1>2, <1>10, <1>19

(* The cleanup closes what the tabs ks show.                               *)
Cleaned(ks) ==
    /\ hook' \in [Opens -> {"none", "opening", "live", "abandoned", "gone",
                            "failed"}]
    /\ \A o \in Opens : On(o)' <=> On(o) /\ owner[o] \notin ks
    /\ \A o \in Opens : ~(On(o) /\ owner[o] \in ks) => hook'[o] = hook[o]
    /\ \A o \in Opens : hook'[o] = "none" => hook[o] = "none"
    /\ up' \in Seq(Requests)
    /\ \A x : Has(up', x) <=>
          \/ Has(up, x)
          \/ \E o \in Opens : /\ hook[o] = "live" /\ owner[o] \in ks
                              /\ x = Request("close", o)

LEMMA CleanUpFacts ==
    ASSUME TypeInv, NEW ks, CleanUp(ks)
    PROVE  Cleaned(ks)
<1>1. PICK R : R = {Request("close", o) :
                      o \in {p \in Mounted(ks) : hook[p] = "live"}}
  OBVIOUS
<1>2. R \subseteq Requests
  BY <1>1 DEF Request, Requests, Mounted
<1>3. IsFiniteSet(R)
  <2>1. PICK M : M = {p \in Mounted(ks) : hook[p] = "live"}
    OBVIOUS
  <2>2. IsFiniteSet(M)
    BY <2>1, OpensFinite, FS_Subset DEF Mounted
  <2>3. PICK f : f = [o \in M |-> Request("close", o)]
    OBVIOUS
  <2>4. f \in Surjection(M, R)
    BY <1>1, <2>1, <2>3 DEF Surjection
  <2> QED BY <2>2, <2>4, FS_Surjection
<1>4. PICK reqs \in Seq(R) : /\ reqs = SetToSeq(R)
                             /\ \A x : Has(reqs, x) <=> x \in R
  BY <1>3, SetToSeqFacts
<1>5. reqs \in Seq(Requests)
  BY <1>2, <1>4
<1>6. up' = up \o reqs /\ up \in Seq(Requests)
  BY <1>1, <1>4 DEF CleanUp, TypeInv
<1>7. /\ up' \in Seq(Requests)
      /\ \A x : Has(up', x) <=> Has(up, x) \/ x \in R
  <2>1. /\ up \o reqs \in Seq(Requests)
        /\ \A x : Has(up \o reqs, x) <=> Has(up, x) \/ Has(reqs, x)
    BY <1>5, <1>6, HasConcat
  <2> QED BY <1>4, <1>6, <2>1
<1>8. \A x : x \in R <=> \E o \in Opens : /\ hook[o] = "live" /\ owner[o] \in ks
                                          /\ x = Request("close", o)
  BY <1>1 DEF Mounted
<1>9. hook' = [o \in Opens |->
                 IF o \notin Mounted(ks) THEN hook[o]
                 ELSE IF hook[o] = "live" THEN "gone" ELSE "abandoned"]
  BY DEF CleanUp
<1>10. /\ hook' \in [Opens -> {"none", "opening", "live", "abandoned", "gone",
                               "failed"}]
       /\ \A o \in Opens : On(o)' <=> On(o) /\ owner[o] \notin ks
       /\ \A o \in Opens : ~(On(o) /\ owner[o] \in ks) => hook'[o] = hook[o]
       /\ \A o \in Opens : hook'[o] = "none" => hook[o] = "none"
  BY <1>9 DEF TypeInv, On, Mounted
<1> QED BY <1>7, <1>8, <1>10 DEF Cleaned
-----------------------------------------------------------------------------
(* Type correctness.                                                       *)
LEMMA TypeInit == Init => TypeInv
<1> SUFFICES ASSUME Init PROVE TypeInv
  OBVIOUS
<1>1. 1 \in Keys /\ 2 \in 1..(MaxTabs + 1) /\ 0 \in 0..MaxConns
  BY OpensFinite DEF Keys
<1>2. Cardinality({1}) = 1 /\ 1 <= MAX_TABS
  BY OpensFinite, FS_Singleton
<1>3. <<>> \in Seq(Requests) /\ <<>> \in Seq(Messages)
  OBVIOUS
<1>4. 0 \in 0..MaxInputs
  BY TerminalAssumption
<1> QED BY <1>1, <1>2, <1>3, <1>4 DEF Init, TypeInv, NoTab, NoOpen

(* A tab that opens, and the call its effect makes if there is a daemon.   *)
LEMMA TypeStarted ==
    ASSUME TypeInv, NEW os \in SUBSET Opens, NEW ks \in SUBSET Keys,
           NEW key \in [os -> ks], Started(os, key)
    PROVE  /\ owner' \in [Opens -> Keys \cup {NoTab}]
           /\ hook' \in [Opens -> {"none", "opening", "live", "abandoned", "gone",
                                   "failed"}]
           /\ up' \in Seq(Requests)
<1>1. /\ owner \in [Opens -> Keys \cup {NoTab}]
      /\ hook \in [Opens -> {"none", "opening", "live", "abandoned", "gone",
                             "failed"}]
  BY DEF TypeInv
<1>2. \A o \in os : key[o] \in Keys
  OBVIOUS
<1> QED BY <1>1, <1>2 DEF Started

(* What a step starts, if it starts something: the tabs ks of it.          *)
Starting(ks) ==
    \/ RunEffects(ks) /\ link' = "ready"
    \/ link # "ready" /\ link' = link /\ UNCHANGED <<owner, hook, up>>

LEMMA TypeTabs ==
    ASSUME TypeInv, AddTab \/ ShowIde \/ BecomeReady
    PROVE  TypeInv'
<1>1. UNCHANGED <<status, down, shell, home, serving, missed, others>>
  BY DEF AddTab, ShowIde, BecomeReady, daemon, aside
<1>2. PICK ks : /\ Starting(ks) /\ ks \in SUBSET Keys
  <2>1. CASE AddTab \/ ShowIde
    <3>1. nextKey \in Keys
      BY <2>1, OpensFinite DEF AddTab, ShowIde, TypeInv, Keys
    <3>2. PICK ks : ks = {nextKey}
      OBVIOUS
    <3> QED BY <2>1, <3>1, <3>2 DEF AddTab, ShowIde, Starting
  <2>2. CASE BecomeReady
    <3>1. PICK ks : ks = tabs
      OBVIOUS
    <3> QED BY <2>2, <3>1 DEF BecomeReady, Starting, TypeInv
  <2> QED BY <2>1, <2>2
<1>3. /\ owner' \in [Opens -> Keys \cup {NoTab}]
      /\ hook' \in [Opens -> {"none", "opening", "live", "abandoned", "gone",
                              "failed"}]
      /\ up' \in Seq(Requests)
  <2>1. CASE RunEffects(ks)
    <3>1. PICK os \in SUBSET Opens : \E key \in [os -> ks] : Started(os, key)
      BY <1>2, <2>1, RunEffectsFacts
    <3>2. PICK key \in [os -> ks] : Started(os, key)
      BY <3>1
    <3> QED BY <1>2, <3>2, TypeStarted
  <2>2. CASE UNCHANGED <<owner, hook, up>>
    BY <2>2 DEF TypeInv
  <2> QED BY <1>2, <2>1, <2>2 DEF Starting
<1>4. /\ link' \in {"ready", "refreshing", "down"} /\ conn' \in 0..MaxConns
  BY OpensFinite DEF AddTab, ShowIde, BecomeReady, TypeInv
<1>5. nextKey' \in 1..(MaxTabs + 1)
  BY OpensFinite DEF AddTab, ShowIde, BecomeReady, TypeInv
<1>6. tabs' \subseteq Keys /\ Cardinality(tabs') <= MAX_TABS
  <2>1. CASE AddTab
    <3>1. nextKey \in Keys
      BY <2>1, OpensFinite DEF AddTab, TypeInv, Keys
    <3>2. IsFiniteSet(tabs) /\ Cardinality(tabs) \in Nat
      BY OpensFinite, FS_Subset, FS_CardinalityType DEF TypeInv
    <3>3. Cardinality(tabs \cup {nextKey}) <= Cardinality(tabs) + 1
      <4>1. Cardinality(tabs \cup {nextKey}) =
              IF nextKey \in tabs THEN Cardinality(tabs) ELSE Cardinality(tabs) + 1
        BY <3>2, FS_AddElement
      <4> QED BY <3>2, <4>1
    <3>4. Cardinality(tabs \cup {nextKey}) \in Nat
      BY <3>2, FS_AddElement, FS_CardinalityType
    <3> QED BY <2>1, <3>1, <3>2, <3>3, <3>4, OpensFinite DEF AddTab, TypeInv
  <2>2. CASE ShowIde
    <3>1. nextKey \in Keys
      BY <2>2, OpensFinite DEF ShowIde, TypeInv, Keys
    <3>2. Cardinality({nextKey}) = 1
      BY FS_Singleton
    <3> QED BY <2>2, <3>1, <3>2, OpensFinite DEF ShowIde
  <2>3. CASE BecomeReady
    BY <2>3 DEF BecomeReady, TypeInv
  <2> QED BY <2>1, <2>2, <2>3
<1> QED BY <1>1, <1>3, <1>4, <1>5, <1>6 DEF TypeInv, others, loose

(* Tabs that close, and everything that loses its daemon.                  *)
LEMMA CleaningStep ==
    ASSUME TypeInv, ShowFunnel \/ Refresh \/ \E k \in Keys : CloseTab(k)
    PROVE  \E ks \in SUBSET Keys :
             /\ Cleaned(ks) /\ tabs' \subseteq tabs /\ tabs \ ks \subseteq tabs'
             /\ \/ link' = link
                \/ link = "ready" /\ link' = "refreshing" /\ tabs \subseteq ks
<1>1. CASE ShowFunnel \/ Refresh
  <2>1. PICK ks \in SUBSET Keys : ks = tabs
    BY DEF TypeInv
  <2>2. CleanUp(ks)
    BY <1>1, <2>1 DEF ShowFunnel, Refresh
  <2>3. Cleaned(ks)
    BY <2>2, CleanUpFacts
  <2> QED BY <1>1, <2>1, <2>3 DEF ShowFunnel, Refresh
<1>2. ASSUME NEW k \in Keys, CloseTab(k)
      PROVE  \E ks \in SUBSET Keys :
               /\ Cleaned(ks) /\ tabs' \subseteq tabs /\ tabs \ ks \subseteq tabs'
               /\ link' = link
  <2>1. Cleaned({k})
    BY <1>2, CleanUpFacts DEF CloseTab
  <2>2. tabs' = tabs \ {k} /\ link' = link /\ {k} \in SUBSET Keys
    BY <1>2 DEF CloseTab
  <2> QED BY <2>1, <2>2
<1> QED BY <1>1, <1>2

LEMMA TypeCleaned ==
    ASSUME TypeInv, ShowFunnel \/ Refresh \/ \E k \in Keys : CloseTab(k)
    PROVE  TypeInv'
<1>1. PICK ks \in SUBSET Keys :
        /\ Cleaned(ks) /\ tabs' \subseteq tabs /\ tabs \ ks \subseteq tabs'
        /\ link' = link \/ link' = "refreshing"
  BY CleaningStep
<1>2. UNCHANGED <<conn, nextKey, status, owner, down, shell, home, serving, missed,
                  others>>
  BY DEF ShowFunnel, Refresh, CloseTab, daemon, aside
<1>3. Cardinality(tabs') <= MAX_TABS
  <2>1. IsFiniteSet(tabs) /\ Cardinality(tabs) \in Nat
    BY OpensFinite, FS_Subset, FS_CardinalityType DEF TypeInv
  <2>2. Cardinality(tabs') <= Cardinality(tabs) /\ Cardinality(tabs') \in Nat
    BY <1>1, <2>1, FS_Subset, FS_CardinalityType
  <2> QED BY <2>1, <2>2, OpensFinite DEF TypeInv
<1> QED BY <1>1, <1>2, <1>3 DEF TypeInv, Cleaned, others, loose

(* The connection breaks, or is forgotten.                                 *)
Lost ==
    /\ link' = "down" /\ LoseHooks /\ up' = <<>> /\ down' = <<>>
    /\ serving' = NoOpen
    /\ UNCHANGED <<conn, tabs, nextKey, status, owner, shell, home, missed, typed,
                   writing>>

LEMMA ForgetFacts ==
    ASSUME TypeInv, NEW gone, Forget(gone)
    PROVE  /\ Lost
           /\ strays' \subseteq strays \cup {conn} /\ strays' \subseteq 0..MaxConns
           /\ adrift' \subseteq AdriftRequests /\ \A r \in adrift' : r.conn \in strays'
           /\ \A r \in adrift' :
                r.op = "open" => r \in adrift \/ Has(up, Request("open", r.pty))
<1>1. Lost /\ strays' \subseteq strays \cup {conn} /\ strays' \subseteq 0..MaxConns
  BY DEF Forget, Lost, TypeInv
<1>2. /\ \A i \in DOMAIN up : up[i] \in Requests
      /\ \A i \in DOMAIN down : down[i] \in Messages
  BY DEF TypeInv
<1>3. ASSUME NEW r \in InFlight
      PROVE  /\ r \in AdriftRequests
             /\ r.op = "open" => Has(up, Request("open", r.pty))
  <2>1. CASE \E i \in DOMAIN up : r = Astray(up[i].op, up[i].pty)
    <3>1. PICK i \in DOMAIN up : r = Astray(up[i].op, up[i].pty)
      BY <2>1
    <3>2. up[i] = Request(up[i].op, up[i].pty) /\ up[i] \in Requests
      BY <1>2 DEF Requests, Request
    <3>3. r.op = up[i].op /\ r.pty = up[i].pty /\ r \in AdriftRequests
      BY <3>1, <3>2 DEF Astray, Requests, AdriftRequests, TypeInv
    <3> QED BY <3>2, <3>3 DEF Has
  <2>2. CASE \E o \in Opens : r = Astray("opened", o)
    BY <2>2 DEF Astray, AdriftRequests, TypeInv
  <2> QED BY <2>1, <2>2 DEF InFlight
<1>4. ASSUME NEW r \in adrift'
      PROVE  /\ r \in AdriftRequests /\ r.conn \in strays'
             /\ r.op = "open" => r \in adrift \/ Has(up, Request("open", r.pty))
  BY <1>3, <1>4 DEF Forget, TypeInv
<1> QED BY <1>1, <1>4

LEMMA TypeDrop == ASSUME TypeInv, Drop \/ StaleClose PROVE TypeInv'
<1>1. CASE Lost
  <2>1. hook' \in [Opens -> {"none", "opening", "live", "abandoned", "gone", "failed"}]
    BY <1>1 DEF Lost, LoseHooks, TypeInv
  <2>2. <<>> \in Seq(Requests) /\ <<>> \in Seq(Messages)
    OBVIOUS
  <2>3. late' \in BOOLEAN
    BY DEF Drop, StaleClose, TypeInv
  <2>4. /\ strays' \subseteq 0..MaxConns
        /\ adrift' \subseteq AdriftRequests /\ \A r \in adrift' : r.conn \in strays'
    <3>1. CASE Drop
      BY <3>1 DEF Drop, TypeInv
    <3>2. CASE \E gone : Forget(gone)
      BY <3>2, ForgetFacts
    <3> QED BY <3>1, <3>2 DEF StaleClose
  <2> QED BY <1>1, <2>1, <2>2, <2>3, <2>4 DEF TypeInv, Lost
<1>2. Lost
  <2>1. CASE Drop
    BY <2>1 DEF Drop, Lost
  <2>2. CASE StaleClose
    BY <2>2, ForgetFacts DEF StaleClose
  <2> QED BY <2>1, <2>2
<1> QED BY <1>1, <1>2

(* The daemon's steps and the page's, by the message they take or send.    *)
LEMMA PushFacts ==
    ASSUME TypeInv, NEW ev \in {"opened", "refused", "exit"}, NEW o \in Opens,
           Push(ev, o)
    PROVE  /\ down' \in Seq(Messages)
           /\ \A x : Has(down', x) <=> Has(down, x) \/ x = [ev |-> ev, pty |-> o]
<1>1. PICK m \in Messages : m = [ev |-> ev, pty |-> o]
  BY DEF Messages
<1>2. down \in Seq(Messages) /\ down' = Append(down, m)
  BY <1>1 DEF Push, TypeInv
<1> QED BY <1>1, <1>2, HasAppend

LEMMA TakeFacts ==
    ASSUME TypeInv, NEW op, up # <<>>, Head(up).op = op, up' = Tail(up)
    PROVE  /\ up' \in Seq(Requests)
           /\ \E o \in Opens :
                /\ Head(up) = Request(op, o)
                /\ \A x : Has(up, x) <=> x = Request(op, o) \/ Has(up', x)
<1>1. up \in Seq(Requests)
  BY DEF TypeInv
<1>2. /\ up' \in Seq(Requests) /\ Head(up) \in Requests
      /\ \A x : Has(up, x) <=> x = Head(up) \/ Has(up', x)
  BY <1>1, HasTail
<1>3. PICK o \in Opens : Head(up) = Request(op, o)
  BY <1>2 DEF Requests, Request
<1> QED BY <1>2, <1>3

LEMMA ReceiveFacts ==
    ASSUME TypeInv, NEW ev, Receive(ev)
    PROVE  /\ down' \in Seq(Messages)
           /\ \E o \in Opens :
                /\ Head(down) = [ev |-> ev, pty |-> o]
                /\ \A x : Has(down, x) <=>
                     x = [ev |-> ev, pty |-> o] \/ Has(down', x)
<1>1. down # <<>> /\ down' = Tail(down) /\ down \in Seq(Messages)
      /\ Head(down).ev = ev
  BY DEF Receive, TypeInv
<1>2. /\ down' \in Seq(Messages) /\ Head(down) \in Messages
      /\ \A x : Has(down, x) <=> x = Head(down) \/ Has(down', x)
  BY <1>1, HasTail
<1>3. PICK o \in Opens : Head(down) = [ev |-> ev, pty |-> o]
  BY <1>1, <1>2 DEF Messages
<1> QED BY <1>2, <1>3
(* pty.open and pty.close, with the PTY they are about.                    *)
Spawned(o) ==
    /\ shell' = [shell EXCEPT ![o] = "running"]
    /\ home' = [home EXCEPT ![o] = conn] /\ serving' = o
    /\ UNCHANGED down

OpenServed(o) ==
    /\ up' \in Seq(Requests) /\ serving = NoOpen
    /\ \A x : Has(up, x) <=> x = Request("open", o) \/ Has(up', x)
    /\ \/ Spawned(o)
       \/ Push("refused", o) /\ UNCHANGED daemon

CloseServed(o) ==
    /\ up' \in Seq(Requests)
    /\ \A x : Has(up, x) <=> x = Request("close", o) \/ Has(up', x)
    /\ shell' = [shell EXCEPT ![o] = IF @ = "running" THEN "dying" ELSE @]
    /\ UNCHANGED <<down, home, serving>>

LEMMA ServeFacts ==
    ASSUME TypeInv
    PROVE  /\ ServeOpen => \E o \in Opens : OpenServed(o)
           /\ ServeClose => \E o \in Opens : CloseServed(o)
<1>1. ASSUME ServeOpen PROVE \E o \in Opens : OpenServed(o)
  <2>1. PICK o \in Opens :
          /\ Head(up) = Request("open", o) /\ up' \in Seq(Requests)
          /\ \A x : Has(up, x) <=> x = Request("open", o) \/ Has(up', x)
    BY <1>1, TakeFacts DEF ServeOpen, Serving
  <2>2. Head(up).pty = o
    BY <2>1 DEF Request
  <2> QED BY <1>1, <2>1, <2>2 DEF ServeOpen, Serving, OpenServed, Spawned
<1>2. ASSUME ServeClose PROVE \E o \in Opens : CloseServed(o)
  <2>1. PICK o \in Opens :
          /\ Head(up) = Request("close", o) /\ up' \in Seq(Requests)
          /\ \A x : Has(up, x) <=> x = Request("close", o) \/ Has(up', x)
    BY <1>2, TakeFacts DEF ServeClose, Serving
  <2>2. Head(up).pty = o
    BY <2>1 DEF Request
  <2> QED BY <1>2, <2>1, <2>2 DEF ServeClose, CloseServed
<1> QED BY <1>1, <1>2

LEMMA TypeDaemon ==
    ASSUME TypeInv, ServeOpen \/ AnswerOpen \/ ServeClose
                      \/ \E o \in Opens : OnDisconnect(o) \/ ChildExits(o)
    PROVE  TypeInv'
<1>1. UNCHANGED <<link, conn, tabs, nextKey, status, owner, hook, missed, typed,
                  writing, late, strays, adrift>>
  BY DEF ServeOpen, AnswerOpen, ServeClose, OnDisconnect, ChildExits, page, aside,
         others, loose
<1>2. CASE ServeOpen
  <2>1. PICK o \in Opens : OpenServed(o)
    BY <1>2, ServeFacts
  <2>2. CASE Spawned(o)
    BY <1>1, <2>1, <2>2 DEF OpenServed, Spawned, TypeInv
  <2>3. CASE Push("refused", o) /\ UNCHANGED daemon
    <3>1. down' \in Seq(Messages)
      BY <2>3, PushFacts
    <3> QED BY <1>1, <2>1, <2>3, <3>1 DEF OpenServed, TypeInv, daemon
  <2> QED BY <2>1, <2>2, <2>3 DEF OpenServed
<1>3. CASE AnswerOpen
  <2>1. PICK o \in Opens : o = serving
    BY <1>3 DEF AnswerOpen, TypeInv
  <2>2. down' \in Seq(Messages)
    BY <1>3, <2>1, PushFacts DEF AnswerOpen
  <2> QED BY <1>1, <1>3, <2>2 DEF AnswerOpen, TypeInv
<1>4. CASE ServeClose
  <2>1. PICK o \in Opens : CloseServed(o)
    BY <1>4, ServeFacts
  <2> QED BY <1>1, <2>1 DEF CloseServed, TypeInv
<1>5. ASSUME NEW o \in Opens, OnDisconnect(o) PROVE TypeInv'
  BY <1>1, <1>5 DEF OnDisconnect, TypeInv
<1>6. ASSUME NEW o \in Opens, ChildExits(o) PROVE TypeInv'
  <2>1. down' \in Seq(Messages)
    BY <1>6, PushFacts DEF ChildExits, TypeInv
  <2> QED BY <1>1, <1>6, <2>1 DEF ChildExits, TypeInv
<1> QED BY <1>2, <1>3, <1>4, <1>5, <1>6

(* What the page receives, with the call it is about.                      *)
Took(ev, o) ==
    /\ down' \in Seq(Messages)
    /\ \A x : Has(down, x) <=> x = [ev |-> ev, pty |-> o] \/ Has(down', x)

OpenedFor(o) ==
    /\ Took("opened", o)
    /\ \/ /\ hook[o] = "opening" /\ hook' = [hook EXCEPT ![o] = "live"]
          /\ Say(o, "ready") /\ up' = up
       \/ /\ hook[o] # "opening" /\ up' = Append(up, Request("close", o))
          /\ UNCHANGED <<hook, status>>
    /\ missed' = missed

RefusedFor(o) ==
    /\ Took("refused", o)
    /\ \/ /\ hook[o] = "opening" /\ hook' = [hook EXCEPT ![o] = "failed"]
          /\ Say(o, "error")
       \/ hook[o] # "opening" /\ UNCHANGED <<hook, status>>
    /\ missed' = missed /\ up' = up

ExitedFor(o) ==
    /\ Took("exit", o)
    /\ IF hook[o] = "live" THEN Say(o, "exited") ELSE UNCHANGED status
    /\ missed' = IF hook[o] = "opening" THEN missed \cup {o} ELSE missed
    /\ hook' = hook /\ up' = up

LEMMA PageFacts ==
    ASSUME TypeInv, Opened \/ Refused \/ Exited
    PROVE  /\ UNCHANGED <<link, conn, tabs, nextKey, owner, shell, home, serving,
                          others>>
           /\ \E o \in Opens : OpenedFor(o) \/ RefusedFor(o) \/ ExitedFor(o)
<1>1. UNCHANGED <<link, conn, tabs, nextKey, owner, shell, home, serving, others>>
  BY DEF Opened, Refused, Exited, daemon, aside
<1>2. CASE Opened
  <2>1. PICK o \in Opens : Head(down) = [ev |-> "opened", pty |-> o] /\ Took("opened", o)
    BY <1>2, ReceiveFacts DEF Opened, Took
  <2>2. Head(down).pty = o
    BY <2>1
  <2>3. OpenedFor(o)
    BY <1>2, <2>1, <2>2 DEF Opened, OpenedFor, aside
  <2> QED BY <1>1, <2>3
<1>3. CASE Refused
  <2>1. PICK o \in Opens : Head(down) = [ev |-> "refused", pty |-> o] /\ Took("refused", o)
    BY <1>3, ReceiveFacts DEF Refused, Took
  <2>2. Head(down).pty = o
    BY <2>1
  <2>3. RefusedFor(o)
    BY <1>3, <2>1, <2>2 DEF Refused, RefusedFor, aside
  <2> QED BY <1>1, <2>3
<1>4. CASE Exited
  <2>1. PICK o \in Opens : Head(down) = [ev |-> "exit", pty |-> o] /\ Took("exit", o)
    BY <1>4, ReceiveFacts DEF Exited, Took
  <2>2. Head(down).pty = o
    BY <2>1
  <2>3. ExitedFor(o)
    BY <1>4, <2>1, <2>2 DEF Exited, ExitedFor
  <2> QED BY <1>1, <2>3
<1> QED BY <1>2, <1>3, <1>4

LEMMA SayFacts ==
    ASSUME TypeInv, NEW o \in Opens, NEW s \in {"ready", "exited", "error"},
           Say(o, s)
    PROVE  /\ status' \in [Keys -> {"opening", "ready", "exited", "error"}]
           /\ \A k \in Keys : status'[k] = IF k = owner[o] THEN s ELSE status[k]
BY DEF Say, TypeInv

LEMMA RequestSent ==
    ASSUME TypeInv, NEW op \in {"close", "input"}, NEW o \in Opens,
           up' = Append(up, Request(op, o))
    PROVE  /\ up' \in Seq(Requests)
           /\ \A x : Has(up', x) <=> Has(up, x) \/ x = Request(op, o)
<1>1. PICK r \in Requests : r = Request(op, o)
  BY DEF Requests, Request
<1>2. up \in Seq(Requests)
  BY DEF TypeInv
<1> QED BY <1>1, <1>2, HasAppend

LEMMA TypePage ==
    ASSUME TypeInv, Opened \/ Refused \/ Exited
    PROVE  TypeInv'
<1>1. UNCHANGED <<link, conn, tabs, nextKey, owner, shell, home, serving, others>>
  BY PageFacts
<1>2. PICK o \in Opens : OpenedFor(o) \/ RefusedFor(o) \/ ExitedFor(o)
  BY PageFacts
<1>3. down' \in Seq(Messages)
  BY <1>2 DEF OpenedFor, RefusedFor, ExitedFor, Took
<1>4. status' \in [Keys -> {"opening", "ready", "exited", "error"}]
  <2>1. CASE status' = status
    BY <2>1 DEF TypeInv
  <2>2. CASE \E s \in {"ready", "exited", "error"} : Say(o, s)
    BY <2>2, SayFacts
  <2> QED BY <1>2, <2>1, <2>2 DEF OpenedFor, RefusedFor, ExitedFor
<1>5. up' \in Seq(Requests)
  <2>1. CASE up' = up
    BY <2>1 DEF TypeInv
  <2>2. CASE up' = Append(up, Request("close", o))
    BY <2>2, RequestSent
  <2> QED BY <1>2, <2>1, <2>2 DEF OpenedFor, RefusedFor, ExitedFor
<1>6. /\ hook' \in [Opens -> {"none", "opening", "live", "abandoned", "gone",
                              "failed"}]
      /\ missed' \subseteq Opens
  BY <1>2 DEF OpenedFor, RefusedFor, ExitedFor, TypeInv
<1> QED BY <1>1, <1>3, <1>4, <1>5, <1>6 DEF TypeInv, others, loose

(* pty.input, and what is on its way on forgotten connections.             *)
InputStep ==
    \/ \E o \in Opens : send(o)
    \/ ServeInput
    \/ \E w \in writing : InputWritten(w)

LEMMA TypeInput ==
    ASSUME TypeInv, InputStep
    PROVE  TypeInv'
<1>1. UNCHANGED <<link, conn, tabs, nextKey, status, owner, hook, down, shell, home,
                  serving, missed, late, strays, adrift>>
  BY DEF InputStep, send, ServeInput, InputWritten, page, daemon, loose
<1>2. typed' \in 0..MaxInputs
  BY TerminalAssumption DEF InputStep, send, ServeInput, InputWritten, TypeInv
<1>3. up' \in Seq(Requests) /\ writing' \subseteq (0..MaxConns) \X Opens
  <2>1. CASE \E o \in Opens : send(o)
    BY <2>1, RequestSent DEF send, TypeInv
  <2>2. CASE ServeInput
    <3>1. up' \in Seq(Requests) /\ \E p \in Opens : Head(up) = Request("input", p)
      BY <2>2, TakeFacts DEF ServeInput, Serving
    <3>2. Head(up).pty \in Opens
      BY <3>1 DEF Request
    <3> QED BY <2>2, <3>1, <3>2 DEF ServeInput, TypeInv
  <2>3. CASE \E w \in writing : InputWritten(w)
    BY <2>3 DEF InputWritten, TypeInv
  <2> QED BY <2>1, <2>2, <2>3 DEF InputStep
<1> QED BY <1>1, <1>2, <1>3 DEF TypeInv

LEMMA TypeAdrift ==
    ASSUME TypeInv, NEW r \in adrift, ServeAdrift(r) \/ OpenedAdrift(r)
    PROVE  TypeInv'
<1>1. UNCHANGED <<link, conn, tabs, nextKey, status, owner, hook, down, serving,
                  missed, typed, late, strays>>
  BY DEF ServeAdrift, OpenedAdrift, page, daemon
<1>2. /\ r \in AdriftRequests /\ r.pty \in Opens /\ r.conn \in 0..MaxConns
      /\ r.conn \in strays
  BY DEF TypeInv, AdriftRequests
<1>3. CASE ServeAdrift(r)
  <2>1. /\ shell' \in [Opens -> {"none", "running", "dying", "exited"}]
        /\ home' \in [Opens -> 0..MaxConns] /\ up' = up
    BY <1>2, <1>3 DEF ServeAdrift, TypeInv
  <2>0. writing' \subseteq (0..MaxConns) \X Opens
    <3>1. <<r.conn, r.pty>> \in (0..MaxConns) \X Opens
      BY <1>2
    <3>2. writing' \subseteq writing \cup {<<r.conn, r.pty>>}
      BY <1>3 DEF ServeAdrift
    <3> QED BY <3>1, <3>2 DEF TypeInv
  <2>2. adrift' \subseteq AdriftRequests /\ \A q \in adrift' : q.conn \in strays
    <3>1. PICK q : q = [r EXCEPT !.op = "opened"]
      OBVIOUS
    <3>2. q \in AdriftRequests /\ q.conn = r.conn
      BY <1>2, <3>1 DEF AdriftRequests
    <3>3. adrift' \subseteq adrift \cup {q}
      BY <1>3, <3>1 DEF ServeAdrift
    <3> QED BY <1>2, <3>2, <3>3 DEF TypeInv
  <2> QED BY <1>1, <2>0, <2>1, <2>2 DEF TypeInv
<1>4. CASE OpenedAdrift(r)
  <2>1. up' \in Seq(Requests)
    BY <1>2, <1>4, RequestSent DEF OpenedAdrift, TypeInv
  <2> QED BY <1>1, <1>4, <2>1 DEF OpenedAdrift, daemon, TypeInv
<1> QED BY <1>3, <1>4

LEMMA TypeStep == TypeInv /\ [Next]_vars => TypeInv'
<1> SUFFICES ASSUME TypeInv, [Next]_vars PROVE TypeInv'
  OBVIOUS
<1>1. CASE UNCHANGED vars
  BY <1>1 DEF vars, page, daemon, aside, others, loose, TypeInv
<1>2. CASE InputStep
  BY <1>2, TypeInput
<1> QED BY <1>1, <1>2, TypeTabs, TypeCleaned, TypeDrop, TypeDaemon, TypePage,
           TypeAdrift DEF Next, InputStep

LEMMA TypeInvTypeOK == TypeInv => TypeOK
<1> SUFFICES ASSUME TypeInv PROVE TypeOK
  OBVIOUS
<1>1. \A i \in DOMAIN up : up[i] \in Requests
  BY DEF TypeInv
<1>2. \A i \in DOMAIN down : down[i] \in Messages
  BY DEF TypeInv
<1>3. /\ \A i \in DOMAIN up : up[i].op \in {"open", "close", "input"}
                               /\ up[i].pty \in Opens
      /\ \A i \in DOMAIN down : down[i].pty \in Opens
      /\ \A r \in adrift : r.op \in {"open", "close", "input", "opened"}
                             /\ r.pty \in Opens /\ r.conn \in strays
  BY <1>1, <1>2 DEF Requests, Messages, AdriftRequests, TypeInv
<1> QED BY <1>3 DEF TypeInv, TypeOK

(* No more tabs than MAX_TABS are open, and every request and event is     *)
(* about a call that was made, however tabs, connections and shells come   *)
(* and go.                                                                 *)
THEOREM TypeCorrect == Spec => []TypeOK
<1> QED BY TypeInit, TypeStep, TypeInvTypeOK, PTL DEF Spec
-----------------------------------------------------------------------------
(* NoStrays and ExitsShown.                                                *)
Rest == Presented /\ OneRun /\ Uncalled /\ Followed /\ Announced /\ Abandoned

LEMMA TabInit == Init => TabInv
<1> SUFFICES ASSUME Init PROVE TabInv
  OBVIOUS
<1>1. TypeInv /\ conn \in Nat
  BY TypeInit, OpensFinite DEF TypeInv
<1>2. \A x : ~Has(<<>>, x)
  BY DEF Has
<1>3. Presented /\ OneRun /\ Uncalled
  BY <1>2 DEF Init, Presented, OneRun, Uncalled, On
<1>4. Numbers /\ Followed /\ Announced /\ Abandoned
  BY <1>1 DEF Init, Numbers, Followed, Announced, Abandoned, On
<1> QED BY <1>1, <1>3, <1>4 DEF TabInv

(* The tabs ks each make a call: no run of theirs is left, because they    *)
(* are new, or because there was no connection.                            *)
LEMMA RestStarted ==
    ASSUME TabInv, NEW ks \in SUBSET Keys, NEW os \in SUBSET Opens,
           NEW key \in [os -> ks], Started(os, key),
           ks \subseteq tabs', tabs \subseteq tabs', link' = "ready",
           \/ link = "ready" /\ conn' = conn /\ ks \cap tabs = {}
           \/ link = "down" /\ conn' = conn + 1,
           UNCHANGED <<status, down, shell, home, serving, missed, others>>
    PROVE  Rest'
<1>1. /\ \A o \in Opens : On(o)' <=> o \in os \/ On(o)
      /\ \A o \in os : hook'[o] = "opening" /\ owner'[o] = key[o]
                       /\ shell[o] = "none" /\ key[o] \in ks
      /\ \A o \in Opens \ os : hook'[o] = hook[o] /\ owner'[o] = owner[o]
  BY DEF Started, On, TabInv, Uncalled
<1>2. \A o \in Opens : On(o) => link = "ready" /\ owner[o] \in tabs
  BY DEF TabInv, Presented
<1>3. Presented'
  BY <1>1, <1>2 DEF TabInv, Presented
<1>4. OneRun'
  <2>1. ASSUME NEW o \in os, NEW p \in Opens \ os, On(p)
        PROVE  owner'[o] # owner'[p]
    BY <1>1, <1>2, <2>1
  <2>2. \A o, p \in os : owner'[o] = owner'[p] => o = p
    BY <1>1 DEF Started
  <2>3. \A o, p \in Opens \ os : On(o) /\ On(p) /\ owner'[o] = owner'[p] => o = p
    BY <1>1 DEF TabInv, OneRun
  <2> QED BY <1>1, <2>1, <2>2, <2>3 DEF OneRun
<1>5. Uncalled'
  <2>1. ASSUME NEW o \in Opens, hook'[o] = "none"
        PROVE  shell'[o] = "none" /\ ~Has(up', Request("open", o))
    <3>1. o \notin os /\ hook[o] = "none"
      BY <1>1, <2>1
    <3>2. \A p \in os : Request("open", p) # Request("open", o)
      BY <3>1 DEF Request
    <3> QED BY <3>1, <3>2 DEF TabInv, Uncalled, Started
  <2> QED BY <2>1 DEF Uncalled
<1>6. Followed'
  <2>1. ASSUME NEW o \in Opens, shell[o] = "running", home[o] = conn'
        PROVE  \/ hook'[o] = "live"
               \/ serving = o \/ Has(down, OpenedMsg(o))
               \/ Has(up', Request("close", o))
    <3>1. link = "ready" /\ conn' = conn
      <4>1. home[o] \in Nat /\ home[o] <= conn /\ conn \in Nat
        BY OpensFinite DEF TabInv, TypeInv, Numbers
      <4> QED BY <2>1, <4>1
    <3>2. \/ hook[o] = "live" /\ On(o)
          \/ serving = o \/ Has(down, OpenedMsg(o)) \/ Has(up, Request("close", o))
      BY <2>1, <3>1 DEF TabInv, Followed, On
    <3>3. o \notin os
      BY <1>1, <2>1
    <3> QED BY <1>1, <3>2, <3>3 DEF Started
  <2> QED BY <2>1 DEF Followed, OpenedMsg
<1>7. Announced'
  BY <1>1 DEF TabInv, Announced, Exit
<1>8. Abandoned'
  <2>1. \A r \in adrift : r.pty \in Opens
    BY DEF TabInv, TypeInv, AdriftRequests
  <2>2. \A o \in os : hook[o] = "none"
    BY DEF Started
  <2> QED BY <1>1, <2>1, <2>2 DEF TabInv, Abandoned, others, loose
<1> QED BY <1>3, <1>4, <1>5, <1>6, <1>7, <1>8 DEF Rest

(* The tabs ks lose their runs.                                            *)
LEMMA RestCleaned ==
    ASSUME TabInv, NEW ks, Cleaned(ks), tabs \ ks \subseteq tabs',
           \/ link' = link
           \/ link = "ready" /\ link' = "refreshing" /\ tabs \subseteq ks,
           UNCHANGED <<conn, status, owner, down, shell, home, serving, missed,
                       others>>
    PROVE  Rest'
<1>1. \A o \in Opens : On(o)' => /\ On(o) /\ owner[o] \notin ks
                                 /\ hook'[o] = hook[o]
  BY DEF Cleaned
<1>2. \A o \in Opens : On(o)' => owner[o] \in tabs /\ link' = link
  BY <1>1 DEF TabInv, Presented
<1>3. Presented'
  BY <1>1, <1>2 DEF TabInv, Presented
<1>4. OneRun'
  BY <1>1 DEF TabInv, OneRun
<1>5. Uncalled'
  <2>1. \A o, p \in Opens : Request("close", p) # Request("open", o)
    BY DEF Request
  <2> QED BY <2>1 DEF TabInv, Uncalled, Cleaned
<1>6. Followed'
  <2>1. ASSUME NEW o \in Opens, hook[o] = "live"
        PROVE  hook'[o] = "live" \/ Has(up', Request("close", o))
    BY <2>1 DEF Cleaned, On
  <2>2. \A x : Has(up, x) => Has(up', x)
    BY DEF Cleaned
  <2>3. link' # "down" => link # "down"
    OBVIOUS
  <2> QED BY <2>1, <2>2, <2>3 DEF TabInv, Followed, OpenedMsg
<1>7. Announced'
  BY <1>1 DEF TabInv, Announced, Exit
<1>8. Abandoned'
  <2>1. \A r \in adrift : r.pty \in Opens
    BY DEF TabInv, TypeInv, AdriftRequests
  <2>2. \A o \in Opens : hook'[o] = "none" => hook[o] = "none"
    BY DEF Cleaned
  <2> QED BY <1>1, <2>1, <2>2 DEF TabInv, Abandoned, others, loose
<1> QED BY <1>3, <1>4, <1>5, <1>6, <1>7, <1>8 DEF Rest

LEMMA TabPage ==
    ASSUME TabInv, AddTab \/ ShowIde \/ BecomeReady \/ ShowFunnel \/ Refresh
                     \/ \E k \in Keys : CloseTab(k)
    PROVE  TabInv'
<1>1. TypeInv /\ TypeInv' /\ tabs \subseteq Keys
  <2>1. TypeInv /\ tabs \subseteq Keys
    BY DEF TabInv, TypeInv
  <2> QED BY <2>1, TypeTabs, TypeCleaned
<1>2. Numbers'
  <2>1. /\ conn \in Nat /\ nextKey \in Nat /\ \A o \in Opens : home[o] \in Nat
        /\ \A k \in tabs : k \in Nat
        /\ \A c \in strays : c \in Nat
    BY <1>1, OpensFinite DEF TypeInv, Keys
  <2>2. /\ conn' = conn \/ conn' = conn + 1
        /\ nextKey' = nextKey \/ nextKey' = nextKey + 1
        /\ home' = home /\ strays' = strays
        /\ \A k \in tabs' : \/ k \in tabs
                            \/ k = nextKey /\ nextKey' = nextKey + 1
        /\ conn' = conn /\ link = "down" => link' = "down"
    <3>1. CASE AddTab \/ ShowIde
      BY <3>1 DEF AddTab, ShowIde, daemon, aside, others, loose
    <3>2. CASE BecomeReady
      BY <2>1, <3>2 DEF BecomeReady, daemon, aside, others, loose
    <3>3. CASE ShowFunnel \/ Refresh \/ \E k \in Keys : CloseTab(k)
      BY <3>3 DEF ShowFunnel, Refresh, CloseTab, daemon, aside, others, loose
    <3> QED BY <3>1, <3>2, <3>3
  <2>3. ASSUME NEW k \in tabs' PROVE k < nextKey'
    BY <2>1, <2>2, <2>3 DEF TabInv, Numbers
  <2>4. ASSUME NEW o \in Opens PROVE home'[o] <= conn'
    BY <2>1, <2>2 DEF TabInv, Numbers
  <2>5. ASSUME NEW c \in strays' PROVE c <= conn' /\ (c = conn' => link' = "down")
    BY <2>1, <2>2 DEF TabInv, Numbers
  <2> QED BY <2>3, <2>4, <2>5 DEF Numbers
<1>3. CASE ShowFunnel \/ Refresh \/ \E k \in Keys : CloseTab(k)
  <2>1. PICK ks \in SUBSET Keys :
          /\ Cleaned(ks) /\ tabs \ ks \subseteq tabs'
          /\ \/ link' = link
             \/ link = "ready" /\ link' = "refreshing" /\ tabs \subseteq ks
    BY <1>1, <1>3, CleaningStep
  <2>2. UNCHANGED <<conn, status, owner, down, shell, home, serving, missed, others>>
    BY <1>3 DEF ShowFunnel, Refresh, CloseTab, daemon, aside
  <2>3. Rest'
    BY <2>1, <2>2, RestCleaned
  <2> QED BY <1>1, <1>2, <2>3 DEF TabInv, Rest
<1>4. CASE AddTab \/ ShowIde \/ BecomeReady
  <2>1. /\ tabs \subseteq tabs'
        /\ UNCHANGED <<status, down, shell, home, serving, missed, others>>
    BY <1>4 DEF AddTab, ShowIde, BecomeReady, daemon, aside
  <2>2. PICK ks \in SUBSET Keys :
          /\ ks \subseteq tabs'
          /\ \/ /\ link' = "ready" /\ RunEffects(ks)
                /\ \/ link = "ready" /\ conn' = conn /\ ks \cap tabs = {}
                   \/ link = "down" /\ conn' = conn + 1
             \/ UNCHANGED <<link, conn, owner, hook, up>>
    <3>1. CASE AddTab \/ ShowIde
      <4>1. PICK ks : ks = {nextKey}
        OBVIOUS
      <4>2. nextKey \in Keys /\ nextKey \in Nat
        BY <1>1, <3>1, OpensFinite DEF AddTab, ShowIde, TypeInv, Keys
      <4>3. nextKey \notin tabs
        BY <4>2 DEF TabInv, Numbers
      <4> QED BY <3>1, <4>1, <4>2, <4>3 DEF AddTab, ShowIde
    <3>2. CASE BecomeReady
      <4>1. PICK ks : ks = tabs
        OBVIOUS
      <4> QED BY <1>1, <3>2, <4>1 DEF BecomeReady
    <3> QED BY <1>4, <3>1, <3>2
  <2>3. CASE UNCHANGED <<link, conn, owner, hook, up>>
    <3>1. Rest'
      BY <2>1, <2>3
      DEF TabInv, Rest, Presented, OneRun, Uncalled, Followed, Announced, Abandoned,
          On, OpenedMsg, Exit, others, loose
    <3> QED BY <1>1, <1>2, <3>1 DEF TabInv, Rest
  <2>4. CASE ~UNCHANGED <<link, conn, owner, hook, up>>
    <3>1. PICK os \in SUBSET Opens : \E key \in [os -> ks] : Started(os, key)
      BY <1>1, <2>2, <2>4, RunEffectsFacts
    <3>2. PICK key \in [os -> ks] : Started(os, key)
      BY <3>1
    <3>3. Rest'
      BY <2>1, <2>2, <2>4, <3>2, RestStarted
    <3> QED BY <1>1, <1>2, <3>3 DEF TabInv, Rest
  <2> QED BY <2>3, <2>4
<1> QED BY <1>3, <1>4

LEMMA TabDrop == ASSUME TabInv, Drop \/ StaleClose PROVE TabInv'
<1>1. TypeInv' /\ TypeInv
  BY TypeDrop DEF TabInv
<1>2. /\ \/ Drop
         \/ \E gone : Forget(gone)
      /\ Lost
  BY <1>1, ForgetFacts DEF Drop, StaleClose, Lost
<1>3. /\ \A o \in Opens : ~On(o)' /\ (hook'[o] = "none" => hook[o] = "none")
      /\ \A x : ~Has(up', x)
      /\ UNCHANGED <<conn, tabs, nextKey, shell, home>> /\ link' = "down"
  BY <1>1, <1>2 DEF Lost, LoseHooks, On, Has, TypeInv
<1>4. Presented' /\ OneRun' /\ Uncalled' /\ Followed' /\ Announced'
  BY <1>3 DEF TabInv, Presented, OneRun, Uncalled, Followed, Announced
<1>5. Numbers'
  <2>1. conn \in Nat /\ strays' \subseteq strays \cup {conn}
    <3>1. conn \in Nat
      BY <1>1, OpensFinite DEF TypeInv
    <3>2. CASE Drop
      BY <3>1, <3>2 DEF Drop
    <3>3. CASE \E gone : Forget(gone)
      BY <1>1, <3>1, <3>3, ForgetFacts
    <3> QED BY <1>2, <3>2, <3>3
  <2> QED BY <1>3, <2>1 DEF TabInv, Numbers
<1>6. Abandoned'
  <2>1. ASSUME NEW r \in adrift', r.op = "open"
        PROVE  r.pty \in Opens /\ hook[r.pty] # "none"
    <3>1. r.pty \in Opens
      BY <1>1 DEF TypeInv, AdriftRequests
    <3>2. r \in adrift \/ Has(up, Request("open", r.pty))
      BY <1>1, <1>2, <2>1, ForgetFacts DEF Drop
    <3> QED BY <2>1, <3>1, <3>2 DEF TabInv, Abandoned, Uncalled
  <2> QED BY <1>3, <2>1 DEF Abandoned
<1> QED BY <1>1, <1>4, <1>5, <1>6 DEF TabInv

(* The daemon leaves the page alone: what was to be closed is still to be, *)
(* or its shell is ending, and every exit of the connection is announced.  *)
LEMMA TabServeOpen ==
    ASSUME TabInv, NEW o \in Opens, OpenServed(o), TypeInv',
           UNCHANGED <<link, conn, tabs, nextKey, status, owner, hook, missed, strays,
                       adrift>>
    PROVE  TabInv'
<1>1. /\ shell \in [Opens -> {"none", "running", "dying", "exited"}]
      /\ home \in [Opens -> 0..MaxConns] /\ conn \in Nat
      /\ \A p \in Opens : p # NoOpen /\ home[p] \in Nat
  BY OpensFinite DEF TabInv, TypeInv, NoOpen, Opens
<1>2. /\ \A p \in Opens : Has(up', Request("open", p)) => Has(up, Request("open", p))
      /\ \A p \in Opens : Has(up', Request("close", p)) <=> Has(up, Request("close", p))
      /\ Has(up, Request("open", o)) /\ serving = NoOpen
  BY DEF OpenServed, Request
<1>3. hook[o] # "none"
  BY <1>2 DEF TabInv, Uncalled
<1>4. \A x : Has(down, x) => Has(down', x)
  BY PushFacts DEF OpenServed, Spawned, TabInv
<1>5. CASE Spawned(o)
  <2>1. /\ serving' = o
        /\ \A p \in Opens : /\ shell'[p] = IF p = o THEN "running" ELSE shell[p]
                            /\ home'[p] = IF p = o THEN conn ELSE home[p]
    BY <1>1, <1>5 DEF Spawned
  <2>2. Presented' /\ OneRun' /\ Uncalled'
    BY <1>2, <1>3, <2>1 DEF TabInv, Presented, OneRun, Uncalled, On
  <2>3. Numbers' /\ Abandoned'
    BY <1>1, <2>1 DEF TabInv, Numbers, Abandoned, On
  <2>4. Followed'
    <3>1. ASSUME NEW p \in Opens, shell'[p] = "running", home'[p] = conn, link # "down"
          PROVE  \/ hook[p] = "live"
                 \/ serving' = p \/ Has(down', OpenedMsg(p))
                 \/ Has(up', Request("close", p))
      <4>1. CASE p = o
        BY <2>1, <4>1
      <4>2. CASE p # o
        BY <1>1, <1>2, <1>4, <2>1, <3>1, <4>2 DEF TabInv, Followed
      <4> QED BY <4>1, <4>2
    <3> QED BY <3>1 DEF Followed, OpenedMsg
  <2>5. Announced'
    BY <1>4, <2>1 DEF TabInv, Announced, On, Exit
  <2> QED BY <2>2, <2>3, <2>4, <2>5 DEF TabInv
<1>6. CASE Push("refused", o) /\ UNCHANGED daemon
  <2>1. Presented' /\ OneRun' /\ Uncalled' /\ Numbers' /\ Abandoned'
    BY <1>2, <1>6 
    DEF TabInv, Presented, OneRun, Uncalled, Numbers, Abandoned, On, daemon
  <2>2. Followed'
    BY <1>2, <1>4, <1>6 DEF TabInv, Followed, OpenedMsg, daemon
  <2>3. Announced'
    BY <1>4, <1>6 DEF TabInv, Announced, On, Exit, daemon
  <2> QED BY <2>1, <2>2, <2>3 DEF TabInv
<1> QED BY <1>5, <1>6 DEF OpenServed

LEMMA TabAnswerOpen ==
    ASSUME TabInv, AnswerOpen, TypeInv'
    PROVE  TabInv'
<1>1. PICK o \in Opens : o = serving
  BY DEF AnswerOpen, TabInv, TypeInv
<1>2. UNCHANGED <<link, conn, tabs, nextKey, status, owner, hook, up, shell, home,
                  missed, strays, adrift>>
  BY DEF AnswerOpen, page, aside, others, loose
<1>3. \A x : Has(down', x) <=> Has(down, x) \/ x = OpenedMsg(o)
  BY <1>1, PushFacts DEF AnswerOpen, TabInv, OpenedMsg
<1>4. Presented' /\ OneRun' /\ Uncalled' /\ Numbers' /\ Abandoned'
  BY <1>2 DEF TabInv, Presented, OneRun, Uncalled, Numbers, Abandoned, On
<1>5. Followed'
  BY <1>1, <1>2, <1>3 DEF TabInv, Followed, OpenedMsg
<1>6. Announced'
  BY <1>2, <1>3 DEF TabInv, Announced, On, Exit
<1> QED BY <1>4, <1>5, <1>6 DEF TabInv

LEMMA TabServeClose ==
    ASSUME TabInv, NEW o \in Opens, CloseServed(o), TypeInv',
           UNCHANGED <<link, conn, tabs, nextKey, status, owner, hook, missed, strays,
                       adrift>>
    PROVE  TabInv'
<1>1. /\ UNCHANGED <<down, home, serving>>
      /\ shell \in [Opens -> {"none", "running", "dying", "exited"}]
      /\ \A p \in Opens : shell'[p] = IF p = o /\ shell[o] = "running" THEN "dying"
                                                                     ELSE shell[p]
  BY DEF CloseServed, TabInv, TypeInv
<1>2. /\ \A p \in Opens : Has(up', Request("open", p)) => Has(up, Request("open", p))
      /\ \A p \in Opens \ {o} :
           Has(up, Request("close", p)) => Has(up', Request("close", p))
  BY DEF CloseServed, Request
<1>3. Presented' /\ OneRun' /\ Uncalled' /\ Numbers' /\ Abandoned'
  BY <1>1, <1>2 DEF TabInv, Presented, OneRun, Uncalled, Numbers, Abandoned, On
<1>4. Followed'
  <2>1. ASSUME NEW p \in Opens, shell'[p] = "running" PROVE p # o /\ shell[p] = "running"
    BY <1>1, <2>1
  <2> QED BY <1>1, <1>2, <2>1 DEF TabInv, Followed, OpenedMsg
<1>5. Announced'
  BY <1>1 DEF TabInv, Announced, On, Exit
<1> QED BY <1>3, <1>4, <1>5 DEF TabInv

LEMMA TabEnds ==
    ASSUME TabInv, NEW o \in Opens, OnDisconnect(o) \/ ChildExits(o), TypeInv'
    PROVE  TabInv'
<1>1. UNCHANGED <<link, conn, tabs, nextKey, status, owner, hook, up, home, serving,
                  missed, strays, adrift>>
  BY DEF OnDisconnect, ChildExits, page, aside, others, loose
<1>2. /\ \A p \in Opens : p # o => shell'[p] = shell[p]
      /\ shell'[o] \in {"dying", "exited"} /\ shell[o] # "none"
      /\ shell'[o] = "exited" => ChildExits(o)
  BY DEF OnDisconnect, ChildExits, TabInv, TypeInv
<1>3. \A x : Has(down, x) => Has(down', x)
  BY PushFacts DEF OnDisconnect, ChildExits, TabInv
<1>4. Presented' /\ OneRun' /\ Uncalled' /\ Numbers' /\ Abandoned'
  BY <1>1, <1>2 DEF TabInv, Presented, OneRun, Uncalled, Numbers, Abandoned, On
<1>5. Followed'
  BY <1>1, <1>2, <1>3 DEF TabInv, Followed, OpenedMsg
<1>6. Announced'
  <2>1. ASSUME On(o), ChildExits(o) PROVE Has(down', Exit(o))
    <3>1. home[o] = conn /\ link # "down"
      BY <1>2, <2>1 DEF TabInv, Presented
    <3> QED BY <2>1, <3>1, PushFacts DEF ChildExits, TabInv, Exit
  <2>2. ASSUME NEW p \in Opens, On(p), shell'[p] = "exited"
        PROVE  \/ hook[p] = "live" /\ status[owner[p]] = "exited"
               \/ Has(down', Exit(p)) \/ p \in missed
    BY <1>2, <1>3, <2>1, <2>2 DEF TabInv, Announced
  <2> QED BY <1>1, <2>2 DEF Announced, On, Exit
<1> QED BY <1>4, <1>5, <1>6 DEF TabInv

(* What the page receives, about the call o.                               *)
LEMMA TabReceive ==
    ASSUME TabInv, NEW o \in Opens,
           OpenedFor(o) \/ RefusedFor(o) \/ ExitedFor(o), TypeInv',
           UNCHANGED <<link, conn, tabs, nextKey, owner, shell, home, serving, others>>
    PROVE  TabInv'
<1>1. TypeInv /\ hook \in [Opens -> {"none", "opening", "live", "abandoned", "gone",
                                     "failed"}]
  BY DEF TabInv, TypeInv
<1>2. /\ \A p \in Opens : On(p)' => On(p)
      /\ \A p \in Opens : p # o => hook'[p] = hook[p]
      /\ \A p \in Opens : hook'[p] = "none" => hook[p] = "none"
      /\ \A p \in Opens : hook[p] = "live" => hook'[p] = "live"
  BY <1>1 DEF OpenedFor, RefusedFor, ExitedFor, On
<1>3. \A x : Has(up', x) => Has(up, x) \/ x = Request("close", o)
  BY <1>1, RequestSent DEF OpenedFor, RefusedFor, ExitedFor
<1>4. \A x : Has(up, x) => Has(up', x)
  BY <1>1, RequestSent DEF OpenedFor, RefusedFor, ExitedFor
<1>5. Presented' /\ OneRun' /\ Numbers'
  BY <1>2 DEF TabInv, Presented, OneRun, Numbers, others, loose
<1>9. Abandoned'
  <2>1. \A r \in adrift : r.pty \in Opens
    BY <1>1 DEF TypeInv, AdriftRequests
  <2> QED BY <1>2, <2>1 DEF TabInv, Abandoned, others, loose
<1>6. Uncalled'
  <2>1. \A p \in Opens : Request("open", p) # Request("close", o)
    BY DEF Request
  <2> QED BY <1>2, <1>3, <2>1 DEF TabInv, Uncalled
<1>7. Followed'
  <2>1. ASSUME NEW p \in Opens, Has(down, OpenedMsg(p)), ~Has(down', OpenedMsg(p))
        PROVE  hook'[p] = "live" \/ Has(up', Request("close", p))
    <3>1. OpenedFor(o) /\ p = o
      BY <2>1 DEF OpenedFor, RefusedFor, ExitedFor, Took, OpenedMsg
    <3> QED BY <1>1, <3>1, RequestSent DEF OpenedFor
  <2>2. ASSUME NEW p \in Opens, shell[p] = "running", home[p] = conn, link # "down"
        PROVE  \/ hook'[p] = "live"
               \/ serving = p \/ Has(down', OpenedMsg(p))
               \/ Has(up', Request("close", p))
    BY <1>2, <1>4, <2>1, <2>2 DEF TabInv, Followed
  <2> QED BY <2>2 DEF Followed, OpenedMsg
<1>8. Announced'
  <2>1. /\ \A p \in Opens : On(p) => owner[p] \in Keys
        /\ missed \subseteq missed'
    BY <1>1 DEF OpenedFor, RefusedFor, ExitedFor, TabInv, Presented, TypeInv
  <2>2. ASSUME NEW p \in Opens, On(p)', Has(down, Exit(p)), ~Has(down', Exit(p))
        PROVE  \/ hook'[p] = "live" /\ status'[owner[p]] = "exited"
               \/ p \in missed'
    <3>1. ExitedFor(o) /\ p = o
      BY <2>2 DEF OpenedFor, RefusedFor, ExitedFor, Took, Exit
    <3>2. CASE hook[p] = "live"
      <4>1. Say(o, "exited") /\ owner[p] \in Keys
        BY <1>2, <2>1, <2>2, <3>1, <3>2 DEF ExitedFor
      <4>2. status'[owner[p]] = "exited"
        BY <1>1, <3>1, <4>1, SayFacts
      <4> QED BY <1>2, <3>2, <4>2
    <3>3. CASE hook[p] = "opening"
      BY <3>1, <3>3 DEF ExitedFor
    <3> QED BY <1>2, <2>2, <3>2, <3>3 DEF On
  <2>3. ASSUME NEW p \in Opens, hook[p] = "live", status[owner[p]] = "exited"
        PROVE  status'[owner[p]] = "exited"
    <3>1. On(p) /\ owner[p] \in Keys
      BY <2>1, <2>3 DEF On
    <3>2. CASE status' = status
      BY <2>3, <3>2
    <3>3. CASE Say(o, "exited")
      BY <1>1, <2>3, <3>1, <3>3, SayFacts
    <3>4. CASE hook[o] = "opening" /\ (Say(o, "ready") \/ Say(o, "error"))
      <4>1. owner[p] # owner[o]
        BY <2>3, <3>1, <3>4 DEF TabInv, OneRun, On
      <4> QED BY <1>1, <2>3, <3>1, <3>4, <4>1, SayFacts
    <3> QED BY <3>2, <3>3, <3>4 DEF OpenedFor, RefusedFor, ExitedFor
  <2>4. ASSUME NEW p \in Opens, On(p)', shell[p] = "exited"
        PROVE  \/ hook'[p] = "live" /\ status'[owner[p]] = "exited"
               \/ Has(down', Exit(p)) \/ p \in missed'
    <3>1. \/ hook[p] = "live" /\ status[owner[p]] = "exited"
          \/ Has(down, Exit(p)) \/ p \in missed
      BY <1>2, <2>4 DEF TabInv, Announced
    <3> QED BY <1>2, <2>1, <2>2, <2>3, <2>4, <3>1
  <2> QED BY <2>4 DEF Announced, Exit
<1> QED BY <1>5, <1>6, <1>7, <1>8, <1>9 DEF TabInv

(* pty.input, and what is on its way on forgotten connections.             *)
LEMMA TabInput ==
    ASSUME TabInv, TypeInv', InputStep
    PROVE  TabInv'
<1>1. UNCHANGED <<link, conn, tabs, nextKey, status, owner, hook, down, shell, home,
                  serving, missed, strays, adrift>>
  BY DEF InputStep, send, ServeInput, InputWritten, page, daemon, loose
<1>2. \A op \in {"open", "close"} : \A p \in Opens :
        Has(up', Request(op, p)) <=> Has(up, Request(op, p))
  <2>1. \A op \in {"open", "close"} : \A p, q \in Opens :
          Request(op, p) # Request("input", q)
    BY DEF Request
  <2>2. CASE \E o \in Opens : send(o)
    BY <2>1, <2>2, RequestSent DEF send, TabInv
  <2>3. CASE ServeInput
    BY <2>1, <2>3, TakeFacts DEF ServeInput, Serving, TabInv
  <2>4. CASE \E w \in writing : InputWritten(w)
    BY <2>4 DEF InputWritten
  <2> QED BY <2>2, <2>3, <2>4 DEF InputStep
<1> QED BY <1>1, <1>2
    DEF TabInv, Presented, OneRun, Uncalled, Numbers, Followed, Announced, Abandoned,
        On, OpenedMsg, Exit

LEMMA TabAdrift ==
    ASSUME TabInv, TypeInv', NEW r \in adrift, ServeAdrift(r) \/ OpenedAdrift(r)
    PROVE  TabInv'
<1>1. UNCHANGED <<link, conn, tabs, nextKey, status, owner, hook, down, serving,
                  missed, strays>>
  BY DEF ServeAdrift, OpenedAdrift, page, daemon
<1>2. /\ r.pty \in Opens /\ r.conn \in strays /\ r.conn \in Nat /\ r.conn <= conn
      /\ r.conn = conn => link = "down"
      /\ r.op = "open" => hook[r.pty] # "none" /\ ~On(r.pty)
  BY OpensFinite DEF TabInv, TypeInv, AdriftRequests, Numbers, Abandoned
<1>3. /\ shell \in [Opens -> {"none", "running", "dying", "exited"}]
      /\ home \in [Opens -> 0..MaxConns]
  BY DEF TabInv, TypeInv
<1>4. Abandoned'
  <2>1. \A q \in adrift' : q.op = "open" => q \in adrift
    <3>1. [r EXCEPT !.op = "opened"].op = "opened"
      BY DEF TabInv, TypeInv, AdriftRequests
    <3> QED BY <3>1 DEF ServeAdrift, OpenedAdrift
  <2> QED BY <1>1, <2>1 DEF TabInv, Abandoned, On
<1>5. CASE OpenedAdrift(r)
  <2>1. /\ \A x : Has(up, x) => Has(up', x)
        /\ \A p \in Opens : Has(up', Request("open", p)) => Has(up, Request("open", p))
    <3>1. \A p \in Opens : Request("open", p) # Request("close", r.pty)
      BY DEF Request
    <3> QED BY <1>2, <1>5, <3>1, RequestSent DEF OpenedAdrift, TabInv
  <2> QED BY <1>1, <1>4, <1>5, <2>1
      DEF OpenedAdrift, daemon, TabInv, Presented, OneRun, Uncalled, Numbers, Followed,
          Announced, On, OpenedMsg, Exit
<1>6. CASE ServeAdrift(r)
  <2>1. /\ up' = up
        /\ \A p \in Opens : p # r.pty => shell'[p] = shell[p] /\ home'[p] = home[p]
        /\ \/ r.op = "open" /\ shell'[r.pty] = "running" /\ home'[r.pty] = r.conn
           \/ /\ shell'[r.pty] = shell[r.pty] \/ (shell[r.pty] = "running"
                                                 /\ shell'[r.pty] = "dying")
              /\ home'[r.pty] = home[r.pty]
    BY <1>2, <1>3, <1>6 DEF ServeAdrift
  <2>2. Presented' /\ OneRun' /\ Uncalled'
    BY <1>1, <1>2, <2>1 DEF TabInv, Presented, OneRun, Uncalled, On
  <2>3. Numbers'
    BY <1>1, <1>2, <2>1 DEF TabInv, Numbers
  <2>4. Followed'
    BY <1>1, <1>2, <2>1 DEF TabInv, Followed, OpenedMsg
  <2>5. Announced'
    BY <1>1, <1>2, <2>1 DEF TabInv, Announced, On, Exit
  <2> QED BY <1>4, <2>2, <2>3, <2>4, <2>5 DEF TabInv
<1> QED BY <1>5, <1>6

LEMMA TabStep == TabInv /\ [Next]_vars => TabInv'
<1> SUFFICES ASSUME TabInv, [Next]_vars PROVE TabInv'
  OBVIOUS
<1>1. TypeInv /\ TypeInv'
  BY TypeStep DEF TabInv
<1>2. CASE UNCHANGED vars
  BY <1>1, <1>2
  DEF vars, page, daemon, aside, others, loose, TabInv, Presented, OneRun, Uncalled,
      Numbers, Followed, Announced, Abandoned, On, OpenedMsg, Exit
<1>3. CASE ServeOpen \/ ServeClose
  <2>1. UNCHANGED <<link, conn, tabs, nextKey, status, owner, hook, missed, strays,
                    adrift>>
    BY <1>3 DEF ServeOpen, ServeClose, page, aside, others, loose
  <2> QED BY <1>1, <1>3, <2>1, ServeFacts, TabServeOpen, TabServeClose
<1>4. CASE Opened \/ Refused \/ Exited
  BY <1>1, <1>4, PageFacts, TabReceive
<1>5. CASE InputStep
  BY <1>1, <1>5, TabInput
<1> QED BY <1>1, <1>2, <1>3, <1>4, <1>5, TabPage, TabDrop, TabAnswerOpen, TabEnds,
           TabAdrift DEF Next, InputStep

(* A shell of the current connection is the one a mounted tab shows, or    *)
(* the request that closes it, or the answer that leads to one, is on its  *)
(* way: a tab closed while pty.open is in flight leaves no shell behind.   *)
THEOREM NoShellStrays == Spec => []NoStrays
<1>1. TabInv => NoStrays
  BY DEF TabInv, Presented, Followed, On, NoStrays, Answering, Closing, Has, OpenedMsg
<1> QED BY <1>1, TabInit, TabStep, PTL DEF Spec

(* A tab whose shell has exited shows it once pty.exit is delivered, unless*)
(* that event overtook the answer to pty.open.                             *)
THEOREM ExitsAreShown == Spec => []ExitsShown
<1>1. TabInv => ExitsShown
  BY DEF TabInv, Announced, On, ExitsShown, Has, Exit
<1> QED BY <1>1, TabInit, TabStep, PTL DEF Spec

-----------------------------------------------------------------------------
(* Editor.                                                                 *)

Versions == [data : Texts, mtime : 0..MaxClock]
EditorRequests ==
    [op : {"read", "write", "delete"}, path : Files, text : Texts,
     live : BOOLEAN]
EditorAnswers == [to : EditorRequests, file : Versions, ok : BOOLEAN]

EditorTypeInv ==
    /\ disk \in [Files -> Versions] /\ clock \in 0..MaxClock
    /\ ready \in BOOLEAN
    /\ up \in Seq(EditorRequests) /\ down \in Seq(EditorAnswers)
    /\ cache \in [Files -> Versions]
    /\ fetching \subseteq Files /\ failed \subseteq Files
    /\ mounted \in BOOLEAN
    /\ selected \in Files \cup {NoFile} /\ target \in Files \cup {NoFile}
    /\ text \in Texts /\ dirty \in BOOLEAN /\ written \in Texts
    /\ floor \in [Files -> 0..MaxClock]
    /\ asked \in 0..MaxAsks /\ drops \in 0..MaxDrops

(* What an answer on its way tells of the file f.                          *)
Read(a, f) == a.to.op = "read" /\ a.to.path = f /\ a.ok
Wrote(a, f) == a.to.op = "write" /\ a.to.path = f /\ a.ok

(* w is v or was written later.                                            *)
Older(v, w) == v = w \/ v.mtime < w.mtime

Dated ==
    \A f \in Files :
        /\ floor[f] <= clock /\ cache[f].mtime <= clock
        /\ disk[f].mtime <= clock
        /\ disk[f] # Absent => /\ floor[f] <= disk[f].mtime
                               /\ cache[f] # Absent
                                    => Older(cache[f], disk[f])

ReadsDated ==
    \A f \in Files : \A i \in DOMAIN down :
        Read(down[i], f) =>
            /\ down[i].file # Absent
            /\ floor[f] <= down[i].file.mtime
            /\ down[i].file.mtime <= clock
            /\ cache[f] # Absent => Older(cache[f], down[i].file)
            /\ disk[f] # Absent => Older(down[i].file, disk[f])

WritesDated ==
    \A f \in Files : \A i \in DOMAIN down :
        Wrote(down[i], f) =>
            /\ down[i].file.mtime <= clock
            /\ disk[f] # Absent => down[i].file.mtime <= disk[f].mtime

InOrder ==
    \A f \in Files : \A i, j \in DOMAIN down :
        i < j /\ Read(down[j], f) =>
            /\ Read(down[i], f) => Older(down[i].file, down[j].file)
            /\ Wrote(down[i], f)
                 => down[i].file.mtime <= down[j].file.mtime

-----------------------------------------------------------------------------
(* Types                                                                   *)
LEMMA TextFacts ==
    /\ NoFile \in Texts /\ Files \subseteq Texts /\ 0..MaxClock \subseteq Texts
    /\ NoFile \notin Files /\ Absent \in Versions
    /\ MaxClock \in Nat /\ MaxAsks \in Nat /\ MaxDrops \in Nat
BY EditorAssumption, BoundsAssumption DEF Texts, Absent, Versions

LEMMA FetchTyped ==
    ASSUME EditorTypeInv, NEW f \in Files PROVE FetchFile(f) \in EditorRequests
<1>1. NoFile \in Texts
  BY TextFacts
<1> QED BY <1>1 DEF FetchFile, EditorRequests

(* The fetches of a finite set of files, in some order.                    *)
LEMMA FetchesTyped ==
    ASSUME EditorTypeInv, NEW fs \in SUBSET Files, IsFiniteSet(fs)
    PROVE  SetToSeq({FetchFile(f) : f \in fs}) \in Seq(EditorRequests)
<1>1. PICK R : R = {FetchFile(f) : f \in fs}
  OBVIOUS
<1>2. PICK g : g = [f \in fs |-> FetchFile(f)]
  OBVIOUS
<1>3. g \in Surjection(fs, R)
  BY <1>1, <1>2 DEF Surjection
<1>4. IsFiniteSet(R) /\ R \subseteq EditorRequests
  BY <1>1, <1>3, FS_Surjection, FetchTyped
<1>5. PICK t \in Seq(R) : t = SetToSeq(R)
  BY <1>4, SetToSeqFacts
<1>6. t \in Seq(EditorRequests)
  BY <1>4, <1>5
<1> QED BY <1>1, <1>5, <1>6

LEMMA ActiveFacts ==
    ASSUME EditorTypeInv
    PROVE  /\ Active \subseteq Files /\ IsFiniteSet(Active)
           /\ mounted /\ selected # NoFile => Active = {selected}
<1>1. IsFiniteSet({selected}) /\ IsFiniteSet({})
  BY FS_Singleton, FS_EmptySet
<1>2. Active \subseteq {selected}
  BY DEF Active
<1>3. IsFiniteSet(Active)
  BY <1>1, <1>2, FS_Subset
<1> QED BY <1>3 DEF Active, EditorTypeInv

(* Files that are observed are being fetched afterwards, if there is a     *)
(* daemon to ask, and no other file stops being fetched or in error.       *)
Observed(fs) ==
    /\ up' \in Seq(EditorRequests)
    /\ fetching' \subseteq Files /\ failed' \subseteq Files
    /\ fetching \subseteq fetching' /\ failed \subseteq failed' \cup fetching'
    /\ ready' => fs \subseteq fetching'

LEMMA ObserveFacts ==
    ASSUME EditorTypeInv, NEW fs \in SUBSET Files, IsFiniteSet(fs),
           ObserveFiles(fs)
    PROVE  Observed(fs)
<1>1. CASE ready'
  <2>1. PICK new : new = fs \ fetching
    OBVIOUS
  <2>2. /\ up' = up \o SetToSeq({FetchFile(f) : f \in new})
        /\ fetching' = fetching \cup new
        /\ failed' = failed \ {f \in new : cache[f] = Absent}
    BY <1>1, <2>1 DEF ObserveFiles
  <2>3. IsFiniteSet(new) /\ new \subseteq Files
    BY <2>1, FS_Subset
  <2>4. PICK t \in Seq(EditorRequests) :
               t = SetToSeq({FetchFile(f) : f \in new})
    BY <2>3, FetchesTyped
  <2>5. up' \in Seq(EditorRequests)
    BY <2>2, <2>4 DEF EditorTypeInv
  <2> QED BY <2>1, <2>2, <2>3, <2>5 DEF Observed, EditorTypeInv
<1>2. CASE ~ready'
  BY <1>2 DEF ObserveFiles, Observed, EditorTypeInv
<1> QED BY <1>1, <1>2

(* What is left of the answers s when the first is taken, and perhaps      *)
(* others after it.                                                        *)
EditorRest(t, s) ==
    /\ t \in Seq(EditorAnswers)
    /\ \E h \in [DOMAIN t -> 2..Len(s)] :
         /\ \A m, n \in DOMAIN t : m < n => h[m] < h[n]
         /\ \A n \in DOMAIN t : t[n] = s[h[n]]

LEMMA RestTail ==
    ASSUME NEW s \in Seq(EditorAnswers), s # <<>> PROVE EditorRest(Tail(s), s)
<1>1. /\ Tail(s) \in Seq(EditorAnswers) /\ Len(s) \in Nat
      /\ Len(Tail(s)) = Len(s) - 1
      /\ \A i \in 1..(Len(s) - 1) : Tail(s)[i] = s[i + 1]
  OBVIOUS
<1>2. PICK t \in Seq(EditorAnswers) : t = Tail(s)
  BY <1>1
<1>3. DOMAIN t = 1..(Len(s) - 1)
  BY <1>1, <1>2
<1>4. PICK h : h = [n \in DOMAIN t |-> n + 1]
  OBVIOUS
<1>5. h \in [DOMAIN t -> 2..Len(s)]
  BY <1>1, <1>3, <1>4
<1>6. \A m, n \in DOMAIN t : m < n => h[m] < h[n]
  BY <1>1, <1>3, <1>4
<1>7. \A n \in DOMAIN t : t[n] = s[h[n]]
  BY <1>1, <1>2, <1>3, <1>4
<1>8. EditorRest(t, s)
  BY <1>5, <1>6, <1>7 DEF EditorRest
<1> QED BY <1>2, <1>8

LEMMA RestKeep ==
    ASSUME NEW s \in Seq(EditorAnswers), NEW I \in SUBSET (2..Len(s))
    PROVE  EditorRest(Keep(s, I), s)
<1>1. DOMAIN s = 1..Len(s) /\ Len(s) \in Nat
  OBVIOUS
<1>2. I \in SUBSET DOMAIN s
  BY <1>1
<1>3. PICK t \in Seq(EditorAnswers) : t = Keep(s, I)
             /\ \E h : Leaves(t, s, I, h)
  BY <1>2, KeepFacts
<1>4. PICK h : Leaves(t, s, I, h)
  BY <1>3
<1>5. EditorRest(t, s)
  BY <1>4 DEF Leaves, EditorRest
<1> QED BY <1>3, <1>5

(* The file that was changed is fetched again if the editor shows it.      *)
Invalidated(f) ==
    /\ up' \in Seq(EditorRequests) /\ EditorRest(down', down)
    /\ fetching' \subseteq Files /\ fetching \subseteq fetching'
    /\ failed' = failed
    /\ mounted /\ f = selected => f \in fetching'

LEMMA InvalidateFacts ==
    ASSUME EditorTypeInv, NEW f \in Files, InvalidateFile(f)
    PROVE  Invalidated(f)
<1>1. PICK again :
        again = {q \in Active \cap {f} :
                   q \notin fetching \/ cache[q] # Absent}
  OBVIOUS
<1>2. PICK I :
        I = {i \in DOMAIN up :
               \A q \in again : ~IsRead(up[i], q)}
  OBVIOUS
<1>3. PICK J :
        J = {i \in 2..Len(down) :
               \A q \in again : ~IsRead(down[i].to, q)}
  OBVIOUS
<1>4. /\ up' = Keep(up, I) \o SetToSeq({FetchFile(q) : q \in again})
      /\ down' = Keep(down, J)
      /\ fetching' = fetching \cup again /\ failed' = failed
  BY <1>1, <1>2, <1>3 DEF InvalidateFile
<1>5. again \subseteq Files /\ IsFiniteSet(again)
  BY <1>1, ActiveFacts, FS_Subset
<1>6. up' \in Seq(EditorRequests)
  <2>1. PICK t \in Seq(EditorRequests) : t = Keep(up, I)
    <3>1. up \in Seq(EditorRequests) /\ I \in SUBSET DOMAIN up
      BY <1>2 DEF EditorTypeInv
    <3>2. Keep(up, I) \in Seq(EditorRequests)
      BY <3>1, KeepFacts
    <3> QED BY <3>2
  <2>2. PICK u \in Seq(EditorRequests) :
               u = SetToSeq({FetchFile(q) : q \in again})
    BY <1>5, FetchesTyped
  <2> QED BY <1>4, <2>1, <2>2
<1>7. EditorRest(down', down)
  <2>1. down \in Seq(EditorAnswers) /\ J \in SUBSET (2..Len(down))
    BY <1>3 DEF EditorTypeInv
  <2> QED BY <1>4, <2>1, RestKeep
<1>8. mounted /\ f = selected => f \in fetching'
  <2>1. SUFFICES ASSUME mounted, f = selected PROVE f \in fetching'
    OBVIOUS
  <2>2. f # NoFile
    BY TextFacts
  <2>3. Active = {f}
    BY <2>1, <2>2, ActiveFacts
  <2> QED BY <1>1, <1>4, <2>3
<1>9. fetching' \subseteq Files
  BY <1>4, <1>5 DEF EditorTypeInv
<1> QED BY <1>4, <1>6, <1>7, <1>8, <1>9 DEF Invalidated

LEMMA EditorTypeInit == EditorInit => EditorTypeInv
<1>1. SUFFICES ASSUME EditorInit PROVE EditorTypeInv
  OBVIOUS
<1>2. \A f \in Files : [data |-> f, mtime |-> 0] \in Versions
  BY <1>1, TextFacts DEF Versions
<1>3. up \in Seq(EditorRequests) /\ down \in Seq(EditorAnswers)
  <2>1. up = <<>> /\ down = <<>>
    BY <1>1 DEF EditorInit
  <2> QED BY ONLY <2>1
<1>4. disk \in [Files -> Versions] /\ cache \in [Files -> Versions]
  BY <1>1, <1>2, TextFacts DEF EditorInit
<1>5. floor \in [Files -> 0..MaxClock] /\ clock \in 0..MaxClock
  BY <1>1, TextFacts DEF EditorInit
<1>6. asked \in 0..MaxAsks /\ drops \in 0..MaxDrops
  BY <1>1, TextFacts DEF EditorInit
<1>7. /\ ready = FALSE /\ fetching = {} /\ failed = {} /\ mounted = TRUE
      /\ selected = NoFile /\ target = NoFile /\ text = NoFile
      /\ dirty = FALSE /\ written = NoFile /\ NoFile \in Texts
  BY <1>1, TextFacts DEF EditorInit
<1> QED BY <1>1, <1>3, <1>4, <1>5, <1>6, <1>7 DEF EditorTypeInv

LEMMA LoadTyped ==
    ASSUME EditorTypeInv, NEW f \in Files \cup {NoFile}, NEW v \in Versions,
           Load(f, v)
    PROVE  text' \in Texts /\ dirty' \in BOOLEAN
<1>1. v.data \in Texts
  BY DEF Versions
<1> QED BY <1>1, TextFacts DEF Load, EditorTypeInv, buffer

LEMMA TypeSelect ==
    ASSUME EditorTypeInv, NEW f \in Files, SelectFile(f)
    PROVE  EditorTypeInv'
<1>1. Observed(IF mounted THEN {f} ELSE {})
  <2>1. IsFiniteSet({f}) /\ IsFiniteSet({})
    BY FS_Singleton, FS_EmptySet
  <2> QED BY <2>1, ObserveFacts DEF SelectFile
<1>2. text' \in Texts /\ dirty' \in BOOLEAN
  <2>1. CASE mounted
    BY <2>1, LoadTyped DEF SelectFile, EditorTypeInv
  <2>2. CASE ~mounted
    BY <2>2 DEF SelectFile, EditorTypeInv, buffer
  <2> QED BY <2>1, <2>2
<1> QED BY <1>1, <1>2
     DEF SelectFile, Observed, EditorTypeInv, saves, bounds

LEMMA TypeShowIde == ASSUME EditorTypeInv, EditorMounts PROVE EditorTypeInv'
<1>1. Observed({selected} \ {NoFile})
  <2>1. IsFiniteSet({selected})
    BY FS_Singleton
  <2>2. IsFiniteSet({selected} \ {NoFile})
    BY <2>1, FS_Subset
  <2> QED BY <2>2, ObserveFacts DEF EditorMounts, EditorTypeInv
<1>2. text' \in Texts /\ dirty' \in BOOLEAN
  <2>1. CASE selected = NoFile \/ cache[selected] = Absent
    BY <2>1 DEF EditorMounts, EditorTypeInv, buffer
  <2>2. CASE selected # NoFile /\ cache[selected] # Absent
    BY <2>2, LoadTyped DEF EditorMounts, EditorTypeInv
  <2> QED BY <2>1, <2>2
<1> QED BY <1>1, <1>2
     DEF EditorMounts, Observed, EditorTypeInv, saves, bounds

(* When the funnel replaces the IDE, only the callers of the requests and  *)
(* of the answers change.                                                  *)
Relabelled(t, s) ==
    /\ t \in Seq(EditorAnswers) /\ DOMAIN t = DOMAIN s
    /\ \A i \in DOMAIN t :
         /\ t[i].to.op = s[i].to.op /\ t[i].to.path = s[i].to.path
         /\ t[i].file = s[i].file /\ t[i].ok = s[i].ok

LEMMA Forgotten ==
    ASSUME NEW r \in EditorRequests
    PROVE  /\ [r EXCEPT !.live = FALSE] \in EditorRequests
           /\ [r EXCEPT !.live = FALSE].op = r.op
           /\ [r EXCEPT !.live = FALSE].path = r.path
BY DEF EditorRequests

LEMMA ShowFunnelFacts ==
    ASSUME EditorTypeInv, EditorUnmounts
    PROVE  up' \in Seq(EditorRequests) /\ Relabelled(down', down)
<1>1. up \in Seq(EditorRequests) /\ down \in Seq(EditorAnswers)
  BY DEF EditorTypeInv
<1>2. PICK t : t = [i \in DOMAIN up |-> [up[i] EXCEPT !.live = FALSE]]
  OBVIOUS
<1>3. PICK u :
        u = [i \in DOMAIN down |->
               [down[i] EXCEPT !.to = [@ EXCEPT !.live = FALSE]]]
  OBVIOUS
<1>4. up' = t /\ down' = u
  BY <1>2, <1>3 DEF EditorUnmounts
<1>5. t \in Seq(EditorRequests)
  <2>1. \A i \in DOMAIN up : up[i] \in EditorRequests
          /\ t[i] \in EditorRequests
    BY <1>1, <1>2, Forgotten
  <2>2. DOMAIN up = 1..Len(up) /\ Len(up) \in Nat
    BY <1>1
  <2>3. t \in [1..Len(up) -> EditorRequests]
    BY <1>2, <2>1, <2>2
  <2> QED BY <2>2, <2>3
<1>6. DOMAIN down = 1..Len(down) /\ Len(down) \in Nat
  BY <1>1
<1>7. ASSUME NEW i \in DOMAIN down
      PROVE  /\ u[i] \in EditorAnswers
             /\ u[i].to.op = down[i].to.op
             /\ u[i].to.path = down[i].to.path
             /\ u[i].file = down[i].file /\ u[i].ok = down[i].ok
  <2>1. PICK a \in EditorAnswers : a = down[i]
    BY <1>1
  <2>2. u[i] = [a EXCEPT !.to = [@ EXCEPT !.live = FALSE]]
    BY <1>3, <2>1
  <2>3. a.to \in EditorRequests
    BY DEF EditorAnswers
  <2>4. PICK r : r = [a.to EXCEPT !.live = FALSE]
    OBVIOUS
  <2>5. r \in EditorRequests /\ r.op = a.to.op /\ r.path = a.to.path
    BY <2>3, <2>4, Forgotten
  <2>6. u[i] = [a EXCEPT !.to = r]
    BY <2>2, <2>4
  <2>7. u[i] \in EditorAnswers /\ u[i].to = r /\ u[i].file = a.file
          /\ u[i].ok = a.ok
    BY <2>5, <2>6 DEF EditorAnswers
  <2> QED BY <2>1, <2>5, <2>7
<1>8. u \in Seq(EditorAnswers) /\ DOMAIN u = DOMAIN down
  <2>1. u \in [1..Len(down) -> EditorAnswers]
    BY <1>3, <1>6, <1>7
  <2> QED BY <1>6, <2>1
<1>9. Relabelled(u, down)
  BY <1>7, <1>8 DEF Relabelled
<1> QED BY <1>4, <1>5, <1>9

LEMMA TypeShowFunnel ==
    ASSUME EditorTypeInv, EditorUnmounts
    PROVE  EditorTypeInv'
<1>1. up' \in Seq(EditorRequests) /\ down' \in Seq(EditorAnswers)
  BY ShowFunnelFacts DEF Relabelled
<1> QED BY <1>1, TextFacts
     DEF EditorUnmounts, EditorTypeInv, fileQueries, bounds

LEMMA TypeType == ASSUME EditorTypeInv, Type PROVE EditorTypeInv'
<1>1. clock + 1 \in 0..MaxClock
  BY TextFacts DEF Type, EditorTypeInv
<1> QED BY <1>1, TextFacts
        DEF Type, EditorTypeInv, wire, fileQueries, view, saves,
            bounds

LEMMA AskFacts ==
    ASSUME EditorTypeInv, NEW op \in {"write", "delete"}, NEW f \in Files,
           NEW t \in Texts, NEW live \in BOOLEAN, Call(op, f, t, live)
    PROVE  EditorTypeInv'
             /\ UNCHANGED <<disk, clock, ready, down, fileQueries, view,
                                         buffer, saves, drops>>
<1>1. PICK r : r = [op |-> op, path |-> f, text |-> t, live |-> live]
  OBVIOUS
<1>2. r \in EditorRequests
  BY <1>1 DEF EditorRequests
<1>3. up' = Append(up, r) /\ up \in Seq(EditorRequests)
  BY <1>1 DEF Call, EditorTypeInv
<1>4. up' \in Seq(EditorRequests)
  BY <1>2, <1>3
<1>5. asked' \in 0..MaxAsks
  BY TextFacts DEF Call, EditorTypeInv
<1> QED BY <1>4, <1>5
     DEF Call, EditorTypeInv, fileQueries, view, buffer, saves

LEMMA AskStep ==
    ASSUME EditorTypeInv, Save \/ \E f \in Files : DeleteFile(f)
    PROVE  EditorTypeInv'
             /\ UNCHANGED <<disk, clock, ready, down, fileQueries, view,
                                         buffer, saves, drops>>
<1>1. ASSUME NEW f \in Files, DeleteFile(f)
      PROVE  EditorTypeInv'
               /\ UNCHANGED <<disk, clock, ready, down, fileQueries, view,
                                           buffer, saves, drops>>
  BY ONLY <1>1, EditorTypeInv, TextFacts, AskFacts DEF DeleteFile
<1>2. CASE Save
  <2>1. target \in Files /\ text \in Texts
    BY <1>2 DEF Save, EditorTypeInv
  <2>2. Call("write", target, text, TRUE)
    BY <1>2 DEF Save
  <2> QED BY ONLY <2>1, <2>2, EditorTypeInv, AskFacts
<1> QED BY <1>1, <1>2

(* What the daemon does with a request r, of which the answer a is sent.   *)
Served(r, a) ==
    /\ r \in EditorRequests /\ a \in EditorAnswers /\ a.to = r
    /\ up' \in Seq(EditorRequests) /\ down' = Append(down, a)
    /\ UNCHANGED <<ready, fileQueries, view, buffer, saves,
                   bounds>>
    /\ \/ /\ r.op = "read" /\ UNCHANGED <<disk, clock>>
          /\ a.file = disk[r.path] /\ a.ok = (disk[r.path] # Absent)
       \/ /\ r.op = "write" /\ a.ok /\ clock < MaxClock
          /\ clock' = clock + 1
          /\ a.file = [data |-> r.text, mtime |-> clock + 1]
          /\ disk' = [disk EXCEPT ![r.path] = a.file]
       \/ /\ r.op = "write" /\ ~a.ok /\ UNCHANGED <<disk, clock>>
       \/ /\ r.op = "delete" /\ UNCHANGED clock
          /\ disk' = [disk EXCEPT ![r.path] = Absent]

LEMMA VersionTyped ==
    ASSUME EditorTypeInv, clock < MaxClock, NEW t \in Texts
    PROVE  /\ clock + 1 \in 0..MaxClock
           /\ [data |-> t, mtime |-> clock + 1] \in Versions
<1>1. clock + 1 \in 0..MaxClock
  BY TextFacts DEF EditorTypeInv
<1> QED BY <1>1 DEF Versions

LEMMA EditorServeFacts ==
    ASSUME EditorTypeInv, ServeFile PROVE \E r, a : Served(r, a)
<1>1. PICK r \in EditorRequests : r = Head(up)
             /\ Tail(up) \in Seq(EditorRequests)
  BY DEF EditorTypeInv, ServeFile
<1>2. r.path \in Files /\ r.text \in Texts
  BY DEF EditorRequests
<1>3. disk[r.path] \in Versions /\ Absent \in Versions
  BY <1>2, TextFacts DEF EditorTypeInv
<1>4. ASSUME NEW file \in Versions, NEW ok \in BOOLEAN, Reply(file, ok)
      PROVE  \E a \in EditorAnswers : /\ a.to = r /\ a.file = file /\ a.ok = ok
                                      /\ down' = Append(down, a)
                                      /\ up' \in Seq(EditorRequests)
  <2>1. PICK a : a = [to |-> r, file |-> file, ok |-> ok]
    OBVIOUS
  <2>2. a \in EditorAnswers
    BY <2>1 DEF EditorAnswers
  <2>3. down' = Append(down, a) /\ up' = Tail(up)
    BY <1>1, <1>4, <2>1 DEF Reply
  <2> QED BY <1>1, <2>1, <2>2, <2>3
<1>5. UNCHANGED <<ready, fileQueries, view, buffer, saves,
                  bounds>>
  BY DEF ServeFile
<1>6. CASE /\ r.op = "read" /\ Reply(disk[r.path], disk[r.path] # Absent)
           /\ UNCHANGED <<disk, clock>>
  <2>1. PICK a \in EditorAnswers :
          /\ a.to = r /\ a.file = disk[r.path]
          /\ a.ok = (disk[r.path] # Absent)
          /\ down' = Append(down, a) /\ up' \in Seq(EditorRequests)
    BY <1>3, <1>4, <1>6
  <2> QED BY <1>1, <1>5, <1>6, <2>1 DEF Served
<1>7. CASE /\ r.op = "write" /\ Rewrite(r.path, r.text)
           /\ Reply(disk'[r.path], TRUE)
  <2>1. PICK v \in Versions : v = [data |-> r.text, mtime |-> clock + 1]
    BY <1>2, <1>7, VersionTyped DEF Rewrite
  <2>2. disk' = [disk EXCEPT ![r.path] = v] /\ disk'[r.path] = v
    BY <1>2, <1>7, <2>1 DEF Rewrite, EditorTypeInv
  <2>3. PICK a \in EditorAnswers :
          /\ a.to = r /\ a.file = v /\ a.ok = TRUE
          /\ down' = Append(down, a) /\ up' \in Seq(EditorRequests)
    BY <1>4, <1>7, <2>2
  <2>4. /\ disk' = [disk EXCEPT ![r.path] = a.file]
        /\ a.file = [data |-> r.text, mtime |-> clock + 1]
    BY ONLY <2>1, <2>2, <2>3
  <2>5. clock < MaxClock /\ clock' = clock + 1 /\ r.op = "write"
    BY ONLY <1>7 DEF Rewrite
  <2>6. Served(r, a)
    BY <1>5, <2>3, <2>4, <2>5 DEF Served
  <2> QED BY <2>6
<1>8. CASE /\ r.op = "write" /\ Reply(Absent, FALSE)
           /\ UNCHANGED <<disk, clock>>
  <2>1. PICK a \in EditorAnswers :
          /\ a.to = r /\ a.file = Absent /\ a.ok = FALSE
          /\ down' = Append(down, a) /\ up' \in Seq(EditorRequests)
    BY <1>3, <1>4, <1>8
  <2> QED BY <1>1, <1>5, <1>8, <2>1 DEF Served
<1>9. CASE /\ r.op = "delete" /\ Reply(Absent, disk[r.path] # Absent)
           /\ disk' = [disk EXCEPT ![r.path] = Absent]
           /\ UNCHANGED clock
  <2>1. PICK a \in EditorAnswers :
          /\ a.to = r /\ a.file = Absent
          /\ a.ok = (disk[r.path] # Absent)
          /\ down' = Append(down, a) /\ up' \in Seq(EditorRequests)
    BY <1>3, <1>4, <1>9
  <2> QED BY <1>1, <1>5, <1>9, <2>1 DEF Served
<1> QED BY <1>1, <1>6, <1>7, <1>8, <1>9 DEF ServeFile

LEMMA TypeServe == ASSUME EditorTypeInv, ServeFile PROVE EditorTypeInv'
<1>1. PICK r, a : Served(r, a)
  BY EditorServeFacts
<1>2. down' \in Seq(EditorAnswers)
  BY <1>1 DEF Served, EditorTypeInv
<1>3. disk' \in [Files -> Versions] /\ clock' \in 0..MaxClock
  <2>1. r.path \in Files /\ a.file \in Versions /\ Absent \in Versions
    BY <1>1, TextFacts DEF Served, EditorRequests, EditorAnswers
  <2>2. clock < MaxClock => clock + 1 \in 0..MaxClock
    BY TextFacts DEF EditorTypeInv
  <2> QED BY <1>1, <2>1, <2>2 DEF Served, EditorTypeInv
<1>4. up' \in Seq(EditorRequests)
  BY <1>1 DEF Served
<1>5. UNCHANGED <<ready, fileQueries, view, buffer, saves,
                  bounds>>
  BY <1>1 DEF Served
<1> QED BY <1>2, <1>3, <1>4, <1>5
        DEF EditorTypeInv, fileQueries, view, buffer, saves,
            bounds

LEMMA TypeOutside ==
    ASSUME EditorTypeInv, NEW f \in Files, Outside(f) PROVE EditorTypeInv'
<1>1. clock + 1 \in Texts
  BY TextFacts DEF Outside, Rewrite, EditorTypeInv
<1>2. /\ clock + 1 \in 0..MaxClock
      /\ [data |-> clock + 1, mtime |-> clock + 1] \in Versions
  BY <1>1, VersionTyped DEF Outside, Rewrite
<1>3. disk' \in [Files -> Versions] /\ clock' \in 0..MaxClock
  BY <1>2 DEF Outside, Rewrite, EditorTypeInv
<1> QED BY <1>3
        DEF Outside, EditorTypeInv, wire, fileQueries, view, buffer,
            saves, bounds

(* The answer at the head, and those behind it.                            *)
LEMMA HeadFacts ==
    ASSUME EditorTypeInv, down # <<>>
    PROVE  /\ Head(down) \in EditorAnswers
           /\ Head(down).to \in EditorRequests
           /\ Head(down).to.path \in Files
           /\ Head(down).to.text \in Texts
           /\ Head(down).file \in Versions
           /\ EditorRest(Tail(down), down)
           /\ Head(down) = down[1] /\ 1 \in DOMAIN down
<1>1. down \in Seq(EditorAnswers)
  BY DEF EditorTypeInv
<1>2. Head(down) \in EditorAnswers /\ Head(down) = down[1]
        /\ 1 \in DOMAIN down
  BY <1>1
<1>3. EditorRest(Tail(down), down)
  BY <1>1, RestTail
<1>4. Head(down).to \in EditorRequests /\ Head(down).file \in Versions
  BY <1>2 DEF EditorAnswers
<1> QED BY <1>2, <1>3, <1>4 DEF EditorRequests

LEMMA TypeRead == ASSUME EditorTypeInv, ReadReturns PROVE EditorTypeInv'
<1>1. PICK f \in Files : f = Head(down).to.path
  BY HeadFacts DEF ReadReturns, AnswerTo
<1>2. Head(down).file \in Versions /\ down' \in Seq(EditorAnswers)
  BY HeadFacts DEF ReadReturns, AnswerTo, EditorRest
<1>3. text' \in Texts /\ dirty' \in BOOLEAN
  <2>1. CASE Load(f, Head(down).file)
    BY ONLY <1>1, <1>2, <2>1, EditorTypeInv, LoadTyped
  <2>2. CASE UNCHANGED buffer
    BY <2>2 DEF buffer, EditorTypeInv
  <2> QED BY <1>1, <2>1, <2>2 DEF ReadReturns
<1> QED BY <1>1, <1>2, <1>3
     DEF ReadReturns, EditorTypeInv, view, saves, bounds

LEMMA TypeReadFails == ASSUME EditorTypeInv, ReadFails PROVE EditorTypeInv'
<1>1. PICK f \in Files : f = Head(down).to.path
  BY HeadFacts DEF ReadFails, AnswerTo
<1>2. down' \in Seq(EditorAnswers)
  BY HeadFacts DEF ReadFails, AnswerTo, EditorRest
<1>3. Append(up, FetchFile(f)) \in Seq(EditorRequests)
  BY FetchTyped DEF EditorTypeInv
<1>4. /\ up' \in Seq(EditorRequests) /\ fetching' \subseteq Files
      /\ failed' \subseteq Files
  BY <1>1, <1>3 DEF ReadFails, EditorTypeInv
<1> QED BY <1>2, <1>4
     DEF ReadFails, EditorTypeInv, view, buffer, saves, bounds

LEMMA TypeSave == ASSUME EditorTypeInv, SaveReturns PROVE EditorTypeInv'
<1>1. PICK f \in Files : f = Head(down).to.path
  BY HeadFacts DEF SaveReturns, AnswerTo
<1>2. Invalidated(f)
  BY <1>1, InvalidateFacts DEF SaveReturns
<1>3. Head(down).file.mtime \in 0..MaxClock
        /\ Head(down).to.text \in Texts
  BY HeadFacts DEF SaveReturns, AnswerTo, Versions
<1>4. floor' \in [Files -> 0..MaxClock]
  BY <1>1, <1>3 DEF SaveReturns, EditorTypeInv
<1>5. text' \in Texts /\ dirty' \in BOOLEAN /\ written' \in Texts
  BY <1>3 DEF SaveReturns, EditorTypeInv, buffer
<1> QED BY <1>2, <1>4, <1>5
        DEF SaveReturns, Invalidated, EditorRest, EditorTypeInv, view,
            bounds

LEMMA TypeDelete == ASSUME EditorTypeInv, DeleteReturns PROVE EditorTypeInv'
<1>1. PICK f \in Files : f = Head(down).to.path
  BY HeadFacts DEF DeleteReturns, AnswerTo
<1>2. Invalidated(f)
  BY <1>1, InvalidateFacts DEF DeleteReturns
<1> QED BY <1>2
        DEF DeleteReturns, Invalidated, EditorRest, EditorTypeInv, view,
            buffer, saves,
            bounds

LEMMA TypeCallFails == ASSUME EditorTypeInv, CallFails PROVE EditorTypeInv'
<1>1. down' \in Seq(EditorAnswers)
  BY HeadFacts DEF CallFails, EditorRest
<1> QED BY <1>1
        DEF CallFails, EditorTypeInv, fileQueries, view, buffer,
            saves, bounds

LEMMA EditorTypeDrop == ASSUME EditorTypeInv, EditorDrop PROVE EditorTypeInv'
<1>1. drops' \in 0..MaxDrops
  BY TextFacts DEF EditorDrop, EditorTypeInv
<1>2. up' \in Seq(EditorRequests) /\ down' \in Seq(EditorAnswers)
  <2>1. up' = <<>> /\ down' = <<>>
    BY DEF EditorDrop
  <2> QED BY ONLY <2>1
<1> QED BY <1>1, <1>2
     DEF EditorDrop, EditorTypeInv, fileQueries, view, buffer, saves

LEMMA TypeReady == ASSUME EditorTypeInv, EditorReady PROVE EditorTypeInv'
<1>1. Observed(Active)
  BY ActiveFacts, ObserveFacts DEF EditorReady
<1> QED BY <1>1
     DEF EditorReady, Observed, EditorTypeInv, view, buffer,
         saves, bounds

LEMMA EditorTypeStep ==
    EditorTypeInv /\ [EditorNext]_editorVars => EditorTypeInv'
<1>1. SUFFICES ASSUME EditorTypeInv, [EditorNext]_editorVars
               PROVE  EditorTypeInv'
  OBVIOUS
<1>2. ASSUME NEW f \in Files, SelectFile(f) PROVE EditorTypeInv'
  BY <1>1, <1>2, TypeSelect
<1>3. ASSUME NEW f \in Files, Outside(f) PROVE EditorTypeInv'
  BY <1>1, <1>3, TypeOutside
<1>4. CASE Save \/ \E f \in Files : DeleteFile(f)
  BY <1>1, <1>4, AskStep
<1>5. CASE UNCHANGED editorVars
  BY <1>1, <1>5
     DEF EditorTypeInv, editorVars, wire, fileQueries, view, buffer,
         saves, bounds
<1>6. CASE EditorUnmounts
  BY <1>1, <1>6, TypeShowFunnel
<1>7. CASE EditorMounts
  BY <1>1, <1>7, TypeShowIde
<1>8. CASE Type
  BY <1>1, <1>8, TypeType
<1>9. CASE ServeFile
  BY <1>1, <1>9, TypeServe
<1>10. CASE ReadReturns \/ ReadFails
  BY <1>1, <1>10, TypeRead, TypeReadFails
<1>11. CASE SaveReturns \/ DeleteReturns \/ CallFails
  BY <1>1, <1>11, TypeSave, TypeDelete, TypeCallFails
<1>12. CASE EditorDrop \/ EditorReady
  BY <1>1, <1>12, EditorTypeDrop, TypeReady
<1> QED BY <1>1, <1>2, <1>3, <1>4, <1>5, <1>6, <1>7, <1>8, <1>9, <1>10,
           <1>11, <1>12 DEF EditorNext

LEMMA EditorTypeInvTypeOK == EditorTypeInv => EditorTypeOK
<1>1. SUFFICES ASSUME EditorTypeInv PROVE EditorTypeOK
  OBVIOUS
<1>2. ASSUME NEW f \in Files
      PROVE  disk[f].data \in Texts /\ disk[f].mtime \in 0..MaxClock
  BY <1>1 DEF EditorTypeInv, Versions
<1>3. ASSUME NEW i \in DOMAIN up
      PROVE  up[i].path \in Files /\ up[i].text \in Texts
  <2>1. up[i] \in EditorRequests
    BY <1>1 DEF EditorTypeInv
  <2> QED BY <2>1 DEF EditorRequests
<1>4. ASSUME NEW i \in DOMAIN down PROVE down[i].to.path \in Files
  <2>1. down[i] \in EditorAnswers
    BY <1>1 DEF EditorTypeInv
  <2> QED BY <2>1 DEF EditorAnswers, EditorRequests
<1> QED BY <1>1, <1>2, <1>3, <1>4 DEF EditorTypeInv, EditorTypeOK

(* The types of the editor's variables, of the frames in flight among them.*)
THEOREM EditorTypeCorrect ==
    EditorSpec => []EditorTypeOK
<1>1. EditorInit => EditorTypeInv
  BY EditorTypeInit
<1>2. EditorSpec => []EditorTypeInv
  BY <1>1, EditorTypeStep, PTL DEF EditorSpec
<1> QED BY <1>2, EditorTypeInvTypeOK, PTL

-----------------------------------------------------------------------------
(* The versions of a file reach the page in the order they were written.   *)
OrderInv == Dated /\ ReadsDated /\ WritesDated /\ InOrder

LEMMA Times ==
    ASSUME EditorTypeInv
    PROVE  /\ clock \in Nat
           /\ \A f \in Files : /\ floor[f] \in Nat
                               /\ cache[f] \in Versions
                               /\ cache[f].mtime \in Nat
                               /\ disk[f] \in Versions /\ disk[f].mtime \in Nat
           /\ \A i \in DOMAIN down : /\ down[i].file \in Versions
                                     /\ down[i].file.mtime \in Nat
<1>1. ASSUME NEW i \in DOMAIN down PROVE down[i].file \in Versions
  <2>1. down[i] \in EditorAnswers
    BY DEF EditorTypeInv
  <2> QED BY <2>1 DEF EditorAnswers
<1>2. \A v \in Versions : v.mtime \in Nat
  BY TextFacts DEF Versions
<1>3. clock \in Nat /\ \A f \in Files : floor[f] \in Nat
  BY TextFacts DEF EditorTypeInv
<1> QED BY <1>1, <1>2, <1>3 DEF EditorTypeInv

(* Answers of s, in the same order.                                        *)
Fewer(t, s) ==
    \E h \in [DOMAIN t -> DOMAIN s] :
        /\ \A m, n \in DOMAIN t : m < n => h[m] < h[n]
        /\ \A n \in DOMAIN t :
             /\ t[n].to.op = s[h[n]].to.op /\ t[n].to.path = s[h[n]].to.path
             /\ t[n].file = s[h[n]].file /\ t[n].ok = s[h[n]].ok

LEMMA RestFewer ==
    ASSUME NEW s \in Seq(EditorAnswers), NEW t, EditorRest(t, s)
    PROVE  Fewer(t, s)
<1>1. DOMAIN s = 1..Len(s) /\ Len(s) \in Nat
  OBVIOUS
<1>2. PICK h \in [DOMAIN t -> 2..Len(s)] :
         /\ \A m, n \in DOMAIN t : m < n => h[m] < h[n]
         /\ \A n \in DOMAIN t : t[n] = s[h[n]]
  BY DEF EditorRest
<1>3. h \in [DOMAIN t -> DOMAIN s]
  BY <1>1, <1>2
<1> QED BY <1>2, <1>3 DEF Fewer

LEMMA RelabelledFewer ==
    ASSUME NEW s, NEW t, Relabelled(t, s) PROVE Fewer(t, s)
<1>1. PICK h : h = [n \in DOMAIN t |-> n]
  OBVIOUS
<1>2. h \in [DOMAIN t -> DOMAIN s]
  BY <1>1 DEF Relabelled
<1> QED BY <1>1, <1>2 DEF Relabelled, Fewer

LEMMA SameFewer == ASSUME NEW s PROVE Fewer(s, s)
<1>1. PICK h : h = [n \in DOMAIN s |-> n]
  OBVIOUS
<1>2. h \in [DOMAIN s -> DOMAIN s]
  BY <1>1
<1> QED BY <1>1, <1>2 DEF Fewer

(* Taking answers away changes nothing of this.                            *)
LEMMA OrderFewer ==
    ASSUME EditorTypeInv, OrderInv, EditorTypeInv',
           UNCHANGED <<disk, cache, floor>>,
           clock <= clock', Fewer(down', down)
    PROVE  OrderInv'
<1>1. PICK h \in [DOMAIN down' -> DOMAIN down] :
        /\ \A m, n \in DOMAIN down' : m < n => h[m] < h[n]
        /\ \A n \in DOMAIN down' :
             /\ down'[n].to.op = down[h[n]].to.op
             /\ down'[n].to.path = down[h[n]].to.path
             /\ down'[n].file = down[h[n]].file
             /\ down'[n].ok = down[h[n]].ok
  BY DEF Fewer
<1>2. \A n \in DOMAIN down' : \A f \in Files :
        /\ Read(down'[n], f) <=> Read(down[h[n]], f)
        /\ Wrote(down'[n], f) <=> Wrote(down[h[n]], f)
  BY <1>1 DEF Read, Wrote
<1>3. clock \in Nat /\ clock' \in Nat
  BY TextFacts DEF EditorTypeInv
<1>4. Dated'
  BY <1>3, Times DEF OrderInv, Dated
<1>5. ReadsDated'
  BY <1>1, <1>2, <1>3, Times DEF OrderInv, ReadsDated
<1>6. WritesDated'
  BY <1>1, <1>2, <1>3, Times DEF OrderInv, WritesDated
<1>7. InOrder'
  <2>1. SUFFICES ASSUME NEW f \in Files, NEW m \in DOMAIN down',
                        NEW n \in DOMAIN down', m < n, Read(down'[n], f)
                 PROVE  /\ Read(down'[m], f) =>
                             Older(down'[m].file, down'[n].file)
                        /\ Wrote(down'[m], f) =>
                             down'[m].file.mtime <= down'[n].file.mtime
    BY DEF InOrder
  <2>2. h[m] < h[n] /\ Read(down[h[n]], f)
    BY <1>1, <1>2, <2>1
  <2>3. /\ Read(down[h[m]], f) => Older(down[h[m]].file, down[h[n]].file)
        /\ Wrote(down[h[m]], f) =>
             down[h[m]].file.mtime <= down[h[n]].file.mtime
    BY <1>1, <2>2 DEF OrderInv, InOrder
  <2> QED BY <1>1, <1>2, <2>3
<1> QED BY <1>4, <1>5, <1>6, <1>7 DEF OrderInv

(* A file is written, by a save or by another program.                     *)
LEMMA OrderRewrite ==
    ASSUME EditorTypeInv, OrderInv, EditorTypeInv', NEW f \in Files, NEW t,
           Rewrite(f, t),
           UNCHANGED <<down, cache, floor>>
    PROVE  OrderInv'
<1>1. PICK v : v = [data |-> t, mtime |-> clock + 1]
  OBVIOUS
<1>2. v.mtime = clock + 1 /\ clock' = clock + 1 /\ clock \in Nat
  BY <1>1, Times DEF Rewrite
<1>3. /\ disk'[f] = v /\ \A g \in Files : g # f => disk'[g] = disk[g]
  BY <1>1 DEF Rewrite, EditorTypeInv
<1>4. Dated'
  BY <1>2, <1>3, Times DEF OrderInv, Dated, Older
<1>5. ReadsDated'
  BY <1>2, <1>3, Times DEF OrderInv, ReadsDated, Older
<1>6. WritesDated'
  BY <1>2, <1>3, Times DEF OrderInv, WritesDated
<1>7. InOrder'
  BY DEF OrderInv, InOrder
<1> QED BY <1>4, <1>5, <1>6, <1>7 DEF OrderInv

(* An answer that is sent tells what the disk holds, or of a failure.      *)
LEMMA OrderServe ==
    ASSUME EditorTypeInv, OrderInv, EditorTypeInv', ServeFile PROVE OrderInv'
<1>1. PICK r, a : Served(r, a)
  BY EditorServeFacts
<1>2. UNCHANGED <<cache, floor>> /\ down' = Append(down, a)
        /\ a \in EditorAnswers
  BY <1>1 DEF Served, fileQueries, saves
<1>3. PICK f \in Files : f = r.path /\ f = a.to.path /\ r.op = a.to.op
  BY <1>1 DEF Served, EditorRequests
<1>4. PICK k \in Nat : k = Len(down) /\ DOMAIN down = 1..k
  BY DEF EditorTypeInv
<1>5. /\ DOMAIN down' = 1..(k + 1) /\ down'[k + 1] = a
      /\ \A i \in 1..k : down'[i] = down[i]
  BY <1>2, <1>4 DEF EditorTypeInv
<1>6. clock \in Nat /\ clock' \in Nat /\ clock <= clock'
  BY <1>1, Times DEF Served
<1>7. \A g \in Files : g # f => disk'[g] = disk[g]
  BY <1>1, <1>3 DEF Served, EditorTypeInv
<1>8. \/ disk'[f] = disk[f]
      \/ disk'[f] = Absent
      \/ disk'[f].mtime = clock + 1 /\ clock' = clock + 1
  <2>1. a.file = [data |-> r.text, mtime |-> clock + 1] =>
          a.file.mtime = clock + 1
    OBVIOUS
  <2> QED BY <1>1, <1>3, <2>1 DEF Served, EditorTypeInv
<1>9. Read(a, f) =>
        /\ UNCHANGED <<disk, clock>> /\ a.file = disk[f] /\ disk[f] # Absent
  BY <1>1, <1>3 DEF Served, Read
<1>10. Wrote(a, f) => a.file.mtime = clock' /\ disk'[f] = a.file
  <2>1. a.file = [data |-> r.text, mtime |-> clock + 1] =>
          a.file.mtime = clock + 1
    OBVIOUS
  <2> QED BY <1>1, <1>3, <2>1 DEF Served, Wrote, EditorTypeInv
<1>11. \A g \in Files : (Read(a, g) => g = f) /\ (Wrote(a, g) => g = f)
  BY <1>3 DEF Read, Wrote
<1>12. Absent.mtime = 0
  BY DEF Absent
<1>13. Dated'
  BY <1>2, <1>6, <1>7, <1>8, <1>12, Times DEF OrderInv, Dated, Older
<1>14. ReadsDated'
  <2>1. SUFFICES ASSUME NEW g \in Files, NEW i \in 1..(k + 1),
                        Read(down'[i], g)
                 PROVE  /\ down'[i].file # Absent
                        /\ floor[g] <= down'[i].file.mtime
                        /\ down'[i].file.mtime <= clock'
                        /\ cache[g] # Absent
                             => Older(cache[g], down'[i].file)
                        /\ disk'[g] # Absent
                             => Older(down'[i].file, disk'[g])
    BY <1>2, <1>5 DEF ReadsDated
  <2>2. CASE i \in 1..k
    <3>1. /\ down[i].file # Absent
          /\ floor[g] <= down[i].file.mtime
          /\ down[i].file.mtime <= clock
          /\ cache[g] # Absent => Older(cache[g], down[i].file)
          /\ disk[g] # Absent => Older(down[i].file, disk[g])
      BY <1>4, <1>5, <2>1, <2>2 DEF OrderInv, ReadsDated
    <3>2. disk'[g] # Absent => Older(down[i].file, disk'[g])
      BY <1>4, <1>6, <1>7, <1>8, <2>2, <3>1, Times DEF Older
    <3> QED BY <1>4, <1>5, <1>6, <2>2, <3>1, <3>2, Times
  <2>3. CASE i = k + 1
    <3>1. /\ g = f /\ a.file = disk[g] /\ disk[g] # Absent /\ down'[i] = a
          /\ UNCHANGED <<disk, clock>>
      BY <1>5, <1>9, <1>11, <2>1, <2>3
    <3> QED BY <3>1 DEF OrderInv, Dated, Older
  <2> QED BY <1>4, <2>2, <2>3
<1>15. WritesDated'
  <2>1. SUFFICES ASSUME NEW g \in Files, NEW i \in 1..(k + 1),
                        Wrote(down'[i], g)
                 PROVE  /\ down'[i].file.mtime <= clock'
                        /\ disk'[g] # Absent =>
                             down'[i].file.mtime <= disk'[g].mtime
    BY <1>5 DEF WritesDated
  <2>2. CASE i \in 1..k
    <3>1. /\ down[i].file.mtime <= clock
          /\ disk[g] # Absent => down[i].file.mtime <= disk[g].mtime
      BY <1>4, <1>5, <2>1, <2>2 DEF OrderInv, WritesDated
    <3>2. disk'[g] # Absent => down[i].file.mtime <= disk'[g].mtime
      BY <1>4, <1>6, <1>7, <1>8, <2>2, <3>1, Times
    <3> QED BY <1>4, <1>5, <1>6, <2>2, <3>1, <3>2, Times
  <2>3. CASE i = k + 1
    BY <1>5, <1>6, <1>10, <1>11, <2>1, <2>3
  <2> QED BY <1>4, <2>2, <2>3
<1>16. InOrder'
  <2>1. SUFFICES ASSUME NEW g \in Files, NEW i \in 1..(k + 1),
                        NEW j \in 1..(k + 1), i < j, Read(down'[j], g)
                 PROVE  /\ Read(down'[i], g) =>
                             Older(down'[i].file, down'[j].file)
                        /\ Wrote(down'[i], g) =>
                             down'[i].file.mtime <= down'[j].file.mtime
    BY <1>5 DEF InOrder
  <2>2. i \in 1..k /\ down'[i] = down[i]
    BY <1>4, <1>5, <2>1
  <2>3. CASE j \in 1..k
    BY <1>4, <1>5, <2>1, <2>2, <2>3 DEF OrderInv, InOrder
  <2>4. CASE j = k + 1
    <3>1. /\ g = f /\ down'[j] = a /\ a.file = disk[g] /\ disk[g] # Absent
      BY <1>5, <1>9, <1>11, <2>1, <2>4
    <3> QED BY <1>4, <2>2, <3>1 DEF OrderInv, ReadsDated, WritesDated
  <2> QED BY <1>4, <2>3, <2>4
<1> QED BY <1>13, <1>14, <1>15, <1>16 DEF OrderInv

(* What comes after the answer taken.                                      *)
LEMMA OrderHead ==
    ASSUME EditorTypeInv, OrderInv, down # <<>>, EditorRest(down', down),
           EditorTypeInv'
    PROVE  /\ Fewer(down', down) /\ clock \in Nat
           /\ \A f \in Files : \A n \in DOMAIN down' :
                Read(down'[n], f) =>
                  /\ Read(Head(down), f) =>
                       Older(Head(down).file, down'[n].file)
                  /\ Wrote(Head(down), f) =>
                       Head(down).file.mtime <= down'[n].file.mtime
<1>1. PICK h \in [DOMAIN down' -> 2..Len(down)] :
        /\ \A m, n \in DOMAIN down' : m < n => h[m] < h[n]
        /\ \A n \in DOMAIN down' : down'[n] = down[h[n]]
  BY DEF EditorRest
<1>2. DOMAIN down = 1..Len(down) /\ Len(down) \in Nat
        /\ down \in Seq(EditorAnswers)
  BY DEF EditorTypeInv
<1>3. Head(down) = down[1] /\ 1 \in DOMAIN down
  BY HeadFacts
<1>4. \A n \in DOMAIN down' : h[n] \in DOMAIN down /\ 1 < h[n]
  BY <1>1, <1>2
<1>5. Fewer(down', down)
  BY <1>2, RestFewer
<1> QED BY <1>1, <1>3, <1>4, <1>5, Times DEF OrderInv, InOrder

LEMMA OrderRead ==
    ASSUME EditorTypeInv, OrderInv, EditorTypeInv', ReadReturns
    PROVE  OrderInv'
<1>1. PICK f \in Files : f = Head(down).to.path
  BY HeadFacts DEF ReadReturns, AnswerTo
<1>2. PICK v \in Versions : v = Head(down).file
  BY HeadFacts DEF ReadReturns, AnswerTo
<1>3. down # <<>> /\ Read(Head(down), f) /\ Head(down) = down[1]
      /\ 1 \in DOMAIN down
  BY <1>1, HeadFacts DEF ReadReturns, AnswerTo, Read
<1>4. EditorRest(down', down)
  BY <1>3, HeadFacts DEF ReadReturns
<1>5. /\ cache'[f] = v /\ \A g \in Files : g # f => cache'[g] = cache[g]
      /\ UNCHANGED <<disk, clock, floor>>
  BY <1>1, <1>2 DEF ReadReturns, EditorTypeInv, saves
<1>6. /\ v # Absent /\ v.mtime <= clock
      /\ disk[f] # Absent => Older(v, disk[f])
  BY <1>2, <1>3 DEF OrderInv, ReadsDated
<1>7. \A n \in DOMAIN down' : Read(down'[n], f)
        => Older(v, down'[n].file)
  BY <1>2, <1>3, <1>4, OrderHead
<1>8. PICK h \in [DOMAIN down' -> DOMAIN down] :
        /\ \A m, n \in DOMAIN down' : m < n => h[m] < h[n]
        /\ \A n \in DOMAIN down' :
             /\ down'[n].to.op = down[h[n]].to.op
             /\ down'[n].to.path = down[h[n]].to.path
             /\ down'[n].file = down[h[n]].file
             /\ down'[n].ok = down[h[n]].ok
  BY <1>3, <1>4, OrderHead DEF Fewer
<1>9. \A n \in DOMAIN down' : \A g \in Files :
        /\ Read(down'[n], g) <=> Read(down[h[n]], g)
        /\ Wrote(down'[n], g) <=> Wrote(down[h[n]], g)
  BY <1>8 DEF Read, Wrote
<1>10. Dated'
  BY <1>5, <1>6 DEF OrderInv, Dated
<1>11. ReadsDated'
  BY <1>5, <1>7, <1>8, <1>9 DEF OrderInv, ReadsDated
<1>12. WritesDated'
  BY <1>5, <1>8, <1>9 DEF OrderInv, WritesDated
<1>13. InOrder'
  BY <1>8, <1>9 DEF OrderInv, InOrder
<1> QED BY <1>10, <1>11, <1>12, <1>13 DEF OrderInv

LEMMA OrderSave ==
    ASSUME EditorTypeInv, OrderInv, EditorTypeInv', SaveReturns
    PROVE  OrderInv'
<1>1. PICK f \in Files : f = Head(down).to.path
  BY HeadFacts DEF SaveReturns, AnswerTo
<1>2. PICK v \in Versions : v = Head(down).file
  BY HeadFacts DEF SaveReturns, AnswerTo
<1>3. /\ down # <<>> /\ Wrote(Head(down), f) /\ Head(down) = down[1]
      /\ 1 \in DOMAIN down
  BY <1>1, HeadFacts DEF SaveReturns, AnswerTo, Wrote
<1>4. EditorRest(down', down)
  BY <1>1, InvalidateFacts DEF SaveReturns, Invalidated
<1>5. /\ floor'[f] = v.mtime /\ \A g \in Files : g # f => floor'[g] = floor[g]
      /\ UNCHANGED <<disk, clock, cache>>
  BY <1>1, <1>2 DEF SaveReturns, EditorTypeInv
<1>6. /\ v.mtime <= clock
      /\ disk[f] # Absent => v.mtime <= disk[f].mtime
  BY <1>2, <1>3 DEF OrderInv, WritesDated
<1>7. \A n \in DOMAIN down' : Read(down'[n], f)
        => v.mtime <= down'[n].file.mtime
  BY <1>2, <1>3, <1>4, OrderHead
<1>8. PICK h \in [DOMAIN down' -> DOMAIN down] :
        /\ \A m, n \in DOMAIN down' : m < n => h[m] < h[n]
        /\ \A n \in DOMAIN down' :
             /\ down'[n].to.op = down[h[n]].to.op
             /\ down'[n].to.path = down[h[n]].to.path
             /\ down'[n].file = down[h[n]].file
             /\ down'[n].ok = down[h[n]].ok
  BY <1>3, <1>4, OrderHead DEF Fewer
<1>9. \A n \in DOMAIN down' : \A g \in Files :
        /\ Read(down'[n], g) <=> Read(down[h[n]], g)
        /\ Wrote(down'[n], g) <=> Wrote(down[h[n]], g)
  BY <1>8 DEF Read, Wrote
<1>10. Dated'
  BY <1>5, <1>6 DEF OrderInv, Dated
<1>11. ReadsDated'
  BY <1>5, <1>7, <1>8, <1>9 DEF OrderInv, ReadsDated
<1>12. WritesDated'
  BY <1>5, <1>8, <1>9 DEF OrderInv, WritesDated
<1>13. InOrder'
  BY <1>8, <1>9 DEF OrderInv, InOrder
<1> QED BY <1>10, <1>11, <1>12, <1>13 DEF OrderInv

(* The steps that neither write a file nor take in what was read or saved. *)
LEMMA OrderRest ==
    ASSUME EditorTypeInv, OrderInv, EditorTypeInv',
           \/ \E f \in Files : SelectFile(f) \/ DeleteFile(f)
           \/ EditorUnmounts \/ EditorMounts \/ Type \/ Save
           \/ ReadFails \/ DeleteReturns \/ CallFails
           \/ EditorDrop \/ EditorReady \/ UNCHANGED editorVars
    PROVE  OrderInv'
<1>1. down \in Seq(EditorAnswers) /\ clock \in Nat /\ clock <= clock
  BY Times DEF EditorTypeInv
<1>2. CASE UNCHANGED <<disk, cache, floor, clock, down>>
  BY <1>1, <1>2, SameFewer, OrderFewer
<1>3. ASSUME NEW f \in Files, SelectFile(f) PROVE OrderInv'
  BY <1>2, <1>3 DEF SelectFile, saves
<1>4. CASE Save \/ \E f \in Files : DeleteFile(f)
  BY <1>2, <1>4, AskStep DEF fileQueries, saves
<1>5. CASE EditorUnmounts
  BY <1>1, <1>5, ShowFunnelFacts, RelabelledFewer, OrderFewer
     DEF EditorUnmounts, fileQueries
<1>6. CASE EditorMounts
  BY <1>2, <1>6 DEF EditorMounts, saves
<1>7. CASE Type
  <2>1. clock <= clock' /\ UNCHANGED <<disk, cache, floor, down>>
    BY <1>1, <1>7 DEF Type, wire, fileQueries, saves
  <2> QED BY <2>1, SameFewer, OrderFewer
<1>8. CASE ReadFails
  <2>1. EditorRest(down', down) /\ UNCHANGED <<disk, cache, floor, clock>>
    BY <1>8, HeadFacts DEF ReadFails, AnswerTo, saves
  <2> QED BY <1>1, <2>1, RestFewer, OrderFewer
<1>9. CASE DeleteReturns
  <2>1. PICK f \in Files : f = Head(down).to.path
    BY <1>9, HeadFacts DEF DeleteReturns, AnswerTo
  <2>2. EditorRest(down', down) /\ UNCHANGED <<disk, cache, floor, clock>>
    BY <1>9, <2>1, InvalidateFacts
       DEF DeleteReturns, Invalidated, saves
  <2> QED BY <1>1, <2>2, RestFewer, OrderFewer
<1>10. CASE CallFails
  <2>1. EditorRest(down', down) /\ UNCHANGED <<disk, cache, floor, clock>>
    BY <1>10, HeadFacts DEF CallFails, fileQueries, saves
  <2> QED BY <1>1, <2>1, RestFewer, OrderFewer
<1>11. CASE EditorDrop
  <2>1. down' = <<>> /\ UNCHANGED <<disk, cache, floor, clock>>
    BY <1>11 DEF EditorDrop, fileQueries, saves
  <2>2. DOMAIN down' = {}
    BY <2>1
  <2>3. PICK h : h = [n \in {} |-> 1]
    OBVIOUS
  <2>4. h \in [DOMAIN down' -> DOMAIN down]
    BY <2>2, <2>3
  <2>5. Fewer(down', down)
    BY <2>2, <2>4 DEF Fewer
  <2> QED BY <1>1, <2>1, <2>5, OrderFewer
<1>12. CASE EditorReady
  BY <1>2, <1>12 DEF EditorReady, saves
<1>13. CASE UNCHANGED editorVars
  BY <1>2, <1>13 DEF editorVars, wire, fileQueries, saves
<1> QED BY <1>3, <1>4, <1>5, <1>6, <1>7, <1>8, <1>9, <1>10, <1>11, <1>12,
           <1>13

LEMMA OrderStep ==
    EditorTypeInv /\ OrderInv /\ [EditorNext]_editorVars => OrderInv'
<1>1. SUFFICES ASSUME EditorTypeInv, OrderInv, [EditorNext]_editorVars
               PROVE  OrderInv'
  OBVIOUS
<1>2. EditorTypeInv'
  BY <1>1, EditorTypeStep
<1>3. ASSUME NEW f \in Files, Outside(f) PROVE OrderInv'
  BY <1>1, <1>2, <1>3, OrderRewrite
     DEF Outside, wire, fileQueries, saves
<1>4. CASE ServeFile
  BY <1>1, <1>2, <1>4, OrderServe
<1>5. CASE ReadReturns
  BY <1>1, <1>2, <1>5, OrderRead
<1>6. CASE SaveReturns
  BY <1>1, <1>2, <1>6, OrderSave
<1>7. CASE \/ \E f \in Files : SelectFile(f) \/ DeleteFile(f)
           \/ EditorUnmounts \/ EditorMounts \/ Type \/ Save
           \/ ReadFails \/ DeleteReturns \/ CallFails
           \/ EditorDrop \/ EditorReady \/ UNCHANGED editorVars
  BY <1>1, <1>2, <1>7, OrderRest
<1> QED BY <1>1, <1>3, <1>4, <1>5, <1>6, <1>7 DEF EditorNext

LEMMA OrderInit == EditorInit => OrderInv
<1>1. SUFFICES ASSUME EditorInit PROVE OrderInv
  OBVIOUS
<1>2. down = <<>> /\ clock = 0
  BY <1>1 DEF EditorInit
<1>3. DOMAIN down = {}
  BY <1>2
<1>4. \A f \in Files : /\ disk[f].mtime = 0 /\ cache[f] = Absent
                       /\ cache[f].mtime = 0 /\ floor[f] = 0
  BY <1>1 DEF EditorInit, Absent
<1>5. Dated
  BY <1>2, <1>4 DEF Dated
<1> QED BY <1>3, <1>5 DEF OrderInv, ReadsDated, WritesDated, InOrder

-----------------------------------------------------------------------------
(* What is shown.                                                          *)
LEMMA ShownStep ==
    ASSUME EditorTypeInv, OrderInv, ShownIsFresh, [EditorNext]_editorVars
    PROVE  ShownIsFresh'
<1>1. CASE /\ UNCHANGED <<mounted, ready, selected, cache, floor>>
           /\ fetching \cup failed \subseteq fetching' \cup failed'
  BY <1>1 DEF ShownIsFresh
<1>2. ASSUME NEW f \in Files, SelectFile(f) PROVE ShownIsFresh'
  <2>1. Observed(IF mounted THEN {f} ELSE {})
    <3>1. IsFiniteSet({f}) /\ IsFiniteSet({})
      BY FS_Singleton, FS_EmptySet
    <3> QED BY <1>2, <3>1, ObserveFacts DEF SelectFile
  <2> QED BY <1>2, <2>1 DEF SelectFile, Observed, ShownIsFresh
<1>3. CASE EditorMounts
  <2>1. Observed({selected} \ {NoFile})
    <3>1. IsFiniteSet({selected})
      BY FS_Singleton
    <3>2. IsFiniteSet({selected} \ {NoFile})
      BY <3>1, FS_Subset
    <3> QED BY <1>3, <3>2, ObserveFacts DEF EditorMounts, EditorTypeInv
  <2> QED BY <1>3, <2>1 DEF EditorMounts, Observed, ShownIsFresh
<1>4. CASE EditorReady
  <2>1. Observed(Active)
    BY <1>4, ActiveFacts, ObserveFacts DEF EditorReady
  <2> QED BY <1>4, <2>1, ActiveFacts
          DEF EditorReady, Observed, ShownIsFresh, view
<1>5. CASE ReadReturns
  <2>1. PICK f \in Files : f = Head(down).to.path
    BY <1>5, HeadFacts DEF ReadReturns, AnswerTo
  <2>2. Read(Head(down), f) /\ Head(down) = down[1]
          /\ 1 \in DOMAIN down
    BY <1>5, <2>1, HeadFacts DEF ReadReturns, AnswerTo, Read
  <2>3. Head(down).file # Absent /\ floor[f] <= Head(down).file.mtime
    BY <2>2 DEF OrderInv, ReadsDated
  <2>4. /\ cache'[f] = Head(down).file
        /\ \A g \in Files : g # f => cache'[g] = cache[g]
        /\ fetching' = fetching \ {f} /\ failed' = failed \ {f}
        /\ UNCHANGED <<mounted, ready, selected, floor>>
    BY <1>5, <2>1 DEF ReadReturns, EditorTypeInv, view, saves
  <2>5. PICK v \in Versions : v = Head(down).file /\ v.mtime \in Nat
    BY <2>2, Times
  <2>6. v.mtime >= floor[f]
    BY <2>3, <2>5, Times
  <2>7. SUFFICES ASSUME mounted, ready, selected # NoFile,
                        ~(selected \in fetching' \cup failed')
                 PROVE  /\ cache'[selected] # Absent
                        /\ cache'[selected].mtime >= floor[selected]
    BY <2>4 DEF ShownIsFresh
  <2>8. CASE selected = f
    BY <2>3, <2>4, <2>5, <2>6, <2>8
  <2>9. CASE selected # f
    BY <2>4, <2>7, <2>9 DEF ShownIsFresh, EditorTypeInv
  <2> QED BY <2>8, <2>9
<1>6. CASE SaveReturns
  <2>1. PICK f \in Files : f = Head(down).to.path
    BY <1>6, HeadFacts DEF SaveReturns, AnswerTo
  <2>2. Invalidated(f)
    BY <1>6, <2>1, InvalidateFacts DEF SaveReturns
  <2>3. /\ \A g \in Files : g # f => floor'[g] = floor[g]
        /\ UNCHANGED <<mounted, ready, selected, cache>>
    BY <1>6, <2>1 DEF SaveReturns, EditorTypeInv, view
  <2> QED BY <2>2, <2>3 DEF Invalidated, ShownIsFresh, EditorTypeInv
<1>7. CASE DeleteReturns
  <2>1. PICK f \in Files : f = Head(down).to.path
    BY <1>7, HeadFacts DEF DeleteReturns, AnswerTo
  <2>2. Invalidated(f)
    BY <1>7, <2>1, InvalidateFacts DEF DeleteReturns
  <2> QED BY <1>1, <1>7, <2>2
       DEF DeleteReturns, Invalidated, view, saves
<1>8. CASE ReadFails
  BY <1>1, <1>8 DEF ReadFails, view, saves
<1>9. CASE EditorUnmounts \/ EditorDrop
  BY <1>9 DEF EditorUnmounts, EditorDrop, ShownIsFresh
<1>10. CASE Save \/ \E f \in Files : DeleteFile(f)
  BY <1>1, <1>10, AskStep DEF fileQueries, view, saves
<1>11. ASSUME NEW f \in Files, Outside(f) PROVE ShownIsFresh'
  BY <1>1, <1>11 DEF Outside, fileQueries, view, saves
<1>12. CASE Type
  BY <1>1, <1>12 DEF Type, fileQueries, view, saves
<1>13. CASE ServeFile
  BY <1>1, <1>13 DEF ServeFile, fileQueries, view, saves
<1>14. CASE CallFails
  BY <1>1, <1>14 DEF CallFails, fileQueries, view, saves
<1>15. CASE UNCHANGED editorVars
  BY <1>1, <1>15 DEF editorVars, fileQueries, view, saves
<1> QED BY <1>2, <1>3, <1>4, <1>5, <1>6, <1>7, <1>8, <1>9, <1>10, <1>11,
           <1>12, <1>13, <1>14, <1>15 DEF EditorNext

LEMMA CleanStep ==
    ASSUME EditorTypeInv, OrderInv, CleanMatches, [EditorNext]_editorVars
    PROVE  CleanMatches'
<1>1. CASE UNCHANGED <<mounted, selected, cache, text, dirty, written>>
  BY <1>1 DEF CleanMatches
<1>2. ASSUME NEW f \in Files, SelectFile(f) PROVE CleanMatches'
  <2>1. f # NoFile
    BY TextFacts
  <2>2. mounted' = mounted /\ selected' = f /\ cache' = cache
    BY <1>2 DEF SelectFile
  <2>3. mounted /\ cache[f] # Absent => text' = cache[f].data
    BY <1>2, <2>1 DEF SelectFile, Load
  <2> QED BY <2>2, <2>3 DEF CleanMatches
<1>3. CASE EditorMounts
  <2>1. selected' = selected /\ cache' = cache
    BY <1>3 DEF EditorMounts
  <2>2. selected # NoFile /\ cache[selected] # Absent =>
          text' = cache[selected].data
    BY <1>3 DEF EditorMounts, Load
  <2> QED BY <2>1, <2>2 DEF CleanMatches
<1>4. CASE EditorUnmounts
  BY <1>4 DEF EditorUnmounts, CleanMatches
<1>5. CASE Type
  BY <1>5 DEF Type, CleanMatches
<1>6. CASE ReadReturns
  <2>1. PICK f \in Files : f = Head(down).to.path
    BY <1>6, HeadFacts DEF ReadReturns, AnswerTo
  <2>2. f # NoFile
    BY TextFacts
  <2>3. Read(Head(down), f) /\ Head(down) = down[1]
          /\ 1 \in DOMAIN down
    BY <1>6, <2>1, HeadFacts DEF ReadReturns, AnswerTo, Read
  <2>4. PICK v : v = Head(down).file /\ v # Absent
    BY <2>3 DEF OrderInv, ReadsDated
  <2>5. /\ cache'[f] = v /\ \A g \in Files : g # f => cache'[g] = cache[g]
        /\ UNCHANGED <<mounted, selected, written>>
        /\ IF mounted /\ f = selected /\ v # cache[f]
             THEN Load(f, v)
             ELSE UNCHANGED buffer
    BY <1>6, <2>1, <2>4 DEF ReadReturns, EditorTypeInv, view, saves
  <2>6. CASE mounted /\ f = selected /\ v # cache[f]
    BY <2>2, <2>4, <2>5, <2>6 DEF Load, CleanMatches
  <2>7. CASE ~(mounted /\ f = selected /\ v # cache[f])
    BY <2>5, <2>7 DEF CleanMatches, buffer, EditorTypeInv
  <2> QED BY <2>6, <2>7
<1>7. CASE SaveReturns
  BY <1>7 DEF SaveReturns, CleanMatches, buffer, view
<1>8. CASE ReadFails \/ DeleteReturns \/ CallFails
  BY <1>1, <1>8
     DEF ReadFails, DeleteReturns, CallFails, fileQueries, buffer,
         view, saves
<1>9. CASE EditorDrop \/ EditorReady
  BY <1>1, <1>9
     DEF EditorDrop, EditorReady, fileQueries, buffer, view, saves
<1>10. CASE Save \/ \E f \in Files : DeleteFile(f)
  BY <1>1, <1>10, AskStep DEF fileQueries, buffer, view, saves
<1>11. ASSUME NEW f \in Files, Outside(f) PROVE CleanMatches'
  BY <1>1, <1>11 DEF Outside, fileQueries, buffer, view, saves
<1>12. CASE ServeFile
  BY <1>1, <1>12 DEF ServeFile, fileQueries, buffer, view, saves
<1>13. CASE UNCHANGED editorVars
  BY <1>1, <1>13 DEF editorVars, fileQueries, buffer, view, saves
<1> QED BY <1>2, <1>3, <1>4, <1>5, <1>6, <1>7, <1>8, <1>9, <1>10, <1>11,
           <1>12, <1>13 DEF EditorNext

(* What may discard the edits of the file shown in one step.               *)
EditsKept ==
    mounted /\ dirty /\ ~dirty' /\ mounted' /\ selected' = selected =>
        \/ AnswerTo("write")
        \/ cache'[selected].mtime > cache[selected].mtime
        \/ cache[selected] = Absent

LEMMA EditsStep ==
    ASSUME EditorTypeInv, OrderInv, [EditorNext]_editorVars PROVE EditsKept
<1>1. CASE dirty' = dirty
  BY <1>1 DEF EditsKept
<1>2. ASSUME NEW f \in Files, SelectFile(f) PROVE EditsKept
  BY <1>2 DEF SelectFile, EditsKept
<1>3. CASE EditorMounts \/ EditorUnmounts
  BY <1>3 DEF EditorMounts, EditorUnmounts, EditsKept
<1>4. CASE Type
  BY <1>4 DEF Type, EditsKept
<1>5. CASE SaveReturns
  BY <1>5 DEF SaveReturns, EditsKept
<1>6. CASE ReadReturns
  <2>1. PICK f \in Files : f = Head(down).to.path
    BY <1>6, HeadFacts DEF ReadReturns, AnswerTo
  <2>2. Read(Head(down), f) /\ Head(down) = down[1]
          /\ 1 \in DOMAIN down
    BY <1>6, <2>1, HeadFacts DEF ReadReturns, AnswerTo, Read
  <2>3. PICK v : /\ v = Head(down).file /\ v.mtime \in Nat
                 /\ cache[f] # Absent => Older(cache[f], v)
    BY <2>2, Times DEF OrderInv, ReadsDated
  <2>4. CASE mounted /\ f = selected /\ v # cache[f]
    <3>1. cache'[f] = v
      BY <1>6, <2>1, <2>3 DEF ReadReturns, EditorTypeInv
    <3> QED BY <2>3, <2>4, <3>1, Times DEF Older, EditsKept
  <2>5. CASE ~(mounted /\ f = selected /\ v # cache[f])
    BY <1>1, <1>6, <2>1, <2>3, <2>5 DEF ReadReturns, buffer
  <2> QED BY <2>4, <2>5
<1>7. CASE ReadFails \/ DeleteReturns \/ CallFails
  BY <1>1, <1>7 DEF ReadFails, DeleteReturns, CallFails, buffer
<1>8. CASE EditorDrop \/ EditorReady
  BY <1>1, <1>8 DEF EditorDrop, EditorReady, buffer
<1>9. CASE Save \/ \E f \in Files : DeleteFile(f)
  BY <1>1, <1>9, AskStep DEF buffer
<1>10. ASSUME NEW f \in Files, Outside(f) PROVE EditsKept
  BY <1>1, <1>10 DEF Outside, buffer
<1>11. CASE ServeFile
  BY <1>1, <1>11 DEF ServeFile, buffer
<1>12. CASE UNCHANGED editorVars
  BY <1>1, <1>12 DEF editorVars, buffer
<1> QED BY <1>2, <1>3, <1>4, <1>5, <1>6, <1>7, <1>8, <1>9, <1>10, <1>11,
           <1>12 DEF EditorNext

EditInv == EditorTypeInv /\ OrderInv /\ CleanMatches /\ ShownIsFresh

LEMMA EditInit == EditorInit => EditInv
<1>1. EditorInit => CleanMatches /\ ShownIsFresh
  BY DEF EditorInit, CleanMatches, ShownIsFresh
<1> QED BY <1>1, EditorTypeInit, OrderInit DEF EditInv

LEMMA EditStep == EditInv /\ [EditorNext]_editorVars => EditInv'
BY EditorTypeStep, OrderStep, CleanStep, ShownStep DEF EditInv

LEMMA EditAlways == EditorSpec => []EditInv
<1>1. EditorInit => EditInv
  BY EditInit
<1> QED BY <1>1, EditStep, PTL DEF EditorSpec

(* A buffer without the modified mark holds the text last read for the     *)
(* file shown, or the last one this editor has saved.                      *)
THEOREM CleanBuffer ==
    EditorSpec => []CleanMatches
<1>1. EditInv => CleanMatches
  BY DEF EditInv
<1> QED BY <1>1, EditAlways, PTL

(* While connected, what the editor shows is no older than its own last    *)
(* answered save, or is being fetched, or its fetch has failed.            *)
THEOREM SavesAreReadBack ==
    EditorSpec => []ShownIsFresh
<1>1. EditInv => ShownIsFresh
  BY DEF EditInv
<1> QED BY <1>1, EditAlways, PTL

(* A refetch that found the file as it was leaves unsaved edits alone.     *)
THEOREM EditsOutlive ==
    EditorSpec => EditsOutliveRefetch
<1>1. EditInv /\ [EditorNext]_editorVars =>
        [mounted /\ dirty /\ ~dirty' /\ mounted' /\ selected' = selected =>
           \/ AnswerTo("write")
           \/ cache'[selected].mtime > cache[selected].mtime
           \/ cache[selected] = Absent]_editorVars
  BY EditsStep DEF EditInv, EditsKept
<1> QED BY <1>1, EditAlways, PTL DEF EditorSpec, EditsOutliveRefetch

-----------------------------------------------------------------------------
(* FileTree.                                                               *)

TreeRequests ==
    [op : {"list", "write", "mkdir", "move", "delete"},
     path : Paths, to : Paths, recursive : BOOLEAN, failures : 0..Retries]
Lists == [Names -> Kinds] \cup {NoList}
TreeAnswers == [to : TreeRequests, ok : BOOLEAN, list : Lists]

TreeTypeInv ==
    /\ disk \in [Paths -> Kinds] /\ ready \in BOOLEAN
    /\ up \in Seq(TreeRequests) /\ down \in Seq(TreeAnswers)
    /\ cache \in [Dirs -> Lists]
    /\ invalid \subseteq Dirs /\ fetching \subseteq Dirs
    /\ failed \subseteq Dirs /\ unseen \subseteq Dirs
    /\ open \subseteq Dirs /\ IsFiniteSet(open)
    /\ asked \in 0..MaxAsks /\ drops \in 0..MaxDrops

(* The expanded Nodes are mounted: TypeOK's open = StillOpen(open, cache). *)
Nested == \A d \in open : NodeMounted(d, open, cache)

(* The frames of a fetch of d.                                             *)
Asks(d) == {r \in TreeRequests : IsList(r, d)}
Tells(d) == {a \in TreeAnswers : IsList(a.to, d)}

(* A fetch in progress that no break has taken has one frame, its request  *)
(* or its answer; no other fetch has any.                                  *)
Carried(d) ==
    \/ /\ d \in fetching \ lost
       /\ \/ One(up, Asks(d)) /\ Zero(down, Tells(d))
          \/ Zero(up, Asks(d)) /\ One(down, Tells(d))
    \/ /\ d \notin fetching \ lost
       /\ Zero(up, Asks(d)) /\ Zero(down, Tells(d))

WireInv == lost \subseteq fetching /\ \A d \in Paths : Carried(d)

(* The lists a change r can make out of date.                              *)
Touched(r) ==
    IF r.op \in {"write", "mkdir"} THEN {Parent(r.path)}
                                   ELSE Affected(r)
Changes(a, d) == IsChange(a) /\ d \in Touched(a.to)

(* A list on its way is still what the directory holds, unless the answer  *)
(* to a change comes after it.                                             *)
ListedAt(i) ==
    LET d == down[i].to.path
    IN  down[i].to.op = "list" /\ down[i].ok =>
            /\ down[i].list \in [Names -> Kinds]
            /\ \/ down[i].list = List(d)
               \/ \E j \in DOMAIN down : i < j /\ Changes(down[j], d)
Listed == \A i \in DOMAIN down : ListedAt(i)

(* A cached list is what the directory holds, unless the page knows it is  *)
(* not or the answer to a change is on its way.                            *)
KnownAt(d) ==
    \/ d \in fetching \cup failed \cup unseen \cup invalid
    \/ cache[d] = NoList
    \/ cache[d] = List(d)
    \/ \E j \in DOMAIN down : Changes(down[j], d)
Known == \A d \in Dirs : KnownAt(d)

(* What the page knows to be out of date, it fetches.                      *)
Asked ==
    ready =>
        \A d \in open : d \in invalid \/ cache[d] = NoList =>
            d \in fetching \cup failed \cup unseen

ListInv == Listed /\ Known /\ Asked

(* The inductive invariant.                                                *)
TreeInv == TreeTypeInv /\ Nested /\ WireInv /\ ListInv

-----------------------------------------------------------------------------
(* Paths.                                                                  *)
PathsOK ==
    /\ Root \in Dirs /\ Dirs \subseteq Paths
    /\ Paths \subseteq Seq(Names)
    /\ \A p \in Paths \ {Root} : Front(p) \in Dirs
    /\ \A p \in Paths : Parent(p) \in Dirs
    /\ \A r \in TreeRequests : Affected(r) \subseteq Dirs
    /\ Names # {}

LEMMA PathFacts == PathsOK
<1>1. Root \in Dirs /\ Paths \subseteq Seq(Names)
  BY FileTreeAssumption
<1>2. \A p \in Paths \ {Root} : Front(p) \in Paths
  BY FileTreeAssumption
<1>3. Dirs \subseteq Paths
  BY DEF Dirs
<1>4. \A p \in Paths \ {Root} : Front(p) \in Dirs
  BY <1>2 DEF Dirs
<1>5. \A p \in Paths : Parent(p) \in Dirs
  BY <1>1, <1>4 DEF Parent
<1>6. \A r \in TreeRequests : Affected(r) \subseteq Dirs
  BY <1>5 DEF Affected, Below, TreeRequests
<1>7. Names # {}
  <2>1. PICK p \in Paths \ {Root} : Front(p) = Root
    BY <1>1 DEF Dirs
  <2>2. p \in Seq(Names) /\ p # <<>>
    BY <1>1, <2>1 DEF Root
  <2>3. Head(p) \in Names
    BY <2>2
  <2> QED BY <2>3
<1> QED BY <1>1, <1>3, <1>4, <1>5, <1>6, <1>7 DEF PathsOK

LEMMA ChildFacts ==
    ASSUME NEW d \in Seq(Names), NEW n \in Names
    PROVE  /\ Child(d, n) \in Seq(Names) /\ Child(d, n) # Root
           /\ Front(Child(d, n)) = d
           /\ Parent(Child(d, n)) = d
<1>1. /\ Child(d, n) \in Seq(Names) /\ Len(Child(d, n)) = Len(d) + 1
      /\ \A i \in 1..Len(d) : Child(d, n)[i] = d[i]
  BY DEF Child
<1>2. Child(d, n) # Root
  BY <1>1 DEF Root
<1>3. Front(Child(d, n)) = d
  <2>1. PICK c \in Seq(Names) :
          c = Child(d, n) /\ Len(c) = Len(d) + 1
            /\ \A i \in 1..Len(d) : c[i] = d[i]
    BY <1>1
  <2>2. Front(c) = d
    BY <2>1 DEF Front
  <2> QED BY <2>1, <2>2
<1> QED BY <1>1, <1>2, <1>3 DEF Parent

LEMMA PrefixOfChild ==
    ASSUME NEW p \in Seq(Names), NEW d \in Seq(Names), NEW n \in Names,
           IsPrefix(p, Child(d, n))
    PROVE  p = Child(d, n) \/ IsPrefix(p, d)
<1> PICK c : c = Child(d, n)
  OBVIOUS
<1>1. /\ c \in Seq(Names) /\ c = Child(d, n) /\ Len(c) = Len(d) + 1
      /\ \A i \in 1..Len(d) : c[i] = d[i]
  BY DEF Child
<1>2. Len(p) <= Len(c) /\ SubSeq(p, 1, Len(p)) = SubSeq(c, 1, Len(p))
  BY <1>1 DEF IsPrefix
<1>3. \A i \in 1..Len(p) : p[i] = c[i]
  BY <1>2
<1>4. CASE Len(p) = Len(c)
  <2>1. p = c
    BY <1>1, <1>3, <1>4
  <2> QED BY <1>1, <2>1
<1>5. CASE Len(p) # Len(c)
  <2>1. Len(p) <= Len(d) /\ \A i \in 1..Len(p) : p[i] = d[i]
    BY <1>1, <1>2, <1>3, <1>5
  <2>2. SubSeq(p, 1, Len(p)) = SubSeq(d, 1, Len(p))
    BY <2>1
  <2> QED BY <2>1, <2>2 DEF IsPrefix
<1> QED BY <1>4, <1>5

LEMMA SubPath ==
    ASSUME NEW d \in Seq(Names), NEW m \in 0..Len(d)
    PROVE  /\ SubSeq(d, 1, m) \in Seq(Names) /\ Len(SubSeq(d, 1, m)) = m
           /\ \A i \in 1..m : SubSeq(d, 1, m)[i] = d[i]
           /\ \A k \in 0..m : SubSeq(SubSeq(d, 1, m), 1, k) = SubSeq(d, 1, k)
<1>1. PICK e : e = SubSeq(d, 1, m)
  OBVIOUS
<1>2. e \in Seq(Names) /\ Len(e) = m /\ \A i \in 1..m : e[i] = d[i]
  BY <1>1
<1>3. \A k \in 0..m : SubSeq(e, 1, k) = SubSeq(d, 1, k)
  BY <1>1, <1>2
<1> QED BY <1>1, <1>2, <1>3

-----------------------------------------------------------------------------
(* What is mounted.                                                        *)

(* The Nodes that stay open are mounted among themselves.                  *)
LEMMA StillOpenNested ==
    ASSUME NEW opened \in SUBSET Seq(Names), NEW lists
    PROVE  \A d \in StillOpen(opened, lists) :
             NodeMounted(d, StillOpen(opened, lists), lists)
<1>1. PICK still : still = StillOpen(opened, lists)
  OBVIOUS
<1>2. SUFFICES ASSUME NEW d \in still, NEW i \in 1..Len(d)
               PROVE  /\ SubSeq(d, 1, i - 1) \in still
                      /\ lists[SubSeq(d, 1, i - 1)] # NoList
                      /\ lists[SubSeq(d, 1, i - 1)][d[i]] = "dir"
  BY <1>1 DEF NodeMounted
<1>3. d \in Seq(Names) /\ NodeMounted(d, opened, lists)
  BY <1>1 DEF StillOpen
<1>4. PICK above : above = SubSeq(d, 1, i - 1)
  OBVIOUS
<1>5. /\ above \in opened /\ lists[above] # NoList
      /\ lists[above][d[i]] = "dir"
  BY <1>3, <1>4 DEF NodeMounted
<1>6. /\ Len(above) = i - 1 /\ \A j \in 1..(i - 1) : above[j] = d[j]
      /\ \A k \in 0..(i - 1) : SubSeq(above, 1, k) = SubSeq(d, 1, k)
  <2>1. i - 1 \in 0..Len(d)
    BY <1>3
  <2> QED BY <1>3, <1>4, <2>1, SubPath
<1>7. ASSUME NEW j \in 1..Len(above)
      PROVE  /\ SubSeq(above, 1, j - 1) \in opened
             /\ lists[SubSeq(above, 1, j - 1)] # NoList
             /\ lists[SubSeq(above, 1, j - 1)][above[j]] = "dir"
  <2>1. j \in 1..Len(d) /\ j \in 1..(i - 1) /\ j - 1 \in 0..(i - 1)
    BY <1>3, <1>6
  <2>2. SubSeq(above, 1, j - 1) = SubSeq(d, 1, j - 1) /\ above[j] = d[j]
    BY <1>6, <2>1
  <2>3. /\ SubSeq(d, 1, j - 1) \in opened
        /\ lists[SubSeq(d, 1, j - 1)] # NoList
        /\ lists[SubSeq(d, 1, j - 1)][d[j]] = "dir"
    BY <1>3, <2>1 DEF NodeMounted
  <2> QED BY <2>2, <2>3
<1>8. NodeMounted(above, opened, lists)
  BY <1>7 DEF NodeMounted
<1>9. above \in still
  BY <1>1, <1>5, <1>8 DEF StillOpen
<1> QED BY <1>4, <1>5, <1>9

(* A directory that is shown can be expanded.                              *)
LEMMA OpenNested ==
    ASSUME TreeTypeInv, Nested, NEW p \in Dirs, Shown(p),
           KindShown(p) = "dir"
    PROVE  \A d \in open \cup {p} : NodeMounted(d, open \cup {p}, cache)
<1>1. PICK opened : opened = open \cup {p}
  OBVIOUS
<1>2. ASSUME NEW d \in open PROVE NodeMounted(d, opened, cache)
  BY <1>1, <1>2 DEF Nested, NodeMounted
<1>3. NodeMounted(p, opened, cache)
  <2>1. CASE p = Root
    BY <2>1 DEF NodeMounted, Root
  <2>2. CASE p # Root
    <3>1. p \in Seq(Names) /\ Len(p) \in Nat \ {0}
      <4>1. p \in Seq(Names)
        BY PathFacts DEF PathsOK, TreeTypeInv
      <4> QED BY <2>2, <4>1 DEF Root
    <3>2. PICK q : q = Front(p)
      OBVIOUS
    <3>3. /\ q \in Seq(Names) /\ Len(q) = Len(p) - 1
          /\ \A i \in 1..(Len(p) - 1) : q[i] = p[i]
          /\ \A k \in 0..(Len(p) - 1) : SubSeq(q, 1, k) = SubSeq(p, 1, k)
      <4>1. Len(p) - 1 \in 0..Len(p) /\ q = SubSeq(p, 1, Len(p) - 1)
        BY <3>1, <3>2 DEF Front
      <4> QED BY <3>1, <4>1, SubPath
    <3>4. /\ q \in open /\ cache[q] # NoList
          /\ cache[q][p[Len(p)]] = "dir"
      BY <2>2, <3>2 DEF Shown, KindShown, Last
    <3>5. NodeMounted(q, open, cache)
      BY <3>4 DEF Nested
    <3>6. SUFFICES ASSUME NEW i \in 1..Len(p)
                   PROVE  /\ SubSeq(p, 1, i - 1) \in open
                          /\ cache[SubSeq(p, 1, i - 1)] # NoList
                          /\ cache[SubSeq(p, 1, i - 1)][p[i]] = "dir"
      BY <1>1 DEF NodeMounted
    <3>7. CASE i = Len(p)
      BY <3>2, <3>4, <3>7 DEF Front
    <3>8. CASE i # Len(p)
      <4>1. /\ i \in 1..Len(q) /\ i \in 1..(Len(p) - 1)
            /\ i - 1 \in 0..(Len(p) - 1)
        BY <3>1, <3>3, <3>8
      <4>2. SubSeq(q, 1, i - 1) = SubSeq(p, 1, i - 1) /\ q[i] = p[i]
        BY <3>3, <4>1
      <4>3. /\ SubSeq(q, 1, i - 1) \in open
            /\ cache[SubSeq(q, 1, i - 1)] # NoList
            /\ cache[SubSeq(q, 1, i - 1)][q[i]] = "dir"
        BY <3>5, <4>1 DEF NodeMounted
      <4> QED BY <4>2, <4>3
    <3> QED BY <3>7, <3>8
  <2> QED BY <2>1, <2>2
<1> QED BY <1>1, <1>2, <1>3

-----------------------------------------------------------------------------
(* The frames of new fetches.                                              *)
NewFetches(ds) == SetToSeq({FetchList(d) : d \in ds})

LEMMA FetchesFacts ==
    ASSUME TreeTypeInv, NEW ds \in SUBSET Dirs, IsFiniteSet(ds)
    PROVE  /\ NewFetches(ds) \in Seq(TreeRequests)
           /\ \A d \in Paths : IF d \in ds THEN One(NewFetches(ds), Asks(d))
                                           ELSE Zero(NewFetches(ds), Asks(d))
<1>1. PICK F : F = {FetchList(d) : d \in ds}
  OBVIOUS
<1>2. Dirs \subseteq Paths /\ Retries \in Nat
  BY PathFacts, FileTreeAssumption DEF TreeTypeInv, PathsOK
<1>3. ASSUME NEW d \in ds PROVE FetchList(d) \in TreeRequests
  BY <1>2 DEF FetchList, TreeRequests
<1>4. F \subseteq TreeRequests
  BY <1>1, <1>3
<1>5. IsFiniteSet(F)
  <2>1. PICK g : g = [d \in ds |-> FetchList(d)]
    OBVIOUS
  <2>2. g \in Surjection(ds, F)
    BY <1>1, <2>1 DEF Surjection
  <2> QED BY <2>2, FS_Surjection
<1>6. PICK t : t = NewFetches(ds)
  OBVIOUS
<1>7. t = SetToSeq(F)
  BY <1>1, <1>6 DEF NewFetches
<1>8. t \in Seq(TreeRequests)
  BY <1>4, <1>5, <1>7, SetToSeqFacts
<1>9. ASSUME NEW d \in Paths, d \in ds PROVE One(t, Asks(d))
  <2>1. F \cap Asks(d) = {FetchList(d)}
    <3>1. FetchList(d) \in F \cap Asks(d)
      BY <1>1, <1>3, <1>9 DEF Asks, IsList, FetchList
    <3>2. \A x \in F \cap Asks(d) : x = FetchList(d)
      BY <1>1 DEF Asks, IsList, FetchList
    <3> QED BY <3>1, <3>2
  <2> QED BY <1>5, <1>7, <2>1, CountSetToSeq
<1>10. ASSUME NEW d \in Paths, d \notin ds PROVE Zero(t, Asks(d))
  <2>1. F \cap Asks(d) = {}
    BY <1>1, <1>10 DEF Asks, IsList, FetchList
  <2> QED BY <1>5, <1>7, <2>1, CountSetToSeq
<1> QED BY <1>6, <1>8, <1>9, <1>10

(* The effect of Observe(ds) on the wire and on the queries.               *)
Watched(ds) ==
    /\ up' \in Seq(TreeRequests)
    /\ fetching' \subseteq Dirs
    /\ fetching \subseteq fetching'
    /\ failed' \subseteq failed
    /\ failed \subseteq failed' \cup fetching'
    /\ ready' => \A d \in ds :
         cache[d] = NoList \/ d \in invalid => d \in fetching'
    /\ \A d \in Paths :
         \/ /\ d \in fetching' \ fetching
            /\ Zero(up, Asks(d)) => One(up', Asks(d))
         \/ /\ d \in fetching <=> d \in fetching'
            /\ Zero(up, Asks(d)) => Zero(up', Asks(d))
            /\ One(up, Asks(d)) => One(up', Asks(d))

LEMMA StartFacts ==
    ASSUME TreeTypeInv, NEW new \in SUBSET (Dirs \ fetching),
           IsFiniteSet(new),
           Start(new)
    PROVE  Watched({d \in Dirs : d \in new \cup fetching})
<1>1. PICK t : t = NewFetches(new)
  OBVIOUS
<1>2. /\ up' = up \o t /\ fetching' = fetching \cup new
      /\ failed' = failed \ {d \in new : cache[d] = NoList}
  BY <1>1 DEF Start, NewFetches
<1>3. /\ t \in Seq(TreeRequests)
      /\ \A d \in Paths :
           IF d \in new THEN One(t, Asks(d)) ELSE Zero(t, Asks(d))
  BY <1>1, FetchesFacts
<1>4. up \in Seq(TreeRequests) /\ fetching \subseteq Dirs
  BY DEF TreeTypeInv
<1>5. up' \in Seq(TreeRequests)
  BY <1>2, <1>3, <1>4, HasConcat
<1>6. ASSUME NEW d \in Paths, d \in new
      PROVE  /\ d \in fetching' \ fetching
             /\ Zero(up, Asks(d)) => One(up', Asks(d))
  BY <1>2, <1>3, <1>4, <1>6, CountConcat
<1>7. ASSUME NEW d \in Paths, d \notin new
      PROVE  /\ d \in fetching <=> d \in fetching'
             /\ Zero(up, Asks(d)) => Zero(up', Asks(d))
             /\ One(up, Asks(d)) => One(up', Asks(d))
  BY <1>2, <1>3, <1>4, <1>7, CountConcat
<1> QED BY <1>2, <1>4, <1>5, <1>6, <1>7 DEF Watched

LEMMA WatchedFacts ==
    ASSUME TreeTypeInv, NEW ds \in SUBSET Dirs, IsFiniteSet(ds),
           ObserveLists(ds)
    PROVE  Watched(ds)
<1>1. CASE ready'
  <2>1. PICK old \in SUBSET ds :
          Start({d \in ds \ fetching :
                   cache[d] = NoList \/ d \in invalid \cup old})
    BY <1>1 DEF ObserveLists
  <2>2. PICK new :
          new = {d \in ds \ fetching :
                   cache[d] = NoList \/ d \in invalid \cup old}
    OBVIOUS
  <2>3. Start(new) /\ new \in SUBSET (Dirs \ fetching)
    BY <2>1, <2>2
  <2>4. IsFiniteSet(new)
    BY <2>2, FS_Subset
  <2>5. Watched({d \in Dirs : d \in new \cup fetching})
    BY <2>3, <2>4, StartFacts
  <2>6. fetching' = fetching \cup new
    BY <2>3 DEF Start
  <2>7. \A d \in ds : cache[d] = NoList \/ d \in invalid
          => d \in fetching'
    BY <2>2, <2>6
  <2> QED BY <2>5, <2>7 DEF Watched
<1>2. CASE ~ready'
  <2>1. UNCHANGED <<up, fetching, failed>>
    BY <1>2 DEF ObserveLists
  <2> QED BY <1>2, <2>1 DEF Watched, TreeTypeInv
<1> QED BY <1>1, <1>2

-----------------------------------------------------------------------------
(* Every fetch in progress has its frame.                                  *)
LEMMA WireWatched ==
    ASSUME TreeTypeInv, WireInv, NEW ds, Watched(ds),
           UNCHANGED <<down, lost>>
    PROVE  WireInv'
<1>1. lost' \subseteq fetching'
  BY DEF WireInv, Watched
<1>2. ASSUME NEW d \in Paths PROVE Carried(d)'
  <2>1. Carried(d) /\ lost \subseteq fetching
    BY DEF WireInv
  <2>2. CASE /\ d \in fetching' \ fetching
             /\ Zero(up, Asks(d)) => One(up', Asks(d))
    <3>1. Zero(up, Asks(d)) /\ Zero(down, Tells(d)) /\ d \notin lost
      BY <2>1, <2>2 DEF Carried
    <3> QED BY <2>2, <3>1 DEF Carried
  <2>3. CASE /\ d \in fetching <=> d \in fetching'
             /\ Zero(up, Asks(d)) => Zero(up', Asks(d))
             /\ One(up, Asks(d)) => One(up', Asks(d))
    BY <2>1, <2>3 DEF Carried
  <2> QED BY <2>2, <2>3 DEF Watched
<1> QED BY <1>1, <1>2 DEF WireInv

LEMMA WireAsk ==
    ASSUME TreeTypeInv, WireInv, NEW r \in TreeRequests, r.op # "list",
           up' = Append(up, r),
           UNCHANGED <<down, fetching, lost>>
    PROVE  WireInv'
<1>1. ASSUME NEW d \in Paths PROVE Carried(d)'
  <2>1. r \notin Asks(d)
    BY DEF Asks, IsList
  <2>2. Gains(up', up, r, Asks(d))
    BY CountAppend DEF TreeTypeInv
  <2>3. Carried(d)
    BY DEF WireInv
  <2> QED BY <2>1, <2>2, <2>3 DEF Carried, Gains
<1> QED BY <1>1 DEF WireInv

(* The first answer is taken: what it was decides what is left of d.       *)
LEMMA TookFacts ==
    ASSUME TreeTypeInv, WireInv, down # <<>>, down' = Tail(down),
           NEW d \in Paths
    PROVE  /\ Head(down) \in TreeAnswers /\ down' \in Seq(TreeAnswers)
           /\ IsList(Head(down).to, d) =>
                /\ d \in fetching \ lost
                /\ Zero(up, Asks(d)) /\ Zero(down', Tells(d))
           /\ ~IsList(Head(down).to, d) =>
                /\ Zero(down, Tells(d)) => Zero(down', Tells(d))
                /\ One(down, Tells(d)) => One(down', Tells(d))
<1>1. Head(down) \in TreeAnswers /\ down' \in Seq(TreeAnswers)
  BY TailLeaves DEF TreeTypeInv
<1>2. IsList(Head(down).to, d) <=> Head(down) \in Tells(d)
  BY <1>1 DEF Tells
<1>3. /\ Zero(down, Tells(d)) => /\ Head(down) \notin Tells(d)
                                 /\ Zero(down', Tells(d))
      /\ One(down, Tells(d)) /\ Head(down) \notin Tells(d)
           => One(down', Tells(d))
      /\ One(down, Tells(d)) /\ Head(down) \in Tells(d)
           => Zero(down', Tells(d))
  BY CountTail DEF TreeTypeInv
<1>4. Carried(d)
  BY DEF WireInv
<1> QED BY <1>1, <1>2, <1>3, <1>4 DEF Carried

LEMMA WireTake ==
    ASSUME TreeTypeInv, WireInv, down # <<>>, down' = Tail(down),
           Head(down).to.op # "list",
           UNCHANGED <<up, fetching, lost>>
    PROVE  WireInv'
<1>1. ASSUME NEW d \in Paths PROVE Carried(d)'
  <2>1. ~IsList(Head(down).to, d)
    BY DEF IsList
  <2>2. Carried(d)
    BY DEF WireInv
  <2> QED BY <2>1, <2>2, TookFacts DEF Carried
<1> QED BY <1>1 DEF WireInv

(* What the daemon answers to r.                                           *)
TreeAnswer(r) ==
    [to |-> r, ok |-> Succeeds(r),
     list |-> IF Succeeds(r) /\ r.op = "list" THEN List(r.path) ELSE NoList]

LEMMA WireServe ==
    ASSUME TreeTypeInv, WireInv, ServeTree
    PROVE  WireInv' /\ up' \in Seq(TreeRequests)
             /\ down' \in Seq(TreeAnswers)
<1>1. PICK r : r = Head(up)
  OBVIOUS
<1>2. PICK a : a = TreeAnswer(r)
  OBVIOUS
<1>3. /\ up # <<>> /\ up' = Tail(up)
      /\ down' = Append(down, a) /\ UNCHANGED <<fetching, lost>>
  BY <1>1, <1>2 DEF ServeTree, TreeAnswer, listQueries, history
<1>4. up \in Seq(TreeRequests) /\ down \in Seq(TreeAnswers)
  BY DEF TreeTypeInv
<1>5. r \in TreeRequests /\ up' \in Seq(TreeRequests)
  BY <1>1, <1>3, <1>4, TailLeaves
<1>6. a \in TreeAnswers
  <2>1. List(r.path) \in [Names -> Kinds]
    BY DEF List, TreeTypeInv, Kinds
  <2>2. Succeeds(r) \in BOOLEAN
    BY <1>5
       DEF Succeeds, TreeRequests, IsDir, CanMove,
           CanDelete
  <2> QED BY <1>2, <1>5, <2>1, <2>2 DEF TreeAnswer, TreeAnswers, Lists
<1>7. down' \in Seq(TreeAnswers)
  BY <1>3, <1>4, <1>6, HasAppend
<1>8. ASSUME NEW d \in Paths PROVE Carried(d)'
  <2>1. Carried(d)
    BY DEF WireInv
  <2>2. r \in Asks(d) <=> a \in Tells(d)
    BY <1>2, <1>5, <1>6 DEF TreeAnswer, Asks, Tells
  <2>3. /\ Zero(up, Asks(d)) => r \notin Asks(d) /\ Zero(up', Asks(d))
        /\ One(up, Asks(d)) /\ r \notin Asks(d) => One(up', Asks(d))
        /\ One(up, Asks(d)) /\ r \in Asks(d) => Zero(up', Asks(d))
    BY <1>1, <1>3, <1>4, CountTail
  <2>4. Gains(down', down, a, Tells(d))
    BY <1>3, <1>4, <1>6, CountAppend
  <2> QED BY <1>3, <2>1, <2>2, <2>3, <2>4 DEF Carried, Gains
<1>9. lost' \subseteq fetching'
  BY <1>3 DEF WireInv
<1> QED BY <1>5, <1>7, <1>8, <1>9 DEF WireInv

LEMMA WireListReturns ==
    ASSUME TreeTypeInv, WireInv, ListReturns
    PROVE  WireInv' /\ Head(down).to.path \in fetching \ lost
<1>1. PICK p : p = Head(down).to.path
  OBVIOUS
<1>2. /\ down # <<>> /\ down' = Tail(down)
      /\ Head(down).to.op = "list"
      /\ fetching' = fetching \ {p} /\ UNCHANGED <<up, lost>>
  BY <1>1 DEF ListReturns, Answered
<1>3. p \in Paths
  <2>1. Head(down) \in TreeAnswers
    BY <1>2, TailLeaves DEF TreeTypeInv
  <2> QED BY <1>1, <2>1 DEF TreeAnswers, TreeRequests
<1>4. p \in fetching \ lost
  BY <1>1, <1>2, <1>3, TookFacts DEF IsList
<1>5. ASSUME NEW d \in Paths PROVE Carried(d)'
  <2>1. Carried(d)
    BY DEF WireInv
  <2>2. IsList(Head(down).to, d) <=> d = p
    BY <1>1, <1>2 DEF IsList
  <2> QED BY <1>2, <2>1, <2>2, TookFacts DEF Carried
<1>6. lost' \subseteq fetching'
  BY <1>2, <1>4 DEF WireInv
<1> QED BY <1>1, <1>4, <1>5, <1>6 DEF WireInv

LEMMA WireListFails ==
    ASSUME TreeTypeInv, WireInv, ListFails
    PROVE  /\ WireInv' /\ up' \in Seq(TreeRequests)
           /\ Head(down).to.path \in fetching \ lost
<1>1. PICK r : r = Head(down).to
  OBVIOUS
<1>2. /\ down # <<>> /\ down' = Tail(down) /\ r.op = "list"
      /\ UNCHANGED lost
      /\ \/ /\ r.failures < Retries /\ UNCHANGED fetching
            /\ up' = Append(up, [r EXCEPT !.failures = @ + 1])
         \/ fetching' = fetching \ {r.path} /\ UNCHANGED up
  BY <1>1 DEF ListFails, Answered, history
<1>3. r \in TreeRequests
  <2>1. Head(down) \in TreeAnswers
    BY <1>2, TailLeaves DEF TreeTypeInv
  <2> QED BY <1>1, <2>1 DEF TreeAnswers
<1>4. up \in Seq(TreeRequests) /\ Retries \in Nat /\ r.path \in Paths
  BY <1>3, FileTreeAssumption DEF TreeTypeInv, TreeRequests
<1>5. r.path \in fetching \ lost
  BY <1>1, <1>2, <1>4, TookFacts DEF IsList
<1>6. CASE /\ r.failures < Retries /\ UNCHANGED fetching
           /\ up' = Append(up, [r EXCEPT !.failures = @ + 1])
  <2>1. PICK again : again = [r EXCEPT !.failures = @ + 1]
    OBVIOUS
  <2>2. /\ again \in TreeRequests
        /\ again.op = r.op /\ again.path = r.path
    BY <1>3, <1>4, <1>6, <2>1 DEF TreeRequests
  <2>3. up' \in Seq(TreeRequests)
    BY <1>4, <1>6, <2>1, <2>2, HasAppend
  <2>4. ASSUME NEW d \in Paths PROVE Carried(d)'
    <3>1. Carried(d)
      BY DEF WireInv
    <3>2. again \in Asks(d) <=> IsList(r, d)
      BY <2>2 DEF Asks, IsList
    <3>3. Gains(up', up, again, Asks(d))
      BY <1>4, <1>6, <2>1, <2>2, CountAppend
    <3>4. /\ IsList(r, d) =>
               /\ d \in fetching \ lost
               /\ Zero(up, Asks(d)) /\ Zero(down', Tells(d))
          /\ ~IsList(r, d) =>
               /\ Zero(down, Tells(d)) => Zero(down', Tells(d))
               /\ One(down, Tells(d)) => One(down', Tells(d))
      BY <1>1, <1>2, TookFacts
    <3> QED BY <1>2, <1>6, <3>1, <3>2, <3>3, <3>4 DEF Carried, Gains
  <2> QED BY <1>1, <1>2, <1>5, <1>6, <2>3, <2>4 DEF WireInv
<1>7. CASE fetching' = fetching \ {r.path} /\ UNCHANGED up
  <2>1. ASSUME NEW d \in Paths PROVE Carried(d)'
    <3>1. Carried(d)
      BY DEF WireInv
    <3>2. IsList(r, d) <=> d = r.path
      BY <1>2 DEF IsList
    <3> QED BY <1>1, <1>2, <1>7, <3>1, <3>2, TookFacts DEF Carried
  <2>2. lost' \subseteq fetching'
    BY <1>2, <1>5, <1>7 DEF WireInv
  <2> QED BY <1>1, <1>4, <1>5, <1>7, <2>1, <2>2 DEF WireInv
<1> QED BY <1>2, <1>6, <1>7

(* What is left of the answers when the first is taken: all others, but    *)
(* perhaps lists.                                                          *)
Left ==
    \E J \in SUBSET (2..Len(down)) : \E h :
        /\ Leaves(down', down, J, h)
        /\ \A j \in 2..Len(down) : IsChange(down[j]) => j \in J

(* The effect of the answer to a change on the wire and on the queries.    *)
Refreshed ==
    /\ up' \in Seq(TreeRequests) /\ down' \in Seq(TreeAnswers) /\ Left
    /\ fetching' \subseteq Dirs /\ open \subseteq fetching'
    /\ lost' \subseteq fetching' /\ \A d \in Paths : Carried(d)'

LEMMA RefreshedFacts ==
    ASSUME TreeTypeInv, WireInv, ChangeReturns
    PROVE  Refreshed
<1>1. PICK again :
        again = {d \in open :
                   d \notin fetching \/ cache[d] # NoList}
  OBVIOUS
<1>2. PICK I :
        I = {i \in DOMAIN up :
               \A d \in again : ~IsList(up[i], d)}
  OBVIOUS
<1>3. PICK J :
        J = {j \in 2..Len(down) :
               \A d \in again : ~IsList(down[j].to, d)}
  OBVIOUS
<1>4. PICK t : t = NewFetches(again)
  OBVIOUS
<1>5. /\ up' = Keep(up, I) \o t
      /\ down' = Keep(down, J)
      /\ fetching' = fetching \cup again
  BY <1>1, <1>2, <1>3, <1>4
     DEF ChangeReturns, InvalidateLists, NewFetches
<1>6. /\ down # <<>> /\ Head(down).to.op # "list"
      /\ lost' = lost \ {d \in open : cache[d] # NoList}
  BY DEF ChangeReturns, Answered
<1>7. /\ up \in Seq(TreeRequests) /\ down \in Seq(TreeAnswers)
      /\ open \subseteq Dirs /\ fetching \subseteq Dirs
      /\ lost \subseteq fetching
  BY DEF TreeTypeInv, WireInv
<1>8. again \in SUBSET Dirs /\ IsFiniteSet(again)
  BY <1>1, <1>7, FS_Subset DEF TreeTypeInv
<1>9. /\ t \in Seq(TreeRequests)
      /\ \A d \in Paths :
           IF d \in again THEN One(t, Asks(d)) ELSE Zero(t, Asks(d))
  BY <1>4, <1>8, FetchesFacts
<1>10. PICK k \in Seq(TreeRequests) : k = Keep(up, I)
  BY <1>2, <1>7, KeepFacts
<1>11. up' \in Seq(TreeRequests)
  BY <1>5, <1>9, <1>10, HasConcat
<1>12. /\ DOMAIN down = {1} \cup 2..Len(down)
       /\ Head(down) = down[1]
  BY <1>6, <1>7, TailLeaves
<1>13. J \in SUBSET DOMAIN down /\ J \in SUBSET (2..Len(down))
  BY <1>3, <1>12
<1>14. down' \in Seq(TreeAnswers)
  BY <1>5, <1>7, <1>13, KeepFacts
<1>15. Left
  <2>1. PICK h : Leaves(down', down, J, h)
    BY <1>5, <1>7, <1>13, KeepFacts
  <2>2. \A j \in 2..Len(down) : IsChange(down[j]) => j \in J
    BY <1>3 DEF IsChange, IsList
  <2> QED BY <1>13, <2>1, <2>2 DEF Left
<1>16. lost' \subseteq fetching'
  BY <1>5, <1>6, <1>7
<1>17. ASSUME NEW d \in Paths, d \in again PROVE Carried(d)'
  <2>1. Zero(k, Asks(d))
    <3>1. \A i \in I : up[i] \notin Asks(d)
      BY <1>2, <1>17 DEF Asks
    <3> QED BY <1>2, <1>7, <1>10, <3>1, CountKeep
  <2>2. Zero(down', Tells(d))
    <3>1. \A j \in J : down[j] \notin Tells(d)
      BY <1>3, <1>17 DEF Tells
    <3> QED BY <1>5, <1>7, <1>13, <3>1, CountKeep
  <2>3. One(up', Asks(d))
    BY <1>5, <1>9, <1>10, <1>17, <2>1, CountConcat
  <2>4. d \in fetching' \ lost'
    BY <1>1, <1>5, <1>6, <1>7, <1>17
  <2> QED BY <2>2, <2>3, <2>4 DEF Carried
<1>18. ASSUME NEW d \in Paths, d \notin again PROVE Carried(d)'
  <2>1. \A i \in DOMAIN up : up[i] \in Asks(d) => i \in I
    BY <1>2, <1>18 DEF Asks, IsList
  <2>2. /\ One(up, Asks(d)) => One(k, Asks(d))
        /\ Zero(up, Asks(d)) => Zero(k, Asks(d))
    <3>1. Zero(up, Asks(d)) => \A i \in I : up[i] \notin Asks(d)
      BY <1>2 DEF Zero
    <3> QED BY <1>2, <1>7, <1>10, <2>1, <3>1, CountKeep
  <2>3. /\ One(up, Asks(d)) => One(up', Asks(d))
        /\ Zero(up, Asks(d)) => Zero(up', Asks(d))
    BY <1>5, <1>9, <1>10, <1>18, <2>2, CountConcat
  <2>4. \A j \in DOMAIN down : down[j] \in Tells(d) => j \in J
    BY <1>3, <1>6, <1>12, <1>18 DEF Tells, IsList
  <2>5. /\ One(down, Tells(d)) => One(down', Tells(d))
        /\ Zero(down, Tells(d)) => Zero(down', Tells(d))
    <3>1. Zero(down, Tells(d)) => \A j \in J : down[j] \notin Tells(d)
      BY <1>13 DEF Zero
    <3> QED BY <1>5, <1>7, <1>13, <2>4, <3>1, CountKeep
  <2>6. Carried(d)
    BY DEF WireInv
  <2>7. d \in fetching' \ lost' <=> d \in fetching \ lost
    BY <1>1, <1>5, <1>6, <1>7, <1>18
  <2> QED BY <2>3, <2>5, <2>6, <2>7 DEF Carried
<1>19. fetching' \subseteq Dirs /\ open \subseteq fetching'
  BY <1>1, <1>5, <1>7, <1>8
<1> QED BY <1>11, <1>14, <1>15, <1>16, <1>17, <1>18, <1>19 DEF Refreshed

LEMMA WireDrop ==
    ASSUME TreeTypeInv, TreeDrop
    PROVE  WireInv' /\ up' \in Seq(TreeRequests)
             /\ down' \in Seq(TreeAnswers)
<1>1. /\ up' = <<>> /\ down' = <<>>
      /\ lost' = fetching /\ UNCHANGED fetching
  BY DEF TreeDrop, listQueries
<1>2. up' \in Seq(TreeRequests) /\ down' \in Seq(TreeAnswers)
  BY <1>1
<1>3. ASSUME NEW d \in Paths PROVE Carried(d)'
  <2>1. Zero(up', Asks(d)) /\ Zero(down', Tells(d))
    BY <1>1 DEF Zero
  <2> QED BY <1>1, <2>1 DEF Carried
<1> QED BY <1>1, <1>2, <1>3 DEF WireInv

-----------------------------------------------------------------------------
(* Changes of the tree.                                                    *)

(* A change alters no list but those it touches.                           *)
LEMMA ResultTouches ==
    ASSUME TreeTypeInv, NEW r \in TreeRequests, r.op # "list",
           NEW d \in Dirs, d \notin Touched(r), NEW n \in Names,
           Child(d, n) \in Paths
    PROVE  Result(r)[Child(d, n)] = disk[Child(d, n)]
<1>1. PICK x \in Paths : x = Child(d, n)
  OBVIOUS
<1>2. /\ d \in Seq(Names) /\ r.path \in Seq(Names) /\ r.to \in Seq(Names)
      /\ r.path \in Paths /\ r.to \in Paths
  BY PathFacts DEF PathsOK, TreeTypeInv, TreeRequests
<1>3. Parent(x) = d
  BY <1>1, <1>2, ChildFacts
<1>4. disk \in [Paths -> Kinds]
  BY DEF TreeTypeInv
<1>5. CASE r.op \in {"write", "mkdir"}
  <2>1. x # r.path
    BY <1>3, <1>5 DEF Touched
  <2> QED BY <1>1, <1>2, <1>4, <1>5, <2>1 DEF Result
<1>6. ASSUME NEW p \in {r.path, r.to}, r.op \in {"move", "delete"}
      PROVE  ~IsPrefix(p, x)
  <2>1. p # x /\ ~IsPrefix(p, d)
    BY <1>3, <1>6 DEF Touched, Affected, Below
  <2> QED BY <1>1, <1>2, <2>1, PrefixOfChild
<1>7. CASE r.op = "move"
  BY <1>1, <1>6, <1>7 DEF Result, Moved
<1>8. CASE r.op = "delete"
  BY <1>1, <1>6, <1>8 DEF Result
<1> QED BY <1>5, <1>7, <1>8 DEF TreeRequests

LEMMA ServedLists ==
    ASSUME TreeTypeInv, ServeTree, NEW d \in Dirs,
           ~(/\ Succeeds(Head(up)) /\ Head(up).op # "list"
             /\ d \in Touched(Head(up)))
    PROVE  List(d)' = List(d)
<1>1. PICK r : r = Head(up)
  OBVIOUS
<1>2. r \in TreeRequests
  BY <1>1, TailLeaves DEF TreeTypeInv, ServeTree
<1>3. disk' = IF Succeeds(r) THEN Result(r) ELSE disk
  BY <1>1 DEF ServeTree
<1>4. ASSUME NEW n \in Names, Child(d, n) \in Paths
      PROVE  disk'[Child(d, n)] = disk[Child(d, n)]
  <2>1. CASE ~Succeeds(r)
    BY <1>3, <2>1
  <2>2. CASE r.op = "list"
    BY <1>3, <2>2 DEF Result
  <2>3. CASE Succeeds(r) /\ r.op # "list"
    BY <1>1, <1>2, <1>3, <1>4, <2>3, ResultTouches
  <2> QED BY <2>1, <2>2, <2>3
<1> QED BY <1>4 DEF List

LEMMA ServedDisk ==
    ASSUME TreeTypeInv, ServeTree
    PROVE  disk' \in [Paths -> Kinds]
<1>1. PICK r : r = Head(up)
  OBVIOUS
<1>2. r \in TreeRequests
  BY <1>1, TailLeaves DEF TreeTypeInv, ServeTree
<1>3. disk' = IF Succeeds(r) THEN Result(r) ELSE disk
  BY <1>1 DEF ServeTree
<1>4. disk \in [Paths -> Kinds] /\ r.path \in Paths /\ r.to \in Paths
  BY <1>2 DEF TreeTypeInv, TreeRequests
<1>5. CASE r.op \in {"write", "mkdir"}
  BY <1>3, <1>4, <1>5 DEF Result, Kinds
<1>6. CASE r.op = "move"
  <2>1. Moved(r.path, r.to) \in [Paths -> Kinds]
    BY <1>4 DEF Moved, Kinds
  <2> QED BY <1>3, <1>4, <1>6, <2>1 DEF Result
<1>7. CASE r.op = "delete"
  BY <1>3, <1>4, <1>7 DEF Result, Kinds
<1>8. CASE r.op = "list"
  BY <1>3, <1>4, <1>8 DEF Result
<1> QED BY <1>2, <1>5, <1>6, <1>7, <1>8 DEF TreeRequests

-----------------------------------------------------------------------------
(* Lists and changes that are left on the wire.                            *)
LEMMA TailLeft ==
    ASSUME TreeTypeInv, down # <<>>, down' = Tail(down)
    PROVE  Left
<1>1. PICK h : Leaves(down', down, 2..Len(down), h)
  BY TailLeaves DEF TreeTypeInv
<1> QED BY <1>1 DEF Left

LEMMA ChangeLeft ==
    ASSUME Left, NEW d, NEW j \in 2..Len(down), Changes(down[j], d)
    PROVE  \E k \in DOMAIN down' : Changes(down'[k], d)
<1>1. PICK J, h :
        /\ J \in SUBSET (2..Len(down))
        /\ Leaves(down', down, J, h)
        /\ \A i \in 2..Len(down) : IsChange(down[i]) => i \in J
  BY DEF Left
<1>2. j \in J
  BY <1>1 DEF Changes
<1>3. PICK k \in DOMAIN down' : h[k] = j
  BY <1>1, <1>2 DEF Leaves
<1>4. down'[k] = down[j]
  BY <1>1, <1>3 DEF Leaves
<1> QED BY <1>4

LEMMA ListedLeft ==
    ASSUME TreeTypeInv, Listed, Left, down # <<>>,
           down' \in Seq(TreeAnswers),
           UNCHANGED disk
    PROVE  Listed'
<1>1. PICK J, h :
        /\ J \in SUBSET (2..Len(down))
        /\ Leaves(down', down, J, h)
        /\ \A j \in 2..Len(down) : IsChange(down[j]) => j \in J
  BY DEF Left
<1>2. /\ DOMAIN down = {1} \cup 2..Len(down)
      /\ DOMAIN down' \subseteq Nat
  <2>1. DOMAIN down = {1} \cup 2..Len(down)
    BY TailLeaves DEF TreeTypeInv
  <2>2. DOMAIN down' \subseteq Nat
    OBVIOUS
  <2> QED BY <2>1, <2>2
<1>3. ASSUME NEW n \in DOMAIN down' PROVE ListedAt(n)'
  <2>1. PICK i \in J : i = h[n]
    BY <1>1 DEF Leaves
  <2>2. down'[n] = down[i] /\ i \in DOMAIN down
    BY <1>1, <1>2, <2>1 DEF Leaves
  <2>3. PICK d : d = down[i].to.path
    OBVIOUS
  <2>4. SUFFICES ASSUME down[i].to.op = "list", down[i].ok
                 PROVE  /\ down[i].list \in [Names -> Kinds]
                        /\ \/ down[i].list = List(d)
                           \/ \E m \in DOMAIN down' :
                                n < m /\ Changes(down'[m], d)
    BY <2>2, <2>3 DEF ListedAt, List
  <2>5. ListedAt(i)
    BY <2>2 DEF Listed
  <2>6. ASSUME NEW j \in DOMAIN down, i < j, Changes(down[j], d)
        PROVE  \E m \in DOMAIN down' : n < m /\ Changes(down'[m], d)
    <3>1. j \in 2..Len(down) /\ IsChange(down[j])
      BY <1>1, <1>2, <2>6 DEF Changes
    <3>2. PICK m \in DOMAIN down' : h[m] = j
      BY <1>1, <3>1 DEF Leaves
    <3>3. ~(m < n) /\ m # n
      BY <1>1, <2>1, <2>6, <3>1, <3>2 DEF Leaves
    <3>4. n < m
      BY <1>2, <3>3
    <3>5. down'[m] = down[j]
      BY <1>1, <3>2 DEF Leaves
    <3> QED BY <2>6, <3>4, <3>5
  <2> QED BY <2>3, <2>4, <2>5, <2>6 DEF ListedAt
<1> QED BY <1>3 DEF Listed

LEMMA KnownLeft ==
    ASSUME TreeTypeInv, Left, down # <<>>, UNCHANGED disk,
           NEW d \in Dirs, KnownAt(d), cache'[d] = cache[d],
           d \in fetching \cup failed \cup unseen \cup invalid =>
             d \in fetching' \cup failed' \cup unseen' \cup invalid',
           Changes(Head(down), d) => d \in unseen'
    PROVE  KnownAt(d)'
<1>1. /\ DOMAIN down = {1} \cup 2..Len(down)
      /\ Head(down) = down[1]
  BY TailLeaves DEF TreeTypeInv
<1>2. List(d)' = List(d)
  BY DEF List
<1>3. ASSUME NEW j \in DOMAIN down, Changes(down[j], d)
      PROVE  \/ d \in unseen'
             \/ \E k \in DOMAIN down' : Changes(down'[k], d)
  BY <1>1, <1>3, ChangeLeft
<1> QED BY <1>2, <1>3 DEF KnownAt

(* An answer that is no list and changes no query.                         *)
LEMMA ListTake ==
    ASSUME TreeTypeInv, ListInv, down # <<>>, down' = Tail(down),
           UNCHANGED <<disk, ready, listQueries, open>>,
           unseen \subseteq unseen',
           \A d \in Dirs : Changes(Head(down), d) => d \in unseen'
    PROVE  ListInv'
<1>1. Left /\ down' \in Seq(TreeAnswers)
  BY TailLeft, TailLeaves DEF TreeTypeInv
<1>2. Listed'
  BY <1>1, ListedLeft DEF ListInv
<1>3. ASSUME NEW d \in Dirs PROVE KnownAt(d)'
  BY <1>1, KnownLeft DEF ListInv, Known, listQueries
<1>4. Asked'
  BY DEF ListInv, Asked, listQueries
<1> QED BY <1>2, <1>3, <1>4 DEF ListInv, Known

(* Lists are asked of directories that may have one.                       *)
LEMMA ListsOfDirs ==
    ASSUME TreeTypeInv, WireInv, NEW i \in DOMAIN down,
           down[i].to.op = "list"
    PROVE  down[i].to.path \in Dirs
<1>1. PICK d : d = down[i].to.path
  OBVIOUS
<1>2. down[i] \in TreeAnswers
  BY DEF TreeTypeInv
<1>3. d \in Paths /\ down[i] \in Tells(d)
  BY <1>1, <1>2 DEF TreeAnswers, TreeRequests, Tells, IsList
<1>4. ~Zero(down, Tells(d))
  BY <1>3 DEF Zero
<1> QED BY <1>1, <1>3, <1>4 DEF WireInv, Carried, TreeTypeInv

LEMMA ListServe ==
    ASSUME TreeTypeInv, WireInv, ListInv, ServeTree,
           down' \in Seq(TreeAnswers)
    PROVE  ListInv'
<1>1. PICK r : r = Head(up)
  OBVIOUS
<1>2. PICK a : a = TreeAnswer(r)
  OBVIOUS
<1>3. /\ up # <<>> /\ down' = Append(down, a)
      /\ disk' = IF Succeeds(r) THEN Result(r) ELSE disk
      /\ UNCHANGED <<ready, cache, invalid, fetching, failed,
                     open, unseen>>
  BY <1>1, <1>2 DEF ServeTree, TreeAnswer, listQueries, history
<1>4. r \in TreeRequests
  BY <1>1, <1>3, TailLeaves DEF TreeTypeInv
<1>5. PICK last \in Nat : last = Len(down) + 1
  BY DEF TreeTypeInv
<1>6. /\ DOMAIN down' = DOMAIN down \cup {last} /\ down'[last] = a
      /\ \A i \in DOMAIN down : i < last /\ down'[i] = down[i]
  BY <1>3, <1>5 DEF TreeTypeInv
<1>7. ASSUME NEW d \in Dirs
      PROVE  List(d)' = List(d) \/ Changes(a, d)
  BY <1>1, <1>2, <1>7, ServedLists DEF TreeAnswer, Changes, IsChange
<1>8. ASSUME NEW i \in DOMAIN down PROVE ListedAt(i)'
  <2>1. PICK d : d = down[i].to.path
    OBVIOUS
  <2>2. SUFFICES ASSUME down[i].to.op = "list", down[i].ok
                 PROVE  /\ down[i].list \in [Names -> Kinds]
                        /\ \/ down[i].list = List(d)'
                           \/ \E j \in DOMAIN down' :
                                i < j /\ Changes(down'[j], d)
    BY <1>6, <2>1 DEF ListedAt
  <2>3. ListedAt(i)
    BY DEF ListInv, Listed
  <2>4. CASE List(d)' = List(d)
    BY <1>6, <2>1, <2>2, <2>3, <2>4 DEF ListedAt
  <2>5. CASE Changes(a, d)
    BY <1>6, <2>1, <2>2, <2>3, <2>5 DEF ListedAt
  <2>6. d \in Dirs
    BY <2>1, <2>2, ListsOfDirs
  <2> QED BY <1>7, <2>4, <2>5, <2>6
<1>9. ListedAt(last)'
  <2>1. SUFFICES ASSUME r.op = "list", Succeeds(r)
                 PROVE  /\ List(r.path) \in [Names -> Kinds]
                        /\ List(r.path)' = List(r.path)
    BY <1>2, <1>6 DEF TreeAnswer, ListedAt
  <2>2. disk' = disk
    BY <1>3, <2>1 DEF Result
  <2>3. List(r.path) \in [Names -> Kinds]
    BY DEF List, TreeTypeInv, Kinds
  <2> QED BY <2>2, <2>3 DEF List
<1>10. Listed'
  BY <1>6, <1>8, <1>9 DEF Listed
<1>11. ASSUME NEW d \in Dirs PROVE KnownAt(d)'
  BY <1>3, <1>6, <1>7 DEF ListInv, Known, KnownAt
<1>12. Asked'
  BY <1>3 DEF ListInv, Asked
<1> QED BY <1>10, <1>11, <1>12 DEF ListInv, Known

(* Nodes appear, or the daemon is back.                                    *)
LEMMA ListWatched ==
    ASSUME TreeTypeInv, ListInv, NEW ds, Watched(ds),
           UNCHANGED <<disk, down, cache, invalid, unseen>>,
           ready' => \A d \in open' : d \in ds \/ (ready /\ d \in open)
    PROVE  ListInv'
<1>1. Listed'
  BY DEF ListInv, Listed, ListedAt, List
<1>2. ASSUME NEW d \in Dirs PROVE KnownAt(d)'
  <2>1. KnownAt(d) /\ List(d)' = List(d)
    BY DEF ListInv, Known, List
  <2> QED BY <2>1 DEF KnownAt, Watched
<1>3. Asked'
  BY DEF ListInv, Asked, Watched
<1> QED BY <1>1, <1>2, <1>3 DEF ListInv, Known

LEMMA ListListReturns ==
    ASSUME TreeTypeInv, WireInv, ListInv, ListReturns
    PROVE  /\ ListInv' /\ down' \in Seq(TreeAnswers)
           /\ cache' \in [Dirs -> Lists]
<1>1. PICK a, p : a = Head(down) /\ p = a.to.path
  OBVIOUS
<1>2. /\ down # <<>> /\ down' = Tail(down)
      /\ a.to.op = "list" /\ a.ok
      /\ cache' = [cache EXCEPT ![p] = a.list]
      /\ open' = StillOpen(open, cache')
      /\ invalid' = invalid \ {p} /\ unseen' = unseen \ {p}
      /\ fetching' = fetching \ {p} /\ failed' = failed \ {p}
      /\ UNCHANGED <<disk, ready>>
  BY <1>1 DEF ListReturns, Answered
<1>3. /\ down' \in Seq(TreeAnswers) /\ a \in TreeAnswers /\ Left
      /\ 1 \in DOMAIN down /\ a = down[1]
      /\ DOMAIN down = {1} \cup 2..Len(down)
  BY <1>1, <1>2, TailLeft, TailLeaves DEF TreeTypeInv
<1>4. p \in Dirs
  BY <1>1, <1>2, <1>3, ListsOfDirs
<1>5. /\ a.list \in [Names -> Kinds]
      /\ \/ a.list = List(p)
         \/ \E j \in DOMAIN down : 1 < j /\ Changes(down[j], p)
  BY <1>1, <1>2, <1>3 DEF ListInv, Listed, ListedAt
<1>6. cache' \in [Dirs -> Lists]
  BY <1>2, <1>4, <1>5 DEF TreeTypeInv, Lists
<1>7. Listed'
  BY <1>2, <1>3, ListedLeft DEF ListInv
<1>8. \A d \in Dirs : ~Changes(a, d)
  BY <1>2 DEF Changes, IsChange
<1>9. ASSUME NEW d \in Dirs PROVE KnownAt(d)'
  <2>1. CASE d # p
    <3>1. KnownAt(d) /\ cache'[d] = cache[d]
      BY <1>2, <2>1 DEF ListInv, Known, TreeTypeInv
    <3>2. d \in fetching \cup failed \cup unseen \cup invalid =>
            d \in fetching' \cup failed' \cup unseen' \cup invalid'
      BY <1>2, <2>1
    <3> QED BY <1>1, <1>2, <1>3, <1>8, <3>1, <3>2, KnownLeft
  <2>2. CASE d = p
    <3>1. cache'[p] = a.list
      BY <1>2, <1>4 DEF TreeTypeInv
    <3>2. List(p)' = List(p)
      BY <1>2 DEF List
    <3>3. ASSUME NEW j \in DOMAIN down, 1 < j, Changes(down[j], p)
          PROVE  \E k \in DOMAIN down' : Changes(down'[k], p)
      <4>1. j \in 2..Len(down)
        BY <1>3, <3>3
      <4> QED BY <1>3, <3>3, <4>1, ChangeLeft
    <3> QED BY <1>5, <2>2, <3>1, <3>2, <3>3 DEF KnownAt
  <2> QED BY <2>1, <2>2
<1>10. Asked'
  <2>1. SUFFICES ASSUME ready, NEW d \in open',
                        d \in invalid' \/ cache'[d] = NoList
                 PROVE  d \in fetching' \cup failed' \cup unseen'
    BY <1>2 DEF Asked
  <2>2. d \in open /\ d \in Dirs
    BY <1>2 DEF StillOpen, TreeTypeInv
  <2>3. d # p
    <3>1. Names # {}
      BY PathFacts DEF PathsOK, TreeTypeInv
    <3>2. a.list # NoList
      <4>1. DOMAIN a.list = Names /\ DOMAIN NoList = {}
        BY <1>5 DEF NoList
      <4> QED BY <3>1, <4>1
    <3>3. cache'[p] = a.list
      BY <1>2, <1>4 DEF TreeTypeInv
    <3> QED BY <1>2, <2>1, <3>2, <3>3
  <2>4. cache'[d] = cache[d]
    BY <1>2, <2>2, <2>3 DEF TreeTypeInv
  <2> QED BY <1>2, <2>1, <2>2, <2>3, <2>4 DEF ListInv, Asked
<1> QED BY <1>3, <1>6, <1>7, <1>9, <1>10 DEF ListInv, Known

LEMMA ListListFails ==
    ASSUME TreeTypeInv, WireInv, ListInv, ListFails
    PROVE  ListInv' /\ down' \in Seq(TreeAnswers)
<1>1. PICK r : r = Head(down).to
  OBVIOUS
<1>2. /\ down # <<>> /\ down' = Tail(down) /\ ~Head(down).ok
      /\ \/ UNCHANGED <<fetching, failed>>
         \/ /\ fetching' = fetching \ {r.path}
            /\ failed' = failed \cup {r.path}
      /\ UNCHANGED <<disk, ready, cache, invalid, open, unseen>>
  BY <1>1 DEF ListFails, Answered, history
<1>3. Left /\ down' \in Seq(TreeAnswers)
  BY <1>2, TailLeft, TailLeaves DEF TreeTypeInv
<1>4. Listed'
  BY <1>2, <1>3, ListedLeft DEF ListInv
<1>5. fetching \cup failed \subseteq fetching' \cup failed'
  BY <1>2
<1>6. ASSUME NEW d \in Dirs PROVE KnownAt(d)'
  <2>1. ~Changes(Head(down), d)
    BY <1>2 DEF Changes, IsChange
  <2>2. KnownAt(d) /\ cache'[d] = cache[d]
    BY <1>2 DEF ListInv, Known
  <2>3. d \in fetching \cup failed \cup unseen \cup invalid =>
          d \in fetching' \cup failed' \cup unseen' \cup invalid'
    BY <1>2, <1>5
  <2> QED BY <1>2, <1>3, <2>1, <2>2, <2>3, KnownLeft
<1>7. Asked'
  BY <1>2, <1>5 DEF ListInv, Asked
<1> QED BY <1>3, <1>4, <1>6, <1>7 DEF ListInv, Known

LEMMA ListChangeReturns ==
    ASSUME TreeTypeInv, ListInv, Refreshed, ChangeReturns
    PROVE  ListInv'
<1>1. /\ down # <<>> /\ invalid' = Dirs
      /\ UNCHANGED <<disk, ready, cache, open, unseen>>
  BY DEF ChangeReturns, Answered, InvalidateLists
<1>2. Listed'
  BY <1>1, ListedLeft DEF ListInv, Refreshed
<1>3. Known'
  BY <1>1 DEF Known, KnownAt
<1>4. Asked'
  BY <1>1 DEF Asked, Refreshed
<1> QED BY <1>2, <1>3, <1>4 DEF ListInv

LEMMA ListTaken ==
    ASSUME TreeTypeInv, ListInv, NewFileReturns \/ ChangeFails
    PROVE  ListInv'
<1>1. /\ down # <<>> /\ down' = Tail(down)
      /\ UNCHANGED <<disk, ready, listQueries, open>>
  BY DEF NewFileReturns, ChangeFails, Answered
<1>2. CASE NewFileReturns
  <2>1. /\ unseen' = unseen \cup {Parent(Head(down).to.path)}
        /\ Head(down).to.op = "write"
    BY <1>2 DEF NewFileReturns, Answered
  <2>2. \A d : Changes(Head(down), d) => d \in unseen'
    BY <2>1 DEF Changes, Touched
  <2> QED BY <1>1, <2>1, <2>2, ListTake
<1>3. CASE ChangeFails
  <2>1. ~Head(down).ok /\ unseen' = unseen
    BY <1>3 DEF ChangeFails, Answered, history
  <2>2. \A d : ~Changes(Head(down), d)
    BY <2>1 DEF Changes, IsChange
  <2> QED BY <1>1, <2>1, <2>2, ListTake
<1> QED BY <1>2, <1>3

LEMMA ListDrop ==
    ASSUME TreeTypeInv, ListInv, TreeDrop
    PROVE  ListInv' /\ unseen' \subseteq Dirs
<1>1. PICK hidden :
        hidden = UNION {Affected(down[i].to) :
                          i \in {j \in DOMAIN down :
                                   IsChange(down[j])}}
  OBVIOUS
<1>2. /\ ~ready' /\ down' = <<>> /\ unseen' = unseen \cup hidden
      /\ UNCHANGED <<disk, cache, invalid, fetching, failed>>
  BY <1>1 DEF TreeDrop, listQueries
<1>3. \A j \in DOMAIN down : \A d : Changes(down[j], d) => d \in hidden
  BY <1>1 DEF Changes, Touched, Affected
<1>4. hidden \subseteq Dirs
  <2>1. \A j \in DOMAIN down : down[j].to \in TreeRequests
    <3>1. \A j \in DOMAIN down : down[j] \in TreeAnswers
      BY DEF TreeTypeInv
    <3> QED BY <3>1 DEF TreeAnswers
  <2>2. \A r \in TreeRequests : Affected(r) \subseteq Dirs
    BY PathFacts DEF PathsOK, TreeTypeInv
  <2> QED BY <1>1, <2>1, <2>2
<1>5. Listed'
  BY <1>2 DEF Listed
<1>6. ASSUME NEW d \in Dirs PROVE KnownAt(d)'
  <2>1. KnownAt(d) /\ List(d)' = List(d)
    BY <1>2 DEF ListInv, Known, List
  <2> QED BY <1>2, <1>3, <2>1 DEF KnownAt
<1>7. Asked'
  BY <1>2 DEF Asked
<1>8. unseen' \subseteq Dirs
  BY <1>2, <1>4 DEF TreeTypeInv
<1> QED BY <1>5, <1>6, <1>7, <1>8 DEF ListInv, Known

-----------------------------------------------------------------------------
(* The steps.                                                              *)
LEMMA TreeInvInit == TreeInit => TreeInv
<1>1. SUFFICES ASSUME TreeInit PROVE TreeInv
  OBVIOUS
<1>2. TreeTypeInv
  <2>1. disk \in [Paths -> Kinds]
    BY <1>1, FileTreeAssumption DEF TreeInit
  <2>2. Root \in Dirs /\ MaxAsks \in Nat /\ MaxDrops \in Nat
    BY <1>1, FileTreeAssumption, BoundsAssumption
  <2>3. open \subseteq Dirs /\ IsFiniteSet(open)
    BY <1>1, <2>2, FS_Singleton DEF TreeInit
  <2>4. cache \in [Dirs -> Lists]
    BY <1>1 DEF TreeInit, Lists
  <2>5. up \in Seq(TreeRequests) /\ down \in Seq(TreeAnswers)
    BY <1>1 DEF TreeInit
  <2>6. /\ invalid \subseteq Dirs /\ fetching \subseteq Dirs
        /\ failed \subseteq Dirs /\ unseen \subseteq Dirs
    BY <1>1 DEF TreeInit
  <2>7. asked \in 0..MaxAsks /\ drops \in 0..MaxDrops
    <3>1. asked = 0 /\ drops = 0
      BY <1>1 DEF TreeInit
    <3> QED BY <2>2, <3>1
  <2>8. ready \in BOOLEAN
    BY <1>1 DEF TreeInit
  <2> QED BY <1>1, <2>1, <2>3, <2>4, <2>5, <2>6, <2>7, <2>8 DEF TreeTypeInv
<1>3. Nested
  BY <1>1 DEF TreeInit, Nested, NodeMounted, Root
<1>4. WireInv
  BY <1>1 DEF TreeInit, WireInv, Carried, Zero
<1>5. ListInv
  <2>1. Listed
    BY <1>1 DEF TreeInit, Listed
  <2>2. Known
    BY <1>1 DEF TreeInit, Known, KnownAt
  <2>3. Asked
    BY <1>1 DEF TreeInit, Asked
  <2> QED BY <2>1, <2>2, <2>3 DEF ListInv
<1> QED BY <1>2, <1>3, <1>4, <1>5 DEF TreeInv

LEMMA StillOpenTyped ==
    ASSUME TreeTypeInv, NEW opened \in SUBSET open, NEW lists,
           open' = StillOpen(opened, lists), lists = cache'
    PROVE  open' \subseteq open /\ IsFiniteSet(open') /\ Nested'
<1>1. open' \subseteq open /\ IsFiniteSet(open')
  BY FS_Subset DEF StillOpen, TreeTypeInv
<1>2. opened \in SUBSET Seq(Names)
  BY PathFacts DEF PathsOK, TreeTypeInv
<1>3. \A d \in open' : NodeMounted(d, open', cache')
  BY <1>2, StillOpenNested
<1> QED BY <1>1, <1>3 DEF Nested, NodeMounted

LEMMA ToggleStep ==
    ASSUME TreeInv, NEW p \in Dirs, Toggle(p)
    PROVE  TreeInv'
<1>1. /\ Shown(p) /\ KindShown(p) = "dir"
      /\ UNCHANGED <<disk, ready, down, cache, invalid, unseen,
                     lost, asked, drops>>
  BY DEF Toggle, history, bounds
<1>2. TreeTypeInv /\ Nested /\ WireInv /\ ListInv
  BY DEF TreeInv
<1>3. CASE p \in open
  <2>1. /\ open' = StillOpen(open \ {p}, cache)
        /\ UNCHANGED <<up, fetching, failed>>
    BY <1>3 DEF Toggle
  <2>2. open' \subseteq open /\ IsFiniteSet(open') /\ Nested'
    BY <1>1, <1>2, <2>1, StillOpenTyped
  <2>3. TreeTypeInv'
    BY <1>1, <1>2, <2>1, <2>2 DEF TreeTypeInv
  <2>4. WireInv'
    BY <1>1, <1>2, <2>1 DEF WireInv, Carried
  <2>5. ListInv'
    BY <1>1, <1>2, <2>1, <2>2
       DEF ListInv, Listed, ListedAt, List, Known, KnownAt, Asked
  <2> QED BY <2>2, <2>3, <2>4, <2>5 DEF TreeInv
<1>4. CASE p \notin open
  <2>1. open' = open \cup {p} /\ ObserveLists({p})
    BY <1>4 DEF Toggle
  <2>2. Watched({p})
    BY <1>2, <2>1, WatchedFacts, FS_Singleton
  <2>3. IsFiniteSet(open')
    BY <1>2, <2>1, FS_AddElement DEF TreeTypeInv
  <2>4. TreeTypeInv'
    BY <1>1, <1>2, <2>1, <2>2, <2>3 DEF TreeTypeInv, Watched
  <2>5. Nested'
    <3>1. \A d \in open' : NodeMounted(d, open', cache)
      BY <1>1, <1>2, <2>1, OpenNested
    <3> QED BY <1>1, <3>1 DEF Nested, NodeMounted
  <2>6. WireInv'
    BY <1>1, <1>2, <2>2, WireWatched
  <2>7. ListInv'
    BY <1>1, <1>2, <2>1, <2>2, ListWatched
  <2> QED BY <2>4, <2>5, <2>6, <2>7 DEF TreeInv
<1> QED BY <1>3, <1>4

LEMMA TreeAskStep ==
    ASSUME TreeInv, NEW op \in {"write", "mkdir", "move", "delete"},
           NEW p \in Paths, NEW q, NEW recursive \in BOOLEAN,
           Ask(op, p, q, recursive)
    PROVE  TreeInv'
<1>1. PICK r : r = [op |-> op, path |-> p, to |-> q, recursive |-> recursive,
                    failures |-> 0]
  OBVIOUS
<1>2. /\ q \in Paths /\ asked < MaxAsks /\ asked' = asked + 1
      /\ up' = Append(up, r)
      /\ UNCHANGED <<disk, ready, down, cache, invalid,
                     fetching, failed, open, unseen, lost, drops>>
  BY <1>1 DEF Ask, listQueries, history
<1>3. TreeTypeInv /\ Nested /\ WireInv /\ ListInv
  BY DEF TreeInv
<1>4. Retries \in Nat /\ MaxAsks \in Nat
  BY <1>3, FileTreeAssumption, BoundsAssumption DEF TreeTypeInv
<1>5. r \in TreeRequests /\ r.op # "list"
  BY <1>1, <1>2, <1>4 DEF TreeRequests
<1>6. up' \in Seq(TreeRequests)
  BY <1>2, <1>3, <1>5, HasAppend DEF TreeTypeInv
<1>7. asked' \in 0..MaxAsks
  BY <1>2, <1>3, <1>4 DEF TreeTypeInv
<1>8. TreeTypeInv'
  BY <1>2, <1>3, <1>6, <1>7 DEF TreeTypeInv
<1>9. Nested'
  BY <1>2, <1>3 DEF Nested, NodeMounted
<1>10. WireInv'
  BY <1>2, <1>3, <1>5, WireAsk
<1>11. ListInv'
  BY <1>2, <1>3 DEF ListInv, Listed, ListedAt, List, Known, KnownAt, Asked
<1> QED BY <1>8, <1>9, <1>10, <1>11 DEF TreeInv

LEMMA UserStep ==
    ASSUME TreeInv,
           \/ \E d \in Dirs : \E n \in Names :
                NewFile(d, n) \/ NewDir(d, n)
           \/ \E p \in Paths :
                Delete(p) \/ \E n \in Names : Rename(p, n)
    PROVE  TreeInv'
<1>1. ASSUME NEW d \in Dirs, NEW n \in Names, NewFile(d, n)
      PROVE  TreeInv'
  BY <1>1, TreeAskStep DEF NewFile, Ask
<1>2. ASSUME NEW d \in Dirs, NEW n \in Names, NewDir(d, n)
      PROVE  TreeInv'
  BY <1>2, TreeAskStep DEF NewDir, Ask
<1>3. ASSUME NEW p \in Paths, Delete(p) PROVE TreeInv'
  BY <1>3, TreeAskStep DEF Delete
<1>4. ASSUME NEW p \in Paths, NEW n \in Names, Rename(p, n) PROVE TreeInv'
  BY <1>4, TreeAskStep DEF Rename
<1> QED BY <1>1, <1>2, <1>3, <1>4

LEMMA ServeStep ==
    ASSUME TreeInv, ServeTree
    PROVE  TreeInv'
<1>1. TreeTypeInv /\ Nested /\ WireInv /\ ListInv
  BY DEF TreeInv
<1>2. UNCHANGED <<ready, cache, invalid, fetching, failed,
                  open, unseen, asked, drops>>
  BY DEF ServeTree, listQueries, history, bounds
<1>3. WireInv' /\ up' \in Seq(TreeRequests)
        /\ down' \in Seq(TreeAnswers)
  BY <1>1, WireServe
<1>4. TreeTypeInv'
  BY <1>1, <1>2, <1>3, ServedDisk DEF TreeTypeInv
<1>5. Nested'
  BY <1>1, <1>2 DEF Nested, NodeMounted
<1>6. ListInv'
  BY <1>1, <1>3, ListServe
<1> QED BY <1>3, <1>4, <1>5, <1>6 DEF TreeInv

LEMMA AnswerStep ==
    ASSUME TreeInv, Answer
    PROVE  TreeInv'
<1>1. TreeTypeInv /\ Nested /\ WireInv /\ ListInv
  BY DEF TreeInv
<1>2. CASE ListReturns
  <2>1. /\ open' = StillOpen(open, cache')
        /\ invalid' \subseteq invalid /\ unseen' \subseteq unseen
        /\ fetching' \subseteq fetching
        /\ failed' \subseteq failed
        /\ UNCHANGED <<disk, ready, up, asked, drops>>
    BY <1>2 DEF ListReturns, bounds
  <2>2. open' \subseteq open /\ IsFiniteSet(open') /\ Nested'
    BY <1>1, <2>1, StillOpenTyped
  <2>3. WireInv'
    BY <1>1, <1>2, WireListReturns
  <2>4. ListInv' /\ down' \in Seq(TreeAnswers)
          /\ cache' \in [Dirs -> Lists]
    BY <1>1, <1>2, ListListReturns
  <2>5. TreeTypeInv'
    BY <1>1, <2>1, <2>2, <2>4 DEF TreeTypeInv
  <2> QED BY <2>2, <2>3, <2>4, <2>5 DEF TreeInv
<1>3. CASE ListFails
  <2>1. WireInv' /\ up' \in Seq(TreeRequests)
          /\ Head(down).to.path \in Dirs
    BY <1>1, <1>3, WireListFails DEF TreeTypeInv
  <2>2. ListInv' /\ down' \in Seq(TreeAnswers)
    BY <1>1, <1>3, ListListFails
  <2>3. fetching' \subseteq Dirs /\ failed' \subseteq Dirs
    BY <1>1, <1>3, <2>1 DEF ListFails, TreeTypeInv
  <2>4. UNCHANGED <<disk, ready, cache, invalid, open, unseen,
                    asked, drops>>
    BY <1>3 DEF ListFails, history, bounds
  <2>5. TreeTypeInv'
    BY <1>1, <2>1, <2>2, <2>3, <2>4 DEF TreeTypeInv
  <2>6. Nested'
    BY <1>1, <2>4 DEF Nested, NodeMounted
  <2> QED BY <2>1, <2>2, <2>5, <2>6 DEF TreeInv
<1>4. CASE ChangeReturns
  <2>1. Refreshed
    BY <1>1, <1>4, RefreshedFacts
  <2>2. /\ invalid' = Dirs /\ failed' = failed
        /\ UNCHANGED <<disk, ready, cache, open, unseen, asked,
                       drops>>
    BY <1>4 DEF ChangeReturns, InvalidateLists, bounds
  <2>3. TreeTypeInv'
    BY <1>1, <2>1, <2>2 DEF TreeTypeInv, Refreshed
  <2>4. Nested'
    BY <1>1, <2>2 DEF Nested, NodeMounted
  <2>5. WireInv'
    BY <2>1 DEF Refreshed, WireInv
  <2>6. ListInv'
    BY <1>1, <1>4, <2>1, ListChangeReturns
  <2> QED BY <2>3, <2>4, <2>5, <2>6 DEF TreeInv
<1>5. CASE NewFileReturns \/ ChangeFails
  <2>1. /\ down # <<>> /\ down' = Tail(down)
        /\ Head(down).to.op # "list"
        /\ UNCHANGED <<disk, ready, up, cache, invalid,
                       fetching, failed, open, lost, asked,
                       drops>>
    BY <1>5
       DEF NewFileReturns, ChangeFails, Answered, listQueries,
           history, bounds
  <2>2. down' \in Seq(TreeAnswers) /\ Head(down) \in TreeAnswers
    BY <1>1, <2>1, TailLeaves DEF TreeTypeInv
  <2>3. unseen' \subseteq Dirs
    <3>1. Head(down).to.path \in Paths
      BY <2>2 DEF TreeAnswers, TreeRequests
    <3>2. Parent(Head(down).to.path) \in Dirs
      BY <1>1, <3>1, PathFacts DEF PathsOK, TreeTypeInv
    <3> QED BY <1>1, <1>5, <3>2
            DEF NewFileReturns, ChangeFails, history,
                TreeTypeInv
  <2>4. TreeTypeInv'
    BY <1>1, <2>1, <2>2, <2>3 DEF TreeTypeInv
  <2>5. Nested'
    BY <1>1, <2>1 DEF Nested, NodeMounted
  <2>6. WireInv'
    BY <1>1, <2>1, WireTake
  <2>7. ListInv'
    BY <1>1, <1>5, ListTaken
  <2> QED BY <2>4, <2>5, <2>6, <2>7 DEF TreeInv
<1> QED BY <1>2, <1>3, <1>4, <1>5 DEF Answer

LEMMA ConnectionStep ==
    ASSUME TreeInv, TreeDrop \/ TreeReady
    PROVE  TreeInv'
<1>1. TreeTypeInv /\ Nested /\ WireInv /\ ListInv
  BY DEF TreeInv
<1>2. CASE TreeDrop
  <2>1. /\ ready' = FALSE
        /\ drops < MaxDrops /\ drops' = drops + 1
        /\ UNCHANGED <<disk, cache, invalid, fetching, failed,
                       open, asked>>
    BY <1>2 DEF TreeDrop, listQueries
  <2>2. WireInv' /\ up' \in Seq(TreeRequests)
          /\ down' \in Seq(TreeAnswers)
    BY <1>1, <1>2, WireDrop
  <2>3. ListInv' /\ unseen' \subseteq Dirs
    BY <1>1, <1>2, ListDrop
  <2>4. drops' \in 0..MaxDrops
    <3>1. MaxDrops \in Nat
      BY <1>1, BoundsAssumption DEF TreeTypeInv
    <3> QED BY <1>1, <2>1, <3>1 DEF TreeTypeInv
  <2>5. TreeTypeInv'
    BY <1>1, <2>1, <2>2, <2>3, <2>4 DEF TreeTypeInv
  <2>6. Nested'
    BY <1>1, <2>1 DEF Nested, NodeMounted
  <2> QED BY <2>2, <2>3, <2>5, <2>6 DEF TreeInv
<1>3. CASE TreeReady
  <2>1. /\ ready' = TRUE /\ ObserveLists(open)
        /\ UNCHANGED <<disk, down, cache, invalid, open, unseen,
                       lost, asked, drops>>
    BY <1>3 DEF TreeReady, history, bounds
  <2>2. open \in SUBSET Dirs /\ IsFiniteSet(open)
    BY <1>1 DEF TreeTypeInv
  <2>3. Watched(open)
    BY <1>1, <2>1, <2>2, WatchedFacts
  <2>4. TreeTypeInv'
    BY <1>1, <2>1, <2>3 DEF TreeTypeInv, Watched
  <2>5. Nested'
    BY <1>1, <2>1 DEF Nested, NodeMounted
  <2>6. WireInv'
    BY <1>1, <2>1, <2>3, WireWatched
  <2>7. ListInv'
    BY <1>1, <2>1, <2>3, ListWatched
  <2> QED BY <2>4, <2>5, <2>6, <2>7 DEF TreeInv
<1> QED BY <1>2, <1>3

LEMMA TreeStep == TreeInv /\ [TreeNext]_treeVars => TreeInv'
<1>1. SUFFICES ASSUME TreeInv, [TreeNext]_treeVars PROVE TreeInv'
  OBVIOUS
<1>2. CASE UNCHANGED treeVars
  <2>1. UNCHANGED <<disk, ready, up, down, cache, invalid,
                    fetching, failed, open, unseen, lost, asked,
                    drops>>
    BY <1>2 DEF treeVars, wire, listQueries, history, bounds
  <2>2. TreeTypeInv' /\ Nested'
    BY <1>1, <2>1 DEF TreeInv, TreeTypeInv, Nested, NodeMounted
  <2>3. WireInv'
    BY <1>1, <2>1 DEF TreeInv, WireInv, Carried
  <2>4. ListInv'
    BY <1>1, <2>1
       DEF TreeInv, ListInv, Listed, ListedAt, List, Known, KnownAt, Asked
  <2> QED BY <2>2, <2>3, <2>4 DEF TreeInv
<1>3. CASE TreeNext
  BY <1>1, <1>3, ToggleStep, UserStep, ServeStep, AnswerStep, ConnectionStep
     DEF TreeNext
<1> QED BY <1>1, <1>2, <1>3

LEMMA TreeInvariant ==
    TreeSpec => []TreeInv
<1>1. TreeInit => TreeInv
  BY TreeInvInit
<1> QED BY <1>1, TreeStep, PTL DEF TreeSpec

LEMMA TreeInvTypeOK == TreeInv => TreeTypeOK
<1>1. SUFFICES ASSUME TreeInv PROVE TreeTypeOK
  OBVIOUS
<1>2. TreeTypeInv /\ Nested /\ WireInv
  BY <1>1 DEF TreeInv
<1>3. ASSUME NEW i \in DOMAIN up
      PROVE  up[i].path \in Paths /\ up[i].failures \in 0..Retries
  <2>1. up[i] \in TreeRequests
    BY <1>2 DEF TreeTypeInv
  <2> QED BY <2>1 DEF TreeRequests
<1>4. ASSUME NEW i \in DOMAIN down PROVE down[i].to.path \in Paths
  <2>1. down[i] \in TreeAnswers
    BY <1>2 DEF TreeTypeInv
  <2> QED BY <2>1 DEF TreeAnswers, TreeRequests
<1>5. open = StillOpen(open, cache) /\ lost \subseteq fetching
  BY <1>2 DEF Nested, StillOpen, WireInv
<1> QED BY <1>2, <1>3, <1>4, <1>5 DEF TreeTypeOK, TreeTypeInv, Lists

(* TypeOK of FileTree is an invariant: among others, an expanded Node is   *)
(* always mounted below expanded Nodes that list it as a directory.        *)
THEOREM TreeTypeCorrect ==
    TreeSpec => []TreeTypeOK
<1>1. TreeSpec => []TreeInv
  BY TreeInvariant
<1> QED BY <1>1, TreeInvTypeOK, PTL

LEMMA TreeInvCatchesUp == TreeInv => TreeCatchesUp
<1>1. SUFFICES ASSUME TreeInv, ready,
                      \A i \in DOMAIN down : ~IsChange(down[i]),
                      NEW d \in open
               PROVE  d \in fetching \cup failed \cup unseen
                        \/ cache[d] = List(d)
  BY DEF TreeCatchesUp
<1>2. KnownAt(d) /\ Asked
  BY <1>1 DEF TreeInv, ListInv, Known, TreeTypeInv
<1> QED BY <1>1, <1>2 DEF KnownAt, Asked, Changes

(* An expanded directory shows what the daemon holds, once the answers to  *)
(* the changes have arrived and unless its list is being fetched, is in    *)
(* error or was changed unseen: onSuccess of the mutations in useFs.ts     *)
(* invalidates enough.                                                     *)
THEOREM TreeIsCurrent ==
    TreeSpec => []TreeCatchesUp
<1>1. TreeSpec => []TreeInv
  BY TreeInvariant
<1> QED BY <1>1, TreeInvCatchesUp, PTL

LEMMA TreeInvArrive == TreeInv => ListsArrive
<1>1. SUFFICES ASSUME TreeInv, NEW d \in fetching \ lost
               PROVE  OnWire(d)
  BY DEF ListsArrive
<1>2. d \in Paths /\ Carried(d)
  BY <1>1, PathFacts DEF TreeInv, TreeTypeInv, WireInv, PathsOK
<1>3. One(up, Asks(d)) \/ One(down, Tells(d))
  BY <1>1, <1>2 DEF Carried
<1> QED BY <1>3 DEF One, Asks, Tells, OnWire

(* "loading..." of FileTree.tsx ends in a list or an error: a fetch in     *)
(* progress that no break has taken has its request or its answer on the   *)
(* wire, and the inductive invariant says it has exactly one of them.      *)
THEOREM FetchesArrive ==
    TreeSpec => []ListsArrive
<1>1. TreeSpec => []TreeInv
  BY TreeInvariant
<1> QED BY <1>1, TreeInvArrive, PTL
=============================================================================
