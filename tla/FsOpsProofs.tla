----------------------------- MODULE FsOpsProofs -----------------------------
(***************************************************************************)
(* Theorems about FsOps, for every set of connections, every set of paths  *)
(* closed under prefixes and every number of requests.                     *)
(***************************************************************************)
EXTENDS FsOps, TLAPS

-----------------------------------------------------------------------------
(* Prefixes of paths, element by element.                                  *)
LEMMA PathFacts ==
    ASSUME NEW p \in Paths
    PROVE  /\ p \in Seq(STRING) /\ Len(p) \in Nat /\ DOMAIN p = 1..Len(p)
           /\ \A n \in 0..Len(p) : SubSeq(p, 1, n) \in Paths
BY FsAssumption

LEMMA PrefixIff ==
    ASSUME NEW p \in Seq(STRING), NEW q \in Seq(STRING)
    PROVE  IsPrefix(q, p) <=> /\ Len(q) <= Len(p)
                              /\ \A i \in 1..Len(q) : q[i] = p[i]
<1>1. ASSUME Len(q) <= Len(p)
      PROVE  /\ Len(SubSeq(q, 1, Len(q))) = Len(q)
             /\ Len(SubSeq(p, 1, Len(q))) = Len(q)
             /\ \A i \in 1..Len(q) : /\ SubSeq(q, 1, Len(q))[i] = q[i]
                                     /\ SubSeq(p, 1, Len(q))[i] = p[i]
             /\ SubSeq(q, 1, Len(q)) \in Seq(STRING)
             /\ SubSeq(p, 1, Len(q)) \in Seq(STRING)
  BY <1>1
<1>2. ASSUME NEW s \in Seq(STRING), NEW t \in Seq(STRING), Len(s) = Len(t),
             \A i \in 1..Len(s) : s[i] = t[i]
      PROVE  s = t
  BY <1>2
<1>3. ASSUME IsPrefix(q, p), NEW i \in 1..Len(q)
      PROVE  Len(q) <= Len(p) /\ q[i] = p[i]
  BY <1>1, <1>3 DEF IsPrefix
<1>3a. ASSUME IsPrefix(q, p) PROVE Len(q) <= Len(p)
  BY <1>3a DEF IsPrefix
<1>4. ASSUME Len(q) <= Len(p), \A i \in 1..Len(q) : q[i] = p[i]
      PROVE  IsPrefix(q, p)
  <2>1. SubSeq(q, 1, Len(q)) = SubSeq(p, 1, Len(q))
    <3>1. PICK s \in Seq(STRING) : s = SubSeq(q, 1, Len(q))
      BY <1>1, <1>4
    <3>2. PICK t \in Seq(STRING) : t = SubSeq(p, 1, Len(q))
      BY <1>1, <1>4
    <3>3. Len(s) = Len(t) /\ \A i \in 1..Len(s) : s[i] = t[i]
      BY <1>1, <1>4, <3>1, <3>2
    <3> QED BY <1>2, <3>1, <3>2, <3>3
  <2> QED BY <1>4, <2>1 DEF IsPrefix
<1> QED BY <1>3, <1>3a, <1>4

LEMMA PrefixOrder ==
    ASSUME NEW p \in Paths, NEW q \in Paths, NEW r \in Paths
    PROVE  /\ IsPrefix(p, p) /\ IsPrefix(<<>>, p)
           /\ IsPrefix(p, <<>>) => p = <<>>
           /\ IsPrefix(q, p) /\ IsPrefix(r, q) => IsPrefix(r, p)
           /\ IsPrefix(q, p) /\ IsPrefix(p, q) => p = q
           /\ IsPrefix(q, p) /\ IsPrefix(r, p) => IsPrefix(q, r) \/ IsPrefix(r, q)
<1>1. <<>> \in Seq(STRING) /\ Len(<<>>) = 0 /\ <<>> \in Paths
  BY FsAssumption
<1>2. ASSUME NEW s \in Seq(STRING), NEW t \in Seq(STRING), Len(s) = Len(t),
             \A i \in 1..Len(s) : s[i] = t[i]
      PROVE  s = t
  BY <1>2
<1>3. IsPrefix(p, p) /\ IsPrefix(<<>>, p)
  BY <1>1, PathFacts, PrefixIff
<1>4. IsPrefix(p, <<>>) => p = <<>>
  BY <1>1, <1>2, PathFacts, PrefixIff
<1>a. /\ p \in Seq(STRING) /\ q \in Seq(STRING) /\ r \in Seq(STRING)
      /\ Len(p) \in Nat /\ Len(q) \in Nat /\ Len(r) \in Nat
  BY PathFacts
<1>5. ASSUME IsPrefix(q, p), IsPrefix(r, q) PROVE IsPrefix(r, p)
  <2>1. Len(q) <= Len(p) /\ \A i \in 1..Len(q) : q[i] = p[i]
    BY <1>a, <1>5, PrefixIff
  <2>2. Len(r) <= Len(q) /\ \A i \in 1..Len(r) : r[i] = q[i]
    BY <1>a, <1>5, PrefixIff
  <2>3. Len(r) <= Len(p) /\ \A i \in 1..Len(r) : r[i] = p[i]
    BY <1>a, <2>1, <2>2
  <2> QED BY <1>a, <2>3, PrefixIff
<1>6. ASSUME IsPrefix(q, p), IsPrefix(p, q) PROVE p = q
  BY <1>2, <1>6, PathFacts, PrefixIff
<1>7. ASSUME IsPrefix(q, p), IsPrefix(r, p)
      PROVE  IsPrefix(q, r) \/ IsPrefix(r, q)
  <2>1. Len(q) <= Len(p) /\ \A i \in 1..Len(q) : q[i] = p[i]
    BY <1>a, <1>7, PrefixIff
  <2>2. Len(r) <= Len(p) /\ \A i \in 1..Len(r) : r[i] = p[i]
    BY <1>a, <1>7, PrefixIff
  <2>3. CASE Len(q) <= Len(r)
    <3>1. \A i \in 1..Len(q) : q[i] = r[i]
      BY <1>a, <2>1, <2>2, <2>3
    <3> QED BY <1>a, <2>3, <3>1, PrefixIff
  <2>4. CASE Len(r) <= Len(q)
    <3>1. \A i \in 1..Len(r) : r[i] = q[i]
      BY <1>a, <2>1, <2>2, <2>4
    <3> QED BY <1>a, <2>4, <3>1, PrefixIff
  <2> QED BY <1>a, <2>3, <2>4
<1> QED BY <1>3, <1>4, <1>5, <1>6, <1>7

(* The path above another.                                                 *)
LEMMA FrontFacts ==
    ASSUME NEW p \in Paths, p # <<>>
    PROVE  /\ Front(p) \in Paths /\ IsStrictPrefix(Front(p), p)
           /\ \A q \in Paths : IsStrictPrefix(q, p) => IsPrefix(q, Front(p))
<1>1. Len(p) \in Nat \ {0} /\ p \in Seq(STRING)
  BY PathFacts
<1>2. Front(p) \in Paths
  BY <1>1, PathFacts DEF Front
<1>3. Len(Front(p)) = Len(p) - 1 /\ \A i \in 1..(Len(p) - 1) : Front(p)[i] = p[i]
  <2>1. PICK n \in 0..Len(p) : n = Len(p) - 1
    BY <1>1
  <2>2. Len(SubSeq(p, 1, n)) = n /\ \A i \in 1..n : SubSeq(p, 1, n)[i] = p[i]
    BY <1>1
  <2> QED BY <2>1, <2>2 DEF Front
<1>4. Front(p) \in Seq(STRING)
  BY <1>2, PathFacts
<1>5. IsPrefix(Front(p), p) /\ Front(p) # p
  BY <1>1, <1>3, <1>4, PrefixIff
<1>6. ASSUME NEW q \in Paths, IsPrefix(q, p), q # p PROVE IsPrefix(q, Front(p))
  <2>1. q \in Seq(STRING) /\ Len(q) \in Nat
    BY PathFacts
  <2>2. Len(q) # Len(p)
    BY <1>1, <1>6, <2>1, PrefixIff
  <2>3. Len(q) <= Len(p) /\ \A i \in 1..Len(q) : q[i] = p[i]
    BY <1>1, <1>6, <2>1, PrefixIff
  <2>4. Len(q) <= Len(Front(p)) /\ \A i \in 1..Len(q) : q[i] = Front(p)[i]
    BY <1>1, <1>3, <2>1, <2>2, <2>3
  <2> QED BY <1>4, <2>1, <2>4, PrefixIff
<1> QED BY <1>2, <1>5, <1>6 DEF IsStrictPrefix
LEMMA ConcatFacts ==
    ASSUME NEW s \in Seq(STRING), NEW t \in Seq(STRING)
    PROVE  /\ s \o t \in Seq(STRING) /\ Len(s \o t) = Len(s) + Len(t)
           /\ \A i \in 1..Len(s) : (s \o t)[i] = s[i]
           /\ \A i \in 1..Len(t) : (s \o t)[Len(s) + i] = t[i]
<1>1. s \o t \in Seq(STRING) /\ Len(s \o t) = Len(s) + Len(t)
  OBVIOUS
<1>2. \A i \in 1..Len(s) : (s \o t)[i] = s[i]
  OBVIOUS
<1>3. ASSUME NEW i \in 1..Len(t) PROVE (s \o t)[Len(s) + i] = t[i]
  <2>1. Len(s) + i \in 1..(Len(s) + Len(t)) /\ ~(Len(s) + i <= Len(s))
        /\ (Len(s) + i) - Len(s) = i
    OBVIOUS
  <2> QED BY <2>1
<1> QED BY <1>1, <1>2, <1>3

(* A path moved from below one directory to below another, and back.       *)
IsRebase(m, p, from, to) ==
    /\ m \in Seq(STRING) /\ Len(m) = Len(to) + (Len(p) - Len(from))
    /\ Len(m) \in Nat /\ Len(p) - Len(from) \in Nat
    /\ \A i \in 1..Len(to) : m[i] = to[i]
    /\ \A i \in 1..(Len(p) - Len(from)) : m[Len(to) + i] = p[Len(from) + i]

LEMMA RebaseFacts ==
    ASSUME NEW p \in Paths, NEW from \in Paths, NEW to \in Paths,
           IsPrefix(from, p)
    PROVE  IsRebase(Rebase(p, from, to), p, from, to)
<1>1. /\ p \in Seq(STRING) /\ from \in Seq(STRING) /\ to \in Seq(STRING)
      /\ Len(p) \in Nat /\ Len(from) \in Nat /\ Len(to) \in Nat
      /\ Len(from) <= Len(p)
  BY PathFacts, PrefixIff
<1>2. PICK k \in Nat : k = Len(from)
  BY <1>1
<1>3. PICK n \in Nat : n = Len(p)
  BY <1>1
<1>4. PICK t : t = SubSeq(p, k + 1, n)
  OBVIOUS
<1>5. /\ t \in Seq(STRING) /\ Len(t) = n - k
      /\ \A i \in 1..(n - k) : t[i] = p[k + i]
  BY <1>1, <1>2, <1>3, <1>4
<1>6. PICK u : u = to \o t
  OBVIOUS
<1>7. /\ u \in Seq(STRING) /\ Len(u) = Len(to) + Len(t)
      /\ \A i \in 1..Len(to) : u[i] = to[i]
      /\ \A i \in 1..Len(t) : u[Len(to) + i] = t[i]
  BY <1>1, <1>5, <1>6, ConcatFacts
<1>8. u = Rebase(p, from, to)
  BY <1>2, <1>3, <1>4, <1>6 DEF Rebase
<1>9. n - k \in Nat /\ Len(to) + (n - k) \in Nat
  BY <1>1, <1>2, <1>3
<1>10. IsRebase(u, p, from, to)
  BY <1>1, <1>2, <1>3, <1>5, <1>7, <1>9 DEF IsRebase
<1> QED BY <1>8, <1>10

LEMMA SameSeq ==
    ASSUME NEW s \in Seq(STRING), NEW t \in Seq(STRING), Len(s) = Len(t),
           \A i \in 1..Len(s) : s[i] = t[i]
    PROVE  s = t
OBVIOUS

LEMMA RebaseBack ==
    ASSUME NEW p \in Paths, NEW from \in Paths, NEW to \in Paths,
           IsPrefix(from, p), Rebase(p, from, to) \in Paths
    PROVE  /\ IsPrefix(to, Rebase(p, from, to))
           /\ Rebase(Rebase(p, from, to), to, from) = p
<1>1. /\ p \in Seq(STRING) /\ from \in Seq(STRING) /\ to \in Seq(STRING)
      /\ Len(p) \in Nat /\ Len(from) \in Nat /\ Len(to) \in Nat
      /\ Len(from) <= Len(p) /\ \A i \in 1..Len(from) : from[i] = p[i]
  BY PathFacts, PrefixIff
<1>2. PICK m \in Paths : m = Rebase(p, from, to)
  OBVIOUS
<1>3. /\ m \in Seq(STRING) /\ Len(m) = Len(to) + (Len(p) - Len(from))
      /\ Len(m) \in Nat /\ Len(p) - Len(from) \in Nat
      /\ \A i \in 1..Len(to) : m[i] = to[i]
      /\ \A i \in 1..(Len(p) - Len(from)) : m[Len(to) + i] = p[Len(from) + i]
  <2>1. IsRebase(m, p, from, to)
    BY <1>2, RebaseFacts
  <2> QED BY <2>1 DEF IsRebase
<1>4. IsPrefix(to, m)
  <2>1. Len(to) <= Len(m) /\ \A i \in 1..Len(to) : to[i] = m[i]
    BY <1>1, <1>3
  <2> QED BY <1>1, <1>3, <2>1, PrefixIff
<1>5. PICK b : b = Rebase(m, to, from)
  OBVIOUS
<1>6. /\ b \in Seq(STRING) /\ Len(b) = Len(from) + (Len(m) - Len(to))
      /\ \A i \in 1..Len(from) : b[i] = from[i]
      /\ \A i \in 1..(Len(m) - Len(to)) : b[Len(from) + i] = m[Len(to) + i]
  <2>1. IsRebase(b, m, to, from)
    BY <1>4, <1>5, RebaseFacts
  <2> QED BY <2>1 DEF IsRebase
<1>7. Len(b) = Len(p) /\ Len(m) - Len(to) = Len(p) - Len(from)
  BY <1>1, <1>3, <1>6
<1>8. ASSUME NEW i \in 1..Len(b) PROVE b[i] = p[i]
  <2>1. CASE i \in 1..Len(from)
    BY <1>1, <1>6, <2>1
  <2>2. CASE i \notin 1..Len(from)
    <3>1. PICK k \in 1..(Len(p) - Len(from)) : i = Len(from) + k
      <4>1. i - Len(from) \in 1..(Len(p) - Len(from))
        BY <1>1, <1>7, <2>2
      <4>2. i = Len(from) + (i - Len(from))
        BY <1>1, <1>7
      <4> QED BY <4>1, <4>2
    <3>2. b[Len(from) + k] = m[Len(to) + k]
      BY <1>6, <1>7
    <3>3. m[Len(to) + k] = p[Len(from) + k]
      BY <1>3
    <3> QED BY <3>1, <3>2, <3>3
  <2> QED BY <2>1, <2>2
<1>9. b = p
  BY <1>1, <1>6, <1>7, <1>8, SameSeq
<1> QED BY <1>2, <1>4, <1>5, <1>9

LEMMA RebaseOrder ==
    ASSUME NEW p \in Paths, NEW q \in Paths, NEW from \in Paths, NEW to \in Paths,
           IsPrefix(from, q), IsStrictPrefix(q, p), Rebase(p, from, to) \in Paths
    PROVE  /\ Rebase(q, from, to) \in Paths
           /\ IsStrictPrefix(Rebase(q, from, to), Rebase(p, from, to))
<1>1. /\ p \in Seq(STRING) /\ q \in Seq(STRING)
      /\ from \in Seq(STRING) /\ to \in Seq(STRING)
      /\ Len(p) \in Nat /\ Len(q) \in Nat /\ Len(from) \in Nat /\ Len(to) \in Nat
  BY PathFacts
<1>2. /\ Len(from) <= Len(q)
      /\ Len(q) <= Len(p) /\ \A i \in 1..Len(q) : q[i] = p[i]
  BY <1>1, PrefixIff DEF IsStrictPrefix
<1>3. Len(q) # Len(p)
  BY <1>1, <1>2, SameSeq DEF IsStrictPrefix
<1>4. IsPrefix(from, p)
  BY PrefixOrder DEF IsStrictPrefix
<1>5. PICK m \in Paths : m = Rebase(p, from, to)
  OBVIOUS
<1>6. /\ m \in Seq(STRING) /\ Len(m) = Len(to) + (Len(p) - Len(from))
      /\ Len(m) \in Nat
      /\ \A i \in 1..Len(to) : m[i] = to[i]
      /\ \A i \in 1..(Len(p) - Len(from)) : m[Len(to) + i] = p[Len(from) + i]
  <2>1. IsRebase(m, p, from, to)
    BY <1>4, <1>5, RebaseFacts
  <2> QED BY <2>1 DEF IsRebase
<1>7. PICK r : r = Rebase(q, from, to)
  OBVIOUS
<1>8. /\ r \in Seq(STRING) /\ Len(r) = Len(to) + (Len(q) - Len(from))
      /\ Len(r) \in Nat
      /\ \A i \in 1..Len(to) : r[i] = to[i]
      /\ \A i \in 1..(Len(q) - Len(from)) : r[Len(to) + i] = q[Len(from) + i]
  <2>1. IsRebase(r, q, from, to)
    BY <1>7, RebaseFacts
  <2> QED BY <2>1 DEF IsRebase
<1>9. Len(r) < Len(m)
  BY <1>1, <1>2, <1>3, <1>6, <1>8
<1>10. ASSUME NEW i \in 1..Len(r) PROVE r[i] = m[i]
  <2>1. CASE i \in 1..Len(to)
    BY <1>6, <1>8, <2>1
  <2>2. CASE i \notin 1..Len(to)
    <3>1. PICK k \in 1..(Len(q) - Len(from)) : i = Len(to) + k
      <4>1. i - Len(to) \in 1..(Len(q) - Len(from))
        BY <1>1, <1>8, <2>2
      <4>2. i = Len(to) + (i - Len(to))
        BY <1>1, <1>8
      <4> QED BY <4>1, <4>2
    <3>2. Len(from) + k \in 1..Len(q) /\ k \in 1..(Len(p) - Len(from))
      BY <1>1, <1>2
    <3>3. q[Len(from) + k] = p[Len(from) + k]
      BY <1>2, <3>2
    <3>4. r[Len(to) + k] = q[Len(from) + k] /\ m[Len(to) + k] = p[Len(from) + k]
      BY <1>6, <1>8, <3>2
    <3> QED BY <3>1, <3>3, <3>4
  <2> QED BY <2>1, <2>2
<1>11. r \in Paths
  <2>1. PICK n \in 0..Len(m) : n = Len(r)
    <3>1. Len(r) \in 0..Len(m)
      BY <1>6, <1>8, <1>9
    <3> QED BY <3>1
  <2>2. PICK u : u = SubSeq(m, 1, n)
    OBVIOUS
  <2>3. u \in Seq(STRING) /\ Len(u) = n /\ \A i \in 1..n : u[i] = m[i]
    BY <1>6, <2>1, <2>2
  <2>4. u = r
    BY <1>8, <1>10, <2>1, <2>3, SameSeq
  <2>5. u \in Paths
    BY <2>2, PathFacts
  <2> QED BY <2>4, <2>5
<1>12. IsPrefix(r, m) /\ r # m
  BY <1>6, <1>8, <1>9, <1>10, PrefixIff
<1> QED BY <1>5, <1>7, <1>11, <1>12 DEF IsStrictPrefix

-----------------------------------------------------------------------------
(* Every change a handler makes to the tree leaves it a tree.              *)
Files == {File(w, n, p) : w \in Conns \cup {"init"}, n \in 0..MaxRequests,
                           p \in Paths}
Kinds == {Absent, Dir} \cup Files
Trees == {t \in [Paths -> Kinds] : WellFormed(t)}

LEMMA KindFacts ==
    /\ Absent \in Kinds /\ Dir \in Kinds /\ Absent # Dir
    /\ \A k \in Kinds : /\ k.kind \in {"absent", "dir", "file"}
                        /\ k.kind = "absent" <=> k = Absent
                        /\ k.kind = "dir" <=> k = Dir
    /\ \A w \in Conns \cup {"init"}, n \in 0..MaxRequests, p \in Paths :
          File(w, n, p) \in Kinds
<1>1. Absent.kind = "absent" /\ Dir.kind = "dir"
  BY DEF Absent, Dir
<1>2. \A w, n, p : File(w, n, p).kind = "file"
  BY DEF File
<1>3. \A k \in Kinds : k = Absent \/ k = Dir
          \/ \E w \in Conns \cup {"init"}, n \in 0..MaxRequests, p \in Paths :
                 k = File(w, n, p)
  BY DEF Kinds, Files
<1>4. Absent \in Kinds /\ Dir \in Kinds
      /\ \A w \in Conns \cup {"init"}, n \in 0..MaxRequests, p \in Paths :
            File(w, n, p) \in Kinds
  BY DEF Kinds, Files
<1> QED BY <1>1, <1>2, <1>3, <1>4

(* Contents are told apart by their writer, its request and where.         *)
LEMMA FileFacts ==
    ASSUME NEW v, NEW w, NEW m, NEW n, NEW p, NEW q
    PROVE  /\ File(v, m, p) = File(w, n, q) => v = w /\ m = n /\ p = q
           /\ File(v, m, p) # Absent /\ File(v, m, p) # Dir
<1>1. /\ File(v, m, p).kind = "file" /\ File(v, m, p).by = v
      /\ File(v, m, p).nth = m /\ File(v, m, p).at = p
      /\ File(w, n, q).by = w /\ File(w, n, q).nth = n /\ File(w, n, q).at = q
  BY DEF File
<1>2. Absent.kind = "absent" /\ Dir.kind = "dir"
  BY DEF Absent, Dir
<1> QED BY <1>1, <1>2

(* What a well-formed tree says of one path and of those above it.         *)
LEMMA TreeFacts ==
    ASSUME node \in Trees, NEW p \in Paths
    PROVE  /\ node \in [Paths -> Kinds] /\ node[<<>>] = Dir /\ <<>> \in Paths
           /\ Is(p, "absent") <=> node[p] = Absent
           /\ Is(p, "dir") <=> node[p] = Dir
           /\ \A q \in Paths :
                 IsStrictPrefix(q, p) /\ node[p] # Absent => node[q] = Dir
           /\ p # <<>> /\ HasParent(p)
                 => \A q \in Paths : IsStrictPrefix(q, p) => node[q] = Dir
<1>1. node \in [Paths -> Kinds] /\ node[<<>>] = Dir /\ <<>> \in Paths
      /\ \A r, q \in Paths :
            IsStrictPrefix(q, r) /\ node[r] # Absent => node[q] = Dir
  BY FsAssumption DEF Trees, WellFormed
<1>2. \A r \in Paths : (Is(r, "absent") <=> node[r] = Absent)
                         /\ (Is(r, "dir") <=> node[r] = Dir)
  BY <1>1, KindFacts DEF Is
<1>3. ASSUME p # <<>>, HasParent(p), NEW q \in Paths, IsStrictPrefix(q, p)
      PROVE  node[q] = Dir
  <2>1. Front(p) \in Paths /\ IsPrefix(q, Front(p))
    BY <1>3, FrontFacts
  <2>2. node[Front(p)] = Dir
    BY <1>2, <1>3, <2>1 DEF HasParent
  <2> QED BY <1>1, <2>1, <2>2, KindFacts DEF IsStrictPrefix
<1> QED BY <1>1, <1>2, <1>3

LEMMA TreePut ==
    ASSUME node \in Trees, NEW path \in Paths, path # <<>>, HasParent(path),
           ~Is(path, "dir"), NEW k \in Kinds
    PROVE  [node EXCEPT ![path] = k] \in Trees
<1> DEFINE new == [node EXCEPT ![path] = k]
<1>1. /\ node \in [Paths -> Kinds] /\ node[<<>>] = Dir /\ node[path] # Dir
      /\ \A q \in Paths : IsStrictPrefix(q, path) => node[q] = Dir
      /\ \A p, q \in Paths :
            IsStrictPrefix(q, p) /\ node[p] # Absent => node[q] = Dir
  BY TreeFacts
<1>2. /\ new \in [Paths -> Kinds] /\ new[path] = k
      /\ \A p \in Paths \ {path} : new[p] = node[p]
  BY <1>1
<1> HIDE DEF new
<1>3. new[<<>>] = Dir
  BY <1>1, <1>2, FsAssumption
<1>4. ASSUME NEW p \in Paths, NEW q \in Paths, IsStrictPrefix(q, p),
             new[p] # Absent
      PROVE  new[q] = Dir
  BY <1>1, <1>2, <1>4 DEF IsStrictPrefix
<1> QED BY <1>2, <1>3, <1>4 DEF Trees, WellFormed, new

LEMMA TreeMakeAll ==
    ASSUME node \in Trees, NEW path \in Paths
    PROVE  [p \in Paths |-> IF IsPrefix(p, path) THEN Dir ELSE node[p]] \in Trees
<1> DEFINE new == [p \in Paths |-> IF IsPrefix(p, path) THEN Dir ELSE node[p]]
<1>1. /\ node \in [Paths -> Kinds]
      /\ \A p, q \in Paths :
            IsStrictPrefix(q, p) /\ node[p] # Absent => node[q] = Dir
  BY TreeFacts
<1>2. /\ new \in [Paths -> Kinds]
      /\ \A p \in Paths : new[p] = IF IsPrefix(p, path) THEN Dir ELSE node[p]
  BY <1>1, KindFacts
<1> HIDE DEF new
<1>3. new[<<>>] = Dir
  BY <1>2, PrefixOrder, FsAssumption
<1>4. ASSUME NEW p \in Paths, NEW q \in Paths, IsStrictPrefix(q, p),
             new[p] # Absent
      PROVE  new[q] = Dir
  BY <1>1, <1>2, <1>4, PrefixOrder DEF IsStrictPrefix
<1> QED BY <1>2, <1>3, <1>4 DEF Trees, WellFormed, new

LEMMA TreeWithout ==
    ASSUME node \in Trees, NEW path \in Paths, path # <<>>
    PROVE  Without(path) \in Trees
<1> DEFINE new == Without(path)
<1>1. /\ node \in [Paths -> Kinds] /\ node[<<>>] = Dir
      /\ \A p, q \in Paths :
            IsStrictPrefix(q, p) /\ node[p] # Absent => node[q] = Dir
  BY TreeFacts
<1>2. /\ new \in [Paths -> Kinds]
      /\ \A p \in Paths : new[p] = IF IsPrefix(path, p) THEN Absent ELSE node[p]
  BY <1>1, KindFacts DEF Without
<1> HIDE DEF new
<1>3. new[<<>>] = Dir
  BY <1>1, <1>2, PrefixOrder, FsAssumption
<1>4. ASSUME NEW p \in Paths, NEW q \in Paths, IsStrictPrefix(q, p),
             new[p] # Absent
      PROVE  new[q] = Dir
  BY <1>1, <1>2, <1>4, PrefixOrder DEF IsStrictPrefix
<1> QED BY <1>2, <1>3, <1>4 DEF Trees, WellFormed, new

LEMMA TreeRename ==
    ASSUME node \in Trees, NEW from \in Paths, NEW to \in Paths, from # <<>>,
           MayRename(from, to)
    PROVE  Renamed(from, to) \in Trees
<1>0. SUFFICES ASSUME from # to PROVE Renamed(from, to) \in Trees
  BY DEF Renamed
<1> DEFINE new == Renamed(from, to)
<1>1. /\ node \in [Paths -> Kinds] /\ node[<<>>] = Dir
      /\ \A p, q \in Paths :
            IsStrictPrefix(q, p) /\ node[p] # Absent => node[q] = Dir
  BY TreeFacts
<1>2. /\ to # <<>> /\ ~IsPrefix(from, to)
      /\ \A q \in Paths : IsStrictPrefix(q, to) => node[q] = Dir
  BY <1>0, TreeFacts DEF MayRename, HasParent
<1>3. /\ new \in [Paths -> Kinds]
      /\ \A p \in Paths :
            /\ IsPrefix(to, p) /\ Rebase(p, to, from) \in Paths
                 => new[p] = node[Rebase(p, to, from)]
            /\ IsPrefix(to, p) /\ Rebase(p, to, from) \notin Paths
                 => new[p] = Absent
            /\ ~IsPrefix(to, p) /\ IsPrefix(from, p) => new[p] = Absent
            /\ ~IsPrefix(to, p) /\ ~IsPrefix(from, p) => new[p] = node[p]
  BY <1>0, <1>1, KindFacts DEF Renamed
<1> HIDE DEF new
<1>4. new[<<>>] = Dir
  <2>1. <<>> \in Paths /\ ~IsPrefix(to, <<>>) /\ ~IsPrefix(from, <<>>)
    BY <1>2, PrefixOrder, FsAssumption
  <2> QED BY <1>1, <1>3, <2>1
<1>5. ASSUME NEW p \in Paths, NEW q \in Paths, IsStrictPrefix(q, p),
             new[p] # Absent
      PROVE  new[q] = Dir
  <2>1. CASE IsPrefix(to, p) /\ IsPrefix(to, q)
    <3>1. Rebase(p, to, from) \in Paths /\ new[p] = node[Rebase(p, to, from)]
      BY <1>3, <1>5, <2>1
    <3>2. /\ Rebase(q, to, from) \in Paths
          /\ IsStrictPrefix(Rebase(q, to, from), Rebase(p, to, from))
      BY <1>5, <2>1, <3>1, RebaseOrder
    <3>3. node[Rebase(q, to, from)] = Dir
      BY <1>1, <1>5, <3>1, <3>2
    <3> QED BY <1>3, <2>1, <3>2, <3>3
  <2>2. CASE IsPrefix(to, p) /\ ~IsPrefix(to, q)
    <3>1. IsStrictPrefix(q, to) /\ ~IsPrefix(from, q)
      BY <1>2, <1>5, <2>2, PrefixOrder DEF IsStrictPrefix
    <3> QED BY <1>2, <1>3, <2>2, <3>1
  <2>3. CASE ~IsPrefix(to, p)
    <3>1. ~IsPrefix(from, p) /\ new[p] = node[p]
      BY <1>3, <1>5, <2>3
    <3>2. ~IsPrefix(to, q) /\ ~IsPrefix(from, q)
      BY <1>5, <2>3, <3>1, PrefixOrder DEF IsStrictPrefix
    <3> QED BY <1>1, <1>3, <1>5, <3>1, <3>2
  <2> QED BY <2>1, <2>2, <2>3
<1> QED BY <1>3, <1>4, <1>5 DEF Trees, WellFormed, new

(* There is nothing below an empty directory.                              *)
LEMMA NothingBelow ==
    ASSUME node \in Trees, NEW path \in Paths, Is(path, "dir"),
           Children(path) = {}, NEW q \in Paths, IsStrictPrefix(path, q)
    PROVE  node[q] = Absent
<1> SUFFICES ASSUME node[q] # Absent PROVE FALSE
  OBVIOUS
<1>1. node[q] # Absent /\ q # path /\ IsPrefix(path, q)
  BY DEF IsStrictPrefix
<1>2. /\ path \in Seq(STRING) /\ q \in Seq(STRING)
      /\ Len(path) \in Nat /\ Len(q) \in Nat
      /\ Len(path) <= Len(q) /\ \A i \in 1..Len(path) : path[i] = q[i]
  <2>1. path \in Seq(STRING) /\ q \in Seq(STRING)
        /\ Len(path) \in Nat /\ Len(q) \in Nat
    BY PathFacts
  <2> QED BY <1>1, <2>1, PrefixIff
<1>3. Len(path) < Len(q)
  BY <1>1, <1>2, SameSeq
<1>4. PICK n \in 0..Len(q) : n = Len(path) + 1
  <2>1. Len(path) + 1 \in 0..Len(q)
    BY <1>2, <1>3
  <2> QED BY <2>1
<1>5. PICK k \in Paths : k = SubSeq(q, 1, n)
  BY <1>4, PathFacts
<1>6. k \in Seq(STRING) /\ Len(k) = n /\ \A i \in 1..n : k[i] = q[i]
  BY <1>2, <1>4, <1>5
<1>7. IsPrefix(k, q)
  BY <1>2, <1>4, <1>6, PrefixIff
<1>8. Front(k) = path /\ k # <<>>
  <2>1. Len(k) # 0
    BY <1>2, <1>4, <1>6
  <2>2. k # <<>>
    BY <2>1
  <2>3. PICK m \in 0..Len(k) : m = Len(path)
    <3>1. Len(path) \in 0..Len(k)
      BY <1>2, <1>4, <1>6
    <3> QED BY <3>1
  <2>4. PICK u : u = SubSeq(k, 1, m)
    OBVIOUS
  <2>5. u \in Seq(STRING) /\ Len(u) = m /\ \A i \in 1..m : u[i] = k[i]
    BY <1>6, <2>3, <2>4
  <2>6. \A i \in 1..m : u[i] = path[i]
    BY <1>2, <1>4, <1>6, <2>3, <2>5
  <2>7. u = path
    BY <1>2, <2>3, <2>5, <2>6, SameSeq
  <2>8. Front(k) = u
    <3>1. Len(k) - 1 = m
      BY <1>2, <1>4, <1>6, <2>3
    <3> QED BY <2>4, <3>1 DEF Front
  <2> QED BY <2>2, <2>7, <2>8
<1>9. node[k] # Absent
  BY <1>1, <1>7, TreeFacts, KindFacts DEF IsStrictPrefix
<1>10. k \in Children(path)
  BY <1>8, <1>9, TreeFacts DEF Children
<1> QED BY <1>10

(* A rename moves what it renames, unless the two paths are one.           *)
LEMMA RenameMoves ==
    ASSUME node \in Trees, NEW from \in Paths, NEW to \in Paths,
           MayRename(from, to), from # to
    PROVE  Renamed(from, to) # node
<1>1. node[from] # Absent /\ node \in [Paths -> Kinds]
  BY TreeFacts DEF MayRename
<1>2. ~IsPrefix(to, from)
  <2> SUFFICES ASSUME IsPrefix(to, from) PROVE FALSE
    OBVIOUS
  <2>1. IsStrictPrefix(to, from)
    BY DEF IsStrictPrefix
  <2>2. node[to] = Dir
    BY <1>1, <2>1, TreeFacts
  <2>3. Is(to, "dir") /\ ~Is(to, "absent") /\ ~Is(to, "file")
    BY <2>2, TreeFacts, KindFacts DEF Is
  <2>4. Children(to) = {}
    BY <2>3 DEF MayRename
  <2> QED BY <1>1, <2>1, <2>3, <2>4, NothingBelow
<1>3. Renamed(from, to)[from] = Absent
  BY <1>2, PrefixOrder DEF Renamed
<1> QED BY <1>1, <1>3

-----------------------------------------------------------------------------
(* Type correctness: TypeOK, with the types of the functions spelled out,  *)
(* and a connection's request naming no path but the root's descendants.   *)
Ops == [verb : Verbs \cup {"none"}, path : Paths, to : Paths,
        recursive : BOOLEAN, step : Steps]
Answers == [verb : Verbs \cup {"none"}, code : Codes, self : BOOLEAN]

TypeInv ==
    /\ node \in Trees
    /\ op \in [Conns -> Ops]
    /\ \A c \in Conns : IF op[c].verb = "none" THEN op[c] = Idle
                                               ELSE op[c].path # <<>>
    /\ changed \in [Conns -> BOOLEAN] /\ raced \in [Conns -> BOOLEAN]
    /\ answer \in [Conns -> Answers]
    /\ requests \in [Conns -> 0..MaxRequests]

(* Every step of a handler looks at the tree and goes on, or looks and     *)
(* answers, or makes its one change; and only after a change does it take  *)
(* the stat that ends write, mkdir and move.                               *)
Continues(c) ==
    /\ op[c].step # "post"
    /\ op[c].verb = "write" => op[c].step = "stat"
    /\ \E step \in Steps \ {"idle", "post"} : Look /\ Goto(c, step)
Replies(c) ==
    \E code \in Codes \ {"none"} :
        /\ Look /\ Answer(c, code)
        /\ op[c].step = "post" => code \in {"ok", "io"}
        /\ op[c].step # "post" /\ op[c].verb \in {"write", "move", "delete"}
             => code # "ok"

(* What the change does: it brings no contents but the request's own, a    *)
(* write puts them at its path, a rename leaves no tree as it was unless   *)
(* the paths are one, and a removal only if there was nothing to remove.   *)
Effect(c, tree) ==
    /\ \A p \in Paths :
          \/ tree[p] \in {Absent, Dir}
          \/ tree[p] = File(c, requests[c], p)
          \/ \E q \in Paths : tree[p] = node[q]
    /\ op[c].verb = "write" =>
          /\ op[c].step = "write"
          /\ tree[op[c].path] = File(c, requests[c], op[c].path)
    /\ op[c].verb = "move" => tree # node \/ op[c].path = op[c].to
    /\ op[c].verb = "delete" =>
          \/ tree # node
          \/ op[c].step = "all" /\ Is(op[c].path, "absent")
Alters(c) ==
    /\ op[c].step # "post"
    /\ \E tree \in Trees : Change(c, tree) /\ Effect(c, tree)
    /\ IF op[c].verb = "delete" THEN Answer(c, "ok") ELSE Goto(c, "post")

Shaped(c) == /\ op[c].verb # "none"
             /\ Continues(c) \/ Replies(c) \/ Alters(c)

LEMMA StatErrorCode == \A path : StatError(path) \in {"io", "not_found"}
BY DEF StatError

LEMMA ReadShape ==
    ASSUME TypeInv, NEW c \in Conns,
           ReadFile(c, op[c].path) \/ ListDir(c, op[c].path)
    PROVE  Shaped(c)
<1>1. PICK path : path = op[c].path
  OBVIOUS
<1>2. CASE /\ op[c].verb \in {"read", "list"} /\ op[c].step = "stat"
           /\ Look /\ Goto(c, "read")
  BY <1>2 DEF Shaped, Continues, Steps
<1>3. CASE /\ op[c].verb \in {"read", "list"} /\ op[c].step \in {"stat", "read"}
           /\ Look
           /\ \E code \in {"io", "not_found", "invalid_path", "ok"} : Answer(c, code)
  BY <1>3 DEF Shaped, Replies, Codes
<1>4. CASE ReadFile(c, path)
  BY <1>2, <1>3, <1>4, <1>1, StatErrorCode DEF ReadFile, At, Fail
<1>5. CASE ListDir(c, path)
  BY <1>2, <1>3, <1>5, <1>1, StatErrorCode DEF ListDir, At, Fail
<1> QED BY <1>1, <1>4, <1>5

LEMMA WriteShape ==
    ASSUME TypeInv, NEW c \in Conns, WriteFile(c, op[c].path)
    PROVE  Shaped(c)
<1>1. PICK path \in Paths : path = op[c].path
  BY DEF TypeInv, Ops
<1>2. op[c].verb = "write" /\ path # <<>> /\ op[c].step \in {"stat", "write"}
  BY <1>1 DEF WriteFile, At, TypeInv
<1>3. CASE op[c].step = "stat" /\ Look /\ Goto(c, "write")
  BY <1>2, <1>3 DEF Shaped, Continues, Steps
<1>4. CASE Look /\ \E code \in {"io", "not_found", "invalid_path"} : Answer(c, code)
  BY <1>2, <1>4 DEF Shaped, Replies, Codes
<1>5. CASE /\ HasParent(path) /\ ~Is(path, "dir") /\ op[c].step = "write"
           /\ Change(c, [node EXCEPT ![path] = File(c, requests[c], path)])
           /\ Goto(c, "post")
  <2>1. PICK tree : tree = [node EXCEPT ![path] = File(c, requests[c], path)]
    OBVIOUS
  <2>2. File(c, requests[c], path) \in Kinds
    BY KindFacts DEF TypeInv
  <2>3. tree \in Trees
    BY <1>2, <1>5, <2>1, <2>2, TreePut DEF TypeInv
  <2>4. DOMAIN node = Paths
    BY DEF TypeInv, Trees
  <2>5. Effect(c, tree)
    BY <1>1, <1>2, <1>5, <2>1, <2>4 DEF Effect
  <2> QED BY <1>2, <1>5, <2>1, <2>3, <2>5 DEF Shaped, Alters
<1> QED BY <1>1, <1>3, <1>4, <1>5, StatErrorCode DEF WriteFile, Fail, At

LEMMA MakeShape ==
    ASSUME TypeInv, NEW c \in Conns, MakeDir(c, op[c].path)
    PROVE  Shaped(c)
<1>1. PICK path \in Paths : path = op[c].path
  BY DEF TypeInv, Ops
<1>2. /\ op[c].verb = "mkdir" /\ path # <<>>
      /\ op[c].step \in {"stat", "all", "make"}
  BY <1>1 DEF MakeDir, At, TypeInv
<1>3. CASE Look /\ \E step \in {"all", "make"} : Goto(c, step)
  BY <1>2, <1>3 DEF Shaped, Continues, Steps
<1>4. CASE Look /\ \E code \in {"io", "not_found", "exists", "ok"} : Answer(c, code)
  BY <1>2, <1>4 DEF Shaped, Replies, Codes
<1>5. CASE /\ Change(c, [p \in Paths |-> IF IsPrefix(p, path) THEN Dir ELSE node[p]])
           /\ Goto(c, "post")
  <2>1. PICK tree : tree = [p \in Paths |-> IF IsPrefix(p, path) THEN Dir ELSE node[p]]
    OBVIOUS
  <2>2. tree \in Trees
    BY <2>1, TreeMakeAll DEF TypeInv
  <2>3. Effect(c, tree)
    BY <1>2, <2>1 DEF Effect
  <2> QED BY <1>2, <1>5, <2>1, <2>2, <2>3 DEF Shaped, Alters
<1>6. CASE /\ Is(path, "absent") /\ HasParent(path)
           /\ Change(c, [node EXCEPT ![path] = Dir]) /\ Goto(c, "post")
  <2>1. Dir \in Kinds /\ ~Is(path, "dir")
    BY <1>6, KindFacts DEF Is
  <2>2. PICK tree : tree = [node EXCEPT ![path] = Dir]
    OBVIOUS
  <2>3. tree \in Trees
    BY <1>2, <1>6, <2>1, <2>2, TreePut DEF TypeInv
  <2>4. DOMAIN node = Paths
    BY DEF TypeInv, Trees
  <2>5. Effect(c, tree)
    BY <1>2, <2>2, <2>4 DEF Effect
  <2> QED BY <1>2, <1>6, <2>2, <2>3, <2>5 DEF Shaped, Alters
<1> QED BY <1>1, <1>3, <1>4, <1>5, <1>6, StatErrorCode DEF MakeDir, Fail

LEMMA MoveShape ==
    ASSUME TypeInv, NEW c \in Conns, Move(c, op[c].path, op[c].to)
    PROVE  Shaped(c)
<1>1. PICK from \in Paths, to \in Paths : from = op[c].path /\ to = op[c].to
  BY DEF TypeInv, Ops
<1>2. /\ op[c].verb = "move" /\ from # <<>>
      /\ op[c].step \in {"stat", "dest", "parent", "rename"}
  BY <1>1 DEF Move, MoveDest, At, TypeInv
<1>3. CASE Look /\ \E step \in {"dest", "parent", "rename"} : Goto(c, step)
  BY <1>2, <1>3 DEF Shaped, Continues, Steps
<1>4. CASE Look /\ \E code \in {"io", "not_found", "exists"} : Answer(c, code)
  BY <1>2, <1>4 DEF Shaped, Replies, Codes
<1>5. CASE MayRename(from, to) /\ Change(c, Renamed(from, to)) /\ Goto(c, "post")
  <2>1. PICK tree : tree = Renamed(from, to)
    OBVIOUS
  <2>2. tree \in Trees /\ node \in Trees
    BY <1>2, <1>5, <2>1, TreeRename DEF TypeInv
  <2>3. \A p \in Paths : tree[p] = Absent \/ \E q \in Paths : tree[p] = node[q]
    BY <2>1 DEF Renamed
  <2>4. tree # node \/ from = to
    BY <1>2, <1>5, <2>1, <2>2, RenameMoves
  <2>5. Effect(c, tree)
    BY <1>1, <1>2, <2>3, <2>4 DEF Effect
  <2> QED BY <1>2, <1>5, <2>1, <2>2, <2>5 DEF Shaped, Alters
<1> QED BY <1>1, <1>3, <1>4, <1>5, StatErrorCode DEF Move, MoveDest, Fail

LEMMA DeleteShape ==
    ASSUME TypeInv, NEW c \in Conns, Delete(c, op[c].path)
    PROVE  Shaped(c)
<1>1. PICK path \in Paths : path = op[c].path
  BY DEF TypeInv, Ops
<1>2. /\ op[c].verb = "delete" /\ path # <<>>
      /\ op[c].step \in {"stat", "empty", "all", "remove"}
  BY <1>1 DEF Delete, DeleteEmpty, DeleteAll, DeleteFile, At, TypeInv
<1>3. CASE Look /\ \E step \in {"remove", "all", "empty"} : Goto(c, step)
  BY <1>2, <1>3 DEF Shaped, Continues, Steps
<1>4. CASE Look /\ \E code \in {"io", "not_found", "not_empty"} : Answer(c, code)
  BY <1>2, <1>4 DEF Shaped, Replies, Codes
<1>5. CASE /\ op[c].step = "all" \/ ~Is(path, "absent")
           /\ Change(c, Without(path)) /\ Answer(c, "ok")
  <2>1. PICK tree : tree = Without(path)
    OBVIOUS
  <2>2. tree \in Trees /\ node \in Trees
    BY <1>2, <2>1, TreeWithout DEF TypeInv
  <2>3. tree[path] = Absent /\ (Is(path, "absent") <=> node[path] = Absent)
    BY <2>1, <2>2, PrefixOrder, TreeFacts DEF Without
  <2>4. Effect(c, tree)
    <3>1. \A p \in Paths : tree[p] = Absent \/ tree[p] = node[p]
      BY <2>1 DEF Without
    <3>2. tree # node \/ (op[c].step = "all" /\ Is(path, "absent"))
      BY <1>5, <2>3
    <3>3. op[c].verb = "delete" /\ path = op[c].path
      BY <1>1, <1>2
    <3> QED BY <3>1, <3>2, <3>3 DEF Effect
  <2> QED BY <1>2, <1>5, <2>1, <2>2, <2>4 DEF Shaped, Alters
<1> QED
  BY <1>1, <1>3, <1>4, <1>5, StatErrorCode
  DEF Delete, DeleteEmpty, DeleteAll, DeleteFile, Fail, At

LEMMA ServeShape ==
    ASSUME TypeInv, NEW c \in Conns, Serve(c)
    PROVE  Shaped(c)
<1>1. CASE PostStat(c, Target(c))
  <2>1. op[c].verb # "none" /\ op[c].step = "post"
    BY <1>1 DEF PostStat, TypeInv, Idle
  <2>2. \E code \in {"io", "ok"} : Look /\ Answer(c, code)
    BY <1>1 DEF PostStat, Fail
  <2> QED BY <2>1, <2>2 DEF Shaped, Replies, Codes
<1> QED
  BY <1>1, ReadShape, WriteShape, MakeShape, MoveShape, DeleteShape DEF Serve

LEMMA TypeInit == Init => TypeInv
<1> SUFFICES ASSUME Init PROVE TypeInv
  OBVIOUS
<1>1. node \in Trees
  <2>1. \A p \in Paths : File("init", 0, p) \in Kinds
    <3>1. 0 \in 0..MaxRequests
      BY FsAssumption
    <3>2. \A p \in Paths : File("init", 0, p) \in Kinds
      BY <3>1, KindFacts
    <3> QED BY <3>2
  <2>2. PICK t \in [Paths -> {Absent, Dir} \cup {File("init", 0, p) : p \in Paths}] :
            node = t /\ WellFormed(t)
    BY DEF Init
  <2>3. t \in [Paths -> Kinds]
    BY <2>1, <2>2, KindFacts
  <2> QED BY <2>2, <2>3 DEF Trees
<1>2. Idle \in Ops /\ Idle.verb = "none" /\ NoAnswer \in Answers
  BY FsAssumption DEF Idle, Ops, Steps, NoAnswer, Answers, Codes
<1>3. 0 \in 0..MaxRequests
  BY FsAssumption
<1> QED BY <1>1, <1>2, <1>3 DEF Init, TypeInv

LEMMA TypeRequest ==
    ASSUME TypeInv, NEW c \in Conns, NEW verb \in Verbs,
           NEW path \in Paths \ {<<>>}, NEW to \in Paths, NEW r \in BOOLEAN,
           Request(c, verb, path, to, r)
    PROVE  TypeInv'
<1>1. PICK o : o = [verb |-> verb, path |-> path, to |-> to, recursive |-> r,
                    step |-> "stat"]
  OBVIOUS
<1>2. o \in Ops /\ o.verb # "none" /\ o.path # <<>>
  BY <1>1 DEF Ops, Steps, Verbs
<1>3. op' = [op EXCEPT ![c] = o]
  BY <1>1 DEF Request
<1>4. NoAnswer \in Answers
  BY DEF NoAnswer, Answers, Codes
<1>5. requests' \in [Conns -> 0..MaxRequests]
  BY FsAssumption DEF Request, TypeInv
<1> QED BY <1>2, <1>3, <1>4, <1>5 DEF Request, TypeInv

LEMMA TypeServe ==
    ASSUME TypeInv, NEW c \in Conns, Shaped(c)
    PROVE  TypeInv'
<1>1. /\ op \in [Conns -> Ops] /\ op[c] \in Ops /\ op[c].path # <<>>
      /\ op[c].verb # "none" /\ answer \in [Conns -> Answers]
  BY DEF TypeInv, Shaped
<1>2. ASSUME NEW step \in Steps, Goto(c, step)
      PROVE  /\ op' \in [Conns -> Ops] /\ answer' = answer /\ requests' = requests
             /\ \A d \in Conns : IF op'[d].verb = "none" THEN op'[d] = Idle
                                                         ELSE op'[d].path # <<>>
  <2>1. PICK o : o = [op[c] EXCEPT !.step = step]
    OBVIOUS
  <2>2. o \in Ops /\ o.verb = op[c].verb /\ o.path = op[c].path
    BY <1>1, <2>1 DEF Ops
  <2>3. op' = [op EXCEPT ![c] = o] /\ answer' = answer /\ requests' = requests
    BY <1>2, <2>1 DEF Goto
  <2> QED BY <1>1, <2>2, <2>3 DEF TypeInv
<1>3. ASSUME NEW code \in Codes, Answer(c, code)
      PROVE  /\ op' \in [Conns -> Ops] /\ answer' \in [Conns -> Answers]
             /\ requests' = requests
             /\ \A d \in Conns : IF op'[d].verb = "none" THEN op'[d] = Idle
                                                         ELSE op'[d].path # <<>>
  <2>1. Idle \in Ops /\ Idle.verb = "none"
    BY FsAssumption DEF Idle, Ops, Steps
  <2>2. [verb |-> op[c].verb, code |-> code, self |-> op[c].path = op[c].to] \in Answers
    BY <1>1 DEF Ops, Answers
  <2>3. op' = [op EXCEPT ![c] = Idle] /\ requests' = requests
        /\ answer' = [answer EXCEPT ![c] = [verb |-> op[c].verb, code |-> code,
                                            self |-> op[c].path = op[c].to]]
    BY <1>3 DEF Answer
  <2> QED BY <1>1, <2>1, <2>2, <2>3 DEF TypeInv
<1>4. "post" \in Steps /\ "ok" \in Codes
  BY DEF Steps, Codes
<1>5. ASSUME NEW tree \in Trees, Change(c, tree)
      PROVE  /\ node' \in Trees /\ changed' \in [Conns -> BOOLEAN]
             /\ raced' \in [Conns -> BOOLEAN]
  BY <1>5 DEF Change, TypeInv
<1>6. CASE Continues(c)
  BY <1>2, <1>6 DEF Continues, Look, TypeInv
<1>7. CASE Replies(c)
  BY <1>3, <1>7 DEF Replies, Look, TypeInv
<1>8. CASE Alters(c)
  BY <1>2, <1>3, <1>4, <1>5, <1>8 DEF Alters, TypeInv
<1> QED BY <1>6, <1>7, <1>8 DEF Shaped

LEMMA TypeStep == TypeInv /\ [Next]_vars => TypeInv'
<1> SUFFICES ASSUME TypeInv, [Next]_vars PROVE TypeInv'
  OBVIOUS
<1>1. CASE UNCHANGED vars
  BY <1>1 DEF vars, TypeInv
<1>2. ASSUME NEW c \in Conns, Serve(c) PROVE TypeInv'
  BY <1>2, ServeShape, TypeServe
<1>3. <<>> \in Paths
  BY FsAssumption
<1> QED BY <1>1, <1>2, <1>3, TypeRequest DEF Next

LEMMA TypeInvTypeOK == TypeInv => TypeOK
<1> SUFFICES ASSUME TypeInv PROVE TypeOK
  OBVIOUS
<1>1. DOMAIN node = Paths /\ WellFormed(node)
      /\ \A p \in Paths : node[p].kind \in {"absent", "dir", "file"}
  BY KindFacts DEF TypeInv, Trees
<1>2. \A c \in Conns : op[c] \in Ops /\ answer[c] \in Answers
  BY DEF TypeInv
<1>3. \A c \in Conns :
        /\ op[c].verb \in Verbs \cup {"none"} /\ op[c].step \in Steps
        /\ op[c].path \in Paths /\ op[c].to \in Paths
        /\ op[c].recursive \in BOOLEAN
        /\ answer[c].verb \in Verbs \cup {"none"} /\ answer[c].code \in Codes
        /\ answer[c].self \in BOOLEAN
  BY <1>2 DEF Ops, Answers
<1> QED BY <1>1, <1>3 DEF TypeOK, TypeInv

(* However the handlers of any number of connections interleave, the       *)
(* workspace stays a tree: nothing is left below a file or below a path    *)
(* that is gone, after any write, mkdir, rename or delete.                 *)
THEOREM TypeCorrect == Spec => []TypeOK
<1> QED BY TypeInit, TypeStep, TypeInvTypeOK, PTL DEF Spec

-----------------------------------------------------------------------------
(* What a handler saw is still so while no other connection has changed    *)
(* the tree: the destination of a move is absent, and the directory that a *)
(* delete is about to remove is there, and empty unless it is recursive.   *)
Cleared(c) ==
    /\ op[c].verb = "move" /\ op[c].step \in {"parent", "rename"}
         => Is(op[c].to, "absent")
    /\ op[c].verb = "delete" /\ op[c].step = "all"
         => /\ Is(op[c].path, "dir")
            /\ op[c].recursive \/ Children(op[c].path) = {}

RaceInv == TypeInv /\ \A c \in Conns : ~raced[c] => Cleared(c)

(* A connection's step up to its change: what it moves on to is cleared.   *)
LEMMA LookClears ==
    ASSUME RaceInv, NEW c \in Conns, Serve(c), Look, ~raced[c]
    PROVE  Cleared(c)'
<1>1. op \in [Conns -> Ops] /\ op[c] \in Ops /\ Cleared(c)
  BY DEF RaceInv, TypeInv
<1>2. ASSUME NEW step, Goto(c, step)
      PROVE  /\ op'[c].verb = op[c].verb /\ op'[c].path = op[c].path
             /\ op'[c].to = op[c].to /\ op'[c].recursive = op[c].recursive
             /\ op'[c].step = step
  <2>1. PICK o : o = [op[c] EXCEPT !.step = step]
    OBVIOUS
  <2>2. o.verb = op[c].verb /\ o.path = op[c].path /\ o.to = op[c].to
        /\ o.recursive = op[c].recursive /\ o.step = step
    BY <1>1, <2>1 DEF Ops
  <2>3. op'[c] = o
    BY <1>1, <1>2, <2>1 DEF Goto
  <2> QED BY <2>2, <2>3
<1>3. ASSUME NEW code, Answer(c, code) PROVE op'[c].verb = "none"
  BY <1>1, <1>3 DEF Answer, Idle
<1>4. node' = node
  BY DEF Look
<1>5. \A p : (Is(p, "absent")' <=> Is(p, "absent")) /\ (Is(p, "dir")' <=> Is(p, "dir"))
              /\ Children(p)' = Children(p)
  BY <1>4 DEF Is, Children
<1>6. CASE \E code : Answer(c, code)
  BY <1>3, <1>6 DEF Cleared
<1>7. CASE ~\E code : Answer(c, code)
  <2>1. CASE /\ op[c].verb \in {"read", "list", "write", "mkdir"}
             /\ \E step : Goto(c, step)
    BY <1>2, <2>1 DEF Cleared
  <2>2. CASE Move(c, op[c].path, op[c].to)
    <3>1. op[c].verb = "move"
      BY <2>2 DEF Move, MoveDest, At
    <3>2. \/ Goto(c, "dest") \/ Goto(c, "post")
          \/ /\ Goto(c, "parent") \/ Goto(c, "rename")
             /\ Is(op[c].to, "absent")
      BY <1>1, <1>7, <2>2 DEF Move, MoveDest, At, Fail, Cleared
    <3> QED BY <1>2, <1>5, <3>1, <3>2 DEF Cleared
  <2>3. CASE Delete(c, op[c].path)
    <3>1. op[c].verb = "delete"
      BY <2>3 DEF Delete, DeleteEmpty, DeleteAll, DeleteFile, At
    <3>2. \/ Goto(c, "remove") \/ Goto(c, "empty")
          \/ /\ Goto(c, "all")
             /\ Is(op[c].path, "dir")
             /\ op[c].recursive \/ Children(op[c].path) = {}
      <4>1. op[c].path \in Paths /\ node \in Trees
        BY <1>1 DEF RaceInv, TypeInv, Ops
      <4>2. \/ Is(op[c].path, "absent") \/ Is(op[c].path, "file")
            \/ Is(op[c].path, "dir")
        BY <4>1, KindFacts DEF Trees, Is
      <4>3. op[c].recursive \in BOOLEAN
        BY <1>1 DEF Ops
      <4> QED BY <1>7, <2>3, <4>2, <4>3
              DEF Delete, DeleteEmpty, DeleteAll, DeleteFile, At, Fail
    <3> QED BY <1>2, <1>5, <3>1, <3>2 DEF Cleared
  <2>4. ~PostStat(c, Target(c))
    BY <1>7 DEF PostStat, Fail
  <2>5. ASSUME \/ ReadFile(c, op[c].path) \/ ListDir(c, op[c].path)
               \/ WriteFile(c, op[c].path) \/ MakeDir(c, op[c].path)
        PROVE  /\ op[c].verb \in {"read", "list", "write", "mkdir"}
               /\ \E step : Goto(c, step)
    BY <1>7, <2>5 DEF ReadFile, ListDir, WriteFile, MakeDir, At, Fail
  <2> QED BY <2>1, <2>2, <2>3, <2>4, <2>5 DEF Serve
<1> QED BY <1>6, <1>7

LEMMA AlterClears ==
    ASSUME TypeInv, NEW c \in Conns, Alters(c)
    PROVE  /\ Cleared(c)'
           /\ \A d \in Conns \ {c} :
                 /\ op'[d] = op[d] /\ (raced[d] => raced'[d])
                 /\ ~raced'[d] => op[d] = Idle \/ node' = node
<1>1. op \in [Conns -> Ops] /\ op[c] \in Ops /\ raced \in [Conns -> BOOLEAN]
  BY DEF TypeInv
<1>2. op'[c].step = "post" \/ op'[c].verb = "none"
  BY <1>1 DEF Alters, Goto, Answer, Idle, Ops
<1>3. \A d \in Conns \ {c} : op'[d] = op[d]
  BY <1>1 DEF Alters, Goto, Answer
<1>4. PICK tree : Change(c, tree)
  BY DEF Alters
<1>5. ASSUME NEW d \in Conns \ {c}
      PROVE  /\ raced[d] => raced'[d]
             /\ ~raced'[d] => op[d] = Idle \/ node' = node
  BY <1>1, <1>4 DEF Change
<1> QED BY <1>2, <1>3, <1>5 DEF Cleared

LEMMA RaceServe ==
    ASSUME RaceInv, NEW c \in Conns, Serve(c), TypeInv'
    PROVE  RaceInv'
<1>1. TypeInv /\ Shaped(c)
  BY ServeShape DEF RaceInv
<1>2. op \in [Conns -> Ops] /\ Idle.verb = "none"
  BY <1>1 DEF TypeInv, Idle
<1>3. CASE Look
  <2>1. node' = node /\ raced' = raced
    BY <1>3 DEF Look
  <2>2. \A d \in Conns \ {c} : op'[d] = op[d]
    <3>1. (\E step : Goto(c, step)) \/ (\E code : Answer(c, code))
      BY <1>1 DEF Shaped, Continues, Replies, Alters
    <3> QED BY <1>2, <3>1 DEF Goto, Answer
  <2>3. ASSUME NEW d \in Conns \ {c}, Cleared(d) PROVE Cleared(d)'
    BY <2>1, <2>2, <2>3 DEF Cleared, Is, Children
  <2> QED BY <1>3, <2>1, <2>3, LookClears DEF RaceInv
<1>4. CASE Alters(c)
  <2>1. ASSUME NEW d \in Conns \ {c}, ~raced'[d] PROVE Cleared(d)'
    <3>1. /\ op'[d] = op[d] /\ ~raced[d]
          /\ op[d] = Idle \/ node' = node
      BY <1>1, <1>4, <2>1, AlterClears
    <3>2. CASE op[d] = Idle
      BY <1>2, <3>1, <3>2 DEF Cleared
    <3>3. CASE node' = node
      BY <3>1, <3>3 DEF RaceInv, Cleared, Is, Children
    <3> QED BY <3>1, <3>2, <3>3
  <2>2. Cleared(c)'
    BY <1>1, <1>4, AlterClears
  <2> QED BY <2>1, <2>2 DEF RaceInv
<1> QED BY <1>1, <1>3, <1>4 DEF Shaped, Continues, Replies

LEMMA RaceStep == RaceInv /\ [Next]_vars => RaceInv'
<1> SUFFICES ASSUME RaceInv, [Next]_vars PROVE RaceInv'
  OBVIOUS
<1>1. TypeInv /\ TypeInv'
  BY TypeStep DEF RaceInv
<1>2. CASE UNCHANGED vars
  BY <1>1, <1>2 DEF vars, RaceInv, Cleared, Is, Children
<1>3. ASSUME NEW c \in Conns, Serve(c) PROVE RaceInv'
  BY <1>1, <1>3, RaceServe
<1>4. ASSUME NEW c \in Conns, NEW verb, NEW path, NEW to, NEW r,
             Request(c, verb, path, to, r)
      PROVE  RaceInv'
  <2>1. /\ op \in [Conns -> Ops] /\ raced \in [Conns -> BOOLEAN]
        /\ op' = [op EXCEPT ![c] = [verb |-> verb, path |-> path, to |-> to,
                                    recursive |-> r, step |-> "stat"]]
        /\ raced' = [raced EXCEPT ![c] = FALSE] /\ node' = node
    BY <1>1, <1>4 DEF TypeInv, Request
  <2>2. op'[c].step = "stat"
    BY <2>1
  <2>3. \A d \in Conns \ {c} : op'[d] = op[d] /\ raced'[d] = raced[d]
    BY <2>1
  <2>4. ASSUME NEW d \in Conns \ {c}, Cleared(d) PROVE Cleared(d)'
    BY <2>1, <2>3, <2>4 DEF Cleared, Is, Children
  <2>5. Cleared(c)'
    BY <2>2 DEF Cleared
  <2> QED BY <1>1, <2>3, <2>4, <2>5 DEF RaceInv
<1> QED BY <1>2, <1>3, <1>4 DEF Next

LEMMA RaceInit == Init => RaceInv
<1> SUFFICES ASSUME Init PROVE RaceInv
  OBVIOUS
<1>1. \A c \in Conns : op[c].verb = "none"
  BY DEF Init, Idle
<1> QED BY <1>1, TypeInit DEF RaceInv, Cleared

-----------------------------------------------------------------------------
(* No file holds what a request under way has still to write.              *)
Writing(c) == op[c].verb = "write" /\ op[c].step \in {"stat", "write"}

Fresh(c) ==
    \A p, q \in Paths, n \in 0..MaxRequests :
        node[p] = File(c, n, q)
          => n <= requests[c] /\ (Writing(c) => n < requests[c])

LEMMA FreshServe ==
    ASSUME TypeInv, TypeInv', NEW c \in Conns, Shaped(c),
           \A d \in Conns : Fresh(d)
    PROVE  \A d \in Conns : Fresh(d)'
<1>1. /\ op \in [Conns -> Ops] /\ op[c] \in Ops
      /\ \A d \in Conns : requests[d] \in Nat
  BY FsAssumption DEF TypeInv
<1>2. UNCHANGED requests /\ \A d \in Conns \ {c} : op'[d] = op[d]
  BY <1>1 DEF Shaped, Continues, Replies, Alters, Goto, Answer
<1>3. Writing(c)' => Writing(c)
  <2>1. CASE Continues(c)
    <3>1. op'[c].verb = op[c].verb
      BY <1>1, <2>1 DEF Continues, Goto, Ops
    <3> QED BY <2>1, <3>1 DEF Continues, Writing
  <2>2. CASE Replies(c)
    BY <1>1, <2>2 DEF Replies, Answer, Idle, Writing
  <2>3. CASE Alters(c)
    BY <1>1, <2>3 DEF Alters, Goto, Answer, Idle, Writing, Ops
  <2> QED BY <2>1, <2>2, <2>3 DEF Shaped
<1>4. \A d \in Conns : Writing(d)' => Writing(d)
  BY <1>2, <1>3 DEF Writing
<1>5. CASE Look
  BY <1>2, <1>4, <1>5 DEF Look, Fresh
<1>6. CASE Alters(c)
  <2>1. PICK tree \in Trees : node' = tree /\ Effect(c, tree)
    BY <1>6 DEF Alters, Change
  <2>2. ~Writing(c)'
    BY <1>1, <1>6 DEF Alters, Goto, Answer, Idle, Writing, Ops
  <2>3. ASSUME NEW d \in Conns, NEW p \in Paths, NEW q \in Paths,
               NEW n \in 0..MaxRequests, node'[p] = File(d, n, q)
        PROVE  n <= requests[d] /\ (Writing(d)' => n < requests[d])
    <3>1. CASE tree[p] = File(c, requests[c], p)
      <4>1. d = c /\ n = requests[c]
        BY <2>1, <2>3, <3>1, FileFacts
      <4> QED BY <1>1, <2>2, <4>1
    <3>2. CASE \E r \in Paths : tree[p] = node[r]
      BY <1>4, <2>1, <2>3, <3>2 DEF Fresh
    <3> QED BY <2>1, <2>3, <3>1, <3>2, FileFacts DEF Effect
  <2> QED BY <1>2, <2>3 DEF Fresh
<1> QED BY <1>5, <1>6 DEF Shaped, Continues, Replies

LEMMA FreshRequest ==
    ASSUME TypeInv, NEW c \in Conns, NEW verb, NEW path, NEW to, NEW r,
           Request(c, verb, path, to, r), \A d \in Conns : Fresh(d)
    PROVE  \A d \in Conns : Fresh(d)'
<1>1. /\ op \in [Conns -> Ops] /\ requests \in [Conns -> 0..MaxRequests]
      /\ \A d \in Conns : requests[d] \in Nat
  BY FsAssumption DEF TypeInv
<1>2. /\ node' = node /\ requests'[c] = requests[c] + 1
      /\ \A d \in Conns \ {c} : op'[d] = op[d] /\ requests'[d] = requests[d]
  BY <1>1 DEF Request
<1>3. ASSUME NEW d \in Conns \ {c} PROVE Fresh(d)'
  BY <1>2 DEF Fresh, Writing
<1>4. Fresh(c)'
  BY <1>1, <1>2 DEF Fresh
<1> QED BY <1>3, <1>4

-----------------------------------------------------------------------------
(* What AnswersAreTrue says of one connection.                             *)
Truthful(c) ==
    /\ answer[c].code \in {"not_found", "invalid_path", "exists", "not_empty"}
         => ~changed[c]
    /\ answer[c].code = "ok" /\ answer[c].verb = "write" => changed[c]
    /\ answer[c].code = "ok" /\ answer[c].verb = "move"
         => changed[c] \/ answer[c].self
    /\ answer[c].code = "ok" /\ answer[c].verb = "delete"
         => changed[c] \/ raced[c]

(* A request under way has no answer yet, has changed nothing before its   *)
(* final stat, and has then made its change.                               *)
UnderWay(c) ==
    op[c].verb # "none" =>
        /\ answer[c] = NoAnswer
        /\ op[c].step # "post" => ~changed[c]
        /\ op[c].step = "post" =>
            /\ op[c].verb # "delete"
            /\ op[c].verb = "write" => changed[c]
            /\ op[c].verb = "move" => changed[c] \/ op[c].path = op[c].to

(* What makes AnswersAreTrue inductive.                                    *)
AnswerInv ==
    /\ RaceInv
    /\ \A c \in Conns : Fresh(c) /\ Truthful(c) /\ UnderWay(c)

LEMMA AnswerServe ==
    ASSUME AnswerInv, NEW c \in Conns, Serve(c), TypeInv'
    PROVE  AnswerInv'
<1>1. /\ TypeInv /\ RaceInv /\ Shaped(c)
      /\ \A d \in Conns : Fresh(d) /\ Truthful(d) /\ UnderWay(d)
  BY ServeShape DEF AnswerInv, RaceInv
<1>2. /\ op \in [Conns -> Ops] /\ op[c] \in Ops /\ answer \in [Conns -> Answers]
      /\ op[c].verb # "none" /\ op[c].path \in Paths
      /\ changed \in [Conns -> BOOLEAN] /\ raced \in [Conns -> BOOLEAN]
      /\ answer[c] = NoAnswer /\ NoAnswer.code = "none" /\ NoAnswer.verb = "none"
      /\ Idle.verb = "none"
  BY <1>1 DEF TypeInv, Shaped, UnderWay, NoAnswer, Idle, Ops
<1>3. RaceInv' /\ \A d \in Conns : Fresh(d)'
  BY <1>1, RaceServe, FreshServe
<1>4. ASSUME NEW step, Goto(c, step)
      PROVE  /\ \A d \in Conns \ {c} : op'[d] = op[d]
             /\ answer' = answer /\ op'[c].step = step
             /\ op'[c].verb = op[c].verb /\ op'[c].path = op[c].path
             /\ op'[c].to = op[c].to
  <2>1. PICK o : o = [op[c] EXCEPT !.step = step]
    OBVIOUS
  <2>2. o.step = step /\ o.verb = op[c].verb /\ o.path = op[c].path /\ o.to = op[c].to
    BY <1>2, <2>1 DEF Ops
  <2>3. op' = [op EXCEPT ![c] = o] /\ answer' = answer
    BY <1>4, <2>1 DEF Goto
  <2> QED BY <1>2, <2>2, <2>3
<1>5. ASSUME NEW code, Answer(c, code)
      PROVE  /\ \A d \in Conns \ {c} : op'[d] = op[d] /\ answer'[d] = answer[d]
             /\ op'[c] = Idle
             /\ answer'[c].verb = op[c].verb /\ answer'[c].code = code
             /\ answer'[c].self = (op[c].path = op[c].to)
  BY <1>2, <1>5 DEF Answer
<1>6. CASE Continues(c)
  <2>1. PICK step \in Steps \ {"idle", "post"} : Look /\ Goto(c, step)
    BY <1>6 DEF Continues
  <2>2. UNCHANGED <<changed, raced>> /\ op[c].step # "post" /\ step # "post"
    BY <1>6, <2>1 DEF Continues, Look
  <2>3. \A d \in Conns : Truthful(d)' /\ UnderWay(d)'
    BY <1>1, <1>2, <1>4, <2>1, <2>2 DEF Truthful, UnderWay
  <2> QED BY <1>3, <2>3 DEF AnswerInv
<1>7. CASE Replies(c)
  <2>1. PICK code : /\ Look /\ Answer(c, code)
                    /\ op[c].step = "post" => code \in {"ok", "io"}
                    /\ op[c].step # "post" /\ op[c].verb \in {"write", "move", "delete"}
                         => code # "ok"
    BY <1>7 DEF Replies
  <2>2. UNCHANGED <<changed, raced>>
    BY <2>1 DEF Look
  <2>3. \A d \in Conns \ {c} : Truthful(d)' /\ UnderWay(d)'
    BY <1>1, <1>5, <2>1, <2>2 DEF Truthful, UnderWay
  <2>4. UnderWay(c)'
    BY <1>2, <1>5, <2>1 DEF UnderWay
  <2>5. Truthful(c)'
    <3>1. CASE op[c].step = "post"
      BY <1>1, <1>2, <1>5, <2>1, <2>2, <3>1 DEF Truthful, UnderWay
    <3>2. CASE op[c].step # "post"
      BY <1>1, <1>2, <1>5, <2>1, <2>2, <3>2 DEF Truthful, UnderWay
    <3> QED BY <3>1, <3>2
  <2> QED BY <1>3, <2>3, <2>4, <2>5 DEF AnswerInv
<1>8. CASE Alters(c)
  <2>1. PICK tree \in Trees : Change(c, tree) /\ Effect(c, tree)
    BY <1>8 DEF Alters
  <2>2. /\ \A d \in Conns \ {c} : changed'[d] = changed[d]
        /\ \A d \in Conns \ {c} : raced[d] => raced'[d]
        /\ changed'[c] = (changed[c] \/ tree # node) /\ raced'[c] = raced[c]
        /\ op[c].step # "post"
    BY <1>2, <1>8, <2>1, Zenon DEF Alters, Change
  <2>3. ASSUME NEW d \in Conns \ {c} PROVE Truthful(d)' /\ UnderWay(d)'
    <3>1. op'[d] = op[d] /\ answer'[d] = answer[d]
      BY <1>4, <1>5, <1>8 DEF Alters
    <3>2. changed'[d] = changed[d] /\ (raced[d] => raced'[d])
      BY <2>2
    <3> QED BY <1>1, <3>1, <3>2 DEF Truthful, UnderWay
  <2>4. CASE op[c].verb # "delete"
    <3>1. Goto(c, "post")
      BY <1>8, <2>4 DEF Alters
    <3>2. op[c].verb = "write" => tree # node
      <4> SUFFICES ASSUME op[c].verb = "write" PROVE tree # node
        OBVIOUS
      <4>1. PICK p \in Paths : p = op[c].path
        BY <1>2
      <4>2. Writing(c) /\ tree[p] = File(c, requests[c], p)
        BY <2>1, <4>1 DEF Effect, Writing
      <4>3. requests[c] \in 0..MaxRequests /\ requests[c] \in Nat
        BY <1>1, FsAssumption DEF TypeInv
      <4>4. node[p] # File(c, requests[c], p)
        BY <1>1, <4>2, <4>3 DEF Fresh
      <4> QED BY <4>2, <4>4
    <3>3. op[c].verb = "move" => tree # node \/ op[c].path = op[c].to
      BY <2>1 DEF Effect
    <3>4. Truthful(c)' /\ UnderWay(c)'
      BY <1>2, <1>4, <2>2, <2>4, <3>1, <3>2, <3>3 DEF Truthful, UnderWay
    <3> QED BY <1>3, <2>3, <3>4 DEF AnswerInv
  <2>5. CASE op[c].verb = "delete"
    <3>1. Answer(c, "ok")
      BY <1>8, <2>5 DEF Alters
    <3>2. tree # node \/ raced[c]
      <4> SUFFICES ASSUME tree = node, ~raced[c] PROVE FALSE
        OBVIOUS
      <4>1. op[c].step = "all" /\ Is(op[c].path, "absent")
        BY <2>1, <2>5 DEF Effect
      <4>2. Is(op[c].path, "dir")
        BY <1>1, <2>5, <4>1 DEF RaceInv, Cleared
      <4> QED BY <4>1, <4>2 DEF Is
    <3>3. UnderWay(c)'
      BY <1>2, <1>5, <3>1 DEF UnderWay
    <3>4. changed'[c] \/ raced'[c]
      BY <2>2, <3>2
    <3>5. answer'[c].code = "ok" /\ answer'[c].verb = "delete"
      BY <1>5, <2>5, <3>1
    <3>6. Truthful(c)'
      BY <3>4, <3>5 DEF Truthful
    <3> QED BY <1>3, <2>3, <3>3, <3>6 DEF AnswerInv
  <2> QED BY <2>4, <2>5
<1> QED BY <1>1, <1>6, <1>7, <1>8 DEF Shaped

LEMMA AnswerRequest ==
    ASSUME AnswerInv, NEW c \in Conns, NEW verb, NEW path, NEW to, NEW r,
           Request(c, verb, path, to, r), RaceInv'
    PROVE  AnswerInv'
<1>1. /\ TypeInv /\ \A d \in Conns : Fresh(d) /\ Truthful(d) /\ UnderWay(d)
  BY DEF AnswerInv, RaceInv
<1>2. /\ op' = [op EXCEPT ![c] = [verb |-> verb, path |-> path, to |-> to,
                                  recursive |-> r, step |-> "stat"]]
      /\ changed' = [changed EXCEPT ![c] = FALSE]
      /\ raced' = [raced EXCEPT ![c] = FALSE]
      /\ answer' = [answer EXCEPT ![c] = NoAnswer]
      /\ DOMAIN op = Conns /\ DOMAIN changed = Conns /\ DOMAIN answer = Conns
      /\ DOMAIN raced = Conns
  BY <1>1 DEF Request, TypeInv
<1>3. \A d \in Conns \ {c} :
        /\ op'[d] = op[d] /\ answer'[d] = answer[d]
        /\ changed'[d] = changed[d] /\ raced'[d] = raced[d]
  BY <1>2
<1>4. op'[c].step = "stat" /\ answer'[c] = NoAnswer /\ changed'[c] = FALSE
  BY <1>2
<1>5. NoAnswer.code = "none"
  BY DEF NoAnswer
<1>6. \A d \in Conns : Truthful(d)' /\ UnderWay(d)'
  BY <1>1, <1>3, <1>4, <1>5 DEF Truthful, UnderWay
<1>7. \A d \in Conns : Fresh(d)'
  BY <1>1, FreshRequest
<1> QED BY <1>6, <1>7 DEF AnswerInv

LEMMA AnswerStep == AnswerInv /\ [Next]_vars => AnswerInv'
<1> SUFFICES ASSUME AnswerInv, [Next]_vars PROVE AnswerInv'
  OBVIOUS
<1>1. RaceInv /\ RaceInv' /\ TypeInv'
  BY RaceStep DEF AnswerInv, RaceInv
<1>2. CASE UNCHANGED vars
  <2>1. \A c \in Conns : Fresh(c)' /\ Truthful(c)' /\ UnderWay(c)'
    BY <1>2 DEF AnswerInv, vars, Fresh, Writing, Truthful, UnderWay
  <2> QED BY <1>1, <2>1 DEF AnswerInv
<1>3. ASSUME NEW c \in Conns, Serve(c) PROVE AnswerInv'
  BY <1>1, <1>3, AnswerServe
<1> QED BY <1>1, <1>2, <1>3, AnswerRequest DEF Next

LEMMA AnswerInit == Init => AnswerInv
<1> SUFFICES ASSUME Init PROVE AnswerInv
  OBVIOUS
<1>1. NoAnswer.code = "none" /\ Idle.verb = "none"
  BY DEF NoAnswer, Idle
<1>2. \A c \in Conns : Truthful(c) /\ UnderWay(c)
  BY <1>1 DEF Init, Truthful, UnderWay
<1>3. ASSUME NEW c \in Conns PROVE Fresh(c)
  <2>1. \A p \in Paths : node[p] \in {Absent, Dir}
                            \/ \E q \in Paths : node[p] = File("init", 0, q)
    BY DEF Init
  <2>2. ASSUME NEW p \in Paths, NEW q \in Paths, NEW n \in 0..MaxRequests,
               node[p] = File(c, n, q)
        PROVE  n = 0
    BY <2>1, <2>2, FileFacts
  <2>3. requests[c] = 0 /\ ~Writing(c)
    BY <1>1 DEF Init, Writing
  <2> QED BY <2>2, <2>3, FsAssumption DEF Fresh
<1> QED BY <1>2, <1>3, RaceInit DEF AnswerInv

(* Whatever other connections do between a handler's checks and its        *)
(* change: a refusal other than fs.io left the tree as it was, a granted   *)
(* write or move changed it, save for a move onto itself, and a granted    *)
(* delete changed it or was raced.                                         *)
THEOREM AnswersTrue == Spec => []AnswersAreTrue
<1>1. AnswerInv => AnswersAreTrue
  BY DEF AnswerInv, AnswersAreTrue, Truthful
<1> QED BY <1>1, AnswerInit, AnswerStep, PTL DEF Spec

-----------------------------------------------------------------------------
(* A rename onto a path that is not there moves every file it touches.     *)
LEMMA RenameKeeps ==
    ASSUME node \in Trees, NEW from \in Paths, NEW to \in Paths,
           Is(to, "absent"), Fits(from, to), node' = Renamed(from, to)
    PROVE  Contents \subseteq Contents'
<1> SUFFICES ASSUME NEW q \in Paths, Is(q, "file")
             PROVE  \E p \in Paths : node'[p] = node[q]
  BY DEF Contents, Is
<1>1. ~Is(q, "absent") /\ node[q] # Absent /\ node[to] = Absent
  BY TreeFacts DEF Is
<1>4. CASE from = to
  BY <1>4 DEF Renamed
<1>2. CASE from # to /\ IsPrefix(from, q)
  <2>1. PICK m \in Paths : m = Rebase(q, from, to)
    BY <1>1, <1>2 DEF Fits
  <2>2. IsPrefix(to, m) /\ Rebase(m, to, from) = q
    BY <1>2, <2>1, RebaseBack
  <2>3. node'[m] = node[q]
    BY <1>2, <2>2 DEF Renamed
  <2> QED BY <2>3
<1>3. CASE from # to /\ ~IsPrefix(from, q)
  <2>1. ~IsPrefix(to, q)
    <3>1. ASSUME IsPrefix(to, q) PROVE FALSE
      <4>1. IsStrictPrefix(to, q)
        BY <1>1, <3>1 DEF IsStrictPrefix
      <4> QED BY <1>1, <4>1, TreeFacts, KindFacts
    <3> QED BY <3>1
  <2>2. node'[q] = node[q]
    BY <1>3, <2>1 DEF Renamed
  <2> QED BY <2>2
<1> QED BY <1>2, <1>3, <1>4

(* Removing an empty directory removes no file.                            *)
LEMMA RemoveKeeps ==
    ASSUME node \in Trees, NEW path \in Paths, path # <<>>, Is(path, "dir"),
           Children(path) = {}, node' = Without(path)
    PROVE  Contents \subseteq Contents'
<1> SUFFICES ASSUME NEW q \in Paths, Is(q, "file")
             PROVE  ~IsPrefix(path, q)
  BY DEF Contents, Is, Without
<1>1. node[q] # Absent /\ q # path
  BY TreeFacts DEF Is
<1> QED BY <1>1, NothingBelow DEF IsStrictPrefix

(* Unless another connection changed the tree since the request began, a   *)
(* move loses no file and a delete without recursive takes none with it.   *)
THEOREM DestructionNeedsARace == Spec => OnlyRacesDestroy
<1>1. ASSUME RaceInv, [Next]_vars, NEW c \in Conns, ~raced[c],
             \/ Took(c, "move", "rename")
             \/ Took(c, "delete", "all") /\ ~op[c].recursive
      PROVE  Contents \subseteq Contents'
  <2>1. TypeInv /\ Cleared(c) /\ op \in [Conns -> Ops] /\ op[c] \in Ops
        /\ op[c].path \in Paths /\ op[c].to \in Paths /\ node \in Trees
    BY <1>1 DEF RaceInv, TypeInv, Ops
  <2>2. op'[c] # op[c] /\ op[c].verb # "none" /\ op[c].path # <<>>
    BY <1>1, <2>1 DEF Took, At, TypeInv
  <2>3. Serve(c)
    <3>1. ASSUME NEW d \in Conns, Serve(d), d # c PROVE FALSE
      <4>1. Shaped(d)
        BY <2>1, <3>1, ServeShape
      <4>2. op'[c] = op[c]
        BY <2>1, <3>1, <4>1
           DEF Shaped, Continues, Replies, Alters, Goto, Answer
      <4> QED BY <2>2, <4>2
    <3>2. ASSUME NEW d \in Conns, NEW verb, NEW path, NEW to, NEW r,
                 Request(d, verb, path, to, r)
          PROVE  FALSE
      <4>1. op'[c] = op[c]
        BY <2>1, <2>2, <3>2 DEF Request, Idle
      <4> QED BY <2>2, <4>1
    <3> QED BY <1>1, <2>2, <3>1, <3>2 DEF Next, vars
  <2>4. CASE Took(c, "move", "rename")
    <3>1. Move(c, op[c].path, op[c].to)
      BY <2>3, <2>4
         DEF Serve, Took, At, ReadFile, ListDir, WriteFile, MakeDir, Delete,
             DeleteEmpty, DeleteAll, DeleteFile, PostStat
    <3>2. /\ Fits(op[c].path, op[c].to)
          /\ node' = Renamed(op[c].path, op[c].to) \/ node' = node
      BY <2>4, <3>1 DEF Move, MoveDest, Took, At, Change, Fail, Look
    <3>3. Is(op[c].to, "absent")
      BY <2>1, <2>4 DEF Took, At, Cleared
    <3>4. node' = node => Contents' = Contents
      BY DEF Contents, Is
    <3> QED BY <2>1, <3>2, <3>3, <3>4, RenameKeeps
  <2>5. CASE Took(c, "delete", "all") /\ ~op[c].recursive
    <3>1. Delete(c, op[c].path)
      BY <2>3, <2>5
         DEF Serve, Took, At, ReadFile, ListDir, WriteFile, MakeDir, Move,
             MoveDest, PostStat
    <3>2. node' = Without(op[c].path) \/ node' = node
      BY <2>5, <3>1
         DEF Delete, DeleteEmpty, DeleteAll, DeleteFile, Took, At, Change, Fail, Look
    <3>3. Is(op[c].path, "dir") /\ Children(op[c].path) = {}
      BY <2>1, <2>5 DEF Took, At, Cleared
    <3>4. node' = node => Contents' = Contents
      BY DEF Contents, Is
    <3> QED BY <2>1, <2>2, <3>2, <3>3, <3>4, RemoveKeeps
  <2> QED BY <1>1, <2>4, <2>5
<1>2. RaceInv /\ [Next]_vars =>
        \A c \in Conns :
          /\ ~raced[c]
          /\ \/ Took(c, "move", "rename")
             \/ Took(c, "delete", "all") /\ ~op[c].recursive
          => Contents \subseteq Contents'
  BY <1>1
<1> QED BY <1>2, RaceInit, RaceStep, PTL DEF Spec, OnlyRacesDestroy
=============================================================================
