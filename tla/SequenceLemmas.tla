--------------------------- MODULE SequenceLemmas ---------------------------
(***************************************************************************)
(* What the operators on sequences do, element by element: the facts that  *)
(* the proofs about Gateway, HLRConnector, RequestExecution and            *)
(* TelnetParse, where data is sent, cut, received, collected and filtered, *)
(* cite instead of the operators; and two facts about numbers that they    *)
(* need beside them.                                                       *)
(***************************************************************************)
EXTENDS Naturals, Sequences, SequencesExt, FiniteSets, FiniteSetTheorems,
        WellFoundedInduction, TLAPS

LEMMA AppendElements ==
  ASSUME NEW S, NEW s \in Seq(S), NEW e \in S
  PROVE  /\ Append(s, e) \in Seq(S)
         /\ Len(s) \in Nat /\ DOMAIN s = 1 .. Len(s)
         /\ Len(Append(s, e)) = Len(s) + 1
         /\ DOMAIN Append(s, e) = 1 .. Len(s) + 1
         /\ \A i \in 1 .. Len(s) : Append(s, e)[i] = s[i]
         /\ Append(s, e)[Len(s) + 1] = e
OBVIOUS

(* A recv takes a first part and leaves the rest. *)
LEMMA SplitElements ==
  ASSUME NEW S, NEW s \in Seq(S), NEW n \in 0 .. Len(s)
  PROVE  /\ SubSeq(s, 1, n) \in Seq(S) /\ SubSeq(s, n + 1, Len(s)) \in Seq(S)
         /\ Len(s) \in Nat /\ DOMAIN s = 1 .. Len(s)
         /\ DOMAIN SubSeq(s, 1, n) = 1 .. n
         /\ DOMAIN SubSeq(s, n + 1, Len(s)) = 1 .. Len(s) - n
         /\ \A i \in 1 .. n : SubSeq(s, 1, n)[i] = s[i]
         /\ \A i \in 1 .. Len(s) - n : SubSeq(s, n + 1, Len(s))[i] = s[n + i]
OBVIOUS

LEMMA PairElements ==
  ASSUME NEW S, NEW s \in Seq(S), NEW a \in S, NEW b \in S
  PROVE  /\ s \o <<a, b>> \in Seq(S)
         /\ Len(s) \in Nat /\ DOMAIN s = 1 .. Len(s)
         /\ DOMAIN (s \o <<a, b>>) = 1 .. Len(s) + 2
         /\ \A i \in 1 .. Len(s) : (s \o <<a, b>>)[i] = s[i]
         /\ (s \o <<a, b>>)[Len(s) + 1] = a
         /\ (s \o <<a, b>>)[Len(s) + 2] = b
<1>1. s \o <<a, b>> = Append(Append(s, a), b)
  OBVIOUS
<1> QED
  BY <1>1

LEMMA TwoElements ==
  ASSUME NEW S, NEW s \in Seq(S), NEW t \in Seq(S), DOMAIN t = 1 .. 2,
         \A j \in 1 .. 2 : t[j] = s[j]
  PROVE  t = << s[1], s[2] >>
<1>1. Len(t) = 2 /\ t[1] = s[1] /\ t[2] = s[2]
  OBVIOUS
<1> QED
  BY <1>1

LEMMA ConcatElements ==
  ASSUME NEW S, NEW s \in Seq(S), NEW t \in Seq(S)
  PROVE  /\ s \o t \in Seq(S)
         /\ Len(s) \in Nat /\ DOMAIN s = 1 .. Len(s)
         /\ Len(t) \in Nat /\ DOMAIN t = 1 .. Len(t)
         /\ DOMAIN (s \o t) = 1 .. Len(s) + Len(t)
         /\ \A i \in 1 .. Len(s) : (s \o t)[i] = s[i]
         /\ \A i \in 1 .. Len(t) : (s \o t)[Len(s) + i] = t[i]
         /\ \A i \in 1 .. Len(s) + Len(t) :
              i \in 1 .. Len(s) \/ \E j \in 1 .. Len(t) : i = Len(s) + j
OBVIOUS

LEMMA TailElements ==
  ASSUME NEW S, NEW s \in Seq(S), s # <<>>
  PROVE  /\ Head(s) \in S /\ Head(s) = s[1] /\ 1 \in DOMAIN s
         /\ Tail(s) \in Seq(S)
         /\ Len(s) \in Nat /\ DOMAIN s = 1 .. Len(s) /\ Len(s) >= 1
         /\ Len(Tail(s)) = Len(s) - 1 /\ DOMAIN Tail(s) = 1 .. Len(s) - 1
         /\ \A i \in 1 .. Len(s) - 1 : Tail(s)[i] = s[i + 1]
OBVIOUS

LEMMA PartsRange ==
  ASSUME NEW S, NEW s \in Seq(S), NEW n \in 0 .. Len(s)
  PROVE  /\ Range(SubSeq(s, 1, n)) \subseteq Range(s)
         /\ Range(SubSeq(s, n + 1, Len(s))) \subseteq Range(s)
<1>1. /\ Len(s) \in Nat /\ DOMAIN s = 1 .. Len(s)
      /\ DOMAIN SubSeq(s, 1, n) = 1 .. n
      /\ DOMAIN SubSeq(s, n + 1, Len(s)) = 1 .. Len(s) - n
      /\ \A i \in 1 .. n : SubSeq(s, 1, n)[i] = s[i]
      /\ \A i \in 1 .. Len(s) - n : SubSeq(s, n + 1, Len(s))[i] = s[n + i]
  BY SplitElements
<1>2. \A i \in 1 .. Len(s) - n : n + i \in DOMAIN s
  BY <1>1
<1> QED
  BY <1>1, <1>2 DEF Range

LEMMA ConcatRange ==
  ASSUME NEW S, NEW s \in Seq(S), NEW t \in Seq(S)
  PROVE  Range(s \o t) = Range(s) \cup Range(t)
<1> DEFINE u == s \o t
<1>1. /\ Len(s) \in Nat /\ DOMAIN s = 1 .. Len(s)
      /\ Len(t) \in Nat /\ DOMAIN t = 1 .. Len(t)
      /\ DOMAIN u = 1 .. Len(s) + Len(t)
      /\ \A i \in 1 .. Len(s) : u[i] = s[i]
      /\ \A i \in 1 .. Len(t) : u[Len(s) + i] = t[i]
      /\ \A i \in 1 .. Len(s) + Len(t) :
           i \in 1 .. Len(s) \/ \E j \in 1 .. Len(t) : i = Len(s) + j
  BY ConcatElements
<1> HIDE DEF u
<1>2. ASSUME NEW i \in DOMAIN u PROVE u[i] \in Range(s) \cup Range(t)
  <2>1. CASE i \in 1 .. Len(s)
    BY <1>1, <2>1 DEF Range
  <2>2. CASE \E j \in 1 .. Len(t) : i = Len(s) + j
    <3>1. PICK j \in 1 .. Len(t) : i = Len(s) + j
      BY <2>2
    <3>2. u[i] = t[j] /\ j \in DOMAIN t
      BY <1>1, <3>1
    <3> QED
      BY <3>2 DEF Range
  <2> QED
    BY <1>1, <2>1, <2>2
<1>3. Range(s) \subseteq Range(u)
  BY <1>1 DEF Range
<1>4. Range(t) \subseteq Range(u)
  <2>1. \A j \in 1 .. Len(t) : Len(s) + j \in DOMAIN u
    BY <1>1
  <2> QED
    BY <1>1, <2>1 DEF Range
<1>5. Range(u) \subseteq Range(s) \cup Range(t)
  BY <1>2 DEF Range
<1> QED
  BY <1>3, <1>4, <1>5 DEF u

LEMMA TwoInARow ==
  ASSUME NEW S, NEW s \in Seq(S), NEW i, i \in DOMAIN s, i + 1 \in DOMAIN s,
         NEW a, NEW b, SubSeq(s, i, i + 1) = << a, b >>
  PROVE  s[i] = a /\ s[i + 1] = b
<1>1. i \in 1 .. Len(s) /\ i + 1 \in 1 .. Len(s)
  OBVIOUS
<1>2. SubSeq(s, i, i + 1)[1] = s[i] /\ SubSeq(s, i, i + 1)[2] = s[i + 1]
  BY <1>1
<1>3. << a, b >>[1] = a /\ << a, b >>[2] = b
  OBVIOUS
<1> QED
  BY <1>2, <1>3

-----------------------------------------------------------------------------

LEMMA LeastNat ==
  ASSUME NEW T, T \subseteq Nat, T # {}
  PROVE  \E x \in T : \A y \in T : x <= y
<1>1. \E x \in T : \A y \in T : ~(<<y, x>> \in OpToRel(<, Nat))
  BY NatLessThanWellFounded, WFMin
<1>2. PICK x \in T : \A y \in T : ~(<<y, x>> \in OpToRel(<, Nat))
  BY <1>1
<1>3. ASSUME NEW y \in T PROVE x <= y
  <2>1. x \in Nat /\ y \in Nat
    BY <1>2
  <2>2. y < x => <<y, x>> \in OpToRel(<, Nat)
    BY <2>1 DEF OpToRel
  <2>3. ~(y < x)
    BY <1>2, <2>2, Zenon
  <2> QED
    BY <2>1, <2>3
<1> QED
  BY <1>2, <1>3

(* Numbering the elements of a finite set of numbers from the least uses      *)
(* every number up to the size of the set.                                    *)
LEMMA RanksAreOnto ==
  ASSUME NEW n \in Nat, NEW T, T \subseteq 1 .. n
  PROVE  /\ Cardinality(T) \in Nat
         /\ \A k \in 1 .. Cardinality(T) :
              \E i \in T : Cardinality({j \in T : j <= i}) = k
<1> DEFINE Rank(i) == Cardinality({j \in T : j <= i})
           f == [i \in T |-> Rank(i)]
<1>1. IsFiniteSet(T) /\ Cardinality(T) \in Nat
  <2>1. IsFiniteSet(1 .. n) /\ T \in SUBSET (1 .. n)
    BY FS_Interval
  <2> QED
    BY <2>1, FS_Subset, FS_CardinalityType
<1>2. ASSUME NEW i \in T PROVE Rank(i) \in 1 .. Cardinality(T)
  <2>1. IsFiniteSet({j \in T : j <= i}) /\ Rank(i) <= Cardinality(T)
    BY <1>1, FS_Subset
  <2>2. i \in {j \in T : j <= i}
    OBVIOUS
  <2>3. Rank(i) \in Nat /\ Rank(i) # 0
    BY <2>1, <2>2, FS_CardinalityType, FS_EmptySet
  <2> HIDE DEF Rank
  <2> QED
    BY <1>1, <2>1, <2>3
<1>3. ASSUME NEW i \in T, NEW j \in T, i < j PROVE Rank(i) # Rank(j)
  <2> DEFINE A == {k \in T : k <= i}
             B == {k \in T : k <= j}
  <2>1. IsFiniteSet(B)
    BY <1>1, FS_Subset
  <2>2. A \in SUBSET B
    <3> SUFFICES ASSUME NEW k \in T, k <= i PROVE k <= j
      OBVIOUS
    <3>1. k \in Nat /\ i \in Nat /\ j \in Nat
      OBVIOUS
    <3> QED
      BY <1>3, <3>1
  <2>3. j \in B /\ j \notin A
    BY <1>3
  <2>4. Cardinality(A) # Cardinality(B)
    <3> HIDE DEF A, B
    <3> QED
      BY <2>1, <2>2, <2>3, FS_Subset
  <2> QED
    BY <2>4
<1>4. IsFiniteSet(1 .. Cardinality(T)) /\ Cardinality(1 .. Cardinality(T)) = Cardinality(T)
  BY <1>1, FS_Interval
<1>5. f \in Injection(T, 1 .. Cardinality(T))
  <2>1. f \in [T -> 1 .. Cardinality(T)]
    BY <1>2
  <2>2. \A i, j \in T : f[i] = f[j] => i = j
    <3> SUFFICES ASSUME NEW i \in T, NEW j \in T, i # j PROVE f[i] # f[j]
      OBVIOUS
    <3>1. i < j \/ j < i
      OBVIOUS
    <3>2. Rank(i) # Rank(j)
      BY <1>3, <3>1
    <3> QED
      BY <3>2
  <2> QED
    BY <2>1, <2>2 DEF Injection, IsInjective
<1>6. f \in Surjection(T, 1 .. Cardinality(T))
  <2> HIDE DEF f
  <2> QED
    BY <1>4, <1>5, FS_Injection
<1>7. \A k \in 1 .. Cardinality(T) : \E i \in T : Rank(i) = k
  BY <1>6 DEF Surjection
<1> QED
  BY <1>1, <1>7

-----------------------------------------------------------------------------

(* FlattenSeq is computed by a function, which is the one of its recursion.   *)
LEMMA FlattenRecursion ==
  ASSUME NEW S, NEW seqs \in Seq(S), seqs # <<>>
  PROVE  \E f : /\ f = [i \in 1 .. Len(seqs) |->
                          IF i = 1 THEN seqs[i] ELSE f[i - 1] \o seqs[i]]
               /\ FlattenSeq(seqs) = f[Len(seqs)]
<1> DEFINE n == Len(seqs)
           Flattens(f, k) ==
             f = [i \in 1 .. k |-> IF i = 1 THEN seqs[i] ELSE f[i - 1] \o seqs[i]]
<1>1. n \in Nat \ {0} /\ \A i \in 1 .. n : seqs[i] \in S
  OBVIOUS
<1> HIDE DEF n, Flattens
<1>2. \E f : Flattens(f, n)
  <2> DEFINE missing == {k \in 1 .. n : ~ \E f : Flattens(f, k)}
  <2>0. n \in 1 .. n
    BY <1>1
  <2>1. SUFFICES ASSUME missing # {} PROVE FALSE
    BY <2>0
  <2>2. PICK k \in missing : \A j \in missing : k <= j
    <3>1. missing \subseteq Nat
      BY <1>1
    <3> HIDE DEF missing
    <3> QED BY <2>1, <3>1, LeastNat
  <2>3. CASE k = 1
    <3>1. Flattens([i \in 1 .. k |-> seqs[i]], k)
      BY <2>3 DEF Flattens
    <3> QED BY <2>2, <3>1
  <2>4. CASE k # 1
    <3>1. k - 1 \in 1 .. n /\ k - 1 \notin missing
      BY <1>1, <2>2, <2>4
    <3>2. PICK f : Flattens(f, k - 1)
      BY <3>1
    <3> DEFINE g == [i \in 1 .. k |-> IF i = k THEN f[k - 1] \o seqs[k] ELSE f[i]]
    <3>3. \A i \in 1 .. k - 1 : f[i] = IF i = 1 THEN seqs[i] ELSE f[i - 1] \o seqs[i]
      BY <1>1, <3>1, <3>2 DEF Flattens
    <3>4. \A i \in 1 .. k : g[i] = IF i = 1 THEN seqs[i] ELSE g[i - 1] \o seqs[i]
      BY <1>1, <2>4, <3>1, <3>3
    <3>5. Flattens(g, k)
      BY <3>4 DEF Flattens
    <3> QED BY <2>2, <3>5
  <2> QED BY <2>3, <2>4
<1> DEFINE flatten == CHOOSE f : Flattens(f, n)
<1>3. Flattens(flatten, n)
  BY <1>2
<1>4. FlattenSeq(seqs) = flatten[n]
  BY <1>1 DEF FlattenSeq, n, Flattens
<1> HIDE DEF flatten
<1> QED BY <1>3, <1>4 DEF Flattens, n

(* The first k elements flattened are the first k - 1 flattened and the k-th. *)
LEMMA FlattenStep ==
  ASSUME NEW S, NEW seqs \in Seq(Seq(S)), NEW k \in 1 .. Len(seqs)
  PROVE  /\ FlattenSeq(SubSeq(seqs, 1, k)) = FlattenSeq(SubSeq(seqs, 1, k - 1)) \o seqs[k]
         /\ FlattenSeq(SubSeq(seqs, 1, k)) \in Seq(S)
<1> DEFINE part == SubSeq(seqs, 1, k)
           less == SubSeq(seqs, 1, k - 1)
<1>0. k \in Nat \ {0} /\ k <= Len(seqs) /\ Len(seqs) \in Nat /\ k \in 0 .. Len(seqs)
  OBVIOUS
<1>1. /\ part \in Seq(Seq(S)) /\ Len(part) = k /\ part # <<>>
      /\ \A m \in 1 .. k : part[m] = seqs[m] /\ seqs[m] \in Seq(S)
      /\ k \in Nat \ {0}
  <2>1. /\ part \in Seq(Seq(S)) /\ DOMAIN part = 1 .. k
        /\ \A m \in 1 .. k : part[m] = seqs[m]
    BY <1>0, SplitElements
  <2> HIDE DEF part
  <2>2. Len(part) = k
    BY <1>0, <2>1
  <2>3. \A m \in 1 .. k : seqs[m] \in Seq(S)
    BY <1>0
  <2>4. part # <<>>
    BY <1>0, <2>2
  <2> QED BY <1>0, <2>1, <2>2, <2>3, <2>4
<1>2. /\ less \in Seq(Seq(S)) /\ Len(less) = k - 1
      /\ \A m \in 1 .. k - 1 : less[m] = seqs[m]
  OBVIOUS
<1> HIDE DEF part, less
<1>3. PICK f : /\ f = [m \in 1 .. k |-> IF m = 1 THEN part[m] ELSE f[m - 1] \o part[m]]
               /\ FlattenSeq(part) = f[k]
  BY <1>1, FlattenRecursion
<1>4. \A m \in 1 .. k : f[m] = IF m = 1 THEN seqs[m] ELSE f[m - 1] \o seqs[m]
  BY <1>1, <1>3
<1>5. \A m \in 1 .. k : f[m] \in Seq(S)
  <2> DEFINE outside == {m \in 1 .. k : f[m] \notin Seq(S)}
  <2>1. SUFFICES ASSUME outside # {} PROVE FALSE
    OBVIOUS
  <2>2. PICK m \in outside : \A j \in outside : m <= j
    <3>1. outside \subseteq Nat
      OBVIOUS
    <3> HIDE DEF outside
    <3> QED BY <2>1, <3>1, LeastNat
  <2>3. CASE m = 1
    <3>1. 1 \in 1 .. k /\ f[1] = seqs[1] /\ seqs[1] \in Seq(S)
      BY <1>0, <1>1, <1>4
    <3> QED BY <2>2, <2>3, <3>1
  <2>4. CASE m # 1
    <3>0. m - 1 \in 1 .. k /\ m \in 1 .. k
      BY <1>0, <2>2, <2>4
    <3>1. f[m - 1] \in Seq(S)
      BY <2>2, <3>0
    <3>2. f[m] = f[m - 1] \o seqs[m] /\ seqs[m] \in Seq(S)
      BY <1>1, <1>4, <2>4, <3>0
    <3>3. f[m] \in Seq(S)
      <4>1. \A s, t \in Seq(S) : s \o t \in Seq(S)
        OBVIOUS
      <4> QED BY <3>1, <3>2, <4>1
    <3> QED BY <2>2, <3>3
  <2> QED BY <2>3, <2>4
<1>6. CASE k = 1
  <2>1. less = <<>> /\ FlattenSeq(less) = <<>>
    BY <1>2, <1>6 DEF FlattenSeq
  <2>2. f[k] = seqs[k] /\ seqs[k] \in Seq(S)
    BY <1>1, <1>4, <1>6
  <2>3. seqs[k] = <<>> \o seqs[k]
    BY <2>2
  <2> QED BY <1>3, <2>1, <2>2, <2>3 DEF part, less
<1>7. CASE k # 1
  <2>1. less # <<>>
    BY <1>1, <1>2, <1>7
  <2>2. PICK g : /\ g = [m \in 1 .. k - 1 |-> IF m = 1 THEN less[m] ELSE g[m - 1] \o less[m]]
                 /\ FlattenSeq(less) = g[k - 1]
    BY <1>2, <2>1, FlattenRecursion
  <2>3. \A m \in 1 .. k - 1 : g[m] = IF m = 1 THEN seqs[m] ELSE g[m - 1] \o seqs[m]
    BY <1>2, <2>2
  <2>4. \A m \in 1 .. k - 1 : g[m] = f[m]
    <3> DEFINE differ == {m \in 1 .. k - 1 : g[m] # f[m]}
    <3>1. SUFFICES ASSUME differ # {} PROVE FALSE
      OBVIOUS
    <3>2. PICK m \in differ : \A j \in differ : m <= j
      <4>1. differ \subseteq Nat
        OBVIOUS
      <4> HIDE DEF differ
      <4> QED BY <3>1, <4>1, LeastNat
    <3>3. m \in 1 .. k /\ m \in 1 .. k - 1 /\ (m # 1 => m - 1 \in 1 .. k - 1)
      BY <1>1, <3>2
    <3>4. m # 1 => g[m - 1] = f[m - 1]
      BY <1>1, <3>2, <3>3
    <3> QED BY <1>4, <2>3, <3>2, <3>3, <3>4
  <2>5. k - 1 \in 1 .. k - 1 /\ k \in 1 .. k
    BY <1>1, <1>7
  <2>6. f[k] = g[k - 1] \o seqs[k]
    BY <1>4, <1>7, <2>4, <2>5
  <2> QED BY <1>3, <1>5, <2>2, <2>5, <2>6 DEF part, less
<1> QED BY <1>6, <1>7

LEMMA FlattenNone == FlattenSeq(<<>>) = <<>>
BY DEF FlattenSeq

(* What is flattened later stands behind what is flattened first.             *)
LEMMA FlattenAt ==
  ASSUME NEW S, NEW seqs \in Seq(Seq(S)), NEW a \in 0 .. Len(seqs), NEW b \in a .. Len(seqs)
  PROVE  LET Part(k) == FlattenSeq(SubSeq(seqs, 1, k)) IN
         /\ Part(a) \in Seq(S) /\ Part(b) \in Seq(S)
         /\ Len(Part(a)) <= Len(Part(b))
         /\ \A j \in 1 .. Len(Part(a)) : Part(b)[j] = Part(a)[j]
<1> DEFINE Part(k) == FlattenSeq(SubSeq(seqs, 1, k))
           Extends(k) == /\ Len(Part(a)) <= Len(Part(k))
                         /\ \A j \in 1 .. Len(Part(a)) : Part(k)[j] = Part(a)[j]
<1>0. a \in Nat /\ b \in Nat /\ a <= b /\ Len(seqs) \in Nat
  OBVIOUS
<1>1. ASSUME NEW k \in 1 .. Len(seqs)
      PROVE  Part(k) = Part(k - 1) \o seqs[k] /\ seqs[k] \in Seq(S) /\ Part(k) \in Seq(S)
  <2>1. seqs[k] \in Seq(S)
    OBVIOUS
  <2> QED BY <2>1, FlattenStep
<1>2. \A k \in 0 .. Len(seqs) : Part(k) \in Seq(S)
  <2>1. SubSeq(seqs, 1, 0) = <<>> /\ <<>> \in Seq(S)
    OBVIOUS
  <2>2. Part(0) \in Seq(S)
    BY <2>1, FlattenNone
  <2> HIDE DEF Part
  <2>3. ASSUME NEW k \in 0 .. Len(seqs) PROVE Part(k) \in Seq(S)
    <3>1. k = 0 \/ k \in 1 .. Len(seqs)
      BY <1>0
    <3> QED BY <1>1, <2>2, <3>1
  <2> QED BY <2>3
<1> HIDE DEF Part
<1>3. \A k \in a .. Len(seqs) : Extends(k)
  <2> DEFINE bad == {k \in a .. Len(seqs) : ~Extends(k)}
  <2>1. SUFFICES ASSUME bad # {} PROVE FALSE
    OBVIOUS
  <2>2. PICK k \in bad : \A j \in bad : k <= j
    <3>1. bad \subseteq Nat
      BY <1>0
    <3> HIDE DEF bad
    <3> QED BY <2>1, <3>1, LeastNat
  <2>3. CASE k = a
    <3>1. Len(Part(a)) \in Nat
      BY <1>2
    <3> QED BY <2>2, <2>3, <3>1
  <2>4. CASE k # a
    <3>1. k - 1 \in a .. Len(seqs) /\ k \in 1 .. Len(seqs) /\ k - 1 \in 0 .. Len(seqs)
      BY <1>0, <2>2, <2>4
    <3>2. Extends(k - 1)
      <4>1. k - 1 \notin bad
        BY <1>0, <2>2
      <4> QED BY <3>1, <4>1
    <3>3. Part(k) = Part(k - 1) \o seqs[k] /\ seqs[k] \in Seq(S)
          /\ Part(k - 1) \in Seq(S) /\ Part(a) \in Seq(S)
      BY <1>0, <1>1, <1>2, <3>1
    <3>4. Len(Part(k - 1)) \in Nat /\ Len(Part(a)) \in Nat /\ Len(Part(k)) >= Len(Part(k - 1))
          /\ \A j \in 1 .. Len(Part(k - 1)) : Part(k)[j] = Part(k - 1)[j]
      <4>1. \A s, t \in Seq(S) : /\ Len(s) \in Nat /\ Len(s \o t) >= Len(s)
                                /\ \A j \in 1 .. Len(s) : (s \o t)[j] = s[j]
        OBVIOUS
      <4>2. PICK s : s = Part(k - 1)
        OBVIOUS
      <4>3. PICK t : t = seqs[k]
        OBVIOUS
      <4>4. s \in Seq(S) /\ t \in Seq(S) /\ Part(k) = s \o t /\ Len(Part(a)) \in Nat
        BY <3>3, <4>2, <4>3
      <4> QED BY <4>1, <4>2, <4>4
    <3>5. Extends(k)
      BY <3>2, <3>4
    <3> QED BY <2>2, <3>5
  <2> QED BY <2>3, <2>4
<1>4. Extends(b) /\ Part(a) \in Seq(S) /\ Part(b) \in Seq(S)
  BY <1>0, <1>2, <1>3
<1> QED BY <1>4 DEF Part

LEMMA SameElements ==
  ASSUME NEW S, NEW s \in Seq(S), NEW t \in Seq(S), DOMAIN s = DOMAIN t,
         \A j \in DOMAIN s : s[j] = t[j]
  PROVE  s = t
OBVIOUS

(* One element replaced. *)
LEMMA Replaced ==
  ASSUME NEW S, NEW s \in Seq(S), NEW k, NEW e \in S
  PROVE  LET t == [s EXCEPT ![k] = e] IN
         /\ t \in Seq(S) /\ Len(t) = Len(s) /\ DOMAIN t = DOMAIN s
         /\ k \in DOMAIN s => t[k] = e
         /\ \A j \in DOMAIN s : j # k => t[j] = s[j]
<1> DEFINE t == [s EXCEPT ![k] = e]
<1>1. /\ DOMAIN s = 1 .. Len(s) /\ Len(s) \in Nat
      /\ \A j \in DOMAIN s : s[j] \in S
  OBVIOUS
<1>2. /\ DOMAIN t = DOMAIN s /\ \A j \in DOMAIN s : t[j] = IF j = k THEN e ELSE s[j]
      /\ t = [j \in DOMAIN s |-> IF j = k THEN e ELSE s[j]]
  OBVIOUS
<1> HIDE DEF t
<1>3. t \in [1 .. Len(s) -> S]
  BY <1>1, <1>2
<1>4. t \in Seq(S) /\ Len(t) = Len(s)
  BY <1>1, <1>3
<1> QED BY <1>2, <1>4 DEF t

LEMMA FirstPart ==
  ASSUME NEW S, NEW s \in Seq(S), NEW n \in 0 .. Len(s)
  PROVE  /\ SubSeq(s, 1, n) \in Seq(S) /\ Len(SubSeq(s, 1, n)) = n
         /\ \A j \in 1 .. n : SubSeq(s, 1, n)[j] = s[j]
         /\ n < Len(s) => SubSeq(s, 1, n + 1) = Append(SubSeq(s, 1, n), s[n + 1])
         /\ n = Len(s) => SubSeq(s, 1, n) = s
<1>1. /\ SubSeq(s, 1, n) \in Seq(S) /\ Len(s) \in Nat /\ DOMAIN s = 1 .. Len(s)
      /\ DOMAIN SubSeq(s, 1, n) = 1 .. n
      /\ \A j \in 1 .. n : SubSeq(s, 1, n)[j] = s[j]
  BY SplitElements
<1>2. Len(SubSeq(s, 1, n)) = n
  BY <1>1
<1>3. ASSUME n < Len(s) PROVE SubSeq(s, 1, n + 1) = Append(SubSeq(s, 1, n), s[n + 1])
  <2>1. PICK t : t = SubSeq(s, 1, n)
    OBVIOUS
  <2>2. s[n + 1] \in S /\ n + 1 \in 0 .. Len(s) /\ n \in Nat
    BY <1>1, <1>3
  <2>3. PICK m : m = n + 1
    OBVIOUS
  <2>4. /\ SubSeq(s, 1, m) \in Seq(S) /\ DOMAIN SubSeq(s, 1, m) = 1 .. m
        /\ \A j \in 1 .. m : SubSeq(s, 1, m)[j] = s[j]
    BY <2>2, <2>3, SplitElements
  <2>5. t \in Seq(S) /\ Len(t) = n
    BY <1>1, <1>2, <2>1
  <2>6. /\ Append(t, s[m]) \in Seq(S) /\ DOMAIN Append(t, s[m]) = 1 .. m
        /\ \A j \in 1 .. n : Append(t, s[m])[j] = t[j]
        /\ Append(t, s[m])[m] = s[m]
    BY <2>2, <2>3, <2>5, AppendElements
  <2>7. \A j \in 1 .. m : Append(t, s[m])[j] = SubSeq(s, 1, m)[j]
    <3>1. \A j \in 1 .. m : j = m \/ j \in 1 .. n
      BY <2>2, <2>3
    <3> QED BY <1>1, <2>1, <2>4, <2>6, <3>1
  <2>8. Append(t, s[m]) = SubSeq(s, 1, m)
    BY <2>4, <2>6, <2>7, SameElements
  <2> QED BY <2>1, <2>3, <2>8
<1>4. n = Len(s) => SubSeq(s, 1, n) = s
  BY <1>1, SameElements
<1> QED BY <1>1, <1>2, <1>3, <1>4

LEMMA JoinNone ==
  ASSUME NEW S, NEW s \in Seq(S)
  PROVE  s \o <<>> = s
OBVIOUS

LEMMA JoinOne ==
  ASSUME NEW S, NEW s \in Seq(S), NEW t \in Seq(S), NEW e \in S
  PROVE  s \o Append(t, e) = Append(s \o t, e)
OBVIOUS

LEMMA JoinLast ==
  ASSUME NEW S, NEW s \in Seq(S), NEW e \in S
  PROVE  s \o <<e>> = Append(s, e)
OBVIOUS

LEMMA JoinParts ==
  ASSUME NEW S, NEW s \in Seq(S), NEW t \in Seq(S), NEW u, u = s \o t
  PROVE  /\ u \in Seq(S) /\ Len(u) = Len(s) + Len(t)
         /\ \A j \in 1 .. Len(s) : u[j] = s[j]
         /\ \A j \in 1 .. Len(t) : u[Len(s) + j] = t[j]
OBVIOUS

(* Two ways to divide one sequence, without the second part of one of them. *)
Divided(S, a, b, c, d, n) ==
  /\ {a, b, c, d} \subseteq Seq(S)
  /\ n \in Nat /\ n + Len(d) = Len(b)
  /\ a \o b = c \o d

LEMMA Shortened ==
  ASSUME NEW S, NEW a, NEW b, NEW c, NEW d, NEW n, Divided(S, a, b, c, d, n)
  PROVE  a \o SubSeq(b, 1, n) = c
<1>0. /\ a \in Seq(S) /\ b \in Seq(S) /\ c \in Seq(S) /\ d \in Seq(S)
      /\ n \in Nat /\ n + Len(d) = Len(b)
  BY DEF Divided
<1>1. n \in 0 .. Len(b)
  BY <1>0
<1>2. PICK t : t = SubSeq(b, 1, n)
  OBVIOUS
<1>3. t \in Seq(S) /\ Len(t) = n /\ \A j \in 1 .. n : t[j] = b[j]
  BY <1>0, <1>1, <1>2, FirstPart
<1> DEFINE Joins(u, s, r) == /\ u \in Seq(S) /\ Len(u) = Len(s) + Len(r)
                             /\ \A j \in 1 .. Len(s) : u[j] = s[j]
                             /\ \A j \in 1 .. Len(r) : u[Len(s) + j] = r[j]
<1>4. \A s, r \in Seq(S) : Joins(s \o r, s, r)
  BY JoinParts
<1> HIDE DEF Joins
<1>5. PICK v : v = a \o b
  OBVIOUS
<1>6. PICK u : u = a \o t
  OBVIOUS
<1>7. Joins(v, a, b) /\ (v = c \o d => Joins(v, c, d)) /\ Joins(u, a, t)
  BY <1>0, <1>3, <1>4, <1>5, <1>6
<1>8. ASSUME v = c \o d PROVE u = c
  <2>1. Joins(v, a, b) /\ Joins(v, c, d) /\ Joins(u, a, t)
    BY <1>7, <1>8
  <2>2. /\ Len(v) = Len(a) + Len(b) /\ Len(v) = Len(c) + Len(d)
        /\ \A j \in 1 .. Len(a) : v[j] = a[j]
        /\ \A j \in 1 .. Len(b) : v[Len(a) + j] = b[j]
        /\ \A j \in 1 .. Len(c) : v[j] = c[j]
    BY <2>1 DEF Joins
  <2>3. /\ u \in Seq(S) /\ Len(u) = Len(a) + n
        /\ \A j \in 1 .. Len(a) : u[j] = a[j]
        /\ \A j \in 1 .. n : u[Len(a) + j] = b[j]
    BY <1>3, <2>1 DEF Joins
  <2>4. /\ Len(a) \in Nat /\ Len(b) \in Nat /\ Len(c) \in Nat /\ Len(d) \in Nat
        /\ n + Len(d) = Len(b) /\ Len(u) = Len(c)
    BY <1>0, <2>2, <2>3
  <2>5. ASSUME NEW j \in 1 .. Len(c) PROVE u[j] = c[j]
    <3>1. CASE j <= Len(a)
      BY <2>2, <2>3, <2>4, <3>1
    <3>2. CASE j > Len(a)
      <4>1. PICK m : m = j - Len(a)
        OBVIOUS
      <4>2. m \in 1 .. n /\ m \in 1 .. Len(b) /\ j = Len(a) + m
        <5>1. \A x, y, z \in Nat : /\ Len(b) = n + z /\ Len(c) = x + n /\ y \in 1 .. Len(c) /\ y > x
                                   => /\ y - x \in 1 .. n /\ y - x \in 1 .. Len(b)
                                      /\ y = x + (y - x)
          BY <1>0
        <5>2. j \in Nat /\ Len(b) = n + Len(d) /\ Len(c) = Len(a) + n
          BY <2>3, <2>4
        <5> QED BY <2>4, <3>2, <4>1, <5>1, <5>2
      <4> QED BY <2>2, <2>3, <4>2
    <3> QED BY <2>4, <3>1, <3>2
  <2>6. DOMAIN c = 1 .. Len(c) /\ DOMAIN u = 1 .. Len(u) /\ u \in Seq(S)
    BY <1>0, <2>3
  <2> QED BY <1>0, <2>4, <2>5, <2>6, SameElements
<1>9. v = c \o d
  BY <1>5 DEF Divided
<1> QED BY <1>2, <1>6, <1>8, <1>9

=============================================================================
