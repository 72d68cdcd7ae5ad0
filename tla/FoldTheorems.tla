---------------------------- MODULE FoldTheorems ----------------------------
(***************************************************************************)
(* Facts about numbers, finite sets and sequences that proofs about folds  *)
(* and other recursive functions rest on: a set of numbers has a least     *)
(* element, an order on a finite set a last one, and a function that is    *)
(* defined from one number to the next, or from a finite set without its   *)
(* last element to the whole, exists.  So a finite set can be sorted, and  *)
(* pieces of one length that are strung together can be found again; and   *)
(* sums over a finite set can be taken apart, compared and bounded, in     *)
(* whatever order they are added up.                                       *)
(***************************************************************************)
EXTENDS Integers, SequencesExt, FiniteSetsExt, FiniteSetTheorems, SequenceTheorems,
        WellFoundedInduction, TLAPS

\* A set of numbers has a least element.
LEMMA LeastNumber == ASSUME NEW S \in SUBSET Nat, S # {} PROVE \E x \in S : \A y \in S : x <= y
  <1> DEFINE R == {ss \in Nat \X Nat : ss[1] < ss[2]}
  <1>1. IsWellFoundedOn(R, Nat)
    BY NatLessThanWellFounded DEF OpToRel
  <1>2. \E x \in S : \A y \in S : ~ (<<y, x>> \in R)
    <2> HIDE DEF R
    <2> QED BY <1>1, WFMin
  <1>3. \A x, y \in Nat : ~ (<<y, x>> \in R) => x <= y
    <2> SUFFICES ASSUME NEW x \in Nat, NEW y \in Nat, y < x PROVE <<y, x>> \in R
      OBVIOUS
    <2> QED OBVIOUS
  <1> HIDE DEF R
  <1> QED BY <1>2, <1>3

LEMMA LeastIsMin == ASSUME NEW S \in SUBSET Nat, S # {} PROVE Min(S) \in S /\ \A y \in S : Min(S) <= y
  BY LeastNumber DEF Min

LEMMA GreatestIsMax ==
    ASSUME NEW S \in SUBSET Nat, S # {}, NEW m \in Nat, \A y \in S : y <= m
    PROVE  Max(S) \in S /\ \A y \in S : Max(S) >= y
  <1> DEFINE T == {m - y : y \in S}
  <1>1. T \subseteq Nat /\ T # {}
    <2>1. \A y \in S : y \in Nat /\ m - y \in Nat
      OBVIOUS
    <2> QED BY <2>1
  <1> HIDE DEF T
  <1>2. PICK z \in T : \A y \in T : z <= y
    BY <1>1, LeastNumber
  <1> USE DEF T
  <1>3. PICK x \in S : z = m - x
    BY <1>2
  <1>4. \A y \in S : m - x <= m - y
    BY <1>2, <1>3
  <1>5. \A y \in S : x >= y
    <2> TAKE y \in S
    <2>1. m - x <= m - y /\ x \in Nat /\ y \in Nat
      BY <1>4
    <2> QED BY <2>1
  <1> QED BY <1>5 DEF Max

\* What is defined from one number to the next.
Iterates(f, X, base, step, n) ==
    f \in [0..n -> X] /\ f[0] = base /\ \A t \in 1..n : f[t] = step[t][f[t - 1]]

LEMMA Recursion ==
    ASSUME NEW X, NEW base \in X, NEW step \in [Nat -> [X -> X]], NEW n \in Nat
    PROVE  \E f : Iterates(f, X, base, step, n)
  <1> USE DEF Iterates
  <1> DEFINE Good(m) == \E f \in [0..m -> X] : f[0] = base /\ \A t \in 1..m : f[t] = step[t][f[t - 1]]
             bad == {m \in Nat : ~Good(m)}
  <1> SUFFICES ASSUME bad # {} PROVE FALSE
    <2>1. Good(n)
      OBVIOUS
    <2> QED BY <2>1 DEF Good
  <1> HIDE DEF Good
  <1>1. PICK m \in bad : \A k \in bad : m <= k
    <2>1. bad \subseteq Nat
      OBVIOUS
    <2> HIDE DEF bad
    <2> QED BY <2>1, LeastNumber
  <1>2. CASE m = 0
    <2> DEFINE f == [t \in 0..0 |-> base]
    <2>1. f \in [0..0 -> X] /\ f[0] = base /\ \A t \in 1..0 : f[t] = step[t][f[t - 1]]
      OBVIOUS
    <2> HIDE DEF f
    <2>2. Good(0)
      BY <2>1 DEF Good
    <2> QED BY <1>1, <1>2, <2>2
  <1>3. CASE m # 0
    <2>1. m - 1 \in Nat /\ ~(m <= m - 1) /\ m \in Nat
      BY <1>1, <1>3
    <2>2. Good(m - 1)
      BY <1>1, <2>1
    <2>3. PICK f \in [0..(m - 1) -> X] : f[0] = base /\ \A t \in 1..(m - 1) : f[t] = step[t][f[t - 1]]
      BY <2>2 DEF Good
    <2> DEFINE g == [t \in 0..m |-> IF t = m THEN step[m][f[m - 1]] ELSE f[t]]
    <2>4. f[m - 1] \in X /\ step[m] \in [X -> X]
      BY <2>1
    <2>5. g \in [0..m -> X]
      BY <2>1, <2>4
    <2>6. g[0] = base
      BY <2>1, <2>3, <1>3
    <2>7. \A t \in 1..m : g[t] = step[t][g[t - 1]]
      <3> TAKE t \in 1..m
      <3>1. CASE t = m
        BY <2>1, <3>1
      <3>2. CASE t # m
        <4>1. t \in 1..(m - 1) /\ t - 1 \in 0..(m - 1) /\ t - 1 # m /\ t \in 0..m /\ t - 1 \in 0..m
          BY <2>1, <3>2
        <4> QED BY <2>3, <3>2, <4>1
      <3> QED BY <3>1, <3>2
    <2> HIDE DEF g
    <2>8. Good(m)
      BY <2>5, <2>6, <2>7 DEF Good
    <2> QED BY <1>1, <2>8
  <1> QED BY <1>2, <1>3

\* What is gathered from a finite set, one element after another.
Gathers(f, S, X, base, step, last) ==
    /\ f \in [SUBSET S -> X] /\ f[{}] = base
    /\ \A s \in SUBSET S : s # {} => f[s] = step[last[s]][f[s \ {last[s]}]]

LEMMA Gathering ==
    ASSUME NEW S, IsFiniteSet(S), NEW X, NEW base \in X, NEW step \in [S -> [X -> X]],
           NEW last, \A s \in SUBSET S : s # {} => last[s] \in s
    PROVE  \E f : Gathers(f, S, X, base, step, last)
  <1> DEFINE F == [SUBSET S -> X]
             first == [s \in SUBSET S |-> base]
             n == Cardinality(S)
             After(g) == [s \in SUBSET S |-> IF s = {} THEN base ELSE step[last[s]][g[s \ {last[s]}]]]
             round == [t \in Nat |-> [g \in F |-> After(g)]]
  <1>1. n \in Nat
    BY FS_CardinalityType
  <1>2. \A g \in F : After(g) \in F
    <2> SUFFICES ASSUME NEW g \in F, NEW s \in SUBSET S, s # {}
                 PROVE  step[last[s]][g[s \ {last[s]}]] \in X
      OBVIOUS
    <2>1. last[s] \in S /\ s \ {last[s]} \in SUBSET S
      OBVIOUS
    <2>2. g[s \ {last[s]}] \in X /\ step[last[s]] \in [X -> X]
      BY <2>1
    <2> QED BY <2>2
  <1>3. first \in F /\ round \in [Nat -> [F -> F]]
    <2> HIDE DEF After
    <2>1. first \in F
      OBVIOUS
    <2> HIDE DEF F, first
    <2> QED BY <1>2, <2>1
  <1>4. PICK h : Iterates(h, F, first, round, n)
    <2> HIDE DEF F, first, round, n
    <2> QED BY <1>1, <1>3, Recursion
  <1>5. h \in [0..n -> F] /\ h[0] = first
    BY <1>4 DEF Iterates
  <1>6. \A t \in 1..n : h[t] = After(h[t - 1])
    <2> TAKE t \in 1..n
    <2>1. t - 1 \in 0..n /\ t \in Nat
      BY <1>1
    <2>2. h[t - 1] \in F
      BY <1>5, <2>1
    <2>3. h[t] = round[t][h[t - 1]]
      BY <1>4 DEF Iterates
    <2> HIDE DEF F, After
    <2> QED BY <2>1, <2>2, <2>3
  <1>7. \A t \in 0..n : h[t] \in [SUBSET S -> X] /\ h[t][{}] = base
    <2> TAKE t \in 0..n
    <2>1. h[t] \in F
      BY <1>5
    <2>2. CASE t = 0
      BY <1>5, <2>2
    <2>3. CASE t # 0
      <3>1. t \in 1..n
        BY <2>3
      <3>2. h[t] = After(h[t - 1])
        BY <1>6, <3>1
      <3> QED BY <2>1, <3>2
    <2> QED BY <2>1, <2>2, <2>3
  <1>8. \A t \in 1..n : \A s \in SUBSET S : s # {} => h[t][s] = step[last[s]][h[t - 1][s \ {last[s]}]]
    <2> SUFFICES ASSUME NEW t \in 1..n, NEW s \in SUBSET S, s # {}
                 PROVE  h[t][s] = step[last[s]][h[t - 1][s \ {last[s]}]]
      OBVIOUS
    <2>1. h[t] = After(h[t - 1])
      BY <1>6
    <2>2. After(h[t - 1])[s] = step[last[s]][h[t - 1][s \ {last[s]}]]
      OBVIOUS
    <2> HIDE DEF After
    <2> QED BY <2>1, <2>2
  \* The rounds agree on the sets that they have come to.
  <1> DEFINE Steady(t) == \A s \in SUBSET S : Cardinality(s) < t => h[t][s] = h[t - 1][s]
             bad == {t \in 1..n : ~Steady(t)}
  <1>9. bad = {}
    <2> SUFFICES ASSUME bad # {} PROVE FALSE
      OBVIOUS
    <2>1. PICK t \in bad : \A u \in bad : t <= u
      <3>1. bad \subseteq Nat
        BY <1>1
      <3> HIDE DEF bad
      <3> QED BY <3>1, LeastNumber
    <2>2. t \in 1..n /\ ~Steady(t) /\ t \in Nat
      BY <1>1
    <2>3. PICK s \in SUBSET S : Cardinality(s) < t /\ h[t][s] # h[t - 1][s]
      BY <2>2
    <2>4. t - 1 \in 0..n /\ t \in 0..n
      BY <1>1, <2>2
    <2>5. s # {}
      BY <1>7, <2>3, <2>4
    <2>6. h[t][s] = step[last[s]][h[t - 1][s \ {last[s]}]]
      BY <1>8, <2>2, <2>5
    <2>7. IsFiniteSet(s) /\ Cardinality(s) \in Nat
      BY FS_Subset, FS_CardinalityType
    <2>8. Cardinality(s) # 0
      BY <2>5, <2>7, FS_EmptySet
    <2>9. t # 1
      BY <2>3, <2>7, <2>8
    <2>10. t - 1 \in 1..n /\ ~(t <= t - 1)
      BY <1>1, <2>2, <2>9
    <2>11. h[t - 1][s] = step[last[s]][h[(t - 1) - 1][s \ {last[s]}]]
      BY <1>8, <2>5, <2>10
    <2>12. Steady(t - 1)
      BY <2>1, <2>10
    <2>13. Cardinality(s \ {last[s]}) = Cardinality(s) - 1
      BY <2>5, <2>7, FS_RemoveElement
    <2>14. Cardinality(s \ {last[s]}) < t - 1
      BY <2>2, <2>3, <2>7, <2>13
    <2> QED BY <2>3, <2>6, <2>11, <2>12, <2>14
  <1>10. ASSUME NEW s \in SUBSET S, s # {}
        PROVE  h[n][s] = step[last[s]][h[n][s \ {last[s]}]]
    <2>1. IsFiniteSet(s) /\ Cardinality(s) \in Nat /\ Cardinality(s) <= n
      BY FS_Subset, FS_CardinalityType
    <2>2. Cardinality(s) # 0
      BY <1>10, <2>1, FS_EmptySet
    <2>3. n \in 1..n
      BY <1>1, <2>1, <2>2
    <2>4. h[n][s] = step[last[s]][h[n - 1][s \ {last[s]}]]
      BY <1>8, <1>10, <2>3
    <2>5. Cardinality(s \ {last[s]}) < n
      <3>1. Cardinality(s \ {last[s]}) = Cardinality(s) - 1
        BY <1>10, <2>1, FS_RemoveElement
      <3> QED BY <1>1, <2>1, <3>1
    <2>6. Steady(n)
      BY <1>9, <2>3
    <2> QED BY <2>4, <2>5, <2>6
  <1>11. n \in 0..n
    BY <1>1
  <1> QED BY <1>7, <1>10, <1>11 DEF Gathers

\* Of the elements of a finite set, some comes after which there is none.
LEMMA LastInOrder ==
    ASSUME NEW S, IsFiniteSet(S), S # {}, NEW R,
           \A m \in S : <<m, m>> \notin R,
           \A m, k, o \in S : <<m, k>> \in R /\ <<k, o>> \in R => <<m, o>> \in R
    PROVE  \E m \in S : \A k \in S : <<m, k>> \notin R
  <1> DEFINE after(m) == {k \in S : <<m, k>> \in R}
             sizes == {Cardinality(after(m)) : m \in S}
  <1>1. \A m \in S : IsFiniteSet(after(m)) /\ Cardinality(after(m)) \in Nat
    BY FS_Subset, FS_CardinalityType
  <1>2. PICK n \in sizes : \A j \in sizes : n <= j
    <2>1. sizes \subseteq Nat /\ sizes # {}
      <3> HIDE DEF after
      <3> QED BY <1>1
    <2> HIDE DEF sizes
    <2> QED BY <2>1, LeastNumber
  <1>3. PICK m \in S : n = Cardinality(after(m))
    BY <1>2
  <1>4. ASSUME NEW k \in S, <<m, k>> \in R PROVE FALSE
    <2>1. after(k) \subseteq after(m) \ {k} /\ k \in after(m)
      BY <1>4
    <2>2. Cardinality(after(m) \ {k}) = Cardinality(after(m)) - 1 /\ IsFiniteSet(after(m) \ {k})
      BY <1>1, <2>1, FS_RemoveElement
    <2>3. Cardinality(after(k)) <= Cardinality(after(m) \ {k})
      BY <2>1, <2>2, FS_Subset
    <2>4. n <= Cardinality(after(k))
      <3> HIDE DEF after
      <3> QED BY <1>2
    <2>5. n \in Nat /\ Cardinality(after(k)) \in Nat /\ n = Cardinality(after(m))
      BY <1>1, <1>3
    <2> HIDE DEF after
    <2> QED BY <2>2, <2>3, <2>4, <2>5
  <1> QED BY <1>4


\* What holds of the empty set, and of a set whenever of the set without its last
\* element, holds of all of a finite set.
LEMMA OneByOne ==
    ASSUME NEW S, IsFiniteSet(S), NEW last, NEW good, {} \in good,
           \A s \in SUBSET S : s # {} => last[s] \in s /\ (s \ {last[s]} \in good => s \in good)
    PROVE  S \in good
  <1> DEFINE bad == {Cardinality(s) : s \in (SUBSET S) \ good}
  <1>1. \A s \in SUBSET S : IsFiniteSet(s) /\ Cardinality(s) \in Nat
    BY FS_Subset, FS_CardinalityType
  <1> SUFFICES ASSUME S \notin good PROVE FALSE
    OBVIOUS
  <1>2. PICK n \in bad : \A k \in bad : n <= k
    <2>1. bad \subseteq Nat /\ bad # {}
      BY <1>1
    <2> HIDE DEF bad
    <2> QED BY <2>1, LeastNumber
  <1>3. PICK s \in (SUBSET S) \ good : n = Cardinality(s)
    BY <1>2
  <1> DEFINE r == s \ {last[s]}
  <1>4. s \in SUBSET S /\ s # {} /\ last[s] \in s /\ r \notin good
    <2>1. s \in SUBSET S /\ s \notin good
      BY <1>3
    <2> HIDE DEF bad
    <2>2. ASSUME s = {} PROVE FALSE
      <3>1. {} \in good
        OBVIOUS
      <3> QED BY <2>1, <2>2, <3>1, Zenon
    <2> QED BY <2>1, <2>2
  <1>5. Cardinality(r) = Cardinality(s) - 1 /\ r \in SUBSET S
    BY <1>1, <1>4, FS_RemoveElement
  <1>6. n <= Cardinality(r)
    BY <1>2, <1>4, <1>5
  <1> HIDE DEF r
  <1> QED BY <1>1, <1>3, <1>5, <1>6

-----------------------------------------------------------------------------
(* Sequences.                                                              *)

\* A finite set can be sorted.
LEMMA CanBeSorted ==
    ASSUME NEW S, IsFiniteSet(S), NEW R,
           \A m \in S : <<m, m>> \notin R,
           \A m, k, o \in S : <<m, k>> \in R /\ <<k, o>> \in R => <<m, o>> \in R,
           \A m, k \in S : m = k \/ <<m, k>> \in R \/ <<k, m>> \in R
    PROVE  \E seq \in SetToSeqs(S) :
             \A i, j \in DOMAIN seq : i < j => <<seq[i], seq[j]>> \in R
  <1> DEFINE Sorted(seq) == \A i, j \in DOMAIN seq : i < j => <<seq[i], seq[j]>> \in R
             good == {s \in SUBSET S : \E seq \in SetToSeqs(s) : Sorted(seq)}
             last == [s \in SUBSET S |-> CHOOSE m \in s : \A k \in s : <<m, k>> \notin R]
  <1>1. ASSUME NEW s \in SUBSET S, s # {}
        PROVE  last[s] \in s /\ \A k \in s : <<last[s], k>> \notin R
    <2>1. \E m \in s : \A k \in s : <<m, k>> \notin R
      <3>1. IsFiniteSet(s)
        BY FS_Subset
      <3>2. /\ \A m \in s : <<m, m>> \notin R
            /\ \A m, k, o \in s : <<m, k>> \in R /\ <<k, o>> \in R => <<m, o>> \in R
        OBVIOUS
      <3> QED BY <1>1, <3>1, <3>2, LastInOrder
    <2> QED BY <2>1
  <1>2. {} \in good
    <2> DEFINE none == [i \in 1..0 |-> 0]
    <2>1. Cardinality({}) = 0
      BY FS_EmptySet
    <2>2. none \in SetToSeqs({}) /\ Sorted(none)
      BY <2>1 DEF SetToSeqs
    <2> QED BY <2>2
  <1>3. ASSUME NEW s \in SUBSET S, s # {}, s \ {last[s]} \in good PROVE s \in good
    <2> DEFINE m == last[s]
               n == Cardinality(s)
    <2>1. m \in s /\ \A k \in s : <<m, k>> \notin R
      BY <1>1, <1>3
    <2>2. IsFiniteSet(s) /\ n \in Nat /\ Cardinality(s \ {m}) = n - 1 /\ n # 0
      BY <1>3, <2>1, FS_Subset, FS_CardinalityType, FS_RemoveElement, FS_EmptySet
    <2>3. PICK q \in SetToSeqs(s \ {m}) : Sorted(q)
      BY <1>3
    <2> HIDE DEF last, m, n, good
    <2>4. /\ q \in [1..(n - 1) -> s \ {m}] /\ DOMAIN q = 1..(n - 1)
          /\ \A i, j \in 1..(n - 1) : i # j => q[i] # q[j]
      BY <2>2, <2>3 DEF SetToSeqs
    <2> DEFINE seq == [i \in 1..n |-> IF i = n THEN m ELSE q[i]]
    <2>5. \A i \in 1..n : i # n => i \in 1..(n - 1)
      BY <2>2
    <2>6. seq \in [1..n -> s] /\ \A i, j \in 1..n : i # j => seq[i] # seq[j]
      BY <2>1, <2>4, <2>5
    <2>7. seq \in SetToSeqs(s)
      BY <2>6 DEF SetToSeqs, n
    <2>8. ASSUME NEW i \in 1..n, NEW j \in 1..n, i < j PROVE <<seq[i], seq[j]>> \in R
      <3>1. i # n /\ i \in 1..(n - 1)
        BY <2>2, <2>8
      <3>2. CASE j = n
        <4>1. seq[i] = q[i] /\ q[i] \in s \ {m} /\ seq[j] = m
          BY <2>4, <3>1, <3>2
        <4> QED BY <2>1, <4>1
      <3>3. CASE j # n
        <4>1. seq[i] = q[i] /\ seq[j] = q[j] /\ j \in 1..(n - 1)
          BY <2>5, <3>1, <3>3
        <4> QED BY <2>3, <2>4, <2>8, <3>1, <4>1
      <3> QED BY <3>2, <3>3
    <2>9. Sorted(seq)
      BY <2>6, <2>8
    <2> QED BY <2>7, <2>9 DEF good
  <1>4. S \in good
    <2> HIDE DEF good, last
    <2>1. \A s \in SUBSET S : s # {} => last[s] \in s /\ (s \ {last[s]} \in good => s \in good)
      BY <1>1, <1>3
    <2> QED BY <1>2, <2>1, OneByOne
  <1> QED BY <1>4

\* The n pieces of length k that a sequence is made of.
Follow(flat, pieces, n, k) ==
    \A i \in 1..n, j \in 1..k :
        /\ (i - 1) * k + j \in 1..(n * k)
        /\ flat[(i - 1) * k + j] = pieces[i][j]

\* Flattened pieces of one length follow each other.
LEMMA EqualPieces ==
    ASSUME NEW X, NEW n \in Nat, NEW k \in Nat, NEW seqs \in [1..n -> [1..k -> X]]
    PROVE  FlattenSeq(seqs) \in [1..(n * k) -> X] /\ Follow(FlattenSeq(seqs), seqs, n, k)
  <1> USE DEF Follow
  <1> DEFINE step == [t \in Nat |-> [s \in Seq(X) |-> IF t \in 1..n THEN s \o seqs[t] ELSE s]]
             OneMore(f, i) == IF i = 1 THEN seqs[i] ELSE f[i - 1] \o seqs[i]
             flatten == CHOOSE f : f = [i \in 1..n |-> OneMore(f, i)]
  <1>1. seqs \in Seq([1..k -> X]) /\ Len(seqs) = n
    <2>1. seqs \in Seq([1..k -> X])
      BY SeqDef
    <2> QED BY <2>1, LenProperties
  <1>2. \A i \in 1..n : seqs[i] \in Seq(X) /\ Len(seqs[i]) = k
    <2> TAKE i \in 1..n
    <2>1. seqs[i] \in [1..k -> X]
      OBVIOUS
    <2>2. seqs[i] \in Seq(X)
      BY <2>1, SeqDef
    <2>3. Len(seqs[i]) \in Nat /\ DOMAIN seqs[i] = 1..Len(seqs[i]) /\ DOMAIN seqs[i] = 1..k
      BY <2>1, <2>2, LenProperties
    <2> DEFINE l == Len(seqs[i])
    <2> HIDE DEF l
    <2>4. l \in Nat /\ 1..l = 1..k
      BY <2>3 DEF l
    <2>5. l = k
      BY <2>4
    <2> QED BY <2>2, <2>5 DEF l
  <1>3. step \in [Nat -> [Seq(X) -> Seq(X)]] /\ <<>> \in Seq(X)
    <2>1. \A t \in Nat, s \in Seq(X) : (IF t \in 1..n THEN s \o seqs[t] ELSE s) \in Seq(X)
      BY <1>2
    <2>2. <<>> \in Seq(X)
      BY EmptySeq
    <2> QED BY <2>1, <2>2
  <1>4. PICK g : Iterates(g, Seq(X), <<>>, step, n)
    <2> HIDE DEF step
    <2> QED BY <1>3, Recursion
  <1>5. /\ g \in [0..n -> Seq(X)] /\ g[0] = <<>>
        /\ \A t \in 1..n : g[t] = g[t - 1] \o seqs[t]
    <2>1. g \in [0..n -> Seq(X)] /\ g[0] = <<>>
      BY <1>4 DEF Iterates
    <2>2. ASSUME NEW t \in 1..n PROVE g[t] = g[t - 1] \o seqs[t]
      <3>1. g[t] = step[t][g[t - 1]]
        BY <1>4 DEF Iterates
      <3>2. t \in Nat /\ t - 1 \in 0..n
        OBVIOUS
      <3>3. g[t - 1] \in Seq(X)
        BY <2>1, <3>2
      <3> QED BY <3>1, <3>2, <3>3
    <2> QED BY <2>1, <2>2
  <1>6. flatten = [i \in 1..n |-> OneMore(flatten, i)]
    <2> DEFINE f == [i \in 1..n |-> g[i]]
    <2>1. ASSUME NEW i \in 1..n PROVE f[i] = OneMore(f, i)
      <3>1. CASE i = 1
        <4>1. g[1] = <<>> \o seqs[1]
          <5>1. 1 \in 1..n /\ 1 - 1 = 0
            BY <3>1
          <5>2. g[1] = g[1 - 1] \o seqs[1]
            BY <1>5, <5>1
          <5> QED BY <1>5, <5>1, <5>2
        <4>2. <<>> \o seqs[1] = seqs[1]
          BY <1>2, <3>1, ConcatEmptySeq
        <4> QED BY <3>1, <4>1, <4>2
      <3>2. CASE i # 1
        <4>1. i - 1 \in 1..n
          BY <3>2
        <4> QED BY <1>5, <3>2, <4>1
      <3> QED BY <3>1, <3>2
    <2>2. f = [i \in 1..n |-> OneMore(f, i)]
      <3> HIDE DEF OneMore
      <3> QED BY <2>1
    <2> HIDE DEF f, OneMore
    <2> QED BY <2>2
  <1> HIDE DEF flatten
  <1> DEFINE Right(i) ==
               /\ flatten[i] \in Seq(X) /\ Len(flatten[i]) = i * k
               /\ \A h \in 1..i, j \in 1..k :
                    (h - 1) * k + j \in 1..(i * k) /\ flatten[i][(h - 1) * k + j] = seqs[h][j]
             bad == {i \in 1..n : ~Right(i)}
  <1>7. \A h, i \in Nat, j \in 1..k : h >= 1 /\ h <= i => (h - 1) * k + j \in 1..(i * k)
    <2> SUFFICES ASSUME NEW h \in Nat, NEW i \in Nat, NEW j \in 1..k, h >= 1, h <= i
                 PROVE  (h - 1) * k + j \in 1..(i * k)
      OBVIOUS
    <2>1. (i - h) * k >= 0 /\ (h - 1) * k >= 0
      BY Z3
    <2>2. i * k = (i - h) * k + (h - 1) * k + k
      BY Z3
    <2>3. (h - 1) * k \in Int /\ (i - h) * k \in Int /\ i * k \in Int
      OBVIOUS
    <2> QED BY <2>1, <2>2, <2>3
  <1>8. bad = {}
    <2> SUFFICES ASSUME bad # {} PROVE FALSE
      OBVIOUS
    <2>1. PICK i \in bad : \A h \in bad : i <= h
      <3>1. bad \subseteq Nat
        OBVIOUS
      <3> HIDE DEF bad
      <3> QED BY <3>1, LeastNumber
    <2>2. i \in 1..n /\ ~Right(i)
      OBVIOUS
    <2>3. flatten[i] = OneMore(flatten, i)
      BY <1>6, <2>2
    <2>4. CASE i = 1
      <3>1. flatten[1] = seqs[1]
        BY <2>3, <2>4
      <3>2. Right(1)
        BY <1>2, <2>2, <2>4, <3>1
      <3> QED BY <2>2, <2>4, <3>2
    <2>5. CASE i # 1
      <3>1. i - 1 \in 1..n /\ ~(i <= i - 1)
        BY <2>2, <2>5
      <3>2. Right(i - 1)
        BY <2>1, <3>1
      <3> DEFINE s == flatten[i - 1]
                 m == (i - 1) * k
      <3>3. s \in Seq(X) /\ Len(s) = m /\ m \in Nat
        BY <3>2
      <3>4. flatten[i] = s \o seqs[i]
        BY <2>3, <2>5
      <3>5. i * k = m + k /\ i * k \in Nat
        BY <2>2, Z3
      <3> HIDE DEF s, m
      <3>6. flatten[i] \in Seq(X) /\ Len(flatten[i]) = m + k
        <4>1. seqs[i] \in Seq(X) /\ Len(seqs[i]) = k
          BY <1>2, <2>2
        <4>2. s \o seqs[i] \in Seq(X) /\ Len(s \o seqs[i]) = Len(s) + Len(seqs[i])
          BY <3>3, <4>1, ConcatProperties
        <4> QED BY <3>3, <3>4, <4>1, <4>2
      <3>7. \A p \in 1..m : flatten[i][p] = s[p]
        BY <1>2, <2>2, <3>3, <3>4
      <3>8. \A j \in 1..k : flatten[i][m + j] = seqs[i][j]
        BY <1>2, <2>2, <3>3, <3>4
      <3>9. ASSUME NEW h \in 1..i, NEW j \in 1..k
            PROVE  (h - 1) * k + j \in 1..(i * k) /\ flatten[i][(h - 1) * k + j] = seqs[h][j]
        <4>1. (h - 1) * k + j \in 1..(i * k)
          <5>1. h \in Nat /\ i \in Nat /\ h >= 1 /\ h <= i
            BY <2>2
          <5> QED BY <1>7, <5>1
        <4>2. CASE h = i
          BY <3>8, <4>1, <4>2 DEF m
        <4>3. CASE h # i
          <5>1. h \in 1..(i - 1)
            BY <4>3
          <5>2. (h - 1) * k + j \in 1..m /\ s[(h - 1) * k + j] = seqs[h][j]
            BY <3>2, <5>1 DEF s, m
          <5> QED BY <3>7, <4>1, <5>2
        <4> QED BY <4>2, <4>3
      <3>10. Right(i)
        BY <3>5, <3>6, <3>9
      <3> QED BY <2>2, <3>10
    <2> QED BY <2>4, <2>5
  <1>9. CASE n = 0
    <2>1. FlattenSeq(seqs) = seqs
      BY <1>1, <1>9 DEF FlattenSeq
    <2>2. n * k = 0
      BY <1>9
    <2>3. seqs \in [1..0 -> X]
      BY <1>9
    <2> QED BY <1>9, <2>1, <2>2, <2>3
  <1>10. CASE n # 0
    <2>1. n \in 1..n
      BY <1>10
    <2>2. Right(n)
      BY <1>8, <2>1
    <2>3. FlattenSeq(seqs) = flatten[n]
      BY <1>1, <1>10 DEF FlattenSeq, flatten
    <2>4. flatten[n] \in [1..(n * k) -> X]
      BY <2>2, LenProperties
    <2> QED BY <2>2, <2>3, <2>4
  <1> QED BY <1>9, <1>10

\* Every place in a sequence of such pieces is in one of them.
LEMMA PieceOf ==
    ASSUME NEW n \in Nat, NEW k \in Nat, NEW p \in 1..(n * k)
    PROVE  \E i \in 1..n, j \in 1..k : p = (i - 1) * k + j
  <1> DEFINE ends == {i \in 1..n : p <= i * k}
  <1>1. n * k \in Nat /\ n # 0 /\ k # 0
    BY Z3
  <1>2. n \in ends
    BY <1>1
  <1>3. PICK i \in ends : \A h \in ends : i <= h
    <2>1. ends \subseteq Nat
      OBVIOUS
    <2> HIDE DEF ends
    <2> QED BY <1>2, <2>1, LeastNumber
  <1>4. i \in 1..n /\ p <= i * k
    OBVIOUS
  <1> DEFINE m == (i - 1) * k
  <1>5. m \in Int /\ i * k = m + k
    BY <1>4, Z3
  <1>6. p > m
    <2>1. CASE i = 1
      BY <2>1
    <2>2. CASE i # 1
      <3>1. i - 1 \in 1..n /\ i - 1 \notin ends
        BY <1>3, <1>4, <2>2
      <3> QED BY <1>5, <3>1
    <2> QED BY <2>1, <2>2
  <1> HIDE DEF m, ends
  <1>7. p - m \in 1..k /\ p = m + (p - m)
    BY <1>4, <1>5, <1>6
  <1> QED BY <1>4, <1>7 DEF m

\* A list has as many members as places just if no two places have the same.
LEMMA Distinct ==
    ASSUME NEW n \in Nat, NEW f, NEW T, T = {f[i] : i \in 1..n}
    PROVE  /\ IsFiniteSet(T)
           /\ Cardinality(T) = n <=> \A i, j \in 1..n : f[i] = f[j] => i = j
  <1> DEFINE g == [i \in 1..n |-> f[i]]
  <1>1. g \in Surjection(1..n, T)
    BY DEF Surjection
  <1>2. IsFiniteSet(1..n) /\ Cardinality(1..n) = n
    BY FS_Interval
  <1>3. g \in Injection(1..n, T) <=> \A i, j \in 1..n : f[i] = f[j] => i = j
    <2>1. g \in [1..n -> T] /\ \A i \in 1..n : g[i] = f[i]
      OBVIOUS
    <2> HIDE DEF g
    <2>2. IsInjective(g) <=> \A i, j \in 1..n : f[i] = f[j] => i = j
      BY <2>1 DEF IsInjective
    <2> QED BY <2>1, <2>2 DEF Injection
  <1> HIDE DEF g
  <1> QED BY <1>1, <1>2, <1>3, FS_Surjection

\* What no number of a set exceeds is its maximum; a finite set has one.
LEMMA MaxIs ==
    ASSUME NEW S, S \subseteq Int, NEW x \in S, \A y \in S : y <= x PROVE Max(S) = x
  <1>1. \A y \in S : x >= y
    OBVIOUS
  <1> DEFINE c == CHOOSE z \in S : \A y \in S : z >= y
  <1>2. c \in S /\ \A y \in S : c >= y
    BY <1>1
  <1>3. Max(S) = c
    BY DEF Max
  <1> HIDE DEF c
  <1>4. c >= x /\ c <= x /\ c \in Int /\ x \in Int
    BY <1>2
  <1> QED BY <1>3, <1>4

LEMMA FiniteMax ==
    ASSUME NEW S \in SUBSET Nat, S # {}, IsFiniteSet(S)
    PROVE  Max(S) \in S /\ \A y \in S : y <= Max(S)
  <1> DEFINE R == {p \in Nat \X Nat : p[1] < p[2]}
  <1>1. \A m, k \in S : <<m, k>> \in R <=> m < k
    OBVIOUS
  <1>2. /\ \A m \in S : <<m, m>> \notin R
        /\ \A m, k, o \in S : <<m, k>> \in R /\ <<k, o>> \in R => <<m, o>> \in R
    BY <1>1
  <1>3. \E m \in S : \A k \in S : <<m, k>> \notin R
    <2> HIDE DEF R
    <2> QED BY <1>2, LastInOrder
  <1>4. \E m \in S : \A k \in S : m >= k
    <2>1. PICK m \in S : \A k \in S : <<m, k>> \notin R
      BY <1>3
    <2>2. ASSUME NEW k \in S PROVE m >= k
      <3>1. ~(m < k) /\ m \in Nat /\ k \in Nat
        BY <1>1, <2>1
      <3> QED BY <3>1
    <2> QED BY <2>2
  <1>5. Max(S) \in S /\ \A y \in S : Max(S) >= y
    BY <1>4 DEF Max
  <1> QED BY <1>5

-----------------------------------------------------------------------------
(* Sums.                                                                   *)

\* The sum of the values of a function on a finite set.
Total(f, S) == MapThenSumSet(LAMBDA x : f[x], S)

One(s) == CHOOSE x \in s : TRUE

\* How it is summed up: one element after another.
Sums(g, f, S) ==
    /\ g \in [SUBSET S -> Int] /\ g[{}] = 0
    /\ \A s \in SUBSET S : s # {} => g[s] = f[One(s)] + g[s \ {One(s)}]

LEMMA SumsExist ==
    ASSUME NEW S, IsFiniteSet(S), NEW f, \A x \in S : f[x] \in Int
    PROVE  \E g : Sums(g, f, S)
  <1> DEFINE step == [x \in S |-> [v \in Int |-> f[x] + v]]
             last == [s \in SUBSET S |-> One(s)]
  <1>1. step \in [S -> [Int -> Int]] /\ \A x \in S, v \in Int : step[x][v] = f[x] + v
    OBVIOUS
  <1>2. \A s \in SUBSET S : s # {} => last[s] \in s /\ last[s] = One(s)
    BY DEF One
  <1> HIDE DEF step, last
  <1>0. PICK zero \in Int : zero = 0
    OBVIOUS
  <1>3. PICK g : Gathers(g, S, Int, zero, step, last)
    BY <1>1, <1>2, Gathering
  <1>4. ASSUME NEW s \in SUBSET S, s # {} PROVE g[s] = f[One(s)] + g[s \ {One(s)}]
    <2>1. last[s] = One(s) /\ One(s) \in S /\ s \ {One(s)} \in SUBSET S
      BY <1>2, <1>4
    <2>2. g[s] = step[One(s)][g[s \ {One(s)}]] /\ g[s \ {One(s)}] \in Int
      BY <1>3, <1>4, <2>1 DEF Gathers
    <2> QED BY <1>1, <2>1, <2>2
  <1> QED BY <1>0, <1>3, <1>4 DEF Sums, Gathers

LEMMA TotalIsLast ==
    ASSUME NEW S, IsFiniteSet(S), NEW f, NEW g, Sums(g, f, S) PROVE Total(f, S) = g[S]
  <1> DEFINE Round(h) == [s \in SUBSET S |-> IF s = {} THEN 0 ELSE f[One(s)] + h[s \ {One(s)}]]
             iter == CHOOSE h : h = Round(h)
             last == [s \in SUBSET S |-> One(s)]
             good == {s \in SUBSET S : iter[s] = g[s]}
  <1>1. Total(f, S) = iter[S]
    BY DEF Total, MapThenSumSet, MapThenFoldSet, One
  <1>2. g = Round(g)
    BY DEF Sums
  <1>3. iter = Round(iter)
    <2> HIDE DEF Round
    <2> QED BY <1>2
  <1>4. \A s \in SUBSET S : iter[s] = IF s = {} THEN 0 ELSE f[One(s)] + iter[s \ {One(s)}]
    <2> HIDE DEF iter
    <2> QED BY <1>3
  <1> HIDE DEF iter, Round
  <1>5. {} \in good
    BY <1>4 DEF Sums
  <1>6. ASSUME NEW s \in SUBSET S, s # {}
        PROVE  last[s] \in s /\ (s \ {last[s]} \in good => s \in good)
    <2>1. last[s] = One(s) /\ One(s) \in s
      BY <1>6 DEF One
    <2>2. ASSUME s \ {One(s)} \in good PROVE iter[s] = g[s]
      BY <1>4, <1>6, <2>2 DEF Sums
    <2> QED BY <2>1, <2>2
  <1> HIDE DEF good, last
  <1>7. S \in good
    BY <1>5, <1>6, OneByOne
  <1> QED BY <1>1, <1>7 DEF good

LEMMA SumsOfParts ==
    ASSUME NEW S, IsFiniteSet(S), NEW f, NEW g, Sums(g, f, S), NEW T \in SUBSET S
    PROVE  Total(f, T) = g[T]
  <1> DEFINE h == [s \in SUBSET T |-> g[s]]
  <1>1. h \in [SUBSET T -> Int] /\ \A s \in SUBSET T : h[s] = g[s] /\ s \in SUBSET S
    BY DEF Sums
  <1> HIDE DEF h
  <1>2. ASSUME NEW s \in SUBSET T, s # {} PROVE h[s] = f[One(s)] + h[s \ {One(s)}]
    BY <1>1, <1>2 DEF Sums
  <1>3. Sums(h, f, T)
    BY <1>1, <1>2 DEF Sums
  <1>4. IsFiniteSet(T)
    BY FS_Subset
  <1> QED BY <1>1, <1>3, <1>4, TotalIsLast

LEMMA TotalWithout ==
    ASSUME NEW S, IsFiniteSet(S), NEW f, \A x \in S : f[x] \in Int
    PROVE  /\ Total(f, S) \in Int /\ Total(f, {}) = 0
           /\ \A a \in S : Total(f, S) = f[a] + Total(f, S \ {a})
  <1>1. PICK g : Sums(g, f, S)
    BY SumsExist
  <1>2. \A s \in SUBSET S : Total(f, s) = g[s] /\ g[s] \in Int
    <2> TAKE s \in SUBSET S
    <2>1. Total(f, s) = g[s]
      BY <1>1, SumsOfParts
    <2> QED BY <1>1, <2>1 DEF Sums
  <1> DEFINE bad == {Cardinality(s) : s \in {t \in SUBSET S : \E a \in t : g[t] # f[a] + g[t \ {a}]}}
  <1>3. \A s \in SUBSET S : IsFiniteSet(s) /\ Cardinality(s) \in Nat
    BY FS_Subset, FS_CardinalityType
  <1>4. bad = {}
    <2> SUFFICES ASSUME bad # {} PROVE FALSE
      OBVIOUS
    <2>1. PICK n \in bad : \A k \in bad : n <= k
      <3>1. bad \subseteq Nat
        BY <1>3
      <3> HIDE DEF bad
      <3> QED BY <3>1, LeastNumber
    <2>0. PICK s \in SUBSET S : n = Cardinality(s) /\ \E a \in s : g[s] # f[a] + g[s \ {a}]
      BY <2>1
    <2>2. PICK a \in s : n = Cardinality(s) /\ g[s] # f[a] + g[s \ {a}]
      BY <2>0
    <2>3. \A t \in SUBSET S : Cardinality(t) < n => \A b \in t : g[t] = f[b] + g[t \ {b}]
      <3> SUFFICES ASSUME NEW t \in SUBSET S, Cardinality(t) < n, NEW b \in t, g[t] # f[b] + g[t \ {b}]
                   PROVE  FALSE
        OBVIOUS
      <3>1. Cardinality(t) \in bad
        OBVIOUS
      <3> HIDE DEF bad
      <3>2. n <= Cardinality(t)
        BY <2>1, <3>1
      <3> QED BY <1>3, <2>2, <3>2
    <2> DEFINE o == One(s)
    <2>4. o \in s /\ g[s] = f[o] + g[s \ {o}]
      <3>1. s # {}
        OBVIOUS
      <3> QED BY <1>1, <3>1 DEF Sums, One
    <2> HIDE DEF o, bad
    <2>5. Cardinality(s \ {o}) < n /\ Cardinality(s \ {a}) < n
      BY <1>3, <2>2, <2>4, FS_RemoveElement
    <2>6. a # o
      BY <2>2, <2>4
    <2>7. g[s \ {o}] = f[a] + g[(s \ {o}) \ {a}]
      BY <2>3, <2>5, <2>6
    <2>8. g[s \ {a}] = f[o] + g[(s \ {a}) \ {o}]
      BY <2>3, <2>4, <2>5, <2>6
    <2>9. (s \ {a}) \ {o} = (s \ {o}) \ {a} /\ (s \ {a}) \ {o} \in SUBSET S /\ a \in S /\ o \in S
      BY <2>4
    <2>10. f[a] \in Int /\ f[o] \in Int /\ g[(s \ {a}) \ {o}] \in Int
      BY <1>2, <2>9
    <2>11. PICK z \in Int : z = g[(s \ {a}) \ {o}]
      BY <2>10
    <2>12. g[s \ {o}] = f[a] + z /\ g[s \ {a}] = f[o] + z
      BY <2>7, <2>8, <2>9, <2>11
    <2>13. g[s] = f[a] + g[s \ {a}]
      BY <2>4, <2>10, <2>12
    <2> QED BY <2>2, <2>13
  <1>5. \A a \in S : g[S] = f[a] + g[S \ {a}]
    <2>1. ASSUME NEW a \in S, g[S] # f[a] + g[S \ {a}] PROVE Cardinality(S) \in bad
      <3>1. S \in {t \in SUBSET S : \E b \in t : g[t] # f[b] + g[t \ {b}]}
        BY <2>1
      <3> QED BY <3>1
    <2> HIDE DEF bad
    <2> QED BY <1>4, <2>1
  <1>6. g[{}] = 0
    BY <1>1 DEF Sums
  <1> QED BY <1>2, <1>5, <1>6

\* To sum up functions that agree.
LEMMA TotalWithin ==
    ASSUME NEW S, IsFiniteSet(S), NEW f, NEW g,
           \A x \in S : f[x] \in Int /\ g[x] \in Int /\ f[x] <= g[x]
    PROVE  Total(f, S) <= Total(g, S)
  <1> DEFINE last == [s \in SUBSET S |-> One(s)]
             good == {s \in SUBSET S : Total(f, s) <= Total(g, s)}
  <1>1. \A s \in SUBSET S : IsFiniteSet(s)
    BY FS_Subset
  <1>2. ASSUME NEW s \in SUBSET S
        PROVE  /\ Total(f, s) \in Int /\ Total(g, s) \in Int /\ Total(f, {}) = 0 /\ Total(g, {}) = 0
               /\ \A a \in s : Total(f, s) = f[a] + Total(f, s \ {a})
               /\ \A a \in s : Total(g, s) = g[a] + Total(g, s \ {a})
    BY <1>1, TotalWithout
  <1>3. ASSUME NEW s \in SUBSET S, s # {}
        PROVE  last[s] \in s /\ (s \ {last[s]} \in good => s \in good)
    <2>1. last[s] = One(s) /\ One(s) \in s
      BY <1>3 DEF One
    <2> DEFINE o == One(s)
    <2> HIDE DEF o
    <2>2. ASSUME Total(f, s \ {o}) <= Total(g, s \ {o}) PROVE Total(f, s) <= Total(g, s)
      <3>1. o \in s /\ o \in S /\ s \ {o} \in SUBSET S
        BY <2>1 DEF o
      <3>2. Total(f, s) = f[o] + Total(f, s \ {o}) /\ Total(g, s) = g[o] + Total(g, s \ {o})
        BY <1>2, <3>1
      <3>3. Total(f, s \ {o}) \in Int /\ Total(g, s \ {o}) \in Int
        BY <1>2, <3>1
      <3>4. f[o] \in Int /\ g[o] \in Int /\ f[o] <= g[o]
        BY <3>1
      <3> QED BY <2>2, <3>2, <3>3, <3>4
    <2> QED BY <2>1, <2>2 DEF o
  <1>4. {} \in good
    BY <1>2
  <1> HIDE DEF good, last
  <1>5. S \in good
    BY <1>3, <1>4, OneByOne
  <1> QED BY <1>5 DEF good

LEMMA TotalSame ==
    ASSUME NEW S, IsFiniteSet(S), NEW f, NEW g, \A x \in S : f[x] \in Int /\ f[x] = g[x]
    PROVE  Total(f, S) = Total(g, S)
  <1>1. Total(f, S) \in Int /\ Total(g, S) \in Int
    BY TotalWithout
  <1>2. Total(f, S) <= Total(g, S) /\ Total(g, S) <= Total(f, S)
    BY TotalWithin
  <1> QED BY <1>1, <1>2

LEMMA TotalUnion ==
    ASSUME NEW S, IsFiniteSet(S), NEW T, IsFiniteSet(T), S \cap T = {},
           NEW f, \A x \in S \cup T : f[x] \in Int
    PROVE  Total(f, S \cup T) = Total(f, S) + Total(f, T)
  <1> DEFINE last == [s \in SUBSET S |-> One(s)]
             good == {s \in SUBSET S : Total(f, s \cup T) = Total(f, s) + Total(f, T)}
  <1>1. \A s \in SUBSET S : IsFiniteSet(s) /\ IsFiniteSet(s \cup T)
    BY FS_Subset, FS_Union
  <1>2. ASSUME NEW s \in SUBSET S
        PROVE  /\ Total(f, s) \in Int /\ Total(f, s \cup T) \in Int /\ Total(f, {}) = 0 /\ Total(f, T) \in Int
               /\ \A a \in s : Total(f, s) = f[a] + Total(f, s \ {a})
               /\ \A a \in s \cup T : Total(f, s \cup T) = f[a] + Total(f, (s \cup T) \ {a})
    BY <1>1, TotalWithout
  <1>3. ASSUME NEW s \in SUBSET S, s # {}
        PROVE  last[s] \in s /\ (s \ {last[s]} \in good => s \in good)
    <2>1. last[s] = One(s) /\ One(s) \in s
      BY <1>3 DEF One
    <2> DEFINE o == One(s)
    <2> HIDE DEF o
    <2>2. ASSUME Total(f, (s \ {o}) \cup T) = Total(f, s \ {o}) + Total(f, T)
          PROVE  Total(f, s \cup T) = Total(f, s) + Total(f, T)
      <3>1. o \in s /\ o \in S /\ o \notin T /\ s \ {o} \in SUBSET S
        BY <2>1 DEF o
      <3>2. (s \cup T) \ {o} = (s \ {o}) \cup T
        BY <3>1
      <3>3. Total(f, s) = f[o] + Total(f, s \ {o}) /\ Total(f, s \cup T) = f[o] + Total(f, (s \ {o}) \cup T)
        BY <1>2, <3>1, <3>2
      <3>4. Total(f, s \ {o}) \in Int /\ Total(f, T) \in Int /\ f[o] \in Int
        BY <1>2, <3>1
      <3> QED BY <2>2, <3>3, <3>4
    <2> QED BY <2>1, <2>2 DEF o
  <1>4. {} \in good
    <2>1. {} \cup T = T
      OBVIOUS
    <2> QED BY <1>2, <2>1
  <1> HIDE DEF good, last
  <1>5. S \in good
    BY <1>3, <1>4, OneByOne
  <1> QED BY <1>5 DEF good

\* To sum up over the elements that another set is made from.
LEMMA TotalImage ==
    ASSUME NEW S, IsFiniteSet(S), NEW h, \A x, y \in S : h[x] = h[y] => x = y,
           NEW f, NEW g, \A x \in S : f[x] \in Int /\ f[x] = g[h[x]]
    PROVE  Total(g, {h[x] : x \in S}) = Total(f, S)
  <1> DEFINE Image(s) == {h[x] : x \in s}
             last == [s \in SUBSET S |-> One(s)]
             good == {s \in SUBSET S : Total(g, Image(s)) = Total(f, s)}
  <1>1. \A s \in SUBSET S : IsFiniteSet(s) /\ IsFiniteSet(Image(s))
    <2> TAKE s \in SUBSET S
    <2>1. IsFiniteSet(s)
      BY FS_Subset
    <2> DEFINE m == [x \in s |-> h[x]]
    <2>2. m \in Surjection(s, Image(s))
      BY DEF Surjection
    <2> HIDE DEF m, Image
    <2> QED BY <2>1, <2>2, FS_Surjection
  <1>2. ASSUME NEW s \in SUBSET S
        PROVE  /\ Total(f, s) \in Int /\ Total(f, {}) = 0 /\ Total(g, {}) = 0
               /\ \A a \in s : Total(f, s) = f[a] + Total(f, s \ {a})
               /\ \A b \in Image(s) : Total(g, Image(s)) = g[b] + Total(g, Image(s) \ {b})
    <2>1. \A x \in s : f[x] \in Int
      OBVIOUS
    <2>2. \A b \in Image(s) : g[b] \in Int
      OBVIOUS
    <2> HIDE DEF Image
    <2> QED BY <1>1, <2>1, <2>2, TotalWithout
  <1>3. ASSUME NEW s \in SUBSET S, s # {}
        PROVE  last[s] \in s /\ (s \ {last[s]} \in good => s \in good)
    <2>1. last[s] = One(s) /\ One(s) \in s
      BY <1>3 DEF One
    <2> DEFINE o == One(s)
    <2> HIDE DEF o
    <2>2. ASSUME Total(g, Image(s \ {o})) = Total(f, s \ {o}) PROVE Total(g, Image(s)) = Total(f, s)
      <3>1. o \in s /\ o \in S /\ h[o] \in Image(s) /\ g[h[o]] = f[o]
        BY <2>1 DEF o
      <3>2. Image(s) \ {h[o]} = Image(s \ {o})
        BY <3>1
      <3> HIDE DEF Image
      <3>3. Total(f, s) = f[o] + Total(f, s \ {o})
        BY <1>2, <3>1
      <3>4. Total(g, Image(s)) = f[o] + Total(g, Image(s \ {o}))
        <4>1. Total(g, Image(s)) = g[h[o]] + Total(g, Image(s) \ {h[o]})
          BY <1>2, <3>1
        <4> QED BY <3>1, <3>2, <4>1
      <3> QED BY <2>2, <3>3, <3>4
    <2> QED BY <2>1, <2>2 DEF o
  <1>4. {} \in good
    <2>1. Image({}) = {}
      OBVIOUS
    <2> HIDE DEF Image
    <2> QED BY <1>2, <2>1
  <1> HIDE DEF good, last
  <1>5. S \in good
    BY <1>3, <1>4, OneByOne
  <1> QED BY <1>5 DEF good

\* Numbers that are no greater than one bound, or no less.
LEMMA TotalBound ==
    ASSUME NEW S, IsFiniteSet(S), NEW f, NEW c \in Int, \A x \in S : f[x] \in Int
    PROVE  /\ (\A x \in S : f[x] <= c) => Total(f, S) <= c * Cardinality(S)
           /\ (\A x \in S : f[x] >= c) => Total(f, S) >= c * Cardinality(S)
  <1> DEFINE last == [s \in SUBSET S |-> One(s)]
             g == [x \in S |-> c]
             good == {s \in SUBSET S : Total(g, s) = c * Cardinality(s)}
  <1>1. \A s \in SUBSET S : IsFiniteSet(s) /\ Cardinality(s) \in Nat
    BY FS_Subset, FS_CardinalityType
  <1>2. ASSUME NEW s \in SUBSET S
        PROVE  /\ Total(g, s) \in Int /\ Total(g, {}) = 0
               /\ \A a \in s : Total(g, s) = c + Total(g, s \ {a})
    <2>1. \A x \in s : g[x] = c /\ g[x] \in Int
      OBVIOUS
    <2> HIDE DEF g
    <2>2. Total(g, s) \in Int /\ Total(g, {}) = 0 /\ \A a \in s : Total(g, s) = g[a] + Total(g, s \ {a})
      BY <1>1, <2>1, TotalWithout
    <2> QED BY <2>1, <2>2
  <1>3. ASSUME NEW s \in SUBSET S, s # {}
        PROVE  last[s] \in s /\ (s \ {last[s]} \in good => s \in good)
    <2>1. last[s] = One(s) /\ One(s) \in s
      BY <1>3 DEF One
    <2> DEFINE o == One(s)
    <2> HIDE DEF o, g
    <2>2. ASSUME Total(g, s \ {o}) = c * Cardinality(s \ {o}) PROVE Total(g, s) = c * Cardinality(s)
      <3>1. o \in s /\ Cardinality(s) = Cardinality(s \ {o}) + 1 /\ Cardinality(s \ {o}) \in Nat
        BY <1>1, <2>1, FS_RemoveElement DEF o
      <3>2. Total(g, s) = c + Total(g, s \ {o})
        BY <1>2, <3>1
      <3>3. c * (Cardinality(s \ {o}) + 1) = c + c * Cardinality(s \ {o})
        BY <3>1, Z3
      <3> QED BY <2>2, <3>1, <3>2, <3>3
    <2> QED BY <2>1, <2>2 DEF o
  <1>4. {} \in good
    <2>1. Cardinality({}) = 0 /\ c * 0 = 0
      BY FS_EmptySet
    <2> HIDE DEF g
    <2> QED BY <1>2, <2>1
  <1> HIDE DEF good, last
  <1>5. S \in good
    BY <1>3, <1>4, OneByOne
  <1>6. Total(g, S) = c * Cardinality(S)
    BY <1>5 DEF good
  <1>7. \A x \in S : g[x] = c
    OBVIOUS
  <1> HIDE DEF g
  <1> QED BY <1>6, <1>7, TotalWithin

\* The size of a union of sets that have nothing in common.
Separate(cells, S) == \A x, y \in S : x # y => cells[x] \cap cells[y] = {}

LEMMA TotalSizes ==
    ASSUME NEW S, IsFiniteSet(S), NEW cells, \A x \in S : IsFiniteSet(cells[x]),
           Separate(cells, S), NEW f, \A x \in S : f[x] = Cardinality(cells[x])
    PROVE  Total(f, S) = Cardinality(UNION {cells[x] : x \in S})
  <1> DEFINE Un(s) == UNION {cells[x] : x \in s}
             last == [s \in SUBSET S |-> One(s)]
             good == {s \in SUBSET S : IsFiniteSet(Un(s)) /\ Total(f, s) = Cardinality(Un(s))}
  <1>1. \A x \in S : f[x] \in Nat
    BY FS_CardinalityType
  <1>2. ASSUME NEW s \in SUBSET S
        PROVE  Total(f, {}) = 0 /\ \A a \in s : Total(f, s) = f[a] + Total(f, s \ {a})
    <2>1. IsFiniteSet(s)
      BY FS_Subset
    <2>2. \A x \in s : f[x] \in Int
      BY <1>1
    <2> QED BY <2>1, <2>2, TotalWithout
  <1>3. ASSUME NEW s \in SUBSET S, s # {}
        PROVE  last[s] \in s /\ (s \ {last[s]} \in good => s \in good)
    <2>1. last[s] = One(s) /\ One(s) \in s
      BY <1>3 DEF One
    <2> DEFINE o == One(s)
    <2> HIDE DEF o
    <2>2. ASSUME IsFiniteSet(Un(s \ {o})), Total(f, s \ {o}) = Cardinality(Un(s \ {o}))
          PROVE  IsFiniteSet(Un(s)) /\ Total(f, s) = Cardinality(Un(s))
      <3>1. o \in s /\ o \in S
        BY <2>1 DEF o
      <3>2. Un(s) = Un(s \ {o}) \cup cells[o]
        BY <3>1
      <3>3. Un(s \ {o}) \cap cells[o] = {}
        BY <3>1 DEF Separate
      <3> HIDE DEF Un
      <3>4. IsFiniteSet(Un(s)) /\ Cardinality(Un(s)) = Cardinality(Un(s \ {o})) + Cardinality(cells[o]) - Cardinality({})
        <4> DEFINE A == Un(s \ {o})
                   B == cells[o]
        <4>1. IsFiniteSet(A) /\ IsFiniteSet(B) /\ A \cap B = {} /\ Un(s) = A \cup B
          BY <2>2, <3>1, <3>2, <3>3
        <4> HIDE DEF A, B
        <4>2. IsFiniteSet(A \cup B) /\ Cardinality(A \cup B) = Cardinality(A) + Cardinality(B) - Cardinality({})
          BY <4>1, FS_Union
        <4> QED BY <4>1, <4>2 DEF A, B
      <3>5. Total(f, s) = f[o] + Total(f, s \ {o}) /\ f[o] = Cardinality(cells[o]) /\ f[o] \in Nat
        BY <1>1, <1>2, <3>1
      <3>6. Cardinality({}) = 0 /\ Cardinality(Un(s \ {o})) \in Nat
        BY <2>2, FS_EmptySet, FS_CardinalityType
      <3> QED BY <2>2, <3>4, <3>5, <3>6
    <2> QED BY <2>1, <2>2 DEF o
  <1>4. {} \in good
    <2>1. Un({}) = {}
      OBVIOUS
    <2> HIDE DEF Un
    <2> QED BY <1>2, <2>1, FS_EmptySet
  <1> HIDE DEF good, last, Un
  <1>5. \A s \in SUBSET S : s # {} => last[s] \in s /\ (s \ {last[s]} \in good => s \in good)
    BY <1>3
  <1>6. S \in good
    BY <1>4, <1>5, OneByOne
  <1> QED BY <1>6 DEF good, Un

\* Whatever adds up the values of a function, one element after another, is its sum.
LEMMA AddedUp ==
    ASSUME NEW S, IsFiniteSet(S), NEW f, \A x \in S : f[x] \in Int
    PROVE  LET Body(h) == [s \in SUBSET S |-> IF s = {} THEN 0 ELSE f[One(s)] + h[s \ {One(s)}]]
           IN  (\E h : h = Body(h)) /\ \A h : h = Body(h) => h[S] = Total(f, S)
  <1> DEFINE Body(h) == [s \in SUBSET S |-> IF s = {} THEN 0 ELSE f[One(s)] + h[s \ {One(s)}]]
             last == [s \in SUBSET S |-> One(s)]
  <1>1. PICK g : Sums(g, f, S)
    BY SumsExist
  <1>2. Total(f, S) = g[S]
    BY <1>1, TotalIsLast
  <1>3. g = Body(g)
    BY <1>1 DEF Sums
  <1>4. ASSUME NEW h, h = Body(h) PROVE h[S] = g[S]
    <2> DEFINE good == {s \in SUBSET S : h[s] = g[s]}
    <2>1. \A s \in SUBSET S : h[s] = IF s = {} THEN 0 ELSE f[One(s)] + h[s \ {One(s)}]
      BY <1>4
    <2>2. {} \in good
      BY <1>1, <2>1 DEF Sums
    <2>3. ASSUME NEW s \in SUBSET S, s # {}
          PROVE  last[s] \in s /\ (s \ {last[s]} \in good => s \in good)
      <3>1. last[s] = One(s) /\ One(s) \in s
        BY <2>3 DEF One
      <3>2. ASSUME s \ {One(s)} \in good PROVE h[s] = g[s]
        BY <1>1, <2>1, <2>3, <3>2 DEF Sums
      <3> QED BY <3>1, <3>2
    <2> HIDE DEF good, last
    <2>4. S \in good
      BY <2>2, <2>3, OneByOne
    <2> QED BY <2>4 DEF good
  <1> HIDE DEF Body
  <1>5. (\E h : h = Body(h)) /\ \A h : h = Body(h) => h[S] = Total(f, S)
    BY <1>2, <1>3, <1>4
  <1> QED BY <1>5 DEF Body

\* How long the slowest team takes for each module; the solver has the sum of it.

\* The same, in the other order of the two summands.
LEMMA AddedOneByOne ==
    ASSUME NEW S, IsFiniteSet(S), NEW f, \A x \in S : f[x] \in Int
    PROVE  LET Body(h) == [s \in SUBSET S |-> IF s = {} THEN 0 ELSE h[s \ {One(s)}] + f[One(s)]]
           IN  (\E h : h = Body(h)) /\ \A h : h = Body(h) => h[S] = Total(f, S)
  <1> DEFINE Body(h) == [s \in SUBSET S |-> IF s = {} THEN 0 ELSE h[s \ {One(s)}] + f[One(s)]]
             last == [s \in SUBSET S |-> One(s)]
  <1>1. PICK g : Sums(g, f, S)
    BY SumsExist
  <1>2. Total(f, S) = g[S]
    BY <1>1, TotalIsLast
  <1>3. \A s \in SUBSET S : s # {} => /\ One(s) \in s /\ s \ {One(s)} \in SUBSET S
                                      /\ g[s \ {One(s)}] \in Int /\ f[One(s)] \in Int
                                      /\ g[s] = g[s \ {One(s)}] + f[One(s)]
    <2> TAKE s \in SUBSET S
    <2> HAVE s # {}
    <2>1. One(s) \in s
      BY DEF One
    <2>2. g[s \ {One(s)}] \in Int /\ f[One(s)] \in Int /\ g[s] = f[One(s)] + g[s \ {One(s)}]
      BY <1>1, <2>1 DEF Sums
    <2> QED BY <2>1, <2>2
  <1>4. g = Body(g)
    <2>1. \A s \in SUBSET S : g[s] = IF s = {} THEN 0 ELSE g[s \ {One(s)}] + f[One(s)]
      BY <1>1, <1>3 DEF Sums
    <2>2. g \in [SUBSET S -> Int]
      BY <1>1 DEF Sums
    <2> QED BY <2>1, <2>2
  <1>5. ASSUME NEW h, h = Body(h) PROVE h[S] = g[S]
    <2> DEFINE good == {s \in SUBSET S : h[s] = g[s]}
    <2>1. \A s \in SUBSET S : h[s] = IF s = {} THEN 0 ELSE h[s \ {One(s)}] + f[One(s)]
      BY <1>5
    <2>2. {} \in good
      BY <1>1, <2>1 DEF Sums
    <2>3. ASSUME NEW s \in SUBSET S, s # {}
          PROVE  last[s] \in s /\ (s \ {last[s]} \in good => s \in good)
      <3>1. last[s] = One(s) /\ One(s) \in s
        BY <2>3 DEF One
      <3>2. ASSUME s \ {One(s)} \in good PROVE h[s] = g[s]
        BY <1>3, <2>1, <2>3, <3>2
      <3> QED BY <3>1, <3>2
    <2> HIDE DEF good, last
    <2>4. S \in good
      BY <2>2, <2>3, OneByOne
    <2> QED BY <2>4 DEF good
  <1> HIDE DEF Body
  <1>6. (\E h : h = Body(h)) /\ \A h : h = Body(h) => h[S] = Total(f, S)
    BY <1>2, <1>4, <1>5
  <1> QED BY <1>6 DEF Body
=============================================================================
