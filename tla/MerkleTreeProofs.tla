--------------------------- MODULE MerkleTreeProofs ---------------------------
(***************************************************************************)
(* For trees of every number of leaves: what the functions of module       *)
(* MerkleTree compute, unfolded turn by turn; that with the Rust builder   *)
(* the verifier accepts the proof made for each leaf; and that with either *)
(* builder it accepts no leaf the tree was not built from.                 *)
(***************************************************************************)
EXTENDS MerkleTree, SequenceTheorems, WellFoundedInduction, TLAPS

IsList(s) == Len(s) \in Nat /\ s = [i \in 1..Len(s) |-> s[i]]

-------------------------------------------------------------------------------
(***************************************************************************)
(* Induction, in the form the provers can use: over a set of naturals.     *)
(***************************************************************************)

\* Every nonempty set of naturals has a least element.
LEMMA LeastElement ==
  ASSUME NEW T, T \subseteq Nat, T # {}
  PROVE  \E x \in T : \A y \in T : ~(y < x)
  <1>1. IsWellFoundedOn(OpToRel(<, Nat), Nat)
    BY NatLessThanWellFounded
  <1> DEFINE R == {ss \in Nat \X Nat : ss[1] < ss[2]}
  <1>2. OpToRel(<, Nat) = R
    BY DEF OpToRel
  <1>3. IsWellFoundedOn(R, Nat)
    BY <1>1, <1>2
  <1>4. \E x \in T : \A y \in T : ~(<<y, x>> \in R)
    <2> HIDE DEF R
    <2> QED
      BY <1>3, WFMin
  <1> QED
    BY <1>4

\* A set that holds zero and with each number the next one holds them all.
LEMMA InductionSet ==
  ASSUME NEW S, 0 \in S, \A n \in Nat : n \in S => n + 1 \in S
  PROVE  Nat \subseteq S
  <1> SUFFICES ASSUME Nat \ S # {} PROVE FALSE
    OBVIOUS
  <1>1. PICK x \in Nat \ S : \A y \in Nat \ S : ~(y < x)
    BY LeastElement
  <1>2. x # 0 /\ x - 1 \in Nat
    BY <1>1
  <1>3. x - 1 \in S
    BY <1>1, <1>2
  <1> QED
    BY <1>1, <1>2, <1>3

-------------------------------------------------------------------------------
(***************************************************************************)
(* The recursive functions are what their equations say.                   *)
(***************************************************************************)

IsLevelsUp(up, leaves, n) ==
  up = [d \in 1..n |-> IF d = 1 THEN BottomLevel(leaves) ELSE NextLevel(up[d - 1])]

IsWayUp(idx, i, n) == idx = [d \in 1..n |-> IF d = 1 THEN i ELSE idx[d - 1] \div 2]

IsSiblingsUp(below, levels, idx, n) ==
  below = [d \in 1..n |->
             IF d = 1 THEN <<>> ELSE PushSibling(below[d - 1], levels[d - 1], idx[d - 1])]

IsRunningHash(current, leaf, proof, n) ==
  current = [k \in 0..n |-> IF k = 0 THEN leaf ELSE HashPair(current[k - 1], proof[k])]

\* The levels, as far up as there are leaves.
LEMMA LevelsUpUnfolds ==
  ASSUME NEW leaves, Len(leaves) \in Nat
  PROVE  IsLevelsUp(LevelsUp(leaves), leaves, Len(leaves))
  <1> DEFINE S == {n \in Nat : \E up : IsLevelsUp(up, leaves, n)}
  <1>1. 0 \in S
    <2> DEFINE up == [d \in 1..0 |-> BottomLevel(leaves)]
    <2>1. IsLevelsUp(up, leaves, 0)
      BY DEF IsLevelsUp
    <2> QED
      BY <2>1
  <1>2. ASSUME NEW n \in Nat, n \in S PROVE n + 1 \in S
    <2>1. PICK up : IsLevelsUp(up, leaves, n)
      BY <1>2
    <2> DEFINE more == [d \in 1..(n + 1) |->
                          IF d <= n THEN up[d]
                          ELSE IF d = 1 THEN BottomLevel(leaves) ELSE NextLevel(up[n])]
    <2>2. ASSUME NEW d \in 1..(n + 1)
          PROVE  more[d] = IF d = 1 THEN BottomLevel(leaves) ELSE NextLevel(more[d - 1])
      BY <2>1 DEF IsLevelsUp
    <2>3. IsLevelsUp(more, leaves, n + 1)
      BY <2>2 DEF IsLevelsUp
    <2> HIDE DEF more
    <2> QED
      BY <2>3
  <1> HIDE DEF S
  <1>3. Nat \subseteq S
    BY <1>1, <1>2, InductionSet
  <1>4. \E up : IsLevelsUp(up, leaves, Len(leaves))
    BY <1>3 DEF S
  <1>5. LevelsUp(leaves) = CHOOSE up : IsLevelsUp(up, leaves, Len(leaves))
    BY DEF LevelsUp, IsLevelsUp
  <1> QED
    BY <1>4, <1>5

\* The positions on the way up.
LEMMA WayUpUnfolds ==
  ASSUME NEW i, NEW n \in Nat
  PROVE  IsWayUp(WayUp(i, n), i, n)
  <1> DEFINE S == {m \in Nat : \E idx : IsWayUp(idx, i, m)}
  <1>1. 0 \in S
    <2> DEFINE idx == [d \in 1..0 |-> i]
    <2>1. IsWayUp(idx, i, 0)
      BY DEF IsWayUp
    <2> QED
      BY <2>1
  <1>2. ASSUME NEW m \in Nat, m \in S PROVE m + 1 \in S
    <2>1. PICK idx : IsWayUp(idx, i, m)
      BY <1>2
    <2> DEFINE more == [d \in 1..(m + 1) |->
                          IF d <= m THEN idx[d] ELSE IF d = 1 THEN i ELSE idx[m] \div 2]
    <2>2. ASSUME NEW d \in 1..(m + 1)
          PROVE  more[d] = IF d = 1 THEN i ELSE more[d - 1] \div 2
      BY <2>1 DEF IsWayUp
    <2>3. IsWayUp(more, i, m + 1)
      BY <2>2 DEF IsWayUp
    <2> HIDE DEF more
    <2> QED
      BY <2>3
  <1> HIDE DEF S
  <1>3. Nat \subseteq S
    BY <1>1, <1>2, InductionSet
  <1>4. \E idx : IsWayUp(idx, i, n)
    BY <1>3 DEF S
  <1>5. WayUp(i, n) = CHOOSE idx : IsWayUp(idx, i, n)
    BY DEF WayUp, IsWayUp
  <1> QED
    BY <1>4, <1>5

\* The siblings pushed on the way up.
LEMMA SiblingsUpUnfolds ==
  ASSUME NEW levels, NEW i, Len(levels) \in Nat
  PROVE  IsSiblingsUp(SiblingsUp(levels, i), levels, WayUp(i, Len(levels)), Len(levels))
  <1> DEFINE idx == WayUp(i, Len(levels))
             S == {m \in Nat : \E below : IsSiblingsUp(below, levels, idx, m)}
  <1>1. 0 \in S
    <2> DEFINE below == [d \in 1..0 |-> <<>>]
    <2>1. IsSiblingsUp(below, levels, idx, 0)
      BY DEF IsSiblingsUp
    <2> QED
      BY <2>1
  <1>2. ASSUME NEW m \in Nat, m \in S PROVE m + 1 \in S
    <2> HIDE DEF idx
    <2>1. PICK below : IsSiblingsUp(below, levels, idx, m)
      BY <1>2
    <2> DEFINE more == [d \in 1..(m + 1) |->
                          IF d <= m THEN below[d]
                          ELSE IF d = 1 THEN <<>> ELSE PushSibling(below[m], levels[m], idx[m])]
    <2>2. ASSUME NEW d \in 1..(m + 1)
          PROVE  more[d] = IF d = 1 THEN <<>> ELSE PushSibling(more[d - 1], levels[d - 1], idx[d - 1])
      BY <2>1 DEF IsSiblingsUp
    <2>3. IsSiblingsUp(more, levels, idx, m + 1)
      BY <2>2 DEF IsSiblingsUp
    <2> HIDE DEF more
    <2> QED
      BY <2>3
  <1> HIDE DEF S
  <1>3. Nat \subseteq S
    BY <1>1, <1>2, InductionSet
  <1>4. \E below : IsSiblingsUp(below, levels, idx, Len(levels))
    BY <1>3 DEF S
  <1>5. SiblingsUp(levels, i) = CHOOSE below : IsSiblingsUp(below, levels, idx, Len(levels))
    BY DEF SiblingsUp, IsSiblingsUp
  <1> QED
    BY <1>4, <1>5

\* The verifier's running hash.
LEMMA RunningHashUnfolds ==
  ASSUME NEW leaf, NEW proof, Len(proof) \in Nat
  PROVE  IsRunningHash(RunningHash(leaf, proof), leaf, proof, Len(proof))
  <1> DEFINE S == {m \in Nat : \E current : IsRunningHash(current, leaf, proof, m)}
  <1>1. 0 \in S
    <2> DEFINE current == [k \in 0..0 |-> leaf]
    <2>1. IsRunningHash(current, leaf, proof, 0)
      BY DEF IsRunningHash
    <2> QED
      BY <2>1
  <1>2. ASSUME NEW m \in Nat, m \in S PROVE m + 1 \in S
    <2>1. PICK current : IsRunningHash(current, leaf, proof, m)
      BY <1>2
    <2> DEFINE more == [k \in 0..(m + 1) |->
                          IF k <= m THEN current[k] ELSE HashPair(current[m], proof[m + 1])]
    <2>2. ASSUME NEW k \in 0..(m + 1)
          PROVE  more[k] = IF k = 0 THEN leaf ELSE HashPair(more[k - 1], proof[k])
      BY <2>1 DEF IsRunningHash
    <2>3. IsRunningHash(more, leaf, proof, m + 1)
      BY <2>2 DEF IsRunningHash
    <2> HIDE DEF more
    <2> QED
      BY <2>3
  <1> HIDE DEF S
  <1>3. Nat \subseteq S
    BY <1>1, <1>2, InductionSet
  <1>4. \E current : IsRunningHash(current, leaf, proof, Len(proof))
    BY <1>3 DEF S
  <1>5. RunningHash(leaf, proof) = CHOOSE current : IsRunningHash(current, leaf, proof, Len(proof))
    BY DEF RunningHash, IsRunningHash
  <1> QED
    BY <1>4, <1>5

-------------------------------------------------------------------------------
(***************************************************************************)
(* One turn of each loop.                                                  *)
(***************************************************************************)

\* Two children hash to the same parent in either order.
LEMMA HashPairCommutes ==
  ASSUME NEW a, NEW b PROVE HashPair(a, b) = HashPair(b, a)
  BY DEF HashPair

\* A pair's hash determines the pair.
LEMMA HashPairInjective ==
  ASSUME NEW a, NEW b, NEW c, NEW d, HashPair(a, b) = HashPair(c, d)
  PROVE  a \in {c, d}
  BY DEF HashPair

\* No leaf's hash is that of a pair.
LEMMA NoLeafIsPair ==
  ASSUME NEW l, NEW a, NEW b PROVE LeafHash(l) # HashPair(a, b)
  BY DEF LeafHash, HashPair

\* A leaf's hash determines holder, epoch and amount.
LEMMA LeafHashInjective ==
  ASSUME NEW l, NEW m, LeafHash(l) = LeafHash(m) PROVE l = m
  BY DEF LeafHash

\* Appending to a list.
LEMMA AppendToList ==
  ASSUME NEW s, NEW e, IsList(s)
  PROVE  /\ IsList(Append(s, e))
         /\ Len(Append(s, e)) = Len(s) + 1
         /\ \A i \in 1..Len(s) : Append(s, e)[i] = s[i]
         /\ Append(s, e)[Len(s) + 1] = e
  <1> DEFINE S == {s[i] : i \in 1..Len(s)}
  <1>1. s \in Seq(S)
    BY DEF IsList
  <1>2. Append(s, e) \in Seq(S \cup {e})
    BY <1>1
  <1>3. Len(Append(s, e)) = Len(s) + 1
        /\ (\A i \in 1..Len(s) : Append(s, e)[i] = s[i])
        /\ Append(s, e)[Len(s) + 1] = e
    BY <1>1
  <1>4. IsList(Append(s, e))
    BY <1>2, LenProperties DEF IsList
  <1>5. QED
    BY <1>3, <1>4

\* The next level is a list half as long, rounded up.
LEMMA NextLevelIsList ==
  ASSUME NEW level, IsList(level), Len(level) >= 1
  PROVE  /\ IsList(NextLevel(level))
         /\ Len(NextLevel(level)) = (Len(level) + 1) \div 2
         /\ Len(NextLevel(level)) >= 1
  <1>1. (Len(level) + 1) \div 2 \in Nat /\ (Len(level) + 1) \div 2 >= 1
    BY DEF IsList
  <1>2. Len(NextLevel(level)) = (Len(level) + 1) \div 2
    BY <1>1 DEF NextLevel
  <1>3. QED
    BY <1>1, <1>2 DEF IsList, NextLevel

\* The index of a node's parent lies within the next level.
LEMMA IndexHalves ==
  ASSUME NEW n \in Nat, NEW i \in Nat, i < n
  PROVE  i \div 2 \in 0..((n + 1) \div 2 - 1)
  OBVIOUS

\* One level of the tree: the parent of a node is the hash of the node and its
\* sibling, or in the Rust tree the node itself when it has no sibling.
LEMMA ParentOfNode ==
  ASSUME NEW level, IsList(level), NEW i \in 0..(Len(level) - 1)
  PROVE  /\ Sibling(i) \in Nat
         /\ i \div 2 \in 0..(Len(NextLevel(level)) - 1)
         /\ Builder = "rust" \/ Sibling(i) < Len(level) =>
              NextLevel(level)[(i \div 2) + 1] =
                IF Sibling(i) < Len(level)
                  THEN HashPair(level[i + 1], level[Sibling(i) + 1])
                  ELSE level[i + 1]
  <1>1. Len(level) \in Nat /\ i \in Nat /\ i < Len(level)
    BY DEF IsList
  <1>2. Len(NextLevel(level)) = (Len(level) + 1) \div 2
    BY <1>1, NextLevelIsList
  <1>3. i \div 2 \in 0..(Len(NextLevel(level)) - 1)
    BY <1>1, <1>2
  <1>4. (i \div 2) + 1 \in 1..((Len(level) + 1) \div 2)
    BY <1>1
  <1> DEFINE j == (i \div 2) + 1
  <1>5. NextLevel(level)[j] =
          IF 2 * j <= Len(level) THEN HashPair(level[2 * j - 1], level[2 * j])
                                 ELSE OddParent(level[2 * j - 1])
    BY <1>4 DEF NextLevel
  <1>6. CASE i % 2 = 0
    <2>1. 2 * j - 1 = i + 1 /\ 2 * j = i + 2
      BY <1>1, <1>6
    <2>2. Sibling(i) = i + 1 /\ (2 * j <= Len(level) <=> Sibling(i) < Len(level))
      BY <1>1, <1>6, <2>1 DEF Sibling
    <2>3. Builder = "rust" => OddParent(level[i + 1]) = level[i + 1]
      BY DEF OddParent
    <2>4. QED
      BY <1>1, <1>3, <1>5, <2>1, <2>2, <2>3
  <1>7. CASE i % 2 # 0
    <2>1. 2 * j - 1 = i /\ 2 * j = i + 1 /\ i >= 1
      BY <1>1, <1>7
    <2>2. Sibling(i) = i - 1 /\ i - 1 \in Nat
      BY <1>7, <2>1 DEF Sibling
    <2>3. NextLevel(level)[j] = HashPair(level[i], level[i + 1])
      BY <1>1, <1>5, <2>1
    <2>4. NextLevel(level)[j] = HashPair(level[i + 1], level[Sibling(i) + 1])
      BY <1>1, <2>2, <2>3, HashPairCommutes
    <2>5. QED
      BY <1>1, <1>3, <2>2, <2>4
  <1>8. QED
    BY <1>6, <1>7

\* The one node without a sibling is the last of an odd number.
LEMMA SiblingMissing ==
  ASSUME NEW level, IsList(level), NEW i \in 0..(Len(level) - 1)
  PROVE  Sibling(i) < Len(level) <=> ~(Len(level) % 2 = 1 /\ i + 1 = Len(level))
  <1> DEFINE n == Len(level)
  <1>1. n \in Nat /\ i \in Nat /\ i < n
    BY DEF IsList
  <1> HIDE DEF n
  <1>2. CASE i % 2 = 0
    <2>1. i + 1 < n <=> ~(n % 2 = 1 /\ i + 1 = n)
      BY <1>1, <1>2
    <2> QED
      BY <1>2, <2>1 DEF Sibling, n
  <1>3. CASE i % 2 # 0
    <2>1. i - 1 < n /\ ~(n % 2 = 1 /\ i + 1 = n)
      BY <1>1, <1>3
    <2> QED
      BY <1>3, <2>1 DEF Sibling, n
  <1> QED
    BY <1>2, <1>3

\* The hashes of the leaves are a list.
LEMMA BottomLevelIsList ==
  ASSUME NEW leaves, Len(leaves) \in Nat
  PROVE  /\ IsList(BottomLevel(leaves)) /\ Len(BottomLevel(leaves)) = Len(leaves)
         /\ \A i \in 1..Len(leaves) : BottomLevel(leaves)[i] = LeafHash(leaves[i])
  BY DEF BottomLevel, IsList

\* The verifier's hash starts at the leaf and takes in one sibling after the other.
LEMMA RunningHashTurns ==
  ASSUME NEW leaf, NEW proof, Len(proof) \in Nat
  PROVE  /\ RunningHash(leaf, proof)[0] = leaf
         /\ \A k \in 1..Len(proof) :
              RunningHash(leaf, proof)[k] = HashPair(RunningHash(leaf, proof)[k - 1], proof[k])
  BY RunningHashUnfolds DEF IsRunningHash

\* One more sibling at the end changes nothing of what is hashed before it.
LEMMA RunningHashLonger ==
  ASSUME NEW leaf, NEW proof, IsList(proof), NEW sibling
  PROVE  LET longer == Append(proof, sibling)
         IN  /\ \A k \in 0..Len(proof) : RunningHash(leaf, longer)[k] = RunningHash(leaf, proof)[k]
             /\ RunningHash(leaf, longer)[Len(longer)]
                  = HashPair(RunningHash(leaf, proof)[Len(proof)], sibling)
  <1> DEFINE longer == Append(proof, sibling)
             n == Len(proof)
             R == RunningHash(leaf, proof)
             L == RunningHash(leaf, longer)
             S == {k \in Nat : k <= n => L[k] = R[k]}
  <1>1. /\ n \in Nat /\ Len(longer) = n + 1
        /\ \A i \in 1..n : longer[i] = proof[i]
        /\ longer[n + 1] = sibling
    BY AppendToList DEF IsList
  <1> HIDE DEF longer, n
  <1>2. R[0] = leaf /\ \A k \in 1..n : R[k] = HashPair(R[k - 1], proof[k])
    BY <1>1, RunningHashTurns DEF n
  <1>3. L[0] = leaf /\ \A k \in 1..(n + 1) : L[k] = HashPair(L[k - 1], longer[k])
    BY <1>1, RunningHashTurns
  <1> HIDE DEF R, L
  <1>4. 0 \in S
    BY <1>2, <1>3
  <1>5. ASSUME NEW k \in Nat, k \in S PROVE k + 1 \in S
    <2> SUFFICES ASSUME k + 1 <= n PROVE L[k + 1] = R[k + 1]
      OBVIOUS
    <2>1. L[k] = R[k] /\ k + 1 \in 1..n /\ k + 1 \in 1..(n + 1) /\ (k + 1) - 1 = k
      BY <1>1, <1>5
    <2> QED
      BY <1>1, <1>2, <1>3, <2>1
  <1> HIDE DEF S
  <1>6. Nat \subseteq S
    BY <1>4, <1>5, InductionSet
  <1>7. \A k \in 0..n : L[k] = R[k]
    BY <1>1, <1>6 DEF S
  <1>8. L[n + 1] = HashPair(R[n], sibling)
    <2>1. n + 1 \in 1..(n + 1) /\ (n + 1) - 1 = n /\ n \in 0..n
      BY <1>1
    <2> QED
      BY <1>1, <1>3, <1>7, <2>1
  <1> QED
    BY <1>1, <1>7, <1>8 DEF longer, n, R, L

-------------------------------------------------------------------------------
(***************************************************************************)
(* The levels of a tree.                                                   *)
(***************************************************************************)

\* The levels are lists, made one from the other out of the leaf hashes.
Layered(levels, leaves) ==
  /\ IsList(levels) /\ Len(levels) >= 1
  /\ levels[1] = BottomLevel(leaves)
  /\ \A d \in 1..Len(levels) : IsList(levels[d]) /\ Len(levels[d]) >= 1
  /\ \A d \in 1..Len(levels) : d > 1 => levels[d] = NextLevel(levels[d - 1])

\* No level but the last is of a single node.
NarrowsLast(levels) == \A d \in 1..(Len(levels) - 1) : Len(levels[d]) > 1

\* The last level is of a single node.
Topped(levels) == Len(levels[Len(levels)]) = 1

\* Half of a number, rounded up, is less than the number or one.
LEMMA HalvesNarrow ==
  ASSUME NEW m \in Nat, m >= 1
  PROVE  (m + 1) \div 2 = 1 \/ (m + 1) \div 2 <= m - 1
  OBVIOUS

\* The levels above n leaves narrow to one node within n levels.
LEMMA LevelsUpNarrow ==
  ASSUME NEW leaves, IsList(leaves), Len(leaves) >= 1
  PROVE  LET up == LevelsUp(leaves)
         IN  \A d \in 1..Len(leaves) :
               /\ IsList(up[d]) /\ Len(up[d]) >= 1
               /\ Len(up[d]) = 1 \/ Len(up[d]) <= Len(leaves) - d + 1
               /\ d > 1 => up[d] = NextLevel(up[d - 1])
  <1> DEFINE n == Len(leaves)
             up == LevelsUp(leaves)
             Good(d) == /\ IsList(up[d]) /\ Len(up[d]) >= 1
                        /\ Len(up[d]) = 1 \/ Len(up[d]) <= n - d + 1
             S == {k \in Nat : k + 1 <= n => Good(k + 1)}
  <1>1. n \in Nat /\ n >= 1
    BY DEF IsList
  <1>2. \A d \in 1..n : up[d] = IF d = 1 THEN BottomLevel(leaves) ELSE NextLevel(up[d - 1])
    BY <1>1, LevelsUpUnfolds DEF IsLevelsUp
  <1> HIDE DEF up
  <1>3. 0 \in S
    BY <1>1, <1>2, BottomLevelIsList
  <1>4. ASSUME NEW k \in Nat, k \in S PROVE k + 1 \in S
    <2> SUFFICES ASSUME (k + 1) + 1 <= n PROVE Good((k + 1) + 1)
      OBVIOUS
    <2>1. Good(k + 1)
      BY <1>1, <1>4
    <2>2. up[(k + 1) + 1] = NextLevel(up[k + 1])
      BY <1>1, <1>2
    <2>3. /\ IsList(up[(k + 1) + 1]) /\ Len(up[(k + 1) + 1]) >= 1
          /\ Len(up[(k + 1) + 1]) = (Len(up[k + 1]) + 1) \div 2
      BY <2>1, <2>2, NextLevelIsList
    <2>4. Len(up[k + 1]) \in Nat
      BY <2>1 DEF IsList
    <2> HIDE DEF n
    <2>5. Len(up[k + 1]) = 1 \/ Len(up[k + 1]) <= n - (k + 1) + 1
      BY <2>1
    <2>6. Len(up[(k + 1) + 1]) = 1 \/ Len(up[(k + 1) + 1]) <= n - ((k + 1) + 1) + 1
      <3> DEFINE m == Len(up[k + 1])
                 p == Len(up[(k + 1) + 1])
      <3>1. m \in Nat /\ m >= 1 /\ p = (m + 1) \div 2 /\ (m = 1 \/ m <= n - (k + 1) + 1)
        BY <2>1, <2>3, <2>4, <2>5
      <3> HIDE DEF m, p
      <3>2. p = 1 \/ p <= m - 1
        BY <3>1, HalvesNarrow
      <3>3. m = 1 => p = 1
        BY <3>1
      <3>4. p \in Nat
        BY <3>1
      <3>5. p = 1 \/ p <= n - ((k + 1) + 1) + 1
        BY <1>1, <3>1, <3>2, <3>3, <3>4
      <3> QED
        BY <3>5 DEF p
    <2> QED
      BY <2>3, <2>6
  <1> HIDE DEF S, Good
  <1>5. Nat \subseteq S
    BY <1>3, <1>4, InductionSet
  <1>6. ASSUME NEW d \in 1..n PROVE Good(d)
    <2>1. d - 1 \in Nat /\ (d - 1) + 1 = d /\ d <= n
      BY <1>1
    <2> QED
      BY <1>5, <2>1 DEF S
  <1> QED
    BY <1>1, <1>2, <1>6 DEF Good, up

\* build_tree ends, and with a tree.
LEMMA LevelsAreLayered ==
  ASSUME NEW leaves, IsList(leaves), Len(leaves) >= 1
  PROVE  /\ Layered(Levels(leaves), leaves)
         /\ NarrowsLast(Levels(leaves))
         /\ Topped(Levels(leaves))
  <1> DEFINE n == Len(leaves)
             up == LevelsUp(leaves)
             IsHeight(d) == Len(up[d]) = 1 /\ \A k \in 1..(d - 1) : Len(up[k]) > 1
             T == {d \in 1..n : Len(up[d]) = 1}
  <1>1. n \in Nat /\ n >= 1
    BY DEF IsList
  <1>2. \A d \in 1..n :
          /\ IsList(up[d]) /\ Len(up[d]) \in Nat /\ Len(up[d]) >= 1
          /\ Len(up[d]) = 1 \/ Len(up[d]) <= n - d + 1
          /\ d > 1 => up[d] = NextLevel(up[d - 1])
    BY LevelsUpNarrow DEF IsList
  <1>3. up[1] = BottomLevel(leaves)
    BY <1>1, LevelsUpUnfolds DEF IsLevelsUp
  <1>4. \E d \in 1..n : IsHeight(d)
    <2> DEFINE width(d) == Len(up[d])
    <2>1. \A d \in 1..n :
            width(d) \in Nat /\ width(d) >= 1 /\ (width(d) = 1 \/ width(d) <= n - d + 1)
      BY <1>2
    <2>2. T = {d \in 1..n : width(d) = 1}
      OBVIOUS
    <2>3. \A d \in 1..n : width(d) = 1 /\ (\A k \in 1..(d - 1) : width(k) > 1) => IsHeight(d)
      OBVIOUS
    <2> HIDE DEF up, n, width, IsHeight, T
    <2>4. n \in T
      BY <1>1, <2>1, <2>2
    <2>5. T \subseteq Nat
      BY <1>1, <2>2
    <2>6. PICK d \in T : \A k \in T : ~(k < d)
      BY <2>4, <2>5, LeastElement
    <2>7. d \in 1..n /\ width(d) = 1
      BY <2>2
    <2>8. ASSUME NEW k \in 1..(d - 1) PROVE width(k) > 1
      <3>1. k \in 1..n /\ k < d
        BY <1>1, <2>7
      <3>2. width(k) # 1
        BY <2>2, <2>6, <3>1
      <3> QED
        BY <2>1, <3>1, <3>2
    <2> QED
      BY <2>3, <2>7, <2>8
  <1> DEFINE height == CHOOSE d \in 1..n : IsHeight(d)
             levels == SubSeq(up, 1, height)
  <1>5. height \in 1..n /\ IsHeight(height)
    <2> HIDE DEF IsHeight
    <2> QED
      BY <1>4
  <1>6. Levels(leaves) = levels
    BY DEF Levels
  <1> HIDE DEF height, up, n
  <1>7. Len(levels) = height /\ IsList(levels) /\ \A d \in 1..height : levels[d] = up[d]
    BY <1>1, <1>5 DEF IsList
  <1> HIDE DEF levels
  <1>8. Layered(levels, leaves)
    <2>1. levels[1] = BottomLevel(leaves)
      BY <1>1, <1>3, <1>5, <1>7
    <2>2. \A d \in 1..height : IsList(levels[d]) /\ Len(levels[d]) >= 1
      BY <1>1, <1>2, <1>5, <1>7
    <2>3. \A d \in 1..height : d > 1 => levels[d] = NextLevel(levels[d - 1])
      BY <1>1, <1>2, <1>5, <1>7
    <2> QED
      BY <1>1, <1>5, <1>7, <2>1, <2>2, <2>3 DEF Layered
  <1>9. NarrowsLast(levels) /\ Topped(levels)
    BY <1>1, <1>5, <1>7 DEF NarrowsLast, Topped
  <1> QED
    BY <1>6, <1>8, <1>9

\* Two trees over the same leaves agree as far up as both go.
LEMMA LayersAgree ==
  ASSUME NEW leaves, NEW a, NEW b, Layered(a, leaves), Layered(b, leaves)
  PROVE  \A d \in Nat \ {0} : d <= Len(a) /\ d <= Len(b) => a[d] = b[d]
  <1> DEFINE S == {k \in Nat : k + 1 <= Len(a) /\ k + 1 <= Len(b) => a[k + 1] = b[k + 1]}
  <1>1. Len(a) \in Nat /\ Len(b) \in Nat
    BY DEF Layered, IsList
  <1>2. 0 \in S
    BY DEF Layered
  <1>3. ASSUME NEW k \in Nat, k \in S PROVE k + 1 \in S
    <2> SUFFICES ASSUME (k + 1) + 1 <= Len(a), (k + 1) + 1 <= Len(b)
                 PROVE  a[(k + 1) + 1] = b[(k + 1) + 1]
      OBVIOUS
    <2>1. a[k + 1] = b[k + 1]
      BY <1>1, <1>3
    <2>2. /\ (k + 1) + 1 \in 1..Len(a) /\ (k + 1) + 1 \in 1..Len(b)
          /\ (k + 1) + 1 > 1 /\ ((k + 1) + 1) - 1 = k + 1
      BY <1>1
    <2>3. a[(k + 1) + 1] = NextLevel(a[k + 1]) /\ b[(k + 1) + 1] = NextLevel(b[k + 1])
      BY <2>2 DEF Layered
    <2> QED
      BY <2>1, <2>3
  <1> HIDE DEF S
  <1>4. Nat \subseteq S
    BY <1>2, <1>3, InductionSet
  <1>5. ASSUME NEW d \in Nat \ {0}, d <= Len(a), d <= Len(b) PROVE a[d] = b[d]
    <2>1. d - 1 \in Nat /\ (d - 1) + 1 = d
      OBVIOUS
    <2> QED
      BY <1>4, <1>5, <2>1 DEF S
  <1> QED
    BY <1>5

\* There is one tree over the leaves that stops at the first level of a single node.
LEMMA LevelsUnique ==
  ASSUME NEW leaves, IsList(leaves), Len(leaves) >= 1,
         NEW levels, Layered(levels, leaves), NarrowsLast(levels), Topped(levels)
  PROVE  levels = Levels(leaves)
  <1> DEFINE built == Levels(leaves)
  <1>1. Layered(built, leaves) /\ NarrowsLast(built) /\ Topped(built)
    BY LevelsAreLayered
  <1> HIDE DEF built
  <1>2. ASSUME NEW a, NEW b, Layered(a, leaves), Topped(a), Layered(b, leaves), NarrowsLast(b)
        PROVE  ~(Len(a) < Len(b))
    <2>1. Len(a) \in Nat /\ Len(b) \in Nat /\ Len(a) >= 1
      BY <1>2 DEF Layered, IsList
    <2> SUFFICES ASSUME Len(a) < Len(b) PROVE FALSE
      OBVIOUS
    <2>2. a[Len(a)] = b[Len(a)]
      BY <1>2, <2>1, LayersAgree
    <2>3. Len(b[Len(a)]) > 1
      BY <1>2, <2>1 DEF NarrowsLast
    <2>4. Len(b[Len(a)]) = 1
      BY <1>2, <2>2 DEF Topped
    <2> QED
      BY <2>3, <2>4
  <1>3. ~(Len(levels) < Len(built)) /\ ~(Len(built) < Len(levels))
    BY <1>1, <1>2
  <1>4. Len(levels) = Len(built) /\ Len(levels) \in Nat
    <2> DEFINE m == Len(levels)
               n == Len(built)
    <2>1. m \in Nat /\ n \in Nat
      BY <1>1 DEF Layered, IsList
    <2>2. ~(m < n) /\ ~(n < m)
      BY <1>3
    <2> HIDE DEF m, n
    <2>3. m = n
      BY <2>1, <2>2
    <2> QED
      BY <2>1, <2>3 DEF m, n
  <1>5. \A d \in 1..Len(levels) : levels[d] = built[d]
    BY <1>1, <1>4, LayersAgree
  <1>6. levels = [d \in 1..Len(levels) |-> levels[d]]
        /\ built = [d \in 1..Len(levels) |-> built[d]]
    BY <1>1, <1>4 DEF Layered, IsList
  <1>7. levels = built
    BY <1>5, <1>6
  <1> QED
    BY <1>7 DEF built

\* A node is where some level has it.
LEMMA NodesAre ==
  ASSUME NEW levels, NEW x
  PROVE  x \in NodesIn(levels)
           <=> \E d \in 1..Len(levels) : \E i \in 1..Len(levels[d]) : x = levels[d][i]
  BY DEF NodesIn

\* Every node is the hash of a listed leaf or of two other nodes.
LEMMA NodesHashed ==
  ASSUME NEW leaves, Len(leaves) \in Nat, NEW levels, Layered(levels, leaves),
         NEW x \in NodesIn(levels)
  PROVE  \/ \E i \in 1..Len(leaves) : x = LeafHash(leaves[i])
         \/ \E p \in NodesIn(levels), q \in NodesIn(levels) : x = HashPair(p, q)
  <1> DEFINE Hashed(y) == \/ \E i \in 1..Len(leaves) : y = LeafHash(leaves[i])
                          \/ \E p \in NodesIn(levels), q \in NodesIn(levels) : y = HashPair(p, q)
             S == {k \in Nat : k + 1 <= Len(levels) =>
                                 \A i \in 1..Len(levels[k + 1]) : Hashed(levels[k + 1][i])}
  <1>1. Len(levels) \in Nat /\ Len(levels) >= 1
    BY DEF Layered, IsList
  <1>2. 0 \in S
    <2>1. levels[1] = BottomLevel(leaves)
      BY DEF Layered
    <2>2. \A i \in 1..Len(levels[1]) : levels[1][i] = LeafHash(leaves[i]) /\ i \in 1..Len(leaves)
      BY <2>1, BottomLevelIsList
    <2> QED
      BY <2>2
  <1>3. ASSUME NEW k \in Nat, k \in S PROVE k + 1 \in S
    <2> DEFINE level == levels[k + 1]
               next == levels[(k + 1) + 1]
               w == Len(levels[k + 1])
    <2> SUFFICES ASSUME (k + 1) + 1 <= Len(levels), NEW i \in 1..Len(next)
                 PROVE  Hashed(next[i])
      OBVIOUS
    <2>1. /\ k + 1 \in 1..Len(levels) /\ (k + 1) + 1 \in 1..Len(levels)
          /\ (k + 1) + 1 > 1 /\ ((k + 1) + 1) - 1 = k + 1 /\ k + 1 <= Len(levels)
      BY <1>1
    <2>2. next = NextLevel(level) /\ IsList(level) /\ w \in Nat /\ w >= 1
      BY <2>1 DEF Layered, IsList
    <2>3. \A j \in 1..w : level[j] \in NodesIn(levels) /\ Hashed(level[j])
      <3>1. \A j \in 1..w : Hashed(level[j])
        BY <1>3, <2>1
      <3>2. \A j \in 1..w : level[j] \in NodesIn(levels)
        BY <2>1, NodesAre
      <3> QED
        BY <3>1, <3>2
    <2>4. i \in 1..((w + 1) \div 2)
      BY <2>2, NextLevelIsList
    <2>5. next[i] = IF 2 * i <= w THEN HashPair(level[2 * i - 1], level[2 * i])
                                  ELSE OddParent(level[2 * i - 1])
      BY <2>2, <2>4 DEF NextLevel
    <2> HIDE DEF w, level, next
    <2>6. 2 * i - 1 \in 1..w
      BY <2>2, <2>4
    <2>7. CASE 2 * i <= w
      <3>1. 2 * i \in 1..w
        BY <2>2, <2>4, <2>7
      <3> QED
        BY <2>3, <2>5, <2>6, <2>7, <3>1
    <2>8. CASE ~(2 * i <= w)
      <3>1. next[i] = OddParent(level[2 * i - 1])
        BY <2>5, <2>8
      <3> QED
        BY <2>3, <2>6, <3>1 DEF OddParent
    <2> QED
      BY <2>7, <2>8
  <1> HIDE DEF S
  <1>4. Nat \subseteq S
    BY <1>2, <1>3, InductionSet
  <1>5. PICK d \in 1..Len(levels) : \E i \in 1..Len(levels[d]) : x = levels[d][i]
    BY NodesAre
  <1>6. d - 1 \in Nat /\ (d - 1) + 1 = d /\ d <= Len(levels)
    BY <1>1
  <1>7. \A i \in 1..Len(levels[d]) : Hashed(levels[d][i])
    <2> HIDE DEF Hashed
    <2>1. d - 1 \in S
      BY <1>4, <1>6
    <2>2. (d - 1) + 1 <= Len(levels) =>
            \A i \in 1..Len(levels[(d - 1) + 1]) : Hashed(levels[(d - 1) + 1][i])
      BY <2>1 DEF S
    <2> QED
      BY <1>6, <2>2
  <1> QED
    BY <1>5, <1>7

-------------------------------------------------------------------------------
(***************************************************************************)
(* What the verifier accepts.                                              *)
(***************************************************************************)

\* The root is a node.
LEMMA RootIsNode ==
  ASSUME NEW leaves, IsList(leaves), Len(leaves) >= 1
  PROVE  RootOf(leaves) \in NodesIn(Levels(leaves))
  <1> DEFINE levels == Levels(leaves)
  <1>1. Layered(levels, leaves) /\ Topped(levels)
    BY LevelsAreLayered
  <1>2. RootOf(leaves) = levels[Len(levels)][1]
    BY DEF RootOf
  <1> HIDE DEF levels
  <1>3. Len(levels) \in 1..Len(levels) /\ 1 \in 1..Len(levels[Len(levels)])
    BY <1>1 DEF Layered, Topped, IsList
  <1>4. levels[Len(levels)][1] \in NodesIn(levels)
    BY <1>3, NodesAre
  <1> QED
    BY <1>2, <1>4 DEF levels

\* Whatever siblings are presented with it, of any kind and number, a leaf that the
\* tree was not built from is refused, by either builder's tree.
THEOREM OnlyListedVerified ==
  ASSUME NEW leaves, IsList(leaves), Len(leaves) >= 1,
         NEW leaf, NEW proof, IsList(proof),
         VerifyMerkleProof(LeafHash(leaf), proof, RootOf(leaves))
  PROVE  \E i \in 1..Len(leaves) : leaves[i] = leaf
  <1> SUFFICES ASSUME \A i \in 1..Len(leaves) : leaves[i] # leaf
               PROVE  FALSE
    OBVIOUS
  <1> DEFINE levels == Levels(leaves)
             R == RunningHash(LeafHash(leaf), proof)
             S == {k \in Nat : k <= Len(proof) => R[k] \notin NodesIn(levels)}
  <1>1. Layered(levels, leaves) /\ Len(leaves) \in Nat /\ Len(proof) \in Nat
    BY LevelsAreLayered DEF IsList
  <1>2. RootOf(leaves) \in NodesIn(levels) /\ R[Len(proof)] = RootOf(leaves)
    BY RootIsNode DEF VerifyMerkleProof
  <1>3. R[0] = LeafHash(leaf) /\ \A k \in 1..Len(proof) : R[k] = HashPair(R[k - 1], proof[k])
    BY <1>1, RunningHashTurns
  <1> HIDE DEF levels, R
  <1>4. 0 \in S
    <2> SUFFICES ASSUME LeafHash(leaf) \in NodesIn(levels) PROVE FALSE
      BY <1>3
    <2>1. \/ \E i \in 1..Len(leaves) : LeafHash(leaf) = LeafHash(leaves[i])
          \/ \E p \in NodesIn(levels), q \in NodesIn(levels) : LeafHash(leaf) = HashPair(p, q)
      BY <1>1, NodesHashed
    <2> QED
      BY <2>1, NoLeafIsPair, LeafHashInjective
  <1>5. ASSUME NEW k \in Nat, k \in S PROVE k + 1 \in S
    <2> SUFFICES ASSUME k + 1 <= Len(proof), R[k + 1] \in NodesIn(levels) PROVE FALSE
      OBVIOUS
    <2>1. R[k] \notin NodesIn(levels) /\ k + 1 \in 1..Len(proof) /\ (k + 1) - 1 = k
      BY <1>1, <1>5
    <2>2. R[k + 1] = HashPair(R[k], proof[k + 1])
      BY <1>3, <2>1
    <2>3. \/ \E i \in 1..Len(leaves) : R[k + 1] = LeafHash(leaves[i])
          \/ \E p \in NodesIn(levels), q \in NodesIn(levels) : R[k + 1] = HashPair(p, q)
      BY <1>1, NodesHashed
    <2>4. PICK p \in NodesIn(levels), q \in NodesIn(levels) :
            HashPair(R[k], proof[k + 1]) = HashPair(p, q)
      BY <2>2, <2>3, NoLeafIsPair
    <2>5. R[k] \in {p, q}
      BY <2>4, HashPairInjective
    <2> QED
      BY <2>1, <2>5
  <1> HIDE DEF S
  <1>6. Nat \subseteq S
    BY <1>4, <1>5, InductionSet
  <1> QED
    BY <1>1, <1>2, <1>6 DEF S

\* Pushing a sibling, or not, leaves a list.
LEMMA PushSiblingIsList ==
  ASSUME NEW proof, IsList(proof), NEW level, NEW i
  PROVE  IsList(PushSibling(proof, level, i))
  BY AppendToList DEF PushSibling

\* Proofs are lists.
LEMMA ProofForIsList ==
  ASSUME NEW leaves, IsList(leaves), Len(leaves) >= 1, NEW i
  PROVE  IsList(ProofFor(leaves, i))
  <1> DEFINE levels == Levels(leaves)
             idx == WayUp(i, Len(levels))
             below == SiblingsUp(levels, i)
             S == {k \in Nat : k + 1 <= Len(levels) => IsList(below[k + 1])}
  <1>1. Len(levels) \in Nat /\ Len(levels) >= 1
    BY LevelsAreLayered DEF Layered, IsList
  <1>2. \A d \in 1..Len(levels) :
          below[d] = IF d = 1 THEN <<>> ELSE PushSibling(below[d - 1], levels[d - 1], idx[d - 1])
    BY <1>1, SiblingsUpUnfolds DEF IsSiblingsUp
  <1>3. ProofFor(leaves, i) = below[Len(levels)]
    BY DEF ProofFor
  <1> HIDE DEF levels, idx, below
  <1>4. 0 \in S
    <2>1. below[1] = <<>>
      BY <1>1, <1>2
    <2> QED
      BY <2>1 DEF IsList
  <1>5. ASSUME NEW k \in Nat, k \in S PROVE k + 1 \in S
    <2> SUFFICES ASSUME (k + 1) + 1 <= Len(levels) PROVE IsList(below[(k + 1) + 1])
      OBVIOUS
    <2>1. IsList(below[k + 1])
      BY <1>1, <1>5
    <2>2. below[(k + 1) + 1] = PushSibling(below[k + 1], levels[k + 1], idx[k + 1])
      BY <1>1, <1>2
    <2> QED
      BY <2>1, <2>2, PushSiblingIsList
  <1> HIDE DEF S
  <1>6. Nat \subseteq S
    BY <1>4, <1>5, InductionSet
  <1>7. Len(levels) - 1 \in Nat /\ (Len(levels) - 1) + 1 = Len(levels)
    BY <1>1
  <1>8. IsList(below[(Len(levels) - 1) + 1])
    <2>1. Len(levels) - 1 \in S
      BY <1>6, <1>7
    <2> QED
      BY <1>7, <2>1 DEF S
  <1> QED
    BY <1>3, <1>7, <1>8

\* One level up: with the sibling that is pushed, or none, the hash that led to a
\* node leads to its parent.
LEMMA ClimbOneLevel ==
  ASSUME NEW level, IsList(level), NEW i \in 0..(Len(level) - 1),
         Builder = "rust" \/ Sibling(i) < Len(level),
         NEW leaf, NEW proof, IsList(proof),
         RunningHash(leaf, proof)[Len(proof)] = level[i + 1]
  PROVE  LET longer == PushSibling(proof, level, i)
         IN  RunningHash(leaf, longer)[Len(longer)] = NextLevel(level)[(i \div 2) + 1]
  <1>1. NextLevel(level)[(i \div 2) + 1] =
          IF Sibling(i) < Len(level)
            THEN HashPair(level[i + 1], level[Sibling(i) + 1])
            ELSE level[i + 1]
    BY ParentOfNode
  <1>2. CASE Sibling(i) < Len(level)
    <2>1. PushSibling(proof, level, i) = Append(proof, level[Sibling(i) + 1])
      BY <1>2 DEF PushSibling
    <2> QED
      BY <1>1, <1>2, <2>1, RunningHashLonger
  <1>3. CASE ~(Sibling(i) < Len(level))
    BY <1>1, <1>3 DEF PushSibling
  <1> QED
    BY <1>2, <1>3

\* The proof made for a leaf is accepted, with the Rust builder always and with the
\* other one if every node on the way up has a sibling.
LEMMA ProofVerified ==
  ASSUME NEW leaves, IsList(leaves), NEW i \in 0..(Len(leaves) - 1),
         Builder = "rust" \/ NeverOdd(leaves, i)
  PROVE  VerifyMerkleProof(LeafHash(leaves[i + 1]), ProofFor(leaves, i), RootOf(leaves))
  <1> DEFINE leaf == LeafHash(leaves[i + 1])
             levels == Levels(leaves)
             h == Len(levels)
             idx == WayUp(i, h)
             below == SiblingsUp(levels, i)
             Climbed(d) == /\ idx[d] \in 0..(Len(levels[d]) - 1)
                           /\ IsList(below[d])
                           /\ RunningHash(leaf, below[d])[Len(below[d])] = levels[d][idx[d] + 1]
             S == {k \in Nat : k + 1 <= h => Climbed(k + 1)}
  <1>1. Len(leaves) \in Nat /\ Len(leaves) >= 1
    BY DEF IsList
  <1>2. Layered(levels, leaves) /\ Topped(levels) /\ h \in Nat /\ h >= 1
    BY <1>1, LevelsAreLayered DEF Layered, IsList
  <1>3. \A d \in 1..h : idx[d] = IF d = 1 THEN i ELSE idx[d - 1] \div 2
    BY <1>2, WayUpUnfolds DEF IsWayUp
  <1>4. \A d \in 1..h :
          below[d] = IF d = 1 THEN <<>> ELSE PushSibling(below[d - 1], levels[d - 1], idx[d - 1])
    BY <1>2, SiblingsUpUnfolds DEF IsSiblingsUp
  <1>5. ProofFor(leaves, i) = below[h] /\ RootOf(leaves) = levels[h][1]
    BY DEF ProofFor, RootOf
  <1>5a. Builder = "rust"
           \/ \A d \in 1..(h - 1) : ~(Len(levels[d]) % 2 = 1 /\ idx[d] + 1 = Len(levels[d]))
    BY DEF NeverOdd
  <1> HIDE DEF levels, h, idx, below
  <1>6. 0 \in S
    <2>1. idx[1] = i /\ below[1] = <<>> /\ levels[1] = BottomLevel(leaves)
      BY <1>2, <1>3, <1>4 DEF Layered
    <2>2. Len(levels[1]) = Len(leaves) /\ levels[1][i + 1] = leaf
      BY <1>1, <2>1, BottomLevelIsList
    <2>3. IsList(<<>>) /\ Len(<<>>) = 0
      BY DEF IsList
    <2>4. RunningHash(leaf, <<>>)[0] = leaf
      BY <2>3, RunningHashTurns
    <2>5. Climbed(1)
      BY <2>1, <2>2, <2>3, <2>4
    <2> HIDE DEF Climbed
    <2> QED
      BY <2>5
  <1>7. ASSUME NEW k \in Nat, k \in S PROVE k + 1 \in S
    <2> SUFFICES ASSUME (k + 1) + 1 <= h PROVE Climbed((k + 1) + 1)
      OBVIOUS
    <2>1. /\ k + 1 \in 1..h /\ (k + 1) + 1 \in 1..h /\ k + 1 <= h
          /\ (k + 1) + 1 > 1 /\ ((k + 1) + 1) - 1 = k + 1
      BY <1>2
    <2>2. Climbed(k + 1)
      <3> HIDE DEF Climbed
      <3> QED
        BY <1>7, <2>1
    <2>3. IsList(levels[k + 1]) /\ levels[(k + 1) + 1] = NextLevel(levels[k + 1])
      BY <1>2, <2>1 DEF Layered, h
    <2>4. /\ idx[(k + 1) + 1] = idx[k + 1] \div 2
          /\ below[(k + 1) + 1] = PushSibling(below[k + 1], levels[k + 1], idx[k + 1])
      BY <1>3, <1>4, <2>1
    <2>5. idx[k + 1] \div 2 \in 0..(Len(levels[(k + 1) + 1]) - 1)
      BY <2>2, <2>3, ParentOfNode
    <2>6. IsList(below[(k + 1) + 1])
      BY <2>2, <2>4, PushSiblingIsList
    <2>7. RunningHash(leaf, below[(k + 1) + 1])[Len(below[(k + 1) + 1])]
            = levels[(k + 1) + 1][idx[(k + 1) + 1] + 1]
      <3> DEFINE level == levels[k + 1]
                 short == below[k + 1]
                 j == idx[k + 1]
      <3>1. /\ IsList(level) /\ j \in 0..(Len(level) - 1) /\ IsList(short)
            /\ RunningHash(leaf, short)[Len(short)] = level[j + 1]
        BY <2>2, <2>3
      <3>3. Builder = "rust" \/ Sibling(j) < Len(level)
        <4>1. k + 1 \in 1..(h - 1)
          BY <1>2, <2>1
        <4>2. Builder = "rust" \/ ~(Len(level) % 2 = 1 /\ j + 1 = Len(level))
          BY <1>5a, <4>1
        <4> QED
          BY <3>1, <4>2, SiblingMissing
      <3> HIDE DEF leaf, level, short, j, Climbed
      <3>2. LET longer == PushSibling(short, level, j)
            IN  RunningHash(leaf, longer)[Len(longer)] = NextLevel(level)[(j \div 2) + 1]
        BY <3>1, <3>3, ClimbOneLevel
      <3> QED
        BY <2>3, <2>4, <3>2 DEF level, short, j
    <2> QED
      BY <2>4, <2>5, <2>6, <2>7
  <1> HIDE DEF S, Climbed
  <1>8. Nat \subseteq S
    BY <1>6, <1>7, InductionSet
  <1>9. Climbed(h)
    <2>1. h - 1 \in Nat /\ (h - 1) + 1 = h /\ h <= h
      BY <1>2
    <2>2. Climbed((h - 1) + 1)
      BY <1>8, <2>1 DEF S
    <2> QED
      BY <2>1, <2>2
  <1>10. idx[h] = 0
    <2>1. Len(levels[h]) = 1
      BY <1>2 DEF Topped, h
    <2> QED
      BY <1>9, <2>1 DEF Climbed
  <1>11. RunningHash(leaf, below[h])[Len(below[h])] = levels[h][1]
    BY <1>9, <1>10 DEF Climbed
  <1> QED
    BY <1>5, <1>11 DEF VerifyMerkleProof, leaf

\* The proof has a sibling from every level below the root if every node on the way up
\* has one, and is shorter otherwise.
LEMMA ProofLength ==
  ASSUME NEW leaves, IsList(leaves), NEW i \in 0..(Len(leaves) - 1)
  PROVE  /\ IsList(ProofFor(leaves, i)) /\ Len(ProofFor(leaves, i)) \in Nat
         /\ Len(ProofFor(leaves, i)) <= Len(Levels(leaves)) - 1
         /\ Len(ProofFor(leaves, i)) = Len(Levels(leaves)) - 1 <=> NeverOdd(leaves, i)
  <1> DEFINE levels == Levels(leaves)
             h == Len(levels)
             idx == WayUp(i, h)
             below == SiblingsUp(levels, i)
             odd(d) == Len(levels[d]) % 2 = 1 /\ idx[d] + 1 = Len(levels[d])
             Pushed(d) == /\ idx[d] \in 0..(Len(levels[d]) - 1)
                          /\ IsList(below[d]) /\ Len(below[d]) \in Nat
                          /\ Len(below[d]) <= d - 1
                          /\ Len(below[d]) = d - 1 <=> \A k \in 1..(d - 1) : ~odd(k)
             S == {k \in Nat : k + 1 <= h => Pushed(k + 1)}
  <1>1. Len(leaves) \in Nat /\ Len(leaves) >= 1
    BY DEF IsList
  <1>2. Layered(levels, leaves) /\ h \in Nat /\ h >= 1
    BY <1>1, LevelsAreLayered DEF Layered, IsList
  <1>3. \A d \in 1..h : idx[d] = IF d = 1 THEN i ELSE idx[d - 1] \div 2
    BY <1>2, WayUpUnfolds DEF IsWayUp
  <1>4. \A d \in 1..h :
          below[d] = IF d = 1 THEN <<>> ELSE PushSibling(below[d - 1], levels[d - 1], idx[d - 1])
    BY <1>2, SiblingsUpUnfolds DEF IsSiblingsUp
  <1>5. ProofFor(leaves, i) = below[h]
    BY DEF ProofFor
  <1>6. NeverOdd(leaves, i) <=> \A d \in 1..(h - 1) : ~odd(d)
    BY DEF NeverOdd
  <1>7. \A d \in 1..h : IsList(levels[d]) /\ (d < h => levels[d + 1] = NextLevel(levels[d]))
    <2>1. ASSUME NEW d \in 1..h, d < h PROVE levels[d + 1] = NextLevel(levels[d])
      <3>1. d + 1 \in 1..h /\ d + 1 > 1 /\ (d + 1) - 1 = d
        BY <1>2, <2>1
      <3> QED
        BY <1>2, <3>1 DEF Layered
    <2> QED
      BY <1>2, <2>1 DEF Layered
  <1>8. levels[1] = BottomLevel(leaves)
    BY <1>2 DEF Layered
  <1> HIDE DEF levels, h, idx, below
  <1>9. 0 \in S
    <2>1. idx[1] = i /\ below[1] = <<>>
      BY <1>2, <1>3, <1>4
    <2>2. Len(levels[1]) = Len(leaves)
      BY <1>1, <1>8, BottomLevelIsList
    <2>3. IsList(<<>>) /\ Len(<<>>) = 0
      BY DEF IsList
    <2> HIDE DEF odd
    <2>4. Pushed(1)
      BY <1>1, <2>1, <2>2, <2>3
    <2> HIDE DEF Pushed
    <2> QED
      BY <2>4
  <1>10. ASSUME NEW k \in Nat, k \in S PROVE k + 1 \in S
    <2> HIDE DEF Pushed
    <2> SUFFICES ASSUME (k + 1) + 1 <= h PROVE Pushed((k + 1) + 1)
      OBVIOUS
    <2> DEFINE d == k + 1
               level == levels[d]
               short == below[d]
    <2>1. /\ d \in 1..h /\ d + 1 \in 1..h /\ d < h /\ d + 1 > 1 /\ (d + 1) - 1 = d
      BY <1>2
    <2>2. Pushed(d)
      BY <1>10, <2>1
    <2>3. IsList(level) /\ levels[d + 1] = NextLevel(level)
      BY <1>7, <2>1
    <2>4. idx[d + 1] = idx[d] \div 2 /\ below[d + 1] = PushSibling(short, level, idx[d])
      BY <1>3, <1>4, <2>1
    <2>5. idx[d + 1] \in 0..(Len(levels[d + 1]) - 1)
      BY <2>2, <2>3, <2>4, ParentOfNode DEF Pushed
    <2>6. Sibling(idx[d]) < Len(level) <=> ~odd(d)
      BY <2>2, <2>3, SiblingMissing DEF Pushed
    <2>7. IsList(short) /\ Len(short) \in Nat /\ Len(short) <= d - 1
          /\ (Len(short) = d - 1 <=> \A m \in 1..(d - 1) : ~odd(m))
      BY <2>2 DEF Pushed
    <2>8. (\A m \in 1..d : ~odd(m)) <=> (\A m \in 1..(d - 1) : ~odd(m)) /\ ~odd(d)
      <3> HIDE DEF odd, level, short
      <3>1. \A m \in 1..d : m \in 1..(d - 1) \/ m = d
        BY <2>1
      <3>2. d \in 1..d /\ \A m \in 1..(d - 1) : m \in 1..d
        BY <2>1
      <3> QED
        BY <3>1, <3>2
    <2>9. /\ IsList(below[d + 1]) /\ Len(below[d + 1]) \in Nat
          /\ Len(below[d + 1]) <= (d + 1) - 1
          /\ Len(below[d + 1]) = (d + 1) - 1 <=> \A m \in 1..d : ~odd(m)
      <3> HIDE DEF odd, level, short, d, S
      <3>1. CASE odd(d)
        <4>1. below[d + 1] = short
          BY <2>4, <2>6, <3>1 DEF PushSibling
        <4>2. ~(\A m \in 1..d : ~odd(m))
          BY <2>8, <3>1
        <4>3. Len(short) <= (d + 1) - 1 /\ Len(short) # (d + 1) - 1
          BY <2>1, <2>7
        <4> QED
          BY <2>7, <4>1, <4>2, <4>3
      <3>2. CASE ~odd(d)
        <4>1. below[d + 1] = Append(short, level[Sibling(idx[d]) + 1])
          BY <2>4, <2>6, <3>2 DEF PushSibling
        <4>2. IsList(below[d + 1]) /\ Len(below[d + 1]) = Len(short) + 1
          BY <2>7, <4>1, AppendToList
        <4>3. /\ Len(short) + 1 \in Nat /\ Len(short) + 1 <= (d + 1) - 1
              /\ Len(short) + 1 = (d + 1) - 1 <=> Len(short) = d - 1
          BY <2>1, <2>7
        <4> QED
          BY <2>7, <2>8, <3>2, <4>2, <4>3
      <3> QED
        BY <3>1, <3>2
    <2> HIDE DEF odd
    <2> QED
      BY <2>1, <2>5, <2>9 DEF Pushed
  <1> HIDE DEF S, Pushed
  <1>11. Nat \subseteq S
    BY <1>9, <1>10, InductionSet
  <1>12. Pushed(h)
    <2>1. h - 1 \in Nat /\ (h - 1) + 1 = h /\ h <= h
      BY <1>2
    <2>2. Pushed((h - 1) + 1)
      BY <1>11, <2>1 DEF S
    <2> QED
      BY <2>1, <2>2
  <1>13. /\ IsList(below[h]) /\ Len(below[h]) \in Nat /\ Len(below[h]) <= h - 1
         /\ Len(below[h]) = h - 1 <=> \A k \in 1..(h - 1) : ~odd(k)
    BY <1>12 DEF Pushed
  <1> HIDE DEF odd
  <1> QED
    BY <1>5, <1>6, <1>13 DEF h, levels

\* With the TypeScript builder every node above the leaves is a pair of nodes of the
\* level below, so a hash leads from a leaf to the root in as many turns as there
\* are levels, and no fewer.
LEMMA ShortProofRefused ==
  ASSUME Builder = "sdk", NEW leaves, IsList(leaves), Len(leaves) >= 1,
         NEW leaf, NEW proof, IsList(proof), Len(proof) < Len(Levels(leaves)) - 1
  PROVE  ~VerifyMerkleProof(LeafHash(leaf), proof, RootOf(leaves))
  <1> SUFFICES ASSUME VerifyMerkleProof(LeafHash(leaf), proof, RootOf(leaves)) PROVE FALSE
    OBVIOUS
  <1> DEFINE levels == Levels(leaves)
             h == Len(levels)
             m == Len(proof)
             R == RunningHash(LeafHash(leaf), proof)
             On(x, d) == \E j \in 1..Len(levels[d]) : x = levels[d][j]
             S == {k \in Nat : k <= m => On(R[m - k], h - k)}
  <1>1. Layered(levels, leaves) /\ Topped(levels) /\ h \in Nat /\ m \in Nat /\ m < h - 1
    BY LevelsAreLayered DEF Layered, IsList
  <1>2. RootOf(leaves) = levels[h][1] /\ R[m] = RootOf(leaves)
    BY DEF RootOf, VerifyMerkleProof
  <1>3. R[0] = LeafHash(leaf) /\ \A k \in 1..m : R[k] = HashPair(R[k - 1], proof[k])
    BY <1>1, RunningHashTurns
  <1>4. ASSUME NEW d \in 1..h, d > 1, NEW x, On(x, d)
        PROVE  \E p, q : On(p, d - 1) /\ On(q, d - 1) /\ x = HashPair(p, q)
    <2> DEFINE level == levels[d - 1]
               w == Len(level)
    <2>1. levels[d] = NextLevel(level) /\ IsList(level) /\ w \in Nat /\ w >= 1
      BY <1>1, <1>4 DEF Layered, IsList
    <2>2. PICK j \in 1..Len(levels[d]) : x = levels[d][j]
      BY <1>4
    <2>3. j \in 1..((w + 1) \div 2)
      BY <2>1, <2>2, NextLevelIsList
    <2>4. x = IF 2 * j <= w THEN HashPair(level[2 * j - 1], level[2 * j])
                            ELSE HashPair(level[2 * j - 1], level[2 * j - 1])
      BY <2>1, <2>2, <2>3 DEF NextLevel, OddParent
    <2>5. 2 * j - 1 \in 1..w /\ (2 * j <= w => 2 * j \in 1..w)
      <3> HIDE DEF w, level
      <3> QED
        BY <2>1, <2>3
    <2> HIDE DEF w
    <2> QED
      BY <2>4, <2>5 DEF w
  <1> HIDE DEF levels, h, m, R
  <1>5. 0 \in S
    <2>1. On(levels[h][1], h)
      BY <1>1 DEF Topped, h
    <2>2. m - 0 = m /\ h - 0 = h
      BY <1>1
    <2> HIDE DEF On
    <2> QED
      BY <1>2, <2>1, <2>2
  <1>6. ASSUME NEW k \in Nat, k \in S PROVE k + 1 \in S
    <2> SUFFICES ASSUME k + 1 <= m PROVE On(R[m - (k + 1)], h - (k + 1))
      OBVIOUS
    <2> HIDE DEF On
    <2>1. /\ m - k \in 1..m /\ (m - k) - 1 = m - (k + 1)
          /\ h - k \in 1..h /\ h - k > 1 /\ (h - k) - 1 = h - (k + 1)
          /\ k <= m
      BY <1>1
    <2>2. On(R[m - k], h - k)
      BY <1>6, <2>1
    <2>3. R[m - k] = HashPair(R[m - (k + 1)], proof[m - k])
      BY <1>3, <2>1
    <2>4. PICK p, q : On(p, h - (k + 1)) /\ On(q, h - (k + 1)) /\ R[m - k] = HashPair(p, q)
      BY <1>4, <2>1, <2>2
    <2>5. HashPair(R[m - (k + 1)], proof[m - k]) = HashPair(p, q)
      BY <2>3, <2>4
    <2>6. R[m - (k + 1)] \in {p, q}
      BY <2>5, HashPairInjective
    <2> QED
      BY <2>4, <2>6
  <1> HIDE DEF S
  <1>7. Nat \subseteq S
    BY <1>5, <1>6, InductionSet
  <1>8. On(R[0], h - m)
    <2>1. m - m = 0 /\ m <= m
      BY <1>1
    <2> HIDE DEF On
    <2> QED
      BY <1>1, <1>7, <2>1 DEF S
  <1>9. h - m \in 1..h /\ h - m > 1
    BY <1>1
  <1>10. \E p, q : LeafHash(leaf) = HashPair(p, q)
    <2> HIDE DEF On
    <2> QED
      BY <1>3, <1>4, <1>8, <1>9
  <1> QED
    BY <1>10, NoLeafIsPair

\* What the proofs of the two builders are worth: the Rust builder's is accepted for
\* every position of every list, the TypeScript builder's exactly for those whose way
\* up never meets an odd node.
THEOREM BuiltProofVerified ==
  ASSUME NEW leaves, IsList(leaves), NEW i \in 0..(Len(leaves) - 1)
  PROVE  VerifyMerkleProof(LeafHash(leaves[i + 1]), ProofFor(leaves, i), RootOf(leaves))
           <=> Builder = "rust" \/ NeverOdd(leaves, i)
  <1>1. ASSUME Builder # "rust", ~NeverOdd(leaves, i)
        PROVE  ~VerifyMerkleProof(LeafHash(leaves[i + 1]), ProofFor(leaves, i), RootOf(leaves))
    <2>1. Builder = "sdk"
      BY <1>1, BuilderAssumption
    <2>2. Len(leaves) \in Nat /\ Len(leaves) >= 1
      BY DEF IsList
    <2>3. Len(Levels(leaves)) \in Nat
      BY <2>2, LevelsAreLayered DEF Layered, IsList
    <2>4. IsList(ProofFor(leaves, i)) /\ Len(ProofFor(leaves, i)) < Len(Levels(leaves)) - 1
      BY <1>1, <2>3, ProofLength
    <2> QED
      BY <2>1, <2>2, <2>4, ShortProofRefused
  <1> QED
    BY <1>1, ProofVerified
===============================================================================
