----------------------------- MODULE MerkleProofs -----------------------------
(***************************************************************************)
(* The loops of module Merkle compute the functions of module MerkleTree,  *)
(* for trees of every number of leaves; so what MerkleTreeProofs says of   *)
(* the functions holds of the loops: the proof that the Rust builder makes *)
(* is accepted, and with either builder no proof of any length makes the   *)
(* verifier accept a leaf the tree was not built from.                     *)
(***************************************************************************)
EXTENDS Merkle, MerkleTreeProofs

\* The levels are the first levels of the one tree over the leaves, and all of them
\* when the builder stops.
Building ==
  /\ IsList(leaves) /\ Len(leaves) >= 1
  /\ Layered(levels, leaves) /\ NarrowsLast(levels)
  /\ phase # "build" => Topped(levels)

\* The proof maker has not begun; or it is where the way up from the claimed leaf
\* leads, and has pushed what lies beside that way.
Climbing ==
  /\ IsList(proof)
  /\ phase \in {"build", "foreign"} => depth = 1 /\ idx = 0 /\ proof = <<>>
  /\ phase \in {"build", "prove"} => pos = 0
  /\ phase \in {"prove", "verify"} =>
       \E i \in 0..(Len(leaves) - 1) :
         /\ claim = leaves[i + 1]
         /\ idx = WayUp(i, Len(levels))[depth]
         /\ proof = SiblingsUp(levels, i)[depth]

\* The verifier's hash is that of the leaf and the siblings it has consumed.
Following ==
  phase = "verify" =>
    /\ depth = Len(levels)
    /\ current = RunningHash(LeafHash(claim), proof)[pos]

\* A claim that is not listed never gets onto the tree.
Outside ==
  phase = "foreign" =>
    (\E i \in 1..Len(leaves) : claim = leaves[i]) \/ current \notin NodesIn(levels)

IInv == TypeOK /\ Building /\ Climbing /\ Following /\ Outside

-------------------------------------------------------------------------------
\* A fresh builder holds the leaf hashes and nothing else.
LEMMA InitEstablishes == Init => IInv
  <1> SUFFICES ASSUME Init PROVE IInv
    OBVIOUS
  <1>1. IsList(leaves) /\ Len(leaves) >= 1 /\ Len(leaves) \in Nat
    BY ListsAssumption DEF Init, IsList
  <1>2. IsList(BottomLevel(leaves)) /\ Len(BottomLevel(leaves)) = Len(leaves)
    BY <1>1, BottomLevelIsList
  <1>3. levels = <<BottomLevel(leaves)>> /\ Len(levels) = 1 /\ levels[1] = BottomLevel(leaves)
    BY DEF Init
  <1>4. TypeOK
    BY <1>1, <1>2, <1>3 DEF Init, TypeOK
  <1>5. Layered(levels, leaves) /\ NarrowsLast(levels)
    <2>1. IsList(levels) /\ \A d \in 1..Len(levels) : d = 1
      BY <1>3 DEF IsList
    <2>2. Len(levels[1]) >= 1 /\ IsList(levels[1])
      BY <1>1, <1>2, <1>3
    <2>3. \A d \in 1..Len(levels) : IsList(levels[d]) /\ Len(levels[d]) >= 1
      BY <2>1, <2>2, Zenon
    <2>4. \A d \in 1..Len(levels) : d > 1 => levels[d] = NextLevel(levels[d - 1])
      BY <2>1
    <2>5. 1..(Len(levels) - 1) = {} /\ Len(levels) >= 1
      BY <1>3
    <2> QED
      BY <1>3, <2>1, <2>3, <2>4, <2>5, Zenon DEF Layered, NarrowsLast
  <1>6. Building
    BY <1>1, <1>5 DEF Init, Building
  <1>7. Climbing /\ Following /\ Outside
    BY DEF Init, Climbing, Following, Outside, IsList
  <1> QED
    BY <1>4, <1>6, <1>7 DEF IInv

\* Another level on top of the tree.
LEMMA BuildLevelKeeps == IInv /\ BuildLevel => IInv'
  <1> SUFFICES ASSUME IInv, BuildLevel PROVE IInv'
    OBVIOUS
  <1> DEFINE n == Len(levels)
             new == NextLevel(Top)
  <1>1. Layered(levels, leaves) /\ NarrowsLast(levels) /\ IsList(levels) /\ n \in Nat /\ n >= 1
    BY DEF IInv, Building, Layered, IsList
  <1>2. IsList(Top) /\ Len(Top) \in Nat /\ Len(Top) >= 1 /\ Len(Top) # 1
    BY <1>1 DEF Layered, Top, IsList, BuildLevel, Built
  <1>3. IsList(new) /\ Len(new) >= 1
    BY <1>2, NextLevelIsList
  <1>4. phase = "build" /\ levels' = Append(levels, new)
        /\ UNCHANGED <<phase, leaves, claim, depth, idx, proof, pos, current>>
    BY DEF BuildLevel
  <1>5. IsList(levels') /\ Len(levels') = n + 1
        /\ (\A d \in 1..n : levels'[d] = levels[d])
        /\ levels'[n + 1] = new
    BY <1>1, <1>4, AppendToList
  <1>6. TypeOK'
    BY <1>1, <1>4, <1>5 DEF IInv, TypeOK
  <1>7. Layered(levels', leaves)
    <2>1. \A d \in 1..Len(levels') : IsList(levels'[d]) /\ Len(levels'[d]) >= 1
      BY <1>1, <1>3, <1>5 DEF Layered
    <2>2. ASSUME NEW d \in 1..Len(levels'), d > 1
          PROVE  levels'[d] = NextLevel(levels'[d - 1])
      <3>1. CASE d = n + 1
        BY <1>1, <1>5, <3>1 DEF Top
      <3>2. CASE d # n + 1
        <4>1. d \in 1..n /\ d - 1 \in 1..n
          BY <1>1, <1>5, <2>2, <3>2
        <4>2. levels[d] = NextLevel(levels[d - 1])
          BY <1>1, <2>2, <4>1 DEF Layered
        <4> QED
          BY <1>5, <4>1, <4>2
      <3> QED
        BY <3>1, <3>2
    <2>3. levels'[1] = BottomLevel(leaves)
      BY <1>1, <1>5 DEF Layered
    <2> QED
      BY <1>1, <1>5, <2>1, <2>2, <2>3 DEF Layered
  <1>8. NarrowsLast(levels')
    <2> SUFFICES ASSUME NEW d \in 1..n PROVE Len(levels'[d]) > 1
      BY <1>1, <1>5 DEF NarrowsLast
    <2>1. levels'[d] = levels[d]
      BY <1>5
    <2>2. CASE d = n
      <3> DEFINE width == Len(Top)
      <3>1. width \in Nat /\ width >= 1 /\ width # 1
        BY <1>2
      <3>2. Len(levels'[d]) = width
        BY <2>1, <2>2 DEF Top
      <3> HIDE DEF width
      <3>3. width > 1
        BY <3>1
      <3> QED
        BY <3>2, <3>3
    <2>3. CASE d # n
      <3>1. d \in 1..(n - 1)
        BY <1>1, <2>3
      <3> QED
        BY <1>1, <2>1, <3>1 DEF NarrowsLast
    <2> QED
      BY <2>2, <2>3
  <1>9. Building'
    BY <1>4, <1>7, <1>8 DEF IInv, Building
  <1>10. Climbing' /\ Following' /\ Outside'
    BY <1>4 DEF IInv, Climbing, Following, Outside, IsList
  <1> QED
    BY <1>6, <1>9, <1>10 DEF IInv

\* No other step touches the tree.
LEMMA TreeKept ==
  ASSUME IInv, UNCHANGED <<leaves, levels>>, phase' = "build" => phase = "build",
         phase = "build" /\ phase' # "build" => Built
  PROVE  Building'
  <1>1. phase' # "build" => Topped(levels)
    BY DEF IInv, Building, Built, Top, Topped
  <1> QED
    BY <1>1 DEF IInv, Building

\* The proof maker starts at the leaf it was asked for.
LEMMA StartProofKeeps ==
  ASSUME IInv, NEW i \in 0..(Len(leaves) - 1), StartProof(i) PROVE IInv'
  <1>1. /\ phase = "build" /\ Built /\ phase' = "prove"
        /\ claim' = leaves[i + 1] /\ idx' = i
        /\ UNCHANGED <<leaves, levels, depth, proof, pos, current>>
    BY DEF StartProof
  <1>2. depth = 1 /\ proof = <<>> /\ pos = 0 /\ IsList(proof)
    BY <1>1 DEF IInv, Climbing
  <1>3. Len(levels[1]) = Len(leaves) /\ Len(leaves) \in Nat
        /\ Len(levels) \in Nat /\ Len(levels) >= 1
    BY BottomLevelIsList DEF IInv, Building, Layered, IsList
  <1>4. TypeOK'
    BY <1>1, <1>2, <1>3 DEF IInv, TypeOK
  <1>5. Building'
    BY <1>1, TreeKept
  <1>6. Climbing'
    <2>1. WayUp(i, Len(levels))[1] = i
      BY <1>3, WayUpUnfolds DEF IsWayUp
    <2>2. SiblingsUp(levels, i)[1] = <<>>
      BY <1>3, SiblingsUpUnfolds DEF IsSiblingsUp
    <2>3. \E j \in 0..(Len(leaves') - 1) :
            /\ claim' = leaves'[j + 1]
            /\ idx' = WayUp(j, Len(levels'))[depth']
            /\ proof' = SiblingsUp(levels', j)[depth']
      BY <1>1, <1>2, <2>1, <2>2
    <2> QED
      BY <1>1, <1>2, <2>3 DEF Climbing
  <1>7. Following' /\ Outside'
    BY <1>1 DEF Following, Outside
  <1> QED
    BY <1>4, <1>5, <1>6, <1>7 DEF IInv

\* One level up, the proof maker is where the functions are.
LEMMA ProofStepKeeps == IInv /\ ProofStep => IInv'
  <1> SUFFICES ASSUME IInv, ProofStep PROVE IInv'
    OBVIOUS
  <1>1. /\ phase = "prove" /\ depth < Len(levels)
        /\ proof' = PushSibling(proof, levels[depth], idx)
        /\ idx' = idx \div 2 /\ depth' = depth + 1
        /\ UNCHANGED <<phase, leaves, levels, claim, pos, current>>
    BY DEF ProofStep
  <1>2. /\ Len(levels) \in Nat /\ depth \in 1..Len(levels)
        /\ depth + 1 \in 1..Len(levels) /\ depth + 1 # 1 /\ (depth + 1) - 1 = depth
        /\ IsList(levels[depth]) /\ Len(levels[depth]) \in Nat /\ Len(levels[depth]) >= 1
        /\ idx \in 0..(Len(levels[depth]) - 1) /\ IsList(proof) /\ pos \in Nat
    BY <1>1 DEF IInv, TypeOK, Building, Layered, Climbing, IsList
  <1>3. TypeOK'
    <2>1. levels[depth + 1] = NextLevel(levels[depth])
      <3>1. depth + 1 > 1
        BY <1>2
      <3> QED
        BY <1>2, <3>1 DEF IInv, Building, Layered
    <2>2. Len(levels[depth + 1]) = (Len(levels[depth]) + 1) \div 2
      BY <1>2, <2>1, NextLevelIsList
    <2>3. idx \div 2 \in 0..((Len(levels[depth]) + 1) \div 2 - 1)
      <3>1. idx \in Nat /\ idx < Len(levels[depth])
        BY <1>2
      <3> QED
        BY <1>2, <3>1, IndexHalves
    <2>4. depth' \in 1..Len(levels') /\ idx' \in 0..(Len(levels'[depth']) - 1)
      BY <1>1, <1>2, <2>2, <2>3
    <2> QED
      BY <1>1, <1>2, <2>4 DEF TypeOK
  <1>4. Building'
    BY <1>1, TreeKept
  <1>5. Climbing'
    <2>1. IsList(proof')
      BY <1>1, <1>2, PushSiblingIsList
    <2>2. PICK i \in 0..(Len(leaves) - 1) :
            /\ claim = leaves[i + 1]
            /\ idx = WayUp(i, Len(levels))[depth]
            /\ proof = SiblingsUp(levels, i)[depth]
      BY <1>1 DEF IInv, Climbing
    <2>3. WayUp(i, Len(levels))[depth + 1] = idx \div 2
      BY <1>2, <2>2, WayUpUnfolds DEF IsWayUp
    <2>4. SiblingsUp(levels, i)[depth + 1] = PushSibling(proof, levels[depth], idx)
      <3>1. SiblingsUp(levels, i)[depth + 1] =
              PushSibling(SiblingsUp(levels, i)[depth], levels[depth],
                          WayUp(i, Len(levels))[depth])
        BY <1>2, SiblingsUpUnfolds DEF IsSiblingsUp
      <3> QED
        BY <2>2, <3>1
    <2>5. \E j \in 0..(Len(leaves') - 1) :
            /\ claim' = leaves'[j + 1]
            /\ idx' = WayUp(j, Len(levels'))[depth']
            /\ proof' = SiblingsUp(levels', j)[depth']
      BY <1>1, <2>2, <2>3, <2>4
    <2>6. phase' = "prove" /\ pos' = 0
      BY <1>1 DEF IInv, Climbing
    <2> QED
      BY <2>1, <2>5, <2>6 DEF Climbing
  <1>6. Following' /\ Outside'
    BY <1>1 DEF Following, Outside
  <1> QED
    BY <1>3, <1>4, <1>5, <1>6 DEF IInv

\* The verifier starts from the leaf.
LEMMA PresentKeeps == IInv /\ Present => IInv'
  <1> SUFFICES ASSUME IInv, Present PROVE IInv'
    OBVIOUS
  <1>1. /\ phase = "prove" /\ depth = Len(levels) /\ phase' = "verify"
        /\ current' = LeafHash(claim)
        /\ UNCHANGED <<leaves, levels, claim, depth, idx, proof, pos>>
    BY DEF Present
  <1>2. pos = 0 /\ Len(proof) \in Nat
    BY <1>1 DEF IInv, Climbing, IsList
  <1>3. TypeOK'
    BY <1>1, <1>2 DEF IInv, TypeOK
  <1>4. Building'
    BY <1>1, TreeKept
  <1>5. Climbing'
    BY <1>1 DEF IInv, Climbing
  <1>6. Following'
    BY <1>1, <1>2, RunningHashTurns DEF Following
  <1>7. Outside'
    BY <1>1 DEF Outside
  <1> QED
    BY <1>3, <1>4, <1>5, <1>6, <1>7 DEF IInv

\* One sibling more.
LEMMA VerifyStepKeeps == IInv /\ VerifyStep => IInv'
  <1> SUFFICES ASSUME IInv, VerifyStep PROVE IInv'
    OBVIOUS
  <1>1. /\ phase = "verify" /\ pos < Len(proof) /\ pos' = pos + 1
        /\ current' = HashPair(current, proof[pos + 1])
        /\ UNCHANGED <<phase, leaves, levels, claim, depth, idx, proof>>
    BY DEF VerifyStep
  <1>2. pos \in Nat /\ Len(proof) \in Nat
    BY DEF IInv, TypeOK, Climbing, IsList
  <1>3. TypeOK'
    BY <1>1, <1>2 DEF IInv, TypeOK
  <1>4. Building'
    BY <1>1, TreeKept
  <1>5. Climbing'
    BY <1>1 DEF IInv, Climbing
  <1>6. Following'
    <2>1. current = RunningHash(LeafHash(claim), proof)[pos] /\ depth = Len(levels)
      BY <1>1 DEF IInv, Following
    <2>2. pos + 1 \in 1..Len(proof) /\ (pos + 1) - 1 = pos
      BY <1>1, <1>2
    <2>3. RunningHash(LeafHash(claim), proof)[pos + 1]
            = HashPair(RunningHash(LeafHash(claim), proof)[(pos + 1) - 1], proof[pos + 1])
      BY <1>2, <2>2, RunningHashTurns
    <2> QED
      BY <1>1, <2>1, <2>2, <2>3 DEF Following
  <1>7. Outside'
    BY <1>1 DEF Outside
  <1> QED
    BY <1>3, <1>4, <1>5, <1>6, <1>7 DEF IInv

\* An unlisted leaf starts outside the tree: a node is a pair's hash or that of a
\* listed leaf.
LEMMA PresentForeignKeeps ==
  ASSUME IInv, NEW l \in Leaves, PresentForeign(l) PROVE IInv'
  <1>1. /\ phase = "build" /\ Built /\ phase' = "foreign" /\ claim' = l
        /\ current' = LeafHash(l)
        /\ UNCHANGED <<leaves, levels, depth, idx, proof, pos>>
    BY DEF PresentForeign
  <1>2. TypeOK'
    BY <1>1 DEF IInv, TypeOK
  <1>3. Building'
    BY <1>1, TreeKept
  <1>4. Climbing' /\ Following'
    BY <1>1 DEF IInv, Climbing, Following
  <1>5. LeafHash(l) \in NodesIn(levels) => \E i \in 1..Len(leaves) : l = leaves[i]
    <2> SUFFICES ASSUME LeafHash(l) \in NodesIn(levels)
                 PROVE  \E i \in 1..Len(leaves) : l = leaves[i]
      OBVIOUS
    <2>1. Layered(levels, leaves) /\ Len(leaves) \in Nat
      BY DEF IInv, Building, IsList
    <2>2. \/ \E i \in 1..Len(leaves) : LeafHash(l) = LeafHash(leaves[i])
          \/ \E p \in NodesIn(levels), q \in NodesIn(levels) : LeafHash(l) = HashPair(p, q)
      BY <2>1, NodesHashed
    <2> QED
      BY <2>2, NoLeafIsPair, LeafHashInjective
  <1>6. Outside'
    BY <1>1, <1>5 DEF Outside
  <1> QED
    BY <1>2, <1>3, <1>4, <1>6 DEF IInv

\* A hash outside the tree stays outside, whatever it is paired with: the children
\* of a node are nodes.
LEMMA VerifyForeignStepKeeps ==
  ASSUME IInv, NEW sibling, VerifyForeignStep(sibling) PROVE IInv'
  <1>1. /\ phase = "foreign" /\ pos' = pos + 1
        /\ current' = HashPair(current, sibling)
        /\ UNCHANGED <<phase, leaves, levels, claim, depth, idx, proof>>
    BY DEF VerifyForeignStep
  <1>2. TypeOK'
    BY <1>1 DEF IInv, TypeOK
  <1>3. Building'
    BY <1>1, TreeKept
  <1>4. Climbing' /\ Following'
    BY <1>1 DEF IInv, Climbing, Following
  <1>5. ASSUME HashPair(current, sibling) \in NodesIn(levels) PROVE current \in NodesIn(levels)
    <2>1. Layered(levels, leaves) /\ Len(leaves) \in Nat
      BY DEF IInv, Building, IsList
    <2>2. \/ \E i \in 1..Len(leaves) : HashPair(current, sibling) = LeafHash(leaves[i])
          \/ \E p \in NodesIn(levels), q \in NodesIn(levels) :
               HashPair(current, sibling) = HashPair(p, q)
      BY <1>5, <2>1, NodesHashed
    <2>3. PICK p \in NodesIn(levels), q \in NodesIn(levels) :
            HashPair(current, sibling) = HashPair(p, q)
      BY <2>2, NoLeafIsPair
    <2> QED
      BY <2>3, HashPairInjective
  <1>6. Outside'
    BY <1>1, <1>5 DEF IInv, Outside
  <1> QED
    BY <1>2, <1>3, <1>4, <1>6 DEF IInv

\* IInv is inductive.
LEMMA NextKeeps == IInv /\ [Next]_vars => IInv'
  <1> SUFFICES ASSUME IInv, [Next]_vars PROVE IInv'
    OBVIOUS
  <1>1. CASE Next
    BY <1>1, BuildLevelKeeps, StartProofKeeps, ProofStepKeeps, PresentKeeps, VerifyStepKeeps,
       PresentForeignKeeps, VerifyForeignStepKeeps DEF Next
  <1>2. CASE UNCHANGED vars
    BY <1>2 DEF vars, IInv, TypeOK, Building, Climbing, Following, Outside
  <1> QED
    BY <1>1, <1>2

\* The inductive invariant holds throughout.
THEOREM MerkleInvariance == Spec => []IInv
  BY InitEstablishes, NextKeeps, PTL DEF Spec

-------------------------------------------------------------------------------
\* The loops never leave the levels they read.
THEOREM MerkleIndicesInRange == Spec => []TypeOK
  <1>1. IInv => TypeOK
    BY DEF IInv
  <1> QED
    BY <1>1, MerkleInvariance, PTL

\* When the verifier runs, the loops have built what the functions define.
LEMMA LoopsDone ==
  ASSUME IInv, phase = "verify"
  PROVE  /\ levels = Levels(leaves)
         /\ \E i \in 0..(Len(leaves) - 1) : claim = leaves[i + 1] /\ proof = ProofFor(leaves, i)
         /\ Root = RootOf(leaves)
         /\ pos = Len(proof) => current = RunningHash(LeafHash(claim), proof)[Len(proof)]
  <1>1. levels = Levels(leaves)
    BY LevelsUnique DEF IInv, Building
  <1>2. PICK i \in 0..(Len(leaves) - 1) :
          claim = leaves[i + 1] /\ proof = SiblingsUp(levels, i)[depth]
    BY DEF IInv, Climbing
  <1>3. depth = Len(levels) /\ current = RunningHash(LeafHash(claim), proof)[pos]
    BY DEF IInv, Following
  <1>4. proof = ProofFor(leaves, i)
    BY <1>1, <1>2, <1>3 DEF ProofFor
  <1>5. Root = RootOf(leaves)
    BY <1>1 DEF Root, Top, RootOf
  <1> QED
    BY <1>1, <1>2, <1>3, <1>4, <1>5

\* With the Rust builder, the proof made for a leaf is accepted, whatever the number
\* of leaves and the position of the leaf.
THEOREM MerkleBuiltProofsAccepted ==
  ASSUME Builder = "rust" PROVE Spec => []BuiltProofsAccepted
  <1>1. IInv => BuiltProofsAccepted
    <2> SUFFICES ASSUME IInv, phase = "verify", pos = Len(proof)
                 PROVE  current = Root
      BY DEF BuiltProofsAccepted, Accepted, Finished
    <2>1. PICK i \in 0..(Len(leaves) - 1) : claim = leaves[i + 1] /\ proof = ProofFor(leaves, i)
      BY LoopsDone
    <2>2. VerifyMerkleProof(LeafHash(leaves[i + 1]), ProofFor(leaves, i), RootOf(leaves))
      BY BuiltProofVerified DEF IInv, Building
    <2>3. RunningHash(LeafHash(claim), proof)[Len(proof)] = RootOf(leaves)
      BY <2>1, <2>2 DEF VerifyMerkleProof
    <2> QED
      BY <2>3, LoopsDone
  <1> QED
    BY <1>1, MerkleInvariance, PTL

\* With the TypeScript builder, the proof made for a leaf is accepted exactly if it
\* has a sibling for every level below the root, for trees of every size.
THEOREM MerkleShortProofsRefused == Spec => []ShortProofsRefused
  <1>1. IInv => ShortProofsRefused
    <2> SUFFICES ASSUME IInv, Builder = "sdk", phase = "verify", pos = Len(proof)
                 PROVE  current = Root <=> Len(proof) = Len(levels) - 1
      BY DEF ShortProofsRefused, Accepted, Finished
    <2>1. PICK i \in 0..(Len(leaves) - 1) : claim = leaves[i + 1] /\ proof = ProofFor(leaves, i)
      BY LoopsDone
    <2>2. IsList(leaves) /\ levels = Levels(leaves) /\ Root = RootOf(leaves)
      BY LoopsDone DEF IInv, Building
    <2>3. current = Root <=> VerifyMerkleProof(LeafHash(leaves[i + 1]), ProofFor(leaves, i),
                                               RootOf(leaves))
      BY <2>1, <2>2, LoopsDone DEF VerifyMerkleProof
    <2>4. current = Root <=> NeverOdd(leaves, i)
      BY <2>2, <2>3, BuiltProofVerified
    <2>5. Len(proof) = Len(levels) - 1 <=> NeverOdd(leaves, i)
      BY <2>1, <2>2, ProofLength
    <2> QED
      BY <2>4, <2>5
  <1> QED
    BY <1>1, MerkleInvariance, PTL

\* With either builder, no proof of any length admits a leaf that was not listed.
THEOREM MerkleOnlyListedAccepted == Spec => []OnlyListedAccepted
  <1>1. IInv => OnlyListedAccepted
    <2> SUFFICES ASSUME IInv, Accepted PROVE \E i \in DOMAIN leaves : claim = leaves[i]
      BY DEF OnlyListedAccepted
    <2>1. DOMAIN leaves = 1..Len(leaves) /\ Len(leaves) \in Nat
      BY DEF IInv, Building, IsList
    <2>2. CASE phase = "foreign"
      <3>1. levels = Levels(leaves)
        BY <2>2, LevelsUnique DEF IInv, Building
      <3>2. Root = RootOf(leaves)
        BY <3>1 DEF Root, Top, RootOf
      <3>3. Root \in NodesIn(levels)
        BY <3>1, <3>2, RootIsNode DEF IInv, Building
      <3> QED
        BY <2>1, <2>2, <3>3 DEF IInv, Outside, Accepted
    <2>3. CASE phase = "verify"
      <3>1. PICK i \in 0..(Len(leaves) - 1) : claim = leaves[i + 1]
        BY <2>3, LoopsDone
      <3> QED
        BY <2>1, <3>1
    <2> QED
      BY <2>2, <2>3 DEF Accepted, Finished
  <1> QED
    BY <1>1, MerkleInvariance, PTL
===============================================================================
