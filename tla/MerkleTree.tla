------------------------------ MODULE MerkleTree ------------------------------
(***************************************************************************)
(* The merkle trees of the distributions: what one turn of each loop       *)
(* computes, shared by module Merkle, and whole loops as functions.        *)
(*                                                                         *)
(* keccak256 is ideal: no two different inputs hash to the same value, and *)
(* the 48 bytes of a leaf never hash like the 64 bytes of a pair.          *)
(***************************************************************************)
EXTENDS Naturals, Sequences

CONSTANT Builder  \* "rust" or "sdk": who builds the trees

ASSUME BuilderAssumption == Builder \in {"rust", "sdk"}

-------------------------------------------------------------------------------
\* A leaf is a triple of holder, epoch and amount.  Slips, here and elsewhere, are
\* what a plausible mistake would make of the definition that follows.
LeafHash_NoEpoch(l) == <<"leaf", <<l[1], l[3]>>>>
LeafHash_NoAmount(l) == <<"leaf", <<l[1], l[2]>>>>

LeafHash(l) == <<"leaf", l>>

\* Sorted before they are hashed, the two children lose their order.
HashPair(a, b) == <<"node", {a, b}>>

\* A level's last node when it has no sibling: the Rust builder promotes it, the
\* TypeScript builder hashes it with itself.
OddParent(h) == IF Builder = "sdk" THEN HashPair(h, h) ELSE h

NextLevel_RoundsDown(level) ==
  [i \in 1..(Len(level) \div 2) |-> HashPair(level[2 * i - 1], level[2 * i])]

NextLevel(level) ==
  [i \in 1..((Len(level) + 1) \div 2) |->
     IF 2 * i <= Len(level) THEN HashPair(level[2 * i - 1], level[2 * i])
                            ELSE OddParent(level[2 * i - 1])]

Sibling_Next(i) == i + 1

Sibling(i) == IF i % 2 = 0 THEN i + 1 ELSE i - 1

\* A node without a sibling pushes nothing.
PushSibling(proof, level, i) ==
  IF Sibling(i) < Len(level) THEN Append(proof, level[Sibling(i) + 1]) ELSE proof

-------------------------------------------------------------------------------
BottomLevel(leaves) == [i \in 1..Len(leaves) |-> LeafHash(leaves[i])]

\* The leaf hashes, and above them the levels that the loop of build_tree makes one
\* from the other; as many as there are leaves, which is more than it gets to make.
LevelsUp(leaves) ==
  LET up[d \in 1..Len(leaves)] ==
        IF d = 1 THEN BottomLevel(leaves) ELSE NextLevel(up[d - 1])
  IN up

\* build_tree: the levels up to the first of a single node.
Levels(leaves) ==
  LET up == LevelsUp(leaves)
      height == CHOOSE d \in 1..Len(leaves) :
                  Len(up[d]) = 1 /\ \A k \in 1..(d - 1) : Len(up[k]) > 1
  IN SubSeq(up, 1, height)

RootOf(leaves) ==
  LET levels == Levels(leaves) IN levels[Len(levels)][1]

\* idx of proof_for: where in each of n levels the way from position i leads,
\* counted from 0.
WayUp(i, n) ==
  LET idx[d \in 1..n] == IF d = 1 THEN i ELSE idx[d - 1] \div 2
  IN idx

\* What proof_for has pushed below each level.
SiblingsUp(levels, i) ==
  LET idx == WayUp(i, Len(levels))
      below[d \in 1..Len(levels)] ==
        IF d = 1 THEN <<>> ELSE PushSibling(below[d - 1], levels[d - 1], idx[d - 1])
  IN below

\* proof_for: the siblings on the way from the leaf at position i, counted from 0.
ProofFor(leaves, i) ==
  LET levels == Levels(leaves) IN SiblingsUp(levels, i)[Len(levels)]

\* No node on the way from the leaf at position i, counted from 0, is the last of a
\* level with an odd number of nodes, the root aside.
NeverOdd(leaves, i) ==
  LET levels == Levels(leaves)
      idx == WayUp(i, Len(levels))
  IN \A d \in 1..(Len(levels) - 1) :
       ~(Len(levels[d]) % 2 = 1 /\ idx[d] + 1 = Len(levels[d]))

\* The running hash of verify_merkle_proof, after each of the siblings.
RunningHash(leaf, proof) ==
  LET current[k \in 0..Len(proof)] ==
        IF k = 0 THEN leaf ELSE HashPair(current[k - 1], proof[k])
  IN current

\* verify_merkle_proof
VerifyMerkleProof(leaf, proof, root) == RunningHash(leaf, proof)[Len(proof)] = root

NodesIn(levels) ==
  UNION {{levels[d][i] : i \in 1..Len(levels[d])} : d \in 1..Len(levels)}

NodesOf(leaves) == NodesIn(Levels(leaves))
===============================================================================
