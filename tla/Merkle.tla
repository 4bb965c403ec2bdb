-------------------------------- MODULE Merkle --------------------------------
(***************************************************************************)
(* The loops behind a distribution: the builder and the proof maker of     *)
(* programs/cols/src/utils.rs (offchain_merkle), the builder of            *)
(* sdk/src/merkle.ts, and verify_merkle_proof, the check the program makes *)
(* on chain.  Each loop of the code is a run of steps here: one step is    *)
(* one turn of the loop, so that what the loops compute for trees of every *)
(* size is an invariant.  Module MerkleTree has the same loops as          *)
(* functions.                                                              *)
(***************************************************************************)
EXTENDS MerkleTree

CONSTANTS
  Leaves,      \* the leaves: triples of holder, epoch and amount
  LeafLists,   \* the lists of them that a tree is built from
  Strays,      \* hash values a claimant may know from elsewhere
  MaxForeign   \* the longest proof tried that was not built for the claim

ASSUME ListsAssumption ==
  \A l \in LeafLists : l \in Seq(Leaves) /\ l # <<>>

ASSUME ForeignAssumption == MaxForeign \in Nat

VARIABLES
  phase,    \* which loop is running
  leaves,   \* the list the tree is built from
  levels,   \* the tree, bottom up: levels[1] holds the leaf hashes
  claim,    \* the leaf a proof is made for, or presented with
  depth,    \* the level the proof maker has reached, counted from 1
  idx,      \* its position in that level, counted from 0
  proof,    \* the siblings pushed so far
  pos,      \* the number of siblings the verifier has consumed
  current   \* the verifier's running hash

vars == <<phase, leaves, levels, claim, depth, idx, proof, pos, current>>

-------------------------------------------------------------------------------
Top == levels[Len(levels)]
Root == Top[1]
Built == Len(Top) = 1

-------------------------------------------------------------------------------
Init ==
  /\ phase = "build"
  /\ leaves \in LeafLists
  /\ levels = << BottomLevel(leaves) >>
  /\ claim = leaves[1]
  /\ depth = 1
  /\ idx = 0
  /\ proof = <<>>
  /\ pos = 0
  /\ current = LeafHash(claim)

\* build_tree: one turn of the while loop.
BuildLevel ==
  /\ phase = "build"
  /\ ~Built
  /\ levels' = Append(levels, NextLevel(Top))
  /\ UNCHANGED <<phase, leaves, claim, depth, idx, proof, pos, current>>

\* proof_for(leaves, i)
StartProof(i) ==
  /\ phase = "build" /\ Built
  /\ phase' = "prove"
  /\ claim' = leaves[i + 1]
  /\ idx' = i
  /\ UNCHANGED <<leaves, levels, depth, proof, pos, current>>

ProofStep_PushesAlways ==
  /\ phase = "prove"
  /\ depth < Len(levels)
  /\ LET level == levels[depth]
         sibling == IF Sibling(idx) < Len(level) THEN Sibling(idx) ELSE idx
     IN proof' = Append(proof, level[sibling + 1])
  /\ idx' = idx \div 2
  /\ depth' = depth + 1
  /\ UNCHANGED <<phase, leaves, levels, claim, pos, current>>

\* proof_for: one level up.
ProofStep ==
  /\ phase = "prove"
  /\ depth < Len(levels)
  /\ proof' = PushSibling(proof, levels[depth], idx)
  /\ idx' = idx \div 2
  /\ depth' = depth + 1
  /\ UNCHANGED <<phase, leaves, levels, claim, pos, current>>

\* The holder presents its leaf with the proof made for it ...
Present ==
  /\ phase = "prove" /\ depth = Len(levels)
  /\ phase' = "verify"
  /\ current' = LeafHash(claim)
  /\ UNCHANGED <<leaves, levels, claim, depth, idx, proof, pos>>

\* verify_merkle_proof: one turn of the for loop.
VerifyStep ==
  /\ phase = "verify"
  /\ pos < Len(proof)
  /\ current' = HashPair(current, proof[pos + 1])
  /\ pos' = pos + 1
  /\ UNCHANGED <<phase, leaves, levels, claim, depth, idx, proof>>

\* ... or somebody presents any leaf, with any siblings: nodes of the tree, hashes
\* of leaves, or others.
PresentForeign(l) ==
  /\ phase = "build" /\ Built
  /\ phase' = "foreign"
  /\ claim' = l
  /\ current' = LeafHash(l)
  /\ UNCHANGED <<leaves, levels, depth, idx, proof, pos>>

VerifyForeignStep(sibling) ==
  /\ phase = "foreign"
  /\ pos < MaxForeign
  /\ current' = HashPair(current, sibling)
  /\ pos' = pos + 1
  /\ UNCHANGED <<phase, leaves, levels, claim, depth, idx, proof>>

LeafHashes == {LeafHash(l) : l \in Leaves}

Next ==
  \/ BuildLevel
  \/ \E i \in 0..(Len(leaves) - 1) : StartProof(i)
  \/ ProofStep
  \/ Present
  \/ VerifyStep
  \/ \E l \in Leaves : PresentForeign(l)
  \/ \E s \in NodesIn(levels) \cup LeafHashes \cup Strays : VerifyForeignStep(s)

Spec == Init /\ [][Next]_vars

\* The verifier has read the whole proof and compares with the root.
Finished == phase = "foreign" \/ (phase = "verify" /\ pos = Len(proof))
Accepted == Finished /\ current = Root

-------------------------------------------------------------------------------
\* No index the loops compute lies outside the level it is used in, which in the
\* program would be a panic.
TypeOK ==
  /\ phase \in {"build", "prove", "verify", "foreign"}
  /\ depth \in 1..Len(levels)
  /\ idx \in 0..(Len(levels[depth]) - 1)
  /\ pos \in Nat
  /\ phase = "verify" => pos <= Len(proof)

\* Every leaf of every tree can be claimed: the verifier accepts each leaf with the
\* proof that was made for it.
BuiltProofsAccepted == phase = "verify" /\ Finished => Accepted

\* And nothing else can: whatever siblings are presented with it, a leaf that the
\* tree was not built from is refused.
OnlyListedAccepted ==
  Accepted => \E i \in DOMAIN leaves : claim = leaves[i]

\* With the TypeScript builder a leaf's proof is worth something only if every level
\* below the root gave it a sibling: where one is missing, at the leaf's level or at
\* any above, the holder gets a proof that the verifier refuses.
ShortProofsRefused ==
  Builder = "sdk" /\ phase = "verify" /\ Finished =>
    (Accepted <=> Len(proof) = Len(levels) - 1)
===============================================================================
