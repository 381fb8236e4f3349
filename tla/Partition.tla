------------------------------ MODULE Partition ------------------------------
(***************************************************************************)
(* The shape of the partition tree over the service state, as computed by  *)
(* partition::init() from the number of blocks (DYNAMIC_PARTITION_TREE,    *)
(* Partition.cc).  Level 0 is the root and level PLevels - 1 the blocks.   *)
(***************************************************************************)
EXTENDS Integers, Sequences, SequencesExt

CONSTANTS nb,                    \* number of blocks of the state
          PChildren,             \* children of a partition that fit a message
          MAX_PARTITION_LEVELS

ASSUME PartitionAssumption ==
  nb \in Nat \ {0, 1} /\ PChildren \in Nat \ {0, 1} /\ MAX_PARTITION_LEVELS = 4

(* num_nodes[]: the blocks, then their parents, and so on up to the root.  *)
AddLevel(up, k) ==
  IF Last(up) = 1 THEN up
  ELSE Append(up, (Last(up) + PChildren - 1) \div PChildren)

num_nodes == FoldLeft(AddLevel, <<nb>>, [k \in 1..nb |-> k])

PLevels == Len(num_nodes)
Levels == 0..(PLevels - 1)

(* PSize[0] is 1 and PSize[i] the number of nodes of the level counted     *)
(* from the root: the code divides by it to find a parent.                 *)
PSize == [l \in Levels |-> IF l = 0 THEN 1 ELSE num_nodes[PLevels - l]]

PLevelSize ==
  [l \in Levels |-> FoldLeft(LAMBDA size, j : size * PSize[j], 1, [j \in 1..l |-> j])]

(* PBlocks is filled from the entry of the blocks towards the root; the    *)
(* entries above PLevels - 1 keep the zero of static storage.              *)
PBlocks ==
  LET up[k \in Levels] == IF k = 0 THEN 1 ELSE PSize[k] * up[k - 1]
  IN  [l \in 0..(MAX_PARTITION_LEVELS - 1) |->
         IF l \in Levels THEN up[PLevels - 1 - l] ELSE 0]

(* partition::blocks(level).                                               *)
blocks(level) == PBlocks[level + (MAX_PARTITION_LEVELS - PLevels)]

(* A node of the tree is named <<level, index>>.  ptree[l] has             *)
(* PLevelSize[l] parts, the last level nb.                                 *)
Leaf == PLevels - 1
LevelSize(l) == IF l = Leaf THEN nb ELSE PLevelSize[l]
Indices(l) == 0..(LevelSize(l) - 1)
Nodes == UNION {{<<l, i>> : i \in Indices(l)} : l \in Levels}
Inner == {k \in Nodes : k[1] < Leaf}
Blocks == Indices(Leaf)
ParentOf(k) == <<k[1] - 1, k[2] \div PSize[k[1]]>>
=============================================================================
