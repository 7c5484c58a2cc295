--------------------------- MODULE LayerPartition ---------------------------
(***************************************************************************)
(* How the layers of a network are divided among device groups:            *)
(* NetworkBuilder::SplitGpuLayers (network_builder.cc).  Layers are        *)
(* numbered from 0; start_layer is the number of layers left to the CPU.   *)
(* The state machine that builds and runs the layers is ModelBuilding.     *)
(***************************************************************************)
EXTENDS Integers

(* Division of C++ integers, which rounds towards zero.                     *)
Quotient(x, n) == IF x >= 0 THEN x \div n ELSE -((-x) \div n)

(* layer_num_per_group, rounded up.                                         *)
LayersPerGroup(start_layer, end_layer, group_num) ==
  Quotient(end_layer - start_layer + group_num - 1, group_num)

(* A faulty variant, for mutation: the last range ends like the others.     *)
GroupRange_NoLast(start_layer, end_layer, group_num, g) ==
  LET per_group == LayersPerGroup(start_layer, end_layer, group_num)
  IN  [ group |-> g, start |-> start_layer + g * per_group, end |-> (g + 1) * per_group ]

(* The range of one group.  The end of a range other than the last is       *)
(* (group_id + 1) * layer_num_per_group: start_layer is not added to it,    *)
(* and it is not cut at end_layer.                                          *)
GroupRange(start_layer, end_layer, group_num, g) ==
  LET per_group == LayersPerGroup(start_layer, end_layer, group_num)
  IN  [ group |-> g,
        start |-> start_layer + g * per_group,
        end   |-> IF g + 1 = group_num THEN end_layer ELSE (g + 1) * per_group ]

(* Only ranges that are not empty become assignments.                       *)
Assignments(start_layer, end_layer, group_num) ==
  { la \in {GroupRange(start_layer, end_layer, group_num, g) : g \in 0 .. group_num - 1} :
      la.end > la.start }

Covers(la, l) == la.start <= l /\ l < la.end

-----------------------------------------------------------------------------
(* The inputs SplitGpuLayers divides correctly: no layer on the CPU or a    *)
(* single group, and enough layers for the last group to get one.           *)
Regular(start_layer, end_layer, group_num) ==
  /\ start_layer = 0 \/ group_num = 1
  /\ (group_num - 1) * LayersPerGroup(start_layer, end_layer, group_num)
        < end_layer - start_layer

(* A partition: every layer from start_layer on belongs to exactly one      *)
(* group, no range leaves the network, and no group is left without layers. *)
IsPartition(start_layer, end_layer, group_num) ==
  LET las == Assignments(start_layer, end_layer, group_num)
  IN  /\ \A l \in start_layer .. end_layer - 1 : \E la \in las : Covers(la, l)
      /\ \A a, b \in las : \A l \in start_layer .. end_layer - 1 :
           Covers(a, l) /\ Covers(b, l) => a = b
      /\ \A la \in las : start_layer <= la.start /\ la.end <= end_layer
      /\ \A g \in 0 .. group_num - 1 : \E la \in las : la.group = g
=============================================================================
