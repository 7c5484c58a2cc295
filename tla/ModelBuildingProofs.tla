------------------------- MODULE ModelBuildingProofs -------------------------
(***************************************************************************)
(* For every regular network and all bounds: its layers are partitioned    *)
(* among the device groups, building and serving it use nothing that is    *)
(* not there, its workers find their layers built, and a pass goes through *)
(* all of them.  The invariant says where each layer stands in the device  *)
(* network, in closed form (Bound, Pos), after d[k] groups of each kind.   *)
(* The last part is about every network, regular or not: the types of the  *)
(* state, with a count of the layers still to be appended.                 *)
(***************************************************************************)
EXTENDS ModelBuilding, LoopTheorems, FiniteSetTheorems, SequenceTheorems

(* Rounding up leaves no remainder: group_num groups of layer_num_per_group *)
(* layers have room for all layers.                                         *)
LEMMA PerGroupBounds ==
  ASSUME NEW s \in Nat, NEW e \in Nat, NEW n \in Nat \ {0}, s < e
  PROVE  /\ LayersPerGroup(s, e, n) \in Nat \ {0}
         /\ n * LayersPerGroup(s, e, n) >= e - s
<1> DEFINE x == e - s + n - 1
           q == x \div n
<1>1. x \in Nat /\ x >= n
  OBVIOUS
<1>2. q \in Int /\ n * q <= x /\ x < n * q + n
  BY <1>1, Z3
<1>3. q >= 1
  <2>1. CASE q <= 0
    <3>1. n * q <= 0
      BY <1>2, <2>1, Z3
    <3>2. QED
      BY <1>1, <1>2, <3>1
  <2>2. QED
    BY <1>2, <2>1
<1>4. n * q >= e - s
  BY <1>2, <1>3
<1>5. QED
  BY <1>1, <1>2, <1>3, <1>4 DEF LayersPerGroup, Quotient

(* Multiplication by the group size keeps the order of the groups.          *)
LEMMA MultMonotone ==
  ASSUME NEW a \in Int, NEW b \in Int, NEW p \in Nat, a <= b
  PROVE  a * p <= b * p
BY Z3

(* The group a layer belongs to is the quotient by layer_num_per_group.     *)
LEMMA QuotientRange ==
  ASSUME NEW l \in Nat, NEW p \in Nat \ {0}
  PROVE  /\ l \div p \in Nat
         /\ (l \div p) * p <= l
         /\ l < ((l \div p) + 1) * p
BY Z3

(* The ranges of a regular input: consecutive, inside the network, and none *)
(* of them empty.                                                           *)
LEMMA RegularRange ==
  ASSUME NEW s \in Nat, NEW e \in Nat, NEW n \in Nat \ {0}, s < e, Regular(s, e, n),
         NEW g \in 0 .. n - 1
  PROVE  LET p  == LayersPerGroup(s, e, n)
             la == GroupRange(s, e, n, g)
         IN  /\ la.group = g
             /\ la.start = s + g * p
             /\ la.start \in Int /\ la.end \in Int
             /\ g + 1 < n => la.end = s + (g + 1) * p
             /\ g + 1 = n => la.end = e
             /\ s <= la.start /\ la.start < la.end /\ la.end <= e
<1> DEFINE p  == LayersPerGroup(s, e, n)
           la == GroupRange(s, e, n, g)
<1>1. p \in Nat \ {0} /\ n * p >= e - s
  BY PerGroupBounds
<1>2. (n - 1) * p < e - s
  BY DEF Regular
<1>3. g * p \in Int /\ (g + 1) * p \in Int /\ (n - 1) * p \in Int
  BY <1>1
<1>4. 0 <= g * p /\ g * p <= (n - 1) * p
  BY <1>1, MultMonotone
<1>5. g + 1 < n => (g + 1) * p <= (n - 1) * p
  BY <1>1, MultMonotone
<1>6. (g + 1) * p = g * p + p
  BY <1>1, Z3
<1>7. g + 1 < n => s = 0
  BY DEF Regular
<1>8. /\ la.group = g
      /\ la.start = s + g * p
      /\ la.end = IF g + 1 = n THEN e ELSE (g + 1) * p
  BY DEF GroupRange
<1> DEFINE Goal ==
             /\ la.start \in Int /\ la.end \in Int
             /\ g + 1 < n => la.end = s + (g + 1) * p
             /\ g + 1 = n => la.end = e
             /\ s <= la.start /\ la.start < la.end /\ la.end <= e
<1> HIDE DEF p, la
<1>9. CASE g + 1 = n
  <2>1. Goal
    BY <1>1, <1>2, <1>3, <1>4, <1>8, <1>9
  <2>2. QED
    BY <1>8, <2>1 DEF p, la
<1>10. CASE g + 1 < n
  <2>1. Goal
    BY <1>1, <1>2, <1>3, <1>4, <1>5, <1>6, <1>7, <1>8, <1>10
  <2>2. QED
    BY <1>8, <2>1 DEF p, la
<1>11. QED
  BY <1>9, <1>10 DEF p, la

(* SplitGpuLayers divides the layers of every regular input into a          *)
(* partition: each layer that is not left to the CPU is built by exactly    *)
(* one device group, and every group has layers to build.                   *)
THEOREM RegularIsPartition ==
  ASSUME NEW s \in Nat, NEW e \in Nat, NEW n \in Nat \ {0}, s < e, Regular(s, e, n)
  PROVE  IsPartition(s, e, n)
<1> DEFINE p      == LayersPerGroup(s, e, n)
           las    == Assignments(s, e, n)
           la(g)  == GroupRange(s, e, n, g)
<1>1. p \in Nat \ {0} /\ n * p >= e - s
  BY PerGroupBounds
<1>2. \A g \in 0 .. n - 1 :
        /\ la(g).group = g
        /\ la(g).start = s + g * p
        /\ la(g).start \in Int /\ la(g).end \in Int
        /\ g + 1 < n => la(g).end = s + (g + 1) * p
        /\ g + 1 = n => la(g).end = e
        /\ s <= la(g).start /\ la(g).start < la(g).end /\ la(g).end <= e
  BY RegularRange
<1>3. las = {la(g) : g \in 0 .. n - 1}
  BY <1>2 DEF Assignments
<1> HIDE DEF p, las, la
<1>4. ASSUME NEW l \in s .. e - 1
      PROVE  \E x \in las : Covers(x, l)
  <2> DEFINE g == (l - s) \div p
  <2>1. g \in Nat /\ g * p <= l - s /\ l - s < (g + 1) * p
    BY <1>1, QuotientRange
  <2>2. g < n
    <3>1. CASE n <= g
      <4>1. n * p <= g * p
        BY <1>1, <2>1, <3>1, MultMonotone
      <4>2. n * p \in Int /\ g * p \in Int
        BY <1>1, <2>1
      <4>3. QED
        BY <1>1, <2>1, <4>1, <4>2
    <3>2. QED
      BY <2>1, <3>1
  <2> HIDE DEF g
  <2>3. g \in 0 .. n - 1
    BY <2>1, <2>2
  <2>4. g * p \in Int /\ (g + 1) * p \in Int
    BY <1>1, <2>1
  <2>5. Covers(la(g), l)
    BY <1>2, <2>1, <2>3, <2>4 DEF Covers
  <2>6. QED
    BY <1>3, <2>3, <2>5
<1>5. ASSUME NEW g \in 0 .. n - 1, NEW h \in 0 .. n - 1, g < h
      PROVE  la(g).end <= la(h).start
  <2>1. g + 1 < n /\ (g + 1) * p <= h * p
    BY <1>1, <1>5, MultMonotone
  <2>2. (g + 1) * p \in Int /\ h * p \in Int
    BY <1>1
  <2>3. QED
    BY <1>2, <2>1, <2>2
<1>6. ASSUME NEW a \in las, NEW b \in las, NEW l \in s .. e - 1, Covers(a, l), Covers(b, l)
      PROVE  a = b
  <2>1. PICK g \in 0 .. n - 1 : a = la(g)
    BY <1>3
  <2>2. PICK h \in 0 .. n - 1 : b = la(h)
    BY <1>3
  <2>3. /\ la(g).start <= l /\ l < la(g).end
        /\ la(h).start <= l /\ l < la(h).end
    BY <1>6, <2>1, <2>2 DEF Covers
  <2>4. ~(g < h) /\ ~(h < g)
    BY <1>2, <1>5, <2>3
  <2>5. QED
    BY <2>1, <2>2, <2>4
<1>7. \A x \in las : s <= x.start /\ x.end <= e
  BY <1>2, <1>3
<1>8. \A g \in 0 .. n - 1 : \E x \in las : x.group = g
  BY <1>2, <1>3
<1>9. QED
  BY <1>4, <1>6, <1>7, <1>8 DEF IsPartition, las

-----------------------------------------------------------------------------
(* No step changes the model's specification.                               *)
LEMMA SpecIsKept ==
  ASSUME [MBNext]_mbVars
  PROVE  spec' = spec
<1>1. CASE MBStep
  <2>1. CASE InitNetworkStructure
    BY <2>1 DEF InitNetworkStructure
  <2>2. CASE \E l \in unread : ReadLayer(l)
    BY <2>2 DEF ReadLayer
  <2>3. CASE LoadFails \/ HostModel
    BY <2>3 DEF LoadFails, HostModel
  <2>4. CASE BuildDeviceNetwork \/ NotPartitionable \/ BuildDeviceTensor_ForceDequant
    BY <2>4 DEF BuildDeviceNetwork, NotPartitionable, BuildDeviceTensor_ForceDequant
  <2>5. CASE StartBuilders
    BY <2>5 DEF StartBuilders
  <2>6. CASE \E b \in Builders : BuilderRun(b)
    BY <2>6 DEF BuilderRun
  <2>7. CASE JoinBuilder
    BY <2>7 DEF JoinBuilder
  <2>8. CASE CheckDeviceModel \/ CreateCpuWorker
    BY <2>8, SMTT(30) DEF CheckDeviceModel, CreateCpuWorker
  <2>9. CASE BeginPass \/ RunWorkers \/ LayerFails \/ EndPass
    BY <2>9 DEF BeginPass, RunWorkers, LayerFails, EndPass
  <2>10. QED
    BY <1>1, <2>1, <2>2, <2>3, <2>4, <2>5, <2>6, <2>7, <2>8, <2>9 DEF MBStep
<1>2. CASE UNCHANGED mbVars
  BY <1>2 DEF mbVars
<1>3. QED
  BY <1>1, <1>2 DEF MBNext

(* What ModelSpecs says of the numbers SplitGpuLayers gets.                 *)
LEMMA SpecNumbers ==
  ASSUME spec \in ModelSpecs, NEW k \in Kinds
  PROVE  spec.cpu[k] \in Nat /\ spec.layers[k] \in Nat /\ spec.groups \in Nat \ {0}
BY BuildingAssumption DEF ModelSpecs

(* SplitGpuLayers divides the GPU layers of a regular network among all of  *)
(* its device groups, each layer to exactly one of them, for every number   *)
(* of layers, of CPU layers and of groups.                                  *)
THEOREM SplitAlwaysPartitions == MBSpec => []SplitIsPartition
<1>1. MBInit => spec \in ModelSpecs
  BY DEF MBInit
<1>2. spec \in ModelSpecs /\ [MBNext]_mbVars => (spec \in ModelSpecs)'
  <2> SUFFICES ASSUME spec \in ModelSpecs, [MBNext]_mbVars
               PROVE  (spec \in ModelSpecs)'
    OBVIOUS
  <2>1. spec' = spec
    BY SpecIsKept
  <2>2. QED
    BY <2>1 DEF ModelSpecs
<1>3. spec \in ModelSpecs => SplitIsPartition
  <2> SUFFICES ASSUME spec \in ModelSpecs, IsRegular, NEW k \in Kinds,
                      spec.layers[k] > spec.cpu[k]
               PROVE  IsPartition(spec.cpu[k], spec.layers[k], spec.groups)
    BY DEF SplitIsPartition
  <2>1. spec.cpu[k] \in Nat /\ spec.layers[k] \in Nat /\ spec.groups \in Nat \ {0}
    BY SpecNumbers
  <2>2. Regular(spec.cpu[k], spec.layers[k], spec.groups)
    BY DEF IsRegular
  <2>3. QED
    BY <2>1, <2>2, RegularIsPartition
<1>4. QED
  BY <1>1, <1>2, <1>3, PTL DEF MBSpec
-----------------------------------------------------------------------------
(* The layers of a regular network in closed form.  A kind of layers is     *)
(* active if the devices have some of it.                                   *)
Active(k) == spec.layers[k] > spec.cpu[k]

(* Where the layers of the first m groups end.                              *)
Bound(k, m) ==
  IF m = spec.groups THEN spec.layers[k]
  ELSE spec.cpu[k] + m * LayersPerGroup(spec.cpu[k], spec.layers[k], spec.groups)

(* The assignment of the g-th group, and its layers.                        *)
Part(k, g)   == [group |-> g - 1, start |-> Bound(k, g - 1), end |-> Bound(k, g)]
LayersOf(k, g) == Bound(k, g - 1) .. Bound(k, g) - 1

(* Where the device network has layer l: no place is kept for the encoder   *)
(* layers of the CPU.                                                       *)
Offset(k) == IF k = "encoder" THEN spec.cpu[k] ELSE 0
Pos(k, l) == l + 1 - Offset(k)

(* The groups BuildDeviceNetwork builds layers for, and what is left of     *)
(* them after the first m.                                                  *)
Num(k) == IF Active(k) /\ ~(k = "decoder" /\ IsEager) THEN spec.groups ELSE 0
Rest(k, m) == [j \in 1 .. Num(k) - m |-> [kind |-> k, la |-> Part(k, m + j)]]

(* The layers of a group are at their places, in one of some states.        *)
Placed(k, g, states) ==
  \A l \in LayersOf(k, g) : net[k][Pos(k, l)] \in {Layer(l, st, g - 1) : st \in states}

HasTensors == {"hollow", "built"}

(* The layers of a network that has been appended the layers of m groups.   *)
Shape(k, m) ==
  /\ Len(net[k]) = IF ~Active(k) THEN 0
                   ELSE IF IsAppended(k) THEN Bound(k, m) - Offset(k) ELSE spec.layers[k]
  /\ \A i \in 1 .. Len(net[k]) : net[k][i].state = "null" => i + Offset(k) <= spec.cpu[k]

(* Eager building has placed the layers that were read.                     *)
EagerPlaced ==
  IsEager /\ Active("decoder") =>
    \A g \in 1 .. spec.groups : \A l \in LayersOf("decoder", g) \ unread :
      net["decoder"][Pos("decoder", l)] \in {Layer(l, st, g - 1) : st \in HasTensors}

(* Before the builders: nothing is appended.                                *)
Fresh == EagerPlaced /\ \A k \in Kinds : Shape(k, 0)

(* One more group of kind k, and what is left after d[k] groups of each.    *)
Advance(d, k) == [j \in Kinds |-> IF j = k THEN d[j] + 1 ELSE d[j]]

Left(d) == Rest("decoder", d["decoder"]) \o Rest("encoder", d["encoder"])

(* Between two groups, d[k] of each kind are built; without error, by layer *)
(* all of them, and else the last, if ret says so.                          *)
Between(d) ==
  /\ todo = Left(d)
  /\ \A k \in Kinds :
       /\ d[k] <= Num(k)
       /\ Shape(k, d[k])
       /\ \A g \in 1 .. d[k] :
            /\ Placed(k, g, HasTensors)
            /\ Strategy = "BY_LAYER" \/ (ret /\ g = d[k]) => Placed(k, g, {"built"})

(* While threads build the next group of kind k: its layers are placed, and *)
(* those without data are tasks.                                            *)
Building(d, k) ==
  /\ todo = Left(d)
  /\ \A j \in Kinds :
       /\ d[j] <= Num(j)
       /\ Shape(j, Advance(d, k)[j])
       /\ \A g \in 1 .. d[j] :
            /\ Placed(j, g, HasTensors)
            /\ Strategy = "BY_LAYER" => Placed(j, g, {"built"})
  /\ d[k] < Num(k) /\ todo # <<>> /\ Head(todo).kind = k
  /\ Tail(todo) = Left(Advance(d, k))
  /\ Placed(k, d[k] + 1, HasTensors)
  /\ \A l \in LayersOf(k, d[k] + 1) :
       net[k][Pos(k, l)].state = "built" \/ Pos(k, l) \in builder[l % BuilderCount].tasks
  /\ \A b \in Builders :
       /\ builder[b].tasks \subseteq {Pos(k, l) : l \in LayersOf(k, d[k] + 1)}
       /\ builder[b].state = "done" => builder[b].tasks = {}
  /\ joined \in Builders /\ \A b \in 0 .. joined - 1 : builder[b].state = "done"

(* The device network is complete.                                          *)
NetReady ==
  \A k \in Kinds : Active(k) =>
    /\ Shape(k, spec.groups)
    /\ \A g \in 1 .. spec.groups :
         /\ Placed(k, g, HasTensors)
         /\ IsEager \/ (Strategy = "HYBRID" /\ g < spec.groups) \/ Placed(k, g, {"built"})

(* Every group has its part of each kind of layers.                         *)
WorkersReady ==
  workers = [g \in 1 .. spec.groups |-> [k \in Kinds |->
               IF Active(k) THEN [start |-> Bound(k, g - 1), end |-> Bound(k, g)]
               ELSE [start |-> 0, end |-> 0]]]

(* The CPU worker has the layers before those of the devices, and either    *)
(* there is no encoder or no layer is the CPU's.                            *)
CpuReady ==
  IF IsCpuOnly THEN spec.layers["encoder"] = 0 /\ cpu_end = spec.layers["decoder"]
  ELSE \/ spec.layers["encoder"] = 0 /\ cpu_end = spec.cpu["decoder"]
       \/ cpu_end = 0 /\ \A k \in Kinds : spec.cpu[k] = 0

(* A pass over the layers before m, over the first layers of the CPU and    *)
(* those of the first groups.                                               *)
TraceLen(k, m) ==
  IF m = spec.groups THEN spec.layers[k] + 2
  ELSE IF Bound(k, m) = 0 THEN 0 ELSE Bound(k, m) + 1

TraceTo(n) == [i \in 1 .. n |-> i - 2]

(* The objects in the vector of device layers.                              *)
DeviceLayer == [ of : Int, state : {"null", "empty", "hollow", "built"}, group : Int ]

(* The invariant of regular networks, by stage.                             *)
RegularInv ==
  /\ net \in [Kinds -> Seq(DeviceLayer)]
  /\ builder \in [Builders -> [tasks : SUBSET Int, state : {"idle", "running", "done", "error"}]]
  /\ unread \subseteq 0 .. spec.layers["decoder"] - 1
  /\ stage \in {"undefined", "hung", "stale"} => GroupFailed
  /\ stage = "init" => net = [k \in Kinds |-> <<>>] /\ unread = 0 .. spec.layers["decoder"] - 1
  /\ stage \in {"read", "device"} => Fresh
  /\ stage \notin {"init", "read", "failed"} => unread = {}
  /\ stage \in {"device", "group", "join"} => ~IsCpuOnly
  /\ stage \in {"group", "join"} => EagerPlaced
  /\ stage = "group" => \E d \in [Kinds -> 0 .. spec.groups] : Between(d)
  /\ stage = "join" => \E d \in [Kinds -> 0 .. spec.groups], k \in Kinds : Building(d, k)
  /\ stage \in {"cpu", "serving", "pass", "passed"} /\ ~IsCpuOnly => NetReady /\ WorkersReady
  /\ Serving => CpuReady
  /\ stage = "pass" => /\ ~IsCpuOnly /\ pass.kind \in Kinds /\ Active(pass.kind)
                       /\ pass.next \in 1 .. spec.groups + 1
                       /\ pass = [ kind |-> pass.kind, next |-> pass.next,
                                  trace |-> TraceTo(TraceLen(pass.kind, pass.next - 1)) ]
  /\ stage = "passed" => pass.trace = TraceTo(spec.layers[pass.kind] + 2)

(* There is no CPU worker before Init comes to it.                          *)
NoCpuWorker == stage \in {"init", "read", "device", "group", "join", "cpu"} => cpu_end = 0

(* The inductive invariant.                                                 *)
MBInv == spec \in ModelSpecs /\ NoCpuWorker /\ (IsRegular => RegularInv)

-----------------------------------------------------------------------------
(* If no layer is left for the devices, SplitGpuLayers assigns nothing,     *)
(* although it then divides a number that may be negative.                  *)
LEMMA NoLayersNoAssignments ==
  ASSUME NEW s \in Nat, NEW e \in Nat, NEW n \in Nat \ {0}, e <= s
  PROVE  Assignments(s, e, n) = {}
<1> DEFINE x == e - s + n - 1
           p == LayersPerGroup(s, e, n)
           q == (-x) \div n
<1>1. x \in Int /\ x < n
  OBVIOUS
<1>2. CASE x >= 0
  <2>1. x \div n = 0
    BY <1>1, <1>2, Z3
  <2>2. p = 0
    BY <1>2, <2>1 DEF LayersPerGroup, Quotient
  <2>3. ASSUME NEW g \in 0 .. n - 1 PROVE ~(GroupRange(s, e, n, g).end > GroupRange(s, e, n, g).start)
    BY <2>2 DEF GroupRange
  <2> QED BY <2>3 DEF Assignments
<1>3. CASE x < 0
  <2>1. -x \in Nat
    BY <1>1, <1>3
  <2>2. q \in Nat /\ q * n <= -x
    BY <2>1, QuotientRange
  <2>3. p = -q
    BY <1>3 DEF LayersPerGroup, Quotient
  <2> HIDE DEF p, q
  <2>4. ASSUME NEW g \in 0 .. n - 1 PROVE ~(GroupRange(s, e, n, g).end > GroupRange(s, e, n, g).start)
    <3>1. g * q <= n * q /\ g * q \in Int /\ n * q = q * n /\ n * q \in Int
      BY <2>2, MultMonotone, Z3
    <3>2. g * p = -(g * q) /\ (g + 1) * p = -(g * q) - q
      BY <2>2, <2>3, Z3
    <3>3. s + g * p >= e
      BY <2>2, <3>1, <3>2
    <3>4. (g + 1) * p <= s + g * p
      BY <2>2, <3>1, <3>2
    <3> QED BY <2>2, <2>3, <3>3, <3>4, <3>1, <3>2 DEF GroupRange, p
  <2> QED BY <2>4 DEF Assignments
<1> QED BY <1>1, <1>2, <1>3

(* The numbers of a specification.                                          *)
LEMMA Numbers ==
  ASSUME spec \in ModelSpecs
  PROVE  /\ spec.groups \in Nat \ {0} /\ spec.group_size \in 1 .. 2
         /\ \A k \in Kinds : spec.cpu[k] \in Nat /\ spec.layers[k] \in Nat
         /\ \E k \in Kinds : spec.layers[k] > 0
         /\ spec.group_size > 1 => spec.layers["encoder"] = 0
BY BuildingAssumption DEF ModelSpecs, Kinds

(* The bounds of an active kind of a regular network increase from the      *)
(* CPU's layers to the number of layers.                                    *)
LEMMA Bounds ==
  ASSUME spec \in ModelSpecs, IsRegular, NEW k \in Kinds, Active(k)
  PROVE  /\ Bound(k, 0) = spec.cpu[k] /\ Bound(k, spec.groups) = spec.layers[k]
         /\ \A m \in 0 .. spec.groups :
              Bound(k, m) \in Nat /\ spec.cpu[k] <= Bound(k, m) /\ Bound(k, m) <= spec.layers[k]
         /\ \A a, b \in 0 .. spec.groups : a < b => Bound(k, a) < Bound(k, b)
<1> DEFINE s == spec.cpu[k]
           e == spec.layers[k]
           n == spec.groups
           p == LayersPerGroup(s, e, n)
<1>1. s \in Nat /\ e \in Nat /\ n \in Nat \ {0} /\ s < e /\ Regular(s, e, n)
  BY Numbers DEF IsRegular, Active
<1>2. p \in Nat \ {0}
  BY <1>1, PerGroupBounds
<1>3. \A g \in 0 .. n - 1 : /\ s <= s + g * p /\ s + g * p < e
                            /\ g * p \in Nat
  <2> SUFFICES ASSUME NEW g \in 0 .. n - 1
               PROVE  s <= s + g * p /\ s + g * p < e /\ g * p \in Nat
    OBVIOUS
  <2>1. g * p \in Int
    BY <1>2
  <2>2. /\ GroupRange(s, e, n, g).start = s + g * p
        /\ GroupRange(s, e, n, g).end \in Int
        /\ s <= GroupRange(s, e, n, g).start
        /\ GroupRange(s, e, n, g).start < GroupRange(s, e, n, g).end
        /\ GroupRange(s, e, n, g).end <= e
    BY <1>1, RegularRange
  <2> HIDE DEF p
  <2> QED BY <1>1, <2>1, <2>2
<1>4. \A m : Bound(k, m) = IF m = n THEN e ELSE s + m * p
  BY DEF Bound
<1> HIDE DEF s, e, n, p
<1>5. Bound(k, 0) = s
  BY <1>1, <1>2, <1>4
<1>6. \A m \in 0 .. n : m # n => m \in 0 .. n - 1
  BY <1>1
<1>7. ASSUME NEW a \in 0 .. n, NEW b \in 0 .. n, a < b PROVE Bound(k, a) < Bound(k, b)
  <2>1. a \in 0 .. n - 1
    BY <1>1, <1>7
  <2>2. CASE b = n
    BY <1>1, <1>3, <1>4, <2>1, <2>2
  <2>3. CASE b # n
    <3>1. (a + 1) * p <= b * p /\ (a + 1) * p = a * p + p
      BY <1>1, <1>2, <1>7, MultMonotone, Z3
    <3>2. a * p \in Nat /\ b * p \in Nat
      BY <1>3, <1>6, <2>1, <2>3
    <3> QED BY <1>1, <1>2, <1>4, <2>1, <2>3, <3>1, <3>2
  <2> QED BY <2>2, <2>3
<1>8. ASSUME NEW m \in 0 .. n PROVE Bound(k, m) \in Nat /\ s <= Bound(k, m) /\ Bound(k, m) <= e
  BY <1>1, <1>3, <1>4, <1>6
<1>9. Bound(k, n) = e
  BY <1>4
<1> QED BY <1>5, <1>7, <1>8, <1>9 DEF s, e, n

(* The first m assignments are m.                                           *)
LEMMA PartsCount ==
  ASSUME NEW k \in Kinds, NEW m \in Nat
  PROVE  LET P == {Part(k, h) : h \in 1 .. m} IN IsFiniteSet(P) /\ Cardinality(P) = m
<1> DEFINE P == {Part(k, h) : h \in 1 .. m}
           f == [h \in 1 .. m |-> Part(k, h)]
<1>1. \A h : Part(k, h).group = h - 1
  BY DEF Part
<1>2. f \in Bijection(1 .. m, P)
  <2>1. \A h, j \in 1 .. m : f[h] = f[j] => h = j
    BY <1>1
  <2>2. \A x \in P : \E h \in 1 .. m : f[h] = x
    OBVIOUS
  <2>3. f \in [1 .. m -> P]
    OBVIOUS
  <2> HIDE DEF f, P
  <2> QED BY <2>1, <2>2, <2>3 DEF Bijection, Injection, Surjection, IsInjective
<1>3. IsFiniteSet(1 .. m) /\ Cardinality(1 .. m) = m
  BY FS_Interval
<1>4. ExistsBijection(1 .. m, P)
  BY <1>2 DEF ExistsBijection
<1> HIDE DEF P
<1>5. IsFiniteSet(P) /\ Cardinality(P) = m
  BY <1>3, <1>4, FS_Bijection
<1> QED BY <1>5 DEF P

(* SplitGpuLayers of a regular network lists the parts of all groups.       *)
LEMMA SplitInOrder ==
  ASSUME spec \in ModelSpecs, IsRegular, NEW k \in Kinds
  PROVE  GetDeviceAssignments(k) =
           IF Active(k) THEN [g \in 1 .. spec.groups |-> Part(k, g)] ELSE <<>>
<1> DEFINE s   == spec.cpu[k]
           e   == spec.layers[k]
           n   == spec.groups
           las == Assignments(s, e, n)
<1>1. s \in Nat /\ e \in Nat /\ n \in Nat \ {0}
  BY Numbers
<1>2. SplitGpuLayers(s, e) =
        [i \in 1 .. Cardinality(las) |-> CHOOSE a \in las : Cardinality({b \in las : b.group < a.group}) = i - 1]
  BY DEF SplitGpuLayers
<1>3. CASE ~Active(k)
  <2>1. las = {}
    BY <1>1, <1>3, NoLayersNoAssignments DEF Active
  <2>2. Cardinality(las) = 0
    BY <2>1, FS_EmptySet
  <2> HIDE DEF las
  <2>3. SplitGpuLayers(s, e) = <<>>
    BY <1>2, <2>2
  <2> QED BY <1>3, <2>3 DEF GetDeviceAssignments
<1>4. CASE Active(k)
  <2>1. \A g \in 1 .. n : GroupRange(s, e, n, g - 1) = Part(k, g)
    <3> SUFFICES ASSUME NEW g \in 1 .. n PROVE GroupRange(s, e, n, g - 1) = Part(k, g)
      OBVIOUS
    <3>1. g - 1 \in 0 .. n - 1 /\ s < e /\ Regular(s, e, n) /\ g - 1 # n
      BY <1>1, <1>4 DEF Active, IsRegular
    <3>2. (g - 1) + 1 = g
      OBVIOUS
    <3>3. s = 0 \/ n = 1
      BY <3>1 DEF Regular
    <3>4. LayersPerGroup(s, e, n) \in Nat
      BY <1>1, <3>1, PerGroupBounds
    <3>5. g * LayersPerGroup(s, e, n) \in Int
      BY <3>4
    <3>6. s + g * LayersPerGroup(s, e, n) = g * LayersPerGroup(s, e, n) \/ g = n
      BY <1>1, <3>3, <3>5
    <3> QED BY <3>1, <3>2, <3>6 DEF GroupRange, Part, Bound
  <2>2. \A g \in 1 .. n : Part(k, g).start < Part(k, g).end
    BY <1>1, <1>4, Bounds DEF Part
  <2>3. las = {Part(k, g) : g \in 1 .. n}
    <3>1. {GroupRange(s, e, n, g) : g \in 0 .. n - 1} = {Part(k, g) : g \in 1 .. n}
      <4>1. ASSUME NEW g \in 0 .. n - 1 PROVE \E h \in 1 .. n : GroupRange(s, e, n, g) = Part(k, h)
        <5>1. g + 1 \in 1 .. n /\ (g + 1) - 1 = g
          BY <1>1
        <5> QED BY <2>1, <5>1
      <4>2. ASSUME NEW h \in 1 .. n PROVE \E g \in 0 .. n - 1 : GroupRange(s, e, n, g) = Part(k, h)
        <5>1. h - 1 \in 0 .. n - 1
          BY <1>1
        <5> QED BY <2>1, <5>1
      <4> QED BY <4>1, <4>2
    <3>2. \A x \in {Part(k, g) : g \in 1 .. n} : x.end > x.start
      <4> SUFFICES ASSUME NEW g \in 1 .. n PROVE Part(k, g).end > Part(k, g).start
        OBVIOUS
      <4>1. Part(k, g).start = Bound(k, g - 1) /\ Part(k, g).end = Bound(k, g)
        BY DEF Part
      <4>2. Bound(k, g - 1) \in Nat /\ Bound(k, g) \in Nat /\ Bound(k, g - 1) < Bound(k, g)
        BY <1>1, <1>4, Bounds
      <4> QED BY <4>1, <4>2
    <3> QED BY <3>1, <3>2 DEF Assignments
  <2>4. Cardinality(las) = n
    BY <1>1, <2>3, PartsCount
  <2>5. \A g \in 1 .. n : Cardinality({b \in las : b.group < Part(k, g).group}) = g - 1
    <3> SUFFICES ASSUME NEW g \in 1 .. n
                 PROVE  Cardinality({b \in las : b.group < Part(k, g).group}) = g - 1
      OBVIOUS
    <3>1. {b \in las : b.group < Part(k, g).group} = {Part(k, h) : h \in 1 .. g - 1}
      <4>1. \A h : Part(k, h).group = h - 1
        BY DEF Part
      <4>2. \A h \in 1 .. n : h - 1 < g - 1 <=> h \in 1 .. g - 1
        OBVIOUS
      <4>3. 1 .. g - 1 \subseteq 1 .. n
        BY <1>1
      <4> HIDE DEF las
      <4> QED BY <2>3, <4>1, <4>2, <4>3
    <3>2. g - 1 \in Nat
      BY <1>1
    <3> QED BY <3>1, <3>2, PartsCount
  <2> HIDE DEF las
  <2>6. \A i \in 1 .. n : (CHOOSE a \in las : Cardinality({b \in las : b.group < a.group}) = i - 1) = Part(k, i)
    <3> SUFFICES ASSUME NEW i \in 1 .. n
                 PROVE  (CHOOSE a \in las : Cardinality({b \in las : b.group < a.group}) = i - 1) = Part(k, i)
      OBVIOUS
    <3> DEFINE Fits(a) == Cardinality({b \in las : b.group < a.group}) = i - 1
    <3>1. Part(k, i) \in las /\ Fits(Part(k, i))
      BY <2>3, <2>5
    <3>2. ASSUME NEW a \in las, Fits(a) PROVE a = Part(k, i)
      <4>1. PICK g \in 1 .. n : a = Part(k, g)
        BY <2>3
      <4>2. Cardinality({b \in las : b.group < Part(k, g).group}) = g - 1
        BY <2>5
      <4>3. Cardinality({b \in las : b.group < Part(k, g).group}) = i - 1
        BY <3>2, <4>1
      <4>4. g = i
        BY <4>2, <4>3
      <4> QED BY <4>1, <4>4
    <3>3. (CHOOSE a \in las : Fits(a)) \in las /\ Fits(CHOOSE a \in las : Fits(a))
      BY <3>1
    <3> HIDE DEF Fits
    <3>4. (CHOOSE a \in las : Fits(a)) = Part(k, i)
      BY <3>2, <3>3
    <3> QED BY <3>4 DEF Fits
  <2>7. SplitGpuLayers(s, e) = [g \in 1 .. n |-> Part(k, g)]
    BY <1>2, <2>4, <2>6
  <2> QED BY <1>1, <1>4, <2>7 DEF GetDeviceAssignments, Active
<1> QED BY <1>3, <1>4

-----------------------------------------------------------------------------
(* What depends on the specification alone stays as it is.                  *)
LEMMA SameSpec ==
  ASSUME spec' = spec
  PROVE  /\ IsRegular' <=> IsRegular
         /\ IsEager' <=> IsEager
         /\ IsCpuOnly' <=> IsCpuOnly
         /\ Strategy' = Strategy
         /\ \A k \in Kinds : /\ Active(k)' <=> Active(k)
                             /\ IsAppended(k)' <=> IsAppended(k)
                             /\ Offset(k)' = Offset(k)
                             /\ Num(k)' = Num(k)
         /\ \A k \in Kinds : \A m : /\ Bound(k, m)' = Bound(k, m)
                                    /\ Pos(k, m)' = Pos(k, m)
                                    /\ LayersOf(k, m)' = LayersOf(k, m)
                                    /\ Part(k, m)' = Part(k, m)
                                    /\ Rest(k, m)' = Rest(k, m)
<1>1. Strategy' = Strategy
  BY DEF Strategy
<1>2. (IsRegular' <=> IsRegular) /\ (IsCpuOnly' <=> IsCpuOnly)
  BY DEF IsRegular, IsCpuOnly
<1>3. IsEager' <=> IsEager
  BY <1>1 DEF IsEager
<1>4. \A k \in Kinds : /\ Active(k)' <=> Active(k)
                       /\ IsAppended(k)' <=> IsAppended(k)
                       /\ Offset(k)' = Offset(k)
  BY <1>1 DEF Active, IsAppended, Offset
<1>5. \A k \in Kinds : Num(k)' = Num(k)
  BY <1>3, <1>4 DEF Num
<1>6. \A k \in Kinds : \A m : Bound(k, m)' = Bound(k, m)
  BY DEF Bound
<1>7. \A k \in Kinds : \A m : /\ Pos(k, m)' = Pos(k, m)
                              /\ LayersOf(k, m)' = LayersOf(k, m)
                              /\ Part(k, m)' = Part(k, m)
  BY <1>4, <1>6 DEF Pos, LayersOf, Part
<1>8. \A k \in Kinds : \A m : Rest(k, m)' = Rest(k, m)
  BY <1>5, <1>7 DEF Rest
<1> QED BY <1>1, <1>2, <1>3, <1>4, <1>5, <1>6, <1>7, <1>8

(* What is said of a kind's layers stays true while they stay as they are.  *)
LEMMA SameNet ==
  ASSUME spec' = spec, NEW k \in Kinds, net'[k] = net[k]
  PROVE  /\ \A m : Shape(k, m)' <=> Shape(k, m)
         /\ \A g, states : Placed(k, g, states)' <=> Placed(k, g, states)
<1>1. \A m : Shape(k, m)' <=> Shape(k, m)
  BY SameSpec DEF Shape
<1>2. \A g, states : Placed(k, g, states)' <=> Placed(k, g, states)
  BY SameSpec DEF Placed, Layer
<1> QED BY <1>1, <1>2

(* A group's layers are some, and no other group has them.                  *)
LEMMA LayersOfGroups ==
  ASSUME spec \in ModelSpecs, IsRegular, NEW k \in Kinds, Active(k)
  PROVE  /\ \A g \in 1 .. spec.groups :
              /\ LayersOf(k, g) \subseteq spec.cpu[k] .. spec.layers[k] - 1
              /\ Part(k, g).start \in LayersOf(k, g)
         /\ \A l \in spec.cpu[k] .. spec.layers[k] - 1 :
              \E g \in 1 .. spec.groups : l \in LayersOf(k, g)
         /\ \A g, h \in 1 .. spec.groups : \A l \in LayersOf(k, g) : l \in LayersOf(k, h) => g = h
<1> DEFINE s == spec.cpu[k]
           e == spec.layers[k]
           n == spec.groups
<1>1. s \in Nat /\ e \in Nat /\ n \in Nat \ {0}
  BY Numbers
<1>2. /\ Bound(k, 0) = s /\ Bound(k, n) = e
      /\ \A m \in 0 .. n : Bound(k, m) \in Nat /\ s <= Bound(k, m) /\ Bound(k, m) <= e
      /\ \A a, b \in 0 .. n : a < b => Bound(k, a) < Bound(k, b)
  BY Bounds
<1> HIDE DEF s, e, n
<1>3. ASSUME NEW g \in 1 .. n
      PROVE  LayersOf(k, g) \subseteq s .. e - 1 /\ Part(k, g).start \in LayersOf(k, g)
  <2>1. g \in 0 .. n /\ g - 1 \in 0 .. n /\ g - 1 < g
    BY <1>1
  <2> QED BY <1>1, <1>2, <2>1 DEF LayersOf, Part
<1>4. ASSUME NEW l \in s .. e - 1 PROVE \E g \in 1 .. n : l \in LayersOf(k, g)
  <2>1. s < e /\ Regular(s, e, n)
    BY DEF Active, IsRegular, s, e, n
  <2> DEFINE p == LayersPerGroup(s, e, n)
             q == (l - s) \div p
  <2>2. p \in Nat \ {0} /\ n * p >= e - s
    BY <1>1, <2>1, PerGroupBounds
  <2>l. l - s \in Nat
    BY <1>1
  <2> HIDE DEF p
  <2>3. q \in Nat /\ q * p <= l - s /\ l - s < (q + 1) * p
    BY <2>l, <2>2, QuotientRange
  <2>4. \A m \in Nat : Bound(k, m) = IF m = n THEN e ELSE s + m * p
    BY DEF Bound, s, e, n, p
  <2> HIDE DEF q
  <2>5. q < n
    <3>1. CASE n <= q
      <4>1. n * p <= q * p /\ n * p \in Int /\ q * p \in Int
        BY <1>1, <2>2, <2>3, <3>1, MultMonotone
      <4> QED BY <1>1, <2>2, <2>3, <4>1
    <3> QED BY <1>1, <2>3, <3>1
  <2>6. q * p \in Int /\ (q + 1) * p \in Int
    BY <2>2, <2>3
  <2>7. Bound(k, q) <= l /\ l < Bound(k, q + 1) /\ q + 1 \in 1 .. n
    BY <1>1, <2>3, <2>4, <2>5, <2>6
  <2>8. l \in LayersOf(k, q + 1)
    <3>1. q \in 0 .. n /\ q + 1 \in 0 .. n /\ (q + 1) - 1 = q
      BY <1>1, <2>3, <2>5
    <3>2. Bound(k, q) \in Nat /\ Bound(k, q + 1) \in Nat
      BY <1>2, <3>1
    <3> QED BY <1>1, <2>7, <3>1, <3>2 DEF LayersOf
  <2> QED BY <2>7, <2>8
<1>5. ASSUME NEW g \in 1 .. n, NEW h \in 1 .. n, NEW l \in LayersOf(k, g), l \in LayersOf(k, h), g < h
      PROVE  FALSE
  <2>1. g \in 0 .. n /\ h \in 0 .. n /\ h - 1 \in 0 .. n /\ (g < h - 1 \/ g = h - 1)
    BY <1>1, <1>5
  <2>2. Bound(k, g) <= Bound(k, h - 1) /\ Bound(k, g) \in Nat /\ Bound(k, h - 1) \in Nat
    BY <1>2, <2>1
  <2> QED BY <1>5, <2>2 DEF LayersOf
<1>6. \A g, h \in 1 .. n : \A l \in LayersOf(k, g) : l \in LayersOf(k, h) => g = h
  BY <1>1, <1>5
<1> QED BY <1>3, <1>4, <1>6 DEF s, e, n

(* InitDeviceNetStructure makes an object for every layer of the devices,   *)
(* each of which is in one assignment.                                      *)
LEMMA LayersCounted ==
  ASSUME spec \in ModelSpecs, IsRegular, NEW k \in Kinds, Active(k)
  PROVE  LET las == GetDeviceAssignments(k)
         IN  Cardinality(UNION {{i} \X (las[i].start .. las[i].end - 1) : i \in DOMAIN las})
               = spec.layers[k] - spec.cpu[k]
<1> DEFINE s == spec.cpu[k]
           e == spec.layers[k]
           n == spec.groups
           las == GetDeviceAssignments(k)
           U == UNION {{i} \X (las[i].start .. las[i].end - 1) : i \in DOMAIN las}
           f == [x \in U |-> x[2]]
<1>1. s \in Nat /\ e \in Nat /\ s < e
  BY Numbers DEF Active
<1>2. DOMAIN las = 1 .. n /\ \A g \in 1 .. n : las[g].start .. las[g].end - 1 = LayersOf(k, g)
  <2>1. las = [g \in 1 .. n |-> Part(k, g)]
    BY SplitInOrder
  <2>2. \A g \in 1 .. n : Part(k, g).start = Bound(k, g - 1) /\ Part(k, g).end = Bound(k, g)
    BY DEF Part
  <2> HIDE DEF las
  <2> QED BY <2>1, <2>2 DEF LayersOf
<1> HIDE DEF las
<1>u. \A x : x \in U <=> \E g \in 1 .. n : x \in {g} \X LayersOf(k, g)
  <2>1. U = UNION {{g} \X LayersOf(k, g) : g \in 1 .. n}
    BY <1>2
  <2> HIDE DEF U
  <2> QED BY <2>1, Zenon
<1> HIDE DEF U
<1>3. ASSUME NEW x \in U PROVE x[1] \in 1 .. n /\ x[2] \in LayersOf(k, x[1]) /\ x = <<x[1], x[2]>>
  BY <1>u
<1>4. ASSUME NEW g \in 1 .. n, NEW l \in LayersOf(k, g) PROVE <<g, l>> \in U
  BY <1>u
<1>5. f \in Injection(U, s .. e - 1) /\ f \in Surjection(U, s .. e - 1)
  <2>1. f \in [U -> s .. e - 1]
    BY <1>3, LayersOfGroups
  <2>2. ASSUME NEW x \in U, NEW y \in U, f[x] = f[y] PROVE x = y
    <3>1. x[2] = y[2]
      BY <2>2
    <3>2. x[1] = y[1]
      BY <1>3, <3>1, LayersOfGroups
    <3> QED BY <1>3, <3>1, <3>2
  <2>3. ASSUME NEW l \in s .. e - 1 PROVE \E x \in U : f[x] = l
    <3>1. PICK g \in 1 .. n : l \in LayersOf(k, g)
      BY LayersOfGroups
    <3>2. <<g, l>> \in U
      BY <1>4, <3>1
    <3> QED BY <3>2
  <2> HIDE DEF f
  <2> QED BY <2>1, <2>2, <2>3 DEF Injection, Surjection, IsInjective
<1>7. IsFiniteSet(s .. e - 1) /\ Cardinality(s .. e - 1) = e - s
  <2>1. s \in Int /\ e - 1 \in Int /\ ~(s > e - 1) /\ (e - 1) - s + 1 = e - s
    BY <1>1
  <2> HIDE DEF s, e
  <2> QED BY <2>1, FS_Interval
<1>8. Cardinality(U) = e - s
  BY <1>5, <1>7, FS_Injection
<1> QED BY <1>8 DEF U, las

(* What the readers find: a null pointer for each layer of the CPU and, by  *)
(* layer, an object for every other.                                        *)
LEMMA NewStructure ==
  ASSUME spec \in ModelSpecs, IsRegular
  PROVE  LET N == InitDeviceNetStructure
             k == "decoder"
         IN  /\ N \in Seq(DeviceLayer)
             /\ Len(N) = IF ~Active(k) THEN 0
                         ELSE IF Strategy = "BY_LAYER" THEN spec.layers[k] ELSE spec.cpu[k]
             /\ \A i \in 1 .. Len(N) : N[i].state = "null" => i <= spec.cpu[k]
<1> DEFINE k == "decoder"
           N == InitDeviceNetStructure
           las == GetDeviceAssignments(k)
           nulls == IF las = <<>> THEN 0 ELSE las[1].start
           num == Cardinality(UNION {{i} \X (las[i].start .. las[i].end - 1) : i \in DOMAIN las})
           A == [i \in 1 .. nulls |-> NullLayer]
           B == IF Strategy = "BY_LAYER" THEN [i \in 1 .. num |-> EmptyLayer] ELSE <<>>
<1>1. N = A \o B
  BY DEF InitDeviceNetStructure
<1>k. k \in Kinds
  BY DEF Kinds
<1>2. spec.cpu[k] \in Nat /\ spec.layers[k] \in Nat /\ spec.groups \in Nat \ {0}
  BY <1>k, Numbers
<1>3. nulls = IF Active(k) THEN spec.cpu[k] ELSE 0
  <2>1. CASE Active(k)
    <3>1. las = [g \in 1 .. spec.groups |-> Part(k, g)]
      BY <1>k, <2>1, SplitInOrder
    <3>2. las # <<>> /\ las[1].start = Bound(k, 0)
      BY <1>2, <3>1 DEF Part
    <3>3. Bound(k, 0) = spec.cpu[k]
      BY <1>k, <2>1, Bounds
    <3> QED BY <2>1, <3>2, <3>3
  <2>2. CASE ~Active(k)
    BY <1>k, <2>2, SplitInOrder
  <2> QED BY <2>1, <2>2
<1>4. num = IF Active(k) THEN spec.layers[k] - spec.cpu[k] ELSE 0
  <2>1. CASE Active(k)
    BY <1>k, <2>1, LayersCounted
  <2>2. CASE ~Active(k)
    <3>1. las = <<>>
      BY <1>k, <2>2, SplitInOrder
    <3>2. UNION {{i} \X (las[i].start .. las[i].end - 1) : i \in DOMAIN las} = {}
      BY <3>1
    <3> QED BY <2>2, <3>2, FS_EmptySet
  <2> QED BY <2>1, <2>2
<1>5. num \in Nat /\ nulls \in Nat /\ (Active(k) <=> spec.layers[k] > spec.cpu[k])
  BY <1>2, <1>3, <1>4 DEF Active
<1> HIDE DEF num, nulls, N
<1>6. NullLayer \in DeviceLayer /\ EmptyLayer \in DeviceLayer /\ EmptyLayer.state = "empty"
  BY DEF DeviceLayer, NullLayer, EmptyLayer
<1>7. A \in Seq(DeviceLayer) /\ Len(A) = nulls
  BY <1>5, <1>6
<1>8. B \in Seq(DeviceLayer) /\ Len(B) = (IF Strategy = "BY_LAYER" THEN num ELSE 0)
      /\ \A i \in 1 .. Len(B) : B[i].state = "empty"
  BY <1>5, <1>6
<1> HIDE DEF A, B
<1>9. N \in Seq(DeviceLayer) /\ Len(N) = Len(A) + Len(B)
  <2>1. A \in Seq(DeviceLayer) /\ B \in Seq(DeviceLayer)
    BY <1>7, <1>8
  <2> QED BY <1>1, <2>1
<1>10. ASSUME NEW i \in 1 .. Len(N), i > Len(A) PROVE N[i].state = "empty"
  <2>1. i - Len(A) \in 1 .. Len(B) /\ N[i] = B[i - Len(A)]
    BY <1>1, <1>7, <1>8, <1>9, <1>10
  <2> QED BY <1>8, <2>1
<1>11. Len(N) = IF ~Active(k) THEN 0
                ELSE IF Strategy = "BY_LAYER" THEN spec.layers[k] ELSE spec.cpu[k]
  BY <1>2, <1>3, <1>4, <1>5, <1>7, <1>8, <1>9
<1>12. Len(A) <= spec.cpu[k]
  BY <1>2, <1>3, <1>7
<1>13. \A i \in 1 .. Len(N) : N[i].state = "null" => i <= spec.cpu[k]
  BY <1>2, <1>7, <1>9, <1>10, <1>12
<1> QED BY <1>9, <1>11, <1>13 DEF N

-----------------------------------------------------------------------------
(* Reading.  In the beginning the invariant says nothing of the builders.   *)
LEMMA InvInit == MBInit => MBInv
<1> SUFFICES ASSUME MBInit PROVE MBInv
  OBVIOUS
<1>1. net \in [Kinds -> Seq(DeviceLayer)]
  BY DEF MBInit
<1>2. builder \in [Builders -> [tasks : SUBSET Int, state : {"idle", "running", "done", "error"}]]
  BY DEF MBInit
<1> QED BY <1>1, <1>2 DEF MBInit, MBInv, NoCpuWorker, RegularInv, Serving

(* The empty network has its shape; nothing is read.                        *)
LEMMA InvStructure ==
  ASSUME MBInv, IsRegular, InitNetworkStructure
  PROVE  RegularInv'
<1> DEFINE N == InitDeviceNetStructure
<1>1. spec \in ModelSpecs /\ RegularInv /\ spec' = spec /\ stage' = "read" /\ stage = "init"
      /\ builder' = builder /\ unread' = unread
  BY DEF MBInv, InitNetworkStructure
<1>2. net = [k \in Kinds |-> <<>>] /\ unread = 0 .. spec.layers["decoder"] - 1
  BY <1>1 DEF RegularInv
<1>3. net' = [net EXCEPT !["decoder"] = N]
  BY DEF InitNetworkStructure
<1>4. net'["decoder"] = N /\ net'["encoder"] = <<>>
  BY <1>2, <1>3 DEF Kinds
<1>5. N \in Seq(DeviceLayer)
  BY <1>1, NewStructure
<1>6. net' \in [Kinds -> Seq(DeviceLayer)]
  <2> HIDE DEF N
  <2>1. net \in [Kinds -> Seq(DeviceLayer)]
    BY <1>1 DEF RegularInv
  <2> QED BY <1>3, <1>5, <2>1
<1>7. Shape("decoder", 0)'
  <2>1. "decoder" \in Kinds /\ Offset("decoder")' = 0
    BY DEF Kinds, Offset
  <2>2. Active("decoder") => Bound("decoder", 0) = spec.cpu["decoder"] /\ spec.cpu["decoder"] \in Nat
    BY <1>1, <2>1, Bounds, Numbers
  <2>3. IsAppended("decoder") <=> Strategy # "BY_LAYER"
    BY DEF IsAppended
  <2>4. /\ Len(N) = IF ~Active("decoder") THEN 0
                    ELSE IF Strategy = "BY_LAYER" THEN spec.layers["decoder"] ELSE spec.cpu["decoder"]
        /\ \A i \in 1 .. Len(N) : N[i].state = "null" => i <= spec.cpu["decoder"]
    BY <1>1, NewStructure
  <2>5. Len(N) \in Nat
    BY <1>5
  <2> HIDE DEF N
  <2>6. Len(N) = IF ~Active("decoder") THEN 0
                 ELSE IF IsAppended("decoder") THEN Bound("decoder", 0) - 0 ELSE spec.layers["decoder"]
    BY <2>2, <2>3, <2>4
  <2>7. \A i \in 1 .. Len(N) : N[i].state = "null" => i + 0 <= spec.cpu["decoder"]
    BY <2>4, <2>5
  <2> QED BY <1>1, <1>4, <2>1, <2>6, <2>7, SameSpec DEF Shape
<1>8. Shape("encoder", 0)'
  <2>1. "encoder" \in Kinds /\ Offset("encoder") = spec.cpu["encoder"] /\ IsAppended("encoder")
    BY DEF Kinds, Offset, IsAppended
  <2>2. Active("encoder") => Bound("encoder", 0) = spec.cpu["encoder"] /\ spec.cpu["encoder"] \in Nat
    BY <1>1, <2>1, Bounds, Numbers
  <2> QED BY <1>1, <1>4, <2>1, <2>2, SameSpec DEF Shape
<1>9. EagerPlaced'
  <2>1. "decoder" \in Kinds
    BY DEF Kinds
  <2>2. Active("decoder") => \A g \in 1 .. spec.groups : LayersOf("decoder", g) \ unread = {}
    <3> SUFFICES ASSUME Active("decoder"), NEW g \in 1 .. spec.groups, NEW l \in LayersOf("decoder", g)
                 PROVE  l \in unread
      OBVIOUS
    <3>1. l \in spec.cpu["decoder"] .. spec.layers["decoder"] - 1
      BY <1>1, <2>1, LayersOfGroups
    <3> QED BY <1>1, <1>2, <2>1, <3>1, Numbers
  <2> QED BY <1>1, <2>1, <2>2, SameSpec DEF EagerPlaced
<1>10. Fresh'
  BY <1>7, <1>8, <1>9 DEF Fresh, Kinds
<1> QED BY <1>1, <1>6, <1>10 DEF RegularInv, Serving

(* The readers build a layer for the group that will run it.                *)
LEMMA GroupFound ==
  ASSUME spec \in ModelSpecs, IsRegular, Active("decoder"),
         NEW g \in 1 .. spec.groups, NEW l \in LayersOf("decoder", g)
  PROVE  GetDeviceGroup(l) = g - 1
<1> DEFINE k == "decoder"
           las == GetDeviceAssignments(k)
           hit == {i \in DOMAIN las : Covers(las[i], l)}
<1>1. k \in Kinds /\ spec.groups \in Nat
  BY Numbers DEF Kinds
<1>2. las = [h \in 1 .. spec.groups |-> Part(k, h)]
  BY <1>1, SplitInOrder
<1>3. \A h \in 1 .. spec.groups : Covers(Part(k, h), l) <=> l \in LayersOf(k, h)
  <2> SUFFICES ASSUME NEW h \in 1 .. spec.groups
               PROVE  Covers(Part(k, h), l) <=> l \in LayersOf(k, h)
    OBVIOUS
  <2>1. Bound(k, h) \in Nat /\ Bound(k, h - 1) \in Nat
    BY <1>1, Bounds
  <2>2. l \in Int
    BY <1>1, LayersOfGroups
  <2> QED BY <2>1, <2>2 DEF Covers, Part, LayersOf
<1>4. \A h \in 1 .. spec.groups : l \in LayersOf(k, h) => h = g
  BY <1>1, LayersOfGroups
<1> HIDE DEF las
<1>5. hit = {g} /\ las[g].group = g - 1
  BY <1>2, <1>3, <1>4 DEF Part
<1>6. GetDeviceGroup(l) = IF hit = {} THEN -1 ELSE las[CHOOSE i \in hit : \A j \in hit : i <= j].group
  BY DEF GetDeviceGroup, las
<1> HIDE DEF hit
<1>7. (CHOOSE i \in hit : \A j \in hit : i <= j) = g
  BY <1>5
<1> QED BY <1>5, <1>6, <1>7

(* A layer that is read finds its object, and is placed.                    *)
LEMMA InvRead ==
  ASSUME MBInv, IsRegular, NEW l \in unread, ReadLayer(l)
  PROVE  RegularInv'
<1> DEFINE k == "decoder"
           e == spec.layers[k]
           s == spec.cpu[k]
<1>1. spec \in ModelSpecs /\ RegularInv /\ spec' = spec /\ stage = "read"
      /\ builder' = builder /\ unread' = unread \ {l}
  BY DEF MBInv, ReadLayer
<1>2. k \in Kinds /\ s \in Nat /\ e \in Nat /\ l \in 0 .. e - 1
  BY <1>1, Numbers DEF Kinds, RegularInv
<1>3. Fresh /\ net \in [Kinds -> Seq(DeviceLayer)]
  BY <1>1 DEF RegularInv
<1>4. CASE ~(IsEager /\ l >= s)
  <2>1. stage' = stage /\ net' = net
    BY <1>4 DEF ReadLayer
  <2>2. \A j \in Kinds : Shape(j, 0)'
    BY <1>1, <1>3, <2>1, SameNet DEF Fresh
  <2>3. EagerPlaced'
    <3>1. CASE IsEager /\ Active(k)
      <4>1. \A g \in 1 .. spec.groups : l \notin LayersOf(k, g)
        <5>1. l < s
          BY <1>2, <1>4, <3>1
        <5> QED BY <1>1, <1>2, <3>1, <5>1, LayersOfGroups
      <4>2. \A g \in 1 .. spec.groups : LayersOf(k, g) \ unread' = LayersOf(k, g) \ unread
        BY <1>1, <4>1
      <4> QED BY <1>1, <1>2, <1>3, <2>1, <3>1, <4>2, SameSpec DEF EagerPlaced, Fresh, Layer
    <3>2. CASE ~(IsEager /\ Active(k))
      BY <1>1, <1>2, <3>2, SameSpec DEF EagerPlaced
    <3> QED BY <3>1, <3>2
  <2> QED BY <1>1, <1>3, <2>1, <2>2, <2>3 DEF RegularInv, Fresh, Serving
<1>5. CASE IsEager /\ l >= s
  <2>1. Active(k) /\ Strategy = "BY_LAYER" /\ l \in s .. e - 1 /\ Offset(k) = 0
    BY <1>2, <1>5 DEF Active, IsEager, Offset
  <2>2. PICK g \in 1 .. spec.groups : l \in LayersOf(k, g)
    BY <1>1, <1>2, <2>1, LayersOfGroups
  <2>3. Shape(k, 0) /\ EagerPlaced /\ ~IsAppended(k) /\ net[k] \in Seq(DeviceLayer)
    BY <1>2, <1>3, <2>1 DEF Fresh, IsAppended
  <2>4. Len(net[k]) = e /\ l + 1 \in 1 .. Len(net[k]) /\ IsUsable(k, l)
    BY <1>2, <2>1, <2>3, SMTT(30) DEF Shape, IsUsable
  <2>5. GetDeviceAssignments(k) # <<>>
    <3>1. GetDeviceAssignments(k) = [h \in 1 .. spec.groups |-> Part(k, h)] /\ spec.groups \in Nat \ {0}
      BY <1>1, <1>2, <2>1, SplitInOrder, Numbers
    <3> QED BY <3>1
  <2>6. GetDeviceGroup(l) = g - 1
    BY <1>1, <2>1, <2>2, GroupFound
  <2>7. stage' = stage /\ \E state \in {"built", "hollow"} : net' = [net EXCEPT ![k][l + 1] = Layer(l, state, GetDeviceGroup(l))]
    BY <1>5, <2>4, <2>5 DEF ReadLayer
  <2>8. PICK state \in {"built", "hollow"} : net' = [net EXCEPT ![k][l + 1] = Layer(l, state, g - 1)]
    BY <2>6, <2>7
  <2>9. Layer(l, state, g - 1) \in DeviceLayer /\ Layer(l, state, g - 1).state # "null"
    BY <1>2 DEF Layer, DeviceLayer
  <2>10. /\ net'[k] = [net[k] EXCEPT ![l + 1] = Layer(l, state, g - 1)]
         /\ \A j \in Kinds : j # k => net'[j] = net[j]
         /\ DOMAIN net' = Kinds
    BY <1>2, <1>3, <2>8
  <2>11. net'[k] \in Seq(DeviceLayer) /\ Len(net'[k]) = Len(net[k])
    BY <2>3, <2>4, <2>9, <2>10
  <2>12. net' \in [Kinds -> Seq(DeviceLayer)]
    <3>1. \A j \in Kinds : net'[j] \in Seq(DeviceLayer)
      BY <1>3, <2>10, <2>11
    <3>2. net' = [j \in Kinds |-> net'[j]]
      BY <1>2, <1>3, <2>8
    <3> QED BY <3>1, <3>2
  <2>13. \A i \in 1 .. Len(net[k]) : i # l + 1 => net'[k][i] = net[k][i]
    BY <2>3, <2>10
  <2>14. net'[k][l + 1] = Layer(l, state, g - 1)
    BY <2>3, <2>4, <2>10
  <2>15. Shape(k, 0)'
    <3>1. \A i \in 1 .. Len(net'[k]) : net'[k][i].state = "null" => i + Offset(k) <= spec.cpu[k]
      BY <2>3, <2>9, <2>11, <2>13, <2>14 DEF Shape
    <3>2. Len(net'[k]) = IF ~Active(k) THEN 0
                         ELSE IF IsAppended(k) THEN Bound(k, 0) - Offset(k) ELSE spec.layers[k]
      BY <2>3, <2>11 DEF Shape
    <3> QED BY <1>1, <1>2, <3>1, <3>2, SameSpec DEF Shape
  <2>16. \A j \in Kinds : Shape(j, 0)'
    BY <1>1, <1>3, <2>10, <2>15, SameNet DEF Fresh
  <2>17. EagerPlaced'
    <3> SUFFICES ASSUME NEW h \in 1 .. spec.groups, NEW m \in LayersOf(k, h) \ unread'
                 PROVE  net'[k][Pos(k, m)] \in {Layer(m, st, h - 1) : st \in HasTensors}
      BY <1>1, <1>2, SameSpec DEF EagerPlaced, Layer
    <3>1. m \in s .. e - 1 /\ Pos(k, m) = m + 1
      BY <1>1, <1>2, <2>1, LayersOfGroups DEF Pos
    <3>2. CASE m = l
      <4>1. h = g
        BY <1>1, <1>2, <2>1, <2>2, <3>2, LayersOfGroups
      <4> QED BY <2>14, <3>1, <3>2, <4>1 DEF HasTensors
    <3>3. CASE m # l
      <4>1. m \in LayersOf(k, h) \ unread
        BY <1>1, <3>3
      <4>2. net[k][Pos(k, m)] \in {Layer(m, st, h - 1) : st \in HasTensors}
        BY <1>5, <2>1, <2>3, <4>1 DEF EagerPlaced
      <4>3. net'[k][m + 1] = net[k][m + 1]
        <5>1. m + 1 \in 1 .. Len(net[k]) /\ m + 1 # l + 1
          BY <1>2, <2>4, <3>1, <3>3
        <5> QED BY <2>13, <5>1
      <4> QED BY <3>1, <4>2, <4>3
    <3> QED BY <3>2, <3>3
  <2> QED BY <1>1, <2>7, <2>12, <2>16, <2>17 DEF RegularInv, Fresh, Serving
<1> QED BY <1>4, <1>5

(* Failing, and what leads from the files to the devices.                   *)
LEMMA InvHost ==
  ASSUME MBInv, IsRegular,
         LoadFails \/ HostModel \/ NotPartitionable \/ BuildDeviceTensor_ForceDequant
  PROVE  RegularInv'
<1>1. spec' = spec /\ RegularInv /\ UNCHANGED <<net, builder, unread>>
      /\ \/ stage' = "failed"
         \/ stage \in {"device", "group"} /\ stage' = "exited"
         \/ stage = "read" /\ unread = {} /\ stage' = IF IsCpuOnly THEN "cpu" ELSE "device"
  BY DEF MBInv, LoadFails, HostModel, NotPartitionable, BuildDeviceTensor_ForceDequant
<1>2. CASE stage' = "failed"
  BY <1>1, <1>2 DEF RegularInv, Serving
<1>4. CASE stage \in {"device", "group"} /\ stage' = "exited"
  BY <1>1, <1>4 DEF RegularInv, Serving
<1>3. CASE stage = "read" /\ unread = {} /\ stage' = IF IsCpuOnly THEN "cpu" ELSE "device"
  <2>1. \A j \in Kinds : Shape(j, 0)'
    BY <1>1, <1>3, SameNet DEF RegularInv, Fresh
  <2>2. EagerPlaced'
    BY <1>1, <1>3, SameSpec DEF RegularInv, Fresh, EagerPlaced, Kinds, Layer
  <2> QED BY <1>1, <1>3, <2>1, <2>2, SameSpec DEF RegularInv, Fresh, Serving
<1> QED BY <1>1, <1>2, <1>3, <1>4

-----------------------------------------------------------------------------
(* Building.  The groups that are left, as lists.                           *)
LEMMA RestIsList ==
  ASSUME spec \in ModelSpecs, NEW k \in Kinds, NEW m \in Nat, m <= Num(k)
  PROVE  /\ Num(k) \in {0, spec.groups}
         /\ Rest(k, m) \in Seq([kind : Kinds, la : {Part(k, g) : g \in 1 .. spec.groups}])
         /\ Len(Rest(k, m)) = Num(k) - m
         /\ m < Num(k) => /\ Head(Rest(k, m)) = [kind |-> k, la |-> Part(k, m + 1)]
                          /\ Tail(Rest(k, m)) = Rest(k, m + 1)
<1> DEFINE S == [kind : Kinds, la : {Part(k, g) : g \in 1 .. spec.groups}]
           R == Rest(k, m)
           N == Num(k)
<1>1. N \in {0, spec.groups} /\ N \in Nat
  BY Numbers DEF Num
<1>2. R = [j \in 1 .. N - m |-> [kind |-> k, la |-> Part(k, m + j)]]
  BY DEF Rest
<1>3. \A j \in 1 .. N - m : m + j \in 1 .. spec.groups
  BY <1>1, Numbers
<1>4. N - m \in Nat
  BY <1>1
<1> HIDE DEF N
<1>5. \A j \in 1 .. N - m : [kind |-> k, la |-> Part(k, m + j)] \in S
  BY <1>3
<1> HIDE DEF S, R
<1>6. R \in Seq(S) /\ Len(R) = N - m
  BY <1>2, <1>4, <1>5
<1>7. ASSUME m < N PROVE Head(R) = [kind |-> k, la |-> Part(k, m + 1)] /\ Tail(R) = Rest(k, m + 1)
  <2>1. 1 \in 1 .. N - m /\ R # <<>>
    BY <1>1, <1>4, <1>6, <1>7
  <2>2. Head(R) = [kind |-> k, la |-> Part(k, m + 1)]
    BY <1>2, <1>6, <2>1
  <2>3. Tail(R) = [j \in 1 .. Len(R) - 1 |-> R[j + 1]]
    <3>1. Tail(R) \in Seq(S) /\ Len(Tail(R)) = Len(R) - 1 /\ Len(R) \in Nat
      BY <1>6, <2>1
    <3>2. \A j \in 1 .. Len(R) - 1 : Tail(R)[j] = R[j + 1]
      BY <1>6, <2>1, <3>1
    <3>3. Tail(R) = [j \in 1 .. Len(Tail(R)) |-> Tail(R)[j]]
      BY <3>1, LenProperties
    <3> QED BY <3>1, <3>2, <3>3
  <2>4. Rest(k, m + 1) = [j \in 1 .. N - (m + 1) |-> [kind |-> k, la |-> Part(k, (m + 1) + j)]]
    BY DEF Rest, N
  <2>5. Len(R) - 1 = N - (m + 1)
    BY <1>1, <1>6
  <2>6. \A j \in 1 .. N - (m + 1) : R[j + 1] = [kind |-> k, la |-> Part(k, (m + 1) + j)]
    <3> SUFFICES ASSUME NEW j \in 1 .. N - (m + 1)
                 PROVE  R[j + 1] = [kind |-> k, la |-> Part(k, (m + 1) + j)]
      OBVIOUS
    <3>1. j + 1 \in 1 .. N - m /\ m + (j + 1) = (m + 1) + j
      BY <1>1
    <3> QED BY <1>2, <3>1
  <2> QED BY <2>2, <2>3, <2>4, <2>5, <2>6
<1> QED BY <1>1, <1>6, <1>7 DEF S, R, N

(* What BuildDeviceNetwork has to do.                                       *)
LEMMA TaggedList ==
  ASSUME spec \in ModelSpecs, IsRegular, NEW k \in Kinds
  PROVE  Tagged(k) = IF Active(k) THEN [g \in 1 .. spec.groups |-> [kind |-> k, la |-> Part(k, g)]] ELSE <<>>
<1> DEFINE las == GetDeviceAssignments(k)
<1>1. las = IF Active(k) THEN [g \in 1 .. spec.groups |-> Part(k, g)] ELSE <<>>
  BY SplitInOrder
<1>2. Tagged(k) = [i \in DOMAIN las |-> [kind |-> k, la |-> las[i]]]
  BY DEF Tagged
<1> HIDE DEF las
<1>3. CASE Active(k)
  BY <1>1, <1>2, <1>3
<1>4. CASE ~Active(k)
  <2>1. DOMAIN las = {}
    BY <1>1, <1>4
  <2>2. Tagged(k) = [i \in {} |-> [kind |-> k, la |-> las[i]]]
    BY <1>2, <2>1
  <2> QED BY <1>4, <2>2
<1> QED BY <1>3, <1>4

(* Before the first group everything is left to be built.                   *)
LEMMA InvBuild ==
  ASSUME MBInv, IsRegular, BuildDeviceNetwork
  PROVE  RegularInv'
<1> DEFINE d == [k \in Kinds |-> 0]
           Z(k) == IF Active(k) THEN [g \in 1 .. spec.groups |-> [kind |-> k, la |-> Part(k, g)]] ELSE <<>>
<1>1. spec \in ModelSpecs /\ spec' = spec /\ RegularInv /\ UNCHANGED <<net, builder, unread>>
      /\ stage = "device" /\ stage' = "group"
  BY DEF MBInv, BuildDeviceNetwork
<1>2. spec.groups \in Nat \ {0} /\ (spec.group_size > 1 => spec.layers["encoder"] = 0)
      /\ spec.cpu["encoder"] \in Nat /\ spec.layers["encoder"] \in Nat /\ spec.group_size \in 1 .. 2
  BY <1>1, Numbers DEF Kinds
<1>3. Strategy # "BY_LAYER" \/ IsEager => ~Active("encoder")
  BY <1>2 DEF Strategy, IsEager, Active
<1>4. Tagged("decoder") = Z("decoder") /\ Tagged("encoder") = Z("encoder")
  BY <1>1, TaggedList DEF Kinds
<1>5. Rest("decoder", 0) = (IF IsEager THEN <<>> ELSE Z("decoder")) /\ Rest("encoder", 0) = Z("encoder")
  <2>1. \A k \in Kinds : Rest(k, 0) = IF Num(k) = 0 THEN <<>> ELSE [j \in 1 .. Num(k) |-> [kind |-> k, la |-> Part(k, j)]]
    <3> SUFFICES ASSUME NEW k \in Kinds
                 PROVE  Rest(k, 0) = IF Num(k) = 0 THEN <<>> ELSE [j \in 1 .. Num(k) |-> [kind |-> k, la |-> Part(k, j)]]
      OBVIOUS
    <3>1. Num(k) \in Nat
      BY <1>2 DEF Num
    <3>2. Num(k) - 0 = Num(k) /\ \A j \in 1 .. Num(k) : 0 + j = j
      BY <3>1
    <3>3. Rest(k, 0) = [j \in 1 .. Num(k) |-> [kind |-> k, la |-> Part(k, j)]]
      BY <3>2 DEF Rest
    <3> QED BY <3>1, <3>3
  <2>2. /\ Num("decoder") = (IF Active("decoder") /\ ~IsEager THEN spec.groups ELSE 0)
        /\ Num("encoder") = (IF Active("encoder") THEN spec.groups ELSE 0)
    BY DEF Num
  <2> QED BY <1>2, <2>1, <2>2 DEF Kinds
<1>6. Z("decoder") \in Seq([kind : Kinds, la : {Part("decoder", g) : g \in 1 .. spec.groups}])
  <2> DEFINE S == [kind : Kinds, la : {Part("decoder", g) : g \in 1 .. spec.groups}]
  <2>1. \A g \in 1 .. spec.groups : [kind |-> "decoder", la |-> Part("decoder", g)] \in S
    BY DEF Kinds
  <2> HIDE DEF S
  <2>2. Z("decoder") \in Seq(S)
    BY <1>2, <2>1
  <2> QED BY <2>2 DEF S
<1>7. todo' = Rest("decoder", 0) \o Rest("encoder", 0)
  <2> HIDE DEF Z
  <2>1. todo' = IF Strategy = "BY_LAYER"
                THEN (IF IsEager THEN <<>> ELSE Z("decoder")) \o Z("encoder") ELSE Z("decoder")
    BY <1>4 DEF BuildDeviceNetwork
  <2>2. CASE Strategy = "BY_LAYER"
    BY <1>5, <2>1, <2>2
  <2>3. CASE Strategy # "BY_LAYER"
    <3>1. Z("encoder") = <<>> /\ ~IsEager
      BY <1>3, <2>3 DEF Z, IsEager
    <3>2. Z("decoder") \o <<>> = Z("decoder")
      BY <1>6
    <3> QED BY <1>5, <2>1, <2>3, <3>1, <3>2
  <2> QED BY <2>2, <2>3
<1>8. \A k \in Kinds : Rest(k, 0)' = Rest(k, 0) /\ Num(k)' = Num(k) /\ Num(k) \in Nat
  BY <1>1, <1>2, SameSpec DEF Num
<1>9. \A k \in Kinds : Shape(k, 0)'
  BY <1>1, SameNet DEF RegularInv, Fresh
<1>10. EagerPlaced'
  BY <1>1, SameSpec DEF RegularInv, Fresh, EagerPlaced, Kinds, Layer
<1>11. Between(d)'
  BY <1>7, <1>8, <1>9 DEF Between, Left, Kinds
<1>12. d \in [Kinds -> 0 .. spec.groups]
  BY <1>2
<1>13. (\E c \in [Kinds -> 0 .. spec.groups] : Between(c))'
  <2> HIDE DEF d
  <2> QED BY <1>1, <1>11, <1>12
<1> QED BY <1>1, <1>10, <1>13, SameSpec DEF RegularInv, Serving

(* The first of a concatenation of two lists.                               *)
LEMMA ConcatHead ==
  ASSUME NEW S, NEW s \in Seq(S), NEW t \in Seq(S), s # <<>>
  PROVE  s \o t # <<>> /\ Head(s \o t) = Head(s) /\ Tail(s \o t) = Tail(s) \o t
<1>1. s \o t \in Seq(S) /\ Len(s \o t) = Len(s) + Len(t)
      /\ \A i \in 1 .. Len(s) + Len(t) : (s \o t)[i] = IF i <= Len(s) THEN s[i] ELSE t[i - Len(s)]
  BY ConcatProperties
<1>2. Len(s) \in Nat \ {0} /\ Len(t) \in Nat
  BY EmptySeq, LenProperties
<1>3. s \o t # <<>>
  BY <1>1, <1>2, EmptySeq
<1>4. Head(s \o t) = Head(s)
  <2>1. (s \o t)[1] = s[1]
    BY <1>1, <1>2
  <2> QED BY <1>1, <1>3, <2>1
<1>5. /\ Tail(s) \in Seq(S) /\ Len(Tail(s)) = Len(s) - 1
      /\ \A i \in 1 .. Len(Tail(s)) : Tail(s)[i] = s[i + 1]
  BY HeadTailProperties
<1>6. /\ Tail(s \o t) \in Seq(S) /\ Len(Tail(s \o t)) = Len(s) + Len(t) - 1
      /\ \A i \in 1 .. Len(Tail(s \o t)) : Tail(s \o t)[i] = (s \o t)[i + 1]
  BY <1>1, <1>3, HeadTailProperties
<1>7. /\ Tail(s) \o t \in Seq(S) /\ Len(Tail(s) \o t) = Len(s) - 1 + Len(t)
      /\ \A i \in 1 .. (Len(s) - 1) + Len(t) : (Tail(s) \o t)[i] =
            IF i <= Len(s) - 1 THEN Tail(s)[i] ELSE t[i - (Len(s) - 1)]
  BY <1>5, ConcatProperties
<1>8. Tail(s \o t) = Tail(s) \o t
  <2>1. ASSUME NEW i \in 1 .. Len(Tail(s \o t)) PROVE Tail(s \o t)[i] = (Tail(s) \o t)[i]
    <3>1. i \in 1 .. (Len(s) - 1) + Len(t) /\ i + 1 \in 1 .. Len(s) + Len(t)
      BY <1>2, <1>6
    <3>2. Tail(s \o t)[i] = IF i + 1 <= Len(s) THEN s[i + 1] ELSE t[(i + 1) - Len(s)]
      BY <1>1, <1>6, <3>1
    <3>3. CASE i + 1 <= Len(s)
      BY <1>2, <1>5, <1>7, <3>1, <3>2, <3>3
    <3>4. CASE ~(i + 1 <= Len(s))
      <4>1. (i + 1) - Len(s) = i - (Len(s) - 1) /\ ~(i <= Len(s) - 1)
        BY <1>2, <3>1, <3>4
      <4> QED BY <1>7, <3>1, <3>2, <3>4, <4>1
    <3> QED BY <3>3, <3>4
  <2>2. Len(Tail(s \o t)) = Len(Tail(s) \o t)
    BY <1>2, <1>6, <1>7
  <2> QED BY <1>6, <1>7, <2>1, <2>2, SeqEqual
<1> QED BY <1>3, <1>4, <1>8

(* The group to be built next, and what is left after it.                   *)
LEMMA NextGroup ==
  ASSUME spec \in ModelSpecs, NEW d \in [Kinds -> Nat], \A k \in Kinds : d[k] <= Num(k)
  PROVE  /\ Left(d) = <<>> => \A k \in Kinds : d[k] = Num(k)
         /\ Left(d) # <<>> => \E k \in Kinds :
              /\ d[k] < Num(k)
              /\ Head(Left(d)) = [kind |-> k, la |-> Part(k, d[k] + 1)]
              /\ Tail(Left(d)) = Left(Advance(d, k))
<1> DEFINE a == "decoder"
           b == "encoder"
           S == [kind : Kinds, la : {Part(a, g) : g \in 1 .. spec.groups} \cup {Part(b, g) : g \in 1 .. spec.groups}]
           s == Rest(a, d[a])
           t == Rest(b, d[b])
<1>1. a \in Kinds /\ b \in Kinds /\ \A k \in Kinds : k = a \/ k = b
  BY DEF Kinds
<1>2. \A k \in Kinds : d[k] \in Nat /\ d[k] <= Num(k)
  OBVIOUS
<1>3. s \in Seq(S) /\ Len(s) = Num(a) - d[a]
  <2>1. s \in Seq([kind : Kinds, la : {Part(a, g) : g \in 1 .. spec.groups}]) /\ Len(s) = Num(a) - d[a]
    BY <1>1, <1>2, RestIsList
  <2>2. [kind : Kinds, la : {Part(a, g) : g \in 1 .. spec.groups}] \subseteq S
    OBVIOUS
  <2> HIDE DEF S, s
  <2> QED BY <2>1, <2>2, SeqMonotonic
<1>4. t \in Seq(S) /\ Len(t) = Num(b) - d[b]
  <2>1. t \in Seq([kind : Kinds, la : {Part(b, g) : g \in 1 .. spec.groups}]) /\ Len(t) = Num(b) - d[b]
    BY <1>1, <1>2, RestIsList
  <2>2. [kind : Kinds, la : {Part(b, g) : g \in 1 .. spec.groups}] \subseteq S
    OBVIOUS
  <2> HIDE DEF S, t
  <2> QED BY <2>1, <2>2, SeqMonotonic
<1>5. Left(d) = s \o t
  BY DEF Left
<1>6. Num(a) \in Nat /\ Num(b) \in Nat
  BY <1>1, Numbers DEF Num
<1>7. \A k \in Kinds : d[k] < Num(k) =>
        /\ Head(Rest(k, d[k])) = [kind |-> k, la |-> Part(k, d[k] + 1)]
        /\ Tail(Rest(k, d[k])) = Rest(k, d[k] + 1)
  BY <1>2, RestIsList
<1>8. /\ Left(Advance(d, a)) = Rest(a, d[a] + 1) \o Rest(b, d[b])
      /\ Left(Advance(d, b)) = Rest(a, d[a]) \o Rest(b, d[b] + 1)
  BY <1>1 DEF Left, Advance
<1> HIDE DEF S
<1>9. CASE d[a] < Num(a)
  <2>1. s # <<>>
    BY <1>3, <1>6, <1>9, <1>1, <1>2
  <2>2. s \o t # <<>> /\ Head(s \o t) = Head(s) /\ Tail(s \o t) = Tail(s) \o t
    BY <1>3, <1>4, <2>1, ConcatHead
  <2> QED BY <1>1, <1>5, <1>7, <1>8, <1>9, <2>2
<1>10. CASE d[a] = Num(a) /\ d[b] < Num(b)
  <2>1. s = <<>> /\ t # <<>>
    BY <1>1, <1>2, <1>3, <1>4, <1>6, <1>10
  <2>2. s \o t = t
    BY <1>4, <2>1, ConcatEmptySeq
  <2>3. Tail(t) = Rest(b, d[b] + 1) /\ Head(t) = [kind |-> b, la |-> Part(b, d[b] + 1)]
    BY <1>1, <1>7, <1>10
  <2>4. Tail(t) \in Seq(S)
    BY <1>4, <2>1, HeadTailProperties
  <2>5. Left(Advance(d, b)) = Tail(t)
    BY <1>8, <2>1, <2>3, <2>4, ConcatEmptySeq
  <2> QED BY <1>1, <1>5, <1>10, <2>1, <2>2, <2>3, <2>5
<1>11. CASE d[a] = Num(a) /\ d[b] = Num(b)
  <2>1. s = <<>> /\ t = <<>>
    BY <1>1, <1>2, <1>3, <1>4, <1>6, <1>11, EmptySeq
  <2>2. s \o t = <<>>
    BY <1>4, <2>1, ConcatEmptySeq
  <2> QED BY <1>1, <1>5, <1>11, <2>2
<1> QED BY <1>1, <1>2, <1>6, <1>9, <1>10, <1>11

(* The places of layers.                                                    *)
LEMMA Places ==
  ASSUME spec \in ModelSpecs, IsRegular, NEW k \in Kinds, Active(k)
  PROVE  /\ \A g \in 1 .. spec.groups : \A l \in LayersOf(k, g) :
              /\ l \in Nat /\ Pos(k, l) \in Nat \ {0}
              /\ Pos(k, l) + Offset(k) > spec.cpu[k]
              /\ Bound(k, g - 1) - Offset(k) < Pos(k, l) /\ Pos(k, l) <= Bound(k, g) - Offset(k)
         /\ \A l, m \in Int : Pos(k, l) = Pos(k, m) => l = m
         /\ Offset(k) \in Nat /\ spec.cpu[k] \in Nat /\ spec.layers[k] \in Nat
<1>1. spec.cpu[k] \in Nat /\ spec.layers[k] \in Nat /\ Offset(k) \in {0, spec.cpu[k]}
  BY Numbers DEF Offset
<1>2. ASSUME NEW g \in 1 .. spec.groups, NEW l \in LayersOf(k, g)
      PROVE  /\ l \in Nat /\ Pos(k, l) \in Nat \ {0}
             /\ Pos(k, l) + Offset(k) > spec.cpu[k]
             /\ Bound(k, g - 1) - Offset(k) < Pos(k, l) /\ Pos(k, l) <= Bound(k, g) - Offset(k)
  <2>1. l \in spec.cpu[k] .. spec.layers[k] - 1
    BY LayersOfGroups
  <2>2. Bound(k, g - 1) \in Nat /\ Bound(k, g) \in Nat
    BY Bounds, Numbers
  <2>3. Bound(k, g - 1) <= l /\ l <= Bound(k, g) - 1
    BY <2>2 DEF LayersOf
  <2> QED BY <1>1, <2>1, <2>2, <2>3 DEF Pos
<1>3. \A l, m \in Int : Pos(k, l) = Pos(k, m) => l = m
  BY <1>1 DEF Pos
<1> QED BY <1>1, <1>2, <1>3

(* Layers of different groups have different places.                        *)
LEMMA PlacesApart ==
  ASSUME spec \in ModelSpecs, IsRegular, NEW k \in Kinds, Active(k),
         NEW g \in 1 .. spec.groups, NEW h \in 1 .. spec.groups,
         NEW l \in LayersOf(k, g), NEW m \in LayersOf(k, h), Pos(k, l) = Pos(k, m)
  PROVE  g = h /\ l = m
<1>1. l \in Int /\ m \in Int
  BY Places
<1>2. l = m
  BY <1>1, Places
<1> QED BY <1>2, LayersOfGroups

(* A network with the layers of m groups has places for them.               *)
LEMMA PlaceInShape ==
  ASSUME spec \in ModelSpecs, IsRegular, NEW k \in Kinds, Active(k),
         NEW m \in 0 .. spec.groups, Shape(k, m),
         NEW g \in 1 .. spec.groups, g <= m \/ ~IsAppended(k), NEW l \in LayersOf(k, g)
  PROVE  Pos(k, l) \in 1 .. Len(net[k])
<1>1. spec.groups \in Nat /\ Offset(k) \in Nat /\ spec.layers[k] \in Nat /\ Pos(k, l) \in Nat \ {0}
      /\ Pos(k, l) <= Bound(k, g) - Offset(k)
  BY Numbers, Places
<1>2. Bound(k, g) \in Nat /\ Bound(k, g) <= spec.layers[k] /\ Bound(k, m) \in Nat
      /\ (g < m => Bound(k, g) < Bound(k, m))
  BY <1>1, Bounds
<1>3. ~IsAppended(k) => Offset(k) = 0
  BY DEF IsAppended, Offset, Kinds
<1>4. CASE IsAppended(k)
  <2>1. Len(net[k]) = Bound(k, m) - Offset(k)
    BY <1>4 DEF Shape
  <2> QED BY <1>1, <1>2, <1>4, <2>1
<1>5. CASE ~IsAppended(k)
  <2>1. Len(net[k]) = spec.layers[k]
    BY <1>5 DEF Shape
  <2> QED BY <1>1, <1>2, <1>3, <1>5, <2>1
<1> QED BY <1>4, <1>5

(* Building is not eager.                                                   *)
LEMMA NotEager ==
  ASSUME spec \in ModelSpecs, NEW k \in Kinds, Num(k) > 0
  PROVE  Active(k) /\ ~IsEager /\ Num(k) = spec.groups /\ spec.groups \in Nat \ {0}
         /\ (Strategy # "BY_LAYER" => k = "decoder" /\ Num("encoder") = 0)
<1>1. spec.groups \in Nat \ {0} /\ (spec.group_size > 1 => spec.layers["encoder"] = 0)
      /\ spec.cpu["encoder"] \in Nat /\ spec.group_size \in 1 .. 2
  BY Numbers DEF Kinds
<1>2. Active(k) /\ Num(k) = spec.groups
  BY DEF Num
<1>3. spec.layers["encoder"] = 0 => Num("encoder") = 0
  BY <1>1 DEF Num, Active
<1>4. k = "decoder" \/ k = "encoder"
  BY DEF Kinds
<1>5. ~IsEager
  BY <1>3, <1>4 DEF IsEager, Num
<1>6. Strategy # "BY_LAYER" => Num("encoder") = 0
  BY <1>1, <1>3 DEF Strategy
<1> QED BY <1>1, <1>2, <1>4, <1>5, <1>6

(* The layers of the next group are placed and given to the threads: their  *)
(* indices are in range, and no other group's places are touched.           *)
LEMMA InvStart ==
  ASSUME MBInv, IsRegular, StartBuilders
  PROVE  RegularInv'
<1>1. spec \in ModelSpecs /\ spec' = spec /\ RegularInv /\ stage = "group" /\ todo # <<>>
      /\ UNCHANGED <<unread, todo, ret>>
  BY DEF MBInv, StartBuilders
<1>2. PICK d \in [Kinds -> 0 .. spec.groups] : Between(d)
  BY <1>1 DEF RegularInv
<1>3. \A j \in Kinds : d[j] \in Nat /\ d[j] <= Num(j)
  BY <1>2 DEF Between
<1>4. todo = Left(d)
  BY <1>2 DEF Between
<1>5. PICK k \in Kinds : /\ d[k] < Num(k)
                         /\ Head(todo) = [kind |-> k, la |-> Part(k, d[k] + 1)]
                         /\ Tail(todo) = Left(Advance(d, k))
  <2>1. d \in [Kinds -> Nat]
    BY <1>3
  <2> QED BY <1>1, <1>3, <1>4, <2>1, NextGroup
<1> DEFINE g   == d[k] + 1
           ids == LayersOf(k, g)
           L   == Len(net[k])
           last == IF IsAppended(k) THEN L + Bound(k, g) - Bound(k, g - 1) ELSE L
           W   == [i \in 1 .. last |-> IF \E l \in ids : Pos(k, l) = i
                                       THEN Layer(CHOOSE l \in ids : Pos(k, l) = i, "hollow", g - 1)
                                       ELSE net[k][i]]
           T   == [b \in Builders |-> [state |-> "running",
                                       tasks |-> {Pos(k, l) : l \in {x \in ids : x % BuilderCount = b}}]]
<1>6. /\ Active(k) /\ ~IsEager /\ Num(k) = spec.groups /\ spec.groups \in Nat \ {0}
  BY <1>1, <1>3, <1>5, NotEager, Numbers DEF Num
<1>7. g \in 1 .. spec.groups /\ g - 1 = d[k] /\ g - 1 \in 0 .. spec.groups
  BY <1>3, <1>5, <1>6
<1>8. Shape(k, d[k]) /\ net[k] \in Seq(DeviceLayer) /\ net \in [Kinds -> Seq(DeviceLayer)] /\ L \in Nat
  BY <1>1, <1>2 DEF Between, RegularInv
<1>9. Bound(k, g) \in Nat /\ Bound(k, g - 1) \in Nat /\ Bound(k, g - 1) < Bound(k, g)
      /\ Bound(k, g) <= spec.layers[k] /\ Offset(k) \in Nat /\ spec.layers[k] \in Nat /\ spec.cpu[k] \in Nat
      /\ spec.cpu[k] <= Bound(k, g - 1) /\ Offset(k) <= spec.cpu[k]
  <2>1. Offset(k) \in {0, spec.cpu[k]} /\ spec.cpu[k] \in Nat /\ spec.layers[k] \in Nat
    BY <1>1, Numbers DEF Offset
  <2> QED BY <1>1, <1>6, <1>7, <2>1, Bounds, SMTT(30)
<1>10. ~IsAppended(k) => Offset(k) = 0 /\ L = spec.layers[k]
  <2>1. ~IsAppended(k) => Offset(k) = 0
    BY DEF IsAppended, Offset, Kinds
  <2> QED BY <1>6, <1>8, <2>1 DEF Shape
<1>11. IsAppended(k) => L = Bound(k, g - 1) - Offset(k)
  BY <1>6, <1>7, <1>8 DEF Shape
<1>12. last \in Nat /\ L <= last
  BY <1>8, <1>9
<1>13. \A l \in ids : /\ l \in Nat /\ l < spec.layers[k] /\ Pos(k, l) \in 1 .. last
                      /\ (IsAppended(k) => Pos(k, l) > L)
                      /\ Pos(k, l) + Offset(k) > spec.cpu[k]
  <2> SUFFICES ASSUME NEW l \in ids
               PROVE  /\ l \in Nat /\ l < spec.layers[k] /\ Pos(k, l) \in 1 .. last
                      /\ (IsAppended(k) => Pos(k, l) > L)
                      /\ Pos(k, l) + Offset(k) > spec.cpu[k]
    OBVIOUS
  <2>1. /\ l \in Nat /\ Pos(k, l) \in Nat \ {0} /\ Pos(k, l) + Offset(k) > spec.cpu[k]
        /\ Bound(k, g - 1) - Offset(k) < Pos(k, l) /\ Pos(k, l) <= Bound(k, g) - Offset(k)
    BY <1>1, <1>6, <1>7, Places
  <2>2. l < spec.layers[k]
    BY <1>1, <1>6, <1>7, <1>9, LayersOfGroups
  <2> HIDE DEF g, ids, L
  <2> QED BY <1>8, <1>9, <1>10, <1>11, <2>1, <2>2
<1>14. \A l \in ids : IsAppended(k) \/ IsUsable(k, l)
  <2> SUFFICES ASSUME NEW l \in ids, ~IsAppended(k) PROVE IsUsable(k, l)
    OBVIOUS
  <2>1. Pos(k, l) = l + 1 /\ l + 1 \in 1 .. L /\ l < L /\ l \in Nat
    BY <1>8, <1>10, <1>13 DEF Pos
  <2> QED BY <1>8, <1>9, <1>10, <1>13, <2>1 DEF Shape, IsUsable
<1>15. \A l \in ids : (IF IsAppended(k) THEN L + 1 + l - Bound(k, g - 1) ELSE l + 1) = Pos(k, l)
  <2> SUFFICES ASSUME NEW l \in ids
               PROVE  (IF IsAppended(k) THEN L + 1 + l - Bound(k, g - 1) ELSE l + 1) = Pos(k, l)
    OBVIOUS
  <2>1. l \in Nat
    BY <1>13
  <2> HIDE DEF g, ids, L
  <2> QED BY <1>9, <1>10, <1>11, <2>1 DEF Pos
<1>16. /\ Head(todo).kind = k /\ Head(todo).la.start = Bound(k, g - 1) /\ Head(todo).la.end = Bound(k, g)
       /\ Head(todo).la.group = g - 1
       /\ Head(todo).la.start .. Head(todo).la.end - 1 = ids
  BY <1>5, <1>7 DEF Part, LayersOf
<1> HIDE DEF g, ids, L
<1>17. stage' = "join" /\ joined' = 0 /\ net' = [net EXCEPT ![k] = W] /\ builder' = T
  <2> DEFINE q    == Head(todo).kind
             la   == Head(todo).la
             raw  == la.start .. la.end - 1
             Place(l) == IF IsAppended(q) THEN Len(net[q]) + 1 + l - la.start ELSE l + 1
             end  == IF IsAppended(q) THEN Len(net[q]) + la.end - la.start ELSE Len(net[q])
  <2>1. \A l \in raw : l < spec.layers[q] /\ (IsAppended(q) \/ IsUsable(q, l))
    BY <1>13, <1>14, <1>16
  <2>2. /\ net' = [net EXCEPT ![q] =
               [i \in 1 .. end |->
                      IF \E l \in raw : Place(l) = i
                      THEN Layer(CHOOSE l \in raw : Place(l) = i, "hollow", la.group)
                      ELSE net[q][i]]]
        /\ builder' = [b \in Builders |->
               [ state |-> "running",
                 tasks |-> {Place(l) : l \in {x \in raw : x % BuilderCount = b}} ]]
        /\ joined' = 0
        /\ stage' = "join"
    <3>1. q \in Kinds
      BY <1>16
    <3> QED BY <1>8, <2>1, <3>1 DEF StartBuilders
  <2>3. q = k /\ raw = ids /\ la.group = g - 1 /\ end = last
    BY <1>16 DEF L
  <2>4. \A l \in ids : Place(l) = Pos(k, l)
    BY <1>15, <1>16 DEF L
  <2> HIDE DEF Place, q, la, raw, end
  <2>5. \A i : (\E l \in raw : Place(l) = i) <=> (\E l \in ids : Pos(k, l) = i)
    BY <2>3, <2>4
  <2>6. \A i : (CHOOSE l \in raw : Place(l) = i) = (CHOOSE l \in ids : Pos(k, l) = i)
    BY <2>3, <2>4
  <2>7. \A b \in Builders : {Place(l) : l \in {x \in raw : x % BuilderCount = b}}
                              = {Pos(k, l) : l \in {x \in ids : x % BuilderCount = b}}
    BY <2>3, <2>4
  <2>8. net' = [net EXCEPT ![k] = W]
    BY <2>2, <2>3, <2>5, <2>6, ZenonT(60)
  <2>9. builder' = T
    BY <2>2, <2>7
  <2> QED BY <2>2, <2>8, <2>9
<1>18. \A l \in ids : W[Pos(k, l)] = Layer(l, "hollow", g - 1)
  <2> SUFFICES ASSUME NEW l \in ids PROVE W[Pos(k, l)] = Layer(l, "hollow", g - 1)
    OBVIOUS
  <2>1. \A m \in ids : Pos(k, m) = Pos(k, l) => m = l
    BY <1>1, <1>6, <1>13, Places
  <2>2. (CHOOSE m \in ids : Pos(k, m) = Pos(k, l)) = l
    BY <2>1
  <2> QED BY <1>13, <2>2
<1>19. \A i \in 1 .. last : (\A l \in ids : Pos(k, l) # i) => W[i] = net[k][i]
  OBVIOUS
<1>20. \A i \in 1 .. last : (\A l \in ids : Pos(k, l) # i) => i \in 1 .. L
  <2> SUFFICES ASSUME NEW i \in 1 .. last, \A l \in ids : Pos(k, l) # i, ~(i \in 1 .. L) PROVE FALSE
    OBVIOUS
  <2>1. IsAppended(k) /\ i > L /\ L = Bound(k, g - 1) - Offset(k) /\ i <= Bound(k, g) - Offset(k)
    BY <1>8, <1>9, <1>11, <1>12
  <2>2. (i + Offset(k) - 1) \in ids /\ Pos(k, i + Offset(k) - 1) = i
    BY <1>9, <1>12, <2>1 DEF ids, LayersOf, Pos
  <2> QED BY <2>2
<1>21. W \in Seq(DeviceLayer) /\ Len(W) = last
  <2>1. ASSUME NEW i \in 1 .. last PROVE W[i] \in DeviceLayer
    <3>1. CASE \E l \in ids : Pos(k, l) = i
      <4>1. PICK l \in ids : Pos(k, l) = i
        BY <3>1
      <4>2. Layer(l, "hollow", g - 1) \in DeviceLayer
        BY <1>7, <1>13 DEF Layer, DeviceLayer
      <4> QED BY <1>18, <4>1, <4>2
    <3>2. CASE \A l \in ids : Pos(k, l) # i
      BY <1>8, <1>19, <1>20, <3>2, ElementOfSeq DEF L
    <3> QED BY <3>1, <3>2
  <2>2. W = [i \in 1 .. last |-> W[i]]
    OBVIOUS
  <2> HIDE DEF W, last
  <2> QED BY <1>12, <2>1, <2>2
<1> HIDE DEF W, last
<1>22. net'[k] = W /\ (\A j \in Kinds : j # k => net'[j] = net[j]) /\ net' \in [Kinds -> Seq(DeviceLayer)]
  BY <1>8, <1>17, <1>21
<1>23. \A j \in Kinds : Shape(j, Advance(d, k)[j])'
  <2>1. Advance(d, k)[k] = g /\ \A j \in Kinds : j # k => Advance(d, k)[j] = d[j]
    BY DEF Advance, g
  <2>2. ASSUME NEW j \in Kinds, j # k PROVE Shape(j, Advance(d, k)[j])'
    BY <1>1, <1>2, <1>22, <2>1, <2>2, SameNet DEF Between
  <2>3. Shape(k, g)'
    <3>1. Len(W) = IF IsAppended(k) THEN Bound(k, g) - Offset(k) ELSE spec.layers[k]
      BY <1>9, <1>10, <1>11, <1>21 DEF last
    <3>2. ASSUME NEW i \in 1 .. Len(W), W[i].state = "null" PROVE i + Offset(k) <= spec.cpu[k]
      <4>1. \A l \in ids : Pos(k, l) # i
        <5> SUFFICES ASSUME NEW l \in ids, Pos(k, l) = i PROVE FALSE
          OBVIOUS
        <5>1. W[i] = Layer(l, "hollow", g - 1)
          BY <1>18
        <5>2. W[i].state = "hollow"
          BY <5>1 DEF Layer
        <5> QED BY <3>2, <5>2
      <4>2. i \in 1 .. L /\ W[i] = net[k][i]
        BY <1>19, <1>20, <1>21, <4>1
      <4> QED BY <1>8, <3>2, <4>2 DEF Shape, L
    <3> QED BY <1>1, <1>6, <1>22, <3>1, <3>2, SameSpec DEF Shape
  <2> QED BY <2>1, <2>2, <2>3
<1>24. \A j \in Kinds : \A h \in 1 .. d[j] : \A S : Placed(j, h, S) => Placed(j, h, S)'
  <2>1. ASSUME NEW j \in Kinds, j # k PROVE \A h \in 1 .. d[j] : \A S : Placed(j, h, S) => Placed(j, h, S)'
    BY <1>1, <1>22, <2>1, SameNet
  <2>2. ASSUME NEW h \in 1 .. d[k], NEW S, Placed(k, h, S) PROVE Placed(k, h, S)'
    <3>1. h \in 1 .. spec.groups /\ h <= d[k] /\ d[k] \in 0 .. spec.groups /\ h # g
      BY <1>3, <1>5, <1>6 DEF g
    <3>2. ASSUME NEW l \in LayersOf(k, h) PROVE net'[k][Pos(k, l)] = net[k][Pos(k, l)]
      <4>1. Pos(k, l) \in 1 .. Len(net[k])
        BY <1>1, <1>6, <1>8, <3>1, PlaceInShape
      <4>2. \A m \in ids : Pos(k, m) # Pos(k, l)
        BY <1>1, <1>6, <1>7, <3>1, PlacesApart DEF ids
      <4>3. Pos(k, l) \in 1 .. last
        BY <1>8, <1>12, <4>1 DEF L
      <4> QED BY <1>19, <1>22, <4>2, <4>3
    <3> QED BY <1>1, <2>2, <3>2, SameSpec DEF Placed, Layer
  <2> QED BY <2>1, <2>2
<1>25. \A l \in ids : net'[k][Pos(k, l)] = Layer(l, "hollow", g - 1)
  BY <1>18, <1>22
<1>26. Placed(k, g, HasTensors)'
  BY <1>1, <1>25, SameSpec DEF Placed, HasTensors, Layer, ids
<1>27. \A l \in ids : Pos(k, l) \in builder'[l % BuilderCount].tasks
  <2> SUFFICES ASSUME NEW l \in ids PROVE Pos(k, l) \in builder'[l % BuilderCount].tasks
    OBVIOUS
  <2>1. l % BuilderCount \in Builders
    BY <1>13, BuildingAssumption DEF Builders
  <2> QED BY <1>17, <2>1
<1>28. \A b \in Builders : builder'[b].tasks \subseteq {Pos(k, l) : l \in ids} /\ builder'[b].state = "running"
  BY <1>17
<1>29. builder' \in [Builders -> [tasks : SUBSET Int, state : {"idle", "running", "done", "error"}]]
  <2>1. \A b \in Builders : {Pos(k, l) : l \in {x \in ids : x % BuilderCount = b}} \subseteq Int
    BY <1>13
  <2> QED BY <1>17, <2>1
<1>30. 0 \in Builders
  BY BuildingAssumption DEF Builders
<1>31. Left(d)' = Left(d) /\ Left(Advance(d, k))' = Left(Advance(d, k)) /\ \A j \in Kinds : Num(j)' = Num(j)
  BY <1>1, SameSpec DEF Left, Kinds
<1>32. Building(d, k)'
  <2>1. \A j \in Kinds : \A h \in 1 .. d[j] : /\ Placed(j, h, HasTensors)'
                                              /\ Strategy' = "BY_LAYER" => Placed(j, h, {"built"})'
    BY <1>1, <1>2, <1>24, SameSpec DEF Between
  <2>2. \A l \in LayersOf(k, d[k] + 1)' : /\ Pos(k, l)' \in builder'[l % BuilderCount].tasks
    BY <1>1, <1>27, SameSpec DEF ids, g
  <2>3. \A b \in Builders : builder'[b].tasks \subseteq {Pos(k, l)' : l \in LayersOf(k, d[k] + 1)'}
    BY <1>1, <1>28, SameSpec DEF ids, g
  <2>4. Placed(k, d[k] + 1, HasTensors)'
    BY <1>26 DEF g
  <2>5. todo' = Left(d)' /\ Tail(todo)' = Left(Advance(d, k))' /\ (\A j \in Kinds : d[j] <= Num(j)') /\ d[k] < Num(k)'
        /\ todo' # <<>> /\ Head(todo').kind = k
    BY <1>1, <1>3, <1>4, <1>5, <1>31
  <2>6. joined' \in Builders /\ \A b \in 0 .. joined' - 1 : builder'[b].state = "done"
    BY <1>17, <1>30
  <2>7. \A b \in Builders : builder'[b].state = "done" => builder'[b].tasks = {}
    BY <1>28
  <2> QED BY <1>23, <2>1, <2>2, <2>3, <2>4, <2>5, <2>6, <2>7 DEF Building
<1>33. EagerPlaced'
  BY <1>1, <1>6, SameSpec DEF EagerPlaced
<1>34. (\E c \in [Kinds -> 0 .. spec.groups], j \in Kinds : Building(c, j))'
  BY <1>1, <1>32
<1> QED BY <1>1, <1>17, <1>22, <1>29, <1>33, <1>34, SameSpec DEF RegularInv, Serving

(* A step that leaves todo and joined alone keeps what Building says of     *)
(* them.                                                                    *)
LEMMA SameTodo ==
  ASSUME spec' = spec, todo' = todo, NEW d, NEW k \in Kinds, Building(d, k)
  PROVE  /\ todo' = Left(d)' /\ Tail(todo)' = Left(Advance(d, k))' /\ \A j \in Kinds : d[j] <= Num(j)'
         /\ d[k] < Num(k)' /\ todo' # <<>> /\ Head(todo').kind = k
<1>1. Left(d)' = Left(d) /\ Left(Advance(d, k))' = Left(Advance(d, k)) /\ \A j \in Kinds : Num(j)' = Num(j)
  BY SameSpec DEF Left, Kinds
<1> QED BY <1>1 DEF Building

(* A builder thread works on its own tasks.                                 *)
LEMMA InvBuilder ==
  ASSUME MBInv, IsRegular, NEW b \in Builders, BuilderRun(b)
  PROVE  RegularInv'
<1>1. spec \in ModelSpecs /\ spec' = spec /\ RegularInv /\ stage = "join" /\ stage' = "join"
      /\ UNCHANGED <<unread, todo, joined, ret>> /\ builder[b].state = "running"
  BY DEF MBInv, BuilderRun
<1>2. PICK d \in [Kinds -> 0 .. spec.groups], k \in Kinds : Building(d, k)
  BY <1>1 DEF RegularInv
<1>3. Head(todo).kind = k /\ d[k] < Num(k) /\ d[k] \in Nat /\ \A j \in Kinds : d[j] \in Nat
  BY <1>2 DEF Building
<1> DEFINE g   == d[k] + 1
           ids == LayersOf(k, g)
<1>4. Active(k) /\ ~IsEager /\ Num(k) = spec.groups /\ spec.groups \in Nat \ {0}
  BY <1>1, <1>3, NotEager, Numbers DEF Num
<1>5. g \in 1 .. spec.groups /\ \A j \in Kinds : 1 .. d[j] \subseteq 1 .. spec.groups
  BY <1>3, <1>4
<1>6. net \in [Kinds -> Seq(DeviceLayer)]
      /\ builder \in [Builders -> [tasks : SUBSET Int, state : {"idle", "running", "done", "error"}]]
  BY <1>1 DEF RegularInv
<1>7. EagerPlaced'
  BY <1>1, <1>4, SameSpec DEF EagerPlaced
<1>8. /\ todo' = Left(d)' /\ Tail(todo)' = Left(Advance(d, k))' /\ \A j \in Kinds : d[j] <= Num(j)'
      /\ d[k] < Num(k)' /\ todo' # <<>> /\ Head(todo').kind = k
  BY <1>1, <1>2, SameTodo
<1>9. ASSUME Building(d, k)', net' \in [Kinds -> Seq(DeviceLayer)],
             builder' \in [Builders -> [tasks : SUBSET Int, state : {"idle", "running", "done", "error"}]]
      PROVE  RegularInv'
  <2>1. (\E c \in [Kinds -> 0 .. spec.groups], j \in Kinds : Building(c, j))'
    BY <1>1, <1>9
  <2> QED BY <1>1, <1>7, <1>9, <2>1, SameSpec DEF RegularInv, Serving
<1>10. \A c \in 0 .. joined - 1 : c \in Builders /\ c # b /\ builder[c].state = "done"
  <2>1. \A c \in 0 .. joined - 1 : builder[c].state = "done"
    BY <1>2 DEF Building
  <2>2. joined \in 0 .. BuilderCount - 1
    BY <1>2 DEF Building, Builders
  <2> QED BY <1>1, <2>1, <2>2, BuildingAssumption DEF Builders
<1>11. ASSUME UNCHANGED net,
              \/ builder[b].tasks = {} /\ builder' = [builder EXCEPT ![b].state = "done"]
              \/ builder' = [builder EXCEPT ![b].state = "error"]
       PROVE  RegularInv'
  <2>1. \A c \in Builders : /\ builder'[c].tasks = builder[c].tasks
                            /\ c # b => builder'[c] = builder[c]
                            /\ builder'[c].state = "done" => builder[c].tasks = {}
    <3>1. \A c \in Builders : builder[c].state = "done" => builder[c].tasks = {}
      BY <1>2 DEF Building
    <3> QED BY <1>6, <1>11, <3>1
  <2>2. builder' \in [Builders -> [tasks : SUBSET Int, state : {"idle", "running", "done", "error"}]]
    BY <1>6, <1>11
  <2>3. \A c \in 0 .. joined' - 1 : builder'[c].state = "done"
    BY <1>1, <1>10, <2>1
  <2>4. \A j \in Kinds : /\ Shape(j, Advance(d, k)[j])'
                         /\ \A h \in 1 .. d[j] : /\ Placed(j, h, HasTensors)'
                                                 /\ Strategy' = "BY_LAYER" => Placed(j, h, {"built"})'
    BY <1>1, <1>2, <1>11, SameNet, SameSpec DEF Building
  <2>5. Placed(k, d[k] + 1, HasTensors)'
    BY <1>1, <1>2, <1>11, SameNet DEF Building
  <2>6. \A l \in LayersOf(k, d[k] + 1)' :
          net'[k][Pos(k, l)'].state = "built" \/ Pos(k, l)' \in builder'[l % BuilderCount].tasks
    <3> SUFFICES ASSUME NEW l \in LayersOf(k, d[k] + 1)
                 PROVE  net[k][Pos(k, l)].state = "built" \/ Pos(k, l) \in builder'[l % BuilderCount].tasks
      BY <1>1, <1>11, SameSpec
    <3>1. net[k][Pos(k, l)].state = "built" \/ Pos(k, l) \in builder[l % BuilderCount].tasks
      BY <1>2 DEF Building
    <3>2. l \in Nat
      BY <1>1, <1>4, <1>5, Places
    <3>3. l % BuilderCount \in Builders
      BY <3>2, BuildingAssumption DEF Builders
    <3> QED BY <2>1, <3>1, <3>3
  <2>7. \A c \in Builders : /\ builder'[c].tasks \subseteq {Pos(k, l)' : l \in LayersOf(k, d[k] + 1)'}
                            /\ builder'[c].state = "done" => builder'[c].tasks = {}
    <3>1. \A c \in Builders : builder[c].tasks \subseteq {Pos(k, l) : l \in LayersOf(k, d[k] + 1)}
      BY <1>2 DEF Building
    <3>2. {Pos(k, l)' : l \in LayersOf(k, d[k] + 1)'} = {Pos(k, l) : l \in LayersOf(k, d[k] + 1)}
      BY <1>1, SameSpec
    <3> QED BY <2>1, <3>1, <3>2
  <2>8. joined' \in Builders
    BY <1>1, <1>2 DEF Building
  <2>9. Building(d, k)'
    BY <1>8, <2>3, <2>4, <2>5, <2>6, <2>7, <2>8 DEF Building
  <2> QED BY <1>6, <1>9, <1>11, <2>2, <2>9
<1>12. ASSUME NEW i \in builder[b].tasks, net' = [net EXCEPT ![k][i].state = "built"],
              builder' = [builder EXCEPT ![b].tasks = @ \ {i}]
       PROVE  RegularInv'
  <2>1. PICK l \in ids : i = Pos(k, l)
    BY <1>2, <1>12 DEF Building
  <2>2. Shape(k, g) /\ Placed(k, g, HasTensors)
    BY <1>2 DEF Building, Advance
  <2>3. i \in 1 .. Len(net[k])
    BY <1>1, <1>4, <1>5, <2>1, <2>2, PlaceInShape
  <2>4. PICK st \in HasTensors : net[k][i] = Layer(l, st, g - 1)
    BY <2>1, <2>2 DEF Placed
  <2>5. net[k] \in Seq(DeviceLayer) /\ Len(net[k]) \in Nat
    BY <1>6
  <2> DEFINE y == Layer(l, "built", g - 1)
  <2>6. y \in DeviceLayer /\ [net[k][i] EXCEPT !.state = "built"] = y
    <3>1. l \in Nat
      BY <1>1, <1>4, <1>5, Places
    <3> QED BY <1>5, <2>4, <3>1 DEF Layer, DeviceLayer
  <2> HIDE DEF y
  <2>7. net'[k] = [net[k] EXCEPT ![i] = y] /\ \A j \in Kinds : j # k => net'[j] = net[j]
    BY <1>6, <1>12, <2>6
  <2>8. net'[k] \in Seq(DeviceLayer) /\ Len(net'[k]) = Len(net[k])
    BY <2>3, <2>5, <2>6, <2>7, ExceptSeq
  <2>9. net' \in [Kinds -> Seq(DeviceLayer)]
    <3>1. \A j \in Kinds : net'[j] \in Seq(DeviceLayer)
      BY <1>6, <2>7, <2>8
    <3>2. net' = [j \in Kinds |-> net'[j]]
      BY <1>6, <1>12
    <3> QED BY <3>1, <3>2
  <2>10. \A n \in 1 .. Len(net[k]) : net'[k][n] = IF n = i THEN y ELSE net[k][n]
    BY <2>3, <2>5, <2>6, <2>7, ExceptSeq
  <2>11. \A j \in Kinds : Shape(j, Advance(d, k)[j])'
    <3>1. ASSUME NEW j \in Kinds, j # k PROVE Shape(j, Advance(d, k)[j])'
      BY <1>1, <1>2, <2>7, <3>1, SameNet DEF Building
    <3>2. Advance(d, k)[k] = g
      BY DEF Advance
    <3>3. \A n \in 1 .. Len(net'[k]) : net'[k][n].state = "null" => n + Offset(k) <= spec.cpu[k]
      <4>1. y.state = "built"
        BY DEF y, Layer
      <4>2. \A n \in 1 .. Len(net[k]) : net[k][n].state = "null" => n + Offset(k) <= spec.cpu[k]
        BY <2>2 DEF Shape
      <4> QED BY <2>8, <2>10, <4>1, <4>2
    <3>4. Shape(k, g)'
      BY <1>1, <2>2, <2>8, <3>3, SameSpec DEF Shape
    <3> QED BY <3>1, <3>2, <3>4
  <2>12. \A j \in Kinds : \A h \in 1 .. d[j] : \A S : Placed(j, h, S) => Placed(j, h, S)'
    <3>1. ASSUME NEW j \in Kinds, j # k PROVE \A h \in 1 .. d[j] : \A S : Placed(j, h, S) => Placed(j, h, S)'
      BY <1>1, <2>7, <3>1, SameNet
    <3>2. ASSUME NEW h \in 1 .. d[k], NEW S, Placed(k, h, S) PROVE Placed(k, h, S)'
      <4>1. h \in 1 .. spec.groups /\ h <= g /\ h # g /\ g \in 0 .. spec.groups
        BY <1>3, <1>5
      <4>2. ASSUME NEW m \in LayersOf(k, h) PROVE net'[k][Pos(k, m)] = net[k][Pos(k, m)]
        <5>1. Pos(k, m) \in 1 .. Len(net[k])
          BY <1>1, <1>4, <2>2, <4>1, PlaceInShape
        <5>2. Pos(k, m) # i
          BY <1>1, <1>4, <1>5, <2>1, <4>1, PlacesApart
        <5> QED BY <2>10, <5>1, <5>2
      <4> QED BY <1>1, <3>2, <4>2, SameSpec DEF Placed, Layer
    <3> QED BY <3>1, <3>2
  <2>13. \A m \in ids : Pos(k, m) \in 1 .. Len(net[k]) /\ net'[k][Pos(k, m)] = IF m = l THEN y ELSE net[k][Pos(k, m)]
    <3> SUFFICES ASSUME NEW m \in ids
                 PROVE  Pos(k, m) \in 1 .. Len(net[k]) /\ net'[k][Pos(k, m)] = IF m = l THEN y ELSE net[k][Pos(k, m)]
      OBVIOUS
    <3>1. Pos(k, m) \in 1 .. Len(net[k])
      BY <1>1, <1>4, <1>5, <2>2, PlaceInShape
    <3>2. Pos(k, m) = i => m = l
      BY <1>1, <1>4, <1>5, <2>1, PlacesApart
    <3> QED BY <2>1, <2>10, <3>1, <3>2
  <2>14. Placed(k, g, HasTensors)'
    <3>1. \A m \in ids : net'[k][Pos(k, m)] \in {Layer(m, s, g - 1) : s \in HasTensors}
      BY <2>2, <2>13 DEF Placed, HasTensors, y
    <3> QED BY <1>1, <3>1, SameSpec DEF Placed, Layer
  <2>15. \A c \in Builders : builder'[c].state = builder[c].state
                             /\ builder'[c].tasks = (IF c = b THEN builder[b].tasks \ {i} ELSE builder[c].tasks)
    BY <1>6, <1>12
  <2>16. builder' \in [Builders -> [tasks : SUBSET Int, state : {"idle", "running", "done", "error"}]]
    BY <1>6, <1>12
  <2>17. \A m \in LayersOf(k, d[k] + 1)' :
          net'[k][Pos(k, m)'].state = "built" \/ Pos(k, m)' \in builder'[m % BuilderCount].tasks
    <3> SUFFICES ASSUME NEW m \in ids, m # l
                 PROVE  net'[k][Pos(k, m)].state = "built" \/ Pos(k, m) \in builder'[m % BuilderCount].tasks
      <4>1. y.state = "built"
        BY DEF y, Layer
      <4> QED BY <1>1, <2>13, <4>1, SameSpec
    <3>1. net[k][Pos(k, m)].state = "built" \/ Pos(k, m) \in builder[m % BuilderCount].tasks
      BY <1>2 DEF Building
    <3>2. m \in Nat
      BY <1>1, <1>4, <1>5, Places
    <3>3. m % BuilderCount \in Builders
      BY <3>2, BuildingAssumption DEF Builders
    <3>4. Pos(k, m) # i
      BY <1>1, <1>4, <1>5, <2>1, PlacesApart
    <3> QED BY <2>13, <2>15, <3>1, <3>3, <3>4
  <2>18. \A c \in Builders : /\ builder'[c].tasks \subseteq {Pos(k, m)' : m \in LayersOf(k, d[k] + 1)'}
                             /\ builder'[c].state = "done" => builder'[c].tasks = {}
    <3>1. \A c \in Builders : /\ builder[c].tasks \subseteq {Pos(k, m) : m \in LayersOf(k, d[k] + 1)}
                              /\ builder[c].state = "done" => builder[c].tasks = {}
      BY <1>2 DEF Building
    <3>2. {Pos(k, m)' : m \in LayersOf(k, d[k] + 1)'} = {Pos(k, m) : m \in LayersOf(k, d[k] + 1)}
      BY <1>1, SameSpec
    <3> QED BY <2>15, <3>1, <3>2
  <2>19. joined' \in Builders /\ \A c \in 0 .. joined' - 1 : builder'[c].state = "done"
    <3>1. joined \in Builders
      BY <1>2 DEF Building
    <3> QED BY <1>1, <1>10, <2>15, <3>1
  <2>20. \A j \in Kinds : \A h \in 1 .. d[j] : /\ Placed(j, h, HasTensors)'
                                               /\ Strategy' = "BY_LAYER" => Placed(j, h, {"built"})'
    BY <1>1, <1>2, <2>12, SameSpec DEF Building
  <2>21. Building(d, k)'
    BY <1>8, <2>11, <2>14, <2>17, <2>18, <2>19, <2>20 DEF Building
  <2> QED BY <1>9, <2>9, <2>16, <2>21
<1>13. \/ builder[b].tasks = {} /\ builder' = [builder EXCEPT ![b].state = "done"] /\ UNCHANGED net
       \/ \E i \in builder[b].tasks : /\ net' = [net EXCEPT ![k][i].state = "built"]
                                      /\ builder' = [builder EXCEPT ![b].tasks = @ \ {i}]
       \/ builder' = [builder EXCEPT ![b].state = "error"] /\ UNCHANGED net
  BY <1>3 DEF BuilderRun
<1> QED BY <1>11, <1>12, <1>13

(* The main thread joins a builder thread.  After the last one, without an  *)
(* error, no task is left, so that every layer of the group has its data.   *)
LEMMA InvJoin ==
  ASSUME MBInv, IsRegular, JoinBuilder
  PROVE  RegularInv'
<1>1. spec \in ModelSpecs /\ spec' = spec /\ RegularInv /\ stage = "join"
      /\ UNCHANGED <<unread, net, builder>>
  BY DEF MBInv, JoinBuilder
<1>2. PICK d \in [Kinds -> 0 .. spec.groups], k \in Kinds : Building(d, k)
  BY <1>1 DEF RegularInv
<1>3. d[k] < Num(k) /\ d[k] \in Nat /\ (\A j \in Kinds : d[j] \in Nat /\ d[j] <= Num(j)) /\ joined \in Builders
  BY <1>2 DEF Building
<1>4. Active(k) /\ ~IsEager /\ Num(k) = spec.groups /\ spec.groups \in Nat \ {0}
      /\ (Strategy # "BY_LAYER" => k = "decoder" /\ Num("encoder") = 0)
  BY <1>1, <1>3, NotEager, Numbers DEF Num
<1>5. EagerPlaced'
  BY <1>1, <1>4, SameSpec DEF EagerPlaced
<1>6. \A b \in 0 .. joined - 1 : builder[b].state = "done"
  BY <1>2 DEF Building
<1>7. CASE joined + 1 # BuilderCount /\ builder[joined].state # "error"
  <2>1. joined' = joined + 1 /\ UNCHANGED <<stage, todo, ret>> /\ builder[joined].state = "done"
    BY <1>7 DEF JoinBuilder
  <2>2. /\ todo' = Left(d)' /\ Tail(todo)' = Left(Advance(d, k))' /\ \A j \in Kinds : d[j] <= Num(j)'
        /\ d[k] < Num(k)' /\ todo' # <<>> /\ Head(todo').kind = k
    BY <1>1, <1>2, <2>1, SameTodo
  <2>3. \A j \in Kinds : /\ Shape(j, Advance(d, k)[j])'
                         /\ \A h \in 1 .. d[j] : /\ Placed(j, h, HasTensors)'
                                                 /\ Strategy' = "BY_LAYER" => Placed(j, h, {"built"})'
    BY <1>1, <1>2, SameNet, SameSpec DEF Building
  <2>4. Placed(k, d[k] + 1, HasTensors)'
    BY <1>1, <1>2, SameNet DEF Building
  <2>5. \A l \in LayersOf(k, d[k] + 1)' :
          net'[k][Pos(k, l)'].state = "built" \/ Pos(k, l)' \in builder'[l % BuilderCount].tasks
    BY <1>1, <1>2, SameSpec DEF Building
  <2>6. \A b \in Builders : /\ builder'[b].tasks \subseteq {Pos(k, l)' : l \in LayersOf(k, d[k] + 1)'}
                            /\ builder'[b].state = "done" => builder'[b].tasks = {}
    <3>1. {Pos(k, l)' : l \in LayersOf(k, d[k] + 1)'} = {Pos(k, l) : l \in LayersOf(k, d[k] + 1)}
      BY <1>1, SameSpec
    <3> QED BY <1>1, <1>2, <3>1 DEF Building
  <2>7. joined' \in Builders /\ \A b \in 0 .. joined' - 1 : builder'[b].state = "done"
    <3>1. joined \in 0 .. BuilderCount - 1
      BY <1>3 DEF Builders
    <3>2. joined' \in Builders
      BY <1>7, <2>1, <3>1, BuildingAssumption DEF Builders
    <3>3. \A b \in 0 .. joined' - 1 : b \in 0 .. joined - 1 \/ b = joined
      BY <2>1, <3>1
    <3> QED BY <1>1, <1>6, <2>1, <3>2, <3>3
  <2>8. Building(d, k)'
    BY <2>2, <2>3, <2>4, <2>5, <2>6, <2>7 DEF Building
  <2>9. (\E c \in [Kinds -> 0 .. spec.groups], j \in Kinds : Building(c, j))'
    BY <1>1, <2>8
  <2> QED BY <1>1, <1>5, <2>1, <2>9, SameSpec DEF RegularInv, Serving
<1>8. CASE joined + 1 # BuilderCount /\ builder[joined].state = "error"
  <2>1. stage' = "terminated"
    BY <1>8 DEF JoinBuilder
  <2> QED BY <1>1, <2>1, SameSpec DEF RegularInv, Serving
<1>9. CASE joined + 1 = BuilderCount /\ builder[joined].state = "error" /\ Strategy = "BY_LAYER"
  <2>1. stage' = "failed"
    BY <1>9 DEF JoinBuilder
  <2> QED BY <1>1, <2>1, SameSpec DEF RegularInv, Serving
<1>10. CASE joined + 1 = BuilderCount /\ ~(builder[joined].state = "error" /\ Strategy = "BY_LAYER")
  <2> DEFINE c == Advance(d, k)
  <2>1. stage' = "group" /\ todo' = Tail(todo) /\ ret' = (builder[joined].state # "error")
        /\ (builder[joined].state # "error" => builder[joined].state = "done")
    BY <1>10 DEF JoinBuilder
  <2>2. c \in [Kinds -> 0 .. spec.groups] /\ c[k] = d[k] + 1 /\ \A j \in Kinds : j # k => c[j] = d[j]
    BY <1>2, <1>3, <1>4 DEF Advance
  <2>3. \A j \in Kinds : c[j] <= Num(j)' /\ Shape(j, c[j])'
    <3>1. \A j \in Kinds : c[j] <= Num(j)
      BY <1>3, <1>4, <2>2
    <3>2. \A j \in Kinds : Shape(j, c[j])
      BY <1>2 DEF Building
    <3> QED BY <1>1, <3>1, <3>2, SameSpec, SameNet
  <2>4. builder[joined].state # "error" => Placed(k, d[k] + 1, {"built"})
    <3> SUFFICES ASSUME builder[joined].state = "done", NEW l \in LayersOf(k, d[k] + 1)
                 PROVE  net[k][Pos(k, l)] = Layer(l, "built", d[k] + 1 - 1)
      BY <2>1 DEF Placed
    <3>1. l \in Nat /\ d[k] + 1 \in 1 .. spec.groups
      BY <1>1, <1>3, <1>4, Places
    <3>2. l % BuilderCount \in Builders
      BY <3>1, BuildingAssumption DEF Builders
    <3>3. builder[l % BuilderCount].state = "done"
      <4>1. l % BuilderCount \in 0 .. joined - 1 \/ l % BuilderCount = joined
        BY <1>3, <1>10, <3>2, BuildingAssumption DEF Builders
      <4> QED BY <1>6, <4>1
    <3>4. builder[l % BuilderCount].tasks = {}
      BY <1>2, <3>2, <3>3 DEF Building
    <3>5. net[k][Pos(k, l)].state = "built"
      BY <1>2, <3>4 DEF Building
    <3>6. PICK st \in HasTensors : net[k][Pos(k, l)] = Layer(l, st, d[k] + 1 - 1)
      <4>1. Placed(k, d[k] + 1, HasTensors)
        BY <1>2 DEF Building
      <4> QED BY <4>1 DEF Placed
    <3>7. st = "built"
      BY <3>5, <3>6 DEF Layer
    <3> QED BY <3>6, <3>7
  <2>5. ASSUME NEW j \in Kinds, NEW g \in 1 .. c[j]
        PROVE  /\ Placed(j, g, HasTensors)
               /\ Strategy = "BY_LAYER" \/ (ret' /\ g = c[j]) => Placed(j, g, {"built"})
    <3>1. CASE g \in 1 .. d[j]
      <4>1. Placed(j, g, HasTensors) /\ (Strategy = "BY_LAYER" => Placed(j, g, {"built"}))
        BY <1>2, <3>1 DEF Building
      <4>2. Strategy = "BY_LAYER" \/ g # c[j]
        <5>1. CASE j = k
          BY <1>3, <2>2, <3>1, <5>1
        <5>2. CASE j # k /\ Strategy # "BY_LAYER"
          <6>1. d[j] = 0
            BY <1>3, <1>4, <5>2 DEF Kinds
          <6> QED BY <3>1, <6>1
        <5> QED BY <5>1, <5>2
      <4> QED BY <4>1, <4>2
    <3>2. CASE g \notin 1 .. d[j]
      <4>1. j = k /\ g = d[k] + 1
        <5>1. j = k
          BY <2>2, <3>2
        <5> QED BY <1>3, <2>2, <3>2, <5>1
      <4>2. Placed(j, g, HasTensors)
        BY <1>2, <4>1 DEF Building
      <4> QED BY <1>10, <2>1, <2>4, <4>1, <4>2
    <3> QED BY <3>1, <3>2
  <2>6. ASSUME NEW j \in Kinds, NEW g \in 1 .. c[j]
        PROVE  /\ Placed(j, g, HasTensors)'
               /\ Strategy' = "BY_LAYER" \/ (ret' /\ g = c[j]) => Placed(j, g, {"built"})'
    BY <1>1, <2>5, <2>6, SameNet, SameSpec
  <2>7. todo' = Left(c)'
    <3>1. todo' = Left(c)
      BY <1>2, <2>1 DEF Building
    <3> QED BY <1>1, <3>1, SameSpec DEF Left, Kinds
  <2> HIDE DEF c
  <2>8. Between(c)'
    BY <2>3, <2>6, <2>7 DEF Between
  <2>9. (\E e \in [Kinds -> 0 .. spec.groups] : Between(e))'
    BY <1>1, <2>2, <2>8
  <2> QED BY <1>1, <1>5, <2>1, <2>9, SameSpec DEF RegularInv, Serving
<1> QED BY <1>7, <1>8, <1>9, <1>10

(* CreateGpuWorkers gives every group its part of each kind of layers.      *)
LEMMA WorkersCreated ==
  ASSUME spec \in ModelSpecs, IsRegular, ~IsCpuOnly
  PROVE  CreateGpuWorkers =
           [g \in 1 .. spec.groups |-> [k \in Kinds |->
              IF Active(k) THEN [start |-> Bound(k, g - 1), end |-> Bound(k, g)]
              ELSE [start |-> 0, end |-> 0]]]
<1>1. spec.groups \in Nat \ {0} /\ \A k \in Kinds : spec.cpu[k] \in Nat /\ spec.layers[k] \in Nat
  BY Numbers
<1> DEFINE las(k)  == GetDeviceAssignments(k)
           counts  == {Len(las(k)) : k \in Kinds}
<1>2. ASSUME NEW k \in Kinds
      PROVE  /\ Active(k) => las(k) = [g \in 1 .. spec.groups |-> Part(k, g)] /\ Len(las(k)) = spec.groups
             /\ ~Active(k) => las(k) = <<>> /\ Len(las(k)) = 0
  <2>1. las(k) = IF Active(k) THEN [g \in 1 .. spec.groups |-> Part(k, g)] ELSE <<>>
    BY SplitInOrder
  <2> HIDE DEF las
  <2> QED BY <1>1, <2>1
<1>3. PICK k \in Kinds : Active(k)
  BY <1>1 DEF IsCpuOnly, Active
<1>4. spec.groups \in counts /\ \A n \in counts : n <= spec.groups
  <2> HIDE DEF las
  <2>1. Len(las(k)) = spec.groups
    BY <1>2, <1>3
  <2>2. \A j \in Kinds : Len(las(j)) <= spec.groups
    BY <1>1, <1>2
  <2> QED BY <2>1, <2>2
<1>5. ASSUME NEW j \in Kinds, NEW g \in 1 .. spec.groups
      PROVE  GroupLayerRange(j, g) = IF Active(j) THEN [start |-> Bound(j, g - 1), end |-> Bound(j, g)]
                                     ELSE [start |-> 0, end |-> 0]
  <2>1. CASE Active(j)
    <3>1. las(j)[g] = Part(j, g) /\ g <= Len(las(j)) /\ g # 0
      BY <1>1, <1>2, <2>1
    <3> QED BY <2>1, <3>1 DEF GroupLayerRange, Part
  <2>2. CASE ~Active(j)
    <3>1. Len(las(j)) = 0 /\ ~(g <= Len(las(j)))
      BY <1>1, <1>2, <2>2
    <3> QED BY <2>2, <3>1 DEF GroupLayerRange
  <2> QED BY <2>1, <2>2
<1>6. CreateGpuWorkers = [g \in 1 .. spec.groups |-> [j \in Kinds |-> GroupLayerRange(j, g)]]
  BY <1>4 DEF CreateGpuWorkers
<1> QED BY <1>5, <1>6

(* The network that is checked is complete, and the check finds no null     *)
(* pointer.                                                                 *)
LEMMA InvCheck ==
  ASSUME MBInv, IsRegular, CheckDeviceModel
  PROVE  RegularInv'
<1>1. spec \in ModelSpecs /\ spec' = spec /\ RegularInv /\ stage = "group" /\ todo = <<>>
      /\ UNCHANGED <<unread, net, builder>>
  BY DEF MBInv, CheckDeviceModel
<1>2. PICK d \in [Kinds -> 0 .. spec.groups] : Between(d)
  BY <1>1 DEF RegularInv
<1>3. spec.groups \in Nat \ {0} /\ \A k \in Kinds : spec.cpu[k] \in Nat /\ spec.layers[k] \in Nat
  BY <1>1, Numbers
<1>4. \A k \in Kinds : d[k] = Num(k)
  <2>1. d \in [Kinds -> Nat] /\ \A k \in Kinds : d[k] <= Num(k)
    BY <1>2, <1>3 DEF Between
  <2>2. Left(d) = <<>>
    BY <1>1, <1>2 DEF Between
  <2> QED BY <1>1, <2>1, <2>2, NextGroup
<1>5. \A k \in Kinds : \A i \in DOMAIN net[k] : ~(i > spec.cpu[k] /\ net[k][i].state = "null")
  <2> SUFFICES ASSUME NEW k \in Kinds, NEW i \in DOMAIN net[k], net[k][i].state = "null"
               PROVE  i <= spec.cpu[k] /\ i \in Nat
    BY <1>3
  <2>1. net[k] \in Seq(DeviceLayer)
    BY <1>1 DEF RegularInv
  <2>2. i \in 1 .. Len(net[k]) /\ i \in Nat
    BY <2>1
  <2>3. Shape(k, d[k])
    BY <1>2 DEF Between
  <2>4. i + Offset(k) <= spec.cpu[k]
    BY <2>2, <2>3 DEF Shape
  <2>5. Offset(k) \in Nat
    BY <1>3 DEF Offset
  <2> QED BY <1>3, <2>2, <2>4, <2>5
<1>6. \/ stage' = "failed"
      \/ ret /\ stage' = "cpu" /\ workers' = CreateGpuWorkers
  BY <1>5 DEF CheckDeviceModel
<1>7. CASE stage' = "failed"
  BY <1>1, <1>7, SameSpec DEF RegularInv, Serving
<1>8. CASE ret /\ stage' = "cpu" /\ workers' = CreateGpuWorkers
  <2>1. ~IsCpuOnly /\ unread = {} /\ EagerPlaced
    BY <1>1 DEF RegularInv
  <2>2. ASSUME NEW k \in Kinds, Active(k)
        PROVE  /\ Shape(k, spec.groups)
               /\ \A g \in 1 .. spec.groups :
                    /\ Placed(k, g, HasTensors)
                    /\ IsEager \/ (Strategy = "HYBRID" /\ g < spec.groups) \/ Placed(k, g, {"built"})
    <3>1. CASE k = "decoder" /\ IsEager
      <4>1. d[k] = 0 /\ Shape(k, d[k])
        BY <1>2, <1>4, <3>1 DEF Num, Between
      <4>2. ~IsAppended(k)
        BY <3>1 DEF IsAppended, IsEager
      <4>3. Shape(k, spec.groups)
        BY <2>2, <4>1, <4>2 DEF Shape
      <4>4. \A g \in 1 .. spec.groups : Placed(k, g, HasTensors)
        BY <2>1, <2>2, <3>1 DEF EagerPlaced, Placed
      <4> QED BY <3>1, <4>3, <4>4
    <3>2. CASE ~(k = "decoder" /\ IsEager)
      <4>1. d[k] = spec.groups
        BY <1>4, <2>2, <3>2 DEF Num
      <4>2. /\ Shape(k, spec.groups)
            /\ \A g \in 1 .. spec.groups :
                 /\ Placed(k, g, HasTensors)
                 /\ Strategy = "BY_LAYER" \/ (ret /\ g = spec.groups) => Placed(k, g, {"built"})
        BY <1>2, <4>1 DEF Between
      <4>3. Strategy # "BY_LAYER" /\ Strategy # "HYBRID" => spec.groups = 1
        BY DEF Strategy
      <4>4. ASSUME NEW g \in 1 .. spec.groups, ~(Strategy = "HYBRID" /\ g < spec.groups)
            PROVE  Placed(k, g, {"built"})
        <5>1. Strategy = "BY_LAYER" \/ g = spec.groups
          BY <1>3, <4>3, <4>4
        <5> QED BY <1>8, <4>2, <5>1
      <4> QED BY <4>2, <4>4
    <3> QED BY <3>1, <3>2
  <2>3. NetReady'
    BY <1>1, <2>2, SameSpec, SameNet DEF NetReady
  <2>4. WorkersReady'
    BY <1>1, <1>8, <2>1, WorkersCreated, SameSpec DEF WorkersReady
  <2> QED BY <1>1, <1>8, <2>3, <2>4, SameSpec DEF RegularInv, Serving
<1> QED BY <1>6, <1>7, <1>8

-----------------------------------------------------------------------------
(* Serving.  What only depends on the network, the workers and the CPU's    *)
(* share is kept with them.                                                 *)
LEMMA ReadyKept ==
  ASSUME spec' = spec, UNCHANGED net
  PROVE  /\ NetReady' <=> NetReady
         /\ workers' = workers => (WorkersReady' <=> WorkersReady)
         /\ cpu_end' = cpu_end => (CpuReady' <=> CpuReady)
<1>1. NetReady' <=> NetReady
  BY SameSpec, SameNet DEF NetReady
<1>2. workers' = workers => (WorkersReady' <=> WorkersReady)
  BY SameSpec DEF WorkersReady
<1>3. cpu_end' = cpu_end => (CpuReady' <=> CpuReady)
  BY SameSpec DEF CpuReady
<1> QED BY <1>1, <1>2, <1>3

(* The CPU worker gets the layers before those of the devices.              *)
LEMMA InvCpu ==
  ASSUME MBInv, IsRegular, CreateCpuWorker
  PROVE  RegularInv'
<1>1. spec \in ModelSpecs /\ spec' = spec /\ RegularInv /\ stage = "cpu" /\ cpu_end = 0
      /\ UNCHANGED <<unread, net, builder, workers>>
  BY DEF MBInv, NoCpuWorker, CreateCpuWorker
<1>2. /\ \A k \in Kinds : spec.cpu[k] \in Nat /\ spec.layers[k] \in Nat
      /\ \E k \in Kinds : spec.layers[k] > 0
  BY <1>1, Numbers
<1>3. ~IsCpuOnly => NetReady' /\ WorkersReady'
  BY <1>1, ReadyKept DEF RegularInv
<1>4. stage' = "failed" \/ (stage' = "serving" /\ CpuReady')
  <2>1. CASE ~IsCpuInvolved /\ stage' = "serving" /\ UNCHANGED cpu_end
    <3>1. ~IsCpuOnly /\ \A k \in Kinds : spec.cpu[k] = 0
      BY <1>2, <2>1 DEF IsCpuInvolved
    <3>2. CpuReady
      BY <1>1, <3>1 DEF CpuReady
    <3> QED BY <1>1, <2>1, <3>2, ReadyKept
  <2>2. CASE /\ spec.layers["encoder"] = 0 /\ stage' = "serving"
             /\ cpu_end' = IF spec.cpu["decoder"] < spec.layers["decoder"]
                           THEN spec.cpu["decoder"] ELSE spec.layers["decoder"]
    <3>1. IsCpuOnly <=> spec.cpu["decoder"] >= spec.layers["decoder"]
      BY <1>2, <2>2 DEF IsCpuOnly, Kinds
    <3>2. cpu_end' = IF IsCpuOnly THEN spec.layers["decoder"] ELSE spec.cpu["decoder"]
      BY <1>2, <2>2, <3>1 DEF Kinds
    <3> QED BY <1>1, <2>2, <3>2, SameSpec DEF CpuReady
  <2> QED BY <2>1, <2>2 DEF CreateCpuWorker
<1>5. CASE stage' = "failed"
  BY <1>1, <1>5, SameSpec DEF RegularInv, Serving
<1>6. CASE stage' = "serving" /\ CpuReady'
  BY <1>1, <1>3, <1>6, SameSpec DEF RegularInv, Serving
<1> QED BY <1>4, <1>5, <1>6

(* A trace is continued by the layers that come next.                       *)
LEMMA TraceGrows ==
  ASSUME NEW n \in Nat, NEW m \in Nat
  PROVE  TraceTo(n) \o [i \in 1 .. m |-> n + i - 2] = TraceTo(n + m)
<1> DEFINE a == TraceTo(n)
           b == [i \in 1 .. m |-> n + i - 2]
<1>1. a \in Seq(Int) /\ Len(a) = n /\ \A i \in 1 .. n : a[i] = i - 2
  BY DEF TraceTo
<1>2. b \in Seq(Int) /\ Len(b) = m /\ \A i \in 1 .. m : b[i] = n + i - 2
  OBVIOUS
<1>3. TraceTo(n + m) \in Seq(Int) /\ Len(TraceTo(n + m)) = n + m
      /\ \A i \in 1 .. n + m : TraceTo(n + m)[i] = i - 2
  BY DEF TraceTo
<1> HIDE DEF a, b
<1>4. a \o b \in Seq(Int) /\ Len(a \o b) = n + m
      /\ \A i \in 1 .. n + m : (a \o b)[i] = IF i <= n THEN a[i] ELSE b[i - n]
  BY <1>1, <1>2, ConcatProperties
<1>5. \A i \in 1 .. n + m : (a \o b)[i] = TraceTo(n + m)[i]
  <2> SUFFICES ASSUME NEW i \in 1 .. n + m PROVE (a \o b)[i] = i - 2
    BY <1>3
  <2>1. CASE i <= n
    BY <1>1, <1>4, <2>1
  <2>2. CASE ~(i <= n)
    <3>1. i - n \in 1 .. m /\ n + (i - n) - 2 = i - 2
      BY <2>2
    <3> QED BY <1>2, <1>4, <2>2, <3>1
  <2> QED BY <2>1, <2>2
<1>6. a \o b = TraceTo(n + m)
  BY <1>3, <1>4, <1>5, SeqEqual
<1> QED BY <1>6 DEF a, b

(* The first traces, and one that is continued by the output.               *)
LEMMA TraceEnds ==
  /\ TraceTo(0) = <<>> /\ TraceTo(1) = <<PreLayer>>
  /\ \A n \in Nat : TraceTo(n) \o <<>> = TraceTo(n) /\ TraceTo(n + 1) \o <<n>> = TraceTo(n + 2)
<1>1. TraceTo(0) = <<>> /\ TraceTo(1) = <<PreLayer>>
  BY DEF TraceTo, PreLayer
<1>2. ASSUME NEW n \in Nat PROVE TraceTo(n) \o <<>> = TraceTo(n) /\ TraceTo(n + 1) \o <<n>> = TraceTo(n + 2)
  <2>1. TraceTo(n) \in Seq(Int)
    BY DEF TraceTo
  <2>2. PICK p \in Nat : p = n + 1
    OBVIOUS
  <2>3. TraceTo(p) \o [i \in 1 .. 1 |-> p + i - 2] = TraceTo(p + 1)
    BY <2>2, TraceGrows
  <2>4. [i \in 1 .. 1 |-> p + i - 2] = <<n>> /\ p + 1 = n + 2
    BY <2>2
  <2>5. TraceTo(n) \o <<>> = TraceTo(n)
    BY <2>1, ConcatEmptySeq
  <2>6. TraceTo(n + 1) \o <<n>> = TraceTo(n + 2)
    BY <2>2, <2>3, <2>4, Zenon
  <2> QED BY <2>5, <2>6
<1> QED BY <1>1, <1>2

(* What the CPU worker goes through.                                        *)
LEMMA CpuTrace ==
  ASSUME spec.layers["decoder"] \in Nat, cpu_end \in Nat
  PROVE  CpuInference = TraceTo(IF cpu_end = spec.layers["decoder"] THEN cpu_end + 2 ELSE cpu_end + 1)
<1> DEFINE b == [i \in 1 .. cpu_end |-> i - 1]
<1>1. TraceTo(1) \o [i \in 1 .. cpu_end |-> 1 + i - 2] = TraceTo(1 + cpu_end)
  BY TraceGrows
<1>2. [i \in 1 .. cpu_end |-> 1 + i - 2] = b /\ 1 + cpu_end = cpu_end + 1
  <2>1. \A i \in 1 .. cpu_end : 1 + i - 2 = i - 1
    OBVIOUS
  <2> QED BY <2>1
<1> HIDE DEF b
<1>3. <<PreLayer>> \o b = TraceTo(cpu_end + 1)
  BY <1>1, <1>2, TraceEnds, Zenon
<1>4. CpuInference = TraceTo(cpu_end + 1) \o (IF cpu_end = spec.layers["decoder"] THEN <<spec.layers["decoder"]>> ELSE <<>>)
  BY <1>3 DEF CpuInference, b
<1>5. cpu_end + 1 \in Nat
  OBVIOUS
<1>6. TraceTo(cpu_end + 1) \o <<>> = TraceTo(cpu_end + 1)
  BY <1>5, TraceEnds, Zenon
<1>7. TraceTo(cpu_end + 1) \o <<cpu_end>> = TraceTo(cpu_end + 2)
  BY TraceEnds, Zenon
<1> QED BY <1>4, <1>6, <1>7, Zenon

(* A pass begins with the CPU's layers, if it has some.                     *)
LEMMA InvBegin ==
  ASSUME MBInv, IsRegular, BeginPass
  PROVE  RegularInv'
<1> DEFINE k  == IF stage = "serving" /\ spec.layers["encoder"] > 0 THEN "encoder" ELSE "decoder"
           tr == IF cpu_end > 0 THEN CpuInference ELSE <<>>
<1>1. spec \in ModelSpecs /\ spec' = spec /\ RegularInv /\ stage \in {"serving", "passed"}
      /\ UNCHANGED <<unread, net, builder, workers, cpu_end>>
      /\ stage' = (IF IsCpuOnly THEN "passed" ELSE "pass")
      /\ pass' = [kind |-> k, next |-> 1, trace |-> tr]
      /\ (stage = "passed" => spec.layers["decoder"] > 0)
  BY DEF MBInv, BeginPass
<1>2. /\ spec.groups \in Nat \ {0}
      /\ \A j \in Kinds : spec.cpu[j] \in Nat /\ spec.layers[j] \in Nat
      /\ \E j \in Kinds : spec.layers[j] > 0
  BY <1>1, Numbers
<1>3. unread = {} /\ CpuReady /\ (~IsCpuOnly => NetReady /\ WorkersReady)
  BY <1>1 DEF RegularInv, Serving
<1>4. CpuReady' /\ (~IsCpuOnly => NetReady' /\ WorkersReady')
  BY <1>1, <1>3, ReadyKept
<1>5. k \in Kinds /\ spec.layers[k] > 0 /\ (spec.layers["encoder"] = 0 => k = "decoder")
  BY <1>1, <1>2 DEF Kinds
<1>6. pass'.kind = k /\ pass'.next = 1 /\ pass'.trace = tr
  BY <1>1
<1>7. cpu_end \in Nat /\ spec.layers["decoder"] \in Nat /\ spec.cpu["decoder"] \in Nat
  BY <1>2, <1>3 DEF CpuReady, Kinds
<1>8. CASE IsCpuOnly
  <2>1. k = "decoder" /\ cpu_end = spec.layers["decoder"] /\ cpu_end > 0
    BY <1>3, <1>5, <1>8 DEF CpuReady
  <2>2. tr = TraceTo(cpu_end + 2)
    BY <1>7, <2>1, CpuTrace
  <2>3. pass'.trace = TraceTo(spec.layers[pass'.kind] + 2)
    BY <1>6, <2>1, <2>2
  <2>4. (pass.trace = TraceTo(spec.layers[pass.kind] + 2))'
    BY <1>1, <2>3 DEF TraceTo
  <2> QED BY <1>1, <1>3, <1>4, <1>8, <2>4, SameSpec DEF RegularInv, Serving
<1>9. CASE ~IsCpuOnly
  <2>1. Active(k) /\ Bound(k, 0) = cpu_end
    <3>1. CASE spec.layers["encoder"] = 0 /\ cpu_end = spec.cpu["decoder"]
      <4>1. Active("decoder")
        BY <1>2, <1>9, <3>1 DEF IsCpuOnly, Active, Kinds
      <4> QED BY <1>1, <1>5, <3>1, <4>1, Bounds
    <3>2. CASE cpu_end = 0 /\ \A j \in Kinds : spec.cpu[j] = 0
      <4>1. Active(k)
        BY <1>5, <3>2 DEF Active
      <4> QED BY <1>1, <1>5, <3>2, <4>1, Bounds
    <3> QED BY <1>3, <1>9, <3>1, <3>2 DEF CpuReady
  <2>2. TraceLen(k, 0) = IF cpu_end = 0 THEN 0 ELSE cpu_end + 1
    BY <1>2, <2>1 DEF TraceLen
  <2>3. cpu_end > 0 => cpu_end # spec.layers["decoder"]
    <3>1. cpu_end > 0 => cpu_end = spec.cpu["decoder"] /\ k = "decoder"
      BY <1>3, <1>5, <1>9 DEF CpuReady
    <3> QED BY <1>7, <2>1, <3>1 DEF Active
  <2>4. tr = TraceTo(TraceLen(k, 0))
    <3>1. CASE cpu_end > 0
      BY <1>7, <2>2, <2>3, <3>1, CpuTrace
    <3>2. CASE ~(cpu_end > 0)
      BY <1>7, <2>2, <3>2, TraceEnds
    <3> QED BY <3>1, <3>2
  <2> HIDE DEF k, tr
  <2>6. pass' = [kind |-> k, next |-> 1, trace |-> TraceTo(TraceLen(k, 1 - 1))]
    BY <1>1, <2>4
  <2>7. /\ pass'.kind \in Kinds /\ Active(pass'.kind) /\ pass'.next \in 1 .. spec.groups + 1
        /\ pass' = [ kind |-> pass'.kind, next |-> pass'.next,
                     trace |-> TraceTo(TraceLen(pass'.kind, pass'.next - 1)) ]
    BY <1>2, <1>5, <1>6, <2>1, <2>6
  <2>8. (stage = "pass" => /\ ~IsCpuOnly /\ pass.kind \in Kinds /\ Active(pass.kind)
                           /\ pass.next \in 1 .. spec.groups + 1
                           /\ pass = [ kind |-> pass.kind, next |-> pass.next,
                                       trace |-> TraceTo(TraceLen(pass.kind, pass.next - 1)) ])'
    <3>1. IsCpuOnly' <=> IsCpuOnly
      BY <1>1, SameSpec
    <3>2. Active(pass.kind)'
      BY <1>1, <2>7 DEF Active
    <3>3. TraceTo(TraceLen(pass.kind, pass.next - 1))' = TraceTo(TraceLen(pass'.kind, pass'.next - 1))
      BY <1>1 DEF TraceTo, TraceLen, Bound
    <3> QED BY <1>1, <1>9, <2>7, <3>1, <3>2, <3>3
  <2> QED BY <1>1, <1>3, <1>4, <1>9, <2>8, SameSpec DEF RegularInv, Serving
<1> QED BY <1>8, <1>9

(* In a pass, the next group has its range of the active layers.  Every     *)
(* layer is at its index, since the CPU has no encoder layer if there is an *)
(* encoder.                                                                 *)
LEMMA PassRange ==
  ASSUME MBInv, IsRegular, stage = "pass"
  PROVE  /\ pass.kind \in Kinds /\ Active(pass.kind) /\ Offset(pass.kind) = 0
         /\ Len(workers) = spec.groups /\ pass.next \in 1 .. spec.groups + 1
         /\ pass.next <= spec.groups =>
              workers[pass.next][pass.kind] =
                [start |-> Bound(pass.kind, pass.next - 1), end |-> Bound(pass.kind, pass.next)]
<1>1. spec \in ModelSpecs /\ RegularInv
  BY DEF MBInv
<1>2. ~IsCpuOnly /\ pass.kind \in Kinds /\ Active(pass.kind) /\ pass.next \in 1 .. spec.groups + 1
  BY <1>1 DEF RegularInv
<1>3. WorkersReady /\ CpuReady
  BY <1>1, <1>2 DEF RegularInv, Serving
<1>4. spec.groups \in Nat \ {0} /\ \A k \in Kinds : spec.cpu[k] \in Nat /\ spec.layers[k] \in Nat
  BY <1>1, Numbers
<1>5. Offset(pass.kind) = 0
  <2>1. pass.kind = "encoder" => spec.layers["encoder"] > 0
    BY <1>2, <1>4 DEF Active
  <2> QED BY <1>2, <1>3, <2>1 DEF CpuReady, Offset
<1>6. Len(workers) = spec.groups
  BY <1>3, <1>4 DEF WorkersReady
<1>7. pass.next <= spec.groups => pass.next \in 1 .. spec.groups
  BY <1>2, <1>4
<1> QED BY <1>2, <1>3, <1>5, <1>6, <1>7 DEF WorkersReady

(* A group runs its layers, which continue the trace, unless one of its     *)
(* workers was not initialised.                                             *)
LEMMA InvRun ==
  ASSUME MBInv, IsRegular, RunWorkers
  PROVE  RegularInv'
<1> DEFINE k   == pass.kind
           g   == pass.next
           s   == Bound(k, g - 1)
           e   == Bound(k, g)
           num == spec.layers[k]
           mid == [i \in 1 .. e - s |-> net[k][s + i].of]
<1>1. spec \in ModelSpecs /\ spec' = spec /\ RegularInv /\ stage = "pass" /\ ~IsOver
      /\ UNCHANGED <<unread, net, builder, workers, cpu_end>>
  BY DEF MBInv, RunWorkers
<1>2. /\ k \in Kinds /\ Active(k) /\ Offset(k) = 0 /\ Len(workers) = spec.groups
      /\ g \in 1 .. spec.groups + 1 /\ spec.groups \in Nat \ {0}
  BY <1>1, PassRange, Numbers
<1>3. g \in 1 .. spec.groups
  BY <1>1, <1>2 DEF IsOver
<1>4. workers[g][k] = [start |-> s, end |-> e]
  BY <1>1, <1>3, PassRange
<1>5. s \in Nat /\ e \in Nat /\ s < e /\ e <= num /\ num \in Nat /\ (e = num <=> g = spec.groups)
  <2>1. g - 1 \in 0 .. spec.groups /\ g \in 0 .. spec.groups /\ g - 1 < g /\ spec.groups \in 0 .. spec.groups
        /\ (g # spec.groups => g < spec.groups)
    BY <1>2, <1>3
  <2>2. num \in Nat
    BY <1>1, <1>2, Numbers
  <2>3. /\ s \in Nat /\ e \in Nat /\ e <= num /\ s < e /\ Bound(k, spec.groups) = num
        /\ (g < spec.groups => e < Bound(k, spec.groups))
    BY <1>1, <1>2, <2>1, Bounds
  <2> QED BY <2>1, <2>2, <2>3
<1>6. NetReady /\ CpuReady /\ WorkersReady /\ unread = {} /\ ~IsCpuOnly
      /\ pass = [kind |-> k, next |-> g, trace |-> TraceTo(TraceLen(k, g - 1))]
  BY <1>1 DEF RegularInv, Serving
<1>7. ASSUME NEW l \in s .. e - 1
      PROVE  /\ l + 1 \in 1 .. Len(net[k]) /\ l \in Nat
             /\ \E st \in HasTensors : net[k][l + 1] = Layer(l, st, g - 1)
  <2>1. l \in LayersOf(k, g) /\ Pos(k, l) = l + 1 /\ l \in Nat
    BY <1>2, <1>5 DEF LayersOf, Pos
  <2>2. Shape(k, spec.groups) /\ Placed(k, g, HasTensors)
    BY <1>2, <1>3, <1>6 DEF NetReady
  <2>3. Pos(k, l) \in 1 .. Len(net[k])
    <3>1. spec.groups \in 0 .. spec.groups /\ g <= spec.groups
      BY <1>2, <1>3
    <3> QED BY <1>1, <1>2, <1>3, <2>1, <2>2, <3>1, PlaceInShape
  <2>4. net[k][Pos(k, l)] \in {Layer(l, st, g - 1) : st \in HasTensors}
    BY <2>1, <2>2 DEF Placed
  <2> QED BY <2>1, <2>3, <2>4
<1>8. \A l \in s .. e - 1 : IsUsable(k, l)
  <2> SUFFICES ASSUME NEW l \in s .. e - 1 PROVE IsUsable(k, l)
    OBVIOUS
  <2>1. l < Len(net[k])
    <3>1. net[k] \in Seq(DeviceLayer)
      BY <1>1, <1>2 DEF RegularInv
    <3>2. Len(net[k]) \in Nat
      BY <3>1
    <3> QED BY <1>7, <3>2
  <2>2. net[k][l + 1].state # "null"
    <3>1. \A st \in HasTensors : Layer(l, st, g - 1).state # "null"
      BY DEF Layer, HasTensors
    <3> QED BY <1>7, <3>1
  <2> QED BY <2>1, <2>2 DEF IsUsable
<1>9. mid = [i \in 1 .. e - s |-> (s + 1) + i - 2]
  <2>1. ASSUME NEW i \in 1 .. e - s PROVE net[k][s + i].of = (s + 1) + i - 2
    <3>1. PICK l \in s .. e - 1 : l + 1 = s + i /\ l = (s + 1) + i - 2
      <4>1. s + i - 1 \in s .. e - 1 /\ (s + i - 1) + 1 = s + i /\ s + i - 1 = (s + 1) + i - 2
        BY <1>5
      <4> QED BY <4>1
    <3>2. net[k][l + 1].of = l
      <4>1. \A st \in HasTensors : Layer(l, st, g - 1).of = l
        BY DEF Layer
      <4> QED BY <1>7, <4>1
    <3> QED BY <3>1, <3>2
  <2> QED BY <2>1
<1>17. CASE stage' = "undefined" /\ UNCHANGED pass
  <2>1. workers[g][k].start = s /\ workers[g][k].end = e
    BY <1>4
  <2>2. <<"worker", g>> \in dropped /\ dropped' = dropped
    BY <1>1, <1>8, <1>17, <2>1 DEF RunWorkers
  <2>3. GroupFailed'
    BY <1>17, <2>2 DEF GroupFailed
  <2> QED BY <1>1, <1>6, <1>17, <2>3, SameSpec DEF RegularInv, Serving
<1>18. SUFFICES ASSUME ~(stage' = "undefined" /\ UNCHANGED pass) PROVE RegularInv'
  BY <1>17
<1>10. /\ stage' = "pass"
       /\ pass' = [kind |-> k, next |-> g + 1,
                   trace |-> TraceTo(TraceLen(k, g - 1)) \o (IF s = 0 THEN <<PreLayer>> ELSE <<>>)
                               \o mid \o (IF e >= num THEN <<num>> ELSE <<>>)]
  <2> DEFINE u == pass.trace \o (IF s = 0 THEN <<PreLayer>> ELSE <<>>) \o mid \o (IF e >= num THEN <<num>> ELSE <<>>)
  <2>1. workers[g][k].start = s /\ workers[g][k].end = e
    BY <1>4
  <2>2. stage' = stage /\ pass' = [pass EXCEPT !.next = @ + 1, !.trace = u]
    BY <1>18, <2>1 DEF RunWorkers
  <2>3. pass.trace = TraceTo(TraceLen(k, g - 1))
    BY <1>6
  <2> HIDE DEF s, e, num, mid, u
  <2>4. pass' = [kind |-> k, next |-> g + 1, trace |-> u]
    BY <1>6, <2>2
  <2> QED BY <1>1, <2>2, <2>3, <2>4 DEF u
<1> HIDE DEF s, e, num, mid
<1>11. TraceTo(TraceLen(k, g - 1)) \o (IF s = 0 THEN <<PreLayer>> ELSE <<>>) = TraceTo(s + 1)
  <2>1. TraceLen(k, g - 1) = IF s = 0 THEN 0 ELSE s + 1
    <3>1. g - 1 # spec.groups
      BY <1>2, <1>3
    <3> QED BY <3>1 DEF TraceLen, s
  <2>2. CASE s = 0
    <3>1. <<>> \o <<PreLayer>> = <<PreLayer>> /\ s + 1 = 1
      BY <2>2
    <3> QED BY <2>1, <2>2, <3>1, TraceEnds
  <2>3. CASE s # 0
    <3>1. s + 1 \in Nat
      BY <1>5
    <3>2. TraceTo(s + 1) \o <<>> = TraceTo(s + 1)
      BY <3>1, TraceEnds, Zenon
    <3> QED BY <2>1, <2>3, <3>2, Zenon
  <2> QED BY <2>2, <2>3
<1>12. TraceTo(s + 1) \o mid = TraceTo(e + 1)
  <2>1. PICK p \in Nat, m \in Nat : p = s + 1 /\ m = e - s
    BY <1>5
  <2>2. TraceTo(p) \o [i \in 1 .. m |-> p + i - 2] = TraceTo(p + m)
    BY TraceGrows
  <2>3. mid = [i \in 1 .. m |-> p + i - 2]
    BY <1>9, <2>1, Zenon
  <2>4. p + m = e + 1
    BY <1>5, <2>1
  <2> QED BY <2>1, <2>2, <2>3, <2>4, Zenon
<1>13. TraceTo(e + 1) \o (IF e >= num THEN <<num>> ELSE <<>>) = TraceTo(TraceLen(k, g))
  <2>1. CASE e >= num
    <3>1. e = num /\ g = spec.groups
      BY <1>5, <2>1
    <3>2. TraceLen(k, g) = e + 2
      BY <3>1 DEF TraceLen, num
    <3>3. TraceTo(e + 1) \o <<e>> = TraceTo(e + 2)
      BY <1>5, TraceEnds, Zenon
    <3> QED BY <2>1, <3>1, <3>2, <3>3
  <2>2. CASE ~(e >= num)
    <3>1. g # spec.groups /\ e # 0
      BY <1>5, <2>2
    <3>2. TraceLen(k, g) = e + 1
      BY <3>1 DEF TraceLen, e
    <3>3. e + 1 \in Nat
      BY <1>5
    <3>4. TraceTo(e + 1) \o <<>> = TraceTo(e + 1)
      BY <3>3, TraceEnds, Zenon
    <3> QED BY <2>2, <3>2, <3>4
  <2> QED BY <2>1, <2>2
<1>14. pass' = [kind |-> k, next |-> g + 1, trace |-> TraceTo(TraceLen(k, g))]
  BY <1>10, <1>11, <1>12, <1>13
<1>15. (stage = "pass" => /\ ~IsCpuOnly /\ pass.kind \in Kinds /\ Active(pass.kind)
                          /\ pass.next \in 1 .. spec.groups + 1
                          /\ pass = [ kind |-> pass.kind, next |-> pass.next,
                                      trace |-> TraceTo(TraceLen(pass.kind, pass.next - 1)) ])'
  <2>1. pass'.kind = k /\ pass'.next = g + 1 /\ g + 1 \in 1 .. spec.groups + 1 /\ (g + 1) - 1 = g
    BY <1>2, <1>3, <1>14
  <2>2. Active(pass.kind)'
    BY <1>1, <1>2, <2>1 DEF Active
  <2>3. TraceTo(TraceLen(pass.kind, pass.next - 1))' = TraceTo(TraceLen(pass'.kind, pass'.next - 1))
    BY <1>1 DEF TraceTo, TraceLen, Bound
  <2>4. TraceTo(TraceLen(pass'.kind, pass'.next - 1)) = TraceTo(TraceLen(k, g))
    BY <2>1
  <2>5. IsCpuOnly' <=> IsCpuOnly
    BY <1>1, SameSpec
  <2>6. pass' = [kind |-> pass'.kind, next |-> pass'.next, trace |-> TraceTo(TraceLen(pass.kind, pass.next - 1))']
    BY <1>14, <2>1, <2>3, <2>4
  <2> QED BY <1>1, <1>2, <1>6, <2>1, <2>2, <2>5, <2>6
<1>16. CpuReady' /\ NetReady' /\ WorkersReady'
  BY <1>1, <1>6, ReadyKept
<1> QED BY <1>1, <1>6, <1>10, <1>15, <1>16, SameSpec, SMTT(30) DEF RegularInv, Serving

(* A layer that fails is an error of its group.                             *)
LEMMA InvLayerFails ==
  ASSUME MBInv, IsRegular, LayerFails
  PROVE  RegularInv'
<1>1. /\ spec' = spec /\ RegularInv /\ stage = "pass" /\ stage' \in {"undefined", "hung", "stale"}
      /\ dropped' = dropped \cup {<<"layer", pass.next>>} /\ UNCHANGED <<unread, net, builder, pass>>
  BY DEF MBInv, LayerFails
<1>2. GroupFailed'
  BY <1>1 DEF GroupFailed
<1> QED BY <1>1, <1>2, SameSpec DEF RegularInv, Serving

(* A pass ends after all groups.                                            *)
LEMMA InvEnd ==
  ASSUME MBInv, IsRegular, EndPass
  PROVE  RegularInv'
<1>1. spec \in ModelSpecs /\ spec' = spec /\ RegularInv /\ stage = "pass" /\ IsOver
      /\ UNCHANGED <<unread, net, builder, workers, cpu_end, pass>>
  BY DEF MBInv, EndPass
<1>2. /\ pass.kind \in Kinds /\ Active(pass.kind) /\ Len(workers) = spec.groups
      /\ pass.next \in 1 .. spec.groups + 1 /\ spec.groups \in Nat \ {0}
      /\ pass.next <= spec.groups => workers[pass.next][pass.kind].start = Bound(pass.kind, pass.next - 1)
  BY <1>1, PassRange, Numbers
<1>3. pass.next = spec.groups + 1
  <2> SUFFICES ASSUME pass.next <= spec.groups PROVE FALSE
    BY <1>2
  <2>1. Bound(pass.kind, pass.next - 1) >= spec.layers[pass.kind]
    BY <1>1, <1>2 DEF IsOver
  <2>2. pass.next - 1 \in 0 .. spec.groups /\ spec.groups \in 0 .. spec.groups /\ pass.next - 1 < spec.groups
    BY <1>2
  <2>3. /\ Bound(pass.kind, pass.next - 1) < Bound(pass.kind, spec.groups)
        /\ Bound(pass.kind, spec.groups) = spec.layers[pass.kind]
        /\ Bound(pass.kind, pass.next - 1) \in Nat
    BY <1>1, <1>2, <2>2, Bounds
  <2>4. spec.layers[pass.kind] \in Nat
    BY <1>1, <1>2, Numbers
  <2> QED BY <2>1, <2>3, <2>4
<1>4. stage' = "passed"
  BY <1>2, <1>3 DEF EndPass
<1>5. pass.trace = TraceTo(spec.layers[pass.kind] + 2)
  <2>1. pass = [ kind |-> pass.kind, next |-> pass.next,
                 trace |-> TraceTo(TraceLen(pass.kind, pass.next - 1)) ]
    BY <1>1 DEF RegularInv
  <2>2. pass.trace = TraceTo(TraceLen(pass.kind, pass.next - 1))
    BY <2>1
  <2>3. pass.next - 1 = spec.groups
    BY <1>2, <1>3
  <2>4. TraceLen(pass.kind, spec.groups) = spec.layers[pass.kind] + 2
    BY DEF TraceLen
  <2> QED BY <2>2, <2>3, <2>4
<1>6. (pass.trace = TraceTo(spec.layers[pass.kind] + 2))'
  BY <1>1, <1>5 DEF TraceTo
<1>7. ~IsCpuOnly /\ unread = {} /\ NetReady /\ WorkersReady /\ CpuReady
  BY <1>1 DEF RegularInv, Serving
<1>8. NetReady' /\ WorkersReady' /\ CpuReady'
  BY <1>1, <1>7, ReadyKept
<1> QED BY <1>1, <1>4, <1>6, <1>7, <1>8, SameSpec DEF RegularInv, Serving

-----------------------------------------------------------------------------
(* Before Init comes to the CPU worker nothing sets its share.              *)
LEMMA InvNoCpuWorker ==
  ASSUME MBInv, MBStep
  PROVE  NoCpuWorker'
<1>1. NoCpuWorker
  BY DEF MBInv
<1>2. CASE InitNetworkStructure \/ (\E l \in unread : ReadLayer(l)) \/ LoadFails \/ HostModel
  BY <1>1, <1>2 DEF NoCpuWorker, InitNetworkStructure, ReadLayer, LoadFails, HostModel
<1>3. CASE BuildDeviceNetwork \/ NotPartitionable \/ BuildDeviceTensor_ForceDequant \/ StartBuilders
  BY <1>1, <1>3 DEF NoCpuWorker, BuildDeviceNetwork, NotPartitionable, BuildDeviceTensor_ForceDequant,
     StartBuilders
<1>4. CASE (\E b \in Builders : BuilderRun(b)) \/ JoinBuilder
  BY <1>1, <1>4 DEF NoCpuWorker, BuilderRun, JoinBuilder
<1>5. CASE CheckDeviceModel
  BY <1>1, <1>5 DEF NoCpuWorker, CheckDeviceModel
<1>6. CASE CreateCpuWorker
  BY <1>6, SMTT(30) DEF NoCpuWorker, CreateCpuWorker
<1>7. CASE BeginPass
  BY <1>7, SMTT(30) DEF NoCpuWorker, BeginPass
<1>8. CASE RunWorkers
  BY <1>8 DEF NoCpuWorker, RunWorkers
<1>9. CASE LayerFails \/ EndPass
  BY <1>9 DEF NoCpuWorker, LayerFails, EndPass
<1> QED BY <1>2, <1>3, <1>4, <1>5, <1>6, <1>7, <1>8, <1>9 DEF MBStep

(* Every step keeps the inductive invariant.                                *)
LEMMA InvNext ==
  ASSUME MBInv, [MBNext]_mbVars
  PROVE  MBInv'
<1>1. spec' = spec /\ (spec \in ModelSpecs)'
  <2>1. spec' = spec /\ spec \in ModelSpecs
    BY SpecIsKept DEF MBInv
  <2> QED BY <2>1 DEF ModelSpecs
<1>2. CASE MBStep
  <2>1. NoCpuWorker'
    BY <1>2, InvNoCpuWorker
  <2>2. ASSUME IsRegular PROVE RegularInv'
    <3>1. CASE InitNetworkStructure
      BY <2>2, <3>1, InvStructure
    <3>2. CASE \E l \in unread : ReadLayer(l)
      BY <2>2, <3>2, InvRead
    <3>3. CASE LoadFails \/ HostModel \/ NotPartitionable \/ BuildDeviceTensor_ForceDequant
      BY <2>2, <3>3, InvHost
    <3>4. CASE BuildDeviceNetwork
      BY <2>2, <3>4, InvBuild
    <3>5. CASE StartBuilders
      BY <2>2, <3>5, InvStart
    <3>6. CASE \E b \in Builders : BuilderRun(b)
      BY <2>2, <3>6, InvBuilder
    <3>7. CASE JoinBuilder
      BY <2>2, <3>7, InvJoin
    <3>8. CASE CheckDeviceModel
      BY <2>2, <3>8, InvCheck
    <3>9. CASE CreateCpuWorker
      BY <2>2, <3>9, InvCpu
    <3>10. CASE BeginPass
      BY <2>2, <3>10, InvBegin
    <3>11. CASE RunWorkers
      BY <2>2, <3>11, InvRun
    <3>12. CASE EndPass
      BY <2>2, <3>12, InvEnd
    <3>13. CASE LayerFails
      BY <2>2, <3>13, InvLayerFails
    <3> QED BY <1>2, <3>1, <3>2, <3>3, <3>4, <3>5, <3>6, <3>7, <3>8, <3>9, <3>10, <3>11, <3>12, <3>13 DEF MBStep
  <2> QED BY <1>1, <2>1, <2>2, SameSpec DEF MBInv
<1>3. CASE UNCHANGED mbVars
  <2>1. /\ UNCHANGED <<spec, stage, unread, net>> /\ UNCHANGED <<todo, builder, joined, ret>>
        /\ UNCHANGED <<workers, cpu_end, pass, dropped>>
    BY <1>3 DEF mbVars
  <2>2. NoCpuWorker'
    BY <2>1 DEF MBInv, NoCpuWorker
  <2>3. ASSUME IsRegular PROVE RegularInv'
    <3>1. RegularInv
      BY <2>3 DEF MBInv
    <3>2. EagerPlaced' <=> EagerPlaced
      BY <2>1, SameSpec DEF EagerPlaced, Kinds, Layer
    <3>3. Fresh' <=> Fresh
      BY <2>1, <3>2, SameNet DEF Fresh
    <3>4. \A d : Left(d)' = Left(d)
      BY <2>1, SameSpec DEF Left, Kinds
    <3>5. \A d : Between(d)' <=> Between(d)
      BY <2>1, <3>4, SameSpec, SameNet DEF Between
    <3>6. \A d : \A k \in Kinds : Building(d, k) => Building(d, k)'
      <4> SUFFICES ASSUME NEW d, NEW k \in Kinds, Building(d, k) PROVE Building(d, k)'
        OBVIOUS
      <4>1. /\ todo' = Left(d)' /\ Tail(todo)' = Left(Advance(d, k))' /\ \A j \in Kinds : d[j] <= Num(j)'
            /\ d[k] < Num(k)' /\ todo' # <<>> /\ Head(todo').kind = k
        BY <2>1, SameTodo
      <4>2. \A j \in Kinds : /\ Shape(j, Advance(d, k)[j])'
                             /\ \A h \in 1 .. d[j] : /\ Placed(j, h, HasTensors)'
                                                     /\ Strategy' = "BY_LAYER" => Placed(j, h, {"built"})'
        BY <2>1, SameNet, SameSpec DEF Building
      <4>3. Placed(k, d[k] + 1, HasTensors)'
        BY <2>1, SameNet DEF Building
      <4>4. \A l \in LayersOf(k, d[k] + 1)' :
              net'[k][Pos(k, l)'].state = "built" \/ Pos(k, l)' \in builder'[l % BuilderCount].tasks
        BY <2>1, SameSpec DEF Building
      <4>5. \A b \in Builders : /\ builder'[b].tasks \subseteq {Pos(k, l)' : l \in LayersOf(k, d[k] + 1)'}
                                /\ builder'[b].state = "done" => builder'[b].tasks = {}
        <5>1. {Pos(k, l)' : l \in LayersOf(k, d[k] + 1)'} = {Pos(k, l) : l \in LayersOf(k, d[k] + 1)}
          BY <2>1, SameSpec
        <5> QED BY <2>1, <5>1 DEF Building
      <4>6. joined' \in Builders /\ \A b \in 0 .. joined' - 1 : builder'[b].state = "done"
        BY <2>1 DEF Building
      <4> QED BY <4>1, <4>2, <4>3, <4>4, <4>5, <4>6 DEF Building
    <3>7. stage = "join" => (\E d \in [Kinds -> 0 .. spec.groups], k \in Kinds : Building(d, k))'
      BY <2>1, <3>1, <3>6 DEF RegularInv
    <3>8. stage = "group" => (\E d \in [Kinds -> 0 .. spec.groups] : Between(d))'
      BY <2>1, <3>1, <3>5 DEF RegularInv
    <3>9. (NetReady' <=> NetReady) /\ (WorkersReady' <=> WorkersReady) /\ (CpuReady' <=> CpuReady)
      BY <2>1, ReadyKept
    <3>10. stage = "pass" =>
             (/\ ~IsCpuOnly /\ pass.kind \in Kinds /\ Active(pass.kind)
              /\ pass.next \in 1 .. spec.groups + 1
              /\ pass = [ kind |-> pass.kind, next |-> pass.next,
                          trace |-> TraceTo(TraceLen(pass.kind, pass.next - 1)) ])'
      <4>1. TraceTo(TraceLen(pass.kind, pass.next - 1))' = TraceTo(TraceLen(pass.kind, pass.next - 1))
        BY <2>1 DEF TraceTo, TraceLen, Bound
      <4>2. Active(pass.kind)' <=> Active(pass.kind)
        BY <2>1 DEF Active
      <4> QED BY <2>1, <3>1, <4>1, <4>2, SameSpec DEF RegularInv
    <3>11. stage = "passed" => (pass.trace = TraceTo(spec.layers[pass.kind] + 2))'
      BY <2>1, <3>1 DEF RegularInv, TraceTo
    <3>12. GroupFailed' <=> GroupFailed
      BY <2>1 DEF GroupFailed
    <3> QED BY <2>1, <3>1, <3>2, <3>3, <3>7, <3>8, <3>9, <3>10, <3>11, <3>12, SameSpec DEF RegularInv, Serving
  <2> QED BY <1>1, <2>2, <2>3, SameSpec DEF MBInv
<1> QED BY <1>2, <1>3 DEF MBNext

(* The inductive invariant holds in every state.                            *)
THEOREM MBInvariant == MBSpec => []MBInv
<1>1. MBInit => MBInv
  BY InvInit
<1>2. MBInv /\ [MBNext]_mbVars => MBInv'
  BY InvNext
<1> QED BY <1>1, <1>2, PTL DEF MBSpec

(* However many layers, CPU layers and device groups a regular network has, *)
(* and wherever an error occurs, neither the readers, nor the builders, nor *)
(* the check of the device model, nor the workers use an index outside a    *)
(* vector or a null pointer, wait in vain or leave a stale output, but for  *)
(* a group with a worker whose Init failed or with a layer that failed.     *)
THEOREM NothingIsOutOfRange == MBSpec => []NothingOutOfRange
<1>1. MBInv => NothingOutOfRange
  BY DEF MBInv, RegularInv, NothingOutOfRange, Broken
<1> QED BY <1>1, MBInvariant, PTL

(* A served network gives every worker its layers with data, on its own     *)
(* devices, but for the errors whose results the code drops.                *)
THEOREM ServedLayersAreBuilt == MBSpec => []ServedLayersBuilt
<1>1. MBInv => ServedLayersBuilt
  <2> SUFFICES ASSUME MBInv, Serving, IsRegular, ~IsCpuOnly
               PROVE  /\ Len(workers) = spec.groups
                      /\ \A g \in 1 .. spec.groups, k \in Kinds :
                           \A l \in workers[g][k].start .. workers[g][k].end - 1 :
                             /\ net[k][l + 1].of = l /\ net[k][l + 1].group = g - 1
                             /\ \/ net[k][l + 1].state = "built"
                                \/ IsEager
                                \/ Strategy = "HYBRID" /\ g < spec.groups
    BY DEF ServedLayersBuilt
  <2>1. spec \in ModelSpecs /\ NetReady /\ WorkersReady /\ CpuReady
    BY DEF MBInv, RegularInv, Serving
  <2>2. spec.groups \in Nat \ {0} /\ \A k \in Kinds : spec.cpu[k] \in Nat /\ spec.layers[k] \in Nat
    BY <2>1, Numbers
  <2>3. Len(workers) = spec.groups
    BY <2>1, <2>2 DEF WorkersReady
  <2>4. ASSUME NEW g \in 1 .. spec.groups, NEW k \in Kinds,
               NEW l \in workers[g][k].start .. workers[g][k].end - 1
        PROVE  /\ net[k][l + 1].of = l /\ net[k][l + 1].group = g - 1
               /\ \/ net[k][l + 1].state = "built"
                  \/ IsEager
                  \/ Strategy = "HYBRID" /\ g < spec.groups
    <3>1. workers[g][k] = IF Active(k) THEN [start |-> Bound(k, g - 1), end |-> Bound(k, g)]
                          ELSE [start |-> 0, end |-> 0]
      BY <2>1 DEF WorkersReady
    <3>2. Active(k)
      BY <2>4, <3>1
    <3>3. l \in LayersOf(k, g)
      BY <2>4, <3>1, <3>2 DEF LayersOf
    <3>4. Offset(k) = 0
      <4>1. k = "encoder" => spec.layers["encoder"] > 0
        BY <2>2, <3>2 DEF Active
      <4> QED BY <2>1, <4>1 DEF CpuReady, Offset
    <3>5. Pos(k, l) = l + 1
      BY <2>1, <3>2, <3>3, <3>4, Places DEF Pos
    <3>6. /\ Placed(k, g, HasTensors)
          /\ IsEager \/ (Strategy = "HYBRID" /\ g < spec.groups) \/ Placed(k, g, {"built"})
      BY <2>1, <3>2 DEF NetReady
    <3>7. PICK st \in HasTensors : net[k][l + 1] = Layer(l, st, g - 1)
      BY <3>3, <3>5, <3>6 DEF Placed
    <3>8. Placed(k, g, {"built"}) => net[k][l + 1] = Layer(l, "built", g - 1)
      BY <3>3, <3>5 DEF Placed
    <3>9. \A s : Layer(l, s, g - 1).of = l /\ Layer(l, s, g - 1).group = g - 1 /\ Layer(l, s, g - 1).state = s
      BY DEF Layer
    <3> QED BY <3>6, <3>7, <3>8, <3>9
  <2> QED BY <2>3, <2>4
<1> QED BY <1>1, MBInvariant, PTL

(* A pass goes through the input transformation, every layer once and in    *)
(* order, and the output transformation, however the layers are divided     *)
(* between the CPU and the groups.                                          *)
THEOREM WholeModelAlwaysRuns == MBSpec => []WholeModelRuns
<1>1. MBInv => WholeModelRuns
  BY DEF MBInv, RegularInv, WholeModelRuns, TraceTo
<1> QED BY <1>1, MBInvariant, PTL

-----------------------------------------------------------------------------
(* The type invariant, for irregular networks too.  Their assignments have  *)
(* no closed form; the invariant counts them.  It says how long the vectors *)
(* of device layers are: after an assignment's layers are appended, there   *)
(* is room for those of the assignments still to be built.                  *)
Room == MaxGroups * MaxLayers + MaxCpuLayers

Entries(k) ==
  [ of : -1 .. spec.layers[k] - 1, group : -1 .. spec.groups - 1,
    state : {"null", "empty", "hollow", "built"} ]

Items(k) ==
  {[kind |-> k, la |-> a] : a \in Assignments(spec.cpu[k], spec.layers[k], spec.groups)}

(* A vector of some length can take the layers of n more assignments, if    *)
(* they are appended to it.                                                 *)
Takes(length, appended, n) == length + (IF appended THEN n * MaxLayers ELSE 0) <= Room

CanTake(k, n) == Takes(Len(net[k]), IsAppended(k), n)

(* It can take those of the assignments in t, of which the first m are the  *)
(* decoder's.                                                               *)
RoomFor(t, m) ==
  /\ \A i \in 1 .. m : t[i] \in Items("decoder")
  /\ \A i \in m + 1 .. Len(t) : t[i] \in Items("encoder")
  /\ CanTake("decoder", m) /\ CanTake("encoder", Len(t) - m)

HasRoom(t) == \E m \in 0 .. Len(t) : RoomFor(t, m)

VectorsOK ==
  /\ stage = "init" => \A k \in Kinds : Len(net[k]) = 0
  /\ stage \in {"read", "device"} => \A k \in Kinds : CanTake(k, Len(GetDeviceAssignments(k)))
  /\ stage = "group" => HasRoom(todo)
  /\ stage = "join" => todo # <<>> /\ HasRoom(Tail(todo))
  /\ \A k \in Kinds : CanTake(k, 0)

Stages == {"init", "read", "device", "group", "join", "cpu", "serving", "pass",
           "passed", "failed", "exited", "terminated", "undefined", "hung", "stale"}

Typed ==
  /\ spec \in ModelSpecs /\ stage \in Stages
  /\ unread \subseteq 0 .. spec.layers["decoder"] - 1
  /\ net = [k \in Kinds |-> net[k]] /\ \A k \in Kinds : net[k] \in Seq(Entries(k))
  /\ todo \in Seq(Items("decoder") \cup Items("encoder"))
  /\ builder \in [Builders -> [tasks : SUBSET Int, state : {"idle", "running", "done", "error"}]]
  /\ joined \in Builders /\ ret \in BOOLEAN
  /\ Len(workers) \in {0, spec.groups}
  /\ cpu_end \in 0 .. spec.layers["decoder"]
  /\ pass = [kind |-> pass.kind, next |-> pass.next, trace |-> pass.trace]
  /\ pass.kind \in Kinds /\ pass.next \in 1 .. spec.groups + 1
  /\ dropped \subseteq {"worker", "layer"} \X (1 .. spec.groups)

(* The inductive invariant.                                                 *)
MBTypeInv == Typed /\ VectorsOK

(* The members of S counted by numbers less than that of a.                 *)
Below(S, f, a) == {b \in S : f[b] < f[a]}

(* The members of a set that are counted by numbers below n, each by a      *)
(* number of its own, can be listed in the order of these numbers.          *)
LEMMA Ranks ==
  ASSUME NEW S, NEW n \in Nat, NEW f \in [S -> 0 .. n - 1],
         \A x, y \in S : f[x] = f[y] => x = y
  PROVE  /\ IsFiniteSet(S) /\ Cardinality(S) \in Nat /\ Cardinality(S) <= n
         /\ \A i \in 1 .. Cardinality(S) :
              \E a \in S : Cardinality(Below(S, f, a)) = i - 1
<1> DEFINE C(m) == {b \in S : f[b] < m}
<1>1. IsFiniteSet(0 .. n - 1) /\ Cardinality(0 .. n - 1) = n
  <2>1. 0 \in Int /\ n - 1 \in Int /\ (0 > n - 1 <=> n = 0) /\ (n - 1) - 0 + 1 = n
    OBVIOUS
  <2> QED BY <2>1, FS_Interval
<1>2. f \in Injection(S, 0 .. n - 1)
  BY DEF Injection, IsInjective
<1>3. IsFiniteSet(S) /\ Cardinality(S) <= n
  BY <1>1, <1>2, FS_Injection
<1>4. Cardinality(S) \in Nat
  BY <1>3, FS_CardinalityType
<1>5. ASSUME NEW i \in 1 .. Cardinality(S)
      PROVE  \E a \in S : Cardinality(Below(S, f, a)) = i - 1
  <2> DEFINE T == {m \in Nat : Cardinality(C(m)) >= i}
  <2>1. \A m : C(m) \in SUBSET S
    OBVIOUS
  <2>2. \A m : IsFiniteSet(C(m)) /\ Cardinality(C(m)) \in Nat
    <3> SUFFICES ASSUME NEW m PROVE IsFiniteSet(C(m)) /\ Cardinality(C(m)) \in Nat
      OBVIOUS
    <3> HIDE DEF C
    <3>1. IsFiniteSet(C(m))
      BY <1>3, <2>1, FS_Subset
    <3> QED BY <3>1, FS_CardinalityType
  <2>3. C(n) = S /\ C(0) = {}
    OBVIOUS
  <2>4. n \in T /\ T \subseteq Nat
    <3> HIDE DEF C
    <3>1. Cardinality(C(n)) >= i
      BY <1>4, <2>3
    <3> QED BY <3>1
  <2>5. PICK m \in T : \A y \in T : m <= y
    BY <2>4, LeastNumber
  <2>6. m \in Nat /\ Cardinality(C(m)) >= i
    BY <2>5
  <2>7. m # 0
    <3>1. Cardinality(C(0)) = 0
      BY <2>3, FS_EmptySet
    <3> HIDE DEF C
    <3> QED BY <2>6, <3>1
  <2>8. m - 1 \in Nat /\ ~(m <= m - 1)
    BY <2>6, <2>7
  <2>9. m - 1 \notin T
    BY <2>5, <2>8
  <2>10. ~(Cardinality(C(m - 1)) >= i)
    BY <2>8, <2>9
  <2>11. \A b \in S : f[b] < m <=> f[b] < m - 1 \/ f[b] = m - 1
    BY <2>6
  <2>12. C(m) # C(m - 1)
    <3> HIDE DEF C
    <3> QED BY <2>6, <2>10
  <2>13. PICK b \in S : f[b] = m - 1
    BY <2>11, <2>12
  <2>14. C(m) = C(m - 1) \cup {b} /\ b \notin C(m - 1)
    BY <2>8, <2>11, <2>13
  <2>15. Cardinality(C(m)) = Cardinality(C(m - 1)) + 1
    <3> HIDE DEF C
    <3> QED BY <2>2, <2>14, FS_AddElement
  <2>16. Cardinality(C(f[b])) = i - 1
    <3> HIDE DEF C
    <3> QED BY <2>2, <2>6, <2>10, <2>13, <2>15
  <2> QED BY <2>16 DEF Below
<1> QED BY <1>3, <1>4, <1>5

(* What SplitGpuLayers gives any group: at most all layers.                 *)
LEMMA AnyRange ==
  ASSUME NEW s \in Nat, NEW e \in Nat, NEW n \in Nat \ {0}, s < e
  PROVE  /\ LayersPerGroup(s, e, n) \in Nat /\ LayersPerGroup(s, e, n) <= e
         /\ \A g \in 0 .. n - 1 :
              LET la == GroupRange(s, e, n, g)
              IN  /\ la = [group |-> la.group, start |-> la.start, end |-> la.end]
                  /\ la.group = g /\ la.start = s + g * LayersPerGroup(s, e, n)
                  /\ la.start \in Nat /\ la.end \in Int /\ la.end - la.start <= e
<1> DEFINE x == e - s + n - 1
           p == LayersPerGroup(s, e, n)
<1>1. x \in Nat /\ x >= n
  OBVIOUS
<1>2. p = x \div n
  BY <1>1 DEF LayersPerGroup, Quotient
<1>3. p \in Nat \ {0}
  BY PerGroupBounds
<1>4. n * p <= x
  BY <1>1, <1>2, Z3
<1>5. p <= e
  <2>1. CASE p > e - s
    <3>1. (n - 1) * (e - s) <= (n - 1) * p /\ (n - 1) * p = n * p - p /\ (n - 1) * (e - s) >= n - 1
      BY <1>3, <2>1, Z3
    <3> QED BY <1>1, <1>3, <1>4, <2>1, <3>1, Z3
  <2> QED BY <1>3, <2>1
<1>6. ASSUME NEW g \in 0 .. n - 1
      PROVE  LET la == GroupRange(s, e, n, g)
             IN  /\ la = [group |-> la.group, start |-> la.start, end |-> la.end]
                 /\ la.group = g /\ la.start = s + g * p
                 /\ la.start \in Nat /\ la.end \in Int /\ la.end - la.start <= e
  <2> DEFINE b == s + g * p
             d == IF g + 1 = n THEN e ELSE (g + 1) * p
  <2>1. g * p \in Nat /\ (g + 1) * p = g * p + p
    BY <1>3, Z3
  <2>2. b \in Nat /\ d \in Int /\ d - b <= e
    BY <1>3, <1>5, <2>1
  <2>3. GroupRange(s, e, n, g) = [group |-> g, start |-> b, end |-> d]
    BY DEF GroupRange
  <2> HIDE DEF b, d
  <2>4. /\ GroupRange(s, e, n, g).group = g
        /\ GroupRange(s, e, n, g).start = b /\ GroupRange(s, e, n, g).end = d
    BY <2>3
  <2> QED BY <2>2, <2>3, <2>4 DEF b
<1> QED BY <1>3, <1>5, <1>6

(* The list of assignments, of which there may be fewer than groups: those  *)
(* before the first one are without layers.                                 *)
LEMMA AnySplit ==
  ASSUME spec \in ModelSpecs, NEW k \in Kinds
  PROVE  LET las == GetDeviceAssignments(k)
             A   == Assignments(spec.cpu[k], spec.layers[k], spec.groups)
         IN  /\ las \in Seq(A) /\ Len(las) <= spec.groups
             /\ las # <<>> => las[1].start + Len(las) * MaxLayers <= Room
<1> DEFINE s   == spec.cpu[k]
           e   == spec.layers[k]
           n   == spec.groups
           A   == Assignments(s, e, n)
           las == GetDeviceAssignments(k)
           p   == LayersPerGroup(s, e, n)
           f   == [a \in A |-> a.group]
           Low(a) == {b \in A : b.group < a.group}
<1>1. /\ s \in Nat /\ e \in Nat /\ n \in Nat \ {0} /\ MaxLayers \in Nat /\ MaxCpuLayers \in Nat
      /\ s <= MaxCpuLayers /\ e <= MaxLayers /\ n <= MaxGroups /\ MaxGroups \in Nat
  BY BuildingAssumption DEF ModelSpecs
<1>2. SplitGpuLayers(s, e) =
        [i \in 1 .. Cardinality(A) |-> CHOOSE a \in A : Cardinality(Low(a)) = i - 1]
  BY DEF SplitGpuLayers
<1>3. CASE ~(s < e)
  <2>1. A = {}
    BY <1>1, <1>3, NoLayersNoAssignments
  <2>2. Cardinality(A) = 0
    BY <2>1, FS_EmptySet
  <2>3. SplitGpuLayers(s, e) = <<>>
    <3> HIDE DEF A
    <3> QED BY <1>2, <2>2
  <2>4. las = <<>>
    BY <2>3 DEF GetDeviceAssignments
  <2> HIDE DEF A, las
  <2>5. las \in Seq(A) /\ Len(las) = 0
    BY <2>4
  <2> QED BY <1>1, <2>4, <2>5 DEF A, las
<1>4. CASE s < e
  <2>1. /\ p \in Nat /\ p <= e
        /\ \A g \in 0 .. n - 1 : LET la == GroupRange(s, e, n, g)
                                 IN  /\ la = [group |-> la.group, start |-> la.start, end |-> la.end]
                                     /\ la.group = g /\ la.start = s + g * p
    BY <1>1, <1>4, AnyRange
  <2>2. \A a \in A : /\ a.group \in 0 .. n - 1 /\ a.start = s + a.group * p
                     /\ a = GroupRange(s, e, n, a.group)
    <3> HIDE DEF p
    <3> SUFFICES ASSUME NEW a \in A PROVE /\ a.group \in 0 .. n - 1 /\ a.start = s + a.group * p
                                          /\ a = GroupRange(s, e, n, a.group)
      OBVIOUS
    <3>1. PICK g \in 0 .. n - 1 : a = GroupRange(s, e, n, g)
      BY DEF Assignments
    <3> QED BY <2>1, <3>1
  <2> HIDE DEF A
  <2>3. f \in [A -> 0 .. n - 1] /\ \A x, y \in A : f[x] = f[y] => x = y
    BY <2>2
  <2>4. \A a \in A : Below(A, f, a) = Low(a)
    BY DEF Below
  <2>5. /\ IsFiniteSet(A) /\ Cardinality(A) \in Nat /\ Cardinality(A) <= n
        /\ \A i \in 1 .. Cardinality(A) : \E a \in A : Cardinality(Below(A, f, a)) = i - 1
    <3>1. n \in Nat
      BY <1>1
    <3> HIDE DEF f, n
    <3> QED BY <2>3, <3>1, Ranks
  <2> HIDE DEF f
  <2>6. \A i \in 1 .. Cardinality(A) : \E a \in A : Cardinality(Low(a)) = i - 1
    BY <2>4, <2>5
  <2>7. las = [i \in 1 .. Cardinality(A) |-> CHOOSE a \in A : Cardinality(Low(a)) = i - 1]
    BY <1>1, <1>2, <1>4 DEF GetDeviceAssignments
  <2>8. \A i \in 1 .. Cardinality(A) : las[i] \in A /\ Cardinality(Low(las[i])) = i - 1
    <3> HIDE DEF Low, las
    <3> QED BY <2>6, <2>7
  <2> HIDE DEF las
  <2>9. las \in Seq(A) /\ Len(las) = Cardinality(A)
    <3>1. las = [i \in 1 .. Cardinality(A) |-> las[i]]
      <4> HIDE DEF Low
      <4> QED BY <2>7
    <3>2. Cardinality(A) \in Nat /\ \A i \in 1 .. Cardinality(A) : las[i] \in A
      BY <2>5, <2>8
    <3> QED BY <3>1, <3>2
  <2>10. ASSUME las # <<>> PROVE las[1].start + Len(las) * MaxLayers <= Room
    <3> DEFINE g == las[1].group
    <3>1. 1 \in 1 .. Cardinality(A)
      BY <2>5, <2>9, <2>10
    <3>2. las[1] \in A /\ Cardinality(Low(las[1])) = 0
      BY <2>8, <3>1
    <3>3. Low(las[1]) = {}
      <4>1. Low(las[1]) \in SUBSET A
        OBVIOUS
      <4> HIDE DEF Low
      <4>2. IsFiniteSet(Low(las[1]))
        BY <2>5, <4>1, FS_Subset
      <4> QED BY <3>2, <4>2, FS_EmptySet
    <3>4. g \in 0 .. n - 1 /\ las[1].start = s + g * p
      BY <2>2, <3>2
    <3>5. \A b \in A : b.group \in g .. n - 1
      BY <2>2, <3>3, <3>4
    <3> HIDE DEF g
    <3>6. f \in Injection(A, g .. n - 1)
      <4>1. f \in [A -> g .. n - 1]
        BY <3>5 DEF f
      <4> QED BY <2>3, <4>1 DEF Injection, IsInjective
    <3>7. IsFiniteSet(g .. n - 1) /\ Cardinality(g .. n - 1) = n - g
      <4>1. g \in Int /\ n - 1 \in Int /\ ~(g > n - 1) /\ (n - 1) - g + 1 = n - g
        BY <1>1, <3>4
      <4> HIDE DEF n
      <4> QED BY <4>1, FS_Interval
    <3>8. Cardinality(A) <= n - g
      BY <3>6, <3>7, FS_Injection
    <3> DEFINE c == Cardinality(A)
    <3>9. c \in Nat /\ c + g <= n /\ g \in Nat /\ p \in Nat /\ p <= MaxLayers
      BY <1>1, <2>1, <2>5, <3>4, <3>8
    <3> HIDE DEF c, p
    <3>10. g * p <= g * MaxLayers /\ g * p \in Int /\ g * MaxLayers \in Int /\ c * MaxLayers \in Int
      BY <1>1, <3>9, Z3
    <3>11. (c + g) * MaxLayers <= MaxGroups * MaxLayers /\ MaxGroups * MaxLayers \in Int
      BY <1>1, <3>9, MultMonotone
    <3>12. (c + g) * MaxLayers = c * MaxLayers + g * MaxLayers
      BY <1>1, <3>9, Z3
    <3> HIDE DEF s
    <3>13. s + g * p + c * MaxLayers <= Room
      BY <1>1, <3>10, <3>11, <3>12 DEF Room
    <3> QED BY <2>9, <3>4, <3>13 DEF c
  <2> QED BY <1>1, <2>5, <2>9, <2>10 DEF A, las
<1> QED BY <1>1, <1>3, <1>4

(* An assignment is of some layers, of at most all, to one of the groups.   *)
LEMMA AnyAssignment ==
  ASSUME spec \in ModelSpecs, NEW k \in Kinds,
         NEW a \in Assignments(spec.cpu[k], spec.layers[k], spec.groups)
  PROVE  /\ a.group \in 0 .. spec.groups - 1 /\ a.start \in Nat /\ a.end \in Int
         /\ a.start < a.end /\ a.end - a.start <= MaxLayers
<1> DEFINE s == spec.cpu[k]
           e == spec.layers[k]
           n == spec.groups
<1>1. s \in Nat /\ e \in Nat /\ n \in Nat \ {0} /\ e <= MaxLayers /\ MaxLayers \in Nat
  BY BuildingAssumption DEF ModelSpecs
<1>2. s < e
  BY <1>1, NoLayersNoAssignments
<1>3. PICK g \in 0 .. n - 1 : a = GroupRange(s, e, n, g)
  BY DEF Assignments
<1>4. /\ a.group = g /\ a.start \in Nat /\ a.end \in Int /\ a.end - a.start <= e
  BY <1>1, <1>2, <1>3, AnyRange
<1>5. a.end > a.start
  BY DEF Assignments
<1> HIDE DEF s, e, n
<1>6. a.start < a.end /\ a.end - a.start <= MaxLayers
  BY <1>1, <1>4, <1>5
<1> QED BY <1>3, <1>4, <1>6 DEF n

(* The layers of m assignments, each of at most n layers, counted.          *)
LEMMA CountLayers ==
  ASSUME NEW las, NEW m \in Nat, NEW n \in Nat, DOMAIN las = 1 .. m,
         \A i \in 1 .. m : las[i].start \in Int /\ las[i].end \in Int /\ las[i].end - las[i].start <= n
  PROVE  LET U == UNION {{i} \X (las[i].start .. las[i].end - 1) : i \in DOMAIN las}
         IN  Cardinality(U) \in Nat /\ Cardinality(U) <= m * n
<1> DEFINE U == UNION {{i} \X (las[i].start .. las[i].end - 1) : i \in DOMAIN las}
           I == 1 .. m
           J == 0 .. n - 1
           P == I \X J
           f == [x \in U |-> <<x[1], x[2] - las[x[1]].start>>]
<1>1. \A x \in U : /\ x[1] \in 1 .. m /\ x[2] \in las[x[1]].start .. las[x[1]].end - 1
                   /\ x = <<x[1], x[2]>>
  <2> SUFFICES ASSUME NEW x \in U PROVE /\ x[1] \in 1 .. m /\ x = <<x[1], x[2]>>
                                        /\ x[2] \in las[x[1]].start .. las[x[1]].end - 1
    OBVIOUS
  <2>1. PICK i \in 1 .. m : x \in {i} \X (las[i].start .. las[i].end - 1)
    OBVIOUS
  <2> QED BY <2>1
<1> HIDE DEF U
<1>2. f \in [U -> P]
  <2> SUFFICES ASSUME NEW x \in U PROVE x[2] - las[x[1]].start \in 0 .. n - 1 /\ x[1] \in 1 .. m
    OBVIOUS
  <2>1. PICK i \in 1 .. m : i = x[1]
    BY <1>1
  <2>2. /\ las[i].start \in Int /\ las[i].end \in Int /\ las[i].end - las[i].start <= n
        /\ x[2] \in las[i].start .. las[i].end - 1
    BY <1>1, <2>1
  <2>3. \A a, b, v \in Int : b - a <= n /\ v \in a .. b - 1 => v - a \in 0 .. n - 1
    OBVIOUS
  <2> HIDE DEF f, P
  <2>4. x[2] \in Int
    BY <2>2
  <2>5. x[2] - las[i].start \in 0 .. n - 1
    BY <2>2, <2>3, <2>4
  <2> QED BY <2>1, <2>5
<1>3. ASSUME NEW x \in U, NEW y \in U, f[x] = f[y] PROVE x = y
  <2>1. x[1] = y[1] /\ x[2] - las[x[1]].start = y[2] - las[x[1]].start
    BY <1>3
  <2>2. las[x[1]].start \in Int /\ x[2] \in Int /\ y[2] \in Int
    BY <1>1, <2>1
  <2>3. x[2] = y[2]
    BY <2>1, <2>2
  <2> QED BY <1>1, <2>1, <2>3
<1>4. f \in Injection(U, P)
  BY <1>2, <1>3 DEF Injection, IsInjective
<1>5. IsFiniteSet(I) /\ Cardinality(I) = m
  BY FS_Interval
<1>6. IsFiniteSet(J) /\ Cardinality(J) = n
  <2>1. 0 \in Int /\ n - 1 \in Int /\ (0 > n - 1 <=> n = 0) /\ (n - 1) - 0 + 1 = n
    OBVIOUS
  <2> QED BY <2>1, FS_Interval
<1>7. IsFiniteSet(P) /\ Cardinality(P) = m * n
  <2> HIDE DEF I, J
  <2>1. IsFiniteSet(I \X J) /\ Cardinality(I \X J) = Cardinality(I) * Cardinality(J)
    BY <1>5, <1>6, FS_Product
  <2> QED BY <1>5, <1>6, <2>1
<1> HIDE DEF P, f
<1>8. IsFiniteSet(U) /\ Cardinality(U) <= m * n
  BY <1>4, <1>7, FS_Injection
<1>9. Cardinality(U) \in Nat
  BY <1>8, FS_CardinalityType
<1> QED BY <1>8, <1>9 DEF U

(* The vector that InitDeviceNetStructure makes.                            *)
LEMMA AnyStructure ==
  ASSUME spec \in ModelSpecs
  PROVE  LET N == InitDeviceNetStructure
         IN  /\ N \in Seq(Entries("decoder"))
             /\ Takes(Len(N), IsAppended("decoder"), Len(GetDeviceAssignments("decoder")))
<1> DEFINE k     == "decoder"
           N     == InitDeviceNetStructure
           A     == Assignments(spec.cpu[k], spec.layers[k], spec.groups)
           las   == GetDeviceAssignments(k)
           nulls == IF las = <<>> THEN 0 ELSE las[1].start
           num   == Cardinality(UNION {{i} \X (las[i].start .. las[i].end - 1) : i \in DOMAIN las})
           X     == [i \in 1 .. nulls |-> NullLayer]
           Y     == IF Strategy = "BY_LAYER" THEN [i \in 1 .. num |-> EmptyLayer] ELSE <<>>
<1>1. N = X \o Y
  BY DEF InitDeviceNetStructure
<1>2. k \in Kinds /\ (IsAppended(k) <=> Strategy # "BY_LAYER")
  BY DEF Kinds, IsAppended
<1>3. /\ las \in Seq(A) /\ Len(las) \in Nat
      /\ las # <<>> => las[1].start + Len(las) * MaxLayers <= Room
  BY <1>2, AnySplit
<1>4. \A a \in A : /\ a.start \in Nat /\ a.end \in Int /\ a.end - a.start <= MaxLayers
  BY <1>2, AnyAssignment
<1>5. MaxLayers \in Nat /\ Room \in Nat /\ spec.layers[k] \in Nat /\ spec.groups \in Nat \ {0}
  <2>1. MaxLayers \in Nat /\ MaxGroups \in Nat /\ MaxCpuLayers \in Nat
    BY BuildingAssumption
  <2>2. MaxGroups * MaxLayers \in Nat
    BY <2>1, Z3
  <2> QED BY <1>2, <2>1, <2>2, Numbers DEF Room
<1> HIDE DEF A, N
<1>6. num \in Nat /\ num <= Len(las) * MaxLayers
  <2>1. DOMAIN las = 1 .. Len(las) /\ \A i \in 1 .. Len(las) : las[i] \in A
    BY <1>3
  <2>2. \A i \in 1 .. Len(las) : las[i].start \in Int /\ las[i].end \in Int
                                 /\ las[i].end - las[i].start <= MaxLayers
    BY <1>4, <2>1
  <2> HIDE DEF las
  <2> QED BY <1>3, <1>5, <2>1, <2>2, CountLayers
<1> HIDE DEF las, num
<1>7. nulls \in Nat /\ nulls + Len(las) * MaxLayers <= Room
  <2>1. CASE las = <<>>
    BY <1>5, <2>1
  <2>2. CASE las # <<>>
    <3>1. las[1] \in A
      BY <1>3, <2>2
    <3> QED BY <1>3, <1>4, <2>2, <3>1
  <2> QED BY <2>1, <2>2
<1> HIDE DEF nulls
<1>8. NullLayer \in Entries(k) /\ EmptyLayer \in Entries(k)
  BY <1>5 DEF Entries, NullLayer, EmptyLayer
<1>9. X \in Seq(Entries(k)) /\ Len(X) = nulls
  BY <1>7, <1>8
<1>10. Y \in Seq(Entries(k)) /\ Len(Y) = (IF Strategy = "BY_LAYER" THEN num ELSE 0)
  <2>1. CASE Strategy = "BY_LAYER"
    BY <1>6, <1>8, <2>1
  <2>2. CASE Strategy # "BY_LAYER"
    <3>1. Y = <<>>
      BY <2>2
    <3> QED BY <2>2, <3>1
  <2> QED BY <2>1, <2>2
<1> HIDE DEF X, Y
<1>11. N \in Seq(Entries(k)) /\ Len(N) = Len(X) + Len(Y)
  <2>1. X \in Seq(Entries(k)) /\ Y \in Seq(Entries(k))
    BY <1>9, <1>10
  <2> HIDE DEF k
  <2> QED BY <1>1, <2>1
<1> DEFINE w == Len(las) * MaxLayers
<1>12. w \in Int
  BY <1>3, <1>5
<1>13. Len(N) + (IF IsAppended(k) THEN w ELSE 0) <= Room
  <2>1. num <= w /\ nulls + w <= Room
    BY <1>6, <1>7
  <2> HIDE DEF w
  <2>2. CASE Strategy = "BY_LAYER"
    BY <1>2, <1>5, <1>6, <1>7, <1>9, <1>10, <1>11, <1>12, <2>1, <2>2
  <2>3. CASE Strategy # "BY_LAYER"
    BY <1>2, <1>5, <1>6, <1>7, <1>9, <1>10, <1>11, <1>12, <2>1, <2>3
  <2> QED BY <2>2, <2>3
<1> QED BY <1>11, <1>13 DEF N, las, Takes

(* What the specification alone determines.                                 *)
LEMMA SameTypes ==
  ASSUME spec' = spec
  PROVE  /\ \A k \in Kinds : /\ Entries(k)' = Entries(k) /\ Items(k)' = Items(k)
                             /\ GetDeviceAssignments(k)' = GetDeviceAssignments(k)
                             /\ IsAppended(k)' <=> IsAppended(k)
         /\ Strategy' = Strategy /\ (IsEager' <=> IsEager)
<1>1. \A k \in Kinds : GetDeviceAssignments(k)' = GetDeviceAssignments(k)
  BY DEF GetDeviceAssignments, SplitGpuLayers
<1> QED BY <1>1, SameSpec DEF Entries, Items

(* Steps that change no length and no assignments keep the vectors' room.   *)
LEMMA VectorsKept ==
  ASSUME MBTypeInv, spec' = spec, todo' = todo, \A k \in Kinds : Len(net'[k]) = Len(net[k]),
         \/ stage' = stage
         \/ stage = "read" /\ stage' = "device"
         \/ stage' \notin {"init", "read", "device", "group", "join"}
  PROVE  VectorsOK'
<1>1. VectorsOK
  BY DEF MBTypeInv
<1>2. \A k \in Kinds : \A n : CanTake(k, n)' <=> CanTake(k, n)
  <2> SUFFICES ASSUME NEW k \in Kinds, NEW n PROVE CanTake(k, n)' <=> CanTake(k, n)
    OBVIOUS
  <2>1. IsAppended(k)' <=> IsAppended(k)
    BY SameTypes
  <2> QED BY <2>1 DEF CanTake, Takes
<1>3. "decoder" \in Kinds /\ "encoder" \in Kinds
  BY DEF Kinds
<1>4. Items("decoder")' = Items("decoder") /\ Items("encoder")' = Items("encoder")
  BY <1>3, SameTypes
<1>5. \A t : HasRoom(t)' <=> HasRoom(t)
  BY <1>2, <1>3, <1>4 DEF HasRoom, RoomFor
<1>6. HasRoom(todo)' <=> HasRoom(todo)
  BY <1>2, <1>3, <1>4 DEF HasRoom, RoomFor
<1>7. HasRoom(Tail(todo))' <=> HasRoom(Tail(todo))
  BY <1>2, <1>3, <1>4 DEF HasRoom, RoomFor
<1>8. \A k \in Kinds : CanTake(k, Len(GetDeviceAssignments(k)))' <=> CanTake(k, Len(GetDeviceAssignments(k)))
  <2> SUFFICES ASSUME NEW k \in Kinds
               PROVE  CanTake(k, Len(GetDeviceAssignments(k)))' <=> CanTake(k, Len(GetDeviceAssignments(k)))
    OBVIOUS
  <2>1. (IsAppended(k)' <=> IsAppended(k)) /\ GetDeviceAssignments(k)' = GetDeviceAssignments(k)
    BY SameTypes
  <2> QED BY <2>1 DEF CanTake, Takes
<1>9. \A k \in Kinds : CanTake(k, 0)' <=> CanTake(k, 0)
  BY <1>2
<1> QED BY <1>1, <1>6, <1>7, <1>8, <1>9 DEF VectorsOK

(* In the beginning.                                                        *)
LEMMA TypeInit == MBInit => MBTypeInv
<1> SUFFICES ASSUME MBInit PROVE MBTypeInv
  OBVIOUS
<1>1. spec \in ModelSpecs /\ spec.groups \in Nat \ {0} /\ \A k \in Kinds : spec.layers[k] \in Nat
  BY Numbers DEF MBInit
<1>2. MaxLayers \in Nat /\ BuilderCount \in Nat \ {0} /\ Room \in Nat
  <2>1. MaxLayers \in Nat /\ MaxGroups \in Nat /\ MaxCpuLayers \in Nat
    BY BuildingAssumption
  <2>2. MaxGroups * MaxLayers \in Nat
    BY <2>1, Z3
  <2> QED BY <2>1, <2>2, BuildingAssumption DEF Room
<1>3. net = [k \in Kinds |-> <<>>] /\ todo = <<>>
  BY DEF MBInit
<1>4. \A k \in Kinds : net[k] \in Seq(Entries(k)) /\ Len(net[k]) = 0
  BY <1>3
<1>5. todo \in Seq(Items("decoder") \cup Items("encoder"))
  BY <1>3
<1>6. joined \in Builders
  BY <1>2 DEF MBInit, Builders
<1>7. builder \in [Builders -> [tasks : SUBSET Int, state : {"idle", "running", "done", "error"}]]
  BY DEF MBInit
<1>8. Typed
  <2>1. "decoder" \in Kinds /\ "encoder" \in Kinds
    BY DEF Kinds
  <2>2. /\ pass = [kind |-> "encoder", next |-> 1, trace |-> <<>>] /\ ret = TRUE /\ workers = <<>>
        /\ cpu_end = 0 /\ unread = 0 .. spec.layers["decoder"] - 1 /\ stage = "init" /\ dropped = {}
    BY DEF MBInit
  <2>3. cpu_end \in 0 .. spec.layers["decoder"]
    BY <1>1, <2>1, <2>2
  <2> QED BY <1>1, <1>3, <1>4, <1>5, <1>6, <1>7, <2>1, <2>2, <2>3 DEF Typed, Stages
<1>9. VectorsOK
  <2>1. 0 * MaxLayers = 0 /\ \A k \in Kinds : Len(net[k]) <= Room /\ Len(net[k]) = 0
    BY <1>2, <1>4
  <2>2. ASSUME NEW k \in Kinds PROVE CanTake(k, 0)
    <3>1. Takes(0, IsAppended(k), 0)
      BY <1>2, <2>1 DEF Takes
    <3> QED BY <2>1, <3>1 DEF CanTake
  <2> QED BY <1>4, <2>2 DEF VectorsOK, MBInit
<1> QED BY <1>8, <1>9 DEF MBTypeInv

(* Room for some assignments is room for fewer, or for one and the others.  *)
LEMMA RoomNumbers ==
  /\ MaxLayers \in Nat /\ MaxGroups \in Nat /\ Room \in Nat
  /\ \A n \in Nat : n * MaxLayers \in Nat
  /\ \A n \in Nat : n <= MaxGroups => n * MaxLayers <= Room
<1>1. MaxLayers \in Nat /\ MaxGroups \in Nat /\ MaxCpuLayers \in Nat
  BY BuildingAssumption
<1>2. \A n \in Nat : n * MaxLayers \in Nat
  BY <1>1, Z3
<1>3. ASSUME NEW n \in Nat, n <= MaxGroups PROVE n * MaxLayers <= MaxGroups * MaxLayers
  BY <1>1, <1>3, MultMonotone
<1>4. MaxGroups * MaxLayers \in Nat
  BY <1>1, <1>2
<1>5. Room \in Nat
  BY <1>1, <1>4 DEF Room
<1>6. ASSUME NEW n \in Nat, n <= MaxGroups PROVE n * MaxLayers <= Room
  <2>1. n * MaxLayers <= MaxGroups * MaxLayers /\ n * MaxLayers \in Nat
    BY <1>2, <1>3, <1>6
  <2> QED BY <1>1, <1>4, <2>1 DEF Room
<1> QED BY <1>1, <1>2, <1>5, <1>6

(* A vector with room for some assignments is not too long.                 *)
LEMMA RoomForLess ==
  ASSUME NEW length \in Nat, NEW appended \in BOOLEAN, NEW n \in Nat, Takes(length, appended, n)
  PROVE  Takes(length, appended, 0)
<1> DEFINE w == n * MaxLayers
<1>1. w \in Nat /\ 0 * MaxLayers = 0 /\ Room \in Nat
  BY RoomNumbers
<1>2. length + (IF appended THEN w ELSE 0) <= Room
  BY DEF Takes
<1> HIDE DEF w
<1>3. length <= Room
  BY <1>1, <1>2
<1> QED BY <1>1, <1>3 DEF Takes

(* After the layers of one more assignment there is room for one less.      *)
LEMMA RoomForNext ==
  ASSUME NEW length \in Nat, NEW appended \in BOOLEAN, NEW n \in Nat \ {0}, Takes(length, appended, n),
         NEW new \in Nat, new <= IF appended THEN length + MaxLayers ELSE length
  PROVE  Takes(new, appended, n - 1)
<1> DEFINE w == n * MaxLayers
           v == (n - 1) * MaxLayers
<1>1. w \in Nat /\ v \in Nat /\ Room \in Nat /\ MaxLayers \in Nat
  <2>1. n \in Nat /\ n - 1 \in Nat
    OBVIOUS
  <2> QED BY <2>1, RoomNumbers
<1>2. v + MaxLayers = w
  BY RoomNumbers, Z3
<1>3. length + (IF appended THEN w ELSE 0) <= Room
  BY DEF Takes
<1> HIDE DEF w, v
<1>4. new + (IF appended THEN v ELSE 0) <= Room
  BY <1>1, <1>2, <1>3
<1> QED BY <1>4 DEF Takes, v

(* InitNetworkStructure.                                                    *)
LEMMA TypeStructure ==
  ASSUME MBTypeInv, InitNetworkStructure
  PROVE  MBTypeInv'
<1> DEFINE N == InitDeviceNetStructure
<1>1. /\ Typed /\ VectorsOK /\ spec' = spec /\ stage = "init" /\ stage' = "read"
      /\ net' = [net EXCEPT !["decoder"] = N]
      /\ UNCHANGED <<unread, todo, builder, joined, ret, workers, cpu_end, pass, dropped>>
  BY DEF MBTypeInv, InitNetworkStructure
<1>2. spec \in ModelSpecs /\ net = [k \in Kinds |-> net[k]]
  BY <1>1 DEF Typed
<1>3. /\ N \in Seq(Entries("decoder"))
      /\ Takes(Len(N), IsAppended("decoder"), Len(GetDeviceAssignments("decoder")))
  BY <1>2, AnyStructure
<1> HIDE DEF N
<1>4. "decoder" \in Kinds /\ "encoder" \in Kinds /\ Kinds = {"decoder", "encoder"}
  BY DEF Kinds
<1>5. /\ net' = [k \in Kinds |-> net'[k]]
      /\ net'["decoder"] = N /\ net'["encoder"] = net["encoder"]
  BY <1>1, <1>2, <1>4
<1>6. Typed'
  <2>1. \A k \in Kinds : net'[k] \in Seq(Entries(k))
    BY <1>1, <1>3, <1>4, <1>5 DEF Typed
  <2>2. \A k \in Kinds : Entries(k)' = Entries(k) /\ Items(k)' = Items(k)
    BY <1>1, SameTypes
  <2> QED BY <1>1, <1>4, <1>5, <2>1, <2>2 DEF Typed, Stages
<1>7. \A k \in Kinds : /\ Takes(Len(net'[k]), IsAppended(k), Len(GetDeviceAssignments(k)))
                       /\ Len(net'[k]) \in Nat /\ Len(GetDeviceAssignments(k)) \in Nat
  <2>1. \A k \in Kinds : Len(GetDeviceAssignments(k)) \in Nat /\ Len(GetDeviceAssignments(k)) <= spec.groups
    BY <1>2, AnySplit
  <2>2. Len(net'["decoder"]) \in Nat /\ Len(net'["encoder"]) = 0
    BY <1>1, <1>3, <1>4, <1>5 DEF VectorsOK
  <2>3. spec.groups \in Nat /\ spec.groups <= MaxGroups
    BY <1>2, BuildingAssumption DEF ModelSpecs
  <2> DEFINE n == Len(GetDeviceAssignments("encoder"))
  <2>4. n \in Nat /\ n <= MaxGroups
    BY <1>4, <2>1, <2>3, RoomNumbers
  <2>5. n * MaxLayers \in Nat /\ n * MaxLayers <= Room /\ Room \in Nat
    BY <2>4, RoomNumbers
  <2> HIDE DEF n
  <2>6. Takes(Len(net'["encoder"]), IsAppended("encoder"), n)
    BY <2>2, <2>5 DEF Takes
  <2> QED BY <1>3, <1>4, <1>5, <2>1, <2>2, <2>6 DEF n
<1>8. \A k \in Kinds : Takes(Len(net'[k]), IsAppended(k), 0)
  <2>1. \A k \in Kinds : IsAppended(k) \in BOOLEAN
    BY DEF IsAppended
  <2> QED BY <1>7, <2>1, RoomForLess
<1>9. VectorsOK'
  <2>1. \A k \in Kinds : (IsAppended(k)' <=> IsAppended(k)) /\ GetDeviceAssignments(k)' = GetDeviceAssignments(k)
    BY <1>1, SameTypes
  <2>2. \A k \in Kinds : CanTake(k, Len(GetDeviceAssignments(k)))' /\ CanTake(k, 0)'
    BY <1>7, <1>8, <2>1 DEF CanTake, Takes
  <2> QED BY <1>1, <2>2 DEF VectorsOK
<1> QED BY <1>6, <1>9 DEF MBTypeInv

(* The group a reader finds for a layer, if any.                            *)
LEMMA AnyGroup ==
  ASSUME spec \in ModelSpecs, NEW l
  PROVE  GetDeviceGroup(l) \in -1 .. spec.groups - 1
<1> DEFINE las == GetDeviceAssignments("decoder")
           hit == {i \in DOMAIN las : Covers(las[i], l)}
           A   == Assignments(spec.cpu["decoder"], spec.layers["decoder"], spec.groups)
<1>1. "decoder" \in Kinds
  BY DEF Kinds
<1>2. las \in Seq(A) /\ spec.groups \in Nat \ {0}
  BY <1>1, AnySplit, Numbers
<1>3. \A a \in A : a.group \in 0 .. spec.groups - 1
  BY <1>1, AnyAssignment
<1>4. GetDeviceGroup(l) = IF hit = {} THEN -1 ELSE las[CHOOSE i \in hit : \A j \in hit : i <= j].group
  BY DEF GetDeviceGroup
<1> HIDE DEF A, las
<1>5. hit \subseteq Nat /\ \A i \in hit : las[i] \in A
  BY <1>2
<1> HIDE DEF hit
<1>6. CASE hit = {}
  BY <1>2, <1>4, <1>6
<1>7. CASE hit # {}
  <2>1. \E i \in hit : \A j \in hit : i <= j
    BY <1>5, <1>7, LeastNumber
  <2> DEFINE c == CHOOSE i \in hit : \A j \in hit : i <= j
  <2>2. c \in hit
    BY <2>1
  <2>3. GetDeviceGroup(l) = las[c].group
    BY <1>4, <1>7
  <2> HIDE DEF c
  <2>4. las[c].group \in 0 .. spec.groups - 1
    BY <1>3, <1>5, <2>2
  <2> QED BY <1>2, <2>3, <2>4
<1> QED BY <1>6, <1>7

(* A sequence with another element in one place.                            *)
LEMMA ElementChanged ==
  ASSUME NEW S, NEW q \in Seq(S), NEW i, NEW x \in S
  PROVE  [q EXCEPT ![i] = x] \in Seq(S) /\ Len([q EXCEPT ![i] = x]) = Len(q)
<1> DEFINE r == [q EXCEPT ![i] = x]
<1>1. Len(q) \in Nat /\ DOMAIN q = 1 .. Len(q) /\ \A j \in 1 .. Len(q) : q[j] \in S
  OBVIOUS
<1>2. r = [j \in 1 .. Len(q) |-> IF j = i THEN x ELSE q[j]]
  BY <1>1
<1>3. \A j \in 1 .. Len(q) : r[j] \in S
  BY <1>1, <1>2
<1>4. r = [j \in 1 .. Len(q) |-> r[j]]
  BY <1>2
<1> HIDE DEF r
<1>5. r \in Seq(S) /\ Len(r) = Len(q)
  BY <1>1, <1>3, <1>4
<1> QED BY <1>5 DEF r

(* Reading changes an element of the decoder's vector.                      *)
LEMMA TypeRead ==
  ASSUME MBTypeInv, NEW l \in unread, ReadLayer(l)
  PROVE  MBTypeInv'
<1> DEFINE q == net["decoder"]
<1>1. /\ Typed /\ spec' = spec /\ stage = "read" /\ unread' = unread \ {l}
      /\ UNCHANGED <<todo, builder, joined, ret, workers, cpu_end, pass, dropped>>
  BY DEF MBTypeInv, ReadLayer
<1>2. "decoder" \in Kinds /\ "encoder" \in Kinds /\ Kinds = {"decoder", "encoder"}
  BY DEF Kinds
<1>3. /\ spec \in ModelSpecs /\ net = [k \in Kinds |-> net[k]] /\ q \in Seq(Entries("decoder"))
      /\ l \in 0 .. spec.layers["decoder"] - 1
  BY <1>1, <1>2 DEF Typed
<1>4. \/ UNCHANGED net /\ stage' \in {"read", "undefined"}
      \/ /\ stage' = "read"
         /\ \E x \in Entries("decoder") : net' = [net EXCEPT !["decoder"] = [q EXCEPT ![l + 1] = x]]
  <2>1. \/ UNCHANGED net /\ stage' \in {"read", "undefined"}
        \/ /\ stage' = "read"
           /\ \E state \in {"built", "hollow"} :
                net' = [net EXCEPT !["decoder"][l + 1] = Layer(l, state, GetDeviceGroup(l))]
    BY DEF ReadLayer
  <2>2. \A state \in {"built", "hollow"} : Layer(l, state, GetDeviceGroup(l)) \in Entries("decoder")
    <3>1. GetDeviceGroup(l) \in -1 .. spec.groups - 1
      BY <1>3, AnyGroup
    <3>2. l \in -1 .. spec.layers["decoder"] - 1
      BY <1>3
    <3> QED BY <3>1, <3>2 DEF Layer, Entries
  <2> QED BY <2>1, <2>2
<1>5. /\ net' = [k \in Kinds |-> net'[k]]
      /\ \A k \in Kinds : net'[k] \in Seq(Entries(k)) /\ Len(net'[k]) = Len(net[k])
  <2>1. CASE UNCHANGED net
    BY <1>1, <2>1 DEF Typed
  <2>2. ASSUME NEW x \in Entries("decoder"), net' = [net EXCEPT !["decoder"] = [q EXCEPT ![l + 1] = x]]
        PROVE  /\ net' = [k \in Kinds |-> net'[k]]
               /\ \A k \in Kinds : net'[k] \in Seq(Entries(k)) /\ Len(net'[k]) = Len(net[k])
    <3> DEFINE r == [q EXCEPT ![l + 1] = x]
    <3>1. r \in Seq(Entries("decoder")) /\ Len(r) = Len(q)
      <4> HIDE DEF q
      <4> QED BY <1>3, ElementChanged
    <3> HIDE DEF r
    <3>2. net' = [net EXCEPT !["decoder"] = r]
      BY <2>2 DEF r
    <3>3. net'["decoder"] = r /\ net'["encoder"] = net["encoder"] /\ net' = [k \in Kinds |-> net'[k]]
      BY <1>2, <1>3, <3>2
    <3>4. net["encoder"] \in Seq(Entries("encoder"))
      BY <1>1, <1>2 DEF Typed
    <3> QED BY <1>2, <3>1, <3>3, <3>4
  <2> QED BY <1>4, <2>1, <2>2
<1>6. Typed'
  <2>1. \A k \in Kinds : Entries(k)' = Entries(k) /\ Items(k)' = Items(k)
    BY <1>1, SameTypes
  <2>2. stage' \in Stages
    BY <1>4 DEF Stages
  <2> QED BY <1>1, <1>2, <1>5, <2>1, <2>2 DEF Typed
<1>7. VectorsOK'
  <2>1. stage' = stage \/ stage' = "undefined"
    BY <1>1, <1>4
  <2> QED BY <1>1, <1>5, <2>1, VectorsKept
<1> QED BY <1>6, <1>7 DEF MBTypeInv

(* Steps of the stage alone.                                                *)
LEMMA TypeStage ==
  ASSUME MBTypeInv, LoadFails \/ HostModel \/ NotPartitionable \/ BuildDeviceTensor_ForceDequant \/ EndPass
  PROVE  MBTypeInv'
<1>1. /\ Typed /\ spec' = spec /\ net' = net
      /\ UNCHANGED <<unread, todo, builder, joined, ret, workers, cpu_end, pass, dropped>>
  BY DEF MBTypeInv, LoadFails, HostModel, NotPartitionable, BuildDeviceTensor_ForceDequant, EndPass
<1>2. \/ stage' \in {"failed", "exited", "cpu", "undefined", "passed"}
      \/ stage = "read" /\ stage' = "device"
  BY DEF LoadFails, HostModel, NotPartitionable, BuildDeviceTensor_ForceDequant, EndPass
<1>3. Typed'
  <2>1. \A k \in Kinds : Entries(k)' = Entries(k) /\ Items(k)' = Items(k)
    BY <1>1, SameTypes
  <2>2. stage' \in Stages /\ "decoder" \in Kinds /\ "encoder" \in Kinds
    BY <1>2 DEF Stages, Kinds
  <2> QED BY <1>1, <2>1, <2>2 DEF Typed
<1>4. VectorsOK'
  BY <1>1, <1>2, VectorsKept
<1> QED BY <1>3, <1>4 DEF MBTypeInv

(* The list of a kind's assignments.                                        *)
LEMMA TaggedType ==
  ASSUME spec \in ModelSpecs, NEW k \in Kinds
  PROVE  Tagged(k) \in Seq(Items(k)) /\ Len(Tagged(k)) = Len(GetDeviceAssignments(k))
<1> DEFINE las == GetDeviceAssignments(k)
           A   == Assignments(spec.cpu[k], spec.layers[k], spec.groups)
           t   == Tagged(k)
<1>1. las \in Seq(A) /\ Len(las) \in Nat
  BY AnySplit
<1>2. t = [i \in DOMAIN las |-> [kind |-> k, la |-> las[i]]]
  BY DEF Tagged
<1> HIDE DEF las
<1>3. \A i \in 1 .. Len(las) : t[i] \in Items(k)
  <2>1. \A i \in 1 .. Len(las) : las[i] \in A
    BY <1>1
  <2>2. Items(k) = {[kind |-> k, la |-> a] : a \in A}
    BY DEF Items
  <2> HIDE DEF A
  <2> QED BY <1>1, <1>2, <2>1, <2>2
<1>4. t = [i \in 1 .. Len(las) |-> t[i]]
  BY <1>1, <1>2
<1> HIDE DEF t
<1>5. t \in Seq(Items(k)) /\ Len(t) = Len(las)
  BY <1>1, <1>3, <1>4
<1> QED BY <1>5 DEF t, las

(* Room for two lists is room for both, one after the other.                *)
LEMMA RoomForBoth ==
  ASSUME NEW a \in Seq(Items("decoder")), NEW b \in Seq(Items("encoder")),
         CanTake("decoder", Len(a)), CanTake("encoder", Len(b))
  PROVE  HasRoom(a \o b) /\ a \o b \in Seq(Items("decoder") \cup Items("encoder"))
<1> DEFINE P == Items("decoder")
           Q == Items("encoder")
           t == a \o b
           m == Len(a)
<1>1. /\ Len(a) \in Nat /\ Len(b) \in Nat /\ Len(t) = Len(a) + Len(b)
      /\ \A i \in 1 .. Len(a) : a[i] \in P
      /\ \A i \in 1 .. Len(b) : b[i] \in Q
  OBVIOUS
<1>0. a \in Seq(P) /\ b \in Seq(Q)
  OBVIOUS
<1> HIDE DEF P, Q
<1>2. \A i \in 1 .. m : t[i] \in P
  <2> SUFFICES ASSUME NEW i \in 1 .. m PROVE t[i] \in P
    OBVIOUS
  <2>1. t[i] = a[i]
    BY <1>0
  <2> QED BY <1>1, <2>1
<1>3. ASSUME NEW i \in m + 1 .. Len(t) PROVE t[i] \in Q
  <2>1. i - m \in 1 .. Len(b) /\ t[i] = b[i - m]
    BY <1>0, <1>1
  <2> QED BY <1>1, <2>1
<1>4. Len(t) - m = Len(b) /\ m \in 0 .. Len(t)
  BY <1>1
<1>5. t \in Seq(P \cup Q)
  <2>1. a \in Seq(P \cup Q) /\ b \in Seq(P \cup Q)
    BY DEF P, Q
  <2> QED BY <2>1
<1> HIDE DEF t
<1>6. RoomFor(t, m)
  BY <1>2, <1>3, <1>4 DEF RoomFor, P, Q
<1> QED BY <1>4, <1>5, <1>6 DEF HasRoom, t, P, Q

(* A list's room does not depend on anything else.                          *)
LEMMA SameRoom ==
  ASSUME spec' = spec, \A k \in Kinds : Len(net'[k]) = Len(net[k]), NEW t, todo' = t, HasRoom(t)
  PROVE  HasRoom(todo)'
<1>1. \A k \in Kinds : \A n : CanTake(k, n)' <=> CanTake(k, n)
  <2> SUFFICES ASSUME NEW k \in Kinds, NEW n PROVE CanTake(k, n)' <=> CanTake(k, n)
    OBVIOUS
  <2>1. IsAppended(k)' <=> IsAppended(k)
    BY SameTypes
  <2> QED BY <2>1 DEF CanTake, Takes
<1>2. "decoder" \in Kinds /\ "encoder" \in Kinds
  BY DEF Kinds
<1>3. Items("decoder")' = Items("decoder") /\ Items("encoder")' = Items("encoder")
  BY <1>2, SameTypes
<1> QED BY <1>1, <1>2, <1>3 DEF HasRoom, RoomFor

(* BuildDeviceNetwork lists what it will build.                             *)
LEMMA TypeBuild ==
  ASSUME MBTypeInv, BuildDeviceNetwork
  PROVE  MBTypeInv'
<1> DEFINE P == Items("decoder")
           Q == Items("encoder")
<1>1. /\ Typed /\ VectorsOK /\ spec' = spec /\ net' = net /\ stage = "device" /\ stage' = "group"
      /\ ret' \in BOOLEAN
      /\ UNCHANGED <<unread, builder, joined, workers, cpu_end, pass, dropped>>
  BY DEF MBTypeInv, BuildDeviceNetwork
<1>2. "decoder" \in Kinds /\ "encoder" \in Kinds /\ spec \in ModelSpecs
  BY <1>1 DEF Kinds, Typed
<1>3. /\ \A k \in Kinds : CanTake(k, Len(GetDeviceAssignments(k))) /\ CanTake(k, 0)
      /\ Tagged("decoder") \in Seq(P) /\ Tagged("encoder") \in Seq(Q)
      /\ \A k \in Kinds : Len(Tagged(k)) = Len(GetDeviceAssignments(k))
  BY <1>1, <1>2, TaggedType DEF VectorsOK
<1>4. <<>> \in Seq(P) /\ <<>> \in Seq(Q) /\ Len(<<>>) = 0
  OBVIOUS
<1>5. \E a \in Seq(P), b \in Seq(Q) :
        todo' = a \o b /\ CanTake("decoder", Len(a)) /\ CanTake("encoder", Len(b))
  <2>1. CASE Strategy = "BY_LAYER"
    <3> DEFINE a == IF IsEager THEN <<>> ELSE Tagged("decoder")
               b == Tagged("encoder")
    <3>1. todo' = a \o b
      BY <2>1 DEF BuildDeviceNetwork
    <3>2. a \in Seq(P) /\ CanTake("decoder", Len(a))
      <4>1. CASE IsEager
        BY <1>2, <1>3, <1>4, <4>1
      <4>2. CASE ~IsEager
        BY <1>2, <1>3, <4>2
      <4> QED BY <4>1, <4>2
    <3>3. b \in Seq(Q) /\ CanTake("encoder", Len(b))
      BY <1>2, <1>3
    <3> HIDE DEF a, b, P, Q
    <3> QED BY <3>1, <3>2, <3>3
  <2>2. CASE Strategy # "BY_LAYER"
    <3> DEFINE a == Tagged("decoder")
               b == <<>>
    <3>1. todo' = a
      BY <2>2 DEF BuildDeviceNetwork
    <3>2. a \in Seq(P) /\ CanTake("decoder", Len(a)) /\ b \in Seq(Q) /\ CanTake("encoder", Len(b))
      BY <1>2, <1>3, <1>4
    <3> HIDE DEF a, P, Q
    <3>3. a \o b = a
      BY <3>2
    <3> QED BY <3>1, <3>2, <3>3
  <2> QED BY <2>1, <2>2
<1> HIDE DEF P, Q
<1>6. PICK a \in Seq(P) : \E b \in Seq(Q) :
        todo' = a \o b /\ CanTake("decoder", Len(a)) /\ CanTake("encoder", Len(b))
  BY <1>5
<1>7. PICK b \in Seq(Q) : todo' = a \o b /\ CanTake("decoder", Len(a)) /\ CanTake("encoder", Len(b))
  BY <1>6
<1>8. HasRoom(a \o b) /\ a \o b \in Seq(P \cup Q)
  BY <1>7, RoomForBoth DEF P, Q
<1>9. HasRoom(todo)'
  <2>1. PICK t : t = a \o b
    OBVIOUS
  <2> QED BY <1>1, <1>7, <1>8, <2>1, SameRoom
<1>10. \A k \in Kinds : CanTake(k, 0)'
  <2>1. \A k \in Kinds : IsAppended(k)' <=> IsAppended(k)
    BY <1>1, SameTypes
  <2> QED BY <1>1, <1>3, <2>1 DEF CanTake, Takes
<1>11. VectorsOK'
  BY <1>1, <1>9, <1>10 DEF VectorsOK
<1>12. Typed'
  <2>1. \A k \in Kinds : Entries(k)' = Entries(k) /\ Items(k)' = Items(k)
    BY <1>1, SameTypes
  <2>2. todo' \in Seq(Items("decoder")' \cup Items("encoder")')
    BY <1>2, <1>7, <1>8, <2>1 DEF P, Q
  <2> QED BY <1>1, <1>2, <2>1, <2>2 DEF Typed, Stages
<1> QED BY <1>11, <1>12 DEF MBTypeInv

(* The assignment that is built next.                                       *)
LEMMA NextItem ==
  ASSUME Typed, todo # <<>>
  PROVE  /\ Head(todo) = todo[1] /\ Head(todo).kind \in Kinds
         /\ Head(todo).la \in Assignments(spec.cpu[Head(todo).kind], spec.layers[Head(todo).kind], spec.groups)
         /\ \A k \in Kinds : todo[1] \in Items(k) => Head(todo).kind = k
         /\ Tail(todo) \in Seq(Items("decoder") \cup Items("encoder"))
         /\ Len(todo) \in Nat \ {0} /\ Len(Tail(todo)) = Len(todo) - 1
         /\ \A i \in 1 .. Len(todo) - 1 : Tail(todo)[i] = todo[i + 1]
<1> DEFINE I == Items("decoder") \cup Items("encoder")
<1>1. todo \in Seq(I)
  BY DEF Typed
<1> HIDE DEF I
<1>2. /\ Head(todo) = todo[1] /\ todo[1] \in I /\ Tail(todo) \in Seq(I)
      /\ Len(todo) \in Nat \ {0} /\ Len(Tail(todo)) = Len(todo) - 1
      /\ \A i \in 1 .. Len(todo) - 1 : Tail(todo)[i] = todo[i + 1]
  BY <1>1
<1>3. "decoder" \in Kinds /\ "encoder" \in Kinds
  BY DEF Kinds
<1>4. \A k \in Kinds : \A x \in Items(k) :
        x.kind = k /\ x.la \in Assignments(spec.cpu[k], spec.layers[k], spec.groups)
  <2> SUFFICES ASSUME NEW k \in Kinds, NEW x \in Items(k)
               PROVE  x.kind = k /\ x.la \in Assignments(spec.cpu[k], spec.layers[k], spec.groups)
    OBVIOUS
  <2> QED BY DEF Items
<1>5. todo[1] \in Items("decoder") \/ todo[1] \in Items("encoder")
  BY <1>2 DEF I
<1>6. /\ Head(todo).kind \in Kinds
      /\ Head(todo).la \in Assignments(spec.cpu[Head(todo).kind], spec.layers[Head(todo).kind], spec.groups)
  BY <1>2, <1>3, <1>4, <1>5
<1>7. \A k \in Kinds : todo[1] \in Items(k) => Head(todo).kind = k
  BY <1>2, <1>4
<1> QED BY <1>2, <1>6, <1>7 DEF I

(* After its layers are there, there is room for the others.                *)
LEMMA RoomForRest ==
  ASSUME Typed, todo # <<>>, HasRoom(todo), spec' = spec, todo' = todo,
         \A k \in Kinds : Len(net[k]) \in Nat /\ Len(net'[k]) \in Nat,
         \A k \in Kinds : Len(net'[k]) <= IF k = Head(todo).kind /\ IsAppended(k)
                                          THEN Len(net[k]) + MaxLayers ELSE Len(net[k])
  PROVE  HasRoom(Tail(todo))' /\ \A k \in Kinds : CanTake(k, 0)'
<1> DEFINE T(k) == IsAppended(k)
<1>1. PICK m \in 0 .. Len(todo) : RoomFor(todo, m)
  BY DEF HasRoom
<1>2. "decoder" \in Kinds /\ "encoder" \in Kinds /\ Kinds = {"decoder", "encoder"} /\ "decoder" # "encoder"
  BY DEF Kinds
<1>3. /\ Head(todo) = todo[1] /\ Len(todo) \in Nat \ {0} /\ Len(Tail(todo)) = Len(todo) - 1
      /\ \A i \in 1 .. Len(todo) - 1 : Tail(todo)[i] = todo[i + 1]
      /\ \A k \in Kinds : todo[1] \in Items(k) => Head(todo).kind = k
  BY NextItem
<1>4. /\ \A i \in 1 .. m : todo[i] \in Items("decoder")
      /\ \A i \in m + 1 .. Len(todo) : todo[i] \in Items("encoder")
      /\ Takes(Len(net["decoder"]), T("decoder"), m)
      /\ Takes(Len(net["encoder"]), T("encoder"), Len(todo) - m)
  BY <1>1 DEF RoomFor, CanTake
<1>5. \A k \in Kinds : T(k) \in BOOLEAN
  BY DEF IsAppended
<1>6. /\ \A k \in Kinds : IsAppended(k)' <=> IsAppended(k)
      /\ Items("decoder")' = Items("decoder") /\ Items("encoder")' = Items("encoder")
  BY <1>2, SameTypes
<1> HIDE DEF T
<1>7. \A k \in Kinds : /\ k = Head(todo).kind => Len(net'[k]) <= IF T(k) THEN Len(net[k]) + MaxLayers ELSE Len(net[k])
                       /\ k # Head(todo).kind => Len(net'[k]) <= Len(net[k])
  BY DEF T
<1>8. ASSUME NEW k \in Kinds, NEW n \in Nat, k # Head(todo).kind, Takes(Len(net[k]), T(k), n)
      PROVE  Takes(Len(net'[k]), T(k), n)
  <2>1. n * MaxLayers \in Nat /\ Room \in Nat
    BY RoomNumbers
  <2>2. Len(net[k]) + (IF T(k) THEN n * MaxLayers ELSE 0) <= Room
    BY <1>8 DEF Takes
  <2>3. Len(net'[k]) <= Len(net[k]) /\ Len(net'[k]) \in Nat /\ Len(net[k]) \in Nat
    BY <1>7, <1>8
  <2> QED BY <2>1, <2>2, <2>3 DEF Takes
<1>9. ASSUME NEW k \in Kinds, NEW n \in Nat \ {0}, k = Head(todo).kind, Takes(Len(net[k]), T(k), n)
      PROVE  Takes(Len(net'[k]), T(k), n - 1)
  BY <1>5, <1>7, <1>9, RoomForNext
<1>10. \E j \in 0 .. Len(todo) - 1 :
         /\ \A i \in 1 .. j : Tail(todo)[i] \in Items("decoder")
         /\ \A i \in j + 1 .. Len(todo) - 1 : Tail(todo)[i] \in Items("encoder")
         /\ Takes(Len(net'["decoder"]), T("decoder"), j)
         /\ Takes(Len(net'["encoder"]), T("encoder"), (Len(todo) - 1) - j)
  <2>1. CASE m = 0
    <3>1. todo[1] \in Items("encoder")
      BY <1>3, <1>4, <2>1
    <3>2. Head(todo).kind = "encoder"
      BY <1>2, <1>3, <3>1
    <3>3. Takes(Len(net'["decoder"]), T("decoder"), 0)
      BY <1>2, <1>4, <1>8, <2>1, <3>2
    <3>4. Len(todo) - m = Len(todo) /\ (Len(todo) - 1) - 0 = Len(todo) - 1
      BY <1>3, <2>1
    <3>5. Takes(Len(net'["encoder"]), T("encoder"), Len(todo) - 1)
      BY <1>2, <1>3, <1>4, <1>9, <3>2, <3>4
    <3>6. \A i \in 1 .. Len(todo) - 1 : Tail(todo)[i] \in Items("encoder")
      BY <1>3, <1>4, <2>1
    <3>7. 0 \in 0 .. Len(todo) - 1 /\ 1 .. 0 = {} /\ 0 + 1 = 1
      BY <1>3
    <3> QED BY <3>3, <3>4, <3>5, <3>6, <3>7
  <2>2. CASE m # 0
    <3>1. m \in Nat \ {0} /\ 1 \in 1 .. m /\ m - 1 \in 0 .. Len(todo) - 1 /\ m <= Len(todo)
      BY <1>3, <2>2
    <3>2. Head(todo).kind = "decoder"
      BY <1>2, <1>3, <1>4, <3>1
    <3>3. Takes(Len(net'["decoder"]), T("decoder"), m - 1)
      BY <1>2, <1>4, <1>9, <3>1, <3>2
    <3>4. Len(todo) - m \in Nat /\ (Len(todo) - 1) - (m - 1) = Len(todo) - m
      BY <1>3, <3>1
    <3>5. Takes(Len(net'["encoder"]), T("encoder"), Len(todo) - m)
      BY <1>2, <1>4, <1>8, <3>2, <3>4
    <3>6. ASSUME NEW i \in 1 .. m - 1 PROVE Tail(todo)[i] \in Items("decoder")
      <4>1. i + 1 \in 1 .. m /\ i \in 1 .. Len(todo) - 1
        BY <1>3, <3>1
      <4> QED BY <1>3, <1>4, <4>1
    <3>7. ASSUME NEW i \in (m - 1) + 1 .. Len(todo) - 1 PROVE Tail(todo)[i] \in Items("encoder")
      <4>1. i + 1 \in m + 1 .. Len(todo) /\ i \in 1 .. Len(todo) - 1
        BY <1>3, <3>1
      <4> QED BY <1>3, <1>4, <4>1
    <3> QED BY <3>1, <3>3, <3>4, <3>5, <3>6, <3>7
  <2> QED BY <2>1, <2>2
<1>11. PICK j \in 0 .. Len(todo) - 1 :
         /\ \A i \in 1 .. j : Tail(todo)[i] \in Items("decoder")
         /\ \A i \in j + 1 .. Len(todo) - 1 : Tail(todo)[i] \in Items("encoder")
         /\ Takes(Len(net'["decoder"]), T("decoder"), j)
         /\ Takes(Len(net'["encoder"]), T("encoder"), (Len(todo) - 1) - j)
  BY <1>10
<1>12. HasRoom(Tail(todo))'
  <2>1. RoomFor(Tail(todo), j)'
    BY <1>2, <1>3, <1>6, <1>11 DEF RoomFor, CanTake, T, Takes
  <2> QED BY <1>3, <2>1 DEF HasRoom
<1>13. \A k \in Kinds : CanTake(k, 0)'
  <2>1. j \in Nat /\ (Len(todo) - 1) - j \in Nat
    BY <1>3
  <2>2. Takes(Len(net'["decoder"]), T("decoder"), 0) /\ Takes(Len(net'["encoder"]), T("encoder"), 0)
    BY <1>2, <1>5, <1>11, <2>1, RoomForLess
  <2> QED BY <1>2, <1>6, <2>2 DEF CanTake, T, Takes
<1> QED BY <1>12, <1>13

(* A function on 1 .. n with values in S is a sequence over S.              *)
LEMMA AnySequence ==
  ASSUME NEW S, NEW n \in Nat, NEW r, r = [i \in 1 .. n |-> r[i]],
         \A i \in 1 .. n : r[i] \in S
  PROVE  r \in Seq(S) /\ Len(r) = n
<1>1. DOMAIN r = 1 .. n
  OBVIOUS
<1>2. r \in [1 .. n -> S]
  OBVIOUS
<1> QED BY <1>1, <1>2

(* The vector with the layers of an assignment.                             *)
LEMMA LayersPlaced ==
  ASSUME spec \in ModelSpecs, NEW k \in Kinds, NEW q \in Seq(Entries(k)), NEW r,
         NEW la \in Assignments(spec.cpu[k], spec.layers[k], spec.groups),
         NEW appended \in BOOLEAN,
         \A l \in la.start .. la.end - 1 : l < spec.layers[k],
         r = [i \in 1 .. (IF appended THEN Len(q) + la.end - la.start ELSE Len(q)) |-> r[i]],
         \A i \in 1 .. (IF appended THEN Len(q) + la.end - la.start ELSE Len(q)) :
           \/ \E l \in la.start .. la.end - 1 : r[i] = Layer(l, "hollow", la.group)
           \/ i <= Len(q) /\ r[i] = q[i]
  PROVE  /\ r \in Seq(Entries(k)) /\ Len(r) \in Nat
         /\ Len(r) <= IF appended THEN Len(q) + MaxLayers ELSE Len(q)
<1> DEFINE ids  == la.start .. la.end - 1
           last == IF appended THEN Len(q) + la.end - la.start ELSE Len(q)
<1>1. /\ la.group \in 0 .. spec.groups - 1 /\ la.start \in Nat /\ la.end \in Int
      /\ la.start < la.end /\ la.end - la.start <= MaxLayers
  BY AnyAssignment
<1>2. /\ Len(q) \in Nat /\ spec.layers[k] \in Nat /\ spec.groups \in Nat \ {0} /\ MaxLayers \in Nat
      /\ \A i \in 1 .. Len(q) : q[i] \in Entries(k)
  BY Numbers, BuildingAssumption
<1>3. last \in Nat /\ last <= IF appended THEN Len(q) + MaxLayers ELSE Len(q)
  BY <1>1, <1>2
<1>4. ASSUME NEW i \in 1 .. last PROVE r[i] \in Entries(k)
  <2>1. ASSUME NEW l \in ids, r[i] = Layer(l, "hollow", la.group) PROVE r[i] \in Entries(k)
    <3>1. l < spec.layers[k] /\ l \in Int /\ l >= la.start
      BY <1>1, <2>1
    <3>2. l \in -1 .. spec.layers[k] - 1 /\ la.group \in -1 .. spec.groups - 1
      BY <1>1, <1>2, <3>1, SMTT(30)
    <3> QED BY <2>1, <3>2 DEF Layer, Entries
  <2>2. CASE i <= Len(q) /\ r[i] = q[i]
    BY <1>2, <1>3, <2>2
  <2> QED BY <2>1, <2>2
<1>5. r = [i \in 1 .. last |-> r[i]]
  OBVIOUS
<1> HIDE DEF last
<1>6. last \in Nat /\ \A i \in 1 .. last : r[i] \in Entries(k)
  BY <1>3, <1>4
<1>7. r \in Seq(Entries(k)) /\ Len(r) = last
  BY <1>5, <1>6, AnySequence
<1> QED BY <1>3, <1>7

(* StartBuilders appends the next assignment's layers, or finds them.       *)
LEMMA TypeStart ==
  ASSUME MBTypeInv, StartBuilders
  PROVE  MBTypeInv'
<1> DEFINE k   == Head(todo).kind
           la  == Head(todo).la
           ids == la.start .. la.end - 1
           Place(l) == IF IsAppended(k) THEN Len(net[k]) + 1 + l - la.start ELSE l + 1
           known == \A l \in ids : l < spec.layers[k] /\ (IsAppended(k) \/ IsUsable(k, l))
           last == IF IsAppended(k) THEN Len(net[k]) + la.end - la.start ELSE Len(net[k])
           r   == [i \in 1 .. last |->
                     IF \E l \in ids : Place(l) = i
                     THEN Layer(CHOOSE l \in ids : Place(l) = i, "hollow", la.group)
                     ELSE net[k][i]]
<1>1. /\ Typed /\ VectorsOK /\ stage = "group" /\ todo # <<>> /\ spec' = spec
      /\ UNCHANGED <<unread, todo, ret, workers, cpu_end, pass, dropped>>
  BY DEF MBTypeInv, StartBuilders
<1>2. /\ k \in Kinds /\ la \in Assignments(spec.cpu[k], spec.layers[k], spec.groups)
  BY <1>1, NextItem
<1>3. /\ spec \in ModelSpecs /\ net = [j \in Kinds |-> net[j]]
      /\ \A j \in Kinds : net[j] \in Seq(Entries(j))
      /\ "decoder" \in Kinds /\ "encoder" \in Kinds
  BY <1>1 DEF Typed, Kinds
<1>4. \A j \in Kinds : Entries(j)' = Entries(j) /\ Items(j)' = Items(j)
  BY <1>1, SameTypes
<1>5. CASE ~known
  <2>1. stage' = "undefined" /\ UNCHANGED <<net, builder, joined>>
    BY <1>5 DEF StartBuilders
  <2>2. VectorsOK'
    BY <1>1, <2>1, VectorsKept
  <2>3. Typed'
    BY <1>1, <1>3, <1>4, <2>1 DEF Typed, Stages
  <2> QED BY <2>2, <2>3 DEF MBTypeInv
<1>6. CASE known
  <2>1. /\ net' = [net EXCEPT ![k] = r]
        /\ builder' = [b \in Builders |->
             [ state |-> "running", tasks |-> {Place(l) : l \in {x \in ids : x % BuilderCount = b}} ]]
        /\ joined' = 0 /\ stage' = "join"
    BY <1>6 DEF StartBuilders
  <2>2. la.start \in Nat /\ la.end \in Int /\ Len(net[k]) \in Nat /\ IsAppended(k) \in BOOLEAN
    BY <1>2, <1>3, AnyAssignment DEF IsAppended
  <2> HIDE DEF k, la
  <2>3. \A l \in ids : Place(l) \in Int
    BY <2>2
  <2>4. builder' \in [Builders -> [tasks : SUBSET Int, state : {"idle", "running", "done", "error"}]]
    <3> DEFINE B(b) == {Place(l) : l \in {x \in ids : x % BuilderCount = b}}
    <3>1. \A b \in Builders : B(b) \in SUBSET Int
      BY <2>3
    <3>2. builder' = [b \in Builders |-> [state |-> "running", tasks |-> B(b)]]
      BY <2>1
    <3> HIDE DEF B
    <3> QED BY <3>1, <3>2
  <2>5. joined' \in Builders
    BY <2>1, BuildingAssumption DEF Builders
  <2>6. ASSUME NEW i \in 1 .. last
        PROVE  \/ \E l \in ids : r[i] = Layer(l, "hollow", la.group)
               \/ i <= Len(net[k]) /\ r[i] = net[k][i]
    <3>1. CASE \E l \in ids : Place(l) = i
      <4>1. (CHOOSE l \in ids : Place(l) = i) \in ids
        BY <3>1
      <4>2. r[i] = Layer(CHOOSE l \in ids : Place(l) = i, "hollow", la.group)
        BY <3>1
      <4> QED BY <4>1, <4>2
    <3>2. CASE ~ \E l \in ids : Place(l) = i
      <4>1. r[i] = net[k][i]
        BY <3>2
      <4> HIDE DEF r
      <4>2. CASE IsAppended(k) /\ i > Len(net[k])
        <5> DEFINE l == i - Len(net[k]) - 1 + la.start
        <5>1. i <= Len(net[k]) + la.end - la.start /\ i \in Int
          BY <2>2, <4>2
        <5>2. l \in ids
          BY <2>2, <4>2, <5>1
        <5>3. Place(l) = i
          <6>1. Place(l) = Len(net[k]) + 1 + l - la.start
            BY <4>2
          <6>2. \A n, m, j \in Int : n + 1 + (j - n - 1 + m) - m = j
            OBVIOUS
          <6>3. Len(net[k]) \in Int /\ la.start \in Int /\ i \in Int
            BY <2>2, <5>1
          <6>4. Len(net[k]) + 1 + l - la.start = i
            BY <6>2, <6>3
          <6> QED BY <6>1, <6>4
        <5> QED BY <3>2, <5>2, <5>3
      <4>3. CASE i <= Len(net[k])
        BY <4>1, <4>3
      <4>4. i \in Int /\ (~IsAppended(k) => i <= Len(net[k]))
        BY <2>2
      <4>5. i > Len(net[k]) \/ i <= Len(net[k])
        BY <2>2, <4>4
      <4> QED BY <4>2, <4>3, <4>4, <4>5
    <3> QED BY <3>1, <3>2
  <2>7. /\ r \in Seq(Entries(k)) /\ Len(r) \in Nat
        /\ Len(r) <= IF IsAppended(k) THEN Len(net[k]) + MaxLayers ELSE Len(net[k])
    <3>1. PICK q : q = net[k]
      OBVIOUS
    <3>2. r = [i \in 1 .. last |-> r[i]] /\ \A l \in ids : l < spec.layers[k]
      BY <1>6
    <3> HIDE DEF r, k, la
    <3> QED BY <1>2, <1>3, <2>2, <2>6, <3>1, <3>2, LayersPlaced
  <2> HIDE DEF r
  <2>8. /\ net' = [j \in Kinds |-> net'[j]] /\ net'[k] = r
        /\ \A j \in Kinds : j # k => net'[j] = net[j]
    BY <1>2, <1>3, <2>1
  <2>9. \A j \in Kinds : net'[j] \in Seq(Entries(j)) /\ Len(net[j]) \in Nat /\ Len(net'[j]) \in Nat
    <3> SUFFICES ASSUME NEW j \in Kinds
                 PROVE  net'[j] \in Seq(Entries(j)) /\ Len(net[j]) \in Nat /\ Len(net'[j]) \in Nat
      OBVIOUS
    <3>1. net[j] \in Seq(Entries(j)) /\ Len(net[j]) \in Nat
      BY <1>3
    <3>2. CASE j = k
      BY <2>7, <2>8, <3>1, <3>2
    <3>3. CASE j # k
      BY <2>8, <3>1, <3>3
    <3> QED BY <3>2, <3>3
  <2>10. \A j \in Kinds : Len(net'[j]) <= IF j = Head(todo).kind /\ IsAppended(j)
                                          THEN Len(net[j]) + MaxLayers ELSE Len(net[j])
    <3> SUFFICES ASSUME NEW j \in Kinds
                 PROVE  Len(net'[j]) <= IF j = k /\ IsAppended(j)
                                        THEN Len(net[j]) + MaxLayers ELSE Len(net[j])
      BY DEF k
    <3> QED BY <2>7, <2>8, <2>9
  <2>11. HasRoom(Tail(todo))' /\ \A j \in Kinds : CanTake(j, 0)'
    <3>1. HasRoom(todo) /\ todo' = todo
      BY <1>1 DEF VectorsOK
    <3> QED BY <1>1, <2>9, <2>10, <3>1, RoomForRest
  <2>12. VectorsOK'
    BY <1>1, <2>1, <2>11 DEF VectorsOK
  <2>13. Typed'
    <3> HIDE DEF k
    <3> QED BY <1>1, <1>3, <1>4, <2>1, <2>4, <2>5, <2>8, <2>9 DEF Typed, Stages
  <2> QED BY <2>12, <2>13 DEF MBTypeInv
<1> QED BY <1>5, <1>6

(* A vector of layers after a layer is built.                               *)
LEMMA LayerBuilt ==
  ASSUME NEW k \in Kinds, NEW q \in Seq(Entries(k)), NEW i
  PROVE  /\ [q EXCEPT ![i].state = "built"] \in Seq(Entries(k))
         /\ Len([q EXCEPT ![i].state = "built"]) = Len(q)
<1>1. CASE i \in DOMAIN q
  <2>1. PICK x : x = [q[i] EXCEPT !.state = "built"]
    OBVIOUS
  <2>2. q[i] \in Entries(k)
    BY <1>1
  <2>3. x \in Entries(k)
    BY <2>1, <2>2 DEF Entries
  <2>4. [q EXCEPT ![i].state = "built"] = [q EXCEPT ![i] = x]
    BY <2>1
  <2>5. [q EXCEPT ![i] = x] \in Seq(Entries(k)) /\ Len([q EXCEPT ![i] = x]) = Len(q)
    BY <2>3, ElementChanged
  <2> QED BY <2>4, <2>5
<1>2. CASE i \notin DOMAIN q
  <2>1. [q EXCEPT ![i].state = "built"] = q
    BY <1>2
  <2> QED BY <2>1
<1> QED BY <1>1, <1>2

(* A builder thread builds a layer, fails, or ends.                         *)
LEMMA TypeBuilder ==
  ASSUME MBTypeInv, NEW b \in Builders, BuilderRun(b)
  PROVE  MBTypeInv'
<1> DEFINE k == Head(todo).kind
           R == [tasks : SUBSET Int, state : {"idle", "running", "done", "error"}]
<1>1. /\ Typed /\ VectorsOK /\ stage = "join" /\ spec' = spec /\ stage' = stage
      /\ UNCHANGED <<unread, todo, joined, ret, workers, cpu_end, pass, dropped>>
  BY DEF MBTypeInv, BuilderRun
<1>2. k \in Kinds
  <2>1. todo # <<>>
    BY <1>1 DEF VectorsOK
  <2> QED BY <1>1, <2>1, NextItem
<1>3. /\ net = [j \in Kinds |-> net[j]] /\ \A j \in Kinds : net[j] \in Seq(Entries(j))
      /\ builder \in [Builders -> R] /\ builder[b] \in R
      /\ "decoder" \in Kinds /\ "encoder" \in Kinds
  BY <1>1 DEF Typed, Kinds
<1>4. \/ UNCHANGED net /\ builder' = [builder EXCEPT ![b].state = "done"]
      \/ UNCHANGED net /\ builder' = [builder EXCEPT ![b].state = "error"]
      \/ \E i : /\ net' = [net EXCEPT ![k][i].state = "built"]
                /\ builder' = [builder EXCEPT ![b].tasks = @ \ {i}]
  BY DEF BuilderRun
<1> HIDE DEF k
<1>5. builder' \in [Builders -> R]
  <2>1. ASSUME NEW x \in R, builder' = [builder EXCEPT ![b] = x] PROVE builder' \in [Builders -> R]
    <3> HIDE DEF R
    <3> QED BY <1>3, <2>1
  <2>2. CASE \E e \in {"done", "error"} : builder' = [builder EXCEPT ![b].state = e]
    <3>1. PICK e \in {"done", "error"} : builder' = [builder EXCEPT ![b].state = e]
      BY <2>2
    <3>2. PICK x : x = [builder[b] EXCEPT !.state = e]
      OBVIOUS
    <3>3. x \in R
      BY <1>3, <3>2
    <3>4. builder' = [builder EXCEPT ![b] = x]
      BY <3>1, <3>2
    <3> QED BY <2>1, <3>3, <3>4
  <2>3. CASE \E i : builder' = [builder EXCEPT ![b].tasks = @ \ {i}]
    <3>1. PICK i : builder' = [builder EXCEPT ![b].tasks = @ \ {i}]
      BY <2>3
    <3>2. PICK x : x = [builder[b] EXCEPT !.tasks = @ \ {i}]
      OBVIOUS
    <3>3. x \in R
      BY <1>3, <3>2
    <3>4. builder' = [builder EXCEPT ![b] = x]
      BY <3>1, <3>2
    <3> QED BY <2>1, <3>3, <3>4
  <2> QED BY <1>4, <2>2, <2>3
<1>6. /\ net' = [j \in Kinds |-> net'[j]]
      /\ \A j \in Kinds : net'[j] \in Seq(Entries(j)) /\ Len(net'[j]) = Len(net[j])
  <2>1. CASE UNCHANGED net
    BY <1>3, <2>1
  <2>2. ASSUME NEW i, net' = [net EXCEPT ![k][i].state = "built"]
        PROVE  /\ net' = [j \in Kinds |-> net'[j]]
               /\ \A j \in Kinds : net'[j] \in Seq(Entries(j)) /\ Len(net'[j]) = Len(net[j])
    <3> DEFINE q == net[k]
               r == [q EXCEPT ![i].state = "built"]
    <3>1. r \in Seq(Entries(k)) /\ Len(r) = Len(net[k])
      <4>1. q \in Seq(Entries(k))
        BY <1>2, <1>3
      <4> HIDE DEF q
      <4>2. r \in Seq(Entries(k)) /\ Len(r) = Len(q)
        BY <1>2, <4>1, LayerBuilt
      <4> QED BY <4>2 DEF q
    <3>2. net' = [net EXCEPT ![k] = r]
      BY <2>2
    <3> HIDE DEF r, q
    <3>3. /\ net' = [j \in Kinds |-> net'[j]] /\ net'[k] = r
          /\ \A j \in Kinds : j # k => net'[j] = net[j]
      BY <1>2, <1>3, <3>2
    <3>4. ASSUME NEW j \in Kinds PROVE net'[j] \in Seq(Entries(j)) /\ Len(net'[j]) = Len(net[j])
      <4>1. CASE j = k
        BY <3>1, <3>3, <4>1
      <4>2. CASE j # k
        BY <1>3, <3>3, <4>2
      <4> QED BY <4>1, <4>2
    <3> QED BY <3>3, <3>4
  <2> QED BY <1>4, <2>1, <2>2
<1>7. VectorsOK'
  BY <1>1, <1>6, VectorsKept
<1>8. Typed'
  <2>1. \A j \in Kinds : Entries(j)' = Entries(j) /\ Items(j)' = Items(j)
    BY <1>1, SameTypes
  <2> QED BY <1>1, <1>3, <1>5, <1>6, <2>1 DEF Typed
<1> QED BY <1>7, <1>8 DEF MBTypeInv

(* The assignments left, once a group's last thread is joined.              *)
LEMMA TypeJoin ==
  ASSUME MBTypeInv, JoinBuilder
  PROVE  MBTypeInv'
<1>1. /\ Typed /\ VectorsOK /\ stage = "join" /\ spec' = spec /\ net' = net
      /\ UNCHANGED <<unread, builder, workers, cpu_end, pass, dropped>>
  BY DEF MBTypeInv, JoinBuilder
<1>2. /\ todo # <<>> /\ HasRoom(Tail(todo)) /\ \A k \in Kinds : CanTake(k, 0)
  BY <1>1 DEF VectorsOK
<1>3. \A k \in Kinds : Entries(k)' = Entries(k) /\ Items(k)' = Items(k)
  BY <1>1, SameTypes
<1>4. "decoder" \in Kinds /\ "encoder" \in Kinds
  BY DEF Kinds
<1>5. joined \in 0 .. BuilderCount - 1 /\ BuilderCount \in Nat \ {0}
  BY <1>1, BuildingAssumption DEF Typed, Builders
<1>6. CASE joined' = joined + 1 /\ joined + 1 # BuilderCount /\ UNCHANGED <<stage, todo, ret>>
  <2>1. joined' \in Builders
    BY <1>5, <1>6 DEF Builders
  <2>2. VectorsOK'
    BY <1>1, <1>6, VectorsKept
  <2>3. Typed'
    BY <1>1, <1>3, <1>4, <1>6, <2>1 DEF Typed
  <2> QED BY <2>2, <2>3 DEF MBTypeInv
<1>7. CASE stage' = "terminated" /\ UNCHANGED <<todo, joined, ret>>
  <2>1. VectorsOK'
    BY <1>1, <1>7, VectorsKept
  <2>2. Typed'
    BY <1>1, <1>3, <1>4, <1>7 DEF Typed, Stages
  <2> QED BY <2>1, <2>2 DEF MBTypeInv
<1>8. CASE /\ ret' \in BOOLEAN /\ todo' = Tail(todo) /\ stage' \in {"failed", "group"}
           /\ UNCHANGED joined
  <2>1. PICK t : t = Tail(todo)
    OBVIOUS
  <2>2. HasRoom(todo)'
    <3>1. todo' = t /\ HasRoom(t) /\ \A k \in Kinds : Len(net'[k]) = Len(net[k])
      BY <1>1, <1>2, <1>8, <2>1
    <3> QED BY <1>1, <3>1, SameRoom
  <2>3. \A k \in Kinds : CanTake(k, 0)'
    <3> SUFFICES ASSUME NEW k \in Kinds PROVE CanTake(k, 0)'
      OBVIOUS
    <3>1. IsAppended(k)' <=> IsAppended(k)
      BY <1>1, SameTypes
    <3> QED BY <1>1, <1>2, <3>1 DEF CanTake, Takes
  <2>4. VectorsOK'
    BY <1>8, <2>2, <2>3 DEF VectorsOK
  <2>5. todo' \in Seq(Items("decoder") \cup Items("encoder"))
    BY <1>1, <1>2, <1>8, NextItem
  <2>6. Typed'
    BY <1>1, <1>3, <1>4, <1>8, <2>5 DEF Typed, Stages
  <2> QED BY <2>4, <2>6 DEF MBTypeInv
<1>9. \/ joined' = joined + 1 /\ joined + 1 # BuilderCount /\ UNCHANGED <<stage, todo, ret>>
      \/ stage' = "terminated" /\ UNCHANGED <<todo, joined, ret>>
      \/ /\ ret' \in BOOLEAN /\ todo' = Tail(todo) /\ stage' \in {"failed", "group"}
         /\ UNCHANGED joined
  BY DEF JoinBuilder
<1> QED BY <1>6, <1>7, <1>8, <1>9


(* Steps after the network is built.                                        *)
LEMMA TypeLater ==
  ASSUME MBTypeInv, spec' = spec, net' = net, UNCHANGED <<unread, todo, builder, joined, ret>>,
         \/ stage' = stage
         \/ stage' \in {"failed", "undefined", "hung", "stale", "cpu", "serving", "pass", "passed"},
         dropped' \subseteq {"worker", "layer"} \X (1 .. spec.groups),
         Len(workers') \in {0, spec.groups}, cpu_end' \in 0 .. spec.layers["decoder"],
         pass' = [kind |-> pass'.kind, next |-> pass'.next, trace |-> pass'.trace],
         pass'.kind \in Kinds, pass'.next \in 1 .. spec.groups + 1
  PROVE  MBTypeInv'
<1>1. Typed /\ stage' \in Stages
  BY DEF MBTypeInv, Typed, Stages
<1>2. VectorsOK'
  BY VectorsKept
<1>3. Typed'
  <2>1. \A k \in Kinds : Entries(k)' = Entries(k) /\ Items(k)' = Items(k)
    BY SameTypes
  <2>2. "decoder" \in Kinds /\ "encoder" \in Kinds
    BY DEF Kinds
  <2> QED BY <1>1, <2>1, <2>2 DEF Typed
<1> QED BY <1>2, <1>3 DEF MBTypeInv

(* CheckDeviceModel and CreateGpuWorkers: a worker group for every device   *)
(* group, or none.                                                          *)
LEMMA TypeCheck ==
  ASSUME MBTypeInv, CheckDeviceModel
  PROVE  MBTypeInv'
<1>1. /\ Typed /\ spec' = spec /\ net' = net
      /\ UNCHANGED <<unread, todo, builder, joined, ret, cpu_end, pass>>
      /\ stage' \in {"failed", "undefined", "cpu"}
      /\ \/ workers' = workers /\ dropped' = dropped
         \/ workers' = CreateGpuWorkers /\ InitWorkers(DOMAIN CreateGpuWorkers)
  BY DEF MBTypeInv, CheckDeviceModel
<1>2. spec \in ModelSpecs /\ Len(workers) \in {0, spec.groups}
  BY <1>1 DEF Typed
<1>3. Len(CreateGpuWorkers) \in {0, spec.groups}
  <2> DEFINE W(g) == [k \in Kinds |-> GroupLayerRange(k, g)]
  <2>1. CreateGpuWorkers = [g \in 1 .. spec.groups |-> W(g)] \/ CreateGpuWorkers = <<>>
    BY DEF CreateGpuWorkers
  <2>2. spec.groups \in Nat
    BY <1>2, Numbers
  <2> HIDE DEF W
  <2>3. Len([g \in 1 .. spec.groups |-> W(g)]) = spec.groups /\ Len(<<>>) = 0
    BY <2>2
  <2> QED BY <2>1, <2>3
<1>5. dropped' \subseteq {"worker", "layer"} \X (1 .. spec.groups)
  <2>1. DOMAIN CreateGpuWorkers \subseteq 1 .. spec.groups
    BY DEF CreateGpuWorkers
  <2>2. dropped \subseteq {"worker", "layer"} \X (1 .. spec.groups)
    BY <1>1 DEF Typed
  <2> QED BY <1>1, <2>1, <2>2 DEF InitWorkers
<1>4. /\ Len(workers') \in {0, spec.groups} /\ cpu_end' \in 0 .. spec.layers["decoder"]
      /\ pass' = [kind |-> pass'.kind, next |-> pass'.next, trace |-> pass'.trace]
      /\ pass'.kind \in Kinds /\ pass'.next \in 1 .. spec.groups + 1
  BY <1>1, <1>2, <1>3 DEF Typed
<1> QED BY <1>1, <1>4, <1>5, TypeLater

(* The CPU worker ends at a layer of the decoder.                           *)
LEMMA TypeCpu ==
  ASSUME MBTypeInv, CreateCpuWorker
  PROVE  MBTypeInv'
<1>1. /\ Typed /\ spec' = spec /\ net' = net
      /\ UNCHANGED <<unread, todo, builder, joined, ret, workers, pass, dropped>>
      /\ stage' \in {"failed", "serving"}
      /\ \/ cpu_end' = cpu_end
         \/ cpu_end' = IF spec.cpu["decoder"] < spec.layers["decoder"]
                       THEN spec.cpu["decoder"] ELSE spec.layers["decoder"]
  BY DEF MBTypeInv, CreateCpuWorker
<1>2. spec \in ModelSpecs /\ "decoder" \in Kinds
  BY <1>1 DEF Typed, Kinds
<1>3. spec.cpu["decoder"] \in Nat /\ spec.layers["decoder"] \in Nat
  BY <1>2, Numbers
<1>4. cpu_end' \in 0 .. spec.layers["decoder"]
  BY <1>1, <1>3, SMTT(30) DEF Typed
<1>5. /\ Len(workers') \in {0, spec.groups}
      /\ pass' = [kind |-> pass'.kind, next |-> pass'.next, trace |-> pass'.trace]
      /\ pass'.kind \in Kinds /\ pass'.next \in 1 .. spec.groups + 1
      /\ dropped' \subseteq {"worker", "layer"} \X (1 .. spec.groups)
  BY <1>1 DEF Typed
<1> QED BY <1>1, <1>4, <1>5, TypeLater

(* A pass has come to the group after those that exist at most.             *)
LEMMA TypePass ==
  ASSUME MBTypeInv, BeginPass \/ RunWorkers \/ LayerFails
  PROVE  MBTypeInv'
<1>1. /\ Typed /\ spec' = spec /\ net' = net
      /\ UNCHANGED <<unread, todo, builder, joined, ret, workers, cpu_end>>
      /\ stage' = stage \/ stage' \in {"undefined", "hung", "stale", "pass", "passed"}
      /\ dropped' = dropped \/ dropped' = dropped \cup {<<"layer", pass.next>>}
  BY DEF MBTypeInv, BeginPass, RunWorkers, LayerFails
<1>2. /\ spec \in ModelSpecs /\ pass.kind \in Kinds /\ pass.next \in 1 .. spec.groups + 1
      /\ pass = [kind |-> pass.kind, next |-> pass.next, trace |-> pass.trace]
      /\ Len(workers) \in {0, spec.groups} /\ cpu_end \in 0 .. spec.layers["decoder"]
  BY <1>1 DEF Typed
<1>3. spec.groups \in Nat \ {0}
  BY <1>2, Numbers
<1>4. /\ pass' = [kind |-> pass'.kind, next |-> pass'.next, trace |-> pass'.trace]
      /\ pass'.kind \in Kinds /\ pass'.next \in 1 .. spec.groups + 1
  <2>1. CASE BeginPass
    <3>1. PICK k \in Kinds : \E t : pass' = [kind |-> k, next |-> 1, trace |-> t]
      BY <2>1, ZenonT(60) DEF BeginPass, Kinds
    <3>2. 1 \in 1 .. spec.groups + 1
      BY <1>3
    <3> QED BY <3>1, <3>2
  <2>2. CASE RunWorkers
    <3>1. pass.next <= Len(workers)
      BY <2>2 DEF RunWorkers, IsOver
    <3>2. pass.next + 1 \in 1 .. spec.groups + 1
      BY <1>2, <1>3, <3>1
    <3>3. CASE pass' = pass
      BY <1>2, <3>3
    <3>4. CASE \E u : pass' = [pass EXCEPT !.next = @ + 1, !.trace = u]
      <4>1. PICK u : pass' = [pass EXCEPT !.next = @ + 1, !.trace = u]
        BY <3>4
      <4>2. pass' = [kind |-> pass.kind, next |-> pass.next + 1, trace |-> u]
        BY <1>2, <4>1
      <4> QED BY <1>2, <3>2, <4>2
    <3>5. pass' = pass \/ \E u : pass' = [pass EXCEPT !.next = @ + 1, !.trace = u]
      BY <2>2 DEF RunWorkers
    <3> QED BY <3>3, <3>4, <3>5
  <2>3. CASE LayerFails
    BY <1>2, <2>3 DEF LayerFails
  <2> QED BY <2>1, <2>2, <2>3
<1>6. dropped' \subseteq {"worker", "layer"} \X (1 .. spec.groups)
  <2>1. dropped \subseteq {"worker", "layer"} \X (1 .. spec.groups)
    BY <1>1 DEF Typed
  <2>2. CASE dropped' = dropped
    BY <2>1, <2>2
  <2>3. CASE LayerFails
    <3>1. pass.next <= Len(workers)
      BY <2>3 DEF LayerFails, IsOver
    <3>2. pass.next \in 1 .. spec.groups
      BY <1>2, <1>3, <3>1
    <3> QED BY <1>1, <2>1, <3>2
  <2> QED BY <2>2, <2>3 DEF BeginPass, RunWorkers
<1>5. Len(workers') \in {0, spec.groups} /\ cpu_end' \in 0 .. spec.layers["decoder"]
  BY <1>1, <1>2
<1> QED BY <1>1, <1>4, <1>5, <1>6, TypeLater, SMTT(30)

(* The invariant is inductive.                                              *)
LEMMA TypeStep == MBTypeInv /\ [MBNext]_mbVars => MBTypeInv'
<1> SUFFICES ASSUME MBTypeInv, [MBNext]_mbVars PROVE MBTypeInv'
  OBVIOUS
<1>1. CASE UNCHANGED mbVars
  <2>1. /\ Typed /\ spec' = spec /\ net' = net /\ workers' = workers /\ cpu_end' = cpu_end /\ pass' = pass
        /\ stage' = stage /\ UNCHANGED <<unread, todo, builder, joined, ret, dropped>>
    BY <1>1 DEF mbVars, MBTypeInv
  <2>2. /\ Len(workers') \in {0, spec.groups} /\ cpu_end' \in 0 .. spec.layers["decoder"]
        /\ pass' = [kind |-> pass'.kind, next |-> pass'.next, trace |-> pass'.trace]
        /\ pass'.kind \in Kinds /\ pass'.next \in 1 .. spec.groups + 1
        /\ dropped' \subseteq {"worker", "layer"} \X (1 .. spec.groups)
    BY <2>1 DEF Typed
  <2> QED BY <2>1, <2>2, TypeLater
<1>2. CASE MBStep
  <2>1. CASE InitNetworkStructure
    BY <2>1, TypeStructure
  <2>2. CASE \E l \in unread : ReadLayer(l)
    BY <2>2, TypeRead
  <2>3. CASE LoadFails \/ HostModel \/ NotPartitionable \/ BuildDeviceTensor_ForceDequant \/ EndPass
    BY <2>3, TypeStage
  <2>4. CASE BuildDeviceNetwork
    BY <2>4, TypeBuild
  <2>5. CASE StartBuilders
    BY <2>5, TypeStart
  <2>6. CASE \E b \in Builders : BuilderRun(b)
    BY <2>6, TypeBuilder
  <2>7. CASE JoinBuilder
    BY <2>7, TypeJoin
  <2>8. CASE CheckDeviceModel
    BY <2>8, TypeCheck
  <2>9. CASE CreateCpuWorker
    BY <2>9, TypeCpu
  <2>10. CASE BeginPass \/ RunWorkers \/ LayerFails
    BY <2>10, TypePass
  <2> QED BY <1>2, <2>1, <2>2, <2>3, <2>4, <2>5, <2>6, <2>7, <2>8, <2>9, <2>10 DEF MBStep
<1> QED BY <1>1, <1>2 DEF MBNext

(* The types of the building of a model, for every description of a model:  *)
(* also when SplitGpuLayers leaves groups without layers, or gives layers   *)
(* to two of them, the vectors of device layers stay within what the groups *)
(* and the CPU's layers can fill, and every layer in them is one of the     *)
(* model's, on a group that exists.                                         *)
THEOREM MBTypesAlwaysOK == MBSpec => []MBTypeOK
<1>1. MBTypeInv => MBTypeOK
  <2> SUFFICES ASSUME MBTypeInv PROVE MBTypeOK
    OBVIOUS
  <2>1. Typed /\ \A k \in Kinds : CanTake(k, 0)
    BY DEF MBTypeInv, VectorsOK
  <2>2. ASSUME NEW k \in Kinds
        PROVE  /\ DOMAIN net[k] \subseteq Positions
               /\ \A i \in DOMAIN net[k] : net[k][i] \in Entries(k)
    <3>1. net[k] \in Seq(Entries(k)) /\ Len(net[k]) \in Nat /\ DOMAIN net[k] = 1 .. Len(net[k])
      BY <2>1 DEF Typed
    <3>2. Len(net[k]) <= Room
      <4>1. 0 * MaxLayers = 0
        BY RoomNumbers
      <4>2. Takes(Len(net[k]), IsAppended(k), 0)
        BY <2>1 DEF CanTake
      <4>3. Len(net[k]) + 0 <= Room
        BY <4>1, <4>2 DEF Takes
      <4> QED BY <3>1, <4>3
    <3>3. Positions = 1 .. Room
      BY DEF Positions, Room
    <3> QED BY <3>1, <3>2, <3>3, RoomNumbers
  <2>3. \A b \in Builders : builder[b].state \in {"idle", "running", "done", "error"}
    BY <2>1 DEF Typed
  <2> QED BY <2>1, <2>2, <2>3 DEF MBTypeOK, Typed, Stages, Entries
<1> QED BY <1>1, TypeInit, TypeStep, PTL DEF MBSpec

==============================================================================
