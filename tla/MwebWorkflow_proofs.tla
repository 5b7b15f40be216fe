------------------------ MODULE MwebWorkflow_proofs ------------------------
(***************************************************************************)
(* Proofs about MwebWorkflow, for any number of parties, maps and offers.  *)
(* They rest on what arrives when a copy is sent (MwebTransit_proofs).     *)
(***************************************************************************)
EXTENDS MwebTransit_proofs

-----------------------------------------------------------------------------
(* Writing and combining.                                                  *)

\* The map of a copy at a place: Target of an offer or of a fact.
Place(x) ==
  /\ x.part \in Parts \cup {"offsets"} /\ x.index \in Index
  /\ x.part = "offsets" => x.index = 1

\* MwebInput::default() and its like are maps without a field.
LEMMA DefaultMap ==
  /\ DOMAIN Default = {}
  /\ \A F : IsMap(Default, F)
  BY Zenon DEF Default, IsMap

\* Merging two maps of a part gives a map of the part.
LEMMA MergedMap ==
  ASSUME NEW F, NEW a, IsMap(a, F), NEW b, IsMap(b, F)
  PROVE  IsMap(Merge(a, b), F)
<1> DEFINE m == Merge(a, b)
<1>1. m = [f \in DOMAIN a \cup DOMAIN b |-> IF f \in DOMAIN a THEN a[f] ELSE b[f]]
  BY Zenon DEF Merge
<1> HIDE DEF m
<1>2. m = [f \in DOMAIN m |-> m[f]] /\ DOMAIN m \subseteq F
  BY <1>1, Zenon DEF IsMap
<1>3. ASSUME "pegouts" \in DOMAIN m PROVE IsVec(m.pegouts) /\ Len(m.pegouts) > 0
  BY <1>1, <1>3, Zenon DEF IsMap
<1>. QED  BY <1>2, <1>3, Zenon DEF IsMap, m

IsMerged(z, x, y) ==
  z = [i \in DOMAIN x \cup DOMAIN y |-> Merge(MapAt(x, i), MapAt(y, i))]
LongerLen(x, y) == IF Len(x) >= Len(y) THEN Len(x) ELSE Len(y)

\* Vectors are combined index by index, and the longer one gives the length.
LEMMA MergedMaps ==
  ASSUME NEW part, NEW x, AreMaps(part, x), NEW y, AreMaps(part, y), NEW z, IsMerged(z, x, y)
  PROVE  /\ AreMaps(part, z)
         /\ Len(z) = LongerLen(x, y)
         /\ \A i \in Index : MapAt(z, i) = Merge(MapAt(x, i), MapAt(y, i))
<1> DEFINE k == LongerLen(x, y)
<1>1. /\ Len(x) \in Nat /\ DOMAIN x = 1 .. Len(x) /\ Len(y) \in Nat /\ DOMAIN y = 1 .. Len(y)
      /\ DOMAIN x \cup DOMAIN y = 1 .. k /\ k \in Nat
  <2>1. Len(x) \in Nat /\ DOMAIN x = 1 .. Len(x) /\ Len(y) \in Nat /\ DOMAIN y = 1 .. Len(y)
    BY VecDomain, Zenon DEF AreMaps
  <2>. QED  BY <2>1 DEF LongerLen
<1>2. z = [i \in 1 .. k |-> z[i]] /\ \A i \in 1 .. k : z[i] = Merge(MapAt(x, i), MapAt(y, i))
  BY <1>1, Zenon DEF IsMerged
<1> HIDE DEF k
<1>3. Len(z) = k /\ IsVec(z) /\ DOMAIN z = 1 .. k
  BY <1>1, <1>2, VecLen, Zenon
<1>4. ASSUME NEW i \in DOMAIN z PROVE IsMap(z[i], FieldsOf(part))
  <2>1. z[i] = Merge(MapAt(x, i), MapAt(y, i))
    BY <1>2, <1>3, Zenon
  <2>2. IsMap(MapAt(x, i), FieldsOf(part)) /\ IsMap(MapAt(y, i), FieldsOf(part))
    BY DefaultMap, Zenon DEF AreMaps, MapAt
  <2>. QED  BY <2>1, <2>2, MergedMap, Zenon
<1>5. ASSUME NEW i \in Index PROVE MapAt(z, i) = Merge(MapAt(x, i), MapAt(y, i))
  <2>1. CASE i \in DOMAIN z
    BY <1>2, <1>3, <2>1, Zenon DEF MapAt
  <2>2. CASE i \notin DOMAIN z
    <3>1. MapAt(x, i) = Default /\ MapAt(y, i) = Default /\ MapAt(z, i) = Default
      BY <1>1, <1>3, <2>2, Zenon DEF MapAt
    <3>2. Merge(Default, Default) = Default
      BY Zenon DEF Merge, Default
    <3>. QED  BY <3>1, <3>2, Zenon
  <2>. QED  BY <2>1, <2>2, Zenon
<1>. QED  BY <1>3, <1>4, <1>5, Zenon DEF AreMaps, k

\* Slots are combined one by one.
LEMMA MergedSlots ==
  ASSUME NEW part, NEW x, AreMaps(part, x), NEW y, AreMaps(part, y), Len(x) = Len(y),
         NEW z, z = [i \in DOMAIN x |-> Merge(x[i], y[i])]
  PROVE  IsMerged(z, x, y)
<1>1. DOMAIN x = DOMAIN y
  BY VecDomain, Zenon DEF AreMaps
<1>. QED  BY <1>1, Zenon DEF MapAt, IsMerged

\* Psbt::combine merges the two maps of every place.
LEMMA Combined ==
  ASSUME NEW a, Shape(a), NEW b, Shape(b)
  PROVE  /\ Shape(CombineMweb(a, b))
         /\ \A part \in Parts : Len(CombineMweb(a, b)[part]) >= Len(a[part])
         /\ \A x : Place(x) => Target(CombineMweb(a, b), x) = Merge(Target(a, x), Target(b, x))
<1> DEFINE c == CombineMweb(a, b)
<1>1. ASSUME NEW part \in Parts PROVE AreMaps(part, a[part]) /\ AreMaps(part, b[part])
  BY Zenon DEF Shape
<1>2. "in_slots" \in Parts /\ "out_slots" \in Parts
  BY Zenon DEF Parts
<1>3. /\ c = [offsets |-> c.offsets, kernels |-> c.kernels, inputs |-> c.inputs,
              outputs |-> c.outputs, in_slots |-> c.in_slots, out_slots |-> c.out_slots]
      /\ c.offsets = Merge(a.offsets, b.offsets)
  BY Zenon DEF CombineMweb
<1>4. /\ IsMerged(c.kernels, a.kernels, b.kernels)
      /\ IsMerged(c.inputs, a.inputs, b.inputs)
      /\ IsMerged(c.outputs, a.outputs, b.outputs)
  BY Zenon DEF CombineMweb, CombineKernel, CombineInput, CombineOutput, IsMerged
<1>5. IsMerged(c.in_slots, a.in_slots, b.in_slots) /\ IsMerged(c.out_slots, a.out_slots, b.out_slots)
  <2>1. Len(a.in_slots) = Len(b.in_slots) /\ Len(a.out_slots) = Len(b.out_slots)
    BY Zenon DEF Shape
  <2>2. /\ AreMaps("in_slots", a.in_slots) /\ AreMaps("in_slots", b.in_slots)
        /\ AreMaps("out_slots", a.out_slots) /\ AreMaps("out_slots", b.out_slots)
    BY <1>1, <1>2, Zenon
  <2>3. /\ c.in_slots = [i \in DOMAIN a.in_slots |-> Merge(a.in_slots[i], b.in_slots[i])]
        /\ c.out_slots = [i \in DOMAIN a.out_slots |-> Merge(a.out_slots[i], b.out_slots[i])]
    BY Zenon DEF CombineMweb, CombineInput, CombineOutput
  <2> HIDE DEF c
  <2>4. IsMerged(c.in_slots, a.in_slots, b.in_slots)
    BY <2>1, <2>2, <2>3, MergedSlots, Zenon
  <2>5. IsMerged(c.out_slots, a.out_slots, b.out_slots)
    BY <2>1, <2>2, <2>3, MergedSlots, Zenon
  <2>. QED  BY <2>4, <2>5, Zenon
<1> HIDE DEF c
<1>6. ASSUME NEW part \in Parts
      PROVE  /\ AreMaps(part, c[part])
             /\ Len(c[part]) = LongerLen(a[part], b[part])
             /\ \A i \in Index : MapAt(c[part], i) = Merge(MapAt(a[part], i), MapAt(b[part], i))
  <2> DEFINE x == a[part]
             y == b[part]
             z == c[part]
  <2>1. IsMerged(z, x, y)
    BY <1>4, <1>5, Zenon DEF Parts
  <2>2. AreMaps(part, x) /\ AreMaps(part, y)
    BY <1>1, Zenon
  <2> HIDE DEF x, y, z
  <2>3. /\ AreMaps(part, z)
        /\ Len(z) = LongerLen(x, y)
        /\ \A i \in Index : MapAt(z, i) = Merge(MapAt(x, i), MapAt(y, i))
    <3>1. AreMaps(part, z)
      BY <2>1, <2>2, MergedMaps, Zenon
    <3>2. Len(z) = LongerLen(x, y)
      BY <2>1, <2>2, MergedMaps, Zenon
    <3>3. \A i \in Index : MapAt(z, i) = Merge(MapAt(x, i), MapAt(y, i))
      BY <2>1, <2>2, MergedMaps, SMT
    <3>. QED  BY <3>1, <3>2, <3>3, Zenon
  <2>. QED  BY <2>3, Zenon DEF x, y, z
<1>7. ASSUME NEW part \in Parts PROVE Len(c[part]) >= Len(a[part])
  <2>1. Len(a[part]) \in Nat /\ Len(b[part]) \in Nat
    BY <1>1, Zenon DEF AreMaps, IsVec
  <2>. QED  BY <1>6, <2>1 DEF LongerLen
<1>8. Shape(c)
  <2>1. IsMap(c.offsets, FieldsOf("offsets"))
    BY <1>3, MergedMap, Zenon DEF Shape
  <2>2. Len(c.in_slots) = InSlots /\ Len(c.out_slots) = OutSlots
    <3>1. /\ Len(a.in_slots) = InSlots /\ Len(b.in_slots) = InSlots
          /\ Len(a.out_slots) = OutSlots /\ Len(b.out_slots) = OutSlots
      BY Zenon DEF Shape
    <3>. QED  BY <1>2, <1>6, <3>1, Zenon DEF LongerLen
  <2>. QED  BY <1>3, <1>6, <2>1, <2>2, Zenon DEF Shape
<1>9. ASSUME NEW x, Place(x) PROVE Target(c, x) = Merge(Target(a, x), Target(b, x))
  <2>1. CASE x.part = "offsets"
    BY <1>3, <2>1, Zenon DEF Target
  <2>2. CASE x.part # "offsets"
    <3>1. x.part \in Parts /\ x.index \in Index
      BY <1>9, <2>2, Zenon DEF Place
    <3>. QED  BY <1>6, <2>2, <3>1, Zenon DEF Target
  <2>. QED  BY <2>1, <2>2, Zenon
<1>. QED  BY <1>7, <1>8, <1>9, Zenon DEF c

\* Keys of the record that is a copy.
Keys == Parts \cup {"offsets"}

\* A copy is the record of its six parts.
LEMMA CopyRecord ==
  ASSUME NEW x
  PROVE  x = [k \in Keys |-> x[k]] <=>
           x = [offsets |-> x.offsets, kernels |-> x.kernels, inputs |-> x.inputs,
                outputs |-> x.outputs, in_slots |-> x.in_slots, out_slots |-> x.out_slots]
<1> DEFINE r == [offsets |-> x.offsets, kernels |-> x.kernels, inputs |-> x.inputs,
                 outputs |-> x.outputs, in_slots |-> x.in_slots, out_slots |-> x.out_slots]
<1>1. DOMAIN r = Keys
  BY Zenon DEF Keys, Parts
<1>2. \A k \in Keys : r[k] = x[k]
  BY DEF Keys, Parts
<1>3. r = [k \in DOMAIN r |-> r[k]]
  BY Zenon
<1> HIDE DEF r
<1>4. r = [k \in Keys |-> x[k]]
  BY <1>1, <1>2, <1>3, Zenon
<1>. QED  BY <1>4, Zenon DEF r

IsWritten(z, x, i, map) ==
  z = [j \in DOMAIN x \cup 1 .. i |-> IF j = i THEN map ELSE MapAt(x, j)]

\* One map of a vector is written, after ensure_index.
LEMMA WrittenMaps ==
  ASSUME NEW part, NEW x, AreMaps(part, x), NEW i \in Index, NEW map, IsMap(map, FieldsOf(part)),
         NEW z, IsWritten(z, x, i, map)
  PROVE  /\ AreMaps(part, z)
         /\ Len(z) = IF Len(x) >= i THEN Len(x) ELSE i
         /\ MapAt(z, i) = map
         /\ \A j \in Index \ {i} : MapAt(z, j) = MapAt(x, j)
<1> DEFINE k == IF Len(x) >= i THEN Len(x) ELSE i
<1>1. Len(x) \in Nat /\ DOMAIN x = 1 .. Len(x) /\ i \in Nat /\ i > 0
  BY VecDomain DEF AreMaps, Index
<1>2. DOMAIN x \cup 1 .. i = 1 .. k /\ k \in Nat
  BY <1>1
<1>3. z = [j \in 1 .. k |-> z[j]] /\ \A j \in 1 .. k : z[j] = IF j = i THEN map ELSE MapAt(x, j)
  BY <1>2, Zenon DEF IsWritten
<1>4. i \in 1 .. k
  BY <1>1
<1> HIDE DEF k
<1>5. Len(z) = k /\ IsVec(z) /\ DOMAIN z = 1 .. k
  BY <1>2, <1>3, VecLen, Zenon
<1>6. ASSUME NEW j \in DOMAIN z PROVE IsMap(z[j], FieldsOf(part))
  <2>1. IsMap(MapAt(x, j), FieldsOf(part))
    BY DefaultMap, Zenon DEF AreMaps, MapAt
  <2>. QED  BY <1>3, <1>5, <2>1, Zenon
<1>7. MapAt(z, i) = map
  BY <1>3, <1>4, <1>5, Zenon DEF MapAt
<1>8. ASSUME NEW j \in Index \ {i} PROVE MapAt(z, j) = MapAt(x, j)
  <2>1. CASE j \in 1 .. k
    BY <1>3, <1>5, <2>1, Zenon DEF MapAt
  <2>2. CASE j \notin 1 .. k
    <3>1. j \notin DOMAIN x
      BY <1>2, <2>2, Zenon
    <3>. QED  BY <1>5, <2>2, <3>1, Zenon DEF MapAt
  <2>. QED  BY <2>1, <2>2, Zenon
<1>. QED  BY <1>5, <1>6, <1>7, <1>8, Zenon DEF AreMaps, k

\* An offer is for a place, and has fields of its maps.
LEMMA OfferPlace ==
  ASSUME NEW o \in Offers
  PROVE  /\ Place(o) /\ IsMap(o.fields, FieldsOf(o.part))
         /\ o.part = "in_slots" => o.index <= InSlots
         /\ o.part = "out_slots" => o.index <= OutSlots
  BY OfferConstants, Zenon DEF Place, Index

\* The map at a place is one of its part.
LEMMA TargetMap ==
  ASSUME NEW c, Shape(c), NEW x, Place(x)
  PROVE  IsMap(Target(c, x), FieldsOf(x.part))
<1>1. CASE x.part = "offsets"
  BY <1>1, Zenon DEF Shape, Target
<1>2. CASE x.part # "offsets"
  <2>1. x.part \in Parts
    BY <1>2, Zenon DEF Place
  <2>2. AreMaps(x.part, c[x.part])
    BY <2>1, Zenon DEF Shape
  <2>. QED  BY <1>2, <2>2, DefaultMap, Zenon DEF Target, MapAt, AreMaps
<1>. QED  BY <1>1, <1>2, Zenon

\* Writing an offer changes the map at its place, and no other.
LEMMA OfferWritten ==
  ASSUME NEW c, Shape(c), NEW o \in Offers
  PROVE  /\ Shape(WithOffer(c, o))
         /\ \A part \in Parts : Len(WithOffer(c, o)[part]) >= Len(c[part])
         /\ \A x : Place(x) => Target(WithOffer(c, o), x) =
              IF x.part = o.part /\ x.index = o.index THEN Merge(o.fields, Target(c, x))
              ELSE Target(c, x)
<1> DEFINE new == WithOffer(c, o)
           map == Merge(o.fields, Target(c, o))
           old == c[o.part]
           maps == [i \in DOMAIN old \cup 1 .. o.index |-> IF i = o.index THEN map ELSE MapAt(old, i)]
           v == IF o.part = "offsets" THEN map ELSE maps
<1>1. /\ Place(o) /\ o.index \in Index /\ o.part \in Keys
      /\ IsMap(map, FieldsOf(o.part))
  <2>1. Place(o) /\ IsMap(o.fields, FieldsOf(o.part))
    BY OfferPlace, Zenon
  <2>2. IsMap(Target(c, o), FieldsOf(o.part))
    BY <2>1, TargetMap, Zenon
  <2>3. o.index \in Index /\ o.part \in Keys
    BY <2>1, Zenon DEF Place, Keys
  <2>. QED  BY <2>1, <2>2, <2>3, MergedMap, Zenon
<1>2. new = [c EXCEPT ![o.part] = v]
  BY Zenon DEF WithOffer
<1> HIDE DEF new, v
<1>3. c = [k \in Keys |-> c[k]]
  BY CopyRecord, Zenon DEF Shape
<1>4. /\ new = [k \in Keys |-> new[k]] /\ new[o.part] = v
      /\ \A k \in Keys \ {o.part} : new[k] = c[k]
  BY <1>1, <1>2, <1>3, Zenon
<1>5. new = [offsets |-> new.offsets, kernels |-> new.kernels, inputs |-> new.inputs,
             outputs |-> new.outputs, in_slots |-> new.in_slots, out_slots |-> new.out_slots]
  BY <1>4, CopyRecord, Zenon
<1>6. \A part \in Parts : AreMaps(part, c[part]) /\ Len(c[part]) \in Nat
  BY Zenon DEF Shape, AreMaps, IsVec
<1>7. "offsets" \notin Parts /\ Keys = Parts \cup {"offsets"}
  BY Zenon DEF Parts, Keys
<1>8. CASE o.part = "offsets"
  <2>1. new.offsets = map /\ \A part \in Parts : new[part] = c[part]
    BY <1>4, <1>7, <1>8, Zenon DEF v
  <2> HIDE DEF map
  <2>2. Shape(new)
    <3>1. \A part \in Parts : AreMaps(part, new[part])
      BY <1>6, <2>1, Zenon
    <3>2. Len(new.in_slots) = InSlots /\ Len(new.out_slots) = OutSlots
      BY <2>1, Zenon DEF Shape, Parts
    <3>3. IsMap(new.offsets, FieldsOf("offsets"))
      BY <1>1, <1>8, <2>1, Zenon
    <3>. QED  BY <1>5, <3>1, <3>2, <3>3, Zenon DEF Shape
  <2>3. ASSUME NEW x, Place(x)
        PROVE  Target(new, x) = IF x.part = o.part /\ x.index = o.index
                                THEN Merge(o.fields, Target(c, x)) ELSE Target(c, x)
    <3>1. CASE x.part = "offsets"
      <4>1. x.index = o.index /\ Target(c, x) = Target(c, o)
        BY <1>1, <1>8, <2>3, <3>1, Zenon DEF Place, Target
      <4>. QED  BY <1>8, <2>1, <3>1, <4>1, Zenon DEF map, Target
    <3>2. CASE x.part # "offsets"
      BY <1>8, <2>1, <2>3, <3>2, Zenon DEF Place, Target
    <3>. QED  BY <3>1, <3>2, Zenon
  <2>4. \A part \in Parts : Len(new[part]) >= Len(c[part])
    BY <1>6, <2>1
  <2>. QED  BY <2>2, <2>3, <2>4, Zenon DEF new
<1>9. CASE o.part # "offsets"
  <2>1. o.part \in Parts
    BY <1>1, <1>7, <1>9, Zenon
  <2>2. /\ new[o.part] = maps /\ new.offsets = c.offsets
        /\ \A part \in Parts \ {o.part} : new[part] = c[part]
    BY <1>4, <1>7, <1>9, Zenon DEF v
  <2>3. /\ AreMaps(o.part, new[o.part])
        /\ Len(new[o.part]) = IF Len(c[o.part]) >= o.index THEN Len(c[o.part]) ELSE o.index
        /\ MapAt(new[o.part], o.index) = map
        /\ \A j \in Index \ {o.index} : MapAt(new[o.part], j) = MapAt(c[o.part], j)
    <3> DEFINE z == new[o.part]
    <3>1. IsWritten(z, old, o.index, map) /\ AreMaps(o.part, old)
      BY <1>6, <2>1, <2>2, Zenon DEF IsWritten
    <3> HIDE DEF z, old, map
    <3>2. /\ AreMaps(o.part, z)
          /\ Len(z) = IF Len(old) >= o.index THEN Len(old) ELSE o.index
          /\ MapAt(z, o.index) = map
          /\ \A j \in Index \ {o.index} : MapAt(z, j) = MapAt(old, j)
      BY <1>1, <3>1, WrittenMaps
    <3>. QED  BY <3>2, Zenon DEF z, old
  <2> HIDE DEF map, maps, old
  <2>4. \A part \in Parts : AreMaps(part, new[part])
    BY <1>6, <2>2, <2>3, Zenon
  <2>5. \A part \in Parts : Len(new[part]) >= Len(c[part])
    <3>1. o.index \in Nat
      BY <1>1, Zenon DEF Index
    <3>. QED  BY <1>6, <2>1, <2>2, <2>3, <3>1, SMTT(40)
  <2>6. Len(new.in_slots) = InSlots /\ Len(new.out_slots) = OutSlots
    <3>1. Len(c.in_slots) = InSlots /\ Len(c.out_slots) = OutSlots /\ InSlots \in Nat /\ OutSlots \in Nat
      BY OfferConstants, Zenon DEF Shape
    <3>2. /\ o.part = "in_slots" => InSlots >= o.index
          /\ o.part = "out_slots" => OutSlots >= o.index
          /\ o.index \in Nat
      BY <1>1, <3>1, OfferPlace, Zenon DEF Index
    <3>3. Len(new.in_slots) = InSlots
      BY <2>2, <2>3, <3>1, <3>2, Zenon DEF Parts
    <3>4. Len(new.out_slots) = OutSlots
      BY <2>2, <2>3, <3>1, <3>2, Zenon DEF Parts
    <3>. QED  BY <3>3, <3>4, Zenon
  <2>7. Shape(new)
    <3>1. IsMap(new.offsets, FieldsOf("offsets"))
      BY <2>2, Zenon DEF Shape
    <3>. QED  BY <1>5, <2>4, <2>6, <3>1, Zenon DEF Shape
  <2>8. ASSUME NEW x, Place(x)
        PROVE  Target(new, x) = IF x.part = o.part /\ x.index = o.index
                                THEN Merge(o.fields, Target(c, x)) ELSE Target(c, x)
    <3>1. CASE x.part = "offsets"
      BY <1>9, <2>2, <3>1, Zenon DEF Target
    <3>2. CASE x.part # "offsets"
      <4>1. x.part \in Parts /\ x.index \in Index
        BY <2>8, <3>2, Zenon DEF Place
      <4>2. Target(new, x) = MapAt(new[x.part], x.index) /\ Target(c, x) = MapAt(c[x.part], x.index)
        BY <3>2, Zenon DEF Target
      <4>3. CASE x.part = o.part /\ x.index = o.index
        <5>1. map = Merge(o.fields, Target(c, x))
          BY <1>9, <4>2, <4>3, Zenon DEF map, Target
        <5>. QED  BY <2>3, <4>2, <4>3, <5>1, Zenon
      <4>4. CASE ~(x.part = o.part /\ x.index = o.index)
        BY <2>2, <2>3, <4>1, <4>2, <4>4, Zenon
      <4>. QED  BY <4>3, <4>4, Zenon
    <3>. QED  BY <3>1, <3>2, Zenon
  <2>. QED  BY <2>5, <2>7, <2>8, Zenon DEF new
<1>. QED  BY <1>8, <1>9, Zenon

\* What arrives at a place: the offsets and slots as they are, and the typed fields
\* of the maps of the three vectors.
LEMMA ArrivedAt ==
  ASSUME NEW c, Shape(c), NEW x, Place(x)
  PROVE  /\ x.part \in Vectors => SameFields(Target(Transit(c), x), Target(c, x), x.part)
         /\ x.part \notin Vectors => Target(Transit(c), x) = Target(c, x)
<1>1. Arrives(Transit(c), c)
  BY Arrived, Zenon
<1> DEFINE t == Transit(c)
<1> HIDE DEF t
<1>2. CASE x.part \in Vectors
  <2>1. x.part # "offsets"
    BY <1>2, Zenon DEF Vectors
  <2>2. SameFields(MapAt(t[x.part], x.index), MapAt(c[x.part], x.index), x.part)
    BY <1>1, <1>2, Zenon DEF Arrives, Place, t
  <2>. QED  BY <1>2, <2>1, <2>2, Zenon DEF Target, t
<1>3. CASE x.part \notin Vectors
  <2>1. x.part \in {"offsets", "in_slots", "out_slots"}
    BY <1>3, Zenon DEF Place, Parts, Vectors
  <2>2. t.offsets = c.offsets /\ t.in_slots = c.in_slots /\ t.out_slots = c.out_slots
    BY <1>1, Zenon DEF Arrives, t
  <2>3. Target(t, x) = Target(c, x)
    BY <2>1, <2>2, Zenon DEF Target
  <2>. QED  BY <1>3, <2>3, Zenon DEF t
<1>. QED  BY <1>2, <1>3, Zenon

\* All fields but the unknowns of kernels are typed.
LEMMA TypedFields ==
  ASSUME NEW part \in Vectors
  PROVE  FieldsOf(part) \ {"unknowns"} \subseteq Range(OrderOf(part))
<1>1. CASE part = "kernels"
  BY <1>1, Zenon DEF OrderOf, FieldsOf
<1>2. CASE part = "inputs"
  BY <1>2, Zenon DEF OrderOf, FieldsOf
<1>3. CASE part = "outputs"
  BY <1>3, Zenon DEF OrderOf, FieldsOf
<1>. QED  BY <1>1, <1>2, <1>3, Zenon DEF Vectors

\* A typed field is in the map that arrives if it was in the map that was sent.
LEMMA FieldArrives ==
  ASSUME NEW c, Shape(c), NEW x, Place(x), NEW f \in FieldsOf(x.part) \ {"unknowns"}
  PROVE  f \in DOMAIN Target(Transit(c), x) <=> f \in DOMAIN Target(c, x)
<1>1. CASE x.part \in Vectors
  <2>1. f \in Range(OrderOf(x.part))
    BY <1>1, TypedFields, Zenon
  <2>. QED  BY <1>1, <2>1, ArrivedAt, Zenon DEF SameFields
<1>2. CASE x.part \notin Vectors
  BY <1>2, ArrivedAt, Zenon
<1>. QED  BY <1>1, <1>2, Zenon

-----------------------------------------------------------------------------
(* Every copy has its shape.                                               *)

Shaped ==
  /\ copy = [p \in Party |-> copy[p]]
  /\ \A p \in Party : Shape(copy[p])
  /\ \A m \in mail : m.from \in Party /\ m.to \in Party /\ Shape(m.copy)

\* Psbt::from_unsigned_tx makes copies of the right shape...
LEMMA FreshShape == Shape(FreshCopy)
<1> DEFINE c == FreshCopy
<1>1. /\ c = [offsets |-> c.offsets, kernels |-> c.kernels, inputs |-> c.inputs,
              outputs |-> c.outputs, in_slots |-> c.in_slots, out_slots |-> c.out_slots]
      /\ c.offsets = Default /\ c.kernels = << >> /\ c.inputs = << >> /\ c.outputs = << >>
      /\ c.in_slots = [i \in 1 .. InSlots |-> Default]
      /\ c.out_slots = [i \in 1 .. OutSlots |-> Default]
  BY Zenon DEF FreshCopy
<1> HIDE DEF c
<1>2. \A part : AreMaps(part, << >>)
  BY DEF AreMaps, IsVec
<1>3. ASSUME NEW k \in Nat, NEW s, s = [i \in 1 .. k |-> Default], NEW part
      PROVE  AreMaps(part, s) /\ Len(s) = k
  <2>1. s = [i \in 1 .. k |-> s[i]]
    BY <1>3, Zenon
  <2>2. Len(s) = k /\ IsVec(s) /\ DOMAIN s = 1 .. k
    BY <2>1, VecLen, Zenon
  <2>3. \A i \in DOMAIN s : s[i] = Default
    BY <1>3, Zenon
  <2>. QED  BY <2>2, <2>3, DefaultMap, Zenon DEF AreMaps
<1>4. /\ AreMaps("in_slots", c.in_slots) /\ Len(c.in_slots) = InSlots
      /\ AreMaps("out_slots", c.out_slots) /\ Len(c.out_slots) = OutSlots
  BY <1>1, <1>3, OfferConstants, Zenon
<1>5. \A part \in Parts : AreMaps(part, c[part])
  BY <1>1, <1>2, <1>4, Zenon DEF Parts
<1>6. IsMap(c.offsets, FieldsOf("offsets"))
  BY <1>1, DefaultMap, Zenon
<1>. QED  BY <1>1, <1>4, <1>5, <1>6, Zenon DEF Shape, c

\* ... in which no map has a field.
LEMMA FreshEmpty ==
  ASSUME NEW x, Place(x)
  PROVE  DOMAIN Target(FreshCopy, x) = {}
<1>1. ASSUME NEW part \in Parts, NEW i PROVE MapAt(FreshCopy[part], i) = Default
  <2>1. CASE part \in Vectors
    <3>1. FreshCopy[part] = << >>
      BY <2>1 DEF FreshCopy, Vectors
    <3>. QED  BY <3>1 DEF MapAt
  <2>2. CASE part = "in_slots"
    <3>1. FreshCopy[part] = [n \in 1 .. InSlots |-> Default]
      BY <2>2, Zenon DEF FreshCopy
    <3>. QED  BY <3>1, Zenon DEF MapAt
  <2>3. CASE part = "out_slots"
    <3>1. FreshCopy[part] = [n \in 1 .. OutSlots |-> Default]
      BY <2>3, Zenon DEF FreshCopy
    <3>. QED  BY <3>1, Zenon DEF MapAt
  <2>. QED  BY <2>1, <2>2, <2>3, Zenon DEF Parts, Vectors
<1>2. FreshCopy.offsets = Default
  BY Zenon DEF FreshCopy
<1>. QED  BY <1>1, <1>2, DefaultMap, Zenon DEF Place, Target

\* One party's copy changes.
LEMMA OneChanges ==
  ASSUME Shaped, NEW p \in Party, NEW c, copy' = [copy EXCEPT ![p] = c]
  PROVE  /\ copy' = [q \in Party |-> copy'[q]] /\ copy'[p] = c
         /\ \A q \in Party \ {p} : copy'[q] = copy[q]
<1>1. DOMAIN copy = Party
  BY Zenon DEF Shaped
<1>. QED  BY <1>1, Zenon

\* Writing, sending, combining and losing keep the shapes.
LEMMA ShapedStep ==
  ASSUME Shaped, [MwebNext]_mwebVars
  PROVE  Shaped'
<1>1. ASSUME NEW p \in Party, NEW o \in Offers, WriteMap(p, o) PROVE Shaped'
  <2>1. copy' = [copy EXCEPT ![p] = WithOffer(copy[p], o)] /\ mail' = mail
    BY <1>1, Zenon DEF WriteMap
  <2>2. Shape(WithOffer(copy[p], o))
    BY OfferWritten, Zenon DEF Shaped
  <2>3. \A q \in Party : Shape(copy'[q])
    BY <2>1, <2>2, OneChanges, Zenon DEF Shaped
  <2>4. copy' = [q \in Party |-> copy'[q]]
    BY <2>1, OneChanges, Zenon
  <2>. QED  BY <2>1, <2>3, <2>4, Zenon DEF Shaped
<1>2. ASSUME NEW p \in Party, NEW q \in Party, Send(p, q) PROVE Shaped'
  <2> DEFINE m == [from |-> p, to |-> q, copy |-> Transit(copy[p])]
  <2>1. copy' = copy /\ mail' = mail \cup {m}
    BY <1>2, Zenon DEF Send
  <2>2. Shape(Transit(copy[p]))
    BY Arrived, Zenon DEF Shaped
  <2>3. m.from = p /\ m.to = q /\ m.copy = Transit(copy[p])
    BY Zenon
  <2> HIDE DEF m
  <2>. QED  BY <2>1, <2>2, <2>3, Zenon DEF Shaped
<1>3. ASSUME NEW m \in mail, Combine(m), mail' \subseteq mail PROVE Shaped'
  <2>1. m.to \in Party /\ copy' = [copy EXCEPT ![m.to] = CombineMweb(copy[m.to], m.copy)]
    BY <1>3, Zenon DEF Combine, Shaped
  <2>2. Shape(CombineMweb(copy[m.to], m.copy))
    BY <2>1, Combined, Zenon DEF Shaped
  <2>3. \A q \in Party : Shape(copy'[q])
    BY <2>1, <2>2, OneChanges, Zenon DEF Shaped
  <2>4. copy' = [q \in Party |-> copy'[q]]
    BY <2>1, OneChanges, Zenon
  <2>. QED  BY <1>3, <2>3, <2>4, Zenon DEF Shaped
<1>4. ASSUME NEW m \in mail, Lose(m) PROVE Shaped'
  BY <1>4, Zenon DEF Lose, Shaped
<1>5. ASSUME NEW m \in mail, Receive(m) \/ ReceiveAgain(m) PROVE Shaped'
  BY <1>3, <1>5, Zenon DEF Receive, ReceiveAgain
<1>6. CASE UNCHANGED mwebVars
  BY <1>6, Zenon DEF mwebVars, Shaped
<1>. QED  BY <1>1, <1>2, <1>4, <1>5, <1>6, Zenon DEF MwebNext

\* They hold at the start,
LEMMA ShapedInit ==
  ASSUME MwebInit
  PROVE  Shaped
<1>1. copy = [p \in Party |-> FreshCopy] /\ mail = {}
  BY Zenon DEF MwebInit
<1>2. copy = [p \in Party |-> copy[p]] /\ \A p \in Party : copy[p] = FreshCopy
  BY <1>1, Zenon
<1>. QED  BY <1>1, <1>2, FreshShape, Zenon DEF Shaped

\* and so in every reachable state.
LEMMA AlwaysShaped == MwebSpec => []Shaped
<1>1. MwebInit => Shaped
  BY ShapedInit, Zenon
<1>2. Shaped /\ [MwebNext]_mwebVars => Shaped'
  BY ShapedStep, Zenon
<1>. QED  BY <1>1, <1>2, PTL DEF MwebSpec

-----------------------------------------------------------------------------
(* The exchange implements PsbtKnowledge.                                  *)

\* A fact is about a typed field at a place of its part.
LEMMA FactPlace ==
  ASSUME NEW fact \in Fact
  PROVE  Place(fact) /\ fact.field \in FieldsOf(fact.part) \ {"unknowns"}
<1>1. PICK o \in Offers : \E f \in DOMAIN o.fields \ {"unknowns"} :
        fact = [part |-> o.part, index |-> o.index, field |-> f]
  BY Zenon DEF Fact
<1>2. PICK f \in DOMAIN o.fields \ {"unknowns"} :
        fact = [part |-> o.part, index |-> o.index, field |-> f]
  BY <1>1, Zenon
<1>3. Place(o) /\ IsMap(o.fields, FieldsOf(o.part))
  BY OfferPlace, Zenon
<1>4. fact.part = o.part /\ fact.index = o.index /\ fact.field = f
  BY <1>2, Zenon
<1>. QED  BY <1>2, <1>3, <1>4, Zenon DEF Place, IsMap

\* Merging two maps gives the fields of both.
LEMMA MergedDomain == \A a, b : DOMAIN Merge(a, b) = DOMAIN a \cup DOMAIN b
  BY Zenon DEF Merge

\* A copy that is sent has the same facts when it arrives.
LEMMA FactsArrive ==
  ASSUME NEW c, Shape(c)
  PROVE  FactsOf(Transit(c)) = FactsOf(c)
<1>1. \A fact \in Fact :
        fact.field \in DOMAIN Target(Transit(c), fact) <=> fact.field \in DOMAIN Target(c, fact)
  BY FactPlace, FieldArrives, Zenon
<1>. QED  BY <1>1, Zenon DEF FactsOf

\* Psbt::combine joins the facts of two copies.
LEMMA FactsCombine ==
  ASSUME NEW a, Shape(a), NEW b, Shape(b)
  PROVE  FactsOf(CombineMweb(a, b)) = FactsOf(a) \cup FactsOf(b)
<1> DEFINE c == CombineMweb(a, b)
<1>0. \A x : Place(x) => Target(c, x) = Merge(Target(a, x), Target(b, x))
  BY Combined, Zenon
<1> HIDE DEF c
<1>1. ASSUME NEW fact \in Fact PROVE Target(c, fact) = Merge(Target(a, fact), Target(b, fact))
  BY <1>0, FactPlace, Zenon
<1>2. ASSUME NEW fact \in Fact
      PROVE  fact.field \in DOMAIN Target(c, fact)
               <=> fact.field \in DOMAIN Target(a, fact) \/ fact.field \in DOMAIN Target(b, fact)
  <2>1. DOMAIN Merge(Target(a, fact), Target(b, fact)) = DOMAIN Target(a, fact) \cup DOMAIN Target(b, fact)
    BY MergedDomain, Zenon
  <2>. QED  BY <1>1, <2>1, Zenon
<1>. QED  BY <1>2, Zenon DEF FactsOf, c

\* Writing an offer loses no fact: the fields it leaves alone stay.
LEMMA FactsWritten ==
  ASSUME NEW c, Shape(c), NEW o \in Offers
  PROVE  FactsOf(c) \subseteq FactsOf(WithOffer(c, o))
<1>1. ASSUME NEW fact \in Fact
      PROVE  \/ Target(WithOffer(c, o), fact) = Merge(o.fields, Target(c, fact))
             \/ Target(WithOffer(c, o), fact) = Target(c, fact)
  <2>1. Place(fact)
    BY FactPlace, Zenon
  <2>2. Target(WithOffer(c, o), fact) =
          IF fact.part = o.part /\ fact.index = o.index THEN Merge(o.fields, Target(c, fact))
          ELSE Target(c, fact)
    BY <2>1, OfferWritten, ZenonT(40)
  <2>. QED  BY <2>2, Zenon
<1>2. ASSUME NEW fact \in Fact, fact.field \in DOMAIN Target(c, fact)
      PROVE  fact.field \in DOMAIN Target(WithOffer(c, o), fact)
  <2>1. DOMAIN Merge(o.fields, Target(c, fact)) = DOMAIN o.fields \cup DOMAIN Target(c, fact)
    BY MergedDomain, Zenon
  <2>. QED  BY <1>1, <1>2, <2>1, Zenon
<1>. QED  BY <1>2, Zenon DEF FactsOf

\* Both states are described by the copies they hold.
LEMMA Bars ==
  /\ knowsBar \in [Party -> SUBSET Fact] /\ knowsBar' \in [Party -> SUBSET Fact]
  /\ \A q \in Party : knowsBar[q] = FactsOf(copy[q]) /\ knowsBar'[q] = FactsOf(copy'[q])
  BY Zenon DEF knowsBar, FactsOf

\* The facts of a message.
Image(m) == [from |-> m.from, to |-> m.to, facts |-> FactsOf(m.copy)]

\* Taking a message out removes its facts, or another message has the same.
LEMMA PostShrinks ==
  ASSUME NEW m \in mail, mail' = mail \ {m}
  PROVE  postBar' \in {postBar, postBar \ {Image(m)}}
<1>1. postBar = {Image(n) : n \in mail} /\ postBar' = {Image(n) : n \in mail \ {m}}
  BY Zenon DEF postBar, Image
<1> HIDE DEF Image
<1>. QED  BY <1>1, Zenon

\* Combining a letter is a step of the abstract exchange, whether it stays in the mail or not.
LEMMA HearStep ==
  ASSUME Shaped, NEW m \in mail, Combine(m), mail' \in {mail, mail \ {m}}
  PROVE  Knowledge!KNext
<1>1. /\ m.to \in Party /\ Shape(copy[m.to]) /\ Shape(m.copy)
      /\ copy' = [copy EXCEPT ![m.to] = CombineMweb(copy[m.to], m.copy)]
  BY Zenon DEF Shaped, Combine
<1>2. /\ copy'[m.to] = CombineMweb(copy[m.to], m.copy)
      /\ \A q \in Party \ {m.to} : copy'[q] = copy[q]
  BY <1>1, OneChanges, Zenon
<1>3. knowsBar'[m.to] = knowsBar[m.to] \cup FactsOf(m.copy)
  BY <1>1, <1>2, FactsCombine, Bars
<1>4. \A q \in Party \ {m.to} : knowsBar'[q] = knowsBar[q]
  BY <1>2, Bars, Zenon
<1>5. Image(m) \in postBar
  BY Zenon DEF postBar, Image
<1>6. postBar' \in {postBar, postBar \ {Image(m)}}
  <2>1. CASE mail' = mail
    BY <2>1, Zenon DEF postBar
  <2>. QED  BY <2>1, PostShrinks, Zenon
<1>7. Image(m).to = m.to /\ Image(m).facts = FactsOf(m.copy)
  BY Zenon DEF Image
<1>8. Knowledge!Hear(Image(m))
  BY <1>3, <1>4, <1>6, <1>7, Bars, Zenon DEF Knowledge!Hear, Knowledge!OnlyFor
<1>. QED  BY <1>5, <1>8, Zenon DEF Knowledge!KNext

\* Every step is a step of PsbtKnowledge or none.
LEMMA KnowledgeStep ==
  ASSUME Shaped, [MwebNext]_mwebVars
  PROVE  [Knowledge!KNext]_(Knowledge!kvars)
<1> DEFINE Goal == [Knowledge!KNext]_(Knowledge!kvars)
<1>1. ASSUME NEW p \in Party, NEW o \in Offers, WriteMap(p, o) PROVE Goal
  <2>1. copy' = [copy EXCEPT ![p] = WithOffer(copy[p], o)] /\ mail' = mail /\ Shape(copy[p])
    BY <1>1, Zenon DEF WriteMap, Shaped
  <2>2. copy'[p] = WithOffer(copy[p], o) /\ \A q \in Party \ {p} : copy'[q] = copy[q]
    BY <2>1, OneChanges, Zenon
  <2>3. knowsBar[p] \subseteq knowsBar'[p] /\ \A q \in Party \ {p} : knowsBar'[q] = knowsBar[q]
    BY <2>1, <2>2, FactsWritten, Bars
  <2>4. postBar' = postBar
    BY <2>1, Zenon DEF postBar
  <2>5. Knowledge!Learn(p)
    BY <2>3, <2>4, Bars, Zenon DEF Knowledge!Learn, Knowledge!OnlyFor
  <2>. QED  BY <2>5, Zenon DEF Knowledge!KNext
<1>2. ASSUME NEW p \in Party, NEW q \in Party, Send(p, q) PROVE Goal
  <2> DEFINE m == [from |-> p, to |-> q, copy |-> Transit(copy[p])]
  <2>1. mail' = mail \cup {m} /\ copy' = copy /\ Shape(copy[p])
    BY <1>2, Zenon DEF Send, Shaped
  <2>2. Image(m) = [from |-> p, to |-> q, facts |-> knowsBar[p]]
    <3>1. m.from = p /\ m.to = q /\ m.copy = Transit(copy[p])
      BY Zenon
    <3>. QED  BY <2>1, <3>1, FactsArrive, Bars, Zenon DEF Image
  <2> HIDE DEF m
  <2>3. postBar' = postBar \cup {Image(m)}
    BY <2>1, Zenon DEF postBar, Image
  <2>4. knowsBar' = knowsBar
    BY <2>1, Zenon DEF knowsBar
  <2>5. Knowledge!Tell(p, q)
    BY <2>2, <2>3, <2>4, Zenon DEF Knowledge!Tell
  <2>. QED  BY <2>5, Zenon DEF Knowledge!KNext
<1>3. ASSUME NEW m \in mail, Receive(m) \/ ReceiveAgain(m) PROVE Goal
  BY <1>3, HearStep, Zenon DEF Receive, ReceiveAgain
<1>4. ASSUME NEW m \in mail, Lose(m) PROVE Goal
  <2>1. knowsBar' = knowsBar /\ Image(m) \in postBar
    BY <1>4, Zenon DEF Lose, knowsBar, postBar, Image
  <2>2. postBar' \in {postBar, postBar \ {Image(m)}}
    BY <1>4, PostShrinks, Zenon DEF Lose
  <2>. QED  BY <2>1, <2>2, Zenon DEF Knowledge!KNext, Knowledge!Drop, Knowledge!kvars
<1>5. CASE UNCHANGED mwebVars
  BY <1>5, Zenon DEF mwebVars, Knowledge!kvars, knowsBar, postBar
<1>. QED  BY <1>1, <1>2, <1>3, <1>4, <1>5, Zenon DEF MwebNext

\* No exchange loses an MWEB field: whatever messages are lost, repeated or overtaken,
\* every copy keeps the typed fields of its maps, sends all of them through the global
\* pairs, and takes over those of a received copy, each at the index it was written to
\* (get_pairs, decode_global and combine of Psbt), for any number of parties and maps.
THEOREM MapsAreKept == MwebSpec => ImplementsKnowledge
<1>1. MwebInit => Knowledge!KInit
  <2>1. ASSUME MwebInit PROVE knowsBar = [p \in Party |-> {}] /\ postBar = {}
    <3>1. copy = [p \in Party |-> FreshCopy] /\ mail = {}
      BY <2>1, Zenon DEF MwebInit
    <3>2. \A fact \in Fact : DOMAIN Target(FreshCopy, fact) = {}
      BY FactPlace, FreshEmpty, Zenon
    <3>3. FactsOf(FreshCopy) = {}
      BY <3>2, Zenon DEF FactsOf
    <3>. QED  BY <3>1, <3>3, Zenon DEF knowsBar, postBar
  <2>. QED  BY <2>1, Zenon DEF Knowledge!KInit
<1>2. Shaped /\ [MwebNext]_mwebVars => [Knowledge!KNext]_(Knowledge!kvars)
  BY KnowledgeStep, Zenon
<1>. QED
  BY <1>1, <1>2, AlwaysShaped, PTL DEF MwebSpec, ImplementsKnowledge, Knowledge!KSpec

-----------------------------------------------------------------------------
(* Where the fields of a copy come from.                                   *)

\* The key byte numbers all pegouts of a kernel.
FewPegouts ==
  \A o \in Offers : "pegouts" \in DOMAIN o.fields => Len(o.fields.pegouts) <= PegoutKeys

SamePlace(o, x) == o.part = x.part /\ o.index = x.index

\* A party has offered each field of a copy with its value.
FromOffers(c) ==
  \A x : Place(x) => \A f \in DOMAIN Target(c, x) :
    \E o \in Offers : SamePlace(o, x) /\ f \in DOMAIN o.fields /\ Target(c, x)[f] = o.fields[f]

\* A signed map has every typed field that is offered for it.
Whole(c) ==
  \A o \in Offers : "signature" \in DOMAIN Target(c, o) =>
    DOMAIN o.fields \ {"unknowns"} \subseteq DOMAIN Target(c, o)

\* Two names of one place give the same map.
LEMMA TargetSame ==
  ASSUME NEW c, NEW o, NEW x, SamePlace(o, x)
  PROVE  Target(c, o) = Target(c, x)
  BY Zenon DEF SamePlace, Target

\* A field that was offered for a place has the offered value there.
LEMMA OfferedValue ==
  ASSUME NEW c, FromOffers(c), NEW x, Place(x), NEW o \in Offers, SamePlace(o, x),
         NEW f \in DOMAIN o.fields \cap DOMAIN Target(c, x)
  PROVE  Target(c, x)[f] = o.fields[f]
<1>1. PICK p \in Offers : SamePlace(p, x) /\ f \in DOMAIN p.fields /\ Target(c, x)[f] = p.fields[f]
  BY Zenon DEF FromOffers
<1>2. p.part = o.part /\ p.index = o.index
  BY <1>1, Zenon DEF SamePlace
<1>3. p.fields[f] = o.fields[f]
  BY <1>1, <1>2, OfferConstants
<1>. QED  BY <1>1, <1>3, Zenon

\* A copy without fields meets both.
LEMMA FreshOffered == FromOffers(FreshCopy) /\ Whole(FreshCopy)
<1>1. FromOffers(FreshCopy)
  BY FreshEmpty, Zenon DEF FromOffers
<1>2. \A o \in Offers : DOMAIN Target(FreshCopy, o) = {}
  BY FreshEmpty, OfferPlace, Zenon
<1>. QED  BY <1>1, <1>2, Zenon DEF Whole

\* Fields arrive with their values, the pegouts as long as their key can number them.
LEMMA ArrivedValues ==
  ASSUME FewPegouts, NEW c, Shape(c), FromOffers(c), NEW x, Place(x), NEW f \in DOMAIN Target(Transit(c), x)
  PROVE  f \in DOMAIN Target(c, x) /\ Target(Transit(c), x)[f] = Target(c, x)[f]
<1> DEFINE got == Target(Transit(c), x)
           given == Target(c, x)
<1>1. CASE x.part \notin Vectors
  BY <1>1, ArrivedAt, Zenon
<1>2. CASE x.part \in Vectors
  <2>1. SameFields(got, given, x.part)
    BY <1>2, ArrivedAt, Zenon
  <2> HIDE DEF got
  <2>2. f \in DOMAIN got
    BY Zenon DEF got
  <2>3. f \in DOMAIN given
    BY <2>1, <2>2, Zenon DEF SameFields
  <2>4. CASE ~IsPegouts(x.part, f)
    BY <2>1, <2>2, <2>3, <2>4, Zenon DEF SameFields, got
  <2>5. CASE IsPegouts(x.part, f)
    <3>1. PICK o \in Offers : f \in DOMAIN o.fields /\ given[f] = o.fields[f]
      BY <2>3, Zenon DEF FromOffers
    <3>2. x.part = "kernels" /\ f = "pegouts"
      BY <2>5, Zenon DEF IsPegouts
    <3>3. Len(given.pegouts) <= PegoutKeys
      BY <3>1, <3>2, Zenon DEF FewPegouts
    <3> HIDE DEF given
    <3>4. got.pegouts = given.pegouts
      BY <2>1, <2>2, <3>2, <3>3, Zenon DEF SameFields
    <3>. QED  BY <2>3, <3>2, <3>4, Zenon DEF got, given
  <2>. QED  BY <2>4, <2>5, Zenon
<1>. QED  BY <1>1, <1>2, Zenon

\* Sending a copy keeps both: what arrives was offered, and nothing of a signed map is lost.
LEMMA ArrivedOffered ==
  ASSUME FewPegouts, NEW c, Shape(c), FromOffers(c), Whole(c)
  PROVE  FromOffers(Transit(c)) /\ Whole(Transit(c))
<1> DEFINE t == Transit(c)
<1>1. ASSUME NEW x, Place(x), NEW f \in DOMAIN Target(t, x)
      PROVE  \E o \in Offers : SamePlace(o, x) /\ f \in DOMAIN o.fields /\ Target(t, x)[f] = o.fields[f]
  <2>1. f \in DOMAIN Target(c, x) /\ Target(t, x)[f] = Target(c, x)[f]
    BY <1>1, ArrivedValues, Zenon
  <2>2. PICK o \in Offers : SamePlace(o, x) /\ f \in DOMAIN o.fields /\ Target(c, x)[f] = o.fields[f]
    BY <1>1, <2>1, Zenon DEF FromOffers
  <2>. QED  BY <2>1, <2>2, Zenon
<1>2. ASSUME NEW o \in Offers, "signature" \in DOMAIN Target(t, o), NEW f \in DOMAIN o.fields \ {"unknowns"}
      PROVE  f \in DOMAIN Target(t, o)
  <2>1. Place(o) /\ f \in FieldsOf(o.part) \ {"unknowns"}
    BY OfferPlace, Zenon DEF IsMap
  <2>2. "signature" \in DOMAIN Target(c, o)
    BY <1>2, <2>1, ArrivedValues, Zenon
  <2>3. f \in DOMAIN Target(c, o)
    BY <1>2, <2>2, Zenon DEF Whole
  <2>. QED  BY <2>1, <2>3, FieldArrives, Zenon
<1>. QED  BY <1>1, <1>2, Zenon DEF FromOffers, Whole

\* Psbt::combine keeps both.
LEMMA CombinedOffered ==
  ASSUME NEW a, Shape(a), FromOffers(a), Whole(a), NEW b, Shape(b), FromOffers(b), Whole(b)
  PROVE  FromOffers(CombineMweb(a, b)) /\ Whole(CombineMweb(a, b))
<1> DEFINE c == CombineMweb(a, b)
<1>0. \A x : Place(x) => Target(c, x) = Merge(Target(a, x), Target(b, x))
  BY Combined, Zenon
<1> HIDE DEF c
<1>1. ASSUME NEW x, Place(x)
      PROVE  /\ DOMAIN Target(c, x) = DOMAIN Target(a, x) \cup DOMAIN Target(b, x)
             /\ \A f \in DOMAIN Target(c, x) :
                  \/ f \in DOMAIN Target(a, x) /\ Target(c, x)[f] = Target(a, x)[f]
                  \/ f \in DOMAIN Target(b, x) /\ Target(c, x)[f] = Target(b, x)[f]
  <2>1. Target(c, x) = Merge(Target(a, x), Target(b, x))
    BY <1>0, <1>1, Zenon
  <2>. QED  BY <2>1, Zenon DEF Merge
<1>2. ASSUME NEW x, Place(x), NEW f \in DOMAIN Target(c, x)
      PROVE  \E o \in Offers : SamePlace(o, x) /\ f \in DOMAIN o.fields /\ Target(c, x)[f] = o.fields[f]
  BY <1>1, <1>2, ZenonT(40) DEF FromOffers
<1>3. ASSUME NEW o \in Offers, "signature" \in DOMAIN Target(c, o)
      PROVE  DOMAIN o.fields \ {"unknowns"} \subseteq DOMAIN Target(c, o)
  <2>1. DOMAIN Target(c, o) = DOMAIN Target(a, o) \cup DOMAIN Target(b, o)
    BY <1>1, OfferPlace, Zenon
  <2>. QED  BY <1>3, <2>1, Zenon DEF Whole
<1>. QED  BY <1>2, <1>3, Zenon DEF FromOffers, Whole, c

\* Writing an offer keeps both: a signature comes after the other fields of its map.
LEMMA WrittenOffered ==
  ASSUME NEW c, Shape(c), FromOffers(c), Whole(c), NEW o \in Offers,
         "signature" \in DOMAIN o.fields => \A x \in Others(o) : Written(c, x)
  PROVE  FromOffers(WithOffer(c, o)) /\ Whole(WithOffer(c, o))
<1> DEFINE d == WithOffer(c, o)
<1>0. \A x : Place(x) => Target(d, x) =
        IF x.part = o.part /\ x.index = o.index THEN Merge(o.fields, Target(c, x)) ELSE Target(c, x)
  BY OfferWritten, Zenon
<1> HIDE DEF d
<1>1. ASSUME NEW x, Place(x), SamePlace(o, x)
      PROVE  /\ DOMAIN Target(d, x) = DOMAIN o.fields \cup DOMAIN Target(c, x)
             /\ \A f \in DOMAIN Target(d, x) :
                  \/ f \in DOMAIN o.fields /\ Target(d, x)[f] = o.fields[f]
                  \/ f \in DOMAIN Target(c, x) /\ Target(d, x)[f] = Target(c, x)[f]
  <2>1. Target(d, x) = Merge(o.fields, Target(c, x))
    BY <1>0, <1>1, Zenon DEF SamePlace
  <2>. QED  BY <2>1, Zenon DEF Merge
<1>2. ASSUME NEW x, Place(x), ~SamePlace(o, x) PROVE Target(d, x) = Target(c, x)
  BY <1>0, <1>2, Zenon DEF SamePlace
<1>3. ASSUME NEW x, Place(x), NEW f \in DOMAIN Target(d, x)
      PROVE  \E p \in Offers : SamePlace(p, x) /\ f \in DOMAIN p.fields /\ Target(d, x)[f] = p.fields[f]
  <2>1. CASE SamePlace(o, x)
    <3>1. \/ f \in DOMAIN o.fields /\ Target(d, x)[f] = o.fields[f]
          \/ f \in DOMAIN Target(c, x) /\ Target(d, x)[f] = Target(c, x)[f]
      BY <1>1, <1>3, <2>1, Zenon
    <3>2. f \in DOMAIN Target(c, x) => \E p \in Offers :
            SamePlace(p, x) /\ f \in DOMAIN p.fields /\ Target(c, x)[f] = p.fields[f]
      BY <1>3, Zenon DEF FromOffers
    <3>. QED  BY <2>1, <3>1, <3>2, Zenon
  <2>2. CASE ~SamePlace(o, x)
    BY <1>2, <1>3, <2>2, Zenon DEF FromOffers
  <2>. QED  BY <2>1, <2>2, Zenon
<1>4. ASSUME NEW p \in Offers, "signature" \in DOMAIN Target(d, p)
      PROVE  DOMAIN p.fields \ {"unknowns"} \subseteq DOMAIN Target(d, p)
  <2>1. Place(p)
    BY OfferPlace, Zenon
  <2>2. CASE ~SamePlace(o, p)
    BY <1>2, <1>4, <2>1, <2>2, Zenon DEF Whole
  <2>3. CASE SamePlace(o, p)
    <3>1. DOMAIN Target(d, p) = DOMAIN o.fields \cup DOMAIN Target(c, p)
      BY <1>1, <2>1, <2>3, Zenon
    <3>2. CASE "signature" \in DOMAIN Target(c, p)
      BY <3>1, <3>2, Zenon DEF Whole
    <3>3. CASE "signature" \in DOMAIN o.fields
      <4>1. CASE p = o
        BY <3>1, <4>1, Zenon
      <4>2. CASE p # o
        <5>1. p \in Others(o)
          BY <2>3, <4>2, Zenon DEF Others, SamePlace
        <5>. QED  BY <3>1, <3>3, <5>1, Zenon DEF Written
      <4>. QED  BY <4>1, <4>2, Zenon
    <3>. QED  BY <1>4, <3>1, <3>2, <3>3, Zenon
  <2>. QED  BY <2>2, <2>3, Zenon
<1>. QED  BY <1>3, <1>4, Zenon DEF FromOffers, Whole, d

\* Every copy, at a party or on its way, meets both.
Offered ==
  /\ \A p \in Party : FromOffers(copy[p]) /\ Whole(copy[p])
  /\ \A m \in mail : FromOffers(m.copy) /\ Whole(m.copy)

\* Every step keeps both,
LEMMA OfferedStep ==
  ASSUME FewPegouts, Shaped, Offered, [MwebNext]_mwebVars
  PROVE  Offered'
<1>1. ASSUME NEW p \in Party, NEW o \in Offers, WriteMap(p, o) PROVE Offered'
  <2>1. /\ copy' = [copy EXCEPT ![p] = WithOffer(copy[p], o)] /\ mail' = mail
        /\ "signature" \in DOMAIN o.fields => \A x \in Others(o) : Written(copy[p], x)
    BY <1>1, Zenon DEF WriteMap
  <2>2. Shape(copy[p]) /\ FromOffers(copy[p]) /\ Whole(copy[p])
    BY Zenon DEF Shaped, Offered
  <2>3. FromOffers(WithOffer(copy[p], o)) /\ Whole(WithOffer(copy[p], o))
    BY <2>1, <2>2, WrittenOffered, Zenon
  <2>4. \A q \in Party : FromOffers(copy'[q]) /\ Whole(copy'[q])
    BY <2>1, <2>3, OneChanges, Zenon DEF Offered
  <2>. QED  BY <2>1, <2>4, Zenon DEF Offered
<1>2. ASSUME NEW p \in Party, NEW q \in Party, Send(p, q) PROVE Offered'
  <2> DEFINE m == [from |-> p, to |-> q, copy |-> Transit(copy[p])]
  <2>1. copy' = copy /\ mail' = mail \cup {m}
    BY <1>2, Zenon DEF Send
  <2>2. FromOffers(Transit(copy[p])) /\ Whole(Transit(copy[p]))
    BY ArrivedOffered, Zenon DEF Shaped, Offered
  <2>3. m.copy = Transit(copy[p])
    BY Zenon
  <2> HIDE DEF m
  <2>. QED  BY <2>1, <2>2, <2>3, Zenon DEF Offered
<1>3. ASSUME NEW m \in mail, Combine(m), mail' \subseteq mail PROVE Offered'
  <2>1. m.to \in Party /\ copy' = [copy EXCEPT ![m.to] = CombineMweb(copy[m.to], m.copy)]
    BY <1>3, Zenon DEF Combine, Shaped
  <2>2. FromOffers(CombineMweb(copy[m.to], m.copy)) /\ Whole(CombineMweb(copy[m.to], m.copy))
    BY <2>1, CombinedOffered, Zenon DEF Shaped, Offered
  <2>3. \A q \in Party : FromOffers(copy'[q]) /\ Whole(copy'[q])
    BY <2>1, <2>2, OneChanges, Zenon DEF Offered
  <2>. QED  BY <1>3, <2>3, Zenon DEF Offered
<1>4. ASSUME NEW m \in mail, Lose(m) PROVE Offered'
  BY <1>4, Zenon DEF Lose, Offered
<1>5. ASSUME NEW m \in mail, Receive(m) \/ ReceiveAgain(m) PROVE Offered'
  BY <1>3, <1>5, Zenon DEF Receive, ReceiveAgain
<1>6. CASE UNCHANGED mwebVars
  BY <1>6, Zenon DEF mwebVars, Offered
<1>. QED  BY <1>1, <1>2, <1>4, <1>5, <1>6, Zenon DEF MwebNext

\* and so they hold in every reachable state.
LEMMA AlwaysOffered == FewPegouts => (MwebSpec => []Offered)
<1>1. MwebInit => Offered
  <2>1. ASSUME MwebInit PROVE Offered
    <3>1. copy = [p \in Party |-> FreshCopy] /\ mail = {}
      BY <2>1, Zenon DEF MwebInit
    <3>. QED  BY <3>1, FreshOffered, Zenon DEF Offered
  <2>. QED  BY <2>1, Zenon
<1>2. FewPegouts /\ Shaped /\ Offered /\ [MwebNext]_mwebVars => Offered'
  BY OfferedStep, Zenon
<1>3. FewPegouts => []FewPegouts
  <2>1. FewPegouts => FewPegouts'
    BY Zenon DEF FewPegouts
  <2>. QED  BY <2>1, PTL
<1>. QED  BY <1>1, <1>2, <1>3, AlwaysShaped, PTL DEF MwebSpec

-----------------------------------------------------------------------------
(* The transaction that a copy stands for.                                 *)

\* A vector whose maps all have a typed field arrives at full length.
LEMMA FullLength ==
  ASSUME NEW c, Shape(c), NEW part \in Vectors,
         \A i \in DOMAIN c[part] : DOMAIN c[part][i] \cap Range(OrderOf(part)) # {}
  PROVE  Len(Transit(c)[part]) = Len(c[part]) /\ DOMAIN Transit(c)[part] = DOMAIN c[part]
<1> DEFINE t == Transit(c)
           n == Len(c[part])
<1>1. Shape(t) /\ Arrives(t, c) /\ part \in Parts
  BY Arrived, Zenon DEF Vectors, Parts
<1> HIDE DEF t
<1>2. AreMaps(part, c[part]) /\ AreMaps(part, t[part])
  BY <1>1, Zenon DEF Shape
<1>3. /\ n \in Nat /\ DOMAIN c[part] = 1 .. n
      /\ Len(t[part]) \in Nat /\ DOMAIN t[part] = 1 .. Len(t[part])
  BY <1>2, VecDomain, Zenon DEF AreMaps
<1>4. Len(t[part]) <= n
  BY <1>1, Zenon DEF Arrives
<1>5. CASE n > 0
  <2>1. n \in DOMAIN c[part] /\ n \in Index
    BY <1>3, <1>5 DEF Index
  <2>2. SameFields(MapAt(t[part], n), MapAt(c[part], n), part)
    BY <1>1, <2>1, Zenon DEF Arrives
  <2>3. DOMAIN MapAt(t[part], n) # {}
    BY <2>1, <2>2, Zenon DEF SameFields, MapAt
  <2>4. n \in DOMAIN t[part]
    BY <2>3, DefaultMap, Zenon DEF MapAt
  <2>. QED  BY <1>3, <1>4, <2>4, SMTT(40) DEF t
<1>6. CASE n = 0
  BY <1>3, <1>4, <1>6 DEF t
<1>. QED  BY <1>3, <1>5, <1>6

\* Parallel inputs and outputs with a typed field each arrive as they are.
LEMMA VectorArrives ==
  ASSUME NEW c, Shape(c), NEW part \in {"inputs", "outputs"},
         \A i \in DOMAIN c[part] : DOMAIN c[part][i] # {}
  PROVE  Transit(c)[part] = c[part]
<1> DEFINE t == Transit(c)
<1>1. Shape(t) /\ Arrives(t, c) /\ part \in Parts /\ part \in Vectors
  BY Arrived, Zenon DEF Vectors, Parts
<1>2. FieldsOf(part) = Range(OrderOf(part))
  <2>1. CASE part = "inputs"
    BY <2>1, Zenon DEF FieldsOf, OrderOf
  <2>2. CASE part = "outputs"
    BY <2>2, Zenon DEF FieldsOf, OrderOf
  <2>. QED  BY <2>1, <2>2, Zenon
<1>3. AreMaps(part, c[part]) /\ AreMaps(part, t[part])
  BY <1>1, Zenon DEF Shape
<1>4. \A i \in DOMAIN c[part] : DOMAIN c[part][i] \cap Range(OrderOf(part)) # {}
  <2> SUFFICES ASSUME NEW i \in DOMAIN c[part]
               PROVE  DOMAIN c[part][i] \cap Range(OrderOf(part)) # {}
    BY Zenon
  <2>1. IsMap(c[part][i], FieldsOf(part))
    BY <1>3, Zenon DEF AreMaps
  <2>2. DOMAIN c[part][i] \subseteq Range(OrderOf(part)) /\ DOMAIN c[part][i] # {}
    BY <1>2, <2>1, Zenon DEF IsMap
  <2>. QED  BY <2>2, Zenon
<1>5. DOMAIN t[part] = DOMAIN c[part] /\ Len(t[part]) = Len(c[part])
  BY <1>1, <1>4, FullLength, Zenon
<1> HIDE DEF t
<1>6. ASSUME NEW i \in DOMAIN c[part] PROVE t[part][i] = c[part][i]
  <2> DEFINE got == t[part][i]
             given == c[part][i]
  <2>1. i \in Index
    BY <1>3 DEF AreMaps, IsVec, Index
  <2>2. SameFields(MapAt(t[part], i), MapAt(c[part], i), part)
    BY <1>1, <2>1, Zenon DEF Arrives
  <2>3. SameFields(got, given, part)
    BY <1>5, <2>2, Zenon DEF MapAt
  <2>4. IsMap(got, FieldsOf(part)) /\ IsMap(given, FieldsOf(part))
    BY <1>3, <1>5, Zenon DEF AreMaps
  <2> HIDE DEF got, given
  <2>5. DOMAIN got = DOMAIN given /\ \A f \in DOMAIN got : got[f] = given[f]
    BY <1>2, <2>3, <2>4, SMTT(40) DEF SameFields, IsMap, IsPegouts
  <2>6. got = [f \in DOMAIN got |-> got[f]] /\ given = [f \in DOMAIN given |-> given[f]]
    BY <2>4, Zenon DEF IsMap
  <2>7. got = given
    BY <2>5, <2>6, Zenon
  <2>. QED  BY <2>7, Zenon DEF got, given
<1>7. IsVec(t[part]) /\ IsVec(c[part])
  BY <1>3, Zenon DEF AreMaps
<1> DEFINE u == t[part]
           w == c[part]
<1>8. /\ Len(u) = Len(w) /\ DOMAIN w = 1 .. Len(w) /\ \A i \in DOMAIN w : u[i] = w[i]
      /\ u = [i \in 1 .. Len(u) |-> u[i]] /\ w = [i \in 1 .. Len(w) |-> w[i]]
  BY <1>5, <1>6, <1>7, VecDomain, Zenon DEF IsVec
<1> HIDE DEF u, w
<1>9. u = w
  BY <1>8, Zenon
<1>. QED  BY <1>9, Zenon DEF u, w, t

\* The same fields go into the transaction.
LEMMA SameWire ==
  ASSUME NEW a, NEW b, NEW fields,
         \A f \in fields : f \in DOMAIN a <=> f \in DOMAIN b,
         \A f \in DOMAIN a \cap DOMAIN b : a[f] = b[f]
  PROVE  WireFields(a, fields) = WireFields(b, fields)
<1> DEFINE Wired(m) == (DOMAIN m \cap fields) \ {g \in {"standard_fields"} \cap DOMAIN m : m[g] = Bad}
<1>1. \A f : f \in Wired(a) <=> f \in Wired(b)
  BY Zenon
<1>2. Wired(a) = Wired(b) /\ \A f \in Wired(a) : a[f] = b[f]
  BY <1>1, Zenon
<1>3. WireFields(a, fields) = [f \in Wired(a) |-> a[f]] /\ WireFields(b, fields) = [f \in Wired(b) |-> b[f]]
  BY Zenon DEF WireFields
<1> HIDE DEF Wired
<1>. QED  BY <1>2, <1>3, Zenon

\* A kernel that assembles still does when it arrives, to the same kernel.
LEMMA KernelArrives ==
  ASSUME NEW got, NEW given, KernelAssembles(given),
         DOMAIN got = DOMAIN given \cap Range(KernelOrder),
         \A f \in DOMAIN got : got[f] = given[f]
  PROVE  KernelAssembles(got) /\ WireKernel(got) = WireKernel(given)
<1>1. "excess_commit" \in Range(KernelOrder) /\ "signature" \in Range(KernelOrder)
  BY DEF KernelOrder, Range
<1>2. Has(got, {"excess_commit", "signature"}, {"stealth_commit"})
  <2>1. Has(given, {"excess_commit", "signature"}, {"stealth_commit"})
    BY Zenon DEF KernelAssembles
  <2>. QED  BY <1>1, <2>1, Zenon DEF Has
<1>3. "pegouts" \in DOMAIN got => Bad \notin Range(got.pegouts)
  BY Zenon DEF KernelAssembles
<1>4. WireFields(got, Range(KernelOrder)) = WireFields(given, Range(KernelOrder))
  BY SameWire
<1>. QED  BY <1>2, <1>3, <1>4, Zenon DEF KernelAssembles, WireKernel

\* The sources of the inputs and outputs arrive as they are.
LEMMA UsedArrive ==
  ASSUME NEW c, Shape(c), Assembles(c)
  PROVE  /\ Transit(c).inputs = c.inputs /\ Transit(c).outputs = c.outputs
         /\ UsedInputs(Transit(c)) = UsedInputs(c) /\ UsedOutputs(Transit(c)) = UsedOutputs(c)
<1> DEFINE t == Transit(c)
<1>1. t.in_slots = c.in_slots /\ t.out_slots = c.out_slots
  BY Arrived, Zenon DEF Arrives
<1>2. \A i \in DOMAIN c.inputs : DOMAIN c.inputs[i] # {}
  <2>1. ASSUME NEW i \in DOMAIN c.inputs PROVE DOMAIN c.inputs[i] # {}
    <3>1. c.inputs # << >>
      OBVIOUS
    <3>2. UsedInputs(c) = c.inputs
      BY <3>1, Zenon DEF UsedInputs, Used, Source
    <3>3. InputAssembles(c.inputs[i])
      BY <3>2, Zenon DEF Assembles
    <3>. QED  BY <3>3, Zenon DEF InputAssembles, Has
  <2>. QED  BY <2>1, Zenon
<1>3. \A i \in DOMAIN c.outputs : DOMAIN c.outputs[i] # {}
  <2>1. ASSUME NEW i \in DOMAIN c.outputs PROVE DOMAIN c.outputs[i] # {}
    <3>1. c.outputs # << >>
      OBVIOUS
    <3>2. UsedOutputs(c) = c.outputs
      BY <3>1, Zenon DEF UsedOutputs, Used, Source
    <3>3. OutputAssembles(c.outputs[i])
      BY <3>2, Zenon DEF Assembles
    <3>. QED  BY <3>3, Zenon DEF OutputAssembles, Has
  <2>. QED  BY <2>1, Zenon
<1>4. t["inputs"] = c["inputs"] /\ t["outputs"] = c["outputs"]
  BY <1>2, <1>3, VectorArrives, Zenon
<1> HIDE DEF t
<1>5. UsedInputs(t) = UsedInputs(c) /\ UsedOutputs(t) = UsedOutputs(c)
  BY <1>1, <1>4, Zenon DEF UsedInputs, UsedOutputs
<1>. QED  BY <1>4, <1>5, Zenon DEF t

\* A copy that assembles a transaction assembles the same one after it was sent.
LEMMA TxArrives ==
  ASSUME FewPegouts, NEW c, Shape(c), FromOffers(c), Assembles(c)
  PROVE  Assembles(Transit(c)) /\ AssembleMwTx(Transit(c)) = AssembleMwTx(c)
<1> DEFINE t == Transit(c)
<1>1. UsedInputs(t) = UsedInputs(c) /\ UsedOutputs(t) = UsedOutputs(c)
  BY UsedArrive, Zenon
<1>2. t.offsets = c.offsets
  BY Arrived, Zenon DEF Arrives
<1>3. \A i \in DOMAIN c.kernels : KernelAssembles(c.kernels[i])
  BY Zenon DEF Assembles
<1>4. "kernels" \in Vectors /\ "kernels" \in Parts /\ OrderOf("kernels") = KernelOrder
  BY Zenon DEF Vectors, Parts, OrderOf
<1>5. DOMAIN t.kernels = DOMAIN c.kernels
  <2>1. "signature" \in Range(KernelOrder)
    BY DEF KernelOrder, Range
  <2>2. \A i \in DOMAIN c.kernels : DOMAIN c.kernels[i] \cap Range(KernelOrder) # {}
    BY <1>3, <2>1, Zenon DEF KernelAssembles, Has
  <2>. QED  BY <1>4, <2>2, FullLength, Zenon
<1>6. ASSUME NEW i \in DOMAIN c.kernels
      PROVE  KernelAssembles(t.kernels[i]) /\ WireKernel(t.kernels[i]) = WireKernel(c.kernels[i])
  <2> DEFINE x == [part |-> "kernels", index |-> i]
             got == t.kernels[i]
             given == c.kernels[i]
  <2>1. i \in Index
    <3>1. AreMaps("kernels", c["kernels"])
      BY <1>4, Zenon DEF Shape
    <3>. QED  BY <3>1 DEF AreMaps, IsVec, Index
  <2>2. Place(x) /\ x.part = "kernels" /\ x.index = i
    BY <1>4, <2>1, Zenon DEF Place
  <2>3. Target(t, x) = got /\ Target(c, x) = given
    BY <1>5, <1>6, Zenon DEF Target, MapAt
  <2> HIDE DEF x, got, given
  <2>4. DOMAIN got = DOMAIN given \cap Range(KernelOrder)
    <3>1. SameFields(Target(t, x), Target(c, x), x.part)
      BY <1>4, <2>2, ArrivedAt, Zenon
    <3>. QED  BY <1>4, <2>2, <2>3, <3>1, Zenon DEF SameFields
  <2>5. \A f \in DOMAIN got : got[f] = given[f]
    BY <2>2, <2>3, ArrivedValues, Zenon
  <2>6. KernelAssembles(given)
    BY <1>3, Zenon DEF given
  <2>7. KernelAssembles(got) /\ WireKernel(got) = WireKernel(given)
    BY <2>4, <2>5, <2>6, KernelArrives, Zenon
  <2>. QED  BY <2>7, Zenon DEF got, given
<1> HIDE DEF t
<1>7. Assembles(t)
  BY <1>1, <1>2, <1>5, <1>6, Zenon DEF Assembles
<1>8. [i \in DOMAIN t.kernels |-> WireKernel(t.kernels[i])]
        = [i \in DOMAIN c.kernels |-> WireKernel(c.kernels[i])]
  BY <1>5, <1>6, Zenon
<1>9. AssembleMwTx(t) = AssembleMwTx(c)
  BY <1>1, <1>2, <1>8, Zenon DEF AssembleMwTx
<1>. QED  BY <1>7, <1>9, Zenon DEF t

\* A copy travels whole, for any number of parties, maps and messages: a signature
\* never arrives at, or is combined into, a map without what it signs, and the receiver
\* extracts the transaction the sender could.  Pegouts keep their places as long as the
\* key byte tells them apart (get_pairs, decode_global, combine and
\* extract_tx_with_mweb of Psbt).
THEOREM MapsAlwaysTravel == FewPegouts => (MwebSpec => []MapsTravel)
<1>1. ASSUME FewPegouts, Shaped, Offered PROVE MapsTravel
  <2>1. SignedMapsWhole
    <3>1. ASSUME NEW c, FromOffers(c), Whole(c), NEW o \in Offers,
                 "signature" \in DOMAIN Target(c, o), NEW f \in DOMAIN o.fields \ {"unknowns"}
          PROVE  f \in DOMAIN Target(c, o) /\ Target(c, o)[f] = o.fields[f]
      <4>1. f \in DOMAIN Target(c, o)
        BY <3>1, Zenon DEF Whole
      <4>2. Place(o) /\ SamePlace(o, o)
        BY OfferPlace, Zenon DEF SamePlace
      <4>. QED  BY <3>1, <4>1, <4>2, OfferedValue, SMTT(40)
    <3>2. \A c \in Copies : FromOffers(c) /\ Whole(c)
      BY <1>1, Zenon DEF Offered, Copies
    <3>. QED  BY <3>1, <3>2, Zenon DEF SignedMapsWhole
  <2>2. PortableTx
    <3>1. ASSUME NEW p \in Party, Assembles(copy[p])
          PROVE  Assembles(Transit(copy[p])) /\ AssembleMwTx(Transit(copy[p])) = AssembleMwTx(copy[p])
      BY <1>1, <3>1, TxArrives, Zenon DEF Shaped, Offered
    <3>. QED  BY <3>1, Zenon DEF PortableTx
  <2>. QED  BY <2>1, <2>2, Zenon DEF MapsTravel
<1>2. FewPegouts => []FewPegouts
  <2>1. FewPegouts => FewPegouts'
    BY Zenon DEF FewPegouts
  <2>. QED  BY <2>1, PTL
<1>3. FewPegouts /\ Shaped /\ Offered => MapsTravel
  BY <1>1, Zenon
<1>. QED  BY <1>2, <1>3, AlwaysShaped, AlwaysOffered, PTL

-----------------------------------------------------------------------------
(* The transaction once it can be extracted.                               *)

\* No map or field goes away from c to d.
Grows(c, d) ==
  /\ \A part \in Parts : Len(d[part]) >= Len(c[part])
  /\ \A x : Place(x) => DOMAIN Target(c, x) \subseteq DOMAIN Target(d, x)

\* A field keeps its value, and a signed map gets no new typed field.
LEMMA MapStays ==
  ASSUME NEW c, NEW d, FromOffers(c), Whole(c), FromOffers(d), Grows(c, d), NEW x, Place(x)
  PROVE  /\ \A f \in DOMAIN Target(c, x) : f \in DOMAIN Target(d, x) /\ Target(d, x)[f] = Target(c, x)[f]
         /\ "signature" \in DOMAIN Target(c, x) =>
              DOMAIN Target(d, x) \ {"unknowns"} \subseteq DOMAIN Target(c, x)
<1>1. ASSUME NEW f \in DOMAIN Target(c, x)
      PROVE  f \in DOMAIN Target(d, x) /\ Target(d, x)[f] = Target(c, x)[f]
  <2>1. f \in DOMAIN Target(d, x)
    BY <1>1, Zenon DEF Grows
  <2>2. PICK o \in Offers : SamePlace(o, x) /\ f \in DOMAIN o.fields /\ Target(c, x)[f] = o.fields[f]
    BY <1>1, Zenon DEF FromOffers
  <2>3. Target(d, x)[f] = o.fields[f]
    BY <2>1, <2>2, OfferedValue, SMTT(40)
  <2>. QED  BY <2>1, <2>2, <2>3, Zenon
<1>2. ASSUME "signature" \in DOMAIN Target(c, x), NEW f \in DOMAIN Target(d, x) \ {"unknowns"}
      PROVE  f \in DOMAIN Target(c, x)
  <2>1. PICK o \in Offers : SamePlace(o, x) /\ f \in DOMAIN o.fields
    BY Zenon DEF FromOffers
  <2>2. Target(c, o) = Target(c, x)
    BY <2>1, TargetSame, Zenon
  <2>. QED  BY <1>2, <2>1, <2>2, Zenon DEF Whole
<1>. QED  BY <1>1, <1>2, Zenon

\* A vector with the elements of another one first starts with it.
LEMMA PrefixVec ==
  ASSUME NEW u, IsVec(u), NEW w, IsVec(w), Len(u) <= Len(w), \A n \in 1 .. Len(u) : w[n] = u[n]
  PROVE  StartOf(u, w)
<1>1. /\ u \in Seq(Range(u)) /\ DOMAIN u = 1 .. Len(u) /\ Len(u) \in Nat
      /\ w \in Seq(Range(w)) /\ DOMAIN w = 1 .. Len(w) /\ Len(w) \in Nat
  BY VecSeq, Zenon
<1> DEFINE k == Len(u)
<1>2. SubSeq(w, 1, k) = [n \in 1 .. k |-> w[n]]
  BY <1>1
<1>3. u = [n \in 1 .. k |-> u[n]]
  BY <1>1
<1>4. SubSeq(w, 1, k) = u
  BY <1>2, <1>3, Zenon
<1>. QED  BY <1>4, Zenon DEF StartOf

\* The unknowns of a kernel are not part of the transaction.
LEMMA UnknownsOut ==
  "unknowns" \notin Range(KernelOrder) /\ "unknowns" \notin Range(OutputOrder)
<1>1. \A n \in DOMAIN KernelOrder : KernelOrder[n] # "unknowns"
  BY DEF KernelOrder
<1>2. \A n \in DOMAIN OutputOrder : OutputOrder[n] # "unknowns"
  BY DEF OutputOrder
<1>. QED  BY <1>1, <1>2, Zenon DEF Range

\* The copies before and after a step.
Follows(c, d) ==
  /\ Shape(c) /\ Shape(d) /\ Grows(c, d)
  /\ FromOffers(c) /\ Whole(c) /\ FromOffers(d)

AllSigned(maps) == \A i \in DOMAIN maps : "signature" \in DOMAIN maps[i]
Wires(u, maps, fields) == u = [i \in DOMAIN maps |-> WireFields(maps[i], fields)]

\* Signed maps of a part stay the beginning of what goes into the transaction.
LEMMA WirePrefix ==
  ASSUME NEW c, NEW d, Follows(c, d), NEW part \in Parts, AllSigned(c[part]),
         NEW fields, "unknowns" \notin fields,
         NEW u, Wires(u, c[part], fields), NEW w, Wires(w, d[part], fields)
  PROVE  StartOf(u, w)
<1>0. /\ Shape(c) /\ Shape(d) /\ Grows(c, d) /\ FromOffers(c) /\ Whole(c) /\ FromOffers(d)
      /\ \A i \in DOMAIN c[part] : "signature" \in DOMAIN c[part][i]
      /\ u = [i \in DOMAIN c[part] |-> WireFields(c[part][i], fields)]
      /\ w = [i \in DOMAIN d[part] |-> WireFields(d[part][i], fields)]
  BY Zenon DEF Follows, AllSigned, Wires
<1>1. AreMaps(part, c[part]) /\ AreMaps(part, d[part])
  BY <1>0, Zenon DEF Shape
<1>2. /\ Len(c[part]) \in Nat /\ DOMAIN c[part] = 1 .. Len(c[part])
      /\ Len(d[part]) \in Nat /\ DOMAIN d[part] = 1 .. Len(d[part])
  BY <1>1, VecDomain, Zenon DEF AreMaps
<1>3. /\ IsVec(u) /\ Len(u) = Len(c[part]) /\ IsVec(w) /\ Len(w) = Len(d[part])
  <2>1. u = [i \in 1 .. Len(c[part]) |-> u[i]] /\ w = [i \in 1 .. Len(d[part]) |-> w[i]]
    BY <1>0, <1>2, Zenon
  <2>. QED  BY <1>2, <2>1, VecLen, Zenon
<1>4. Len(u) <= Len(w)
  BY <1>0, <1>2, <1>3, Zenon DEF Grows
<1>5. ASSUME NEW i \in 1 .. Len(u) PROVE w[i] = u[i]
  <2> DEFINE x == [part |-> part, index |-> i]
  <2>1. i \in DOMAIN c[part] /\ i \in DOMAIN d[part] /\ i \in Index
    BY <1>2, <1>3, <1>4 DEF Index
  <2>2. part # "offsets" /\ x.part = part /\ x.index = i
    BY Zenon DEF Parts
  <2>3. Place(x)
    BY <2>1, <2>2, Zenon DEF Place
  <2>4. Target(c, x) = c[part][i] /\ Target(d, x) = d[part][i]
    BY <2>1, <2>2, Zenon DEF Target, MapAt
  <2> HIDE DEF x
  <2> DEFINE a == c[part][i]
             b == d[part][i]
  <2>5. /\ \A f \in DOMAIN a : f \in DOMAIN b /\ b[f] = a[f]
        /\ "signature" \in DOMAIN a => DOMAIN b \ {"unknowns"} \subseteq DOMAIN a
    <3>1. /\ \A f \in DOMAIN Target(c, x) : f \in DOMAIN Target(d, x) /\ Target(d, x)[f] = Target(c, x)[f]
          /\ "signature" \in DOMAIN Target(c, x) =>
               DOMAIN Target(d, x) \ {"unknowns"} \subseteq DOMAIN Target(c, x)
      BY <1>0, <2>3, MapStays, Zenon
    <3>. QED  BY <2>4, <3>1, Zenon
  <2>6. "signature" \in DOMAIN a
    BY <1>0, <2>1, Zenon
  <2> HIDE DEF a, b
  <2>7. WireFields(a, fields) = WireFields(b, fields)
    <3>1. \A f \in fields : f \in DOMAIN a <=> f \in DOMAIN b
      BY <2>5, <2>6, Zenon
    <3>2. \A f \in DOMAIN a \cap DOMAIN b : a[f] = b[f]
      BY <2>5, Zenon
    <3>. QED  BY <3>1, <3>2, SameWire, Zenon
  <2>8. u[i] = WireFields(a, fields) /\ w[i] = WireFields(b, fields)
    BY <1>0, <2>1, Zenon DEF a, b
  <2>. QED  BY <2>7, <2>8, Zenon
<1>. QED  BY <1>3, <1>4, <1>5, PrefixVec, Zenon

\* Every vector starts with the empty one.
LEMMA EmptyPrefix ==
  ASSUME NEW u, u = << >>, NEW w, IsVec(w)
  PROVE  StartOf(u, w)
<1>1. IsVec(u) /\ Len(u) = 0 /\ Len(w) \in Nat
  BY DEF IsVec
<1>. QED  BY <1>1, PrefixVec

Uses(a, c, maps, slots, mark) == a = Used(c[maps], c[slots], mark)
SameUse(c, d, maps, slots, mark) == Source(c[maps], c[slots], mark) = Source(d[maps], d[slots], mark)

\* Inputs and outputs are taken from the same vectors; the mark is the field that
\* Psbt::extract_tx_with_mweb looks for in the slots.
LEMMA UsedPrefix ==
  ASSUME NEW c, NEW d, Follows(c, d), NEW maps \in Parts, NEW slots \in Parts, NEW mark,
         SameUse(c, d, maps, slots, mark), NEW fields, "unknowns" \notin fields,
         NEW a, Uses(a, c, maps, slots, mark), AllSigned(a), NEW b, Uses(b, d, maps, slots, mark),
         NEW u, Wires(u, a, fields), NEW w, Wires(w, b, fields)
  PROVE  StartOf(u, w)
<1> DEFINE source == Source(c[maps], c[slots], mark)
<1>1. /\ a = IF source = "parallel" THEN c[maps] ELSE IF source = "slots" THEN c[slots] ELSE << >>
      /\ b = IF source = "parallel" THEN d[maps] ELSE IF source = "slots" THEN d[slots] ELSE << >>
  BY Zenon DEF Used, Uses, SameUse
<1> HIDE DEF source
<1>2. CASE source = "parallel"
  <2>1. a = c[maps] /\ b = d[maps]
    BY <1>1, <1>2, Zenon
  <2>. QED  BY <2>1, WirePrefix, Zenon
<1>3. CASE source # "parallel" /\ source = "slots"
  <2>1. a = c[slots] /\ b = d[slots]
    BY <1>1, <1>3, Zenon
  <2>. QED  BY <2>1, WirePrefix, Zenon
<1>4. CASE source # "parallel" /\ source # "slots"
  <2>1. a = << >> /\ b = << >>
    BY <1>1, <1>4, Zenon
  <2>2. u = << >> /\ w = << >>
    BY <2>1 DEF Wires
  <2>3. IsVec(w)
    BY <2>2 DEF IsVec
  <2>. QED  BY <2>2, <2>3, EmptyPrefix, Zenon
<1>. QED  BY <1>2, <1>3, <1>4, Zenon

\* What follows a copy that assembles a transaction assembles that transaction and more.
LEMMA TxStays ==
  ASSUME NEW c, NEW d, Follows(c, d), Assembles(c), SameSource(c, d)
  PROVE  /\ AssembleMwTx(d).offsets = AssembleMwTx(c).offsets
         /\ StartOf(AssembleMwTx(c).inputs, AssembleMwTx(d).inputs)
         /\ StartOf(AssembleMwTx(c).outputs, AssembleMwTx(d).outputs)
         /\ StartOf(AssembleMwTx(c).kernels, AssembleMwTx(d).kernels)
<1> DEFINE old == AssembleMwTx(c)
           new == AssembleMwTx(d)
<1>0. "inputs" \in Parts /\ "outputs" \in Parts /\ "in_slots" \in Parts /\ "out_slots" \in Parts /\ "kernels" \in Parts
  BY Zenon DEF Parts
<1>1. new.offsets = old.offsets
  <2> DEFINE x == [part |-> "offsets", index |-> 1]
             a == c.offsets
             b == d.offsets
  <2>1. Place(x) /\ Target(c, x) = a /\ Target(d, x) = b
    BY DEF Place, Target, Index
  <2>2. IsMap(a, FieldsOf("offsets")) /\ IsMap(b, FieldsOf("offsets"))
    BY Zenon DEF Shape, Follows
  <2>3. FieldsOf("offsets") = {"tx_offset", "stealth_offset"}
    BY Zenon DEF FieldsOf
  <2>4. {"tx_offset", "stealth_offset"} \subseteq DOMAIN a
    BY Zenon DEF Assembles
  <2>5. \A f \in DOMAIN a : f \in DOMAIN b /\ b[f] = a[f]
    <3>1. \A f \in DOMAIN Target(c, x) : f \in DOMAIN Target(d, x) /\ Target(d, x)[f] = Target(c, x)[f]
      <4>1. FromOffers(c) /\ Whole(c) /\ FromOffers(d) /\ Grows(c, d)
        BY Zenon DEF Follows
      <4>2. Place(x)
        BY <2>1, Zenon
      <4> HIDE DEF x
      <4>. QED  BY <4>1, <4>2, MapStays, SMT
    <3>. QED  BY <2>1, <3>1, Zenon
  <2>6. new.offsets = b /\ old.offsets = a
    BY Zenon DEF AssembleMwTx
  <2> HIDE DEF a, b, x
  <2>7. DOMAIN a = DOMAIN b
    BY <2>2, <2>3, <2>4, <2>5, Zenon DEF IsMap
  <2>8. a = [f \in DOMAIN a |-> a[f]] /\ b = [f \in DOMAIN b |-> b[f]]
    BY <2>2, Zenon DEF IsMap
  <2>9. a = b
    BY <2>5, <2>7, <2>8, Zenon
  <2>. QED  BY <2>6, <2>9, Zenon
<1>2. StartOf(old.inputs, new.inputs)
  <2> DEFINE fields == {"output_id", "commit", "output_pubkey", "input_pubkey", "features",
                        "signature", "extra_data"}
             a == UsedInputs(c)
             b == UsedInputs(d)
  <2>1. Wires(old.inputs, a, fields) /\ Wires(new.inputs, b, fields)
    BY Zenon DEF AssembleMwTx, WireInput, Wires
  <2>2. "unknowns" \notin fields
    BY Zenon
  <2> HIDE DEF fields
  <2>3. AllSigned(a)
    <3>1. \A i \in DOMAIN a : InputAssembles(a[i])
      BY Zenon DEF Assembles
    <3>. QED  BY <3>1, Zenon DEF InputAssembles, Has, AllSigned
  <2>4. /\ SameUse(c, d, "inputs", "in_slots", "output_id")
        /\ Uses(a, c, "inputs", "in_slots", "output_id")
        /\ Uses(b, d, "inputs", "in_slots", "output_id")
    BY Zenon DEF SameSource, UsedInputs, Uses, SameUse
  <2> HIDE DEF a, b, old, new
  <2>. QED  BY <1>0, <2>1, <2>2, <2>3, <2>4, UsedPrefix, Zenon
<1>3. StartOf(old.outputs, new.outputs)
  <2> DEFINE fields == Range(OutputOrder) \ {"stealth_address"}
             a == UsedOutputs(c)
             b == UsedOutputs(d)
  <2>1. Wires(old.outputs, a, fields) /\ Wires(new.outputs, b, fields)
    BY Zenon DEF AssembleMwTx, WireOutput, Wires
  <2>2. "unknowns" \notin fields
    BY UnknownsOut, Zenon
  <2> HIDE DEF fields
  <2>3. AllSigned(a)
    <3>1. \A i \in DOMAIN a : OutputAssembles(a[i])
      BY Zenon DEF Assembles
    <3>. QED  BY <3>1, Zenon DEF OutputAssembles, Has, AllSigned
  <2>4. /\ SameUse(c, d, "outputs", "out_slots", "commit")
        /\ Uses(a, c, "outputs", "out_slots", "commit")
        /\ Uses(b, d, "outputs", "out_slots", "commit")
    BY Zenon DEF SameSource, UsedOutputs, Uses, SameUse
  <2> HIDE DEF a, b, old, new
  <2>. QED  BY <1>0, <2>1, <2>2, <2>3, <2>4, UsedPrefix, Zenon
<1>4. StartOf(old.kernels, new.kernels)
  <2> DEFINE fields == Range(KernelOrder)
  <2>1. Wires(old.kernels, c["kernels"], fields) /\ Wires(new.kernels, d["kernels"], fields)
    BY Zenon DEF AssembleMwTx, WireKernel, Wires
  <2>2. "unknowns" \notin fields
    BY UnknownsOut, Zenon
  <2> HIDE DEF fields
  <2>3. AllSigned(c["kernels"])
    <3>1. \A i \in DOMAIN c["kernels"] : KernelAssembles(c["kernels"][i])
      BY Zenon DEF Assembles
    <3>. QED  BY <3>1, Zenon DEF KernelAssembles, Has, AllSigned
  <2> HIDE DEF old, new
  <2>. QED  BY <1>0, <2>1, <2>2, <2>3, WirePrefix, Zenon
<1>. QED  BY <1>1, <1>2, <1>3, <1>4, Zenon

\* Writing and combining make a copy grow.
LEMMA GrowsStep ==
  ASSUME Shaped, [MwebNext]_mwebVars, NEW p \in Party
  PROVE  copy'[p] = copy[p] \/ Grows(copy[p], copy'[p])
<1>1. ASSUME NEW q \in Party, NEW o \in Offers, WriteMap(q, o)
      PROVE  copy'[p] = copy[p] \/ Grows(copy[p], copy'[p])
  <2> DEFINE c == copy[q]
             d == WithOffer(c, o)
  <2>1. copy' = [copy EXCEPT ![q] = d] /\ Shape(c)
    BY <1>1, Zenon DEF WriteMap, Shaped
  <2>2. copy'[q] = d /\ \A r \in Party \ {q} : copy'[r] = copy[r]
    BY <2>1, OneChanges, Zenon
  <2>3. /\ \A part \in Parts : Len(d[part]) >= Len(c[part])
        /\ \A x : Place(x) => Target(d, x) =
             IF x.part = o.part /\ x.index = o.index THEN Merge(o.fields, Target(c, x)) ELSE Target(c, x)
    BY <2>1, OfferWritten, Zenon
  <2> HIDE DEF d
  <2>4. ASSUME NEW x, Place(x) PROVE DOMAIN Target(c, x) \subseteq DOMAIN Target(d, x)
    <3>1. Target(d, x) = Merge(o.fields, Target(c, x)) \/ Target(d, x) = Target(c, x)
      BY <2>3, <2>4, Zenon
    <3>2. DOMAIN Merge(o.fields, Target(c, x)) = DOMAIN o.fields \cup DOMAIN Target(c, x)
      BY MergedDomain, Zenon
    <3>. QED  BY <3>1, <3>2, Zenon
  <2>5. Grows(c, d)
    BY <2>3, <2>4, Zenon DEF Grows
  <2>. QED  BY <2>2, <2>5, Zenon
<1>2. ASSUME NEW m \in mail, Combine(m)
      PROVE  copy'[p] = copy[p] \/ Grows(copy[p], copy'[p])
  <2> DEFINE c == copy[m.to]
             d == CombineMweb(c, m.copy)
  <2>1. m.to \in Party /\ copy' = [copy EXCEPT ![m.to] = d] /\ Shape(c) /\ Shape(m.copy)
    BY <1>2, Zenon DEF Combine, Shaped
  <2>2. copy'[m.to] = d /\ \A r \in Party \ {m.to} : copy'[r] = copy[r]
    BY <2>1, OneChanges, Zenon
  <2>3. /\ \A part \in Parts : Len(d[part]) >= Len(c[part])
        /\ \A x : Place(x) => Target(d, x) = Merge(Target(c, x), Target(m.copy, x))
    BY <2>1, Combined, Zenon
  <2> HIDE DEF d
  <2>4. ASSUME NEW x, Place(x) PROVE DOMAIN Target(c, x) \subseteq DOMAIN Target(d, x)
    <3>1. Target(d, x) = Merge(Target(c, x), Target(m.copy, x))
      BY <2>3, <2>4, Zenon
    <3>2. DOMAIN Merge(Target(c, x), Target(m.copy, x)) = DOMAIN Target(c, x) \cup DOMAIN Target(m.copy, x)
      BY MergedDomain, Zenon
    <3>. QED  BY <3>1, <3>2, Zenon
  <2>5. Grows(c, d)
    BY <2>3, <2>4, Zenon DEF Grows
  <2>. QED  BY <2>2, <2>5, Zenon
<1>3. ASSUME NEW q \in Party, NEW r \in Party, Send(q, r) PROVE copy'[p] = copy[p]
  BY <1>3, Zenon DEF Send
<1>4. ASSUME NEW m \in mail, Lose(m) PROVE copy'[p] = copy[p]
  BY <1>4, Zenon DEF Lose
<1>5. CASE UNCHANGED mwebVars
  BY <1>5, Zenon DEF mwebVars
<1>. QED  BY <1>1, <1>2, <1>3, <1>4, <1>5, Zenon DEF MwebNext, Receive, ReceiveAgain

\* Once a party can extract a transaction, no later write and no received copy changes
\* what is in it: the offsets stay, and inputs, outputs and kernels are only added
\* after the ones it has, as long as it is taken from the same vectors
\* (Psbt::extract_tx_with_mweb after Psbt::combine).
THEOREM ExtractedAlwaysStable == FewPegouts => (MwebSpec => ExtractedStable)
<1> DEFINE Stable(p) ==
      Assembles(copy[p]) /\ Assembles(copy'[p]) /\ SameSource(copy[p], copy'[p]) =>
        LET old == AssembleMwTx(copy[p])
            new == AssembleMwTx(copy'[p])
        IN  /\ new.offsets = old.offsets
            /\ StartOf(old.inputs, new.inputs)
            /\ StartOf(old.outputs, new.outputs)
            /\ StartOf(old.kernels, new.kernels)
<1>1. ASSUME FewPegouts, Shaped, Offered, Shaped', Offered', [MwebNext]_mwebVars, NEW p \in Party
      PROVE  Stable(p)
  <2>1. /\ Shape(copy[p]) /\ FromOffers(copy[p]) /\ Whole(copy[p])
        /\ Shape(copy'[p]) /\ FromOffers(copy'[p])
    BY <1>1, Zenon DEF Shaped, Offered
  <2>2. Grows(copy[p], copy'[p])
    <3>1. Grows(copy[p], copy[p])
      <4>1. \A part \in Parts : Len(copy[p][part]) \in Nat
        BY <2>1, Zenon DEF Shape, AreMaps, IsVec
      <4>. QED  BY <4>1 DEF Grows
    <3>. QED  BY <1>1, <3>1, GrowsStep, Zenon
  <2>. QED  BY <2>1, <2>2, TxStays, Zenon DEF Follows
<1>2. FewPegouts /\ Shaped /\ Offered /\ Shaped' /\ Offered' /\ [MwebNext]_mwebVars
        => [\A p \in Party : Stable(p)]_mwebVars
  BY <1>1, Zenon
<1>3. FewPegouts => []FewPegouts
  <2>1. FewPegouts => FewPegouts'
    BY Zenon DEF FewPegouts
  <2>. QED  BY <2>1, PTL
<1>4. FewPegouts => (MwebSpec => [][\A p \in Party : Stable(p)]_mwebVars)
  BY <1>2, <1>3, AlwaysShaped, AlwaysOffered, PTL DEF MwebSpec
<1>. QED  BY <1>4, Zenon DEF ExtractedStable
=============================================================================
