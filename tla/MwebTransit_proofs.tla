------------------------- MODULE MwebTransit_proofs -------------------------
(***************************************************************************)
(* What a copy of the MWEB maps is after it was written as global pairs    *)
(* and read back (Transit): the pairs say what the copy has, and reading   *)
(* them one by one makes maps with what they say.  MwebWorkflow_proofs     *)
(* builds on Arrived, the last lemma.                                      *)
(***************************************************************************)
EXTENDS MwebWorkflow, Induction

-----------------------------------------------------------------------------
(* Vectors.                                                                *)

\* A function on 1 .. k is a vector of length k.
LEMMA VecLen ==
  ASSUME NEW k \in Nat, NEW v, v = [n \in 1 .. k |-> v[n]]
  PROVE  Len(v) = k /\ IsVec(v) /\ DOMAIN v = 1 .. k
<1> DEFINE S == {v[n] : n \in 1 .. k}
<1>1. v \in [1 .. k -> S]
  BY Zenon
<1> HIDE DEF S
<1>2. v \in Seq(S) /\ DOMAIN v = 1 .. k
  BY <1>1
<1>3. Len(v) = k
  BY <1>2
<1>. QED  BY <1>2, <1>3, Zenon DEF IsVec

\* A vector has the indices 1 .. Len.
LEMMA VecDomain ==
  ASSUME NEW v, IsVec(v)
  PROVE  Len(v) \in Nat /\ DOMAIN v = 1 .. Len(v)
  BY Zenon DEF IsVec

\* A vector is a sequence of its elements.
LEMMA VecSeq ==
  ASSUME NEW v, IsVec(v), NEW S, Range(v) \subseteq S
  PROVE  v \in Seq(S) /\ DOMAIN v = 1 .. Len(v) /\ Len(v) \in Nat
<1>1. Len(v) \in Nat /\ DOMAIN v = 1 .. Len(v)
  BY Zenon DEF IsVec
<1>2. v \in [1 .. Len(v) -> S]
  BY <1>1, Zenon DEF IsVec, Range
<1>. QED  BY <1>1, <1>2

\* A sequence is a vector of elements of its set.
LEMMA SeqVec ==
  ASSUME NEW S, NEW v \in Seq(S)
  PROVE  IsVec(v) /\ Range(v) \subseteq S
<1>1. Len(v) \in Nat /\ DOMAIN v = 1 .. Len(v) /\ v \in [1 .. Len(v) -> S]
  OBVIOUS
<1>. QED  BY <1>1, Zenon DEF IsVec, Range

\* The elements of two vectors, one after the other.
LEMMA ConcatVec ==
  ASSUME NEW s, IsVec(s), NEW t, IsVec(t)
  PROVE  IsVec(s \o t) /\ Range(s \o t) = Range(s) \cup Range(t)
<1> DEFINE S == Range(s) \cup Range(t)
<1>1. s \in Seq(S) /\ t \in Seq(S)
  BY VecSeq, Zenon
<1>2. s \o t \in Seq(S)
  BY <1>1
<1>3. IsVec(s \o t) /\ Range(s \o t) \subseteq S
  BY <1>2, SeqVec, Zenon
<1>4. ASSUME NEW x \in Range(s) PROVE x \in Range(s \o t)
  <2>1. PICK n \in DOMAIN s : s[n] = x
    BY <1>4, Zenon DEF Range
  <2> HIDE DEF S
  <2>2. n \in DOMAIN (s \o t) /\ (s \o t)[n] = x
    BY <1>1, <2>1
  <2>. QED  BY <2>2, Zenon DEF Range
<1>5. ASSUME NEW x \in Range(t) PROVE x \in Range(s \o t)
  <2>1. PICK n \in DOMAIN t : t[n] = x
    BY <1>5, Zenon DEF Range
  <2> HIDE DEF S
  <2>2. Len(s) + n \in DOMAIN (s \o t) /\ (s \o t)[Len(s) + n] = x
    BY <1>1, <2>1
  <2>. QED  BY <2>2, Zenon DEF Range
<1>. QED  BY <1>3, <1>4, <1>5, Zenon

\* concat appends one vector after the other: such a function exists.
Joins(join, ss, m) ==
  join = [n \in 0 .. m |-> IF n = 0 THEN << >> ELSE join[n - 1] \o ss[n]]

LEMMA Joining ==
  ASSUME NEW ss, NEW N \in Nat
  PROVE  \E join : Joins(join, ss, N)
<1> DEFINE S == {m \in 0 .. N : \E join : Joins(join, ss, m)}
<1>1. 0 \in S
  <2> DEFINE f == [n \in 0 .. 0 |-> << >>]
  <2>1. f = [n \in 0 .. 0 |-> IF n = 0 THEN << >> ELSE f[n - 1] \o ss[n]]
    OBVIOUS
  <2> HIDE DEF f
  <2>. QED  BY <2>1 DEF Joins
<1>2. ASSUME NEW m \in 1 .. N, m - 1 \in S PROVE m \in S
  <2>1. PICK f : Joins(f, ss, m - 1)
    BY <1>2, Zenon
  <2> DEFINE g == [n \in 0 .. m |-> IF n = m THEN f[m - 1] \o ss[m] ELSE f[n]]
  <2>2. ASSUME NEW n \in 0 .. m
        PROVE  g[n] = IF n = 0 THEN << >> ELSE g[n - 1] \o ss[n]
    <3>1. CASE n = m
      <4>1. n # 0 /\ n - 1 \in 0 .. m /\ n - 1 # m
        BY <3>1
      <4>2. g[n - 1] = f[n - 1] /\ g[n] = f[m - 1] \o ss[m]
        BY <3>1, <4>1, Zenon
      <4>. QED  BY <3>1, <4>1, <4>2, Zenon
    <3>2. CASE n # m
      <4>1. n \in 0 .. m - 1
        BY <3>2
      <4>2. f[n] = IF n = 0 THEN << >> ELSE f[n - 1] \o ss[n]
        BY <2>1, <4>1, Zenon DEF Joins
      <4>3. g[n] = f[n] /\ (n # 0 => g[n - 1] = f[n - 1])
        BY <3>2, <4>1
      <4>. QED  BY <4>2, <4>3, Zenon
    <3>. QED  BY <3>1, <3>2, Zenon
  <2>3. g = [n \in 0 .. m |-> IF n = 0 THEN << >> ELSE g[n - 1] \o ss[n]]
    BY <2>2, Zenon
  <2> HIDE DEF g
  <2>. QED  BY <2>3, SMTT(40) DEF Joins
<1>3. N \in S
  <2> HIDE DEF S
  <2>. QED  BY <1>1, <1>2, UpTo
<1>. QED  BY <1>3, Zenon

\* The elements of a vector of vectors.
LEMMA FlattenVec ==
  ASSUME NEW ss, IsVec(ss), \A i \in DOMAIN ss : IsVec(ss[i])
  PROVE  /\ IsVec(Joined(ss))
         /\ \A x : x \in Range(Joined(ss)) <=> \E i \in DOMAIN ss : x \in Range(ss[i])
<1> DEFINE N == Len(ss)
           flat == CHOOSE f : f = [n \in 0 .. N |-> IF n = 0 THEN << >> ELSE f[n - 1] \o ss[n]]
<1>1. N \in Nat /\ DOMAIN ss = 1 .. N
  BY Zenon DEF IsVec
<1>5. Joined(ss) = flat[N]
  BY Zenon DEF Joined
<1> HIDE DEF N
<1>6. \E f : Joins(f, ss, N)
  BY <1>1, Joining, Zenon
<1>9. flat = [n \in 0 .. N |-> IF n = 0 THEN << >> ELSE flat[n - 1] \o ss[n]]
  BY <1>6, Zenon DEF Joins
<1> HIDE DEF flat
<1> DEFINE T == {n \in 0 .. N :
                   /\ IsVec(flat[n])
                   /\ \A x : x \in Range(flat[n]) <=> \E i \in 1 .. n : x \in Range(ss[i])}
<1>10. 0 \in T
  <2>1. flat[0] = << >> /\ 0 \in 0 .. N /\ 1 .. 0 = {}
    BY <1>1, <1>9
  <2>2. IsVec(<< >>) /\ Range(<< >>) = {}
    BY DEF IsVec, Range
  <2>. QED  BY <2>1, <2>2, Zenon
<1>11. ASSUME NEW n \in 1 .. N, n - 1 \in T PROVE n \in T
  <2>1. IsVec(ss[n])
    BY <1>1, Zenon
  <2>2. flat[n] = flat[n - 1] \o ss[n] /\ n \in 0 .. N
    BY <1>1, <1>9
  <2>3. /\ IsVec(flat[n - 1])
        /\ \A x : x \in Range(flat[n - 1]) <=> \E i \in 1 .. n - 1 : x \in Range(ss[i])
    BY <1>11, Zenon
  <2>4. IsVec(flat[n]) /\ Range(flat[n]) = Range(flat[n - 1]) \cup Range(ss[n])
    BY <2>1, <2>2, <2>3, ConcatVec, Zenon
  <2>5. 1 .. n = 1 .. n - 1 \cup {n}
    BY <1>1
  <2>6. \A x : x \in Range(flat[n]) <=> \E i \in 1 .. n : x \in Range(ss[i])
    BY <2>3, <2>4, <2>5, Zenon
  <2>. QED  BY <2>2, <2>4, <2>6, Zenon
<1> HIDE DEF T
<1>12. N \in T
  BY <1>1, <1>10, <1>11, UpTo
<1>. QED  BY <1>1, <1>5, <1>12, Zenon DEF T
-----------------------------------------------------------------------------
(* Where a pair goes.                                                      *)

Vectors == {"kernels", "inputs", "outputs"}
Index == Nat \ {0}

OrderOf(part) ==
  CASE part = "kernels" -> KernelOrder
    [] part = "inputs" -> InputOrder
    [] part = "outputs" -> OutputOrder

\* The pairs of field f of map i.
FieldPairs(part, i, map, f) ==
  CASE part = "kernels" -> KernelField(i, map, f)
    [] part = "inputs" -> InputField(i, map, f)
    [] part = "outputs" -> OutputField(i, map, f)

\* decode_global sets field f of map i of the part.
Goes(pair, part, i, f) ==
  /\ Arm(pair.type, KeyLen(pair.key)) = part
  /\ pair.key[1] = i
  /\ part = "kernels" => KernelOrder[pair.key[2] + 1] = f
  /\ part = "inputs" => InputOrder[pair.type - FirstType + 1] = f
  /\ part = "outputs" => OutputOrder[pair.key[2] - FirstType + 1] = f

IsPegouts(part, f) == part = "kernels" /\ f = "pegouts"

\* What a pair says of a field: its value, or one of its pegouts.
Says(pair, part, map, f) ==
  IF IsPegouts(part, f)
  THEN \E n \in DOMAIN map.pegouts : /\ pair.key[3] = (n - 1) % PegoutKeys
                                     /\ pair.value = map.pegouts[n]
  ELSE pair.value = map[f]

\* The place of a field in the order of the fields.
LEMMA TypeOfField ==
  ASSUME NEW order, NEW f \in Range(order)
  PROVE  TypeOf(order, f) \in DOMAIN order /\ order[TypeOf(order, f)] = f
<1>1. \E n \in DOMAIN order : order[n] = f
  BY Zenon DEF Range
<1>. QED  BY <1>1, Zenon DEF TypeOf

\* The fields of a kernel go to that kernel (MwebKernel::to_kv_pairs, apply_field).
LEMMA KernelGoes ==
  ASSUME NEW i \in Index, NEW map, IsMap(map, FieldsOf("kernels")),
         NEW f \in Range(KernelOrder) \cap DOMAIN map
  PROVE  /\ IsVec(KernelField(i, map, f))
         /\ Range(KernelField(i, map, f)) # {}
         /\ \A pair \in Range(KernelField(i, map, f)) :
              Goes(pair, "kernels", i, f) /\ Says(pair, "kernels", map, f)
         /\ f = "pegouts" =>
              \A n \in DOMAIN map.pegouts : \E pair \in Range(KernelField(i, map, f)) :
                /\ pair.key[3] = (n - 1) % PegoutKeys
                /\ pair.value = map.pegouts[n]
<1>1. CASE f = "pegouts"
  <2> DEFINE v == map.pegouts
             P(n) == Pair(FirstType + 3, <<i, 4, (n - 1) % PegoutKeys>>, v[n])
             s == [n \in DOMAIN v |-> P(n)]
  <2>1. KernelField(i, map, f) = s
    BY <1>1, Zenon DEF KernelField
  <2>2. Len(v) \in Nat /\ DOMAIN v = 1 .. Len(v) /\ Len(v) > 0
    BY <1>1, Zenon DEF IsMap, IsVec
  <2>3. IsVec(s)
    <3>1. s = [n \in 1 .. Len(v) |-> s[n]]
      BY <2>2, Zenon
    <3> HIDE DEF s
    <3>. QED  BY <2>2, <3>1, VecLen, Zenon
  <2>4. ASSUME NEW n \in DOMAIN v
        PROVE  /\ Goes(P(n), "kernels", i, f) /\ P(n).key[3] = (n - 1) % PegoutKeys
               /\ P(n).value = v[n]
    <3>1. /\ P(n).type = FirstType + 3 /\ P(n).value = v[n]
          /\ P(n).key = <<i, 4, (n - 1) % PegoutKeys>>
      BY Zenon DEF Pair
    <3> HIDE DEF P
    <3>2. KeyLen(P(n).key) = 6
      BY <3>1 DEF KeyLen
    <3>3. Arm(P(n).type, KeyLen(P(n).key)) = "kernels"
      BY <3>1, <3>2 DEF Arm, FirstType
    <3>4. P(n).key[1] = i /\ P(n).key[2] = 4 /\ P(n).key[3] = (n - 1) % PegoutKeys
      BY <3>1
    <3>5. KernelOrder[4 + 1] = "pegouts"
      BY DEF KernelOrder
    <3>6. Goes(P(n), "kernels", i, f)
      BY <1>1, <3>3, <3>4, <3>5, Zenon DEF Goes
    <3>. QED  BY <3>1, <3>4, <3>6, Zenon
  <2>5. Range(s) = {P(n) : n \in DOMAIN v}
    BY Zenon DEF Range
  <2> HIDE DEF P, s
  <2>6. 1 \in DOMAIN v
    BY <2>2
  <2>7. Range(s) # {}
    BY <2>5, <2>6, Zenon
  <2>8. \A n \in DOMAIN map.pegouts : \E pair \in Range(s) :
          pair.key[3] = (n - 1) % PegoutKeys /\ pair.value = map.pegouts[n]
    BY <2>4, <2>5, Zenon
  <2>9. \A pair \in Range(s) : Goes(pair, "kernels", i, f) /\ Says(pair, "kernels", map, f)
    BY <1>1, <2>4, <2>5, ZenonT(40) DEF Says, IsPegouts
  <2>. QED  BY <2>1, <2>3, <2>7, <2>8, <2>9, Zenon
<1>2. CASE f # "pegouts"
  <2> DEFINE t == TypeOf(KernelOrder, f)
             pair == Pair(FirstType + 3, <<i, t - 1>>, map[f])
  <2>1. KernelField(i, map, f) = <<pair>>
    BY <1>2, Zenon DEF KernelField
  <2>2. t \in DOMAIN KernelOrder /\ KernelOrder[t] = f
    BY TypeOfField, Zenon
  <2>3. t \in Int
    BY <2>2 DEF KernelOrder
  <2>4. pair.type = FirstType + 3 /\ pair.key = <<i, t - 1>> /\ pair.value = map[f]
    BY Zenon DEF Pair
  <2> HIDE DEF t, pair
  <2>5. KeyLen(pair.key) = 5
    BY <2>4 DEF KeyLen
  <2>6. Arm(pair.type, KeyLen(pair.key)) = "kernels"
    BY <2>4, <2>5 DEF Arm, FirstType
  <2>7. pair.key[1] = i /\ pair.key[2] = t - 1
    BY <2>4
  <2>8. Goes(pair, "kernels", i, f)
    BY <2>2, <2>3, <2>6, <2>7 DEF Goes
  <2>9. IsVec(<<pair>>) /\ Range(<<pair>>) = {pair}
    BY DEF IsVec, Range
  <2>. QED  BY <1>2, <2>1, <2>4, <2>8, <2>9, Zenon DEF Says, IsPegouts
<1>. QED  BY <1>1, <1>2, Zenon

\* The fields of a parallel input go to that input: none is taken for a kernel's or
\* an output's (MwebInput::to_kv_pairs, decode_global).
LEMMA InputGoes ==
  ASSUME NEW i \in Index, NEW map, NEW f \in Range(InputOrder) \cap DOMAIN map
  PROVE  \E pair : /\ InputField(i, map, f) = <<pair>>
                   /\ Goes(pair, "inputs", i, f) /\ Says(pair, "inputs", map, f)
<1> DEFINE t == TypeOf(InputOrder, f)
           key == IF f \in OriginFields THEN <<i, map[f]>> ELSE <<i>>
           pair == Pair(FirstType + t - 1, key, map[f])
<1>1. InputField(i, map, f) = <<pair>>
  BY Zenon DEF InputField
<1>2. t \in DOMAIN InputOrder /\ InputOrder[t] = f
  BY TypeOfField, Zenon
<1>3. t \in 1 .. 13
  BY <1>2 DEF InputOrder
<1>4. f \in OriginFields => t # 4 /\ t # 5
  <2>1. InputOrder[4] = "input_pubkey" /\ InputOrder[5] = "features"
    BY Zenon DEF InputOrder
  <2>. QED  BY <1>2, <2>1, Zenon DEF OriginFields
<1>5. key[1] = i /\ KeyLen(key) \in {4, 5} /\ (KeyLen(key) = 5 => f \in OriginFields)
  BY DEF KeyLen
<1>6. pair.type = FirstType + t - 1 /\ pair.key = key /\ pair.value = map[f]
  BY Zenon DEF Pair
<1> HIDE DEF t, key, pair
<1>7. Arm(pair.type, KeyLen(pair.key)) = "inputs"
  BY <1>3, <1>4, <1>5, <1>6 DEF Arm, FirstType
<1>8. pair.type - FirstType + 1 = t
  BY <1>3, <1>6 DEF FirstType
<1>9. Goes(pair, "inputs", i, f)
  BY <1>2, <1>5, <1>6, <1>7, <1>8, Zenon DEF Goes
<1>. QED  BY <1>1, <1>6, <1>9, Zenon DEF Says, IsPegouts

\* The fields of a parallel output go to that output.
LEMMA OutputGoes ==
  ASSUME NEW i \in Index, NEW map, NEW f \in Range(OutputOrder) \cap DOMAIN map
  PROVE  \E pair : /\ OutputField(i, map, f) = <<pair>>
                   /\ Goes(pair, "outputs", i, f) /\ Says(pair, "outputs", map, f)
<1> DEFINE t == TypeOf(OutputOrder, f)
           pair == Pair(FirstType + 4, <<i, FirstType + t - 1>>, map[f])
<1>1. OutputField(i, map, f) = <<pair>>
  BY Zenon DEF OutputField
<1>2. t \in DOMAIN OutputOrder /\ OutputOrder[t] = f
  BY TypeOfField, Zenon
<1>3. t \in 1 .. 9
  BY <1>2 DEF OutputOrder
<1>4. pair.type = FirstType + 4 /\ pair.key = <<i, FirstType + t - 1>> /\ pair.value = map[f]
  BY Zenon DEF Pair
<1> HIDE DEF t, pair
<1>5. KeyLen(pair.key) = 5
  BY <1>4 DEF KeyLen
<1>6. Arm(pair.type, KeyLen(pair.key)) = "outputs"
  BY <1>4, <1>5 DEF Arm, FirstType
<1>7. pair.key[1] = i /\ pair.key[2] - FirstType + 1 = t
  BY <1>3, <1>4 DEF FirstType
<1>8. Goes(pair, "outputs", i, f)
  BY <1>2, <1>6, <1>7, Zenon DEF Goes
<1>. QED  BY <1>1, <1>4, <1>8, Zenon DEF Says, IsPegouts

\* The pairs of any field.
LEMMA FieldGoes ==
  ASSUME NEW part \in Vectors, NEW i \in Index, NEW map, IsMap(map, FieldsOf(part)),
         NEW f \in Range(OrderOf(part))
  PROVE  /\ IsVec(FieldPairs(part, i, map, f))
         /\ f \in DOMAIN map => Range(FieldPairs(part, i, map, f)) # {}
         /\ \A pair \in Range(FieldPairs(part, i, map, f)) :
              f \in DOMAIN map /\ Goes(pair, part, i, f) /\ Says(pair, part, map, f)
         /\ f \in DOMAIN map /\ IsPegouts(part, f) =>
              \A n \in DOMAIN map.pegouts : \E pair \in Range(FieldPairs(part, i, map, f)) :
                /\ pair.key[3] = (n - 1) % PegoutKeys
                /\ pair.value = map.pegouts[n]
<1>0. IsVec(<< >>) /\ Range(<< >>) = {} /\ \A pair : IsVec(<<pair>>) /\ Range(<<pair>>) = {pair}
  BY DEF IsVec, Range
<1>1. CASE f \notin DOMAIN map
  <2>1. FieldPairs(part, i, map, f) = << >>
    BY <1>1, Zenon DEF FieldPairs, Vectors, KernelField, InputField, OutputField
  <2>. QED  BY <1>0, <1>1, <2>1, Zenon
<1>2. CASE f \in DOMAIN map /\ part = "kernels"
  <2>1. FieldPairs(part, i, map, f) = KernelField(i, map, f) /\ f \in Range(KernelOrder)
    BY <1>2, Zenon DEF FieldPairs, OrderOf
  <2>2. IsMap(map, FieldsOf("kernels"))
    BY <1>2, Zenon
  <2>. QED  BY <1>2, <2>1, <2>2, KernelGoes DEF IsPegouts
<1>3. CASE f \in DOMAIN map /\ part = "inputs"
  <2>1. FieldPairs(part, i, map, f) = InputField(i, map, f) /\ f \in Range(InputOrder)
    BY <1>3, Zenon DEF FieldPairs, OrderOf
  <2>2. PICK pair : /\ InputField(i, map, f) = <<pair>>
                    /\ Goes(pair, "inputs", i, f) /\ Says(pair, "inputs", map, f)
    BY <1>3, <2>1, InputGoes, Zenon
  <2>. QED  BY <1>0, <1>3, <2>1, <2>2 DEF IsPegouts
<1>4. CASE f \in DOMAIN map /\ part = "outputs"
  <2>1. FieldPairs(part, i, map, f) = OutputField(i, map, f) /\ f \in Range(OutputOrder)
    BY <1>4, Zenon DEF FieldPairs, OrderOf
  <2>2. PICK pair : /\ OutputField(i, map, f) = <<pair>>
                    /\ Goes(pair, "outputs", i, f) /\ Says(pair, "outputs", map, f)
    BY <1>4, <2>1, OutputGoes, Zenon
  <2>. QED  BY <1>0, <1>4, <2>1, <2>2 DEF IsPegouts
<1>. QED  BY <1>1, <1>2, <1>3, <1>4, Zenon DEF Vectors

\* The pairs of a vector of maps.
VectorPairs(part, maps) ==
  CASE part = "kernels" -> KernelPairs(maps)
    [] part = "inputs" -> InputPairs(maps)
    [] part = "outputs" -> OutputPairs(maps)

AreMaps(part, maps) ==
  IsVec(maps) /\ \A i \in DOMAIN maps : IsMap(maps[i], FieldsOf(part))

\* Each pair of a vector is one of a field of one of its maps.
LEMMA VectorRange ==
  ASSUME NEW part \in Vectors, NEW maps, AreMaps(part, maps)
  PROVE  /\ IsVec(VectorPairs(part, maps))
         /\ \A x : x \in Range(VectorPairs(part, maps)) <=>
              \E i \in DOMAIN maps : \E f \in Range(OrderOf(part)) :
                x \in Range(FieldPairs(part, i, maps[i], f))
<1> DEFINE order == OrderOf(part)
           Row(i) == [n \in DOMAIN order |-> FieldPairs(part, i, maps[i], order[n])]
           rows == [i \in DOMAIN maps |-> Joined(Row(i))]
<1>1. VectorPairs(part, maps) = Joined(rows)
  <2>1. CASE part = "kernels"
    BY <2>1, Zenon DEF VectorPairs, KernelPairs, OrderOf, FieldPairs
  <2>2. CASE part = "inputs"
    BY <2>2, Zenon DEF VectorPairs, InputPairs, OrderOf, FieldPairs
  <2>3. CASE part = "outputs"
    BY <2>3, Zenon DEF VectorPairs, OutputPairs, OrderOf, FieldPairs
  <2>. QED  BY <2>1, <2>2, <2>3, Zenon DEF Vectors
<1>2. Len(maps) \in Nat /\ DOMAIN maps = 1 .. Len(maps) /\ DOMAIN maps \subseteq Index
  BY DEF AreMaps, IsVec, Index
<1>3. IsVec(order)
  <2>1. IsVec(KernelOrder)
    <3>1. DOMAIN KernelOrder = 1 .. 9 /\ KernelOrder = [n \in DOMAIN KernelOrder |-> KernelOrder[n]]
      BY DEF KernelOrder
    <3>. QED  BY <3>1, VecLen, Zenon
  <2>2. IsVec(InputOrder)
    <3>1. DOMAIN InputOrder = 1 .. 13 /\ InputOrder = [n \in DOMAIN InputOrder |-> InputOrder[n]]
      BY DEF InputOrder
    <3>. QED  BY <3>1, VecLen, Zenon
  <2>3. IsVec(OutputOrder)
    <3>1. DOMAIN OutputOrder = 1 .. 9 /\ OutputOrder = [n \in DOMAIN OutputOrder |-> OutputOrder[n]]
      BY DEF OutputOrder
    <3>. QED  BY <3>1, VecLen, Zenon
  <2>4. order \in {KernelOrder, InputOrder, OutputOrder}
    BY Zenon DEF Vectors, OrderOf
  <2>. QED  BY <2>1, <2>2, <2>3, <2>4, Zenon
<1>4. ASSUME NEW i \in DOMAIN maps
      PROVE  /\ IsVec(Joined(Row(i)))
             /\ \A x : x \in Range(Joined(Row(i))) <=>
                  \E f \in Range(order) : x \in Range(FieldPairs(part, i, maps[i], f))
  <2>1. Len(order) \in Nat /\ DOMAIN order = 1 .. Len(order)
    BY <1>3, Zenon DEF IsVec
  <2>2. IsVec(Row(i))
    <3>1. Row(i) = [n \in 1 .. Len(order) |-> Row(i)[n]]
      BY <2>1, Zenon
    <3> HIDE DEF Row
    <3>. QED  BY <2>1, <3>1, VecLen, Zenon
  <2>3. \A n \in DOMAIN order : order[n] \in Range(order)
    BY Zenon DEF Range
  <2>4. IsMap(maps[i], FieldsOf(part)) /\ i \in Index
    BY <1>2, Zenon DEF AreMaps
  <2>5. \A n \in DOMAIN order : IsVec(FieldPairs(part, i, maps[i], order[n]))
    BY <2>3, <2>4, FieldGoes, Zenon
  <2>6. DOMAIN Row(i) = DOMAIN order /\ \A n \in DOMAIN order : Row(i)[n] = FieldPairs(part, i, maps[i], order[n])
    BY Zenon
  <2>7. \A f : f \in Range(order) <=> \E n \in DOMAIN order : f = order[n]
    BY Zenon DEF Range
  <2> HIDE DEF Row, order
  <2>8. /\ IsVec(Joined(Row(i)))
        /\ \A x : x \in Range(Joined(Row(i))) <=> \E n \in DOMAIN Row(i) : x \in Range(Row(i)[n])
    BY <2>2, <2>5, <2>6, FlattenVec, Zenon
  <2>9. \A x : x \in Range(Joined(Row(i))) <=>
          \E n \in DOMAIN order : x \in Range(FieldPairs(part, i, maps[i], order[n]))
    BY <2>6, <2>8, Zenon
  <2>. QED  BY <2>7, <2>8, <2>9, Zenon
<1>5. DOMAIN rows = DOMAIN maps /\ \A i \in DOMAIN maps : rows[i] = Joined(Row(i))
  BY Zenon
<1>6. IsVec(rows)
  <2>1. rows = [i \in 1 .. Len(maps) |-> rows[i]]
    BY <1>2, Zenon
  <2> HIDE DEF rows
  <2>. QED  BY <1>2, <2>1, VecLen, Zenon
<1> HIDE DEF rows, Row
<1>7. /\ IsVec(Joined(rows))
      /\ \A x : x \in Range(Joined(rows)) <=> \E i \in DOMAIN rows : x \in Range(rows[i])
  BY <1>4, <1>5, <1>6, FlattenVec
<1>. QED  BY <1>1, <1>4, <1>5, <1>7, Zenon

\* A pair that is no field of a map: one of the offsets, or the count of the kernels.
SaysGlobal(pair, c) ==
  /\ Arm(pair.type, KeyLen(pair.key)) = "global"
  /\ pair.type \in {FirstType, FirstType + 1, FirstType + 2}
  /\ pair.type = FirstType => "tx_offset" \in DOMAIN c.offsets /\ pair.value = c.offsets["tx_offset"]
  /\ pair.type = FirstType + 1 =>
       "stealth_offset" \in DOMAIN c.offsets /\ pair.value = c.offsets["stealth_offset"]

OffsetType(f) == IF f = "tx_offset" THEN FirstType ELSE FirstType + 1

\* Everything that is sent as a pair.
SaysField(pair, c) ==
  \E part \in Vectors : \E i \in DOMAIN c[part] : \E f \in DOMAIN c[part][i] :
    f \in Range(OrderOf(part)) /\ Goes(pair, part, i, f) /\ Says(pair, part, c[part][i], f)

\* A copy has the vectors and maps of struct Psbt.
Shape(c) ==
  /\ c = [offsets |-> c.offsets, kernels |-> c.kernels, inputs |-> c.inputs,
          outputs |-> c.outputs, in_slots |-> c.in_slots, out_slots |-> c.out_slots]
  /\ IsMap(c.offsets, FieldsOf("offsets"))
  /\ \A part \in Parts : AreMaps(part, c[part])
  /\ Len(c.in_slots) = InSlots /\ Len(c.out_slots) = OutSlots

\* The pairs of a copy say what it has, and nothing else.
Sent(pairs, c) ==
  /\ IsVec(pairs)
  /\ \A pair \in Range(pairs) : SaysGlobal(pair, c) \/ SaysField(pair, c)
  /\ \A f \in DOMAIN c.offsets : \E pair \in Range(pairs) :
       Arm(pair.type, KeyLen(pair.key)) = "global" /\ pair.type = OffsetType(f)
  /\ \A part \in Vectors : \A i \in DOMAIN c[part] :
       \A f \in DOMAIN c[part][i] \cap Range(OrderOf(part)) :
         /\ \E pair \in Range(pairs) : Goes(pair, part, i, f)
         /\ IsPegouts(part, f) =>
              \A n \in DOMAIN c[part][i].pegouts : \E pair \in Range(pairs) :
                Goes(pair, part, i, f) /\ pair.key[3] = (n - 1) % PegoutKeys

\* get_pairs sends all offsets and all fields of the three vectors.
LEMMA GetPairsSent ==
  ASSUME NEW c, Shape(c)
  PROVE  Sent(GetPairs(c), c)
<1> DEFINE G(f, type) == Offset(c, f, type)
           A == G("tx_offset", FirstType)
           B == G("stealth_offset", FirstType + 1)
           C == IF c.kernels = << >> THEN << >>
                ELSE <<Pair(FirstType + 2, << >>, Len(c.kernels))>>
           V(part) == VectorPairs(part, c[part])
           pairs == GetPairs(c)
<1>1. pairs = A \o B \o C \o V("kernels") \o V("inputs") \o V("outputs")
  BY Zenon DEF GetPairs, VectorPairs
<1>0. IsVec(<< >>) /\ Range(<< >>) = {} /\ \A pair : IsVec(<<pair>>) /\ Range(<<pair>>) = {pair}
  BY DEF IsVec, Range
<1>2. ASSUME NEW type \in {FirstType, FirstType + 1, FirstType + 2}, NEW v
      PROVE  /\ Pair(type, << >>, v).type = type /\ Pair(type, << >>, v).value = v
             /\ Arm(Pair(type, << >>, v).type, KeyLen(Pair(type, << >>, v).key)) = "global"
  BY DEF Pair, KeyLen, Arm, FirstType
<1>3. /\ IsVec(A) /\ \A pair \in Range(A) : SaysGlobal(pair, c)
      /\ "tx_offset" \in DOMAIN c.offsets => \E pair \in Range(A) :
           Arm(pair.type, KeyLen(pair.key)) = "global" /\ pair.type = FirstType
  <2>1. CASE "tx_offset" \in DOMAIN c.offsets
    <3> DEFINE pair == Pair(FirstType, << >>, c.offsets["tx_offset"])
    <3>1. A = <<pair>>
      BY <2>1, Zenon DEF Offset
    <3>2. /\ pair.type = FirstType /\ pair.value = c.offsets["tx_offset"]
          /\ Arm(pair.type, KeyLen(pair.key)) = "global"
      BY <1>2, Zenon
    <3> HIDE DEF A, pair
    <3>3. SaysGlobal(pair, c)
      BY <2>1, <3>2 DEF SaysGlobal, FirstType
    <3>. QED  BY <1>0, <3>1, <3>2, <3>3, Zenon
  <2>2. CASE "tx_offset" \notin DOMAIN c.offsets
    <3>1. A = << >>
      BY <2>2, Zenon DEF Offset
    <3>. QED  BY <1>0, <2>2, <3>1, Zenon
  <2>. QED  BY <2>1, <2>2, Zenon
<1>4. /\ IsVec(B) /\ \A pair \in Range(B) : SaysGlobal(pair, c)
      /\ "stealth_offset" \in DOMAIN c.offsets => \E pair \in Range(B) :
           Arm(pair.type, KeyLen(pair.key)) = "global" /\ pair.type = FirstType + 1
  <2>1. CASE "stealth_offset" \in DOMAIN c.offsets
    <3> DEFINE pair == Pair(FirstType + 1, << >>, c.offsets["stealth_offset"])
    <3>1. B = <<pair>>
      BY <2>1, Zenon DEF Offset
    <3>2. /\ pair.type = FirstType + 1 /\ pair.value = c.offsets["stealth_offset"]
          /\ Arm(pair.type, KeyLen(pair.key)) = "global"
      BY <1>2, Zenon
    <3> HIDE DEF B, pair
    <3>3. SaysGlobal(pair, c)
      BY <2>1, <3>2 DEF SaysGlobal, FirstType
    <3>. QED  BY <1>0, <3>1, <3>2, <3>3, Zenon
  <2>2. CASE "stealth_offset" \notin DOMAIN c.offsets
    <3>1. B = << >>
      BY <2>2, Zenon DEF Offset
    <3>. QED  BY <1>0, <2>2, <3>1, Zenon
  <2>. QED  BY <2>1, <2>2, Zenon
<1>5. IsVec(C) /\ \A pair \in Range(C) : SaysGlobal(pair, c)
  <2>1. CASE c.kernels = << >>
    BY <1>0, <2>1, Zenon
  <2>2. CASE c.kernels # << >>
    <3> DEFINE pair == Pair(FirstType + 2, << >>, Len(c.kernels))
    <3>1. C = <<pair>>
      BY <2>2, Zenon
    <3>2. pair.type = FirstType + 2 /\ Arm(pair.type, KeyLen(pair.key)) = "global"
      BY <1>2, Zenon
    <3> HIDE DEF C, pair
    <3>3. SaysGlobal(pair, c)
      BY <3>2 DEF SaysGlobal, FirstType
    <3>. QED  BY <1>0, <3>1, <3>3, Zenon
  <2>. QED  BY <2>1, <2>2, Zenon
<1>6. ASSUME NEW part \in Vectors
      PROVE  /\ IsVec(V(part)) /\ AreMaps(part, c[part])
             /\ \A x : x \in Range(V(part)) <=>
                  \E i \in DOMAIN c[part] : \E f \in Range(OrderOf(part)) :
                    x \in Range(FieldPairs(part, i, c[part][i], f))
  <2>1. AreMaps(part, c[part])
    BY Zenon DEF Shape, Vectors, Parts
  <2>. QED  BY <2>1, VectorRange, Zenon
<1> HIDE DEF A, B, C, V, pairs
<1>7. /\ IsVec(pairs)
      /\ \A x : x \in Range(pairs) <=> \/ x \in Range(A) \/ x \in Range(B) \/ x \in Range(C)
                                       \/ \E part \in Vectors : x \in Range(V(part))
  <2>1. IsVec(A \o B) /\ Range(A \o B) = Range(A) \cup Range(B)
    BY <1>3, <1>4, ConcatVec, Zenon
  <2>2. IsVec(A \o B \o C) /\ Range(A \o B \o C) = Range(A \o B) \cup Range(C)
    BY <1>5, <2>1, ConcatVec, Zenon
  <2> DEFINE D == A \o B \o C \o V("kernels")
             E == D \o V("inputs")
  <2>3. IsVec(D) /\ Range(D) = Range(A \o B \o C) \cup Range(V("kernels"))
    BY <1>6, <2>2, ConcatVec, Zenon DEF Vectors
  <2>4. pairs = E \o V("outputs")
    BY <1>1, Zenon
  <2> HIDE DEF D
  <2>5. IsVec(E) /\ Range(E) = Range(D) \cup Range(V("inputs"))
    BY <1>6, <2>3, ConcatVec, Zenon DEF Vectors
  <2> HIDE DEF E
  <2>6. IsVec(pairs) /\ Range(pairs) = Range(E) \cup Range(V("outputs"))
    BY <1>6, <2>4, <2>5, ConcatVec, Zenon DEF Vectors
  <2>. QED  BY <2>1, <2>2, <2>3, <2>5, <2>6, Zenon DEF Vectors
<1>8. ASSUME NEW part \in Vectors, NEW i \in DOMAIN c[part], NEW f \in Range(OrderOf(part))
      PROVE  /\ f \in DOMAIN c[part][i] => Range(FieldPairs(part, i, c[part][i], f)) # {}
             /\ \A pair \in Range(FieldPairs(part, i, c[part][i], f)) :
                  /\ pair \in Range(pairs)
                  /\ f \in DOMAIN c[part][i]
                  /\ Goes(pair, part, i, f) /\ Says(pair, part, c[part][i], f)
             /\ f \in DOMAIN c[part][i] /\ IsPegouts(part, f) =>
                  \A n \in DOMAIN c[part][i].pegouts :
                    \E pair \in Range(FieldPairs(part, i, c[part][i], f)) :
                      pair.key[3] = (n - 1) % PegoutKeys
  <2>0. AreMaps(part, c[part])
    BY <1>6, Zenon
  <2>1. i \in Index /\ IsMap(c[part][i], FieldsOf(part))
    BY <2>0 DEF AreMaps, IsVec, Index
  <2>2. \A pair \in Range(FieldPairs(part, i, c[part][i], f)) : pair \in Range(pairs)
    BY <1>6, <1>7, Zenon
  <2>. QED  BY <2>1, <2>2, FieldGoes
<1>9. \A pair \in Range(pairs) : SaysGlobal(pair, c) \/ SaysField(pair, c)
  <2> SUFFICES ASSUME NEW pair \in Range(pairs), ~SaysGlobal(pair, c) PROVE SaysField(pair, c)
    BY Zenon
  <2>1. PICK part \in Vectors : pair \in Range(V(part))
    BY <1>3, <1>4, <1>5, <1>7, Zenon
  <2>2. PICK i \in DOMAIN c[part], f \in Range(OrderOf(part)) :
          pair \in Range(FieldPairs(part, i, c[part][i], f))
    BY <1>6, <2>1, Zenon
  <2>3. f \in DOMAIN c[part][i] /\ Goes(pair, part, i, f) /\ Says(pair, part, c[part][i], f)
    BY <1>8, <2>2, Zenon
  <2>. QED  BY <2>3, Zenon DEF SaysField
<1>10. \A f \in DOMAIN c.offsets : \E pair \in Range(pairs) :
         Arm(pair.type, KeyLen(pair.key)) = "global" /\ pair.type = OffsetType(f)
  <2> SUFFICES ASSUME NEW f \in DOMAIN c.offsets
               PROVE  \E pair \in Range(pairs) :
                        Arm(pair.type, KeyLen(pair.key)) = "global" /\ pair.type = OffsetType(f)
    BY Zenon
  <2>1. f \in {"tx_offset", "stealth_offset"}
    BY Zenon DEF Shape, IsMap, FieldsOf
  <2>2. CASE f = "tx_offset"
    BY <1>3, <1>7, <2>2, Zenon DEF OffsetType
  <2>3. CASE f = "stealth_offset"
    BY <1>4, <1>7, <2>3, Zenon DEF OffsetType
  <2>. QED  BY <2>1, <2>2, <2>3, Zenon
<1>11. ASSUME NEW part \in Vectors, NEW i \in DOMAIN c[part],
              NEW f \in DOMAIN c[part][i] \cap Range(OrderOf(part))
       PROVE  /\ \E pair \in Range(pairs) : Goes(pair, part, i, f)
              /\ IsPegouts(part, f) =>
                   \A n \in DOMAIN c[part][i].pegouts : \E pair \in Range(pairs) :
                     Goes(pair, part, i, f) /\ pair.key[3] = (n - 1) % PegoutKeys
  <2>1. PICK pair : pair \in Range(FieldPairs(part, i, c[part][i], f))
    BY <1>8
  <2>2. pair \in Range(pairs) /\ Goes(pair, part, i, f)
    BY <1>8, <2>1, Zenon
  <2>3. ASSUME IsPegouts(part, f), NEW n \in DOMAIN c[part][i].pegouts
        PROVE  \E pr \in Range(pairs) : Goes(pr, part, i, f) /\ pr.key[3] = (n - 1) % PegoutKeys
    <3>1. PICK pr \in Range(FieldPairs(part, i, c[part][i], f)) : pr.key[3] = (n - 1) % PegoutKeys
      BY <1>8, <2>3, Zenon
    <3>2. pr \in Range(pairs) /\ Goes(pr, part, i, f)
      BY <1>8, <3>1, Zenon
    <3>. QED  BY <3>1, <3>2, Zenon
  <2>. QED  BY <2>2, <2>3, Zenon
<1>. QED  BY <1>7, <1>9, <1>10, <1>11, Zenon DEF Sent, pairs
-----------------------------------------------------------------------------
(* Reading pairs.                                                          *)

\* decode_global applies one pair after the other.
Reads(read, pairs, m) ==
  read = [n \in 0 .. m |-> IF n = 0 THEN EmptyCopy ELSE ApplyPair(read[n - 1], pairs[n])]

\* The recursive function that reads the pairs exists, so DecodeGlobal is its last value.
LEMMA Reading ==
  ASSUME NEW pairs, Len(pairs) \in Nat
  PROVE  \E read : Reads(read, pairs, Len(pairs)) /\ DecodeGlobal(pairs) = read[Len(pairs)]
<1> DEFINE N == Len(pairs)
           S == {m \in 0 .. N : \E read : Reads(read, pairs, m)}
           chosen == CHOOSE read : read = [n \in 0 .. N |->
                       IF n = 0 THEN EmptyCopy ELSE ApplyPair(read[n - 1], pairs[n])]
<1>1. 0 \in S
  <2> DEFINE f == [n \in 0 .. 0 |-> EmptyCopy]
  <2>1. f = [n \in 0 .. 0 |-> IF n = 0 THEN EmptyCopy ELSE ApplyPair(f[n - 1], pairs[n])]
    OBVIOUS
  <2> HIDE DEF f
  <2>. QED  BY <2>1 DEF Reads
<1>2. ASSUME NEW m \in 1 .. N, m - 1 \in S PROVE m \in S
  <2>1. PICK f : Reads(f, pairs, m - 1)
    BY <1>2, Zenon
  <2> DEFINE g == [n \in 0 .. m |-> IF n = m THEN ApplyPair(f[m - 1], pairs[m]) ELSE f[n]]
  <2>2. ASSUME NEW n \in 0 .. m
        PROVE  g[n] = IF n = 0 THEN EmptyCopy ELSE ApplyPair(g[n - 1], pairs[n])
    <3>1. CASE n = m
      <4>1. n # 0 /\ n - 1 \in 0 .. m /\ n - 1 # m
        BY <3>1
      <4>2. g[n - 1] = f[n - 1] /\ g[n] = ApplyPair(f[m - 1], pairs[m])
        BY <3>1, <4>1, Zenon
      <4>. QED  BY <3>1, <4>1, <4>2, Zenon
    <3>2. CASE n # m
      <4>1. n \in 0 .. m - 1
        BY <3>2
      <4>2. f[n] = IF n = 0 THEN EmptyCopy ELSE ApplyPair(f[n - 1], pairs[n])
        BY <2>1, <4>1, Zenon DEF Reads
      <4>3. g[n] = f[n] /\ (n # 0 => g[n - 1] = f[n - 1])
        BY <3>2, <4>1
      <4>. QED  BY <4>2, <4>3, Zenon
    <3>. QED  BY <3>1, <3>2, Zenon
  <2>3. g = [n \in 0 .. m |-> IF n = 0 THEN EmptyCopy ELSE ApplyPair(g[n - 1], pairs[n])]
    BY <2>2, Zenon
  <2> HIDE DEF g
  <2>. QED  BY <2>3 DEF Reads
<1>0. N \in Nat
  BY Zenon
<1>4. \E f : Reads(f, pairs, N)
  <2> HIDE DEF S, N
  <2>1. N \in S
    BY <1>0, <1>1, <1>2, UpTo, SMTT(40)
  <2>. QED  BY <2>1, Zenon DEF S
<1>5. Reads(chosen, pairs, N)
  BY <1>4, Zenon DEF Reads
<1>6. DecodeGlobal(pairs) = chosen[N]
  BY Zenon DEF DecodeGlobal
<1> HIDE DEF chosen
<1>. QED  BY <1>5, <1>6, Zenon

\* What decode_global fills.
IsRead(x) ==
  /\ x = [offsets |-> x.offsets, kernels |-> x.kernels, inputs |-> x.inputs, outputs |-> x.outputs]
  /\ \A part \in Vectors : IsVec(x[part])

\* From x to y, field f of map i of the part is set to v.
Puts(x, y, part, i, f, v) ==
  /\ IsRead(y)
  /\ y.offsets = x.offsets
  /\ \A other \in Vectors \ {part} : y[other] = x[other]
  /\ Len(y[part]) = IF i > Len(x[part]) THEN i ELSE Len(x[part])
  /\ MapAt(y[part], i) = SetField(MapAt(x[part], i), f, v)
  /\ \A j \in Index \ {i} : MapAt(y[part], j) = MapAt(x[part], j)

\* A field is set in its map and in no other; new maps are empty (ensure_index).
LEMMA SetInMaps ==
  ASSUME NEW maps, IsVec(maps), NEW i \in Index, NEW f, NEW v
  PROVE  /\ IsVec(SetIn(maps, i, f, v))
         /\ Len(SetIn(maps, i, f, v)) = IF i > Len(maps) THEN i ELSE Len(maps)
         /\ MapAt(SetIn(maps, i, f, v), i) = SetField(MapAt(maps, i), f, v)
         /\ \A j \in Index \ {i} : MapAt(SetIn(maps, i, f, v), j) = MapAt(maps, j)
<1> DEFINE new == SetIn(maps, i, f, v)
           top == IF i > Len(maps) THEN i ELSE Len(maps)
<1>1. Len(maps) \in Nat /\ DOMAIN maps = 1 .. Len(maps) /\ i \in Nat /\ i > 0
  BY DEF IsVec, Index
<1>2. top \in Nat /\ i \in 1 .. top /\ Len(maps) <= top
  BY <1>1
<1>3. new = [j \in 1 .. top |-> IF j = i THEN SetField(MapAt(maps, i), f, v) ELSE MapAt(maps, j)]
  BY Zenon DEF SetIn
<1> HIDE DEF new, top
<1>4. new = [j \in 1 .. top |-> new[j]]
  BY <1>3, Zenon
<1>5. IsVec(new) /\ Len(new) = top /\ DOMAIN new = 1 .. top
  BY <1>2, <1>4, VecLen, Zenon
<1>6. MapAt(new, i) = SetField(MapAt(maps, i), f, v)
  BY <1>2, <1>3, <1>5, Zenon DEF MapAt
<1>7. ASSUME NEW j \in Index \ {i} PROVE MapAt(new, j) = MapAt(maps, j)
  <2>1. CASE j \in 1 .. top
    BY <1>3, <1>5, <2>1, Zenon DEF MapAt
  <2>2. CASE j \notin 1 .. top
    <3>1. j \notin DOMAIN maps
      BY <1>1, <1>2, <2>2
    <3>. QED  BY <1>5, <2>2, <3>1, Zenon DEF MapAt
  <2>. QED  BY <2>1, <2>2, Zenon
<1>. QED  BY <1>5, <1>6, <1>7, Zenon DEF new, top

\* The value that a pair gives to its field.
NewValue(x, pair, part, i, f) ==
  IF IsPegouts(part, f) THEN SetPegout(MapAt(x.kernels, i), pair.key[3] + 1, pair.value)
  ELSE pair.value

\* apply_field of each kind of map.
LEMMA FieldApplied ==
  ASSUME NEW x, IsRead(x), NEW part \in Vectors, NEW i \in Index, NEW f, NEW pair,
         Goes(pair, part, i, f)
  PROVE  Puts(x, ApplyPair(x, pair), part, i, f, NewValue(x, pair, part, i, f))
<1> DEFINE v == NewValue(x, pair, part, i, f)
           y == ApplyPair(x, pair)
<1>1. Arm(pair.type, KeyLen(pair.key)) = part /\ pair.key[1] = i
  BY Zenon DEF Goes
<1>2. y = [x EXCEPT ![part] = SetIn(x[part], i, f, v)]
  <2>1. CASE part = "kernels"
    <3>1. y = ApplyKernelField(x, pair)
      BY <1>1, <2>1, Zenon DEF ApplyPair
    <3>2. KernelOrder[pair.key[2] + 1] = f
      BY <2>1, Zenon DEF Goes
    <3>. QED  BY <1>1, <2>1, <3>1, <3>2, Zenon DEF ApplyKernelField, NewValue, IsPegouts
  <2>2. CASE part = "inputs"
    <3>1. y = ApplyInputField(x, pair)
      BY <1>1, <2>2, Zenon DEF ApplyPair
    <3>2. InputOrder[pair.type - FirstType + 1] = f
      BY <2>2, Zenon DEF Goes
    <3>. QED  BY <1>1, <2>2, <3>1, <3>2, Zenon DEF ApplyInputField, NewValue, IsPegouts
  <2>3. CASE part = "outputs"
    <3>1. y = ApplyOutputField(x, pair)
      BY <1>1, <2>3, Zenon DEF ApplyPair
    <3>2. OutputOrder[pair.key[2] - FirstType + 1] = f
      BY <2>3, Zenon DEF Goes
    <3>. QED  BY <1>1, <2>3, <3>1, <3>2, Zenon DEF ApplyOutputField, NewValue, IsPegouts
  <2>. QED  BY <2>1, <2>2, <2>3, Zenon DEF Vectors
<1>3. IsVec(x[part])
  BY Zenon DEF IsRead
<1> DEFINE maps == SetIn(x[part], i, f, v)
<1>4. /\ IsVec(maps) /\ Len(maps) = IF i > Len(x[part]) THEN i ELSE Len(x[part])
      /\ MapAt(maps, i) = SetField(MapAt(x[part], i), f, v)
      /\ \A j \in Index \ {i} : MapAt(maps, j) = MapAt(x[part], j)
  BY <1>3, SetInMaps
<1> HIDE DEF maps, v, y
<1>5. x = [offsets |-> x.offsets, kernels |-> x.kernels, inputs |-> x.inputs, outputs |-> x.outputs]
  BY Zenon DEF IsRead
<1>6. /\ y.offsets = x.offsets /\ y[part] = maps
      /\ \A other \in Vectors \ {part} : y[other] = x[other]
      /\ y = [offsets |-> y.offsets, kernels |-> y.kernels, inputs |-> y.inputs, outputs |-> y.outputs]
  BY <1>2, <1>5, Zenon DEF Vectors, maps
<1>7. \A other \in Vectors : IsVec(y[other])
  BY <1>4, <1>6, Zenon DEF IsRead
<1>. QED  BY <1>4, <1>6, <1>7, Zenon DEF Puts, IsRead, v, y

\* The offsets are read; the count of the kernels changes nothing.
LEMMA GlobalApplied ==
  ASSUME NEW x, IsRead(x), NEW pair, NEW c, SaysGlobal(pair, c)
  PROVE  /\ IsRead(ApplyPair(x, pair))
         /\ \A part \in Vectors : ApplyPair(x, pair)[part] = x[part]
         /\ ApplyPair(x, pair).offsets =
              IF pair.type = FirstType THEN SetField(x.offsets, "tx_offset", pair.value)
              ELSE IF pair.type = FirstType + 1 THEN SetField(x.offsets, "stealth_offset", pair.value)
              ELSE x.offsets
<1> DEFINE y == ApplyPair(x, pair)
           offsets == IF pair.type = FirstType THEN SetField(x.offsets, "tx_offset", pair.value)
                      ELSE IF pair.type = FirstType + 1 THEN SetField(x.offsets, "stealth_offset", pair.value)
                      ELSE x.offsets
<1>1. Arm(pair.type, KeyLen(pair.key)) = "global"
  BY Zenon DEF SaysGlobal
<1>2. x = [offsets |-> x.offsets, kernels |-> x.kernels, inputs |-> x.inputs, outputs |-> x.outputs]
  BY Zenon DEF IsRead
<1>3. y = [offsets |-> offsets, kernels |-> x.kernels, inputs |-> x.inputs, outputs |-> x.outputs]
  <2>1. CASE pair.type = FirstType
    <3>1. y = [x EXCEPT !.offsets = SetField(x.offsets, "tx_offset", pair.value)]
      BY <1>1, <2>1 DEF ApplyPair, FirstType
    <3> HIDE DEF y
    <3>. QED  BY <1>2, <2>1, <3>1, Zenon
  <2>2. CASE pair.type = FirstType + 1
    <3>1. y = [x EXCEPT !.offsets = SetField(x.offsets, "stealth_offset", pair.value)]
      BY <1>1, <2>2 DEF ApplyPair, FirstType
    <3>2. pair.type # FirstType
      BY <2>2 DEF FirstType
    <3> HIDE DEF y
    <3>. QED  BY <1>2, <2>2, <3>1, <3>2, Zenon
  <2>3. CASE pair.type # FirstType /\ pair.type # FirstType + 1
    <3>1. y = x
      BY <1>1, <2>3, Zenon DEF ApplyPair
    <3>. QED  BY <1>2, <2>3, <3>1, Zenon
  <2>. QED  BY <2>1, <2>2, <2>3, Zenon
<1> HIDE DEF y, offsets
<1>4. /\ y.offsets = offsets /\ \A part \in Vectors : y[part] = x[part]
      /\ y = [offsets |-> y.offsets, kernels |-> y.kernels, inputs |-> y.inputs, outputs |-> y.outputs]
  BY <1>3 DEF Vectors
<1>5. \A part \in Vectors : IsVec(y[part])
  BY <1>4, Zenon DEF IsRead
<1>. QED  BY <1>4, <1>5, Zenon DEF IsRead, y, offsets
-----------------------------------------------------------------------------
(* What has been read after n pairs.                                       *)

\* The pegouts that have arrived are at their places, if the key byte can number
\* them all.
PegoutsRead(got, given, i, pairs, n) ==
  /\ IsVec(got) /\ Len(got) > 0
  /\ Len(given) <= PegoutKeys =>
       /\ Len(got) <= Len(given)
       /\ \A m \in 1 .. n : Goes(pairs[m], "kernels", i, "pegouts") =>
            /\ pairs[m].key[3] + 1 \in 1 .. Len(got)
            /\ got[pairs[m].key[3] + 1] = given[pairs[m].key[3] + 1]

MapRead(map, part, i, c, pairs, n) ==
  /\ map = [f \in DOMAIN map |-> map[f]]
  /\ \A f : f \in DOMAIN map <=> \E m \in 1 .. n : Goes(pairs[m], part, i, f)
  /\ \A f \in DOMAIN map : ~IsPegouts(part, f) => map[f] = c[part][i][f]
  /\ part = "kernels" /\ "pegouts" \in DOMAIN map =>
       PegoutsRead(map.pegouts, c.kernels[i].pegouts, i, pairs, n)

\* A vector is as long as its last map with a field.
LengthRead(maps, part, pairs, n) ==
  Len(maps) > 0 => \E m \in 1 .. n : \E f : Goes(pairs[m], part, Len(maps), f)

OffsetsRead(offsets, c, pairs, n) ==
  /\ offsets = [f \in DOMAIN offsets |-> offsets[f]]
  /\ \A f \in DOMAIN offsets : f \in DOMAIN c.offsets /\ offsets[f] = c.offsets[f]
  /\ \A m \in 1 .. n : \A f \in FieldsOf("offsets") :
       Arm(pairs[m].type, KeyLen(pairs[m].key)) = "global" /\ pairs[m].type = OffsetType(f)
         => f \in DOMAIN offsets

Read(x, c, pairs, n) ==
  /\ IsRead(x)
  /\ OffsetsRead(x.offsets, c, pairs, n)
  /\ \A part \in Vectors : LengthRead(x[part], part, pairs, n)
  /\ \A part \in Vectors, i \in Index : MapRead(MapAt(x[part], i), part, i, c, pairs, n)

\* A pair goes to one place.
LEMMA GoesOnce ==
  ASSUME NEW pair, NEW part \in Vectors, NEW i, NEW f, Goes(pair, part, i, f),
         NEW part2 \in Vectors, NEW i2, NEW f2, Goes(pair, part2, i2, f2)
  PROVE  part = part2 /\ i = i2 /\ f = f2
  BY Zenon DEF Goes, Vectors

\* A pair for another place changes nothing.
LEMMA MapKept ==
  ASSUME NEW map, NEW part, NEW i, NEW c, NEW pairs, NEW n \in Index,
         MapRead(map, part, i, c, pairs, n - 1), \A f : ~Goes(pairs[n], part, i, f)
  PROVE  MapRead(map, part, i, c, pairs, n)
<1>1. \A m : m \in 1 .. n <=> m \in 1 .. n - 1 \/ m = n
  BY DEF Index
<1>2. \A f : f \in DOMAIN map <=> \E m \in 1 .. n : Goes(pairs[m], part, i, f)
  BY <1>1, Zenon DEF MapRead
<1>3. ASSUME part = "kernels", "pegouts" \in DOMAIN map
      PROVE  PegoutsRead(map.pegouts, c.kernels[i].pegouts, i, pairs, n)
  <2>1. PegoutsRead(map.pegouts, c.kernels[i].pegouts, i, pairs, n - 1)
    BY <1>3, Zenon DEF MapRead
  <2>2. ~Goes(pairs[n], "kernels", i, "pegouts")
    BY <1>3, Zenon
  <2>. QED  BY <1>1, <2>1, <2>2, Zenon DEF PegoutsRead
<1>. QED  BY <1>2, <1>3, Zenon DEF MapRead

\* One more pegout is read (the pegout arm of MwebKernel::apply_field).
LEMMA PegoutStep ==
  ASSUME NEW map, NEW i \in Index, NEW c, NEW pairs, NEW n \in Index,
         MapRead(map, "kernels", i, c, pairs, n - 1), Goes(pairs[n], "kernels", i, "pegouts"),
         IsMap(c.kernels[i], FieldsOf("kernels")), "pegouts" \in DOMAIN c.kernels[i],
         Says(pairs[n], "kernels", c.kernels[i], "pegouts")
  PROVE  PegoutsRead(SetPegout(map, pairs[n].key[3] + 1, pairs[n].value),
                     c.kernels[i].pegouts, i, pairs, n)
<1> DEFINE given == c.kernels[i].pegouts
           k == pairs[n].key[3] + 1
           v == pairs[n].value
           old == IF "pegouts" \in DOMAIN map THEN map.pegouts ELSE << >>
           len == IF k > Len(old) THEN k ELSE Len(old)
           new == SetPegout(map, k, v)
<1>1. PICK s \in DOMAIN given : pairs[n].key[3] = (s - 1) % PegoutKeys /\ v = given[s]
  BY Zenon DEF Says, IsPegouts
<1>2. Len(given) \in Nat /\ DOMAIN given = 1 .. Len(given) /\ Len(given) > 0
  BY Zenon DEF IsMap, IsVec
<1>3. PegoutKeys \in Nat /\ PegoutKeys > 0
  BY MapConstants
<1>4. k \in Nat /\ k > 0
  <2>1. s - 1 \in Nat
    BY <1>1, <1>2
  <2> DEFINE r == (s - 1) % PegoutKeys
  <2>2. r \in Nat
    BY <1>3, <2>1
  <2> HIDE DEF r
  <2>3. k = r + 1
    BY <1>1, Zenon DEF r
  <2>. QED  BY <2>2, <2>3
<1>5. IsVec(old) /\ Len(old) \in Nat /\ DOMAIN old = 1 .. Len(old)
  BY DEF MapRead, PegoutsRead, IsVec
<1>6. len \in Nat /\ len > 0 /\ k \in 1 .. len /\ Len(old) <= len
  BY <1>4, <1>5
<1>7. new = [m \in 1 .. len |-> IF m = k THEN v ELSE IF m \in DOMAIN old THEN old[m] ELSE Bad]
  BY Zenon DEF SetPegout
<1> HIDE DEF new, len, old, k, v, given
<1>8. new = [m \in 1 .. len |-> new[m]]
  BY <1>7, Zenon
<1>9. IsVec(new) /\ Len(new) = len
  BY <1>6, <1>8, VecLen, Zenon
<1>10. ASSUME Len(given) <= PegoutKeys
       PROVE  /\ Len(new) <= Len(given)
              /\ \A m \in 1 .. n : Goes(pairs[m], "kernels", i, "pegouts") =>
                   /\ pairs[m].key[3] + 1 \in 1 .. Len(new)
                   /\ new[pairs[m].key[3] + 1] = given[pairs[m].key[3] + 1]
  <2>1. k = s
    <3>1. s - 1 \in 0 .. PegoutKeys - 1
      BY <1>1, <1>2, <1>3, <1>10
    <3>2. (s - 1) % PegoutKeys = s - 1
      BY <1>3, <3>1
    <3>3. s \in Int
      BY <1>1, <1>2
    <3>. QED  BY <1>1, <3>2, <3>3 DEF k
  <2>2. /\ Len(old) <= Len(given)
        /\ \A m \in 1 .. n - 1 : Goes(pairs[m], "kernels", i, "pegouts") =>
             /\ pairs[m].key[3] + 1 \in 1 .. Len(old)
             /\ old[pairs[m].key[3] + 1] = given[pairs[m].key[3] + 1]
    <3>1. CASE "pegouts" \in DOMAIN map
      <4>1. PegoutsRead(map.pegouts, given, i, pairs, n - 1) /\ old = map.pegouts
        BY <3>1, Zenon DEF MapRead, given, old
      <4>. QED  BY <1>10, <4>1, Zenon DEF PegoutsRead
    <3>2. CASE "pegouts" \notin DOMAIN map
      <4>1. \A m \in 1 .. n - 1 : ~Goes(pairs[m], "kernels", i, "pegouts")
        BY <3>2, Zenon DEF MapRead
      <4>2. old = << >>
        BY <3>2, Zenon DEF old
      <4>3. Len(old) <= Len(given)
        BY <1>2, <4>2
      <4>. QED  BY <4>1, <4>3, Zenon
    <3>. QED  BY <3>1, <3>2, Zenon
  <2>3. Len(new) <= Len(given)
    BY <1>1, <1>2, <1>5, <1>9, <2>1, <2>2 DEF len
  <2>4. ASSUME NEW m \in 1 .. n, Goes(pairs[m], "kernels", i, "pegouts")
        PROVE  /\ pairs[m].key[3] + 1 \in 1 .. Len(new)
               /\ new[pairs[m].key[3] + 1] = given[pairs[m].key[3] + 1]
    <3> DEFINE j == pairs[m].key[3] + 1
    <3>1. CASE j = k
      BY <1>1, <1>6, <1>7, <1>9, <2>1, <3>1, Zenon
    <3>2. CASE j # k
      <4>1. m \in 1 .. n - 1
        BY <3>2 DEF k, Index
      <4>2. j \in 1 .. Len(old) /\ old[j] = given[j]
        BY <2>2, <2>4, <4>1, Zenon
      <4> HIDE DEF j
      <4>3. j \in 1 .. len /\ j \in DOMAIN old
        BY <1>5, <1>6, <4>2
      <4>. QED  BY <1>7, <1>9, <3>2, <4>2, <4>3, Zenon DEF j
    <3>. QED  BY <3>1, <3>2, Zenon
  <2>. QED  BY <2>3, <2>4, Zenon
<1>. QED  BY <1>6, <1>9, <1>10, Zenon DEF PegoutsRead, new, given, k, v

\* One more field is read.
LEMMA MapStep ==
  ASSUME NEW map, NEW part \in Vectors, NEW i \in Index, NEW c, NEW pairs, NEW n \in Index,
         MapRead(map, part, i, c, pairs, n - 1), NEW f, Goes(pairs[n], part, i, f),
         IsMap(c[part][i], FieldsOf(part)), f \in DOMAIN c[part][i],
         Says(pairs[n], part, c[part][i], f), NEW v,
         v = IF IsPegouts(part, f) THEN SetPegout(map, pairs[n].key[3] + 1, pairs[n].value)
             ELSE pairs[n].value
  PROVE  MapRead(SetField(map, f, v), part, i, c, pairs, n)
<1> DEFINE new == SetField(map, f, v)
<1>1. new = [g \in DOMAIN map \cup {f} |-> IF g = f THEN v ELSE map[g]]
  BY Zenon DEF SetField
<1> HIDE DEF new
<1>2. /\ DOMAIN new = DOMAIN map \cup {f} /\ new = [g \in DOMAIN new |-> new[g]]
      /\ new[f] = v /\ \A g \in DOMAIN map \ {f} : new[g] = map[g]
  BY <1>1, Zenon
<1>3. \A m : m \in 1 .. n <=> m \in 1 .. n - 1 \/ m = n
  BY DEF Index
<1>4. \A g : Goes(pairs[n], part, i, g) <=> g = f
  BY GoesOnce
<1>5. \A g : g \in DOMAIN new <=> \E m \in 1 .. n : Goes(pairs[m], part, i, g)
  <2>1. \A g : g \in DOMAIN map <=> \E m \in 1 .. n - 1 : Goes(pairs[m], part, i, g)
    BY Zenon DEF MapRead
  <2>2. \A g : g \in DOMAIN new <=> g \in DOMAIN map \/ g = f
    BY <1>2, Zenon
  <2>. QED  BY <1>3, <1>4, <2>1, <2>2, Zenon
<1>6. ASSUME NEW g \in DOMAIN new, ~IsPegouts(part, g) PROVE new[g] = c[part][i][g]
  <2>1. CASE g = f
    BY <1>2, <1>6, <2>1, Zenon DEF Says
  <2>2. CASE g # f
    <3>1. g \in DOMAIN map \ {f}
      BY <1>2, <2>2, Zenon
    <3>. QED  BY <1>2, <1>6, <3>1, Zenon DEF MapRead
  <2>. QED  BY <2>1, <2>2, Zenon
<1>7. ASSUME part = "kernels", "pegouts" \in DOMAIN new
      PROVE  PegoutsRead(new.pegouts, c.kernels[i].pegouts, i, pairs, n)
  <2>1. CASE f = "pegouts"
    <3>1. new.pegouts = SetPegout(map, pairs[n].key[3] + 1, pairs[n].value)
      BY <1>2, <1>7, <2>1, Zenon DEF IsPegouts
    <3>2. /\ MapRead(map, "kernels", i, c, pairs, n - 1) /\ Goes(pairs[n], "kernels", i, "pegouts")
          /\ IsMap(c.kernels[i], FieldsOf("kernels")) /\ "pegouts" \in DOMAIN c.kernels[i]
          /\ Says(pairs[n], "kernels", c.kernels[i], "pegouts")
      BY <1>7, <2>1, Zenon
    <3>. QED  BY <3>1, <3>2, PegoutStep, Zenon
  <2>2. CASE f # "pegouts"
    <3>1. "pegouts" \in DOMAIN map \ {f} /\ new.pegouts = map.pegouts
      BY <1>2, <1>7, <2>2, Zenon
    <3>2. PegoutsRead(map.pegouts, c.kernels[i].pegouts, i, pairs, n - 1)
      BY <1>7, <3>1, Zenon DEF MapRead
    <3>3. ~Goes(pairs[n], "kernels", i, "pegouts")
      BY <1>4, <1>7, <2>2, Zenon
    <3>. QED  BY <1>3, <3>1, <3>2, <3>3, Zenon DEF PegoutsRead
  <2>. QED  BY <2>1, <2>2, Zenon
<1>. QED  BY <1>2, <1>5, <1>6, <1>7, Zenon DEF MapRead, new

\* A pair of a field extends what has been read.
LEMMA FieldStep ==
  ASSUME NEW x, NEW c, Shape(c), NEW pairs, NEW n \in Index,
         Read(x, c, pairs, n - 1), SaysField(pairs[n], c)
  PROVE  Read(ApplyPair(x, pairs[n]), c, pairs, n)
<1> DEFINE y == ApplyPair(x, pairs[n])
<1>1. PICK part \in Vectors : \E i \in DOMAIN c[part] : \E f \in DOMAIN c[part][i] :
        f \in Range(OrderOf(part)) /\ Goes(pairs[n], part, i, f) /\ Says(pairs[n], part, c[part][i], f)
  BY Zenon DEF SaysField
<1>2. PICK i \in DOMAIN c[part] : \E f \in DOMAIN c[part][i] :
        f \in Range(OrderOf(part)) /\ Goes(pairs[n], part, i, f) /\ Says(pairs[n], part, c[part][i], f)
  BY <1>1, Zenon
<1>3. PICK f \in DOMAIN c[part][i] :
        f \in Range(OrderOf(part)) /\ Goes(pairs[n], part, i, f) /\ Says(pairs[n], part, c[part][i], f)
  BY <1>2, Zenon
<1>4. i \in Index /\ IsMap(c[part][i], FieldsOf(part))
  <2>1. part \in Parts
    BY Zenon DEF Vectors, Parts
  <2>2. AreMaps(part, c[part])
    BY <2>1, Zenon DEF Shape
  <2>. QED  BY <2>2 DEF AreMaps, IsVec, Index
<1> DEFINE v == NewValue(x, pairs[n], part, i, f)
<1>5. Puts(x, y, part, i, f, v)
  <2>1. IsRead(x)
    BY Zenon DEF Read
  <2>. QED  BY <1>3, <1>4, <2>1, FieldApplied, Zenon
<1>6. \A m : m \in 1 .. n <=> m \in 1 .. n - 1 \/ m = n
  BY DEF Index
<1> HIDE DEF y
<1>7. OffsetsRead(y.offsets, c, pairs, n)
  <2>1. Arm(pairs[n].type, KeyLen(pairs[n].key)) # "global"
    <3>1. Arm(pairs[n].type, KeyLen(pairs[n].key)) = part
      BY <1>3, Zenon DEF Goes
    <3>. QED  BY <3>1, Zenon DEF Vectors
  <2>2. y.offsets = x.offsets /\ OffsetsRead(x.offsets, c, pairs, n - 1)
    BY <1>5, Zenon DEF Puts, Read
  <2>. QED  BY <1>6, <2>1, <2>2, Zenon DEF OffsetsRead
<1>8. ASSUME NEW p \in Vectors PROVE LengthRead(y[p], p, pairs, n)
  <2>1. CASE p # part
    <3>1. y[p] = x[p] /\ LengthRead(x[p], p, pairs, n - 1)
      BY <1>5, <2>1, Zenon DEF Puts, Read
    <3>. QED  BY <1>6, <3>1, Zenon DEF LengthRead
  <2>2. CASE p = part
    <3>1. Len(y[part]) = IF i > Len(x[part]) THEN i ELSE Len(x[part])
      BY <1>5, Zenon DEF Puts
    <3>2. CASE Len(y[part]) = i
      <4>1. n \in 1 .. n
        BY DEF Index
      <4>. QED  BY <1>3, <2>2, <3>2, <4>1, Zenon DEF LengthRead
    <3>3. CASE Len(y[part]) = Len(x[part])
      <4>1. LengthRead(x[p], p, pairs, n - 1)
        BY Zenon DEF Read
      <4>. QED  BY <1>6, <2>2, <3>3, <4>1, Zenon DEF LengthRead
    <3>. QED  BY <3>1, <3>2, <3>3, Zenon
  <2>. QED  BY <2>1, <2>2, Zenon
<1>9. ASSUME NEW p \in Vectors, NEW j \in Index PROVE MapRead(MapAt(y[p], j), p, j, c, pairs, n)
  <2>1. MapRead(MapAt(x[p], j), p, j, c, pairs, n - 1)
    BY Zenon DEF Read
  <2>2. CASE p = part /\ j = i
    <3>1. MapAt(y[p], j) = SetField(MapAt(x[p], j), f, v)
      BY <1>5, <2>2, Zenon DEF Puts
    <3>2. v = IF IsPegouts(p, f) THEN SetPegout(MapAt(x[p], j), pairs[n].key[3] + 1, pairs[n].value)
              ELSE pairs[n].value
      BY <2>2, Zenon DEF NewValue, IsPegouts
    <3> HIDE DEF v
    <3>3. /\ Goes(pairs[n], p, j, f) /\ IsMap(c[p][j], FieldsOf(p)) /\ f \in DOMAIN c[p][j]
          /\ Says(pairs[n], p, c[p][j], f)
      BY <1>3, <1>4, <2>2, Zenon
    <3>. QED  BY <2>1, <3>1, <3>2, <3>3, MapStep, Zenon
  <2>3. CASE p # part \/ j # i
    <3>1. MapAt(y[p], j) = MapAt(x[p], j)
      <4>1. CASE p # part
        BY <1>5, <4>1, Zenon DEF Puts
      <4>2. CASE p = part
        BY <1>5, <2>3, <4>2, Zenon DEF Puts
      <4>. QED  BY <4>1, <4>2, Zenon
    <3>2. \A g : ~Goes(pairs[n], p, j, g)
      BY <1>3, <2>3, GoesOnce, Zenon
    <3>. QED  BY <2>1, <3>1, <3>2, MapKept, Zenon
  <2>. QED  BY <2>2, <2>3, Zenon
<1>10. IsRead(y)
  BY <1>5, Zenon DEF Puts
<1>. QED  BY <1>7, <1>8, <1>9, <1>10, Zenon DEF Read, y

\* An offset or the count of the kernels extends what has been read.
LEMMA GlobalStep ==
  ASSUME NEW x, NEW c, Shape(c), NEW pairs, NEW n \in Index,
         Read(x, c, pairs, n - 1), SaysGlobal(pairs[n], c)
  PROVE  Read(ApplyPair(x, pairs[n]), c, pairs, n)
<1> DEFINE y == ApplyPair(x, pairs[n])
           pair == pairs[n]
<1>1. /\ IsRead(y)
      /\ \A part \in Vectors : y[part] = x[part]
      /\ y.offsets =
           IF pair.type = FirstType THEN SetField(x.offsets, "tx_offset", pair.value)
           ELSE IF pair.type = FirstType + 1 THEN SetField(x.offsets, "stealth_offset", pair.value)
           ELSE x.offsets
  <2>1. IsRead(x)
    BY Zenon DEF Read
  <2>. QED  BY <2>1, GlobalApplied, Zenon
<1> HIDE DEF y
<1>2. \A m : m \in 1 .. n <=> m \in 1 .. n - 1 \/ m = n
  BY DEF Index
<1>3. \A part \in Vectors : \A i, f : ~Goes(pairs[n], part, i, f)
  BY Zenon DEF SaysGlobal, Goes, Vectors
<1>4. \A part \in Vectors : LengthRead(y[part], part, pairs, n)
  <2>1. \A part \in Vectors : LengthRead(x[part], part, pairs, n - 1)
    BY Zenon DEF Read
  <2>. QED  BY <1>1, <1>2, <2>1, Zenon DEF LengthRead
<1>5. ASSUME NEW p \in Vectors, NEW j \in Index PROVE MapRead(MapAt(y[p], j), p, j, c, pairs, n)
  <2>1. MapRead(MapAt(x[p], j), p, j, c, pairs, n - 1) /\ y[p] = x[p]
    BY <1>1, Zenon DEF Read
  <2>2. \A f : ~Goes(pairs[n], p, j, f)
    BY <1>3, Zenon
  <2>. QED  BY <2>1, <2>2, MapKept, Zenon
<1>6. OffsetsRead(y.offsets, c, pairs, n)
  <2> DEFINE old == x.offsets
             new == y.offsets
  <2>1. OffsetsRead(old, c, pairs, n - 1)
    BY Zenon DEF Read
  <2>2. /\ new = [f \in DOMAIN new |-> new[f]]
        /\ DOMAIN old \subseteq DOMAIN new
        /\ \A f \in DOMAIN new : f \in DOMAIN c.offsets /\ new[f] = c.offsets[f]
    <3>1. /\ old = [f \in DOMAIN old |-> old[f]]
          /\ \A f \in DOMAIN old : f \in DOMAIN c.offsets /\ old[f] = c.offsets[f]
      BY <2>1, Zenon DEF OffsetsRead
    <3>2. /\ pair.type = FirstType => "tx_offset" \in DOMAIN c.offsets /\ pair.value = c.offsets["tx_offset"]
          /\ pair.type = FirstType + 1 =>
               "stealth_offset" \in DOMAIN c.offsets /\ pair.value = c.offsets["stealth_offset"]
      BY Zenon DEF SaysGlobal
    <3> HIDE DEF old, new, pair
    <3>3. CASE pair.type = FirstType
      <4>1. new = SetField(old, "tx_offset", pair.value)
        BY <1>1, <3>3, Zenon DEF old, new, pair
      <4>. QED  BY <3>1, <3>2, <3>3, <4>1, Zenon DEF SetField
    <3>4. CASE pair.type # FirstType /\ pair.type = FirstType + 1
      <4>1. new = SetField(old, "stealth_offset", pair.value)
        BY <1>1, <3>4, Zenon DEF old, new, pair
      <4>. QED  BY <3>1, <3>2, <3>4, <4>1, Zenon DEF SetField
    <3>5. CASE pair.type # FirstType /\ pair.type # FirstType + 1
      <4>1. new = old
        BY <1>1, <3>5, Zenon DEF old, new, pair
      <4>. QED  BY <3>1, <4>1, Zenon
    <3>. QED  BY <3>3, <3>4, <3>5, Zenon
  <2>3. ASSUME NEW f \in FieldsOf("offsets"), pairs[n].type = OffsetType(f)
        PROVE  f \in DOMAIN new
    <3>1. f = "tx_offset" \/ f = "stealth_offset"
      BY Zenon DEF FieldsOf
    <3>2. CASE f = "tx_offset"
      <4>1. new = SetField(old, "tx_offset", pair.value)
        BY <1>1, <2>3, <3>2, Zenon DEF OffsetType
      <4>. QED  BY <3>2, <4>1, Zenon DEF SetField
    <3>3. CASE f = "stealth_offset"
      <4>1. new = SetField(old, "stealth_offset", pair.value)
        BY <1>1, <2>3, <3>3 DEF OffsetType, FirstType
      <4>. QED  BY <3>3, <4>1, Zenon DEF SetField
    <3>. QED  BY <3>1, <3>2, <3>3, Zenon
  <2> HIDE DEF old, new
  <2>4. ASSUME NEW m \in 1 .. n, NEW f \in FieldsOf("offsets"),
               Arm(pairs[m].type, KeyLen(pairs[m].key)) = "global", pairs[m].type = OffsetType(f)
        PROVE  f \in DOMAIN new
    <3>1. CASE m = n
      BY <2>3, <2>4, <3>1, Zenon
    <3>2. CASE m # n
      <4>1. m \in 1 .. n - 1
        BY <1>2, <3>2, Zenon
      <4>. QED  BY <2>1, <2>2, <2>4, <4>1, Zenon DEF OffsetsRead
    <3>. QED  BY <3>1, <3>2, Zenon
  <2>. QED  BY <2>2, <2>4, Zenon DEF OffsetsRead, new
<1>. QED  BY <1>1, <1>4, <1>5, <1>6, Zenon DEF Read, y

\* Every pair of a copy is read.
LEMMA AllRead ==
  ASSUME NEW c, Shape(c), NEW pairs, Sent(pairs, c)
  PROVE  Read(DecodeGlobal(pairs), c, pairs, Len(pairs))
<1> DEFINE N == Len(pairs)
<1>1. N \in Nat /\ DOMAIN pairs = 1 .. N
  BY Zenon DEF Sent, IsVec
<1>2. PICK read : Reads(read, pairs, N) /\ DecodeGlobal(pairs) = read[N]
  BY <1>1, Reading, Zenon
<1> HIDE DEF N
<1>3. /\ read[0] = EmptyCopy
      /\ \A n \in 1 .. N : read[n] = ApplyPair(read[n - 1], pairs[n])
  <2>1. read = [n \in 0 .. N |-> IF n = 0 THEN EmptyCopy ELSE ApplyPair(read[n - 1], pairs[n])]
    BY <1>2, Zenon DEF Reads
  <2>2. 0 \in 0 .. N /\ \A n \in 1 .. N : n \in 0 .. N /\ n # 0
    BY <1>1
  <2>. QED  BY <2>1, <2>2, Zenon
<1> DEFINE S == {n \in 0 .. N : Read(read[n], c, pairs, n)}
<1>4. 0 \in S
  <2>1. 1 .. 0 = {}
    OBVIOUS
  <2>2. /\ EmptyCopy.offsets = Default /\ \A part \in Vectors : EmptyCopy[part] = << >>
        /\ DOMAIN Default = {} /\ Default = [f \in DOMAIN Default |-> Default[f]]
    BY DEF EmptyCopy, Default, Vectors
  <2>3. IsRead(EmptyCopy)
    <3>1. IsVec(<< >>)
      BY DEF IsVec
    <3>2. EmptyCopy = [offsets |-> EmptyCopy.offsets, kernels |-> EmptyCopy.kernels,
                       inputs |-> EmptyCopy.inputs, outputs |-> EmptyCopy.outputs]
      BY Zenon DEF EmptyCopy
    <3>. QED  BY <2>2, <3>1, <3>2, Zenon DEF IsRead
  <2>4. OffsetsRead(EmptyCopy.offsets, c, pairs, 0)
    BY <2>1, <2>2, Zenon DEF OffsetsRead
  <2>5. \A part \in Vectors : LengthRead(EmptyCopy[part], part, pairs, 0)
    BY <2>2 DEF LengthRead
  <2>6. ASSUME NEW part \in Vectors, NEW i \in Index
        PROVE  MapRead(MapAt(EmptyCopy[part], i), part, i, c, pairs, 0)
    <3>1. MapAt(EmptyCopy[part], i) = Default
      BY <2>2 DEF MapAt
    <3>. QED  BY <2>1, <2>2, <3>1, Zenon DEF MapRead
  <2>7. Read(EmptyCopy, c, pairs, 0)
    BY <2>3, <2>4, <2>5, <2>6, Zenon DEF Read
  <2>. QED  BY <1>1, <1>3, <2>7
<1>5. ASSUME NEW n \in 1 .. N, n - 1 \in S PROVE n \in S
  <2>1. n \in Index /\ n \in 0 .. N
    BY <1>1 DEF Index
  <2>2. Read(read[n - 1], c, pairs, n - 1)
    BY <1>5, Zenon
  <2>3. SaysGlobal(pairs[n], c) \/ SaysField(pairs[n], c)
    <3>1. pairs[n] \in Range(pairs)
      BY <1>1, Zenon DEF Range
    <3>. QED  BY <3>1, Zenon DEF Sent
  <2>4. Read(ApplyPair(read[n - 1], pairs[n]), c, pairs, n)
    BY <2>1, <2>2, <2>3, FieldStep, GlobalStep, Zenon
  <2>. QED  BY <1>3, <2>1, <2>4, Zenon
<1> HIDE DEF S
<1>6. \A n \in 0 .. N : n \in S
  BY <1>1, <1>4, <1>5, UpTo, Zenon
<1>7. N \in S
  BY <1>1, <1>6
<1>. QED  BY <1>2, <1>7, Zenon DEF S, N

-----------------------------------------------------------------------------
(* What arrives.                                                           *)

\* The map that arrives: its typed fields, and the pegouts the key can number.
SameFields(got, given, part) ==
  /\ DOMAIN got = DOMAIN given \cap Range(OrderOf(part))
  /\ \A f \in DOMAIN got : ~IsPegouts(part, f) => got[f] = given[f]
  /\ part = "kernels" /\ "pegouts" \in DOMAIN got =>
       /\ IsVec(got.pegouts) /\ Len(got.pegouts) > 0
       /\ Len(given.pegouts) <= PegoutKeys => got.pegouts = given.pegouts

Arrives(t, c) ==
  /\ t.offsets = c.offsets /\ t.in_slots = c.in_slots /\ t.out_slots = c.out_slots
  /\ \A part \in Vectors :
       /\ Len(t[part]) <= Len(c[part])
       /\ Len(t[part]) > 0 => DOMAIN t[part][Len(t[part])] # {}
       /\ \A i \in Index : SameFields(MapAt(t[part], i), MapAt(c[part], i), part)

\* One map that has been read from all pairs of a copy.
LEMMA MapArrives ==
  ASSUME NEW c, Shape(c), NEW pairs, Sent(pairs, c), NEW part \in Vectors, NEW i \in Index,
         NEW got, MapRead(got, part, i, c, pairs, Len(pairs))
  PROVE  SameFields(got, MapAt(c[part], i), part) /\ got = [f \in DOMAIN got |-> got[f]]
<1> DEFINE N == Len(pairs)
           given == MapAt(c[part], i)
<1>1. N \in Nat /\ DOMAIN pairs = 1 .. N
  BY Zenon DEF Sent, IsVec
<1>2. \A pair : pair \in Range(pairs) <=> \E m \in 1 .. N : pairs[m] = pair
  BY <1>1, Zenon DEF Range
<1>3. \A f : f \in DOMAIN got <=> \E pair \in Range(pairs) : Goes(pair, part, i, f)
  <2>1. \A f : f \in DOMAIN got <=> \E m \in 1 .. N : Goes(pairs[m], part, i, f)
    BY Zenon DEF MapRead
  <2>. QED  BY <1>2, <2>1, Zenon
<1>4. AreMaps(part, c[part])
  <2>1. part \in Parts
    BY Zenon DEF Vectors, Parts
  <2>. QED  BY <2>1, Zenon DEF Shape
<1>5. ASSUME NEW f \in DOMAIN got
      PROVE  i \in DOMAIN c[part] /\ f \in DOMAIN c[part][i] /\ f \in Range(OrderOf(part))
  <2>1. PICK pair \in Range(pairs) : Goes(pair, part, i, f)
    BY <1>3, <1>5, Zenon
  <2>2. SaysGlobal(pair, c) \/ SaysField(pair, c)
    BY <2>1, Zenon DEF Sent
  <2>3. ~SaysGlobal(pair, c)
    BY <2>1, Zenon DEF SaysGlobal, Goes, Vectors
  <2>4. PICK p \in Vectors : \E j \in DOMAIN c[p] : \E g \in DOMAIN c[p][j] :
          g \in Range(OrderOf(p)) /\ Goes(pair, p, j, g)
    BY <2>2, <2>3, Zenon DEF SaysField
  <2>5. PICK j \in DOMAIN c[p] : \E g \in DOMAIN c[p][j] :
          g \in Range(OrderOf(p)) /\ Goes(pair, p, j, g)
    BY <2>4, Zenon
  <2>6. PICK g \in DOMAIN c[p][j] : g \in Range(OrderOf(p)) /\ Goes(pair, p, j, g)
    BY <2>5, Zenon
  <2>7. part = p /\ i = j /\ f = g
    BY <2>1, <2>6, GoesOnce, Zenon
  <2>. QED  BY <2>6, <2>7, Zenon
<1>6. ASSUME NEW f \in DOMAIN given \cap Range(OrderOf(part)) PROVE f \in DOMAIN got
  <2>1. i \in DOMAIN c[part] /\ given = c[part][i]
    BY <1>6, Zenon DEF MapAt, Default
  <2>2. \E pair \in Range(pairs) : Goes(pair, part, i, f)
    BY <1>6, <2>1, Zenon DEF Sent
  <2>. QED  BY <1>3, <2>2, Zenon
<1>7. DOMAIN got = DOMAIN given \cap Range(OrderOf(part))
  <2>1. \A f \in DOMAIN got : f \in DOMAIN given
    BY <1>5, Zenon DEF MapAt
  <2>. QED  BY <1>5, <1>6, <2>1, Zenon
<1>8. ASSUME NEW f \in DOMAIN got, ~IsPegouts(part, f) PROVE got[f] = given[f]
  BY <1>5, <1>8, Zenon DEF MapRead, MapAt
<1>9. ASSUME part = "kernels", "pegouts" \in DOMAIN got
      PROVE  /\ IsVec(got.pegouts) /\ Len(got.pegouts) > 0
             /\ Len(given.pegouts) <= PegoutKeys => got.pegouts = given.pegouts
  <2>1. i \in DOMAIN c.kernels /\ given = c.kernels[i] /\ "pegouts" \in DOMAIN given
    BY <1>5, <1>9, Zenon DEF MapAt
  <2>2. PegoutsRead(got.pegouts, given.pegouts, i, pairs, N)
    BY <1>9, <2>1, Zenon DEF MapRead
  <2>3. IsVec(given.pegouts)
    BY <1>4, <1>9, <2>1, Zenon DEF AreMaps, IsMap
  <2> HIDE DEF given
  <2> DEFINE g == got.pegouts
             h == given.pegouts
  <2>4. ASSUME Len(h) <= PegoutKeys PROVE g = h
    <3>1. /\ IsVec(g) /\ IsVec(h) /\ Len(g) <= Len(h)
          /\ \A m \in 1 .. N : Goes(pairs[m], "kernels", i, "pegouts") =>
               pairs[m].key[3] + 1 \in 1 .. Len(g) /\ g[pairs[m].key[3] + 1] = h[pairs[m].key[3] + 1]
      BY <2>2, <2>3, <2>4, Zenon DEF PegoutsRead
    <3>2. Len(g) \in Nat /\ Len(h) \in Nat /\ DOMAIN h = 1 .. Len(h) /\ PegoutKeys \in Nat
      BY <3>1, MapConstants, Zenon DEF IsVec
    <3>3. ASSUME NEW n \in 1 .. Len(h) PROVE n \in 1 .. Len(g) /\ g[n] = h[n]
      <4>1. "pegouts" \in Range(OrderOf(part)) /\ IsPegouts(part, "pegouts")
        BY <1>5, <1>9, Zenon DEF IsPegouts
      <4>2. \E pair \in Range(pairs) :
              Goes(pair, part, i, "pegouts") /\ pair.key[3] = (n - 1) % PegoutKeys
        <5>1. n \in DOMAIN c[part][i].pegouts
          BY <1>9, <2>1, <3>2, <3>3, Zenon
        <5>2. i \in DOMAIN c[part] /\ "pegouts" \in DOMAIN c[part][i]
          BY <1>9, <2>1, Zenon
        <5>. QED  BY <4>1, <5>1, <5>2, Zenon DEF Sent
      <4>3. PICK m \in 1 .. N :
              Goes(pairs[m], "kernels", i, "pegouts") /\ pairs[m].key[3] = (n - 1) % PegoutKeys
        BY <1>2, <1>9, <4>2, Zenon
      <4>4. n - 1 \in 0 .. PegoutKeys - 1 /\ n \in Int
        BY <2>4, <3>2, <3>3
      <4>5. (n - 1) % PegoutKeys = n - 1
        BY <3>2, <4>4
      <4>6. pairs[m].key[3] + 1 = n
        BY <4>3, <4>4, <4>5
      <4>. QED  BY <3>1, <4>3, <4>6, Zenon
    <3> HIDE DEF g, h
    <3>4. Len(g) = Len(h)
      <4>1. CASE Len(h) = 0
        BY <3>1, <3>2, <4>1, SMTT(40)
      <4>2. CASE Len(h) # 0
        <5>1. Len(h) \in 1 .. Len(h)
          BY <3>2, <4>2
        <5>2. Len(h) \in 1 .. Len(g)
          BY <3>3, <5>1, Zenon
        <5>. QED  BY <3>1, <3>2, <5>2
      <4>. QED  BY <4>1, <4>2, Zenon
    <3>. QED  BY <3>1, <3>3, <3>4, Zenon DEF IsVec
  <2>. QED  BY <2>2, <2>4, Zenon DEF PegoutsRead
<1>10. got = [f \in DOMAIN got |-> got[f]]
  BY Zenon DEF MapRead
<1>. QED  BY <1>7, <1>8, <1>9, <1>10, Zenon DEF SameFields

\* The typed fields of a part are fields of its maps.
LEMMA OrderFields ==
  ASSUME NEW part \in Vectors
  PROVE  Range(OrderOf(part)) \subseteq FieldsOf(part)
<1>1. CASE part = "kernels"
  BY <1>1, Zenon DEF OrderOf, FieldsOf
<1>2. CASE part = "inputs"
  BY <1>2, Zenon DEF OrderOf, FieldsOf
<1>3. CASE part = "outputs"
  BY <1>3, Zenon DEF OrderOf, FieldsOf
<1>. QED  BY <1>1, <1>2, <1>3, Zenon DEF Vectors

\* A map that arrives is one of its part again.
LEMMA ArrivedMap ==
  ASSUME NEW part \in Vectors, NEW got, NEW given, SameFields(got, given, part),
         got = [f \in DOMAIN got |-> got[f]],
         given = Default \/ IsMap(given, FieldsOf(part))
  PROVE  IsMap(got, FieldsOf(part))
<1>1. DOMAIN got \subseteq FieldsOf(part)
  BY OrderFields, Zenon DEF SameFields
<1>2. ASSUME "pegouts" \in DOMAIN got PROVE IsVec(got.pegouts) /\ Len(got.pegouts) > 0
  <2>1. CASE part = "kernels"
    BY <1>2, <2>1, Zenon DEF SameFields
  <2>2. CASE part # "kernels"
    <3>1. "pegouts" \in DOMAIN given
      BY <1>2, Zenon DEF SameFields
    <3>2. IsVec(given.pegouts) /\ Len(given.pegouts) > 0
      BY <3>1, Zenon DEF IsMap, Default
    <3>3. got.pegouts = given.pegouts
      BY <1>2, <2>2, Zenon DEF SameFields, IsPegouts
    <3>. QED  BY <3>2, <3>3, Zenon
  <2>. QED  BY <2>1, <2>2, Zenon
<1>. QED  BY <1>1, <1>2, Zenon DEF IsMap

\* What arrives of a copy: all offsets and slots, all typed fields in their maps, and
\* no map after the last that has one.
LEMMA Arrived ==
  ASSUME NEW c, Shape(c)
  PROVE  Shape(Transit(c)) /\ Arrives(Transit(c), c)
<1> DEFINE pairs == GetPairs(c)
           d == DecodeGlobal(pairs)
           t == Transit(c)
<1>1. Sent(pairs, c)
  BY GetPairsSent, Zenon
<1> HIDE DEF pairs
<1>2. Read(d, c, pairs, Len(pairs))
  BY <1>1, AllRead, Zenon
<1>4. t = [offsets |-> d.offsets, kernels |-> d.kernels, inputs |-> d.inputs,
           outputs |-> d.outputs, in_slots |-> c.in_slots, out_slots |-> c.out_slots]
  BY Zenon DEF Transit, pairs
<1> HIDE DEF d, t
<1>5. /\ t = [offsets |-> t.offsets, kernels |-> t.kernels, inputs |-> t.inputs,
              outputs |-> t.outputs, in_slots |-> t.in_slots, out_slots |-> t.out_slots]
      /\ t.offsets = d.offsets /\ t.in_slots = c.in_slots /\ t.out_slots = c.out_slots
      /\ \A part \in Vectors : t[part] = d[part]
  BY <1>4 DEF Vectors
<1>6. d.offsets = c.offsets
  <2>1. OffsetsRead(d.offsets, c, pairs, Len(pairs))
    BY <1>2, Zenon DEF Read
  <2>2. IsMap(c.offsets, FieldsOf("offsets"))
    BY Zenon DEF Shape
  <2>3. ASSUME NEW f \in DOMAIN c.offsets PROVE f \in DOMAIN d.offsets
    <3>1. f \in FieldsOf("offsets")
      BY <2>2, Zenon DEF IsMap
    <3>2. PICK pair \in Range(pairs) :
            Arm(pair.type, KeyLen(pair.key)) = "global" /\ pair.type = OffsetType(f)
      BY <1>1, Zenon DEF Sent
    <3>3. PICK m \in 1 .. Len(pairs) : pairs[m] = pair
      BY <1>1, Zenon DEF Sent, IsVec, Range
    <3>. QED  BY <2>1, <3>1, <3>2, <3>3, Zenon DEF OffsetsRead
  <2> DEFINE x == d.offsets
             y == c.offsets
  <2>4. /\ x = [f \in DOMAIN x |-> x[f]] /\ y = [f \in DOMAIN y |-> y[f]]
        /\ DOMAIN x = DOMAIN y /\ \A f \in DOMAIN x : x[f] = y[f]
    BY <2>1, <2>2, <2>3, Zenon DEF OffsetsRead, IsMap
  <2> HIDE DEF x, y
  <2>5. x = y
    BY <2>4, Zenon
  <2>. QED  BY <2>5, Zenon DEF x, y
<1>7. ASSUME NEW part \in Vectors
      PROVE  /\ AreMaps(part, c[part]) /\ IsVec(d[part])
             /\ Len(d[part]) \in Nat /\ DOMAIN d[part] = 1 .. Len(d[part])
             /\ DOMAIN c[part] = 1 .. Len(c[part]) /\ Len(c[part]) \in Nat
  <2>1. part \in Parts
    BY Zenon DEF Vectors, Parts
  <2>2. AreMaps(part, c[part])
    BY <2>1, Zenon DEF Shape
  <2>3. IsVec(d[part])
    BY <1>2, Zenon DEF Read, IsRead
  <2>4. IsVec(c[part])
    BY <2>2, Zenon DEF AreMaps
  <2>. QED  BY <2>2, <2>3, <2>4, VecDomain, Zenon
<1>8. ASSUME NEW part \in Vectors, NEW i \in Index
      PROVE  /\ SameFields(MapAt(d[part], i), MapAt(c[part], i), part)
             /\ MapAt(d[part], i) = [f \in DOMAIN MapAt(d[part], i) |-> MapAt(d[part], i)[f]]
  <2>1. MapRead(MapAt(d[part], i), part, i, c, pairs, Len(pairs))
    BY <1>2, Zenon DEF Read
  <2> DEFINE got == MapAt(d[part], i)
  <2>2. MapRead(got, part, i, c, pairs, Len(pairs))
    BY <2>1, Zenon
  <2> HIDE DEF got
  <2>3. SameFields(got, MapAt(c[part], i), part) /\ got = [f \in DOMAIN got |-> got[f]]
    BY <1>1, <2>2, MapArrives
  <2>. QED  BY <2>3, Zenon DEF got
<1>9. ASSUME NEW part \in Vectors PROVE AreMaps(part, d[part])
  <2>1. ASSUME NEW i \in DOMAIN d[part] PROVE IsMap(d[part][i], FieldsOf(part))
    <3>1. i \in Index /\ MapAt(d[part], i) = d[part][i]
      BY <1>7, <2>1 DEF Index, MapAt
    <3>2. MapAt(c[part], i) = Default \/ IsMap(MapAt(c[part], i), FieldsOf(part))
      BY <1>7, Zenon DEF AreMaps, MapAt
    <3>3. /\ SameFields(d[part][i], MapAt(c[part], i), part)
          /\ d[part][i] = [f \in DOMAIN d[part][i] |-> d[part][i][f]]
      BY <1>8, <3>1, Zenon
    <3>. QED  BY <3>2, <3>3, ArrivedMap, Zenon
  <2>. QED  BY <1>7, <2>1, Zenon DEF AreMaps
<1>10. ASSUME NEW part \in Vectors, Len(d[part]) > 0
       PROVE  Len(d[part]) <= Len(c[part]) /\ DOMAIN d[part][Len(d[part])] # {}
  <2> DEFINE n == Len(d[part])
  <2>1. n \in Index /\ MapAt(d[part], n) = d[part][n]
    BY <1>7, <1>10 DEF Index, MapAt
  <2>2. PICK m \in 1 .. Len(pairs) : \E f : Goes(pairs[m], part, n, f)
    BY <1>2, <1>10, Zenon DEF Read, LengthRead
  <2>3. PICK f : Goes(pairs[m], part, n, f)
    BY <2>2, Zenon
  <2>4. MapRead(MapAt(d[part], n), part, n, c, pairs, Len(pairs))
    BY <1>2, <2>1, Zenon DEF Read
  <2>5. f \in DOMAIN MapAt(d[part], n)
    BY <2>3, <2>4, Zenon DEF MapRead
  <2>6. f \in DOMAIN MapAt(c[part], n)
    BY <1>8, <2>1, <2>5, Zenon DEF SameFields
  <2>7. n \in DOMAIN c[part]
    BY <2>6, Zenon DEF MapAt, Default
  <2>. QED  BY <1>7, <2>1, <2>5, <2>7
<1>11. Arrives(t, c)
  <2>1. ASSUME NEW part \in Vectors PROVE Len(t[part]) <= Len(c[part])
    <3>1. CASE Len(d[part]) > 0
      BY <1>5, <1>10, <3>1, Zenon
    <3>2. CASE ~(Len(d[part]) > 0)
      BY <1>5, <1>7, <3>2
    <3>. QED  BY <3>1, <3>2, Zenon
  <2>2. \A part \in Vectors : Len(t[part]) > 0 => DOMAIN t[part][Len(t[part])] # {}
    BY <1>5, <1>10, Zenon
  <2>3. \A part \in Vectors : \A i \in Index : SameFields(MapAt(t[part], i), MapAt(c[part], i), part)
    BY <1>5, <1>8, Zenon
  <2>4. t.offsets = c.offsets /\ t.in_slots = c.in_slots /\ t.out_slots = c.out_slots
    BY <1>5, <1>6, Zenon
  <2>. QED  BY <2>1, <2>2, <2>3, <2>4, Zenon DEF Arrives
<1>12. Shape(t)
  <2>1. \A part \in Parts : AreMaps(part, t[part])
    <3>1. \A part \in Vectors : AreMaps(part, t[part])
      BY <1>5, <1>9, Zenon
    <3>2. AreMaps("in_slots", t.in_slots) /\ AreMaps("out_slots", t.out_slots)
      <4>1. "in_slots" \in Parts /\ "out_slots" \in Parts
        BY Zenon DEF Parts
      <4>2. AreMaps("in_slots", c["in_slots"]) /\ AreMaps("out_slots", c["out_slots"])
        BY <4>1, Zenon DEF Shape
      <4>. QED  BY <1>5, <4>2, Zenon
    <3>. QED  BY <3>1, <3>2, Zenon DEF Parts, Vectors
  <2>2. IsMap(t.offsets, FieldsOf("offsets")) /\ Len(t.in_slots) = InSlots /\ Len(t.out_slots) = OutSlots
    <3>1. IsMap(c.offsets, FieldsOf("offsets")) /\ Len(c.in_slots) = InSlots /\ Len(c.out_slots) = OutSlots
      BY Zenon DEF Shape
    <3>. QED  BY <1>5, <1>6, <3>1, Zenon
  <2>. QED  BY <1>5, <2>1, <2>2, Zenon DEF Shape
<1>. QED  BY <1>11, <1>12, Zenon DEF t

=============================================================================
