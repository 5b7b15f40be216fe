---------------------------- MODULE MwebWorkflow ----------------------------
(***************************************************************************)
(* The MWEB part of a Psbt: the global offsets, the kernel maps, the       *)
(* parallel input and output maps, and the maps in the slots of the        *)
(* transparent inputs and outputs (psbt/mweb and psbt/map/global.rs).      *)
(*                                                                         *)
(* A map is the partial function of its set fields: a Vec that is empty    *)
(* (pegouts, unknowns) is absent.  The value Bad stands for bytes of a     *)
(* length or form that extraction rejects; only the fields the code keeps  *)
(* as Vec<u8> can hold it.                                                 *)
(***************************************************************************)
EXTENDS Integers, Sequences, FiniteSets, Functions

CONSTANTS
  Bad,
  PegoutKeys   \* how many indices the key byte of a pegout tells apart

ASSUME MapConstants == PegoutKeys \in Nat \ {0}

\* The fields in the order of their type codes, which to_kv_pairs keeps:
\* from 0 for kernels, from 0x90 for inputs and outputs.
KernelOrder ==
  <<"excess_commit", "stealth_commit", "fee", "pegin_amount", "pegouts",
    "lock_height", "features", "extra_data", "signature">>
InputOrder ==
  <<"output_id", "commit", "output_pubkey", "input_pubkey", "features",
    "signature", "address_index", "amount", "shared_secret",
    "key_exchange_pubkey", "master_scan_key_origin",
    "master_spend_key_origin", "extra_data">>
OutputOrder ==
  <<"stealth_address", "commit", "features", "sender_pubkey",
    "output_pubkey", "standard_fields", "range_proof", "signature",
    "extra_data">>
OriginFields == {"master_scan_key_origin", "master_spend_key_origin"}

FirstType == 144
TypeOf(order, f) == CHOOSE n \in DOMAIN order : order[n] = f

Default == [f \in {} |-> Bad]

EmptyCopy ==
  [offsets |-> Default, kernels |-> << >>, inputs |-> << >>, outputs |-> << >>]

-----------------------------------------------------------------------------
(* Combining.                                                              *)

\* Field by field, existing values are kept.
Merge(mine, theirs) ==
  [f \in DOMAIN mine \cup DOMAIN theirs |->
     IF f \in DOMAIN mine THEN mine[f] ELSE theirs[f]]

CombineKernel(mine, theirs) == Merge(mine, theirs)
CombineInput(mine, theirs) == Merge(mine, theirs)
CombineOutput(mine, theirs) == Merge(mine, theirs)

MapAt(maps, i) == IF i \in DOMAIN maps THEN maps[i] ELSE Default

\* A mutant: the vectors are zipped, without ensure_index.
CombineMwebZips(mine, theirs) ==
  [mine EXCEPT
     !.offsets = Merge(mine.offsets, theirs.offsets),
     !.kernels = [i \in DOMAIN mine.kernels |->
                    CombineKernel(mine.kernels[i], MapAt(theirs.kernels, i))],
     !.inputs = [i \in DOMAIN mine.inputs |->
                   CombineInput(mine.inputs[i], MapAt(theirs.inputs, i))]]

\* Psbt::combine: the offsets, the vectors of maps index by index, which
\* ensure_index fills up, and the slots.
CombineMweb(mine, theirs) ==
  LET Slots(part) == DOMAIN mine[part] \cup DOMAIN theirs[part]
  IN  [offsets |-> Merge(mine.offsets, theirs.offsets),
       kernels |-> [i \in Slots("kernels") |->
                      CombineKernel(MapAt(mine.kernels, i), MapAt(theirs.kernels, i))],
       inputs |-> [i \in Slots("inputs") |->
                     CombineInput(MapAt(mine.inputs, i), MapAt(theirs.inputs, i))],
       outputs |-> [i \in Slots("outputs") |->
                      CombineOutput(MapAt(mine.outputs, i), MapAt(theirs.outputs, i))],
       in_slots |-> [i \in DOMAIN mine.in_slots |->
                       CombineInput(mine.in_slots[i], theirs.in_slots[i])],
       out_slots |-> [i \in DOMAIN mine.out_slots |->
                        CombineOutput(mine.out_slots[i], theirs.out_slots[i])]]

-----------------------------------------------------------------------------
(* The pairs of the global map.  A key is empty, or starts with the four   *)
(* bytes of an index and goes on with single bytes or a public key.        *)

Pair(type, key, value) == [type |-> type, key |-> key, value |-> value]
KeyLen(key) == IF key = << >> THEN 0 ELSE 3 + Len(key)

\* The vectors of a vector, one after the other (Vec::extend in a loop).
Joined(vecs) ==
  LET join[n \in 0 .. Len(vecs)] == IF n = 0 THEN << >> ELSE join[n - 1] \o vecs[n]
  IN  join[Len(vecs)]

\* MwebKernel::to_kv_pairs under the key of kernel i.  Unknowns have no pair.
KernelField(i, map, f) ==
  IF f \notin DOMAIN map THEN << >>
  ELSE IF f = "pegouts"
  THEN [n \in DOMAIN map.pegouts |->
          Pair(FirstType + 3, <<i, 4, (n - 1) % PegoutKeys>>, map.pegouts[n])]
  ELSE <<Pair(FirstType + 3, <<i, TypeOf(KernelOrder, f) - 1>>, map[f])>>

InputField(i, map, f) ==
  IF f \notin DOMAIN map THEN << >>
  ELSE <<Pair(FirstType + TypeOf(InputOrder, f) - 1,
              IF f \in OriginFields THEN <<i, map[f]>> ELSE <<i>>, map[f])>>

OutputField(i, map, f) ==
  IF f \notin DOMAIN map THEN << >>
  ELSE <<Pair(FirstType + 4, <<i, FirstType + TypeOf(OutputOrder, f) - 1>>, map[f])>>

\* The pairs of all maps, each in the order of its fields.
KernelPairs(maps) ==
  Joined([i \in DOMAIN maps |->
    Joined([n \in DOMAIN KernelOrder |-> KernelField(i, maps[i], KernelOrder[n])])])
InputPairs(maps) ==
  Joined([i \in DOMAIN maps |->
    Joined([n \in DOMAIN InputOrder |-> InputField(i, maps[i], InputOrder[n])])])
OutputPairs(maps) ==
  Joined([i \in DOMAIN maps |->
    Joined([n \in DOMAIN OutputOrder |-> OutputField(i, maps[i], OutputOrder[n])])])

Offset(copy, f, type) ==
  IF f \in DOMAIN copy.offsets THEN <<Pair(type, << >>, copy.offsets[f])>> ELSE << >>

GetPairs(copy) ==
  Offset(copy, "tx_offset", FirstType) \o Offset(copy, "stealth_offset", FirstType + 1)
  \o (IF copy.kernels = << >> THEN << >>
      ELSE <<Pair(FirstType + 2, << >>, Len(copy.kernels))>>)
  \o KernelPairs(copy.kernels) \o InputPairs(copy.inputs) \o OutputPairs(copy.outputs)

-----------------------------------------------------------------------------
(* Decoding.                                                               *)

SetField(map, f, v) == [g \in DOMAIN map \cup {f} |-> IF g = f THEN v ELSE map[g]]

\* ensure_index, then the field of map i is set: the last pair wins.
SetIn(maps, i, f, v) ==
  [j \in 1 .. (IF i > Len(maps) THEN i ELSE Len(maps)) |->
     IF j = i THEN SetField(MapAt(maps, i), f, v) ELSE MapAt(maps, j)]

\* The pegout arm of MwebKernel::apply_field: gaps are filled with empty bytes.
SetPegout(map, n, v) ==
  LET old == IF "pegouts" \in DOMAIN map THEN map.pegouts ELSE << >>
      len == IF n > Len(old) THEN n ELSE Len(old)
  IN  [m \in 1 .. len |-> IF m = n THEN v ELSE IF m \in DOMAIN old THEN old[m] ELSE Bad]

\* A mutant: the arm for input fields comes before those of kernels and outputs.
ArmInputsFirst(type, len) ==
  IF len = 0 /\ type \in FirstType .. FirstType + 2 THEN "global"
  ELSE IF type \in FirstType .. FirstType + 12 /\ len >= 4 THEN "inputs"
  ELSE "unknown"

\* The arm of decode_global that takes a pair.
Arm(type, len) ==
  IF len = 0 /\ type \in FirstType .. FirstType + 2 THEN "global"
  ELSE IF type = FirstType + 3 /\ len >= 5 THEN "kernels"
  ELSE IF type = FirstType + 4 /\ len = 5 THEN "outputs"
  ELSE IF type \in FirstType .. FirstType + 12 /\ len >= 4 THEN "inputs"
  ELSE "unknown"

ApplyInputField(copy, pair) ==
  [copy EXCEPT !.inputs = SetIn(copy.inputs, pair.key[1],
                                InputOrder[pair.type - FirstType + 1], pair.value)]

ApplyOutputField(copy, pair) ==
  [copy EXCEPT !.outputs = SetIn(copy.outputs, pair.key[1],
                                 OutputOrder[pair.key[2] - FirstType + 1], pair.value)]

ApplyKernelField(copy, pair) ==
  LET i == pair.key[1]
      f == KernelOrder[pair.key[2] + 1]
      v == IF f = "pegouts" THEN SetPegout(MapAt(copy.kernels, i), pair.key[3] + 1, pair.value)
           ELSE pair.value
  IN  [copy EXCEPT !.kernels = SetIn(copy.kernels, i, f, v)]

\* The count of the kernels is informational.
ApplyPair(copy, pair) ==
  LET arm == Arm(pair.type, KeyLen(pair.key))
  IN  CASE arm = "global" /\ pair.type = FirstType ->
             [copy EXCEPT !.offsets = SetField(copy.offsets, "tx_offset", pair.value)]
        [] arm = "global" /\ pair.type = FirstType + 1 ->
             [copy EXCEPT !.offsets = SetField(copy.offsets, "stealth_offset", pair.value)]
        [] arm = "kernels" -> ApplyKernelField(copy, pair)
        [] arm = "outputs" -> ApplyOutputField(copy, pair)
        [] arm = "inputs" -> ApplyInputField(copy, pair)
        [] OTHER -> copy

DecodeGlobal(pairs) ==
  LET read[n \in 0 .. Len(pairs)] ==
        IF n = 0 THEN EmptyCopy ELSE ApplyPair(read[n - 1], pairs[n])
  IN  read[Len(pairs)]

\* What arrives when a copy is sent; the slots travel in maps of their own,
\* whose pairs hold each field under its own type.
Transit(copy) ==
  LET read == DecodeGlobal(GetPairs(copy))
  IN  [offsets |-> read.offsets, kernels |-> read.kernels, inputs |-> read.inputs,
       outputs |-> read.outputs, in_slots |-> copy.in_slots, out_slots |-> copy.out_slots]

-----------------------------------------------------------------------------
(* Extraction.                                                             *)

\* Psbt::extract_tx_with_mweb: the parallel maps if there are any, else the
\* slots if one of them carries the field that marks an MWEB input or output.
Source(maps, slots, mark) ==
  CASE maps # << >> -> "parallel"
    [] maps = << >> /\ (\E i \in DOMAIN slots : mark \in DOMAIN slots[i]) -> "slots"
    [] OTHER -> "none"

Used(maps, slots, mark) ==
  LET source == Source(maps, slots, mark)
  IN  IF source = "parallel" THEN maps ELSE IF source = "slots" THEN slots ELSE << >>

UsedInputs(copy) == Used(copy.inputs, copy.in_slots, "output_id")
UsedOutputs(copy) == Used(copy.outputs, copy.out_slots, "commit")

Has(map, required, checked) ==
  /\ required \subseteq DOMAIN map
  /\ \A f \in checked \cap DOMAIN map : map[f] # Bad

InputAssembles(map) ==
  Has(map, {"output_id", "commit", "output_pubkey", "signature"},
      {"output_pubkey", "input_pubkey", "signature"})
OutputAssembles(map) ==
  Has(map, {"commit", "sender_pubkey", "output_pubkey", "range_proof", "signature"},
      {"sender_pubkey", "output_pubkey", "range_proof", "signature"})

\* A mutant: the kernel's signature is not required.
KernelAssemblesUnsigned(map) == Has(map, {"excess_commit"}, {"stealth_commit"})

KernelAssembles(map) ==
  /\ Has(map, {"excess_commit", "signature"}, {"stealth_commit"})
  /\ "pegouts" \in DOMAIN map => Bad \notin Range(map.pegouts)

\* assemble_mw_tx succeeds.
Assembles(copy) ==
  /\ {"tx_offset", "stealth_offset"} \subseteq DOMAIN copy.offsets
  /\ \A i \in DOMAIN UsedInputs(copy) : InputAssembles(UsedInputs(copy)[i])
  /\ \A i \in DOMAIN UsedOutputs(copy) : OutputAssembles(UsedOutputs(copy)[i])
  /\ \A i \in DOMAIN copy.kernels : KernelAssembles(copy.kernels[i])

\* What of a map goes into the transaction; absent features are no features.
\* A standard_fields blob that is too short is left out.
WireFields(map, fields) ==
  [f \in (DOMAIN map \cap fields) \ {g \in {"standard_fields"} \cap DOMAIN map : map[g] = Bad}
     |-> map[f]]
WireInput(map) ==
  WireFields(map, {"output_id", "commit", "output_pubkey", "input_pubkey", "features",
                   "signature", "extra_data"})
WireOutput(map) == WireFields(map, Range(OutputOrder) \ {"stealth_address"})
WireKernel(map) == WireFields(map, Range(KernelOrder))

AssembleMwTx(copy) ==
  [offsets |-> copy.offsets,
   inputs |-> [i \in DOMAIN UsedInputs(copy) |-> WireInput(UsedInputs(copy)[i])],
   outputs |-> [i \in DOMAIN UsedOutputs(copy) |-> WireOutput(UsedOutputs(copy)[i])],
   kernels |-> [i \in DOMAIN copy.kernels |-> WireKernel(copy.kernels[i])]]
-----------------------------------------------------------------------------
(***************************************************************************)
(* Several parties fill the MWEB part of a Psbt: each writes the maps of   *)
(* its own inputs, outputs and kernels, sends its copy, combines what it   *)
(* receives, and can extract a transaction.  The library leaves writing    *)
(* and signing the maps to the wallet, which signs a map last (the         *)
(* signatures of inputs, outputs and kernels cover the other fields).      *)
(***************************************************************************)

CONSTANTS
  Party,
  InSlots, OutSlots,   \* how many transparent inputs and outputs there are
  Offers,              \* [party, part, index, fields]: what a party writes
  MaxMail,             \* bound on the messages in flight
  MaxFaults            \* bound on losses and duplications

Parts == {"kernels", "inputs", "outputs", "in_slots", "out_slots"}

\* The fields of the maps of a part (struct MwebKernel, MwebInput, MwebOutput).
FieldsOf(part) ==
  CASE part = "offsets" -> {"tx_offset", "stealth_offset"}
    [] part = "kernels" -> Range(KernelOrder) \cup {"unknowns"}
    [] part \in {"inputs", "in_slots"} -> Range(InputOrder)
    [] part \in {"outputs", "out_slots"} -> Range(OutputOrder)

IsVec(v) == Len(v) \in Nat /\ v = [n \in 1 .. Len(v) |-> v[n]]
IsMap(map, fields) ==
  /\ map = [f \in DOMAIN map |-> map[f]]
  /\ DOMAIN map \subseteq fields
  /\ "pegouts" \in DOMAIN map => IsVec(map.pegouts) /\ Len(map.pegouts) > 0

\* Every map is written by one party, which gives a field one value; the slots are
\* there from the start.
ASSUME OfferConstants ==
  /\ InSlots \in Nat /\ OutSlots \in Nat /\ MaxMail \in Nat /\ MaxFaults \in Nat
  /\ \A o \in Offers :
       /\ o.party \in Party /\ o.part \in Parts \cup {"offsets"} /\ o.index \in Nat \ {0}
       /\ o.part = "offsets" => o.index = 1
       /\ o.part = "in_slots" => o.index <= InSlots
       /\ o.part = "out_slots" => o.index <= OutSlots
       /\ IsMap(o.fields, FieldsOf(o.part))
  /\ \A o1, o2 \in Offers :
       o1.part = o2.part /\ o1.index = o2.index =>
         /\ o1.party = o2.party
         /\ \A f \in DOMAIN o1.fields \cap DOMAIN o2.fields : o1.fields[f] = o2.fields[f]

VARIABLES
  copy,    \* copy[p]: the MWEB part of p's Psbt
  mail,    \* the messages in flight: [from, to, copy]
  faults   \* losses and duplications so far

mwebVars == <<copy, mail, faults>>

\* Psbt::from_unsigned_tx makes one default map per slot and no other.
FreshCopy ==
  [offsets |-> Default, kernels |-> << >>, inputs |-> << >>, outputs |-> << >>,
   in_slots |-> [i \in 1 .. InSlots |-> Default],
   out_slots |-> [i \in 1 .. OutSlots |-> Default]]

MwebInit ==
  /\ copy = [p \in Party |-> FreshCopy]
  /\ mail = {}
  /\ faults = 0

-----------------------------------------------------------------------------
\* The map an offer writes to.
Target(c, o) == IF o.part = "offsets" THEN c.offsets ELSE MapAt(c[o.part], o.index)

\* The offers a signature waits for: all others for the same map.
Others(o) ==
  {x \in Offers \ {o} : x.part = o.part /\ x.index = o.index}

Written(c, o) == DOMAIN o.fields \subseteq DOMAIN Target(c, o)

\* The copy once the offer is written to its map.
WithOffer(c, o) ==
  LET map == Merge(o.fields, Target(c, o))
      maps == c[o.part]
  IN  [c EXCEPT ![o.part] =
         IF o.part = "offsets" THEN map
         ELSE [i \in DOMAIN maps \cup 1 .. o.index |->
                 IF i = o.index THEN map ELSE MapAt(maps, i)]]

WriteMap(p, o) ==
  /\ o.party = p
  /\ ~Written(copy[p], o)
  /\ "signature" \in DOMAIN o.fields => \A x \in Others(o) : Written(copy[p], x)
  /\ copy' = [copy EXCEPT ![p] = WithOffer(copy[p], o)]
  /\ UNCHANGED <<mail, faults>>

Send(p, q) ==
  /\ p # q
  /\ Cardinality(mail) < MaxMail
  /\ mail' = mail \cup {[from |-> p, to |-> q, copy |-> Transit(copy[p])]}
  /\ UNCHANGED <<copy, faults>>

Combine(m) == copy' = [copy EXCEPT ![m.to] = CombineMweb(copy[m.to], m.copy)]

Receive(m) ==
  /\ m \in mail
  /\ mail' = mail \ {m}
  /\ Combine(m)
  /\ UNCHANGED faults

\* The message is delivered and a duplicate of it stays in flight.
ReceiveAgain(m) ==
  /\ m \in mail
  /\ faults < MaxFaults
  /\ faults' = faults + 1
  /\ Combine(m)
  /\ UNCHANGED mail

Lose(m) ==
  /\ m \in mail
  /\ faults < MaxFaults
  /\ faults' = faults + 1
  /\ mail' = mail \ {m}
  /\ UNCHANGED copy

MwebNext ==
  \/ \E p \in Party : (\E o \in Offers : WriteMap(p, o)) \/ (\E q \in Party : Send(p, q))
  \/ \E m \in mail : Receive(m) \/ ReceiveAgain(m) \/ Lose(m)

MwebSpec == MwebInit /\ [][MwebNext]_mwebVars

-----------------------------------------------------------------------------
(* The properties.                                                         *)

Copies == {copy[p] : p \in Party} \cup {m.copy : m \in mail}

\* In every copy, held or in flight, a map that has its signature also has
\* every typed field its writer gave it, so a signature never arrives without
\* what it signs: the global pairs carry each field to the same map, and combine
\* takes over all of them (get_pairs, decode_global, MwebKernel::combine...).
SignedMapsWhole ==
  \A c \in Copies : \A o \in Offers :
    "signature" \in DOMAIN Target(c, o) =>
      \A f \in DOMAIN o.fields \ {"unknowns"} :
        f \in DOMAIN Target(c, o) /\ Target(c, o)[f] = o.fields[f]

\* A transaction that can be extracted from a copy is the one its receiver
\* extracts from what arrives, although maps without fields at the end of a
\* vector and unknown pairs of kernels do not (Psbt::extract_tx_with_mweb
\* after serialize and deserialize).
PortableTx ==
  \A p \in Party :
    Assembles(copy[p]) => /\ Assembles(Transit(copy[p]))
                          /\ AssembleMwTx(Transit(copy[p])) = AssembleMwTx(copy[p])

\* A copy travels whole: its signed maps, and the transaction it stands for.
MapsTravel == SignedMapsWhole /\ PortableTx

\* The vectors the transaction is taken from stay the same.
SameSource(c, d) ==
  /\ Source(c.inputs, c.in_slots, "output_id") = Source(d.inputs, d.in_slots, "output_id")
  /\ Source(c.outputs, c.out_slots, "commit") = Source(d.outputs, d.out_slots, "commit")

\* s is where t starts.
StartOf(s, t) == Len(s) <= Len(t) /\ SubSeq(t, 1, Len(s)) = s

\* Once a party can extract a transaction, what is written and combined later
\* adds inputs, outputs and kernels at the end and changes none, as long as
\* the transaction is taken from the same vectors.
ExtractedStable ==
  [][\A p \in Party :
       Assembles(copy[p]) /\ Assembles(copy'[p]) /\ SameSource(copy[p], copy'[p]) =>
         LET old == AssembleMwTx(copy[p])
             new == AssembleMwTx(copy'[p])
         IN  /\ new.offsets = old.offsets
             /\ StartOf(old.inputs, new.inputs)
             /\ StartOf(old.outputs, new.outputs)
             /\ StartOf(old.kernels, new.kernels)]_mwebVars

-----------------------------------------------------------------------------
(* The exchange of MWEB maps implements PsbtKnowledge.                     *)

\* A fact is that a map has a field.  Unknown pairs of kernels are no facts:
\* the global pairs have no place for them.
Fact ==
  UNION {{[part |-> o.part, index |-> o.index, field |-> f] :
            f \in DOMAIN o.fields \ {"unknowns"}} : o \in Offers}

FactsOf(c) == {fact \in Fact : fact.field \in DOMAIN Target(c, fact)}

knowsBar == [p \in Party |-> FactsOf(copy[p])]
postBar == {[from |-> m.from, to |-> m.to, facts |-> FactsOf(m.copy)] : m \in mail}

Knowledge == INSTANCE PsbtKnowledge WITH knows <- knowsBar, post <- postBar

\* Whatever is lost, duplicated or overtaken, no copy loses an MWEB field,
\* and a received copy is merged entirely, at the index it was written to.
ImplementsKnowledge == Knowledge!KSpec

-----------------------------------------------------------------------------
(* A statement of the documentation that the code contradicts.             *)

\* "use [`Self::to_kv_pairs`] for full fidelity" (MwebKernel::to_pairs).
FullFidelity ==
  \A p \in Party : \A i \in DOMAIN copy[p].kernels :
    WireKernel(MapAt(Transit(copy[p]).kernels, i)) = WireKernel(copy[p].kernels[i])
=============================================================================
