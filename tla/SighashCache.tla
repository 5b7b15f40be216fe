---------------------------- MODULE SighashCache ----------------------------
(***************************************************************************)
(* What the signature hashes of crypto/sighash.rs commit to.  A hash is a  *)
(* record of the data that went in and how often it was hashed, so equal   *)
(* hashes are hashes of equal data.  Input indices start at 0, sequences   *)
(* at 1.  Sighash types are their numbers; adding 128 is ANYONECANPAY.     *)
(***************************************************************************)
EXTENDS Integers, Sequences, FiniteSets

\* struct TxIn and struct Transaction; scripts, witnesses, outputs and the
\* MWEB part are numbers.
TxIn == [previous_output : Int, sequence : Int, script_sig : Int, witness : Int]
Transaction == [version : Int, lock_time : Int, mw_tx : Int,
                input : Seq(TxIn), output : Seq(Int)]

All == 1
None == 2
Single == 3
EcdsaSighashType == {1, 2, 3, 129, 130, 131}
TapSighashType == {0} \cup EcdsaSighashType

\* split_anyonecanpay_flag
Base(type) == type % 128
AnyoneCanPay(type) == type >= 128

\* EcdsaSighashType::from_consensus: n & 0x9f, with catch-alls.
FromConsensus(n) ==
  LET masked == (n % 32) + 128 * ((n \div 128) % 2)
  IN  IF masked \in EcdsaSighashType THEN masked
      ELSE IF masked >= 128 THEN 128 + All ELSE All

Sha256(data) == [rounds |-> 1, data |-> data]
HashAgain(h) == [h EXCEPT !.rounds = @ + 1]
Sha256d(data) == HashAgain(Sha256(data))
ZeroHash == [rounds |-> 0, data |-> <<>>]

InputExists(tx, index) == index < Len(tx.input)
OutputExists(tx, index) == index < Len(tx.output)
Input(tx, index) == tx.input[index + 1]

\* common_cache_minimal_borrow, segwit_cache and taproot_cache when they are
\* still to be filled.
CommonOf(tx) ==
  [prevouts |-> Sha256([i \in DOMAIN tx.input |-> tx.input[i].previous_output]),
   sequences |-> Sha256([i \in DOMAIN tx.input |-> tx.input[i].sequence]),
   outputs |-> Sha256(tx.output)]

SegwitOf(common) ==
  [prevouts |-> HashAgain(common.prevouts), sequences |-> HashAgain(common.sequences),
   outputs |-> HashAgain(common.outputs)]

TaprootOf(utxos) ==
  [amounts |-> Sha256([i \in DOMAIN utxos |-> utxos[i].value]),
   script_pubkeys |-> Sha256([i \in DOMAIN utxos |-> utxos[i].script_pubkey])]

-----------------------------------------------------------------------------
\* Prevouts::All is [at |-> {}, utxos |-> all of them], Prevouts::One(i, utxo)
\* is [at |-> {i}, utxos |-> <<utxo>>].
IsAll(prevouts) == prevouts.at = {}
GetFails(prevouts, index) ==
  IF IsAll(prevouts) THEN index >= Len(prevouts.utxos) ELSE prevouts.at # {index}
Get(prevouts, index) == prevouts.utxos[IF IsAll(prevouts) THEN index + 1 ELSE 1]

CheckAll(prevouts, tx) == IsAll(prevouts) => Len(prevouts.utxos) = Len(tx.input)

\* The first check that fails in taproot_encode_signing_data_to, "" if none.
TaprootError(tx, call) ==
  LET acp == AnyoneCanPay(call.type)
  IN  CASE ~CheckAll(call.prevouts, tx) -> "PrevoutsSize"
        [] CheckAll(call.prevouts, tx) /\ ~acp /\ ~IsAll(call.prevouts) -> "PrevoutsKind"
        [] CheckAll(call.prevouts, tx) /\ acp /\ ~InputExists(tx, call.index) -> "InputsIndex"
        [] /\ CheckAll(call.prevouts, tx) /\ acp /\ InputExists(tx, call.index)
           /\ GetFails(call.prevouts, call.index) -> "PrevoutsIndex"
        [] OTHER -> IF Base(call.type) = Single /\ ~OutputExists(tx, call.index)
                    THEN "SingleMissingOutput" ELSE ""

\* The data taproot_encode_signing_data_to writes; what a sighash type leaves
\* out is ZeroHash or an empty set, which the type byte tells apart.
TaprootMessage(tx, call, common, taproot) ==
  LET acp == AnyoneCanPay(call.type)
      base == Base(call.type)
      Unless(cond, hash) == IF cond THEN ZeroHash ELSE hash
  IN  [type |-> call.type, version |-> tx.version, lock_time |-> tx.lock_time,
       prevouts |-> Unless(acp, common.prevouts),
       amounts |-> Unless(acp, taproot.amounts),
       script_pubkeys |-> Unless(acp, taproot.script_pubkeys),
       sequences |-> Unless(acp, common.sequences),
       outputs |-> Unless(base \in {None, Single}, common.outputs),
       spend_type |-> Cardinality(call.annex) + 2 * Cardinality(call.leaf),
       this |-> IF acp
                THEN {[previous_output |-> Input(tx, call.index).previous_output,
                       utxo |-> Get(call.prevouts, call.index),
                       sequence |-> Input(tx, call.index).sequence]}
                ELSE {},
       index |-> IF acp THEN {} ELSE {call.index},
       annex |-> call.annex,
       single |-> Unless(base # Single, Sha256(SubSeq(tx.output, call.index + 1, call.index + 1))),
       leaf |-> call.leaf]

-----------------------------------------------------------------------------
\* p2wpkh_signature_hash and segwit_v0_encode_signing_data_to.
SegwitError(tx, call) == IF InputExists(tx, call.index) THEN "" ELSE "InputsIndex"

SegwitMessage(tx, call, segwit) ==
  LET acp == AnyoneCanPay(call.type)
      base == Base(call.type)
  IN  [version |-> tx.version,
       prevouts |-> IF acp THEN ZeroHash ELSE segwit.prevouts,
       sequences |-> IF acp \/ base \in {None, Single} THEN ZeroHash ELSE segwit.sequences,
       previous_output |-> Input(tx, call.index).previous_output,
       script_code |-> call.script, value |-> call.value,
       sequence |-> Input(tx, call.index).sequence,
       outputs |-> IF base \notin {None, Single} THEN segwit.outputs
                   ELSE IF base = Single /\ OutputExists(tx, call.index)
                   THEN Sha256d(<<tx.output[call.index + 1]>>) ELSE ZeroHash,
       lock_time |-> tx.lock_time, type |-> call.type]

-----------------------------------------------------------------------------
NullOutput == -1
NoScript == 0

LegacyError(tx, call) == IF InputExists(tx, call.index) THEN "" ELSE "InputsIndex"

\* is_invalid_use_of_sighash_single: the hash is then the number one.
SingleBug(tx, call) ==
  Base(FromConsensus(call.type)) = Single /\ ~OutputExists(tx, call.index)

\* A mutant: the sequences of the other inputs stay for NONE and SINGLE.
LegacySequenceKept(tx, call, i) == tx.input[i].sequence

LegacySequence(tx, call, i) ==
  IF i # call.index + 1 /\ Base(FromConsensus(call.type)) \in {None, Single}
  THEN 0 ELSE tx.input[i].sequence

LegacyType(n) == n

\* encode_signing_data_to_inner: the transaction that is hashed.
LegacyMessage(tx, call) ==
  LET type == FromConsensus(call.type)
      Signed(i) == [previous_output |-> tx.input[i].previous_output,
                    script_sig |-> IF i = call.index + 1 THEN call.script ELSE NoScript,
                    sequence |-> LegacySequence(tx, call, i)]
      bug == SingleBug(tx, call)
  IN  IF bug THEN [bug |-> TRUE]
      ELSE [bug |-> FALSE, version |-> tx.version, lock_time |-> tx.lock_time,
            input |-> IF AnyoneCanPay(type) THEN <<Signed(call.index + 1)>>
                      ELSE [i \in DOMAIN tx.input |-> Signed(i)],
            output |-> CASE Base(type) = All -> tx.output
                         [] Base(type) = None -> <<>>
                         [] Base(type) = Single ->
                              [j \in 1 .. call.index + 1 |->
                                 IF j = call.index + 1 THEN tx.output[j] ELSE NullOutput],
            type |-> LegacyType(call.type)]
-----------------------------------------------------------------------------
(***************************************************************************)
(* SighashCache: signature hashes of one transaction, computed over hashes *)
(* that the first call that needs them leaves in the cache.  Each cache is *)
(* an Option, as a set of at most one element.  The calls of a caller come *)
(* in any order, with wrong indices, too few prevouts, one prevout where   *)
(* all are needed, or other prevouts than an earlier call had.  Between    *)
(* calls witnesses may change (witness_mut); to change anything else the   *)
(* caller has to take the transaction out and make a new cache.            *)
(***************************************************************************)

CONSTANTS
  Txs,        \* transactions a cache is made for
  Calls       \* Calls[n]: the calls made on the cache of a transaction with n inputs

\* What a caller passes; a kind of call leaves the arguments it does not have empty.
TxOut == [value : Int, script_pubkey : Int]
SighashCall ==
  [kind : {"taproot", "segwit", "legacy"}, index : Nat, type : Nat, script : Int, value : Int,
   annex : SUBSET Int, leaf : SUBSET Int, prevouts : [at : SUBSET Nat, utxos : Seq(TxOut)]]
IsCall(call) ==
  /\ call \in SighashCall
  /\ \/ IsAll(call.prevouts)
     \/ Len(call.prevouts.utxos) = 1 /\ \E i \in call.prevouts.at : call.prevouts.at = {i}
  /\ call.kind = "taproot" => call.type \in TapSighashType /\ call.script = NoScript /\ call.value = 0
  /\ call.kind = "segwit" => call.type \in EcdsaSighashType
  /\ call.kind = "legacy" => call.value = 0
  /\ call.kind # "taproot" => call.annex = {} /\ call.leaf = {}

\* No transaction spends an output twice.
ASSUME SighashConstants ==
  /\ \A t \in Txs : t \in Transaction /\ t.input # <<>> /\ Len(t.input) \in DOMAIN Calls
  /\ \A t \in Txs : \A i, j \in DOMAIN t.input :
       t.input[i].previous_output = t.input[j].previous_output => i = j
  /\ \A n \in DOMAIN Calls : \A call \in Calls[n] : IsCall(call)

VARIABLES
  tx,            \* SighashCache.tx
  common_cache, segwit_cache, taproot_cache,
  shown,         \* the prevouts of the first call that needed all of them
  last           \* the last call and how it ended; {} before the first

vars == <<tx, common_cache, segwit_cache, taproot_cache, shown, last>>

\* new
Init ==
  /\ tx \in Txs
  /\ common_cache = {} /\ segwit_cache = {} /\ taproot_cache = {}
  /\ shown = {}
  /\ last = {}

\* get_or_insert_with
GetOrInsert(cache, value) == IF cache = {} THEN {value} ELSE cache

Return(call, error, message) ==
  last' = {[call |-> call, error |-> error,
            message |-> IF error = "" THEN {message} ELSE {}]}

UsesAll(call) == call.kind = "taproot" /\ ~AnyoneCanPay(call.type)

\* A mutant: the hashes of the prevouts are made whatever they are needed for.
FillsTaprootEarly(call, error) == error # "PrevoutsSize"

\* taproot_cache is called once get_all has returned all prevouts.
FillsTaproot(call, error) ==
  ~AnyoneCanPay(call.type) /\ error \notin {"PrevoutsSize", "PrevoutsKind"}

\* taproot_encode_signing_data_to.  The common cache is filled before the
\* kind of the prevouts is checked, and for the outputs before the index is.
TaprootSignatureHash(call) ==
  LET error == TaprootError(tx, call)
      acp == AnyoneCanPay(call.type)
      common == GetOrInsert(common_cache, CommonOf(tx))
      taproot == GetOrInsert(taproot_cache, TaprootOf(call.prevouts.utxos))
  IN  /\ call.kind = "taproot"
      /\ common_cache' = IF error = "PrevoutsSize" \/ (acp /\ Base(call.type) \in {None, Single})
                         THEN common_cache ELSE common
      /\ taproot_cache' = IF FillsTaproot(call, error) THEN taproot ELSE taproot_cache
      /\ shown' = IF UsesAll(call) /\ error \in {"", "SingleMissingOutput"}
                  THEN GetOrInsert(shown, call.prevouts.utxos) ELSE shown
      /\ \E c \in common, t \in taproot : Return(call, error, TaprootMessage(tx, call, c, t))
      /\ UNCHANGED <<tx, segwit_cache>>

\* p2wsh_signature_hash; the caches are filled for the prevouts before the
\* index is checked, and for the outputs after.
SegwitSignatureHash(call) ==
  LET error == SegwitError(tx, call)
      acp == AnyoneCanPay(call.type)
      fills == ~acp \/ (error = "" /\ Base(call.type) \notin {None, Single})
      common == IF segwit_cache = {} THEN GetOrInsert(common_cache, CommonOf(tx))
                ELSE common_cache
      segwit == GetOrInsert(segwit_cache, SegwitOf(CHOOSE c \in common : TRUE))
  IN  /\ call.kind = "segwit"
      /\ common_cache' = IF fills THEN common ELSE common_cache
      /\ segwit_cache' = IF fills THEN segwit ELSE segwit_cache
      /\ \E s \in segwit : Return(call, error, SegwitMessage(tx, call, s))
      /\ UNCHANGED <<tx, taproot_cache, shown>>

\* legacy_signature_hash has no cache.
LegacySignatureHash(call) ==
  /\ call.kind = "legacy"
  /\ Return(call, LegacyError(tx, call), LegacyMessage(tx, call))
  /\ UNCHANGED <<tx, common_cache, segwit_cache, taproot_cache, shown>>

\* witness_mut
WitnessMut(index) ==
  /\ InputExists(tx, index)
  /\ tx' = [tx EXCEPT !.input[index + 1].witness = 1 - @]
  /\ UNCHANGED <<common_cache, segwit_cache, taproot_cache, shown, last>>

\* into_transaction, a change by the caller, and new.
Renew(t) ==
  /\ tx' = t
  /\ common_cache' = {} /\ segwit_cache' = {} /\ taproot_cache' = {}
  /\ shown' = {} /\ last' = {}

Next ==
  \/ \E call \in Calls[Len(tx.input)] : \/ TaprootSignatureHash(call)
                                        \/ SegwitSignatureHash(call)
                                        \/ LegacySignatureHash(call)
  \/ \E index \in 0 .. Len(tx.input) : WitnessMut(index)
  \/ \E t \in Txs : Renew(t)

Spec == Init /\ [][Next]_vars

-----------------------------------------------------------------------------
\* The caches are Options, and a segwit cache is made from a common cache.
TypeOK ==
  /\ tx.input # <<>>
  /\ {Cardinality(common_cache), Cardinality(segwit_cache), Cardinality(taproot_cache),
      Cardinality(shown), Cardinality(last)} \subseteq 0 .. 1
  /\ segwit_cache # {} => common_cache # {}
  /\ taproot_cache # {} <=> shown # {}
  /\ \A l \in last : l.call \in Calls[Len(tx.input)] /\ (l.error = "" <=> l.message # {})

\* How a call ends on a cache that was just made for transaction t.
Fresh(t, call) ==
  LET error == CASE call.kind = "taproot" -> TaprootError(t, call)
                 [] call.kind = "segwit" -> SegwitError(t, call)
                 [] call.kind = "legacy" -> LegacyError(t, call)
      message == CASE call.kind = "taproot" ->
                        TaprootMessage(t, call, CommonOf(t), TaprootOf(call.prevouts.utxos))
                   [] call.kind = "segwit" -> SegwitMessage(t, call, SegwitOf(CommonOf(t)))
                   [] call.kind = "legacy" -> LegacyMessage(t, call)
  IN  [error |-> error, message |-> IF error = "" THEN {message} ELSE {}]

\* Whatever was called before, failed or not, and whatever happened to the
\* witnesses since, a call ends as on a new cache: with the same error or with
\* the same hash.  The one exception is a call for a taproot hash over all
\* prevouts that passes other prevouts than the first such call did.
CacheTransparent ==
  \A l \in last :
    LET fresh == Fresh(tx, l.call)
    IN  /\ l.error = fresh.error
        /\ (UsesAll(l.call) /\ l.error = "" => shown = {l.call.prevouts.utxos})
           => l.message = fresh.message

-----------------------------------------------------------------------------
\* Single changes to the transaction and to the outputs it spends.
Changes(t) ==
  ({"version", "lock_time", "mw_tx", "add_input", "add_output"} \X {0})
  \cup ({"previous_output", "sequence", "script_sig", "witness", "value", "script_pubkey"}
          \X (0 .. Len(t.input) - 1))
  \cup ({"output"} \X (0 .. Len(t.output) - 1))

Other(x) == x + 100
SpentFields == {"value", "script_pubkey"}

ChangedTx(t, change) ==
  LET field == change[1]
      at == change[2] + 1
  IN  CASE field \in {"version", "lock_time", "mw_tx"} -> [t EXCEPT ![field] = Other(@)]
        [] field = "add_input" -> [t EXCEPT !.input = Append(@, [t.input[1] EXCEPT !.previous_output = Other(@)])]
        [] field = "add_output" -> [t EXCEPT !.output = Append(@, 0)]
        [] field = "output" -> [t EXCEPT !.output[at] = Other(@)]
        [] field \in SpentFields -> t
        [] OTHER -> [t EXCEPT !.input[at][field] = Other(@)]

\* The caller shows the prevouts of the changed transaction.
ChangedCall(call, change) ==
  LET field == change[1]
      at == change[2] + 1
      utxos == call.prevouts.utxos
  IN  IF field = "add_input" /\ IsAll(call.prevouts)
      THEN [call EXCEPT !.prevouts.utxos = Append(@, utxos[1])]
      ELSE IF field \in SpentFields /\ (IsAll(call.prevouts) \/ call.prevouts.at = {change[2]})
      THEN [call EXCEPT !.prevouts.utxos[IF IsAll(call.prevouts) THEN at ELSE 1][field] = Other(@)]
      ELSE call

\* What a signature of a sighash type is to cover, from the documentation of
\* the types: all inputs or only this one, all outputs, none or the one with
\* the input's index, the other inputs' sequences only with all outputs (but
\* always for taproot), and with taproot the outputs that are spent.
Covered(t, call, change) ==
  LET field == change[1]
      this == change[2] = call.index
      type == IF call.kind = "legacy" THEN FromConsensus(call.type) ELSE call.type
      acp == AnyoneCanPay(type)
      base == Base(type)
      allOutputs == base \notin {None, Single}
  IN  CASE field \in {"mw_tx", "script_sig", "witness"} -> FALSE
        [] field = "add_output" -> allOutputs \/ (base = Single /\ Len(t.output) = call.index)
        [] field \notin {"mw_tx", "script_sig", "witness", "add_output"} ->
             /\ call.kind = "legacy" => ~SingleBug(t, call)
             /\ CASE field \in {"version", "lock_time"} -> TRUE
                  [] field = "add_input" -> ~acp
                  [] field = "output" -> allOutputs \/ (base = Single /\ this)
                  [] field = "previous_output" -> ~acp \/ this
                  [] field = "sequence" ->
                       this \/ (~acp /\ (call.kind = "taproot" \/ allOutputs))
                  [] field \in SpentFields -> call.kind = "taproot" /\ (~acp \/ this)

\* A signature hash changes with everything its type covers and with nothing
\* else: not with witnesses, script_sigs or the MWEB part of the transaction.
CommitsExactly ==
  \A l \in last : l.error = "" =>
    \A change \in Changes(tx) :
      LET now == Fresh(tx, l.call)
          then == Fresh(ChangedTx(tx, change), ChangedCall(l.call, change))
      IN  now.message # then.message <=> Covered(tx, l.call, change)

Asked(call) == <<call.index, call.type, call.script, call.value, call.annex, call.leaf>>

\* An empty script does not mark the input that a legacy hash over all inputs is for.
Unmarked(call) == call.script = NoScript /\ FromConsensus(call.type) \in {All, None}

\* Two calls for different inputs, sighash types, scripts or leaves never give
\* the same hash, even for types that are understood alike; only the number
\* one that stands for the SIGHASH_SINGLE bug is shared, and the legacy hash of
\* inputs with empty scripts.
HashesDistinct ==
  \A l \in last : \A message \in l.message :
    \A call \in Calls[Len(tx.input)] :
      call.kind = l.call.kind /\ Asked(call) # Asked(l.call) =>
        \/ message \notin Fresh(tx, call).message
        \/ call.kind = "legacy" /\ SingleBug(tx, call) /\ SingleBug(tx, l.call)
        \/ /\ call.kind = "legacy" /\ call.type = l.call.type
           /\ Unmarked(call) /\ Unmarked(l.call)

\* Two signature hashes are equal just where they sign for the same thing: a
\* change of anything else, in the transaction or in the call, changes none
\* (the encode functions of SighashCache).
HashesBind == CommitsExactly /\ HashesDistinct
=============================================================================
