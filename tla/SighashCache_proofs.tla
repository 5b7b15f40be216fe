------------------------- MODULE SighashCache_proofs -------------------------
(***************************************************************************)
(* For every set of transactions and calls: the caches of SighashCache     *)
(* never show in a result, and each signature hash commits to what its     *)
(* type is to cover.                                                       *)
(***************************************************************************)
EXTENDS SighashCache, Induction

-----------------------------------------------------------------------------
(***************************************************************************)
(* The cache never shows, for every set of transactions and calls.  The    *)
(* inductive invariant says what each cache holds: the hashes of the       *)
(* transaction as it is, and those of the prevouts shown first.            *)
(***************************************************************************)

CachesRight ==
  /\ tx \in Transaction /\ Len(tx.input) \in DOMAIN Calls
  /\ \A l \in last : IsCall(l.call)
  /\ common_cache \in {{}, {CommonOf(tx)}}
  /\ segwit_cache \in {{}, {SegwitOf(CommonOf(tx))}}
  /\ segwit_cache # {} => common_cache # {}
  /\ taproot_cache = {TaprootOf(u) : u \in shown}
  /\ \A u, v \in shown : u = v

-----------------------------------------------------------------------------
\* The fields of a call.
LEMMA CallShape ==
  ASSUME NEW call, IsCall(call)
  PROVE  /\ call.index \in Nat /\ call.type \in Nat /\ call.kind \in {"taproot", "segwit", "legacy"}
         /\ call.prevouts.utxos \in Seq(TxOut)
BY Zenon DEF IsCall, SighashCall

LEMMA TxShape ==
  ASSUME NEW t \in Transaction
  PROVE  /\ t.input \in Seq(TxIn) /\ Len(t.input) \in Nat
         /\ t.output \in Seq(Int) /\ Len(t.output) \in Nat
BY DEF Transaction

\* Transactions that differ in witnesses, script_sigs or the MWEB part only.
SameToSign(t, t2) ==
  /\ t2.version = t.version /\ t2.lock_time = t.lock_time
  /\ t2.output = t.output
  /\ DOMAIN t2.input = DOMAIN t.input /\ Len(t2.input) = Len(t.input)
  /\ \A j \in DOMAIN t.input : /\ t2.input[j].previous_output = t.input[j].previous_output
                               /\ t2.input[j].sequence = t.input[j].sequence

\* witness_mut makes such a change.
LEMMA WitnessChange ==
  ASSUME NEW t \in Transaction, NEW i \in DOMAIN t.input, NEW w \in Int, NEW t2,
         t2 = [t EXCEPT !.input[i].witness = w]
  PROVE  t2 \in Transaction /\ SameToSign(t, t2)
<1> DEFINE txin == [t.input[i] EXCEPT !.witness = w]
           ins == [t.input EXCEPT ![i] = txin]
<1>1. t.input \in Seq(TxIn) /\ t.input[i] \in TxIn
  BY DEF Transaction
<1>2. /\ txin \in TxIn
      /\ txin.previous_output = t.input[i].previous_output
      /\ txin.sequence = t.input[i].sequence
  BY <1>1, Zenon DEF TxIn
<1> HIDE DEF txin
<1>3. ins \in Seq(TxIn) /\ DOMAIN ins = DOMAIN t.input /\ Len(ins) = Len(t.input)
  BY <1>1, <1>2
<1>4. \A j \in DOMAIN t.input : ins[j] = IF j = i THEN txin ELSE t.input[j]
  BY <1>1, Zenon
<1> HIDE DEF ins
<1>5. t2 = [t EXCEPT !.input = ins]
  BY Zenon DEF ins, txin
<1>6. /\ t2 \in Transaction /\ t2.input = ins
      /\ t2.version = t.version /\ t2.lock_time = t.lock_time /\ t2.output = t.output
  BY <1>3, <1>5, Zenon DEF Transaction
<1> QED BY <1>2, <1>3, <1>4, <1>6, Zenon DEF SameToSign

\* When taproot_encode_signing_data_to succeeds.
TaprootOk(t, call) ==
  /\ CheckAll(call.prevouts, t)
  /\ ~AnyoneCanPay(call.type) => IsAll(call.prevouts)
  /\ AnyoneCanPay(call.type) =>
       InputExists(t, call.index) /\ ~GetFails(call.prevouts, call.index)
  /\ Base(call.type) = Single => OutputExists(t, call.index)

LEMMA TaprootSucceeds ==
  ASSUME NEW t, NEW call
  PROVE  TaprootError(t, call) = "" <=> TaprootOk(t, call)
BY Zenon DEF TaprootError, TaprootOk

\* They have the same taproot messages, whatever the caches hold.
TaprootSame(t, t2, call) ==
  \A c, p : TaprootMessage(t2, call, c, p) = TaprootMessage(t, call, c, p)

LEMMA SameTaproot ==
  ASSUME NEW t \in Transaction, NEW t2 \in Transaction, SameToSign(t, t2),
         NEW call, IsCall(call), TaprootOk(t, call)
  PROVE  TaprootSame(t, t2, call)
<1>1. InputExists(t, call.index) =>
        /\ Input(t2, call.index).previous_output = Input(t, call.index).previous_output
        /\ Input(t2, call.index).sequence = Input(t, call.index).sequence
  BY CallShape, TxShape DEF InputExists, Input, SameToSign
<1>2. AnyoneCanPay(call.type) => InputExists(t, call.index)
  BY Zenon DEF TaprootOk
<1> QED BY <1>1, <1>2, Zenon DEF TaprootMessage, SameToSign, TaprootSame

\* They have the same hashes, and every call ends the same way on them.
LEMMA SameMessages ==
  ASSUME NEW t \in Transaction, NEW t2 \in Transaction, SameToSign(t, t2),
         NEW call, IsCall(call)
  PROVE  CommonOf(t2) = CommonOf(t) /\ Fresh(t2, call) = Fresh(t, call)
<1>1. CommonOf(t2) = CommonOf(t)
  BY Zenon DEF CommonOf, SameToSign
<1>2. /\ InputExists(t2, call.index) = InputExists(t, call.index)
      /\ OutputExists(t2, call.index) = OutputExists(t, call.index)
      /\ CheckAll(call.prevouts, t2) = CheckAll(call.prevouts, t)
      /\ SingleBug(t2, call) = SingleBug(t, call)
  BY CallShape, Zenon DEF InputExists, OutputExists, CheckAll, SingleBug, SameToSign
<1>3. TaprootError(t2, call) = TaprootError(t, call)
  BY <1>2, Zenon DEF TaprootError
<1>4. InputExists(t, call.index) =>
        /\ Input(t2, call.index).previous_output = Input(t, call.index).previous_output
        /\ Input(t2, call.index).sequence = Input(t, call.index).sequence
  BY CallShape, SMTT(40) DEF InputExists, Input, Transaction, SameToSign
<1>5. TaprootError(t, call) = "" => TaprootOk(t, call)
  BY TaprootSucceeds, Zenon
<1>6. TaprootOk(t, call) => TaprootSame(t, t2, call)
  BY SameTaproot, Zenon
<1>7. ASSUME NEW s, InputExists(t, call.index)
      PROVE  SegwitMessage(t2, call, s) = SegwitMessage(t, call, s)
  BY <1>2, <1>4, <1>7, Zenon DEF SegwitMessage, SameToSign
<1>8. ASSUME InputExists(t, call.index)
      PROVE  LegacyMessage(t2, call) = LegacyMessage(t, call)
  <2>1. call.index + 1 \in DOMAIN t.input
    BY <1>8, CallShape DEF InputExists, Transaction
  <2>2. \A i \in DOMAIN t.input : LegacySequence(t2, call, i) = LegacySequence(t, call, i)
    BY Zenon DEF LegacySequence, SameToSign
  <2> QED BY <1>2, <2>1, <2>2, Zenon DEF LegacyMessage, SameToSign
<1>9. /\ SegwitError(t2, call) = SegwitError(t, call)
      /\ LegacyError(t2, call) = LegacyError(t, call)
      /\ SegwitError(t, call) = "" => InputExists(t, call.index)
      /\ LegacyError(t, call) = "" => InputExists(t, call.index)
  BY <1>2, Zenon DEF SegwitError, LegacyError
<1> QED
  <2>1. CASE call.kind = "taproot"
    BY <2>1, <1>1, <1>3, <1>5, <1>6, Zenon DEF Fresh, TaprootSame
  <2>2. CASE call.kind = "segwit"
    BY <2>2, <1>1, <1>7, <1>9, Zenon DEF Fresh
  <2>3. CASE call.kind = "legacy"
    BY <2>3, <1>1, <1>8, <1>9, Zenon DEF Fresh
  <2> QED BY <1>1, <2>1, <2>2, <2>3, CallShape, Zenon

-----------------------------------------------------------------------------
\* The invariant holds at first: the caches of a new SighashCache are empty.
LEMMA InitRight == Init => CachesRight /\ CacheTransparent
BY SighashConstants, Zenon DEF Init, CachesRight, CacheTransparent

\* The fields of the one result a call leaves.
LEMMA OneResult ==
  ASSUME NEW c, NEW e, NEW m, last' = {[call |-> c, error |-> e, message |-> m]}
  PROVE  \A l \in last' : l.call = c /\ l.error = e /\ l.message = m
OBVIOUS

\* What is to be shown of a call that leaves this error and message.
LEMMA ReturnTransparent ==
  ASSUME NEW call, NEW error, NEW message,
         last' = {[call |-> call, error |-> error, message |-> message]},
         error = Fresh(tx', call).error,
         (UsesAll(call) /\ error = "" => shown' = {call.prevouts.utxos})
           => message = Fresh(tx', call).message
  PROVE  CacheTransparent'
<1>1. \A l \in last' : l.call = call /\ l.error = error /\ l.message = message
  BY OneResult, Zenon
<1> QED BY <1>1, Zenon DEF CacheTransparent

\* taproot_signature_hash keeps the invariant: a hash over all prevouts is made
\* from the prevouts shown first, any other does not use them.
LEMMA TaprootStep ==
  ASSUME CachesRight, CacheTransparent, NEW call, IsCall(call), TaprootSignatureHash(call)
  PROVE  CachesRight' /\ CacheTransparent'
<1> DEFINE error == TaprootError(tx, call)
           common == GetOrInsert(common_cache, CommonOf(tx))
           taproot == GetOrInsert(taproot_cache, TaprootOf(call.prevouts.utxos))
<1>1. common = {CommonOf(tx)}
  BY Zenon DEF GetOrInsert, CachesRight
<1>2. FillsTaproot(call, error) <=> (UsesAll(call) /\ error \in {"", "SingleMissingOutput"})
  BY Zenon DEF FillsTaproot, UsesAll, TaprootError, TaprootSignatureHash
<1>3. taproot = {TaprootOf(u) : u \in GetOrInsert(shown, call.prevouts.utxos)}
  BY DEF GetOrInsert, CachesRight
<1>4. ASSUME NEW t, ~UsesAll(call)
      PROVE  TaprootMessage(tx, call, CommonOf(tx), t)
               = TaprootMessage(tx, call, CommonOf(tx), TaprootOf(call.prevouts.utxos))
  BY <1>4, Zenon DEF TaprootMessage, UsesAll, TaprootSignatureHash
<1>5. PICK t \in taproot :
        last' = {[call |-> call, error |-> error,
                  message |-> IF error = "" THEN {TaprootMessage(tx, call, CommonOf(tx), t)}
                              ELSE {}]}
  BY <1>1, Zenon DEF TaprootSignatureHash, Return
<1>6. CachesRight'
  <2>1. \A l \in last' : l.call = call
    BY <1>5, OneResult, Zenon
  <2>2. common_cache' \in {{}, {CommonOf(tx)}} /\ (common_cache # {} => common_cache' # {})
    BY <1>1, Zenon DEF TaprootSignatureHash, CachesRight
  <2>3. /\ taproot_cache' = {TaprootOf(u) : u \in shown'}
        /\ \A u, v \in shown' : u = v
    BY <1>2, <1>3, Zenon DEF TaprootSignatureHash, CachesRight, GetOrInsert
  <2> QED BY <2>1, <2>2, <2>3, Zenon DEF TaprootSignatureHash, CachesRight
<1>7. tx' = tx /\ call.kind = "taproot"
  BY Zenon DEF TaprootSignatureHash
<1> DEFINE fresh ==
             IF error = ""
             THEN {TaprootMessage(tx, call, CommonOf(tx), TaprootOf(call.prevouts.utxos))}
             ELSE {}
<1>8. Fresh(tx, call) = [error |-> error, message |-> fresh]
  BY <1>7, Zenon DEF Fresh
<1>9. UsesAll(call) /\ error = "" /\ shown' = {call.prevouts.utxos}
        => t = TaprootOf(call.prevouts.utxos)
  BY <1>2, <1>3, Zenon DEF TaprootSignatureHash
<1>10. CacheTransparent'
  <2> DEFINE message == IF error = "" THEN {TaprootMessage(tx, call, CommonOf(tx), t)}
                        ELSE {}
  <2>1. ASSUME UsesAll(call) /\ error = "" => shown' = {call.prevouts.utxos}
        PROVE  message = fresh
    <3>1. CASE error = ""
      <4>1. TaprootMessage(tx, call, CommonOf(tx), t)
              = TaprootMessage(tx, call, CommonOf(tx), TaprootOf(call.prevouts.utxos))
        BY <1>4, <1>9, <2>1, <3>1, Zenon
      <4> QED BY <3>1, <4>1, Zenon
    <3>2. CASE error # ""
      BY <3>2, Zenon
    <3> QED BY <3>1, <3>2, Zenon
  <2>2. error = Fresh(tx', call).error /\ fresh = Fresh(tx', call).message
    <3> HIDE DEF error, fresh
    <3> QED BY <1>7, <1>8
  <2>3. last' = {[call |-> call, error |-> error, message |-> message]}
    BY <1>5, Zenon
  <2> HIDE DEF message, error, fresh
  <2> QED BY <2>1, <2>2, <2>3, ReturnTransparent, Zenon
<1> QED BY <1>6, <1>10, Zenon

\* p2wsh_signature_hash keeps the invariant.
LEMMA SegwitStep ==
  ASSUME CachesRight, CacheTransparent, NEW call, IsCall(call), SegwitSignatureHash(call)
  PROVE  CachesRight' /\ CacheTransparent'
<1> DEFINE error == SegwitError(tx, call)
           common == IF segwit_cache = {} THEN GetOrInsert(common_cache, CommonOf(tx))
                     ELSE common_cache
           segwit == GetOrInsert(segwit_cache, SegwitOf(CHOOSE c \in common : TRUE))
<1>1. common = {CommonOf(tx)}
  BY Zenon DEF GetOrInsert, CachesRight
<1>2. segwit = {SegwitOf(CommonOf(tx))}
  BY <1>1, Zenon DEF GetOrInsert, CachesRight
<1>3. /\ tx' = tx /\ call.kind = "segwit"
      /\ UNCHANGED <<taproot_cache, shown>>
      /\ \/ UNCHANGED <<common_cache, segwit_cache>>
         \/ common_cache' = common /\ segwit_cache' = segwit
  BY Zenon DEF SegwitSignatureHash
<1> DEFINE message == IF error = ""
                      THEN {SegwitMessage(tx, call, SegwitOf(CommonOf(tx)))} ELSE {}
<1>4. last' = {[call |-> call, error |-> error, message |-> message]}
  BY <1>2, Zenon DEF SegwitSignatureHash, Return
<1>5. Fresh(tx, call) = [error |-> error, message |-> message]
  BY <1>3, Zenon DEF Fresh
<1> HIDE DEF error, message, common, segwit
<1>6. CachesRight'
  <2>1. \A l \in last' : l.call = call
    BY <1>4, OneResult, Zenon
  <2> QED BY <1>1, <1>2, <1>3, <2>1, Zenon DEF CachesRight
<1>7. CacheTransparent'
  <2>1. error = Fresh(tx', call).error /\ message = Fresh(tx', call).message
    BY <1>3, <1>5
  <2> QED BY <1>4, <2>1, ReturnTransparent, Zenon
<1> QED BY <1>6, <1>7, Zenon

\* legacy_signature_hash keeps the invariant.
LEMMA LegacyStep ==
  ASSUME CachesRight, CacheTransparent, NEW call, IsCall(call), LegacySignatureHash(call)
  PROVE  CachesRight' /\ CacheTransparent'
<1> DEFINE error == LegacyError(tx, call)
           message == IF error = "" THEN {LegacyMessage(tx, call)} ELSE {}
<1>1. /\ UNCHANGED <<tx, common_cache, segwit_cache, taproot_cache, shown>>
      /\ call.kind = "legacy"
      /\ last' = {[call |-> call, error |-> error, message |-> message]}
  BY Zenon DEF LegacySignatureHash, Return
<1>2. Fresh(tx, call) = [error |-> error, message |-> message]
  BY <1>1, Zenon DEF Fresh
<1> HIDE DEF error, message
<1>3. CachesRight'
  <2>1. \A l \in last' : l.call = call
    BY <1>1, OneResult, Zenon
  <2> QED BY <1>1, <2>1, Zenon DEF CachesRight
<1>4. CacheTransparent'
  <2>1. error = Fresh(tx', call).error /\ message = Fresh(tx', call).message
    BY <1>1, <1>2
  <2> QED BY <1>1, <2>1, ReturnTransparent, Zenon
<1> QED BY <1>3, <1>4, Zenon

LEMMA WitnessKeeps ==
  ASSUME tx \in Transaction, NEW index \in 0 .. Len(tx.input), WitnessMut(index)
  PROVE  tx' \in Transaction /\ SameToSign(tx, tx')
<1>1. index + 1 \in DOMAIN tx.input
  BY DEF WitnessMut, InputExists, Transaction
<1>2. tx.input[index + 1] \in TxIn
  BY <1>1 DEF Transaction
<1>3. 1 - tx.input[index + 1].witness \in Int
  BY <1>2 DEF TxIn
<1>4. tx' = [tx EXCEPT !.input[index + 1].witness = 1 - tx.input[index + 1].witness]
  BY Zenon DEF WitnessMut
<1> QED BY <1>1, <1>3, <1>4, WitnessChange, Zenon

\* witness_mut keeps the invariant.
LEMMA WitnessStep ==
  ASSUME CachesRight, CacheTransparent, NEW index \in 0 .. Len(tx.input), WitnessMut(index)
  PROVE  CachesRight' /\ CacheTransparent'
<1>1. tx' \in Transaction /\ SameToSign(tx, tx')
  BY WitnessKeeps, Zenon DEF CachesRight
<1>2. CommonOf(tx') = CommonOf(tx) /\ \A l \in last : Fresh(tx', l.call) = Fresh(tx, l.call)
  <2>1. ASSUME NEW call, IsCall(call)
        PROVE  CommonOf(tx') = CommonOf(tx) /\ Fresh(tx', call) = Fresh(tx, call)
    BY <1>1, <2>1, SameMessages, Zenon DEF CachesRight
  <2>2. CommonOf(tx') = CommonOf(tx)
    BY <1>1, Zenon DEF CommonOf, SameToSign
  <2> QED BY <2>1, <2>2, Zenon DEF CachesRight
<1> QED BY <1>1, <1>2, Zenon DEF CachesRight, CacheTransparent, WitnessMut, SameToSign

\* A new cache for a changed transaction satisfies the invariant.
LEMMA RenewStep ==
  ASSUME NEW t \in Txs, Renew(t)
  PROVE  CachesRight' /\ CacheTransparent'
BY SighashConstants, Zenon DEF Renew, CachesRight, CacheTransparent

\* The invariant holds for every set of transactions and calls.
LEMMA CachesStayRight == Spec => [](CachesRight /\ CacheTransparent)
<1>1. Init => CachesRight /\ CacheTransparent
  BY InitRight, Zenon
<1>2. CachesRight /\ CacheTransparent /\ [Next]_vars => CachesRight' /\ CacheTransparent'
  <2> SUFFICES ASSUME CachesRight, CacheTransparent, [Next]_vars
               PROVE  CachesRight' /\ CacheTransparent'
    BY Zenon
  <2>1. ASSUME NEW call \in Calls[Len(tx.input)]
        PROVE  IsCall(call)
    BY <2>1, SighashConstants, Zenon DEF CachesRight
  <2>2. CASE \E call \in Calls[Len(tx.input)] : TaprootSignatureHash(call)
    BY <2>1, <2>2, TaprootStep, Zenon
  <2>3. CASE \E call \in Calls[Len(tx.input)] : SegwitSignatureHash(call)
    BY <2>1, <2>3, SegwitStep, Zenon
  <2>4. CASE \E call \in Calls[Len(tx.input)] : LegacySignatureHash(call)
    BY <2>1, <2>4, LegacyStep, Zenon
  <2>5. CASE \E index \in 0 .. Len(tx.input) : WitnessMut(index)
    BY <2>5, WitnessStep, Zenon
  <2>6. CASE \E t \in Txs : Renew(t)
    BY <2>6, RenewStep, Zenon
  <2>7. CASE UNCHANGED vars
    BY <2>7, Zenon DEF vars, CachesRight, CacheTransparent
  <2> QED BY <2>2, <2>3, <2>4, <2>5, <2>6, <2>7, Zenon DEF Next
<1> QED BY <1>1, <1>2, PTL DEF Spec

\* Whatever transactions and calls there are, a call on a SighashCache ends as
\* on a new cache, except for a taproot hash over all prevouts that passes
\* other prevouts than the first such call.
THEOREM CacheNeverShows == Spec => []CacheTransparent
BY CachesStayRight, PTL

-----------------------------------------------------------------------------
(***************************************************************************)
(* What the signature hashes commit to, for every transaction and call:    *)
(* where a changed transaction and its prevouts differ from what they      *)
(* were, which lists and single items of a message that touches, and so    *)
(* which messages change.                                                  *)
(***************************************************************************)

\* Where the changed transaction differs from the transaction it was.
Differs(t, t2, field, at) ==
  /\ t2 \in Transaction
  /\ t2.version # t.version <=> field = "version"
  /\ t2.lock_time # t.lock_time <=> field = "lock_time"
  /\ Len(t2.input) = IF field = "add_input" THEN Len(t.input) + 1 ELSE Len(t.input)
  /\ Len(t2.output) = IF field = "add_output" THEN Len(t.output) + 1 ELSE Len(t.output)
  /\ \A j \in 1 .. Len(t.input) :
       /\ t2.input[j].previous_output # t.input[j].previous_output
            <=> field = "previous_output" /\ j = at + 1
       /\ t2.input[j].sequence # t.input[j].sequence <=> field = "sequence" /\ j = at + 1
  /\ \A j \in 1 .. Len(t.output) : t2.output[j] # t.output[j] <=> field = "output" /\ j = at + 1

ChangedFields ==
  {"version", "lock_time", "mw_tx", "add_input", "add_output", "previous_output", "sequence",
   "script_sig", "witness", "value", "script_pubkey", "output"}

InRange(t, field, at) ==
  /\ field \in {"previous_output", "sequence", "script_sig", "witness"} => at + 1 \in 1 .. Len(t.input)
  /\ field = "output" => at + 1 \in 1 .. Len(t.output)

LEMMA ChangeInRange ==
  ASSUME NEW t \in Transaction, NEW change \in Changes(t)
  PROVE  /\ InRange(t, change[1], change[2]) /\ change[2] \in Nat
         /\ change[1] \in SpentFields => change[2] + 1 \in 1 .. Len(t.input)
         /\ change[1] \in ChangedFields
<1>1. Len(t.input) \in Nat /\ Len(t.output) \in Nat
  BY DEF Transaction
<1>2. InRange(t, change[1], change[2]) /\ change[2] \in Nat
  BY <1>1 DEF Changes, InRange
<1>3. change[1] \in SpentFields => change[2] + 1 \in 1 .. Len(t.input)
  BY <1>1 DEF Changes, SpentFields
<1>4. \/ change[1] \in {"version", "lock_time", "mw_tx", "add_input", "add_output"}
      \/ change[1] \in {"previous_output", "sequence", "script_sig", "witness", "value",
                       "script_pubkey"}
      \/ change[1] = "output"
  BY Zenon DEF Changes
<1> QED BY <1>2, <1>3, <1>4, Zenon DEF ChangedFields

LEMMA ElementChanged ==
  ASSUME NEW S, NEW s \in Seq(S), NEW i \in 1 .. Len(s), NEW v \in S
  PROVE  /\ [s EXCEPT ![i] = v] \in Seq(S) /\ Len([s EXCEPT ![i] = v]) = Len(s)
         /\ \A j \in 1 .. Len(s) : [s EXCEPT ![i] = v][j] = IF j = i THEN v ELSE s[j]
OBVIOUS

LEMMA ChangedTxDiffers ==
  ASSUME NEW t \in Transaction, t.input # <<>>, NEW change \in Changes(t)
  PROVE  Differs(t, ChangedTx(t, change), change[1], change[2])
<1> DEFINE field == change[1]
           at == change[2]
           t2 == ChangedTx(t, change)
<1> SUFFICES Differs(t, t2, field, at)
  BY Zenon
<1>1. /\ t.version \in Int /\ t.lock_time \in Int /\ t.mw_tx \in Int
      /\ t.input \in Seq(TxIn) /\ t.output \in Seq(Int)
      /\ Len(t.input) \in Nat \ {0} /\ Len(t.output) \in Nat
      /\ DOMAIN t.input = 1 .. Len(t.input) /\ DOMAIN t.output = 1 .. Len(t.output)
  BY DEF Transaction
<1>2. \A j \in 1 .. Len(t.input) : t.input[j] \in TxIn
  BY <1>1
<1>9. InRange(t, field, at) /\ at \in Nat
  BY ChangeInRange, Zenon
<1>3. CASE field \in {"version", "lock_time", "mw_tx"}
  <2>1. t2 = [t EXCEPT ![field] = Other(t[field])]
    BY <1>3, Zenon DEF ChangedTx, SpentFields
  <2>2. t[field] \in Int /\ Other(t[field]) \in Int /\ Other(t[field]) # t[field]
    BY <1>1, <1>3, SMTT(40) DEF Other, Transaction
  <2> HIDE DEF t2
  <2>3. /\ t2 \in Transaction /\ t2.input = t.input /\ t2.output = t.output
        /\ t2.version # t.version <=> field = "version"
        /\ t2.lock_time # t.lock_time <=> field = "lock_time"
    BY <1>1, <1>3, <2>1, <2>2 DEF Transaction
  <2> QED BY <1>3, <2>3, Zenon DEF Differs
<1>4. CASE field = "add_input"
  <2> DEFINE new == [t.input[1] EXCEPT !.previous_output = Other(@)]
  <2>1. new \in TxIn
    <3>1. t.input[1] \in TxIn
      BY <1>1, <1>2
    <3> QED BY <3>1, SMTT(40) DEF TxIn, Other
  <2>2. t2 = [t EXCEPT !.input = Append(t.input, new)]
    BY <1>4, Zenon DEF ChangedTx, SpentFields
  <2> HIDE DEF new, t2
  <2>3. /\ Append(t.input, new) \in Seq(TxIn) /\ Len(Append(t.input, new)) = Len(t.input) + 1
        /\ \A j \in 1 .. Len(t.input) : Append(t.input, new)[j] = t.input[j]
    BY <1>1, <2>1
  <2>4. /\ t2 \in Transaction /\ t2.input = Append(t.input, new) /\ t2.output = t.output
        /\ t2.version = t.version /\ t2.lock_time = t.lock_time
    BY <2>2, <2>3, Zenon DEF Transaction
  <2> QED BY <1>4, <2>3, <2>4, Zenon DEF Differs
<1>5. CASE field = "add_output"
  <2>1. t2 = [t EXCEPT !.output = Append(t.output, 0)]
    BY <1>5, Zenon DEF ChangedTx, SpentFields
  <2> HIDE DEF t2
  <2>2. /\ Append(t.output, 0) \in Seq(Int) /\ Len(Append(t.output, 0)) = Len(t.output) + 1
        /\ \A j \in 1 .. Len(t.output) : Append(t.output, 0)[j] = t.output[j]
    BY <1>1
  <2>3. /\ t2 \in Transaction /\ t2.input = t.input /\ t2.output = Append(t.output, 0)
        /\ t2.version = t.version /\ t2.lock_time = t.lock_time
    BY <2>1, <2>2, Zenon DEF Transaction
  <2> QED BY <1>5, <2>2, <2>3, Zenon DEF Differs
<1>6. CASE field = "output"
  <2>1. at + 1 \in 1 .. Len(t.output)
    BY <1>6, <1>9, Zenon DEF InRange
  <2> DEFINE other == Other(t.output[at + 1])
             outs == [t.output EXCEPT ![at + 1] = other]
  <2>2. t2 = [t EXCEPT !.output = outs]
    BY <1>6, Zenon DEF ChangedTx, SpentFields
  <2>3. /\ outs \in Seq(Int) /\ Len(outs) = Len(t.output)
        /\ \A j \in 1 .. Len(t.output) : outs[j] # t.output[j] <=> j = at + 1
    <3>1. t.output[at + 1] \in Int
      BY <1>1, <2>1
    <3>2. other \in Int /\ other # t.output[at + 1]
      BY <3>1 DEF Other
    <3> HIDE DEF other
    <3>3. /\ outs \in Seq(Int) /\ Len(outs) = Len(t.output)
          /\ \A j \in 1 .. Len(t.output) : outs[j] = IF j = at + 1 THEN other ELSE t.output[j]
      BY <1>1, <2>1, <3>2, ElementChanged, SMTT(40)
    <3> HIDE DEF outs
    <3> QED BY <3>2, <3>3, Zenon
  <2> HIDE DEF t2, outs
  <2>4. /\ t2 \in Transaction /\ t2.input = t.input /\ t2.output = outs
        /\ t2.version = t.version /\ t2.lock_time = t.lock_time
    BY <2>2, <2>3, Zenon DEF Transaction
  <2> QED BY <1>6, <2>3, <2>4, Zenon DEF Differs
<1>7. CASE field \in SpentFields
  <2>1. t2 = t
    BY <1>7, Zenon DEF ChangedTx, SpentFields
  <2>2. field \notin {"version", "lock_time", "add_input", "add_output", "previous_output",
                      "sequence", "output"}
    BY <1>7, Zenon DEF SpentFields
  <2> HIDE DEF t2
  <2> QED BY <2>1, <2>2, Zenon DEF Differs
<1>8. CASE field \in {"previous_output", "sequence", "script_sig", "witness"}
  <2>1. at + 1 \in 1 .. Len(t.input)
    BY <1>8, <1>9, Zenon DEF InRange
  <2> DEFINE old == t.input[at + 1]
             txin == [old EXCEPT ![field] = Other(old[field])]
             ins == [t.input EXCEPT ![at + 1] = txin]
  <2>2. t2 = [t EXCEPT !.input = ins]
    BY <1>8, Zenon DEF ChangedTx, SpentFields
  <2>3. /\ txin \in TxIn
        /\ txin.previous_output # old.previous_output <=> field = "previous_output"
        /\ txin.sequence # old.sequence <=> field = "sequence"
    <3>1. old \in TxIn
      BY <1>2, <2>1, Zenon
    <3> HIDE DEF old
    <3>2. old[field] \in Int /\ Other(old[field]) \in Int /\ Other(old[field]) # old[field]
      BY <1>8, <3>1 DEF TxIn, Other
    <3> QED BY <1>8, <3>1, <3>2 DEF TxIn
  <2> HIDE DEF txin
  <2>4. /\ ins \in Seq(TxIn) /\ Len(ins) = Len(t.input)
        /\ \A j \in 1 .. Len(t.input) : ins[j] = IF j = at + 1 THEN txin ELSE t.input[j]
    BY <1>1, <2>1, <2>3, ElementChanged, Zenon
  <2> HIDE DEF t2, ins
  <2>5. /\ t2 \in Transaction /\ t2.input = ins /\ t2.output = t.output
        /\ t2.version = t.version /\ t2.lock_time = t.lock_time
    BY <2>2, <2>4, Zenon DEF Transaction
  <2> QED BY <1>8, <2>3, <2>4, <2>5, Zenon DEF Differs
<1> QED BY <1>3, <1>4, <1>5, <1>6, <1>7, <1>8, Zenon DEF Changes, SpentFields

\* The lists over all inputs that the hashes are made of.
PrevoutsOf(t) == [i \in DOMAIN t.input |-> t.input[i].previous_output]
SequencesOf(t) == [i \in DOMAIN t.input |-> t.input[i].sequence]

LEMMA ListsDiffer ==
  ASSUME NEW t \in Transaction, NEW t2, NEW field, NEW at \in Nat, Differs(t, t2, field, at),
         InRange(t, field, at)
  PROVE  /\ PrevoutsOf(t2) # PrevoutsOf(t) <=> field \in {"add_input", "previous_output"}
         /\ SequencesOf(t2) # SequencesOf(t) <=> field \in {"add_input", "sequence"}
         /\ t2.output # t.output <=> field \in {"add_output", "output"}
<1>1. /\ DOMAIN t.input = 1 .. Len(t.input) /\ DOMAIN t.output = 1 .. Len(t.output)
      /\ DOMAIN t2.input = 1 .. Len(t2.input) /\ DOMAIN t2.output = 1 .. Len(t2.output)
      /\ t.output \in Seq(Int) /\ t2.output \in Seq(Int)
      /\ Len(t.input) \in Nat /\ Len(t2.input) \in Nat
      /\ Len(t.output) \in Nat /\ Len(t2.output) \in Nat
  BY SMTT(40) DEF Transaction, Differs
<1>2. PrevoutsOf(t2) # PrevoutsOf(t) <=> field \in {"add_input", "previous_output"}
  <2>1. CASE field = "add_input"
    <3>1. Len(t2.input) \in DOMAIN PrevoutsOf(t2) \ DOMAIN PrevoutsOf(t)
      BY <1>1, <2>1 DEF PrevoutsOf, Differs
    <3> QED BY <2>1, <3>1, Zenon
  <2>2. CASE field = "previous_output"
    <3>2. at + 1 \in DOMAIN t.input /\ at + 1 \in DOMAIN t2.input
      BY <1>1, <2>2, Zenon DEF Differs, InRange
    <3>3. t2.input[at + 1].previous_output # t.input[at + 1].previous_output
      BY <1>1, <2>2, <3>2, Zenon DEF Differs
    <3>1. PrevoutsOf(t2)[at + 1] # PrevoutsOf(t)[at + 1]
      BY <3>2, <3>3, Zenon DEF PrevoutsOf
    <3> QED BY <2>2, <3>1, Zenon
  <2>3. CASE field \notin {"add_input", "previous_output"}
    BY <1>1, <2>3, Zenon DEF PrevoutsOf, Differs
  <2> QED BY <2>1, <2>2, <2>3, Zenon
<1>3. SequencesOf(t2) # SequencesOf(t) <=> field \in {"add_input", "sequence"}
  <2>1. CASE field = "add_input"
    <3>1. Len(t2.input) \in DOMAIN SequencesOf(t2) \ DOMAIN SequencesOf(t)
      BY <1>1, <2>1 DEF SequencesOf, Differs
    <3> QED BY <2>1, <3>1, Zenon
  <2>2. CASE field = "sequence"
    <3>2. at + 1 \in DOMAIN t.input /\ at + 1 \in DOMAIN t2.input
      BY <1>1, <2>2, Zenon DEF Differs, InRange
    <3>3. t2.input[at + 1].sequence # t.input[at + 1].sequence
      BY <1>1, <2>2, <3>2, Zenon DEF Differs
    <3>1. SequencesOf(t2)[at + 1] # SequencesOf(t)[at + 1]
      BY <3>2, <3>3, Zenon DEF SequencesOf
    <3> QED BY <2>2, <3>1, Zenon
  <2>3. CASE field \notin {"add_input", "sequence"}
    BY <1>1, <2>3, Zenon DEF SequencesOf, Differs
  <2> QED BY <2>1, <2>2, <2>3, Zenon
<1>4. t2.output # t.output <=> field \in {"add_output", "output"}
  <2>1. CASE field = "add_output"
    BY <1>1, <2>1 DEF Differs
  <2>2. CASE field = "output"
    BY <1>1, <2>2, Zenon DEF Differs, InRange
  <2>3. CASE field \notin {"add_output", "output"}
    <3>1. \A j \in 1 .. Len(t.output) : t2.output[j] = t.output[j]
      BY <1>1, <2>3, Zenon DEF Differs
    <3>2. Len(t2.output) = Len(t.output)
      BY <2>3, Zenon DEF Differs
    <3>3. /\ t.output = [j \in 1 .. Len(t.output) |-> t.output[j]]
          /\ t2.output = [j \in 1 .. Len(t2.output) |-> t2.output[j]]
      BY <1>1, SMTT(40)
    <3>4. t2.output = t.output
      BY <3>1, <3>2, <3>3, Zenon
    <3> QED BY <2>3, <3>4, Zenon
  <2> QED BY <2>1, <2>2, <2>3, Zenon
<1> QED BY <1>2, <1>3, <1>4, Zenon

\* How the input and the output at index differ, and which outputs there are.
InputDiffers(t, t2, field, at, index) ==
  /\ InputExists(t2, index)
  /\ Input(t2, index).previous_output # Input(t, index).previous_output
       <=> field = "previous_output" /\ at = index
  /\ Input(t2, index).sequence # Input(t, index).sequence
       <=> field = "sequence" /\ at = index
OutputDiffers(t, t2, field, at, index) ==
  t2.output[index + 1] # t.output[index + 1] <=> field = "output" /\ at = index
OutputThere(t, t2, field, index) ==
  OutputExists(t2, index)
    <=> OutputExists(t, index) \/ (field = "add_output" /\ Len(t.output) = index)

\* The input a call is for, and the output with its index.
LEMMA ThisDiffers ==
  ASSUME NEW t \in Transaction, NEW t2, NEW field, NEW at \in Nat, Differs(t, t2, field, at),
         NEW index \in Nat
  PROVE  /\ InputExists(t, index) => InputDiffers(t, t2, field, at, index)
         /\ OutputExists(t, index) => OutputDiffers(t, t2, field, at, index)
         /\ OutputThere(t, t2, field, index)
<1>1. Len(t.input) \in Nat /\ Len(t.output) \in Nat
  BY DEF Transaction
<1>2. ASSUME InputExists(t, index)
      PROVE  InputDiffers(t, t2, field, at, index)
  <2>1. index + 1 \in 1 .. Len(t.input)
    BY <1>1, <1>2 DEF InputExists
  <2>2. InputExists(t2, index)
    BY <1>1, <1>2 DEF Differs, InputExists
  <2>3. Input(t2, index).previous_output # Input(t, index).previous_output
          <=> field = "previous_output" /\ at = index
    BY <2>1 DEF Differs, Input
  <2>4. Input(t2, index).sequence # Input(t, index).sequence
          <=> field = "sequence" /\ at = index
    BY <2>1 DEF Differs, Input
  <2> QED BY <2>2, <2>3, <2>4, Zenon DEF InputDiffers
<1>3. ASSUME OutputExists(t, index)
      PROVE  OutputDiffers(t, t2, field, at, index)
  <2>1. index + 1 \in 1 .. Len(t.output)
    BY <1>1, <1>3 DEF OutputExists
  <2>2. t2.output[index + 1] # t.output[index + 1] <=> field = "output" /\ at = index
    BY <2>1 DEF Differs
  <2> QED BY <2>2, Zenon DEF OutputDiffers
<1>4. OutputThere(t, t2, field, index)
  BY <1>1 DEF Differs, OutputExists, OutputThere
<1> QED BY <1>2, <1>3, <1>4, Zenon

\* The flags of the sighash types.
LEMMA TypeFlags ==
  ASSUME NEW n \in TapSighashType
  PROVE  /\ Base(n) \in {0, All, None, Single} /\ n \in Nat
         /\ n \in EcdsaSighashType => Base(n) \in {All, None, Single}
         /\ n \in {All, None} <=> ~AnyoneCanPay(n) /\ Base(n) \in {All, None}
BY DEF TapSighashType, EcdsaSighashType, Base, AnyoneCanPay, All, None, Single

LEMMA Understood ==
  ASSUME NEW n \in Nat
  PROVE  FromConsensus(n) \in EcdsaSighashType
BY DEF FromConsensus, EcdsaSighashType, All

\* A changed call asks for the same hash with other prevouts.
SameButPrevouts(call, c2) ==
  /\ c2.kind = call.kind /\ c2.index = call.index /\ c2.type = call.type
  /\ c2.script = call.script /\ c2.value = call.value
  /\ c2.annex = call.annex /\ c2.leaf = call.leaf /\ c2.prevouts.at = call.prevouts.at

WithUtxos(call, utxos) == [call EXCEPT !.prevouts.utxos = utxos]

LEMMA UtxosReplaced ==
  ASSUME NEW call, IsCall(call), NEW utxos
  PROVE  /\ SameButPrevouts(call, WithUtxos(call, utxos))
         /\ WithUtxos(call, utxos).prevouts.utxos = utxos
<1> DEFINE c2 == WithUtxos(call, utxos)
           prevouts == [call.prevouts EXCEPT !.utxos = utxos]
<1>1. call \in SighashCall
  BY Zenon DEF IsCall
<1>2. prevouts.at = call.prevouts.at /\ prevouts.utxos = utxos
  BY <1>1, Zenon DEF SighashCall
<1>3. c2 = [call EXCEPT !.prevouts = prevouts]
  BY Zenon DEF WithUtxos
<1> HIDE DEF prevouts, c2
<1>4. SameButPrevouts(call, c2) /\ c2.prevouts.utxos = utxos
  BY <1>1, <1>2, <1>3, Zenon DEF SighashCall, SameButPrevouts
<1> QED BY <1>4, Zenon DEF c2

LEMMA ChangedCallSame ==
  ASSUME NEW call, IsCall(call), NEW change
  PROVE  SameButPrevouts(call, ChangedCall(call, change))
<1> DEFINE utxos == call.prevouts.utxos
           at == IF IsAll(call.prevouts) THEN change[2] + 1 ELSE 1
<1>1. CASE change[1] = "add_input" /\ IsAll(call.prevouts)
  <2>1. ChangedCall(call, change) = WithUtxos(call, Append(utxos, utxos[1]))
    BY <1>1, ZenonT(40) DEF ChangedCall, WithUtxos
  <2> QED BY <2>1, UtxosReplaced, Zenon
<1>2. CASE /\ change[1] # "add_input" /\ change[1] \in SpentFields
           /\ IsAll(call.prevouts) \/ call.prevouts.at = {change[2]}
  <2>1. ChangedCall(call, change)
          = WithUtxos(call, [utxos EXCEPT ![at][change[1]] = Other(@)])
    BY <1>2, Zenon DEF ChangedCall, WithUtxos
  <2> QED BY <2>1, UtxosReplaced
<1>3. CASE ChangedCall(call, change) = call
  BY <1>3, Zenon DEF SameButPrevouts
<1> QED BY <1>1, <1>2, <1>3, Zenon DEF ChangedCall, SpentFields

\* Where the prevouts of a changed call differ from those shown before.
UtxosDiffer(call, c2, field, at) ==
  LET old == call.prevouts.utxos
      new == c2.prevouts.utxos
      Here(j) == IF IsAll(call.prevouts) THEN j = at + 1 ELSE call.prevouts.at = {at}
  IN  /\ new \in Seq(TxOut)
      /\ Len(new) = IF field = "add_input" /\ IsAll(call.prevouts) THEN Len(old) + 1 ELSE Len(old)
      /\ \A j \in 1 .. Len(old) :
           /\ new[j].value # old[j].value <=> field = "value" /\ Here(j)
           /\ new[j].script_pubkey # old[j].script_pubkey <=> field = "script_pubkey" /\ Here(j)

LEMMA ChangedUtxosDiffer ==
  ASSUME NEW t \in Transaction, t.input # <<>>, NEW call, IsCall(call),
         CheckAll(call.prevouts, t), NEW change \in Changes(t)
  PROVE  UtxosDiffer(call, ChangedCall(call, change), change[1], change[2])
<1> DEFINE field == change[1]
           at == change[2]
           old == call.prevouts.utxos
           c2 == ChangedCall(call, change)
           where == IF IsAll(call.prevouts) THEN at + 1 ELSE 1
<1> SUFFICES UtxosDiffer(call, c2, field, at)
  BY Zenon
<1>1. /\ old \in Seq(TxOut) /\ Len(old) \in Nat \ {0}
      /\ IsAll(call.prevouts) => Len(old) = Len(t.input)
      /\ ~IsAll(call.prevouts) => Len(old) = 1
  <2>1. Len(t.input) \in Nat \ {0}
    BY DEF Transaction
  <2>2. old \in Seq(TxOut)
    BY CallShape, Zenon
  <2>3. IsAll(call.prevouts) => Len(old) = Len(t.input)
    BY Zenon DEF CheckAll
  <2>4. ~IsAll(call.prevouts) => Len(old) = 1
    BY Zenon DEF IsCall
  <2> HIDE DEF old
  <2>5. Len(old) \in Nat \ {0}
    <3>1. CASE IsAll(call.prevouts)
      BY <2>1, <2>3, <3>1, Zenon
    <3>2. CASE ~IsAll(call.prevouts)
      BY <2>4, <3>2
    <3> QED BY <3>1, <3>2, Zenon
  <2> QED BY <2>2, <2>3, <2>4, <2>5, Zenon
<1>2. \A j \in 1 .. Len(old) : old[j] \in TxOut
  BY <1>1, SMTT(40)
<1>3. CASE field = "add_input" /\ IsAll(call.prevouts)
  <2>1. c2 = WithUtxos(call, Append(old, old[1]))
    BY <1>3, Zenon DEF ChangedCall, WithUtxos
  <2> HIDE DEF c2
  <2>2. c2.prevouts.utxos = Append(old, old[1])
    BY <2>1, UtxosReplaced, Zenon
  <2> QED BY <1>1, <1>2, <1>3, <2>2 DEF UtxosDiffer
<1>4. CASE field \in SpentFields /\ (IsAll(call.prevouts) \/ call.prevouts.at = {at})
  <2>1. where \in 1 .. Len(old)
    <3>1. at + 1 \in 1 .. Len(t.input)
      BY <1>4, SMTT(40) DEF Changes, SpentFields, Transaction
    <3> QED BY <1>1, <3>1, SMTT(40)
  <2> DEFINE was == old[where]
             utxo == [was EXCEPT ![field] = Other(was[field])]
             new == [old EXCEPT ![where] = utxo]
  <2>2. c2 = WithUtxos(call, new)
    BY <1>4, Zenon DEF ChangedCall, SpentFields, WithUtxos
  <2>3. c2.prevouts.utxos = new
    <3> HIDE DEF c2, new
    <3> QED BY <2>2, UtxosReplaced, Zenon
  <2>4. /\ utxo \in TxOut
        /\ utxo.value # was.value <=> field = "value"
        /\ utxo.script_pubkey # was.script_pubkey <=> field = "script_pubkey"
    <3>1. was \in TxOut
      BY <1>2, <2>1, Zenon
    <3> HIDE DEF was
    <3>2. was[field] \in Int /\ Other(was[field]) \in Int /\ Other(was[field]) # was[field]
      BY <1>4, <3>1, SMTT(40) DEF TxOut, Other, SpentFields
    <3> QED BY <1>4, <3>1, <3>2, Zenon DEF TxOut, SpentFields
  <2> HIDE DEF utxo, c2
  <2>5. /\ new \in Seq(TxOut) /\ Len(new) = Len(old)
        /\ \A j \in 1 .. Len(old) : new[j] = IF j = where THEN utxo ELSE old[j]
    BY <1>1, <2>1, <2>4
  <2>6. field # "add_input"
    BY <1>4, Zenon DEF SpentFields
  <2>7. \A j \in 1 .. Len(old) :
          j = where <=> IF IsAll(call.prevouts) THEN j = at + 1 ELSE call.prevouts.at = {at}
    <3> HIDE DEF old
    <3>1. CASE IsAll(call.prevouts)
      BY <3>1, Zenon
    <3>2. CASE ~IsAll(call.prevouts)
      <4>1. Len(old) = 1 /\ call.prevouts.at = {at}
        BY <1>1, <1>4, <3>2, Zenon
      <4> QED BY <3>2, <4>1
    <3> QED BY <3>1, <3>2, Zenon
  <2> HIDE DEF new, where
  <2> QED BY <2>3, <2>4, <2>5, <2>6, <2>7, Zenon DEF UtxosDiffer
<1>5. CASE /\ ~(field = "add_input" /\ IsAll(call.prevouts))
           /\ ~(field \in SpentFields /\ (IsAll(call.prevouts) \/ call.prevouts.at = {at}))
  <2>1. c2 = call
    BY <1>5, Zenon DEF ChangedCall
  <2> HIDE DEF c2
  <2> QED BY <1>1, <1>5, <2>1, Zenon DEF UtxosDiffer, SpentFields
<1> QED BY <1>3, <1>4, <1>5, Zenon

AmountsOf(utxos) == [i \in DOMAIN utxos |-> utxos[i].value]
ScriptsOf(utxos) == [i \in DOMAIN utxos |-> utxos[i].script_pubkey]

LEMMA UtxoListsDiffer ==
  ASSUME NEW call, IsCall(call), IsAll(call.prevouts), NEW c2, NEW field, NEW at \in Nat,
         UtxosDiffer(call, c2, field, at),
         field \in SpentFields => at + 1 \in 1 .. Len(call.prevouts.utxos)
  PROVE  /\ AmountsOf(c2.prevouts.utxos) # AmountsOf(call.prevouts.utxos)
              <=> field \in {"add_input", "value"}
         /\ ScriptsOf(c2.prevouts.utxos) # ScriptsOf(call.prevouts.utxos)
              <=> field \in {"add_input", "script_pubkey"}
<1> DEFINE old == call.prevouts.utxos
           new == c2.prevouts.utxos
<1>1. /\ old \in Seq(TxOut) /\ new \in Seq(TxOut)
      /\ Len(new) = IF field = "add_input" THEN Len(old) + 1 ELSE Len(old)
      /\ \A j \in 1 .. Len(old) :
           /\ new[j].value # old[j].value <=> field = "value" /\ j = at + 1
           /\ new[j].script_pubkey # old[j].script_pubkey <=> field = "script_pubkey" /\ j = at + 1
  BY CallShape, Zenon DEF UtxosDiffer
<1>2. field \in {"value", "script_pubkey"} => at + 1 \in 1 .. Len(old)
  BY Zenon DEF SpentFields
<1> HIDE DEF old, new
<1>3. Len(old) \in Nat /\ DOMAIN old = 1 .. Len(old) /\ DOMAIN new = 1 .. Len(new)
  BY <1>1
<1>4. AmountsOf(new) # AmountsOf(old) <=> field \in {"add_input", "value"}
  <2>1. CASE field = "add_input"
    <3>1. Len(new) \in DOMAIN AmountsOf(new) \ DOMAIN AmountsOf(old)
      BY <1>1, <1>3, <2>1 DEF AmountsOf
    <3> QED BY <2>1, <3>1, Zenon
  <2>2. CASE field = "value"
    <3>1. AmountsOf(new)[at + 1] # AmountsOf(old)[at + 1]
      BY <1>1, <1>2, <1>3, <2>2, Zenon DEF AmountsOf
    <3> QED BY <2>2, <3>1, Zenon
  <2>3. CASE field \notin {"add_input", "value"}
    BY <1>1, <1>3, <2>3, Zenon DEF AmountsOf
  <2> QED BY <2>1, <2>2, <2>3, Zenon
<1>5. ScriptsOf(new) # ScriptsOf(old) <=> field \in {"add_input", "script_pubkey"}
  <2>1. CASE field = "add_input"
    <3>1. Len(new) \in DOMAIN ScriptsOf(new) \ DOMAIN ScriptsOf(old)
      BY <1>1, <1>3, <2>1 DEF ScriptsOf
    <3> QED BY <2>1, <3>1, Zenon
  <2>2. CASE field = "script_pubkey"
    <3>1. ScriptsOf(new)[at + 1] # ScriptsOf(old)[at + 1]
      BY <1>1, <1>2, <1>3, <2>2, Zenon DEF ScriptsOf
    <3> QED BY <2>2, <3>1, Zenon
  <2>3. CASE field \notin {"add_input", "script_pubkey"}
    BY <1>1, <1>3, <2>3, Zenon DEF ScriptsOf
  <2> QED BY <2>1, <2>2, <2>3, Zenon
<1> QED BY <1>4, <1>5, Zenon DEF old, new

LEMMA GetDiffers ==
  ASSUME NEW call, IsCall(call), NEW c2, NEW field, NEW at \in Nat,
         UtxosDiffer(call, c2, field, at), c2.prevouts.at = call.prevouts.at,
         NEW index \in Nat, ~GetFails(call.prevouts, index)
  PROVE  /\ ~GetFails(c2.prevouts, index)
         /\ Get(c2.prevouts, index) # Get(call.prevouts, index)
              <=> field \in SpentFields /\ at = index
<1> DEFINE old == call.prevouts.utxos
           new == c2.prevouts.utxos
           all == IsAll(call.prevouts)
           where == IF all THEN index + 1 ELSE 1
<1>1. /\ old \in Seq(TxOut) /\ new \in Seq(TxOut)
      /\ Len(new) = IF field = "add_input" /\ all THEN Len(old) + 1 ELSE Len(old)
      /\ Get(c2.prevouts, index) = new[where] /\ Get(call.prevouts, index) = old[where]
  BY CallShape, Zenon DEF UtxosDiffer, Get, IsAll
<1>2. \A j \in 1 .. Len(old) :
        LET here == IF all THEN j = at + 1 ELSE call.prevouts.at = {at}
        IN  /\ new[j].value # old[j].value <=> field = "value" /\ here
            /\ new[j].script_pubkey # old[j].script_pubkey <=> field = "script_pubkey" /\ here
  BY Zenon DEF UtxosDiffer
<1>3. /\ all => index < Len(old)
      /\ ~all => call.prevouts.at = {index} /\ Len(old) = 1
      /\ Len(old) \in Nat /\ Len(new) \in Nat
  <2>1. ~all => Len(old) = 1
    BY Zenon DEF IsCall
  <2>2. Len(old) \in Nat /\ Len(new) \in Nat
    BY <1>1
  <2> HIDE DEF old, new
  <2> QED BY <2>1, <2>2 DEF GetFails, old
<1>4. where \in 1 .. Len(old)
  <2> HIDE DEF old, new
  <2>1. CASE all
    BY <1>3, <2>1
  <2>2. CASE ~all
    BY <1>3, <2>2
  <2> QED BY <2>1, <2>2, Zenon
<1>5. where \in 1 .. Len(new)
  <2> HIDE DEF old, new, all, where
  <2> QED BY <1>1, <1>3, <1>4
<1>6. ~GetFails(c2.prevouts, index)
  <2>1. CASE all
    BY <1>1, <1>3, <2>1 DEF GetFails, IsAll
  <2>2. CASE ~all
    BY <1>3, <2>2, Zenon DEF GetFails, IsAll
  <2> QED BY <2>1, <2>2, Zenon
<1>7. (IF all THEN where = at + 1 ELSE call.prevouts.at = {at}) <=> at = index
  <2>1. CASE all
    BY <2>1
  <2>2. CASE ~all
    <3>1. {index} = {at} <=> at = index
      BY Zenon
    <3> QED BY <1>3, <2>2, <3>1, Zenon
  <2> QED BY <2>1, <2>2, Zenon
<1>8. /\ new[where].value # old[where].value <=> field = "value" /\ at = index
      /\ new[where].script_pubkey # old[where].script_pubkey
           <=> field = "script_pubkey" /\ at = index
  <2> HIDE DEF old, new, all, where
  <2> QED BY <1>2, <1>4, <1>7, Zenon
<1>9. new[where] \in TxOut /\ old[where] \in TxOut
  <2> HIDE DEF old, new, where
  <2> QED BY <1>1, <1>4, <1>5
<1>10. new[where] # old[where] <=> field \in SpentFields /\ at = index
  <2> HIDE DEF old, new, where
  <2>1. new[where] = old[where] <=> /\ new[where].value = old[where].value
                                    /\ new[where].script_pubkey = old[where].script_pubkey
    BY <1>9 DEF TxOut
  <2> QED BY <1>8, <2>1, Zenon DEF SpentFields
<1> QED BY <1>1, <1>6, <1>10

-----------------------------------------------------------------------------
\* What a taproot message is made of, and so where two of one type can differ.
TaprootDiffers(t, call, t2, c2) ==
  \/ t2.version # t.version
  \/ t2.lock_time # t.lock_time
  \/ /\ ~AnyoneCanPay(call.type)
     /\ \/ PrevoutsOf(t2) # PrevoutsOf(t)
        \/ SequencesOf(t2) # SequencesOf(t)
        \/ AmountsOf(c2.prevouts.utxos) # AmountsOf(call.prevouts.utxos)
        \/ ScriptsOf(c2.prevouts.utxos) # ScriptsOf(call.prevouts.utxos)
  \/ /\ AnyoneCanPay(call.type)
     /\ \/ Input(t2, call.index).previous_output # Input(t, call.index).previous_output
        \/ Input(t2, call.index).sequence # Input(t, call.index).sequence
        \/ Get(c2.prevouts, call.index) # Get(call.prevouts, call.index)
  \/ Base(call.type) \notin {None, Single} /\ t2.output # t.output
  \/ /\ Base(call.type) = Single
     /\ SubSeq(t2.output, call.index + 1, call.index + 1)
          # SubSeq(t.output, call.index + 1, call.index + 1)

ThisInput(t, call) ==
  [previous_output |-> Input(t, call.index).previous_output,
   utxo |-> Get(call.prevouts, call.index),
   sequence |-> Input(t, call.index).sequence]

TaprootFieldsOf(m, t, call, c, p) ==
  LET acp == AnyoneCanPay(call.type)
      base == Base(call.type)
  IN  /\ m.type = call.type /\ m.version = t.version /\ m.lock_time = t.lock_time
      /\ m.prevouts = IF acp THEN ZeroHash ELSE c.prevouts
      /\ m.amounts = IF acp THEN ZeroHash ELSE p.amounts
      /\ m.script_pubkeys = IF acp THEN ZeroHash ELSE p.script_pubkeys
      /\ m.sequences = IF acp THEN ZeroHash ELSE c.sequences
      /\ m.outputs = IF base \in {None, Single} THEN ZeroHash ELSE c.outputs
      /\ m.spend_type = Cardinality(call.annex) + 2 * Cardinality(call.leaf)
      /\ m.this = IF acp THEN {ThisInput(t, call)} ELSE {}
      /\ m.index = IF acp THEN {} ELSE {call.index}
      /\ m.annex = call.annex /\ m.leaf = call.leaf
      /\ m.single = IF base # Single THEN ZeroHash
                    ELSE Sha256(SubSeq(t.output, call.index + 1, call.index + 1))

LEMMA TaprootFields ==
  ASSUME NEW t, NEW call, NEW c, NEW p, NEW m, m = TaprootMessage(t, call, c, p)
  PROVE  TaprootFieldsOf(m, t, call, c, p)
BY Zenon DEF TaprootMessage, ThisInput, TaprootFieldsOf

\* Messages are equal when their fields are.
LEMMA TaprootEqual ==
  ASSUME NEW t, NEW call, NEW c, NEW p, NEW m, m = TaprootMessage(t, call, c, p),
         NEW t2, NEW c2, NEW d, NEW q, NEW n, n = TaprootMessage(t2, c2, d, q)
  PROVE  m = n <=>
           /\ m.type = n.type /\ m.version = n.version /\ m.lock_time = n.lock_time
           /\ m.prevouts = n.prevouts /\ m.amounts = n.amounts
           /\ m.script_pubkeys = n.script_pubkeys /\ m.sequences = n.sequences
           /\ m.outputs = n.outputs /\ m.spend_type = n.spend_type /\ m.this = n.this
           /\ m.index = n.index /\ m.annex = n.annex /\ m.single = n.single /\ m.leaf = n.leaf
BY Zenon DEF TaprootMessage

LEMMA TaprootMessagesDiffer ==
  ASSUME NEW t, NEW call, NEW t2, NEW c2, SameButPrevouts(call, c2), NEW m, NEW n,
         m = TaprootMessage(t, call, CommonOf(t), TaprootOf(call.prevouts.utxos)),
         n = TaprootMessage(t2, c2, CommonOf(t2), TaprootOf(c2.prevouts.utxos))
  PROVE  m # n <=> TaprootDiffers(t, call, t2, c2)
<1> DEFINE acp == AnyoneCanPay(call.type)
           base == Base(call.type)
           index == call.index
           one == SubSeq(t.output, index + 1, index + 1)
           other == SubSeq(t2.output, index + 1, index + 1)
<1>1. \A x, y : Sha256(x) = Sha256(y) <=> x = y
  BY Zenon DEF Sha256
<1>2. ASSUME NEW u
      PROVE  /\ CommonOf(u).prevouts = Sha256(PrevoutsOf(u))
             /\ CommonOf(u).sequences = Sha256(SequencesOf(u))
             /\ CommonOf(u).outputs = Sha256(u.output)
  BY Zenon DEF CommonOf, PrevoutsOf, SequencesOf
<1>3. ASSUME NEW u
      PROVE  /\ TaprootOf(u).amounts = Sha256(AmountsOf(u))
             /\ TaprootOf(u).script_pubkeys = Sha256(ScriptsOf(u))
  BY Zenon DEF TaprootOf, AmountsOf, ScriptsOf
<1>4. /\ c2.type = call.type /\ c2.index = index /\ c2.annex = call.annex /\ c2.leaf = call.leaf
  BY Zenon DEF SameButPrevouts
<1>5. /\ m.type = call.type /\ m.version = t.version /\ m.lock_time = t.lock_time
      /\ m.prevouts = IF acp THEN ZeroHash ELSE Sha256(PrevoutsOf(t))
      /\ m.amounts = IF acp THEN ZeroHash ELSE Sha256(AmountsOf(call.prevouts.utxos))
      /\ m.script_pubkeys = IF acp THEN ZeroHash ELSE Sha256(ScriptsOf(call.prevouts.utxos))
      /\ m.sequences = IF acp THEN ZeroHash ELSE Sha256(SequencesOf(t))
      /\ m.outputs = IF base \in {None, Single} THEN ZeroHash ELSE Sha256(t.output)
      /\ m.spend_type = Cardinality(call.annex) + 2 * Cardinality(call.leaf)
      /\ m.this = IF acp THEN {ThisInput(t, call)} ELSE {}
      /\ m.index = IF acp THEN {} ELSE {index}
      /\ m.annex = call.annex /\ m.leaf = call.leaf
      /\ m.single = IF base # Single THEN ZeroHash ELSE Sha256(one)
  <2>1. TaprootFieldsOf(m, t, call, CommonOf(t), TaprootOf(call.prevouts.utxos))
    BY TaprootFields, Zenon
  <2> QED BY <1>2, <1>3, <2>1, Zenon DEF TaprootFieldsOf
<1>6. /\ n.type = call.type /\ n.version = t2.version /\ n.lock_time = t2.lock_time
      /\ n.prevouts = IF acp THEN ZeroHash ELSE Sha256(PrevoutsOf(t2))
      /\ n.amounts = IF acp THEN ZeroHash ELSE Sha256(AmountsOf(c2.prevouts.utxos))
      /\ n.script_pubkeys = IF acp THEN ZeroHash ELSE Sha256(ScriptsOf(c2.prevouts.utxos))
      /\ n.sequences = IF acp THEN ZeroHash ELSE Sha256(SequencesOf(t2))
      /\ n.outputs = IF base \in {None, Single} THEN ZeroHash ELSE Sha256(t2.output)
      /\ n.spend_type = Cardinality(call.annex) + 2 * Cardinality(call.leaf)
      /\ n.this = IF acp THEN {ThisInput(t2, c2)} ELSE {}
      /\ n.index = IF acp THEN {} ELSE {index}
      /\ n.annex = call.annex /\ n.leaf = call.leaf
      /\ n.single = IF base # Single THEN ZeroHash ELSE Sha256(other)
  <2>1. TaprootFieldsOf(n, t2, c2, CommonOf(t2), TaprootOf(c2.prevouts.utxos))
    BY TaprootFields, ZenonT(40)
  <2> QED BY <1>2, <1>3, <1>4, <2>1, Zenon DEF TaprootFieldsOf
<1> HIDE DEF acp, base, index, one, other
<1>7. m = n <=> /\ m.version = n.version /\ m.lock_time = n.lock_time
                /\ m.prevouts = n.prevouts /\ m.amounts = n.amounts
                /\ m.script_pubkeys = n.script_pubkeys /\ m.sequences = n.sequences
                /\ m.outputs = n.outputs /\ m.this = n.this /\ m.single = n.single
  <2>1. /\ m.type = n.type /\ m.spend_type = n.spend_type /\ m.index = n.index
        /\ m.annex = n.annex /\ m.leaf = n.leaf
    BY <1>5, <1>6, ZenonT(40)
  <2> QED BY <2>1, TaprootEqual
<1>8. /\ m.version = n.version <=> t2.version = t.version
      /\ m.lock_time = n.lock_time <=> t2.lock_time = t.lock_time
      /\ m.prevouts = n.prevouts <=> (acp \/ PrevoutsOf(t2) = PrevoutsOf(t))
      /\ m.sequences = n.sequences <=> (acp \/ SequencesOf(t2) = SequencesOf(t))
  <2>1. m.version = n.version <=> t2.version = t.version
    BY <1>5, <1>6, Zenon
  <2>2. m.lock_time = n.lock_time <=> t2.lock_time = t.lock_time
    BY <1>5, <1>6, Zenon
  <2>3. CASE acp
    BY <1>5, <1>6, <2>1, <2>2, <2>3, ZenonT(40)
  <2>4. CASE ~acp
    <3>1. /\ m.prevouts = Sha256(PrevoutsOf(t)) /\ n.prevouts = Sha256(PrevoutsOf(t2))
          /\ m.sequences = Sha256(SequencesOf(t)) /\ n.sequences = Sha256(SequencesOf(t2))
      BY <1>5, <1>6, <2>4, ZenonT(40)
    <3> QED BY <1>1, <2>1, <2>2, <2>4, <3>1, ZenonT(40)
  <2> QED BY <2>3, <2>4, Zenon
<1>9. /\ m.amounts = n.amounts
           <=> (acp \/ AmountsOf(c2.prevouts.utxos) = AmountsOf(call.prevouts.utxos))
      /\ m.script_pubkeys = n.script_pubkeys
           <=> (acp \/ ScriptsOf(c2.prevouts.utxos) = ScriptsOf(call.prevouts.utxos))
      /\ m.outputs = n.outputs <=> (base \in {None, Single} \/ t2.output = t.output)
      /\ m.single = n.single <=> (base # Single \/ one = other)
  BY <1>1, <1>5, <1>6
<1>10. m.this = n.this <=> (~acp \/ ThisInput(t, call) = ThisInput(t2, c2))
  <2>1. \A x, y : {x} = {y} <=> x = y
    BY Zenon
  <2>2. /\ m.this = IF acp THEN {ThisInput(t, call)} ELSE {}
        /\ n.this = IF acp THEN {ThisInput(t2, c2)} ELSE {}
    BY <1>5, <1>6, Zenon
  <2> QED BY <2>1, <2>2, Zenon
<1>11. ThisInput(t, call) = ThisInput(t2, c2)
         <=> /\ Input(t2, index).previous_output = Input(t, index).previous_output
             /\ Input(t2, index).sequence = Input(t, index).sequence
             /\ Get(c2.prevouts, index) = Get(call.prevouts, index)
  BY <1>4, Zenon DEF ThisInput, index
<1> QED BY <1>7, <1>8, <1>9, <1>10, <1>11, Zenon DEF TaprootDiffers, acp, base, index, one, other

LEMMA OneElement ==
  ASSUME NEW s \in Seq(Int), NEW i \in Nat, i + 1 \in 1 .. Len(s)
  PROVE  SubSeq(s, i + 1, i + 1) = <<s[i + 1]>>
<1> DEFINE u == SubSeq(s, i + 1, i + 1)
<1>1. Len(s) \in Nat
  OBVIOUS
<1>2. u \in Seq(Int) /\ Len(u) = 1 /\ u[1] = s[i + 1]
  BY <1>1
<1> HIDE DEF u
<1>3. u = <<s[i + 1]>>
  BY <1>1, <1>2
<1> QED BY <1>3, Zenon DEF u

\* The place of an output that exists.
LEMMA OutputPlace ==
  ASSUME NEW t, t.output \in Seq(Int), NEW index \in Nat, OutputExists(t, index)
  PROVE  index + 1 \in 1 .. Len(t.output) /\ Len(t.output) # index
<1> DEFINE n == Len(t.output)
<1>1. n \in Nat /\ index < n
  BY DEF OutputExists
<1> HIDE DEF n
<1>2. index + 1 \in 1 .. n /\ n # index
  BY <1>1
<1> QED BY <1>2 DEF n

\* A taproot hash changes with what its type covers and with nothing else.
LEMMA TaprootCommits ==
  ASSUME NEW t \in Transaction, t.input # <<>>, NEW call, IsCall(call), call.kind = "taproot",
         TaprootOk(t, call), NEW change \in Changes(t)
  PROVE  Fresh(t, call).message # Fresh(ChangedTx(t, change), ChangedCall(call, change)).message
           <=> Covered(t, call, change)
<1> DEFINE field == change[1]
           at == change[2]
           t2 == ChangedTx(t, change)
           c2 == ChangedCall(call, change)
           index == call.index
           acp == AnyoneCanPay(call.type)
           base == Base(call.type)
<1>1. /\ index \in Nat /\ at \in Nat
      /\ Differs(t, t2, field, at) /\ InRange(t, field, at)
      /\ SameButPrevouts(call, c2)
  BY CallShape, ChangedTxDiffers, ChangeInRange, ChangedCallSame, Zenon
<1>2. TaprootOk(t, call)
  BY Zenon
<1>3. UtxosDiffer(call, c2, field, at)
  BY <1>2, ChangedUtxosDiffer, Zenon DEF TaprootOk
<1>4. /\ field \in SpentFields => at + 1 \in 1 .. Len(t.input)
      /\ field \in ChangedFields
  BY ChangeInRange, Zenon
<1>5. /\ t2 \in Transaction /\ Len(t.input) \in Nat /\ Len(t.output) \in Nat
      /\ t2.version # t.version <=> field = "version"
      /\ t2.lock_time # t.lock_time <=> field = "lock_time"
      /\ Len(t2.input) = IF field = "add_input" THEN Len(t.input) + 1 ELSE Len(t.input)
  BY <1>1, TxShape, Zenon DEF Differs
<1>7. Covered(t, call, change)
        <=> \/ field \in {"version", "lock_time"}
            \/ field = "add_input" /\ ~acp
            \/ /\ field = "add_output"
               /\ base \notin {None, Single} \/ (base = Single /\ Len(t.output) = index)
            \/ field = "output" /\ (base \notin {None, Single} \/ (base = Single /\ at = index))
            \/ field \in {"previous_output", "sequence", "value", "script_pubkey"}
                 /\ (~acp \/ at = index)
  BY <1>4, Zenon DEF Covered, SpentFields, ChangedFields
<1> HIDE DEF field, at, t2, c2
<1>8. /\ PrevoutsOf(t2) # PrevoutsOf(t) <=> field \in {"add_input", "previous_output"}
      /\ SequencesOf(t2) # SequencesOf(t) <=> field \in {"add_input", "sequence"}
      /\ t2.output # t.output <=> field \in {"add_output", "output"}
  BY <1>1, ListsDiffer, Zenon
<1>9. acp => /\ InputExists(t2, index) /\ ~GetFails(c2.prevouts, index)
             /\ Input(t2, index).previous_output # Input(t, index).previous_output
                  <=> field = "previous_output" /\ at = index
             /\ Input(t2, index).sequence # Input(t, index).sequence
                  <=> field = "sequence" /\ at = index
             /\ Get(c2.prevouts, index) # Get(call.prevouts, index)
                  <=> field \in SpentFields /\ at = index
  <2> SUFFICES ASSUME acp
               PROVE  /\ InputExists(t2, index) /\ ~GetFails(c2.prevouts, index)
                      /\ Input(t2, index).previous_output # Input(t, index).previous_output
                           <=> field = "previous_output" /\ at = index
                      /\ Input(t2, index).sequence # Input(t, index).sequence
                           <=> field = "sequence" /\ at = index
                      /\ Get(c2.prevouts, index) # Get(call.prevouts, index)
                           <=> field \in SpentFields /\ at = index
    BY Zenon
  <2>1. InputExists(t, index) /\ ~GetFails(call.prevouts, index)
    BY <1>2, Zenon DEF TaprootOk
  <2>2. c2.prevouts.at = call.prevouts.at
    BY <1>1, Zenon DEF SameButPrevouts
  <2>3. /\ ~GetFails(c2.prevouts, index)
        /\ Get(c2.prevouts, index) # Get(call.prevouts, index)
             <=> field \in SpentFields /\ at = index
    BY <1>1, <1>3, <2>1, <2>2, GetDiffers, Zenon
  <2>4. /\ InputExists(t2, index)
        /\ Input(t2, index).previous_output # Input(t, index).previous_output
             <=> field = "previous_output" /\ at = index
        /\ Input(t2, index).sequence # Input(t, index).sequence
             <=> field = "sequence" /\ at = index
    BY <1>1, <2>1, ThisDiffers, Zenon DEF InputDiffers
  <2> QED BY <2>3, <2>4, Zenon
<1>10. ~acp => /\ AmountsOf(c2.prevouts.utxos) # AmountsOf(call.prevouts.utxos)
                    <=> field \in {"add_input", "value"}
               /\ ScriptsOf(c2.prevouts.utxos) # ScriptsOf(call.prevouts.utxos)
                    <=> field \in {"add_input", "script_pubkey"}
  <2> SUFFICES ASSUME ~acp
               PROVE  /\ AmountsOf(c2.prevouts.utxos) # AmountsOf(call.prevouts.utxos)
                           <=> field \in {"add_input", "value"}
                      /\ ScriptsOf(c2.prevouts.utxos) # ScriptsOf(call.prevouts.utxos)
                           <=> field \in {"add_input", "script_pubkey"}
    BY Zenon
  <2>1. IsAll(call.prevouts) /\ Len(call.prevouts.utxos) = Len(t.input)
    BY <1>2, Zenon DEF TaprootOk, CheckAll
  <2>2. field \in SpentFields => at + 1 \in 1 .. Len(call.prevouts.utxos)
    BY <1>4, <2>1, Zenon
  <2> QED BY <1>1, <1>3, <2>1, <2>2, UtxoListsDiffer, Zenon
<1>11. base = Single =>
         /\ OutputExists(t2, index) /\ Len(t.output) # index
         /\ SubSeq(t2.output, index + 1, index + 1) # SubSeq(t.output, index + 1, index + 1)
              <=> field = "output" /\ at = index
  <2> SUFFICES ASSUME base = Single
               PROVE  /\ OutputExists(t2, index) /\ Len(t.output) # index
                      /\ SubSeq(t2.output, index + 1, index + 1)
                           # SubSeq(t.output, index + 1, index + 1)
                           <=> field = "output" /\ at = index
    BY Zenon
  <2>1. OutputExists(t, index)
    BY <1>2, Zenon DEF TaprootOk
  <2>2. /\ OutputExists(t2, index)
        /\ t2.output[index + 1] # t.output[index + 1] <=> field = "output" /\ at = index
    <3>1. OutputDiffers(t, t2, field, at, index) /\ OutputThere(t, t2, field, index)
      BY <1>1, <2>1, ThisDiffers, Zenon
    <3> QED BY <2>1, <3>1 DEF OutputDiffers, OutputThere
  <2>3. /\ index + 1 \in 1 .. Len(t.output) /\ t.output \in Seq(Int)
        /\ index + 1 \in 1 .. Len(t2.output) /\ t2.output \in Seq(Int)
        /\ Len(t.output) # index
    <3>1. t.output \in Seq(Int) /\ t2.output \in Seq(Int) /\ Len(t2.output) \in Nat
      BY <1>5, TxShape, Zenon
    <3> QED BY <1>1, <2>1, <2>2, <3>1, OutputPlace, Zenon
  <2> HIDE DEF index
  <2>4. /\ SubSeq(t.output, index + 1, index + 1) = <<t.output[index + 1]>>
        /\ SubSeq(t2.output, index + 1, index + 1) = <<t2.output[index + 1]>>
    BY <1>1, <2>3, OneElement, Zenon
  <2>5. <<t2.output[index + 1]>> = <<t.output[index + 1]>>
          <=> t2.output[index + 1] = t.output[index + 1]
    BY Zenon
  <2> QED BY <2>2, <2>3, <2>4, <2>5, Zenon
<1>12. TaprootOk(t2, c2)
  <2>1. CheckAll(c2.prevouts, t2)
    <3>1. IsAll(call.prevouts) =>
            Len(call.prevouts.utxos) = Len(t.input)
      BY <1>2, Zenon DEF TaprootOk, CheckAll
    <3>2. IsAll(call.prevouts) =>
            Len(c2.prevouts.utxos) = IF field = "add_input" THEN Len(call.prevouts.utxos) + 1
                                     ELSE Len(call.prevouts.utxos)
      BY <1>3, Zenon DEF UtxosDiffer
    <3>3. IsAll(c2.prevouts) => IsAll(call.prevouts)
      BY <1>1, Zenon DEF SameButPrevouts, IsAll
    <3> QED BY <1>5, <3>1, <3>2, <3>3, SMTT(40) DEF CheckAll
  <2>2. /\ c2.type = call.type /\ c2.index = index
        /\ IsAll(c2.prevouts) <=> IsAll(call.prevouts)
    BY <1>1, Zenon DEF SameButPrevouts, IsAll
  <2> QED BY <1>2, <1>9, <1>11, <2>1, <2>2, Zenon DEF TaprootOk
<1> DEFINE old == TaprootMessage(t, call, CommonOf(t), TaprootOf(call.prevouts.utxos))
           new == TaprootMessage(t2, c2, CommonOf(t2), TaprootOf(c2.prevouts.utxos))
<1>13. Fresh(t, call).message = {old} /\ Fresh(t2, c2).message = {new}
  <2>1. TaprootError(t, call) = "" /\ TaprootError(t2, c2) = "" /\ c2.kind = "taproot"
    BY <1>1, <1>2, <1>12, TaprootSucceeds, Zenon DEF SameButPrevouts
  <2> QED BY <2>1, Zenon DEF Fresh
<1>14. old # new <=> TaprootDiffers(t, call, t2, c2)
  BY <1>1, TaprootMessagesDiffer, Zenon
<1> HIDE DEF old, new
<1>15. TaprootDiffers(t, call, t2, c2) <=> Covered(t, call, change)
  <2> HIDE DEF acp, base, index
  <2>1. TaprootDiffers(t, call, t2, c2) <=>
          \/ field \in {"version", "lock_time"}
          \/ ~acp /\ field \in {"add_input", "previous_output", "sequence", "value", "script_pubkey"}
          \/ /\ acp /\ at = index
             /\ field \in {"previous_output", "sequence", "value", "script_pubkey"}
          \/ base \notin {None, Single} /\ field \in {"add_output", "output"}
          \/ base = Single /\ field = "output" /\ at = index
    BY <1>5, <1>8, <1>9, <1>10, <1>11, Zenon DEF TaprootDiffers, SpentFields, acp, base, index
  <2> QED BY <1>7, <1>11, <2>1, Zenon DEF None, Single
<1> QED
  <2>1. {old} # {new} <=> old # new
    BY Zenon
  <2> QED BY <1>13, <1>14, <1>15, <2>1, Zenon DEF t2, c2

-----------------------------------------------------------------------------
\* What the segwit hash of a type SINGLE is made of the outputs.
SingleOf(t, index) ==
  IF OutputExists(t, index) THEN Sha256d(<<t.output[index + 1]>>) ELSE ZeroHash

\* It changes with the output and when the output comes to exist.
LEMMA SinglesDiffer ==
  ASSUME NEW t \in Transaction, NEW t2, NEW field, NEW at \in Nat, Differs(t, t2, field, at),
         InRange(t, field, at), NEW index \in Nat
  PROVE  SingleOf(t2, index) # SingleOf(t, index)
           <=> \/ field = "output" /\ at = index
               \/ field = "add_output" /\ Len(t.output) = index
<1>1. /\ OutputExists(t, index) =>
           t2.output[index + 1] # t.output[index + 1] <=> field = "output" /\ at = index
      /\ OutputExists(t2, index)
           <=> OutputExists(t, index) \/ (field = "add_output" /\ Len(t.output) = index)
  <2>1. /\ OutputExists(t, index) => OutputDiffers(t, t2, field, at, index)
        /\ OutputThere(t, t2, field, index)
    BY ThisDiffers, Zenon
  <2> QED BY <2>1 DEF OutputDiffers, OutputThere
<1>2. Len(t.output) \in Nat
  BY TxShape, Zenon
<1>3. \A x, y : Sha256d(<<x>>) = Sha256d(<<y>>) <=> x = y
  BY Zenon DEF Sha256d, Sha256, HashAgain
<1>4. \A x : Sha256d(x) # ZeroHash
  BY DEF Sha256d, Sha256, HashAgain, ZeroHash
<1>5. CASE OutputExists(t, index)
  <2>1. Len(t.output) # index
    BY <1>2, <1>5 DEF OutputExists
  <2> QED BY <1>1, <1>3, <1>5, <2>1, Zenon DEF SingleOf
<1>6. CASE ~OutputExists(t, index)
  <2>1. ~(field = "output" /\ at = index)
    BY <1>2, <1>6, SMTT(40) DEF OutputExists, InRange
  <2> QED BY <1>1, <1>4, <1>6, <2>1, Zenon DEF SingleOf
<1> QED BY <1>5, <1>6, Zenon

SegwitDiffers(t, call, t2) ==
  \/ t2.version # t.version
  \/ t2.lock_time # t.lock_time
  \/ ~AnyoneCanPay(call.type) /\ PrevoutsOf(t2) # PrevoutsOf(t)
  \/ /\ ~AnyoneCanPay(call.type) /\ Base(call.type) \notin {None, Single}
     /\ SequencesOf(t2) # SequencesOf(t)
  \/ Input(t2, call.index).previous_output # Input(t, call.index).previous_output
  \/ Input(t2, call.index).sequence # Input(t, call.index).sequence
  \/ Base(call.type) \notin {None, Single} /\ t2.output # t.output
  \/ Base(call.type) = Single /\ SingleOf(t2, call.index) # SingleOf(t, call.index)

SegwitFieldsOf(m, t, call, segwit) ==
  LET acp == AnyoneCanPay(call.type)
      base == Base(call.type)
  IN  /\ m.type = call.type /\ m.version = t.version /\ m.lock_time = t.lock_time
      /\ m.script_code = call.script /\ m.value = call.value
      /\ m.previous_output = Input(t, call.index).previous_output
      /\ m.sequence = Input(t, call.index).sequence
      /\ m.prevouts = IF acp THEN ZeroHash ELSE segwit.prevouts
      /\ m.sequences = IF acp \/ base \in {None, Single} THEN ZeroHash ELSE segwit.sequences
      /\ base \notin {None, Single} => m.outputs = segwit.outputs
      /\ base = Single => m.outputs = SingleOf(t, call.index)
      /\ base = None => m.outputs = ZeroHash

LEMMA SegwitFields ==
  ASSUME NEW t, NEW call, NEW segwit, NEW m, m = SegwitMessage(t, call, segwit)
  PROVE  SegwitFieldsOf(m, t, call, segwit)
BY DEF SegwitMessage, SegwitFieldsOf, SingleOf, None, Single

LEMMA SegwitEqual ==
  ASSUME NEW t, NEW call, NEW segwit, NEW m, m = SegwitMessage(t, call, segwit),
         NEW t2, NEW c2, NEW segwit2, NEW n, n = SegwitMessage(t2, c2, segwit2)
  PROVE  m = n <=>
           /\ m.type = n.type /\ m.version = n.version /\ m.lock_time = n.lock_time
           /\ m.script_code = n.script_code /\ m.value = n.value
           /\ m.previous_output = n.previous_output /\ m.sequence = n.sequence
           /\ m.prevouts = n.prevouts /\ m.sequences = n.sequences /\ m.outputs = n.outputs
BY Zenon DEF SegwitMessage

LEMMA SegwitMessagesDiffer ==
  ASSUME NEW t, NEW call, NEW t2, NEW c2, SameButPrevouts(call, c2), NEW m, NEW n,
         m = SegwitMessage(t, call, SegwitOf(CommonOf(t))),
         n = SegwitMessage(t2, c2, SegwitOf(CommonOf(t2)))
  PROVE  m # n <=> SegwitDiffers(t, call, t2)
<1> DEFINE acp == AnyoneCanPay(call.type)
           base == Base(call.type)
           index == call.index
           Twice(x) == HashAgain(Sha256(x))
<1>1. \A x, y : Twice(x) = Twice(y) <=> x = y
  BY Zenon DEF Sha256, HashAgain
<1> HIDE DEF Twice
<1>2. ASSUME NEW u
      PROVE  /\ SegwitOf(CommonOf(u)).prevouts = Twice(PrevoutsOf(u))
             /\ SegwitOf(CommonOf(u)).sequences = Twice(SequencesOf(u))
             /\ SegwitOf(CommonOf(u)).outputs = Twice(u.output)
  BY Zenon DEF CommonOf, SegwitOf, PrevoutsOf, SequencesOf, Twice
<1>3. /\ c2.type = call.type /\ c2.index = index
      /\ c2.script = call.script /\ c2.value = call.value
  BY Zenon DEF SameButPrevouts
<1>4. /\ m.type = call.type /\ m.version = t.version /\ m.lock_time = t.lock_time
      /\ m.script_code = call.script /\ m.value = call.value
      /\ m.previous_output = Input(t, index).previous_output
      /\ m.sequence = Input(t, index).sequence
      /\ m.prevouts = IF acp THEN ZeroHash ELSE Twice(PrevoutsOf(t))
      /\ m.sequences = IF acp \/ base \in {None, Single} THEN ZeroHash ELSE Twice(SequencesOf(t))
      /\ base \notin {None, Single} => m.outputs = Twice(t.output)
      /\ base = Single => m.outputs = SingleOf(t, index)
      /\ base = None => m.outputs = ZeroHash
  <2>1. SegwitFieldsOf(m, t, call, SegwitOf(CommonOf(t)))
    BY SegwitFields, Zenon
  <2> QED BY <1>2, <2>1, Zenon DEF SegwitFieldsOf
<1>5. /\ n.type = call.type /\ n.version = t2.version /\ n.lock_time = t2.lock_time
      /\ n.script_code = call.script /\ n.value = call.value
      /\ n.previous_output = Input(t2, index).previous_output
      /\ n.sequence = Input(t2, index).sequence
      /\ n.prevouts = IF acp THEN ZeroHash ELSE Twice(PrevoutsOf(t2))
      /\ n.sequences = IF acp \/ base \in {None, Single} THEN ZeroHash ELSE Twice(SequencesOf(t2))
      /\ base \notin {None, Single} => n.outputs = Twice(t2.output)
      /\ base = Single => n.outputs = SingleOf(t2, index)
      /\ base = None => n.outputs = ZeroHash
  <2>1. SegwitFieldsOf(n, t2, c2, SegwitOf(CommonOf(t2)))
    BY SegwitFields, Zenon
  <2> QED BY <1>2, <1>3, <2>1, Zenon DEF SegwitFieldsOf
<1> HIDE DEF acp, base, index
<1>6. m = n <=>
        /\ m.version = n.version /\ m.lock_time = n.lock_time
        /\ m.previous_output = n.previous_output /\ m.sequence = n.sequence
        /\ m.prevouts = n.prevouts /\ m.sequences = n.sequences /\ m.outputs = n.outputs
  <2>1. m.type = n.type /\ m.script_code = n.script_code /\ m.value = n.value
    BY <1>4, <1>5, ZenonT(40)
  <2> QED BY <2>1, SegwitEqual
<1>7. /\ m.prevouts = n.prevouts <=> (acp \/ PrevoutsOf(t2) = PrevoutsOf(t))
      /\ m.sequences = n.sequences
           <=> (acp \/ base \in {None, Single} \/ SequencesOf(t2) = SequencesOf(t))
  <2>1. m.prevouts = n.prevouts <=> (acp \/ PrevoutsOf(t2) = PrevoutsOf(t))
    <3>1. CASE acp
      BY <1>4, <1>5, <3>1, Zenon
    <3>2. CASE ~acp
      BY <1>1, <1>4, <1>5, <3>2, SMTT(40)
    <3> QED BY <3>1, <3>2, Zenon
  <2>2. m.sequences = n.sequences
          <=> (acp \/ base \in {None, Single} \/ SequencesOf(t2) = SequencesOf(t))
    <3>1. CASE acp \/ base \in {None, Single}
      BY <1>4, <1>5, <3>1, SMTT(40)
    <3>2. CASE ~(acp \/ base \in {None, Single})
      BY <1>1, <1>4, <1>5, <3>2, SMTT(40)
    <3> QED BY <3>1, <3>2, Zenon
  <2> QED BY <2>1, <2>2, Zenon
<1>8. m.outputs = n.outputs
        <=> /\ base \notin {None, Single} => t2.output = t.output
            /\ base = Single => SingleOf(t2, index) = SingleOf(t, index)
  BY <1>1, <1>4, <1>5 DEF None, Single
<1> QED BY <1>4, <1>5, <1>6, <1>7, <1>8, Zenon DEF SegwitDiffers, acp, base, index

\* A segwit hash changes with what its type covers and with nothing else.
LEMMA SegwitCommits ==
  ASSUME NEW t \in Transaction, t.input # <<>>, NEW call, IsCall(call), call.kind = "segwit",
         InputExists(t, call.index), NEW change \in Changes(t)
  PROVE  Fresh(t, call).message # Fresh(ChangedTx(t, change), ChangedCall(call, change)).message
           <=> Covered(t, call, change)
<1> DEFINE field == change[1]
           at == change[2]
           t2 == ChangedTx(t, change)
           c2 == ChangedCall(call, change)
           index == call.index
           acp == AnyoneCanPay(call.type)
           base == Base(call.type)
<1>1. /\ index \in Nat /\ at \in Nat /\ field \in ChangedFields
      /\ Differs(t, t2, field, at) /\ InRange(t, field, at)
      /\ SameButPrevouts(call, c2)
  BY CallShape, ChangedTxDiffers, ChangeInRange, ChangedCallSame, Zenon
<1>2. /\ t2.version # t.version <=> field = "version"
      /\ t2.lock_time # t.lock_time <=> field = "lock_time"
  BY <1>1, Zenon DEF Differs
<1>3. Covered(t, call, change)
        <=> \/ field \in {"version", "lock_time"}
            \/ field = "add_input" /\ ~acp
            \/ /\ field = "add_output"
               /\ base \notin {None, Single} \/ (base = Single /\ Len(t.output) = index)
            \/ field = "output" /\ (base \notin {None, Single} \/ (base = Single /\ at = index))
            \/ field = "previous_output" /\ (~acp \/ at = index)
            \/ field = "sequence" /\ (at = index \/ (~acp /\ base \notin {None, Single}))
  BY <1>1, Zenon DEF Covered, SpentFields, ChangedFields
<1> HIDE DEF field, at, t2, c2
<1>4. /\ PrevoutsOf(t2) # PrevoutsOf(t) <=> field \in {"add_input", "previous_output"}
      /\ SequencesOf(t2) # SequencesOf(t) <=> field \in {"add_input", "sequence"}
      /\ t2.output # t.output <=> field \in {"add_output", "output"}
  BY <1>1, ListsDiffer, Zenon
<1>5. /\ InputExists(t2, index)
      /\ Input(t2, index).previous_output # Input(t, index).previous_output
           <=> field = "previous_output" /\ at = index
      /\ Input(t2, index).sequence # Input(t, index).sequence <=> field = "sequence" /\ at = index
  BY <1>1, ThisDiffers, ZenonT(40) DEF InputDiffers
<1>6. SingleOf(t2, index) # SingleOf(t, index)
        <=> \/ field = "output" /\ at = index
            \/ field = "add_output" /\ Len(t.output) = index
  BY <1>1, SinglesDiffer
<1> DEFINE old == SegwitMessage(t, call, SegwitOf(CommonOf(t)))
           new == SegwitMessage(t2, c2, SegwitOf(CommonOf(t2)))
<1>7. Fresh(t, call).message = {old} /\ Fresh(t2, c2).message = {new}
  <2>1. SegwitError(t, call) = "" /\ SegwitError(t2, c2) = "" /\ c2.kind = "segwit"
    BY <1>1, <1>5, Zenon DEF SameButPrevouts, SegwitError
  <2> QED BY <2>1, Zenon DEF Fresh
<1>8. old # new <=> SegwitDiffers(t, call, t2)
  BY <1>1, SegwitMessagesDiffer, Zenon
<1> HIDE DEF old, new
<1>9. SegwitDiffers(t, call, t2) <=> Covered(t, call, change)
  <2> HIDE DEF acp, base, index
  <2>1. SegwitDiffers(t, call, t2) <=>
          \/ field \in {"version", "lock_time"}
          \/ ~acp /\ field \in {"add_input", "previous_output"}
          \/ ~acp /\ base \notin {None, Single} /\ field \in {"add_input", "sequence"}
          \/ at = index /\ field \in {"previous_output", "sequence"}
          \/ base \notin {None, Single} /\ field \in {"add_output", "output"}
          \/ /\ base = Single
             /\ \/ field = "output" /\ at = index
                \/ field = "add_output" /\ Len(t.output) = index
    BY <1>2, <1>4, <1>5, <1>6, Zenon DEF SegwitDiffers, acp, base, index
  <2> QED BY <1>3, <2>1, Zenon DEF None, Single
<1> QED
  <2>1. {old} # {new} <=> old # new
    BY Zenon
  <2> QED BY <1>7, <1>8, <1>9, <2>1, Zenon DEF t2, c2

-----------------------------------------------------------------------------
\* The inputs and outputs of the transaction that a legacy hash is made of.
SignedInput(t, call, i) ==
  [previous_output |-> t.input[i].previous_output,
   script_sig |-> IF i = call.index + 1 THEN call.script ELSE NoScript,
   sequence |-> LegacySequence(t, call, i)]
SignedInputs(t, call) ==
  IF AnyoneCanPay(FromConsensus(call.type)) THEN <<SignedInput(t, call, call.index + 1)>>
  ELSE [i \in DOMAIN t.input |-> SignedInput(t, call, i)]
SignedOutputs(t, call) ==
  CASE Base(FromConsensus(call.type)) = All -> t.output
    [] Base(FromConsensus(call.type)) = None -> <<>>
    [] Base(FromConsensus(call.type)) = Single ->
         [j \in 1 .. call.index + 1 |-> IF j = call.index + 1 THEN t.output[j] ELSE NullOutput]
SignedTx(t, call) ==
  [bug |-> FALSE, version |-> t.version, lock_time |-> t.lock_time,
   input |-> SignedInputs(t, call), output |-> SignedOutputs(t, call),
   type |-> LegacyType(call.type)]

LEMMA LegacyShape ==
  ASSUME NEW t, NEW call
  PROVE  /\ SingleBug(t, call) => LegacyMessage(t, call) = [bug |-> TRUE]
         /\ ~SingleBug(t, call) => LegacyMessage(t, call) = SignedTx(t, call)
BY Zenon DEF LegacyMessage, SignedTx, SignedInputs, SignedInput, SignedOutputs

LEMMA SignedTxsDiffer ==
  ASSUME NEW t, NEW call, NEW t2, NEW c2
  PROVE  SignedTx(t, call) = SignedTx(t2, c2)
           <=> /\ t2.version = t.version /\ t2.lock_time = t.lock_time
               /\ SignedInputs(t2, c2) = SignedInputs(t, call)
               /\ SignedOutputs(t2, c2) = SignedOutputs(t, call)
               /\ c2.type = call.type
BY Zenon DEF SignedTx, LegacyType

LEMMA BugNotSigned ==
  ASSUME NEW t, NEW call
  PROVE  SignedTx(t, call) # [bug |-> TRUE]
<1>1. SignedTx(t, call).bug = FALSE
  BY Zenon DEF SignedTx
<1>2. [bug |-> TRUE].bug = TRUE
  BY Zenon
<1> QED BY <1>1, <1>2, Zenon

LEMMA SignedInputsDiffer ==
  ASSUME NEW t \in Transaction, NEW t2, NEW field, NEW at \in Nat, Differs(t, t2, field, at),
         InRange(t, field, at), NEW call, IsCall(call), InputExists(t, call.index), NEW c2,
         SameButPrevouts(call, c2)
  PROVE  LET acp == AnyoneCanPay(FromConsensus(call.type))
             allOutputs == Base(FromConsensus(call.type)) \notin {None, Single}
         IN  SignedInputs(t2, c2) # SignedInputs(t, call)
               <=> \/ field = "add_input" /\ ~acp
                   \/ field = "previous_output" /\ (~acp \/ at = call.index)
                   \/ field = "sequence" /\ (at = call.index \/ (~acp /\ allOutputs))
<1> DEFINE acp == AnyoneCanPay(FromConsensus(call.type))
           allOutputs == Base(FromConsensus(call.type)) \notin {None, Single}
           index == call.index
<1>1. /\ index \in Nat /\ index + 1 \in 1 .. Len(t.input)
      /\ Len(t.input) \in Nat /\ DOMAIN t.input = 1 .. Len(t.input)
      /\ DOMAIN t2.input = 1 .. Len(t2.input)
      /\ Len(t2.input) = IF field = "add_input" THEN Len(t.input) + 1 ELSE Len(t.input)
  <2>1. index \in Nat /\ t2 \in Transaction
    BY CallShape, Zenon DEF Differs
  <2>2. /\ t.input \in Seq(TxIn) /\ Len(t.input) \in Nat
        /\ t2.input \in Seq(TxIn) /\ Len(t2.input) \in Nat
    BY <2>1, TxShape, Zenon
  <2> QED BY <2>1, <2>2, SMTT(40) DEF InputExists, Differs
<1>2. ASSUME NEW j \in 1 .. Len(t.input)
      PROVE  SignedInput(t2, c2, j) # SignedInput(t, call, j)
               <=> /\ j = at + 1
                   /\ \/ field = "previous_output"
                      \/ field = "sequence" /\ (at = index \/ allOutputs)
  <2>1. /\ t2.input[j].previous_output # t.input[j].previous_output
             <=> field = "previous_output" /\ j = at + 1
        /\ t2.input[j].sequence # t.input[j].sequence <=> field = "sequence" /\ j = at + 1
    BY <1>2, Zenon DEF Differs
  <2>2. LegacySequence(t2, c2, j) # LegacySequence(t, call, j)
          <=> j = at + 1 /\ field = "sequence" /\ (at = index \/ allOutputs)
    BY <1>1, <2>1 DEF LegacySequence, SameButPrevouts
  <2>3. SignedInput(t2, c2, j) = SignedInput(t, call, j)
          <=> /\ t2.input[j].previous_output = t.input[j].previous_output
              /\ LegacySequence(t2, c2, j) = LegacySequence(t, call, j)
    BY Zenon DEF SignedInput, SameButPrevouts
  <2> QED BY <2>1, <2>2, <2>3, Zenon
<1>3. CASE acp
  <2>1. /\ SignedInputs(t, call) = <<SignedInput(t, call, index + 1)>>
        /\ SignedInputs(t2, c2) = <<SignedInput(t2, c2, index + 1)>>
    BY <1>3, Zenon DEF SignedInputs, SameButPrevouts
  <2>2. \A x, y : <<x>> = <<y>> <=> x = y
    BY Zenon
  <2>3. SignedInput(t2, c2, index + 1) # SignedInput(t, call, index + 1)
          <=> at = index /\ field \in {"previous_output", "sequence"}
    BY <1>1, <1>2, SMTT(40)
  <2> QED BY <1>3, <2>1, <2>2, <2>3, Zenon
<1>4. CASE ~acp
  <2>1. /\ SignedInputs(t, call) = [i \in 1 .. Len(t.input) |-> SignedInput(t, call, i)]
        /\ SignedInputs(t2, c2) = [i \in 1 .. Len(t2.input) |-> SignedInput(t2, c2, i)]
    BY <1>1, <1>4, Zenon DEF SignedInputs, SameButPrevouts
  <2>2. CASE field = "add_input"
    <3>1. Len(t2.input) \in DOMAIN SignedInputs(t2, c2) \ DOMAIN SignedInputs(t, call)
      BY <1>1, <2>1, <2>2, SMTT(40)
    <3> QED BY <1>4, <2>2, <3>1, ZenonT(40)
  <2>3. CASE \/ field = "previous_output"
             \/ field = "sequence" /\ (at = index \/ allOutputs)
    <3>1. at + 1 \in 1 .. Len(t.input) /\ Len(t2.input) = Len(t.input)
      BY <1>1, <2>3, Zenon DEF InRange
    <3>2. SignedInputs(t2, c2)[at + 1] # SignedInputs(t, call)[at + 1]
      BY <1>2, <2>1, <2>3, <3>1, Zenon
    <3> QED BY <1>4, <2>3, <3>2, Zenon
  <2>4. CASE /\ field \notin {"add_input", "previous_output"}
             /\ ~(field = "sequence" /\ (at = index \/ allOutputs))
    <3>1. \A j \in 1 .. Len(t.input) : SignedInput(t2, c2, j) = SignedInput(t, call, j)
      BY <1>2, <2>4, Zenon
    <3>2. Len(t2.input) = Len(t.input)
      BY <1>1, <2>4, Zenon
    <3>3. SignedInputs(t2, c2) = SignedInputs(t, call)
      BY <2>1, <3>1, <3>2, Zenon
    <3> QED BY <2>4, <3>3, Zenon
  <2> QED BY <2>2, <2>3, <2>4, Zenon
<1> QED BY <1>3, <1>4, ZenonT(40)

LEMMA SignedOutputsDiffer ==
  ASSUME NEW t \in Transaction, NEW t2, NEW field, NEW at \in Nat, Differs(t, t2, field, at),
         InRange(t, field, at), NEW call, IsCall(call), ~SingleBug(t, call), NEW c2,
         SameButPrevouts(call, c2)
  PROVE  LET base == Base(FromConsensus(call.type))
         IN  SignedOutputs(t2, c2) # SignedOutputs(t, call)
               <=> \/ base = All /\ field \in {"add_output", "output"}
                   \/ base = Single /\ field = "output" /\ at = call.index
<1> DEFINE base == Base(FromConsensus(call.type))
           index == call.index
<1>1. index \in Nat /\ c2.index = index /\ c2.type = call.type
  BY CallShape, Zenon DEF SameButPrevouts
<1>2. base \in {All, None, Single}
  BY CallShape, Understood, TypeFlags, Zenon DEF TapSighashType
<1>3. CASE base = All
  <2>1. SignedOutputs(t, call) = t.output /\ SignedOutputs(t2, c2) = t2.output
    BY <1>1, <1>3, SMTT(40) DEF SignedOutputs, All, None, Single
  <2>2. t2.output # t.output <=> field \in {"add_output", "output"}
    BY ListsDiffer, Zenon
  <2> QED BY <1>3, <2>1, <2>2, Zenon DEF All, Single
<1>4. CASE base = None
  <2>1. SignedOutputs(t, call) = <<>> /\ SignedOutputs(t2, c2) = <<>>
    BY <1>1, <1>4, SMTT(40) DEF SignedOutputs, All, None, Single
  <2> QED BY <1>4, <2>1, SMTT(40) DEF All, None, Single
<1>5. CASE base = Single
  <2> DEFINE Outs(u) == [j \in 1 .. index + 1 |->
                           IF j = index + 1 THEN u.output[j] ELSE NullOutput]
  <2>1. SignedOutputs(t, call) = Outs(t) /\ SignedOutputs(t2, c2) = Outs(t2)
    BY <1>1, <1>5 DEF SignedOutputs, All, None, Single
  <2>2. OutputExists(t, index)
    BY <1>5, ZenonT(40) DEF SingleBug
  <2>3. t2.output[index + 1] # t.output[index + 1] <=> field = "output" /\ at = index
    <3>1. OutputDiffers(t, t2, field, at, index)
      BY <1>1, <2>2, ThisDiffers, Zenon
    <3> QED BY <3>1 DEF OutputDiffers
  <2>4. Outs(t2) # Outs(t) <=> t2.output[index + 1] # t.output[index + 1]
    <3>1. CASE t2.output[index + 1] = t.output[index + 1]
      BY <1>1, <3>1, Zenon
    <3>2. CASE t2.output[index + 1] # t.output[index + 1]
      <4>1. Outs(t)[index + 1] = t.output[index + 1] /\ Outs(t2)[index + 1] = t2.output[index + 1]
        BY <1>1
      <4> QED BY <3>2, <4>1, Zenon
    <3> QED BY <3>1, <3>2, Zenon
  <2> HIDE DEF Outs
  <2> QED BY <1>5, <2>1, <2>3, <2>4, SMTT(40) DEF All, Single
<1> QED BY <1>2, <1>3, <1>4, <1>5, Zenon

\* A legacy hash changes with what its type covers and with nothing else.
LEMMA LegacyCommits ==
  ASSUME NEW t \in Transaction, t.input # <<>>, NEW call, IsCall(call), call.kind = "legacy",
         InputExists(t, call.index), NEW change \in Changes(t)
  PROVE  Fresh(t, call).message # Fresh(ChangedTx(t, change), ChangedCall(call, change)).message
           <=> Covered(t, call, change)
<1> DEFINE field == change[1]
           at == change[2]
           t2 == ChangedTx(t, change)
           c2 == ChangedCall(call, change)
           index == call.index
           acp == AnyoneCanPay(FromConsensus(call.type))
           base == Base(FromConsensus(call.type))
           allOutputs == base \notin {None, Single}
           appears == field = "add_output" /\ Len(t.output) = index
<1>1. /\ index \in Nat /\ at \in Nat /\ field \in ChangedFields
      /\ Differs(t, t2, field, at) /\ InRange(t, field, at)
      /\ SameButPrevouts(call, c2)
  BY CallShape, ChangedTxDiffers, ChangeInRange, ChangedCallSame, Zenon
<1>2. /\ t2.version # t.version <=> field = "version"
      /\ t2.lock_time # t.lock_time <=> field = "lock_time"
  BY <1>1, Zenon DEF Differs
<1>3. base \in {All, None, Single} /\ (allOutputs <=> base = All)
  <2>1. base \in {All, None, Single}
    BY CallShape, Understood, TypeFlags, Zenon DEF TapSighashType
  <2> HIDE DEF base
  <2> QED BY <2>1 DEF All, None, Single
<1>4. Covered(t, call, change)
        <=> \/ field = "add_output" /\ (allOutputs \/ (base = Single /\ Len(t.output) = index))
            \/ /\ ~SingleBug(t, call)
               /\ \/ field \in {"version", "lock_time"}
                  \/ field = "add_input" /\ ~acp
                  \/ field = "output" /\ (allOutputs \/ (base = Single /\ at = index))
                  \/ field = "previous_output" /\ (~acp \/ at = index)
                  \/ field = "sequence" /\ (at = index \/ (~acp /\ allOutputs))
  BY <1>1, Zenon DEF Covered, SpentFields, ChangedFields
<1> HIDE DEF field, at, t2, c2
<1>5. /\ InputExists(t2, index)
      /\ OutputExists(t2, index) <=> OutputExists(t, index) \/ appears
  <2>1. InputDiffers(t, t2, field, at, index) /\ OutputThere(t, t2, field, index)
    BY <1>1, ThisDiffers, Zenon
  <2> QED BY <2>1 DEF InputDiffers, OutputThere
<1>6. /\ SingleBug(t2, c2) <=> base = Single /\ ~OutputExists(t, index) /\ ~appears
      /\ SingleBug(t, call) <=> base = Single /\ ~OutputExists(t, index)
  BY <1>1, <1>5, Zenon DEF SingleBug, SameButPrevouts
<1>7. /\ Fresh(t, call).message = {LegacyMessage(t, call)}
      /\ Fresh(t2, c2).message = {LegacyMessage(t2, c2)}
  <2>1. LegacyError(t, call) = "" /\ LegacyError(t2, c2) = "" /\ c2.kind = "legacy"
    BY <1>1, <1>5, Zenon DEF SameButPrevouts, LegacyError
  <2> QED BY <2>1, Zenon DEF Fresh
<1>8. ASSUME SingleBug(t, call)
      PROVE  LegacyMessage(t, call) # LegacyMessage(t2, c2) <=> Covered(t, call, change)
  <2>1. Covered(t, call, change) <=> appears
    BY <1>3, <1>4, <1>6, <1>8, ZenonT(40) DEF All, Single
  <2>2. LegacyMessage(t, call) = [bug |-> TRUE]
    BY <1>8, LegacyShape, Zenon
  <2>3. CASE appears
    <3>1. LegacyMessage(t2, c2) = SignedTx(t2, c2)
      BY <1>6, <2>3, LegacyShape, Zenon
    <3> QED BY <2>1, <2>2, <2>3, <3>1, BugNotSigned, Zenon
  <2>4. CASE ~appears
    <3>1. LegacyMessage(t2, c2) = [bug |-> TRUE]
      BY <1>6, <1>8, <2>4, LegacyShape, Zenon
    <3> QED BY <2>1, <2>2, <2>4, <3>1, Zenon
  <2> QED BY <2>3, <2>4, Zenon
<1>9. ASSUME ~SingleBug(t, call)
      PROVE  LegacyMessage(t, call) # LegacyMessage(t2, c2) <=> Covered(t, call, change)
  <2>1. LegacyMessage(t, call) = SignedTx(t, call) /\ LegacyMessage(t2, c2) = SignedTx(t2, c2)
    BY <1>6, <1>9, LegacyShape, ZenonT(40)
  <2>2. SignedInputs(t2, c2) # SignedInputs(t, call)
          <=> \/ field = "add_input" /\ ~acp
              \/ field = "previous_output" /\ (~acp \/ at = index)
              \/ field = "sequence" /\ (at = index \/ (~acp /\ allOutputs))
    BY <1>1, SignedInputsDiffer, SMTT(60)
  <2>3. SignedOutputs(t2, c2) # SignedOutputs(t, call)
          <=> \/ base = All /\ field \in {"add_output", "output"}
              \/ base = Single /\ field = "output" /\ at = index
    BY <1>1, <1>9, SignedOutputsDiffer, SMTT(40)
  <2>4. c2.type = call.type
    BY <1>1, ZenonT(40) DEF SameButPrevouts
  <2>5. base = Single => Len(t.output) # index
    <3>1. Len(t.output) \in Nat
      BY TxShape, Zenon
    <3> QED BY <1>1, <1>6, <1>9, <3>1, SMTT(40) DEF OutputExists
  <2> HIDE DEF acp, base, index, appears
  <2>6. SignedTx(t, call) # SignedTx(t2, c2)
          <=> \/ field \in {"version", "lock_time"}
              \/ SignedInputs(t2, c2) # SignedInputs(t, call)
              \/ SignedOutputs(t2, c2) # SignedOutputs(t, call)
    <3>1. SignedTx(t, call) = SignedTx(t2, c2)
            <=> /\ t2.version = t.version /\ t2.lock_time = t.lock_time
                /\ SignedInputs(t2, c2) = SignedInputs(t, call)
                /\ SignedOutputs(t2, c2) = SignedOutputs(t, call)
                /\ c2.type = call.type
      BY SignedTxsDiffer
    <3> QED BY <1>2, <2>4, <3>1, ZenonT(40)
  <2>7. SignedTx(t, call) # SignedTx(t2, c2) <=> Covered(t, call, change)
    BY <1>3, <1>4, <1>9, <2>2, <2>3, <2>5, <2>6, ZenonT(40)
  <2> QED BY <2>1, <2>7, Zenon
<1> QED
  <2>1. \A x, y : {x} # {y} <=> x # y
    BY Zenon
  <2>2. LegacyMessage(t, call) # LegacyMessage(t2, c2) <=> Covered(t, call, change)
    BY <1>8, <1>9, Zenon
  <2> QED BY <1>7, <2>1, <2>2, Zenon DEF t2, c2

-----------------------------------------------------------------------------
\* The hashes that two calls of a kind get for one transaction are equal only
\* where HashesDistinct says so.
OnceSpent(t) ==
  \A i, j \in DOMAIN t.input : t.input[i].previous_output = t.input[j].previous_output => i = j

LEMMA OtherInput ==
  ASSUME NEW t \in Transaction, OnceSpent(t), NEW i \in Nat, NEW j \in Nat,
         InputExists(t, i), InputExists(t, j), i # j
  PROVE  Input(t, i).previous_output # Input(t, j).previous_output
<1>1. i + 1 \in DOMAIN t.input /\ j + 1 \in DOMAIN t.input
  BY TxShape DEF InputExists
<1> QED BY <1>1 DEF OnceSpent, Input

LEMMA TaprootDistinct ==
  ASSUME NEW t \in Transaction, OnceSpent(t), NEW call, IsCall(call), NEW c2, IsCall(c2),
         call.kind = "taproot", c2.kind = "taproot", Asked(c2) # Asked(call),
         TaprootOk(t, call), TaprootOk(t, c2), NEW c, NEW p, NEW d, NEW q,
         NEW m, m = TaprootMessage(t, call, c, p)
  PROVE  m # TaprootMessage(t, c2, d, q)
<1>1. SUFFICES ASSUME m = TaprootMessage(t, c2, d, q)
               PROVE  FALSE
  BY Zenon
<1>2. /\ m.type = call.type /\ m.annex = call.annex /\ m.leaf = call.leaf
      /\ m.index = IF AnyoneCanPay(call.type) THEN {} ELSE {call.index}
      /\ m.this = IF AnyoneCanPay(call.type) THEN {ThisInput(t, call)} ELSE {}
  <2>1. TaprootFieldsOf(m, t, call, c, p)
    BY TaprootFields, Zenon
  <2> QED BY <2>1, Zenon DEF TaprootFieldsOf
<1>3. /\ m.type = c2.type /\ m.annex = c2.annex /\ m.leaf = c2.leaf
      /\ m.index = IF AnyoneCanPay(c2.type) THEN {} ELSE {c2.index}
      /\ m.this = IF AnyoneCanPay(c2.type) THEN {ThisInput(t, c2)} ELSE {}
  <2>1. TaprootFieldsOf(m, t, c2, d, q)
    BY <1>1, TaprootFields, Zenon
  <2> QED BY <2>1, Zenon DEF TaprootFieldsOf
<1>4. call.script = c2.script /\ call.value = c2.value
  BY Zenon DEF IsCall
<1>5. call.index # c2.index
  BY <1>2, <1>3, <1>4, Zenon DEF Asked
<1>6. call.index \in Nat /\ c2.index \in Nat
  BY CallShape, Zenon
<1>7. CASE ~AnyoneCanPay(call.type)
  BY <1>2, <1>3, <1>5, <1>7, Zenon
<1>8. CASE AnyoneCanPay(call.type)
  <2>1. ThisInput(t, call) = ThisInput(t, c2)
    BY <1>2, <1>3, <1>8, Zenon
  <2>2. Input(t, call.index).previous_output = Input(t, c2.index).previous_output
    BY <2>1, Zenon DEF ThisInput
  <2>3. InputExists(t, call.index) /\ InputExists(t, c2.index)
    BY <1>2, <1>3, <1>8, Zenon DEF TaprootOk
  <2> QED BY <1>5, <1>6, <2>2, <2>3, OtherInput, Zenon
<1> QED BY <1>7, <1>8, Zenon

LEMMA SegwitDistinct ==
  ASSUME NEW t \in Transaction, OnceSpent(t), NEW call, IsCall(call), NEW c2, IsCall(c2),
         call.kind = "segwit", c2.kind = "segwit", Asked(c2) # Asked(call),
         InputExists(t, call.index), InputExists(t, c2.index), NEW s, NEW r,
         NEW m, m = SegwitMessage(t, call, s)
  PROVE  m # SegwitMessage(t, c2, r)
<1>1. SUFFICES ASSUME m = SegwitMessage(t, c2, r)
               PROVE  FALSE
  BY Zenon
<1>2. /\ m.type = call.type /\ m.script_code = call.script /\ m.value = call.value
      /\ m.previous_output = Input(t, call.index).previous_output
  <2>1. SegwitFieldsOf(m, t, call, s)
    BY SegwitFields, Zenon
  <2> QED BY <2>1, Zenon DEF SegwitFieldsOf
<1>3. /\ m.type = c2.type /\ m.script_code = c2.script /\ m.value = c2.value
      /\ m.previous_output = Input(t, c2.index).previous_output
  <2>1. SegwitFieldsOf(m, t, c2, r)
    BY <1>1, SegwitFields, Zenon
  <2> QED BY <2>1, Zenon DEF SegwitFieldsOf
<1>4. call.annex = c2.annex /\ call.leaf = c2.leaf
  BY Zenon DEF IsCall
<1>5. call.index # c2.index
  BY <1>2, <1>3, <1>4, Zenon DEF Asked
<1>6. call.index \in Nat /\ c2.index \in Nat
  BY CallShape, Zenon
<1> QED BY <1>2, <1>3, <1>5, <1>6, OtherInput, Zenon

LEMMA LegacyDistinct ==
  ASSUME NEW t \in Transaction, OnceSpent(t), NEW call, IsCall(call), NEW c2, IsCall(c2),
         call.kind = "legacy", c2.kind = "legacy", Asked(c2) # Asked(call),
         InputExists(t, call.index), InputExists(t, c2.index),
         LegacyMessage(t, call) = LegacyMessage(t, c2)
  PROVE  \/ SingleBug(t, call) /\ SingleBug(t, c2)
         \/ call.type = c2.type /\ Unmarked(call) /\ Unmarked(c2)
<1>1. SingleBug(t, call) <=> SingleBug(t, c2)
  BY LegacyShape, BugNotSigned, Zenon
<1>2. SUFFICES ASSUME ~SingleBug(t, call), ~SingleBug(t, c2)
               PROVE  call.type = c2.type /\ Unmarked(call) /\ Unmarked(c2)
  BY <1>1, Zenon
<1>3. SignedTx(t, call) = SignedTx(t, c2)
  BY <1>2, LegacyShape, Zenon
<1>4. /\ SignedInputs(t, c2) = SignedInputs(t, call)
      /\ SignedOutputs(t, c2) = SignedOutputs(t, call)
      /\ c2.type = call.type
  <2>1. SignedTx(t, call) = SignedTx(t, c2)
          <=> /\ t.version = t.version /\ t.lock_time = t.lock_time
              /\ SignedInputs(t, c2) = SignedInputs(t, call)
              /\ SignedOutputs(t, c2) = SignedOutputs(t, call)
              /\ c2.type = call.type
    BY SignedTxsDiffer, SMTT(60)
  <2> QED BY <1>3, <2>1, Zenon
<1>5. /\ call.index \in Nat /\ c2.index \in Nat
      /\ call.index + 1 \in DOMAIN t.input /\ c2.index + 1 \in DOMAIN t.input
  BY CallShape, TxShape DEF InputExists
<1>6. \A i \in DOMAIN t.input :
        SignedInput(t, call, i).script_sig = IF i = call.index + 1 THEN call.script ELSE NoScript
  BY Zenon DEF SignedInput
<1>7. \A i \in DOMAIN t.input :
        SignedInput(t, c2, i).script_sig = IF i = c2.index + 1 THEN c2.script ELSE NoScript
  BY Zenon DEF SignedInput
<1>8. ~(call.index = c2.index /\ call.script = c2.script)
  <2>1. call.value = c2.value /\ call.annex = c2.annex /\ call.leaf = c2.leaf
    BY Zenon DEF IsCall
  <2> QED BY <1>4, <2>1, Zenon DEF Asked
<1>9. CASE AnyoneCanPay(FromConsensus(call.type))
  <2>1. SignedInput(t, call, call.index + 1) = SignedInput(t, c2, c2.index + 1)
    <3>1. <<SignedInput(t, call, call.index + 1)>> = <<SignedInput(t, c2, c2.index + 1)>>
      BY <1>4, <1>9, Zenon DEF SignedInputs
    <3> QED BY <3>1, Zenon
  <2>2. call.script = c2.script
    BY <1>5, <1>6, <1>7, <2>1, Zenon
  <2>3. Input(t, call.index).previous_output = Input(t, c2.index).previous_output
    BY <2>1, Zenon DEF SignedInput, Input
  <2> QED BY <1>5, <1>8, <2>2, <2>3, OtherInput, ZenonT(40)
<1>10. CASE ~AnyoneCanPay(FromConsensus(call.type))
  <2>1. /\ SignedInputs(t, call) = [i \in DOMAIN t.input |-> SignedInput(t, call, i)]
        /\ SignedInputs(t, c2) = [i \in DOMAIN t.input |-> SignedInput(t, c2, i)]
    BY <1>4, <1>10, Zenon DEF SignedInputs
  <2>2. ASSUME NEW i \in DOMAIN t.input
        PROVE  SignedInput(t, call, i) = SignedInput(t, c2, i)
    <3>1. /\ SignedInputs(t, call)[i] = SignedInput(t, call, i)
          /\ SignedInputs(t, c2)[i] = SignedInput(t, c2, i)
      BY <2>1, <2>2, ZenonT(40)
    <3> QED BY <1>4, <3>1, Zenon
  <2>3. /\ call.script = IF call.index = c2.index THEN c2.script ELSE NoScript
        /\ c2.script = IF call.index = c2.index THEN call.script ELSE NoScript
    BY <1>5, <1>6, <1>7, <2>2, SMTT(40)
  <2>4. call.index # c2.index /\ call.script = NoScript /\ c2.script = NoScript
    BY <1>8, <2>3, ZenonT(40)
  <2>5. Base(FromConsensus(call.type)) # Single
    <3>1. SUFFICES ASSUME Base(FromConsensus(call.type)) = Single
                   PROVE  FALSE
      BY Zenon
    <3>2. DOMAIN SignedOutputs(t, call) = 1 .. call.index + 1
      BY <3>1 DEF SignedOutputs, All, None, Single
    <3>3. DOMAIN SignedOutputs(t, c2) = 1 .. c2.index + 1
      BY <1>4, <3>1 DEF SignedOutputs, All, None, Single
    <3>4. 1 .. call.index + 1 = 1 .. c2.index + 1
      BY <1>4, <3>2, <3>3, Zenon
    <3> QED BY <1>5, <2>4, <3>4, SMTT(40)
  <2>6. FromConsensus(call.type) \in {All, None}
    BY <1>10, <2>5, CallShape, Understood, TypeFlags, Zenon DEF TapSighashType
  <2> QED BY <1>4, <2>4, <2>6, Zenon DEF Unmarked
<1> QED BY <1>9, <1>10, Zenon

-----------------------------------------------------------------------------
(***************************************************************************)
(* Next to what the caches hold, the invariant says what a result was made *)
(* of: a taproot hash over all prevouts may have been made from hashes of  *)
(* other prevouts than those of its call, but from this transaction and    *)
(* this call.                                                              *)
(***************************************************************************)

ResultsOf(t, results) ==
  /\ t.input # <<>> /\ OnceSpent(t)
  /\ \A l \in results :
       /\ l.message # {} => l.error = ""
       /\ l.call.kind = "taproot" =>
            \A m \in l.message : \E c, p : m = TaprootMessage(t, l.call, c, p)
ResultsRight == ResultsOf(tx, last)

LEMMA FirstResults == Init => ResultsRight
BY SighashConstants, Zenon DEF Init, ResultsRight, ResultsOf, OnceSpent

\* A call leaves such a result when its message is as the invariant says.
LEMMA ReturnRight ==
  ASSUME ResultsRight, NEW call, NEW error, NEW message, tx' = tx, Return(call, error, message),
         call.kind = "taproot" => \E c, p : message = TaprootMessage(tx, call, c, p)
  PROVE  ResultsRight'
<1> DEFINE messages == IF error = "" THEN {message} ELSE {}
<1>1. last' = {[call |-> call, error |-> error, message |-> messages]}
  BY Zenon DEF Return
<1>2. /\ messages # {} => error = ""
      /\ \A m \in messages : m = message
  BY Zenon
<1> HIDE DEF messages
<1>3. \A l \in last' : l.call = call /\ l.error = error /\ l.message = messages
  BY <1>1, OneResult, Zenon
<1>4. tx'.input # <<>> /\ OnceSpent(tx')
  BY Zenon DEF ResultsRight, ResultsOf
<1>5. ASSUME NEW l \in last'
      PROVE  /\ l.message # {} => l.error = ""
             /\ l.call.kind = "taproot" =>
                  \A m \in l.message : \E c, p : m = TaprootMessage(tx', l.call, c, p)
  <2>1. l.call = call /\ l.error = error /\ l.message = messages
    BY <1>3, <1>5, Zenon
  <2>2. l.message # {} => l.error = ""
    BY <1>2, <2>1, Zenon
  <2>3. ASSUME l.call.kind = "taproot", NEW m \in l.message
        PROVE  \E c, p : m = TaprootMessage(tx', l.call, c, p)
    <3>1. PICK c, p : message = TaprootMessage(tx, call, c, p)
      BY <2>1, <2>3, Zenon
    <3>2. m = TaprootMessage(tx', l.call, c, p)
      BY <1>2, <2>1, <2>3, <3>1, Zenon
    <3> QED BY <3>2, Zenon
  <2> QED BY <2>2, <2>3, Zenon
<1> QED BY <1>4, <1>5, Zenon DEF ResultsRight, ResultsOf

\* The three hash functions leave such results.
LEMMA TaprootResults ==
  ASSUME ResultsRight, NEW call, TaprootSignatureHash(call)
  PROVE  ResultsRight'
<1>1. tx' = tx
  BY Zenon DEF TaprootSignatureHash
<1>2. PICK c, p : Return(call, TaprootError(tx, call), TaprootMessage(tx, call, c, p))
  BY Zenon DEF TaprootSignatureHash
<1> QED BY <1>1, <1>2, ReturnRight, Zenon

LEMMA SegwitResults ==
  ASSUME ResultsRight, NEW call, SegwitSignatureHash(call)
  PROVE  ResultsRight'
<1>1. tx' = tx /\ call.kind = "segwit"
  BY Zenon DEF SegwitSignatureHash
<1>2. PICK s : Return(call, SegwitError(tx, call), SegwitMessage(tx, call, s))
  BY Zenon DEF SegwitSignatureHash
<1>3. call.kind # "taproot"
  BY <1>1, Zenon
<1> QED BY <1>1, <1>2, <1>3, ReturnRight, Zenon

LEMMA LegacyResults ==
  ASSUME ResultsRight, NEW call, LegacySignatureHash(call)
  PROVE  ResultsRight'
<1>1. tx' = tx /\ call.kind = "legacy"
  BY Zenon DEF LegacySignatureHash
<1>2. Return(call, LegacyError(tx, call), LegacyMessage(tx, call))
  BY Zenon DEF LegacySignatureHash
<1>3. call.kind # "taproot"
  BY <1>1, Zenon
<1> QED BY <1>1, <1>2, <1>3, ReturnRight, Zenon

\* witness_mut changes nothing that was hashed.
LEMMA WitnessResults ==
  ASSUME CachesRight, CacheTransparent, ResultsRight, NEW index \in 0 .. Len(tx.input),
         WitnessMut(index)
  PROVE  ResultsRight'
<1>1. tx' \in Transaction /\ SameToSign(tx, tx') /\ tx \in Transaction /\ last' = last
  BY WitnessKeeps, Zenon DEF CachesRight, WitnessMut
<1>2. tx'.input # <<>> /\ OnceSpent(tx')
  <2>1. Len(tx'.input) = Len(tx.input) /\ Len(tx.input) # 0
    <3>1. tx.input # <<>> /\ Len(tx'.input) = Len(tx.input)
      BY <1>1, Zenon DEF SameToSign, ResultsRight, ResultsOf
    <3> QED BY <1>1, <3>1, TxShape, SMTT(40)
  <2>2. tx'.input # <<>>
    BY <2>1, Zenon
  <2>3. OnceSpent(tx')
    BY <1>1, Zenon DEF SameToSign, ResultsRight, ResultsOf, OnceSpent
  <2> QED BY <2>2, <2>3, Zenon
<1>3. ASSUME NEW l \in last, l.call.kind = "taproot", NEW m \in l.message
      PROVE  \E c, p : m = TaprootMessage(tx', l.call, c, p)
  <2>1. PICK c, p : m = TaprootMessage(tx, l.call, c, p)
    BY <1>3, Zenon DEF ResultsRight, ResultsOf
  <2>2. l.error = ""
    BY <1>3, Zenon DEF ResultsRight, ResultsOf
  <2>3. l.error = TaprootError(tx, l.call)
    <3>1. l.error = Fresh(tx, l.call).error
      BY Zenon DEF CacheTransparent
    <3>2. Fresh(tx, l.call).error = TaprootError(tx, l.call)
      BY <1>3, Zenon DEF Fresh
    <3> QED BY <3>1, <3>2, Zenon
  <2>4. IsCall(l.call) /\ TaprootOk(tx, l.call)
    BY <2>2, <2>3, TaprootSucceeds, Zenon DEF CachesRight
  <2>5. TaprootSame(tx, tx', l.call)
    BY <1>1, <2>4, SameTaproot, Zenon
  <2> QED BY <2>1, <2>5, Zenon DEF TaprootSame
<1> QED BY <1>1, <1>2, <1>3, Zenon DEF ResultsRight, ResultsOf

\* The hash functions commit to what they are to cover, whatever was called before.
LEMMA CommitsImplied ==
  CachesRight /\ CacheTransparent /\ ResultsRight => CommitsExactly
<1> SUFFICES ASSUME CachesRight, CacheTransparent, ResultsRight, NEW l \in last, l.error = "",
                    NEW change \in Changes(tx)
             PROVE  Fresh(tx, l.call).message
                      # Fresh(ChangedTx(tx, change), ChangedCall(l.call, change)).message
                      <=> Covered(tx, l.call, change)
  BY Zenon DEF CommitsExactly
<1>1. /\ tx \in Transaction /\ tx.input # <<>> /\ IsCall(l.call)
      /\ Fresh(tx, l.call).error = ""
  BY Zenon DEF CachesRight, CacheTransparent, ResultsRight, ResultsOf
<1>2. CASE l.call.kind = "taproot"
  <2>1. TaprootError(tx, l.call) = ""
    BY <1>1, <1>2, Zenon DEF Fresh
  <2>2. TaprootOk(tx, l.call)
    BY <2>1, TaprootSucceeds, Zenon
  <2> QED BY <1>1, <1>2, <2>2, TaprootCommits, Zenon
<1>3. CASE l.call.kind = "segwit"
  <2>1. SegwitError(tx, l.call) = ""
    BY <1>1, <1>3, Zenon DEF Fresh
  <2>2. InputExists(tx, l.call.index)
    BY <2>1, Zenon DEF SegwitError
  <2> QED BY <1>1, <1>3, <2>2, SegwitCommits, Zenon
<1>4. CASE l.call.kind = "legacy"
  <2>1. LegacyError(tx, l.call) = ""
    BY <1>1, <1>4, Zenon DEF Fresh
  <2>2. InputExists(tx, l.call.index)
    BY <2>1, Zenon DEF LegacyError
  <2> QED BY <1>1, <1>4, <2>2, LegacyCommits, Zenon
<1> QED BY <1>1, <1>2, <1>3, <1>4, CallShape, Zenon

\* Hashes that are asked for differently differ.
LEMMA DistinctImplied ==
  CachesRight /\ CacheTransparent /\ ResultsRight => HashesDistinct
<1> SUFFICES ASSUME CachesRight, CacheTransparent, ResultsRight, NEW l \in last,
                    NEW message \in l.message, NEW call \in Calls[Len(tx.input)],
                    call.kind = l.call.kind, Asked(call) # Asked(l.call),
                    message \in Fresh(tx, call).message
             PROVE  \/ call.kind = "legacy" /\ SingleBug(tx, call) /\ SingleBug(tx, l.call)
                    \/ /\ call.kind = "legacy" /\ call.type = l.call.type
                       /\ Unmarked(call) /\ Unmarked(l.call)
  BY Zenon DEF HashesDistinct
<1>1. /\ tx \in Transaction /\ OnceSpent(tx) /\ IsCall(l.call) /\ IsCall(call)
      /\ l.error = "" /\ l.error = Fresh(tx, l.call).error
  BY SighashConstants, Zenon DEF CachesRight, CacheTransparent, ResultsRight, ResultsOf
<1>2. l.call.kind # "taproot" => message \in Fresh(tx, l.call).message
  BY Zenon DEF CacheTransparent, UsesAll
<1>3. CASE call.kind = "taproot"
  <2>1. /\ TaprootError(tx, call) = ""
        /\ message = TaprootMessage(tx, call, CommonOf(tx), TaprootOf(call.prevouts.utxos))
    BY <1>3, Zenon DEF Fresh
  <2>2. TaprootError(tx, l.call) = ""
    BY <1>1, <1>3, Zenon DEF Fresh
  <2>3. TaprootOk(tx, call) /\ TaprootOk(tx, l.call)
    BY <2>1, <2>2, TaprootSucceeds, Zenon
  <2>4. PICK c, p : message = TaprootMessage(tx, l.call, c, p)
    BY <1>3, Zenon DEF ResultsRight, ResultsOf
  <2> QED BY <1>1, <1>3, <2>1, <2>3, <2>4, TaprootDistinct, ZenonT(40)
<1>4. CASE call.kind = "segwit"
  <2>1. SegwitError(tx, call) = "" /\ message = SegwitMessage(tx, call, SegwitOf(CommonOf(tx)))
    BY <1>4, Zenon DEF Fresh
  <2>2. /\ SegwitError(tx, l.call) = ""
        /\ message = SegwitMessage(tx, l.call, SegwitOf(CommonOf(tx)))
    BY <1>2, <1>4, Zenon DEF Fresh
  <2>3. InputExists(tx, call.index) /\ InputExists(tx, l.call.index)
    BY <2>1, <2>2, Zenon DEF SegwitError
  <2> QED BY <1>1, <1>4, <2>1, <2>2, <2>3, SegwitDistinct, ZenonT(40)
<1>5. CASE call.kind = "legacy"
  <2>1. LegacyError(tx, call) = "" /\ message = LegacyMessage(tx, call)
    BY <1>5, Zenon DEF Fresh
  <2>2. LegacyError(tx, l.call) = "" /\ message = LegacyMessage(tx, l.call)
    BY <1>2, <1>5, Zenon DEF Fresh
  <2>3. InputExists(tx, call.index) /\ InputExists(tx, l.call.index)
    BY <2>1, <2>2, Zenon DEF LegacyError
  <2>4. \/ SingleBug(tx, l.call) /\ SingleBug(tx, call)
        \/ l.call.type = call.type /\ Unmarked(l.call) /\ Unmarked(call)
    BY <1>1, <1>5, <2>1, <2>2, <2>3, LegacyDistinct, ZenonT(40)
  <2> QED BY <1>5, <2>4, Zenon
<1> QED BY <1>1, <1>3, <1>4, <1>5, CallShape, Zenon

\* For every set of transactions and calls, in every order of calls: a
\* signature hash changes with everything its type covers and with nothing
\* else, and calls for different things never share a hash but for the
\* SIGHASH_SINGLE bug and for legacy hashes with empty scripts (the encode
\* functions of SighashCache).
THEOREM HashesAlwaysBind == Spec => []HashesBind
<1>1. CachesRight /\ CacheTransparent /\ ResultsRight /\ [Next]_vars => ResultsRight'
  <2> SUFFICES ASSUME CachesRight, CacheTransparent, ResultsRight, [Next]_vars
               PROVE  ResultsRight'
    BY Zenon
  <2>1. CASE \E call \in Calls[Len(tx.input)] : \/ TaprootSignatureHash(call)
                                                \/ SegwitSignatureHash(call)
                                                \/ LegacySignatureHash(call)
    BY <2>1, TaprootResults, SegwitResults, LegacyResults, Zenon
  <2>2. CASE \E index \in 0 .. Len(tx.input) : WitnessMut(index)
    BY <2>2, WitnessResults, Zenon
  <2>3. CASE \E t \in Txs : Renew(t)
    BY <2>3, SighashConstants, Zenon DEF Renew, ResultsRight, ResultsOf, OnceSpent
  <2>4. CASE UNCHANGED vars
    <3>1. tx' = tx /\ last' = last
      BY <2>4, Zenon DEF vars
    <3> QED BY <3>1, Zenon DEF ResultsRight
  <2> QED BY <2>1, <2>2, <2>3, <2>4, Zenon DEF Next
<1>2. CachesRight /\ CacheTransparent /\ ResultsRight => HashesBind
  BY CommitsImplied, DistinctImplied, Zenon DEF HashesBind
<1> QED BY FirstResults, CachesStayRight, <1>1, <1>2, PTL DEF Spec
=============================================================================
