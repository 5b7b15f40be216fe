----------------------------- MODULE Inheritance ------------------------------
(***************************************************************************)
(* Coins left to an heir (examples/taproot-psbt.rs).  The benefactor's     *)
(* wallet locks a coin to a taproot output with two paths: its own key, at *)
(* once, and the beneficiary's key, from a lock time on.  It moves the     *)
(* coin to an output with a later lock, and hands out a PSBT with what the *)
(* beneficiary needs.  Both send what they have made when they like.       *)
(*                                                                         *)
(* A key is its owner and the last number of its path, a script the lock   *)
(* and the key in it, a merkle root the set of the scripts under it (there *)
(* is at most one), a signature the key it was made with and all that is   *)
(* signed.  A transaction of the wallet is known by its number in `made`.  *)
(***************************************************************************)
EXTENDS LockTimes

CONSTANTS
  Fee,         \* ABSOLUTE_FEES_IN_SATS
  Coins,       \* the coins of the benefactor: outpoint, output, whether its text parses
  VaultLocks,  \* lock times of the benefactor and of the beneficiary
  Deltas       \* by how much a lock is moved

VARIABLES
  benefactor,  \* struct BenefactorWallet
  made,        \* the transactions that the wallet has returned
  handed,      \* the PSBTs that it has returned
  claims,      \* the transactions that the beneficiary has made
  utxos,       \* the unspent outputs of the chain
  answer       \* what the last call returned

walletVars == <<benefactor, made, handed, claims, utxos, answer>>
vaultVars == <<walletVars, height, time>>

Benefactor(i) == <<"benefactor", i>>
Beneficiary(i) == <<"beneficiary", i>>
Bip86 == -1                          \* stands for the path of the first coins
Elsewhere == <<"elsewhere", 0>>      \* the key behind to_address
P2tr(internal, root) == [internal |-> internal, root |-> root]
TimeLockScript(lock, key) == [lock |-> lock, key |-> key]
TxOut(value, spk) == [value |-> value, spk |-> spk]

\* The coins are the wallet's own, and are known by numbers below zero; no lock of a
\* caller is moved beyond the largest u32.
ASSUME VaultAssumption ==
  /\ Fee \in Nat
  /\ \A c \in Coins : /\ c.outpoint \in Int /\ c.outpoint < 0
                       /\ c.parses \in BOOLEAN
                       /\ c.out.value \in Nat /\ c.out = TxOut(c.out.value, P2tr(Benefactor(Bip86), {}))
  /\ \A c, d \in Coins : c.outpoint = d.outpoint => c.out = d.out
  /\ VaultLocks \subseteq 0 .. U32 - 1 /\ Deltas \subseteq Nat
  /\ \A l \in VaultLocks, d \in Deltas : l + d < U32

NewWallet == [spend_info |-> {}, next_psbt |-> {}, next |-> 0, panicked |-> FALSE]

\* Amount::sub expects that there is something left.
CanPay(value) == value >= Fee
-----------------------------------------------------------------------------
\* What taproot_key_spend_signature_hash (no leaf) and taproot_script_spend_signature_hash
\* hash under SIGHASH_ALL, with the output that is spent.
Sighash(tx, spent, leaf) ==
  [prev |-> tx.prev, seq |-> tx.seq, lock |-> tx.lock, out |-> tx.out, spent |-> spent, leaf |-> leaf]

\* sign_psbt_taproot: the key is tweaked with the root of the input, or is left alone.
SignTaproot(secret, leaf, root, hash) ==
  [key |-> secret, tweak |-> IF leaf = {} THEN {root} ELSE {}, hash |-> hash]

Unsigned(prev, seq, lock, out) == [prev |-> prev, seq |-> seq, lock |-> lock, out |-> out]
WithWitness(tx, sigs, scripts) ==
  [prev |-> tx.prev, seq |-> tx.seq, lock |-> tx.lock, out |-> tx.out, sigs |-> sigs, scripts |-> scripts]

\* generate_bip86_key_spend_tx for a coin of the wallet.
Bip86KeySpend(coin, out) ==
  LET tx == Unsigned(coin.outpoint, SeqMax, FromConsensus(0), out)
      sig == SignTaproot(Benefactor(Bip86), {}, {}, Sighash(tx, coin.out, {}))
  IN  WithWitness(tx, {sig}, {})

\* The PSBT that goes with an output: an unsigned transaction that has no output yet,
\* and the one input.
NextPsbt(txid, lock, value, internal, script, origins) ==
  [prev |-> txid, seq |-> U32 - 3, lock |-> lock,
   utxo |-> TxOut(value, P2tr(internal, {script})),
   internal |-> internal, root |-> {script}, origins |-> origins,
   scripts |-> {[script |-> script, internal |-> internal]}]

Origin(key, leaves, path) == [key |-> key, leaves |-> leaves, path |-> path]
Says(what) == answer' = what
-----------------------------------------------------------------------------
\* create_inheritance_funding_tx.  The spend info is stored before anything can fail;
\* a coin whose text does not parse is an error from generate_bip86_key_spend_tx.
CreateInheritanceFundingTx(lock, coin) ==
  LET i == benefactor.next
      script == TimeLockScript(lock, Beneficiary(i))
      info == P2tr(Benefactor(i), {script})
      value == coin.out.value - Fee
      origins == {Origin(Beneficiary(i), {script}, i), Origin(Benefactor(i), {}, i)}
      psbt == NextPsbt(Len(made) + 1, lock, value, Benefactor(i), script, origins)
  IN  /\ ~benefactor.panicked
      /\ UNCHANGED <<claims, utxos>>
      /\ IF i > 0 /\ benefactor.spend_info # {}
         THEN UNCHANGED <<benefactor, made, handed>> /\ Says("already exists")
         ELSE IF ~CanPay(coin.out.value)
         THEN /\ benefactor' = [benefactor EXCEPT !.spend_info = {info}, !.panicked = TRUE]
              /\ UNCHANGED <<made, handed>> /\ Says("subtraction error")
         ELSE IF ~coin.parses
         THEN /\ benefactor' = [benefactor EXCEPT !.spend_info = {info}]
              /\ UNCHANGED <<made, handed>> /\ Says("parse error")
         ELSE /\ made' = Append(made, Bip86KeySpend(coin, TxOut(value, info)))
              /\ handed' = handed \union {psbt}
              /\ benefactor' = [benefactor EXCEPT !.spend_info = {info}, !.next_psbt = {psbt}, !.next = i + 1]
              /\ Says("ok")

\* Mutant: the new output keeps the lock of the old one.
NewLockSame(psbt, delta) == {Some(psbt.lock)}
\* The lock of the next output: `+` on u32, then from_height and unwrap.
NewLock(psbt, delta) ==
  {IF s.ok THEN LockFromHeight(s.val) ELSE s : s \in AddU32(psbt.lock.n, delta)}

\* The origin of the internal key among those of the input, if it is there.
InternalOrigin(psbt) == {o \in psbt.origins : o.key = psbt.internal}

\* Mutant: the PSBT describes the output that was spent.
RefreshedValueOld(value, psbt) == psbt.utxo.value
\* The value in the new PSBT's witness_utxo.
RefreshedValue(value, psbt) == value

\* refresh_tx: the output is spent by the key path, with the key whose path the PSBT
\* names, to an output under the next keys.  The new PSBT names only the beneficiary's.
RefreshTx(delta) ==
  /\ ~benefactor.panicked
  /\ UNCHANGED <<claims, utxos>>
  /\ IF benefactor.spend_info = {}
     THEN UNCHANGED <<benefactor, made, handed>> /\ Says("no current_spend_info")
     ELSE IF benefactor.next_psbt = {}
     THEN benefactor' = [benefactor EXCEPT !.panicked = TRUE] /\ UNCHANGED <<made, handed>> /\ Says("no next_psbt")
     ELSE \E psbt \in benefactor.next_psbt : \E lock \in NewLock(psbt, delta) :
       LET i == benefactor.next
           value == psbt.utxo.value - Fee
           script == TimeLockScript(lock.val, Beneficiary(i))
           info == P2tr(Benefactor(i), {script})
           tx == Unsigned(psbt.prev, psbt.seq, FromConsensus(0), TxOut(value, info))
           hash == Sighash(tx, psbt.utxo, {})
           next == NextPsbt(Len(made) + 1, lock.val, RefreshedValue(value, psbt), Benefactor(i), script,
                            {Origin(Beneficiary(i), {script}, i)})
       IN  IF ~CanPay(psbt.utxo.value) \/ ~lock.ok
           THEN /\ benefactor' = [benefactor EXCEPT !.panicked = TRUE]
                /\ UNCHANGED <<made, handed>>
                /\ Says(IF CanPay(psbt.utxo.value) THEN "lock time" ELSE "subtraction error")
           ELSE IF InternalOrigin(psbt) = {}
           THEN /\ benefactor' = [benefactor EXCEPT !.spend_info = {info}]
                /\ UNCHANGED <<made, handed>> /\ Says("missing key origin")
           ELSE \E o \in InternalOrigin(psbt) :
                  /\ made' = Append(made, WithWitness(tx, {SignTaproot(Benefactor(o.path), {}, psbt.root, hash)}, {}))
                  /\ handed' = handed \union {next}
                  /\ benefactor' = [benefactor EXCEPT !.spend_info = {info}, !.next_psbt = {next}, !.next = i + 1]
                  /\ Says("ok")

\* BeneficiaryWallet::spend_inheritance: a signature with the beneficiary's key at the
\* path of every origin, for every leaf that the origin names.
SpentInheritance(psbt, lock) ==
  LET tx == Unsigned(psbt.prev, psbt.seq, lock, TxOut(psbt.utxo.value - Fee, P2tr(Elsewhere, {})))
      sigs == UNION {{SignTaproot(Beneficiary(o.path), {l}, psbt.root, Sighash(tx, psbt.utxo, {l})) : l \in o.leaves} : o \in psbt.origins}
  IN  WithWitness(tx, sigs, psbt.scripts)
SpendInheritance(psbt, lock) ==
  /\ psbt \in handed
  /\ UNCHANGED <<benefactor, made, handed, utxos>>
  /\ IF CanPay(psbt.utxo.value)
     THEN claims' = claims \union {SpentInheritance(psbt, lock)} /\ Says("ok")
     ELSE UNCHANGED claims /\ Says("subtraction error")
-----------------------------------------------------------------------------
\* The rules of the chain (external): the signature is the output key's over this
\* transaction and the output it spends, or a script of the output is shown whose key
\* has signed, whose lock the transaction's implies, and the input does not opt out.
Witnessed(tx, out) ==
  IF tx.scripts = {}
  THEN \E s \in tx.sigs : s = [key |-> out.spk.internal, tweak |-> {out.spk.root}, hash |-> Sighash(tx, out, {})]
  ELSE \A c \in tx.scripts :
         /\ c.internal = out.spk.internal /\ {c.script} = out.spk.root
         /\ tx.sigs = {[key |-> c.script.key, tweak |-> {}, hash |-> Sighash(tx, out, {c.script})]}
         /\ IsImpliedBy(c.script.lock, tx.lock) /\ EnablesAbsoluteLockTime(tx.seq)
Accepts(tx) ==
  /\ \E u \in utxos : u.outpoint = tx.prev /\ Witnessed(tx, u.out) /\ tx.out.value <= u.out.value
  /\ IsAbsoluteTimelockSatisfied([lock_time |-> tx.lock, input |-> <<tx.seq>>], height, time)

\* A transaction enters a block; the output of one of the wallet's is known by its number.
Confirm(tx, txid) ==
  /\ Accepts(tx)
  /\ utxos' = {u \in utxos : u.outpoint # tx.prev} \union {[outpoint |-> txid, out |-> tx.out]}
  /\ UNCHANGED <<benefactor, made, handed, claims, answer>>

NextBlock(t) == Tip(t) /\ UNCHANGED walletVars

VaultInit ==
  /\ benefactor = NewWallet /\ made = <<>> /\ handed = {} /\ claims = {} /\ answer = "none"
  /\ utxos = {[outpoint |-> c.outpoint, out |-> c.out] : c \in Coins}
  /\ height = 0 /\ time = Threshold
Wallets ==
  \/ \E l \in VaultLocks, c \in Coins : CreateInheritanceFundingTx(FromConsensus(l), c)
  \/ \E d \in Deltas : RefreshTx(d)
  \/ \E p \in handed, l \in VaultLocks : SpendInheritance(p, FromConsensus(l))
  \/ \E i \in DOMAIN made : Confirm(made[i], i)
  \/ \E tx \in claims : Confirm(tx, 0)
VaultNext == (Wallets /\ UNCHANGED <<height, time>>) \/ \E t \in Nat : t >= time /\ NextBlock(t)
VaultSpec == VaultInit /\ [][VaultNext]_vaultVars
-----------------------------------------------------------------------------
(* The beneficiary who holds the PSBT of an unspent output can spend that output from
   the moment its lock opens and not before, whichever of the wallet's transactions
   made it: the PSBT that a refresh hands out describes the output that the refresh
   makes (taproot-psbt.rs:382, :472, :638). *)
HeirCanClaim ==
  \A p \in handed, u \in utxos :
    u.outpoint = p.prev =>
      /\ u.out = p.utxo
      /\ CanPay(p.utxo.value) => (Accepts(SpentInheritance(p, p.lock)) <=> IsSatisfiedBy(p.lock, height, time))

(* No claim that the beneficiary has made, with whatever lock time, is accepted before
   the lock that the benefactor chose for the output: the script holds that lock. *)
HeirWaits ==
  \A tx \in claims, p \in handed : p.prev = tx.prev /\ Accepts(tx) => IsSatisfiedBy(p.lock, height, time)

(* What the wallet returns can be sent at once, at any height, as long as the output
   that it spends is there: "not encumbered by the timelock so we can spend it
   immediately" (taproot-psbt.rs:194).  A coin pays the fee once for every move. *)
BenefactorMayMove ==
  \A i \in DOMAIN made, u \in utxos :
    u.outpoint = made[i].prev => Accepts(made[i]) /\ u.out.value = made[i].out.value + Fee

(* However refreshes and claims interleave, the coin pays the heir from the
   agreed time on, not before, and its owner at any time (taproot-psbt.rs). *)
InheritanceHolds == HeirCanClaim /\ HeirWaits /\ BenefactorMayMove

(* A refresh makes the beneficiary wait for more blocks: the next output has "a
   locktime that is 'locktime_delta' blocks greater" (taproot-psbt.rs:196). *)
RefreshLater ==
  [][\A p \in handed, q \in handed' \ handed :
       \/ p.prev >= q.prev
       \/ IsSameUnit(p.lock, q.lock) /\ \E d \in Deltas : q.lock.n = p.lock.n + d]_vaultVars
=============================================================================
