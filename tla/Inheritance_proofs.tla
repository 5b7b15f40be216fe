-------------------------- MODULE Inheritance_proofs --------------------------
(***************************************************************************)
(* Whatever coins there are, whatever locks and deltas are chosen and      *)
(* however calls, claims and blocks interleave: the heir is paid from the  *)
(* agreed time on and not before, the owner at any time, and a refresh     *)
(* moves the lock by the delta.                                            *)
(***************************************************************************)
EXTENDS Inheritance, Induction, FiniteSetTheorems

IsSeq(s) == \E S : s \in Seq(S)
IsLock(lock) == lock.n \in 0 .. U32 - 1 /\ lock = FromConsensus(lock.n)

\* The scripts and origins of the i-th output of the wallet.
HeirScript(lock, i) == TimeLockScript(lock, Beneficiary(i))
HeirOrigin(lock, i) == Origin(Beneficiary(i), {HeirScript(lock, i)}, i)
OwnOrigin(i) == Origin(Benefactor(i), {}, i)

\* A PSBT as create_inheritance_funding_tx and refresh_tx make it.
Made(p, i, origins) ==
  /\ p = NextPsbt(p.prev, p.lock, p.utxo.value, Benefactor(i), HeirScript(p.lock, i), origins)
  /\ origins \in {{HeirOrigin(p.lock, i)}, {HeirOrigin(p.lock, i), OwnOrigin(i)}}
Describes(p) ==
  /\ p.utxo.value \in Nat /\ IsLock(p.lock)
  /\ \E i \in Nat : \E origins : Made(p, i, origins)

\* The transactions of the benefactor: of a coin, and of an output with a PSBT.
SpendsCoin(tx, c) == \E spk : tx = Bip86KeySpend(c, TxOut(c.out.value - Fee, spk))
SpendsOutput(tx, p) ==
  \E spk :
    LET bare == Unsigned(p.prev, p.seq, FromConsensus(0), TxOut(p.utxo.value - Fee, spk))
    IN  tx = WithWitness(bare, {SignTaproot(p.internal, {}, p.root, Sighash(bare, p.utxo, {}))}, {})

\* What the wallet knows of its outputs is what is on the chain.
Outputs ==
  /\ IsSeq(made)
  /\ \A p \in handed : /\ Describes(p)
                       /\ p.prev \in DOMAIN made /\ made[p.prev].out = p.utxo
  /\ \A p, q \in handed : p.prev = q.prev => p = q
  /\ \A u \in utxos : /\ u.outpoint \in Int
                      /\ u.outpoint < 0 => \E c \in Coins : c.outpoint = u.outpoint /\ c.out = u.out
                      /\ u.outpoint > 0 => u.outpoint \in DOMAIN made /\ u.out = made[u.outpoint].out

\* Where the transactions of the two come from.
Spends ==
  /\ \A i \in DOMAIN made : \/ \E c \in Coins : SpendsCoin(made[i], c)
                            \/ \E p \in handed : SpendsOutput(made[i], p)
  /\ \A tx \in claims : \E p \in handed : \E lock : /\ lock.n \in Int
                                                         /\ tx = SpentInheritance(p, lock)

\* Only the first PSBT names the key that a refresh needs.
WalletSound ==
  /\ benefactor = [spend_info |-> benefactor.spend_info, next_psbt |-> benefactor.next_psbt,
                   next |-> benefactor.next, panicked |-> benefactor.panicked]
  /\ benefactor.next \in Nat
  /\ benefactor.next > 0 => benefactor.spend_info # {}
  /\ benefactor.next = 0 => handed = {}
  /\ benefactor.next_psbt \subseteq handed
  /\ \A p \in benefactor.next_psbt : InternalOrigin(p) # {} => handed = {p} /\ p.lock.n \in VaultLocks

VaultInv == Outputs /\ Spends /\ WalletSound /\ height \in Nat /\ time \in Nat
-----------------------------------------------------------------------------
\* The fields of a PSBT.
LEMMA PsbtFields ==
  ASSUME NEW p, NEW i, NEW origins, Made(p, i, origins)
  PROVE  /\ p.seq = U32 - 3
         /\ p.utxo = TxOut(p.utxo.value, P2tr(p.internal, p.root))
         /\ p.internal = Benefactor(i) /\ p.root = {HeirScript(p.lock, i)}
         /\ p.origins = origins
         /\ p.scripts = {[script |-> HeirScript(p.lock, i), internal |-> p.internal]}
BY DEF Made, NextPsbt

\* spend_inheritance signs once, with the key in the script.
LEMMA HeirSigns ==
  ASSUME NEW p, NEW i, NEW origins, Made(p, i, origins), NEW lock
  PROVE  LET tx == SpentInheritance(p, lock)
             script == HeirScript(p.lock, i)
         IN  tx.sigs = {[key |-> Beneficiary(i), tweak |-> {}, hash |-> Sighash(tx, p.utxo, {script})]}
<1> DEFINE tx == Unsigned(p.prev, p.seq, lock, TxOut(p.utxo.value - Fee, P2tr(Elsewhere, {})))
           script == HeirScript(p.lock, i)
           Sig(o, l) == SignTaproot(Beneficiary(o.path), {l}, p.root, Sighash(tx, p.utxo, {l}))
           Sigs(o) == {Sig(o, l) : l \in o.leaves}
           heir == HeirOrigin(p.lock, i)
           spent == SpentInheritance(p, lock)
<1>1. p.origins \in {{heir}, {heir, OwnOrigin(i)}}
  <2>1. p.origins = origins
    BY PsbtFields
  <2>2. origins \in {{heir}, {heir, OwnOrigin(i)}}
    BY Zenon DEF Made
  <2>. QED  BY <2>1, <2>2, Zenon
<1>2. spent = WithWitness(tx, UNION {Sigs(o) : o \in p.origins}, p.scripts)
  BY Zenon DEF SpentInheritance
<1>3. spent.sigs = UNION {Sigs(o) : o \in p.origins}
  BY <1>2 DEF WithWitness
<1>4. Sighash(spent, p.utxo, {script}) = Sighash(tx, p.utxo, {script})
  <2>1. spent.prev = tx.prev /\ spent.seq = tx.seq /\ spent.lock = tx.lock /\ spent.out = tx.out
    BY <1>2 DEF WithWitness
  <2>. QED  BY <2>1, Zenon DEF Sighash
<1>5. Sigs(heir) = {Sig(heir, script)}
  BY Zenon DEF HeirOrigin, Origin
<1>6. Sig(heir, script) = [key |-> Beneficiary(i), tweak |-> {}, hash |-> Sighash(tx, p.utxo, {script})]
  BY Zenon DEF SignTaproot, HeirOrigin, Origin
<1>7. Sigs(OwnOrigin(i)) = {}
  BY Zenon DEF OwnOrigin, Origin
<1> HIDE DEF Sigs, tx, script, heir, spent
<1>8. UNION {Sigs(o) : o \in p.origins} = Sigs(heir)
  <2>1. CASE p.origins = {heir}
    BY <2>1, Zenon
  <2>2. CASE p.origins = {heir, OwnOrigin(i)}
    BY <1>7, <2>2, Zenon
  <2>. QED  BY <1>1, <2>1, <2>2, Zenon
<1>. QED  BY <1>3, <1>4, <1>5, <1>6, <1>8, Zenon DEF spent, script

\* The script of the output accepts a claim just where its lock is implied.
LEMMA ClaimWitnessed ==
  ASSUME NEW p, Describes(p), NEW lock
  PROVE  Witnessed(SpentInheritance(p, lock), p.utxo) <=> IsImpliedBy(p.lock, lock)
<1>1. PICK i \in Nat : \E origins : Made(p, i, origins)
  BY Zenon DEF Describes
<1>2. PICK origins : Made(p, i, origins)
  BY <1>1, Zenon
<1> DEFINE tx == SpentInheritance(p, lock)
           c == [script |-> HeirScript(p.lock, i), internal |-> p.internal]
<1>3. tx.scripts = {c} /\ tx.lock = lock /\ tx.seq = U32 - 3
  BY <1>2, PsbtFields, Zenon DEF SpentInheritance, WithWitness, Unsigned
<1>4. tx.sigs = {[key |-> c.script.key, tweak |-> {}, hash |-> Sighash(tx, p.utxo, {c.script})]}
  <2>1. tx.sigs = {[key |-> Beneficiary(i), tweak |-> {}, hash |-> Sighash(tx, p.utxo, {HeirScript(p.lock, i)})]}
    BY <1>2, HeirSigns, Zenon
  <2>2. c.script = HeirScript(p.lock, i) /\ HeirScript(p.lock, i).key = Beneficiary(i)
    BY Zenon DEF HeirScript, TimeLockScript
  <2>. QED  BY <2>1, <2>2, Zenon
<1>5. c.internal = p.utxo.spk.internal /\ {c.script} = p.utxo.spk.root /\ c.script.lock = p.lock
  <2>1. p.utxo = TxOut(p.utxo.value, P2tr(p.internal, p.root)) /\ p.root = {HeirScript(p.lock, i)}
    BY <1>2, PsbtFields, Zenon
  <2>2. p.utxo.spk = P2tr(p.internal, p.root)
    BY <2>1 DEF TxOut
  <2>3. p.utxo.spk.internal = p.internal /\ p.utxo.spk.root = p.root
    BY <2>2 DEF P2tr
  <2>4. HeirScript(p.lock, i).lock = p.lock
    BY Zenon DEF HeirScript, TimeLockScript
  <2>. QED  BY <2>1, <2>3, <2>4, Zenon
<1>6. EnablesAbsoluteLockTime(tx.seq)
  BY <1>3, LockAssumption DEF EnablesAbsoluteLockTime, SeqMax
<1> HIDE DEF tx, c
<1>. QED  BY <1>3, <1>4, <1>5, <1>6 DEF Witnessed, tx

\* A claim that is accepted spends an output whose lock has opened.
LEMMA ClaimOpens ==
  ASSUME NEW p, Describes(p), NEW lock, lock.n \in Int, height \in Nat, time \in Nat,
         Accepts(SpentInheritance(p, lock))
  PROVE  IsSatisfiedBy(p.lock, height, time)
<1> DEFINE tx == SpentInheritance(p, lock)
<1>1. PICK i \in Nat : \E origins : Made(p, i, origins)
  BY Zenon DEF Describes
<1>2. PICK origins : Made(p, i, origins)
  BY <1>1, Zenon
<1>3. /\ tx.scripts = {[script |-> HeirScript(p.lock, i), internal |-> p.internal]}
      /\ tx.lock = lock /\ tx.seq = U32 - 3
  BY <1>2, PsbtFields, Zenon DEF SpentInheritance, WithWitness, Unsigned
<1>4. HeirScript(p.lock, i).lock = p.lock
  BY Zenon DEF HeirScript, TimeLockScript
<1> HIDE DEF tx
<1>5. PICK u \in utxos : Witnessed(tx, u.out)
  BY Zenon DEF Accepts, tx
<1>6. IsImpliedBy(p.lock, lock)
  <2> DEFINE c == [script |-> HeirScript(p.lock, i), internal |-> p.internal]
  <2>1. c \in tx.scripts /\ c.script.lock = p.lock
    BY <1>3, <1>4, Zenon
  <2> HIDE DEF c
  <2>2. IsImpliedBy(c.script.lock, tx.lock)
    BY <1>5, <2>1, Zenon DEF Witnessed
  <2>. QED  BY <1>3, <2>1, <2>2, Zenon
<1>7. IsSatisfiedBy(lock, height, time)
  <2> DEFINE checked == [lock_time |-> tx.lock, input |-> <<tx.seq>>]
  <2>1. IsAbsoluteTimelockSatisfied(checked, height, time)
    BY Zenon DEF Accepts, tx
  <2>2. checked.lock_time = lock /\ 1 \in DOMAIN checked.input /\ checked.input[1] = U32 - 3
    BY <1>3
  <2> HIDE DEF checked
  <2>3. IsLockTimeEnabled(checked)
    BY <2>2, LockAssumption DEF IsLockTimeEnabled, EnablesAbsoluteLockTime, SeqMax
  <2>. QED  BY <2>1, <2>2, <2>3, Zenon DEF IsAbsoluteTimelockSatisfied
<1>8. p.lock.n \in Int
  BY DEF Describes, IsLock
<1>. QED  BY <1>6, <1>7, <1>8 DEF IsImpliedBy, IsSameUnit, IsSatisfiedBy

\* From then on a claim with the lock of the output is accepted.
LEMMA ClaimAccepted ==
  ASSUME NEW p, Describes(p), NEW u \in utxos, u.outpoint = p.prev, u.out = p.utxo,
         IsSatisfiedBy(p.lock, height, time)
  PROVE  Accepts(SpentInheritance(p, p.lock))
<1> DEFINE tx == SpentInheritance(p, p.lock)
<1>1. tx.prev = p.prev /\ tx.lock = p.lock /\ tx.out.value = p.utxo.value - Fee
  BY Zenon DEF SpentInheritance, WithWitness, Unsigned, TxOut
<1>2. Witnessed(tx, p.utxo)
  <2>1. IsImpliedBy(p.lock, p.lock)
    BY DEF IsImpliedBy, IsSameUnit, Describes, IsLock
  <2>. QED  BY <2>1, ClaimWitnessed, Zenon
<1>3. tx.out.value <= u.out.value
  <2>1. Fee \in Nat /\ p.utxo.value \in Nat
    BY VaultAssumption, Zenon DEF Describes
  <2>. QED  BY <1>1, <2>1
<1>4. IsAbsoluteTimelockSatisfied([lock_time |-> tx.lock, input |-> <<tx.seq>>], height, time)
  BY <1>1, Zenon DEF IsAbsoluteTimelockSatisfied
<1> HIDE DEF tx
<1>. QED  BY <1>1, <1>2, <1>3, <1>4, Zenon DEF Accepts, tx

\* The owner's spend of an output is accepted at any time (key path).
LEMMA OutputMoves ==
  ASSUME NEW p, Describes(p), NEW tx, SpendsOutput(tx, p), height \in Nat, time \in Nat,
         NEW u \in utxos, u.outpoint = tx.prev, u.out = p.utxo
  PROVE  Accepts(tx) /\ u.out.value = tx.out.value + Fee
<1>1. PICK spk : LET bare == Unsigned(p.prev, p.seq, FromConsensus(0), TxOut(p.utxo.value - Fee, spk))
                 IN  tx = WithWitness(bare, {SignTaproot(p.internal, {}, p.root, Sighash(bare, p.utxo, {}))}, {})
  BY Zenon DEF SpendsOutput
<1> DEFINE bare == Unsigned(p.prev, p.seq, FromConsensus(0), TxOut(p.utxo.value - Fee, spk))
           sig == SignTaproot(p.internal, {}, p.root, Sighash(bare, p.utxo, {}))
<1>2. /\ tx.scripts = {} /\ tx.sigs = {sig} /\ tx.prev = bare.prev /\ tx.seq = bare.seq
      /\ tx.lock = bare.lock /\ tx.out = bare.out
  BY <1>1, Zenon DEF WithWitness
<1>3. tx.lock = FromConsensus(0) /\ tx.out.value = p.utxo.value - Fee
  BY <1>2 DEF Unsigned, TxOut
<1>4. Sighash(tx, p.utxo, {}) = Sighash(bare, p.utxo, {})
  BY <1>2, Zenon DEF Sighash
<1>5. sig = [key |-> p.internal, tweak |-> {p.root}, hash |-> Sighash(tx, p.utxo, {})]
  BY <1>4, Zenon DEF SignTaproot
<1>6. p.utxo.spk.internal = p.internal /\ p.utxo.spk.root = p.root
  <2>1. PICK i \in Nat : \E origins : Made(p, i, origins)
    BY Zenon DEF Describes
  <2>2. p.utxo = TxOut(p.utxo.value, P2tr(p.internal, p.root))
    BY <2>1, PsbtFields, Zenon
  <2>3. p.utxo.spk = P2tr(p.internal, p.root)
    BY <2>2 DEF TxOut
  <2>. QED  BY <2>3 DEF P2tr
<1> HIDE DEF sig, bare
<1>7. Witnessed(tx, u.out)
  BY <1>2, <1>5, <1>6, Zenon DEF Witnessed
<1>8. Fee \in Nat /\ p.utxo.value \in Nat
  BY VaultAssumption, Zenon DEF Describes
<1>9. IsAbsoluteTimelockSatisfied([lock_time |-> tx.lock, input |-> <<tx.seq>>], height, time)
  BY <1>3 DEF IsAbsoluteTimelockSatisfied, IsSatisfiedBy, FromConsensus, Lock
<1>. QED  BY <1>3, <1>7, <1>8, <1>9 DEF Accepts

\* So is the owner's spend of a coin.
LEMMA CoinMoves ==
  ASSUME NEW c \in Coins, NEW tx, SpendsCoin(tx, c),
         NEW u \in utxos, u.outpoint = tx.prev, u.out = c.out
  PROVE  Accepts(tx) /\ u.out.value = tx.out.value + Fee
<1>1. PICK spk : tx = Bip86KeySpend(c, TxOut(c.out.value - Fee, spk))
  BY Zenon DEF SpendsCoin
<1> DEFINE bare == Unsigned(c.outpoint, SeqMax, FromConsensus(0), TxOut(c.out.value - Fee, spk))
           sig == SignTaproot(Benefactor(Bip86), {}, {}, Sighash(bare, c.out, {}))
<1>2. /\ tx.scripts = {} /\ tx.sigs = {sig} /\ tx.prev = bare.prev /\ tx.seq = bare.seq
      /\ tx.lock = bare.lock /\ tx.out = bare.out
  BY <1>1, Zenon DEF Bip86KeySpend, WithWitness
<1>3. tx.seq = SeqMax /\ tx.out.value = c.out.value - Fee
  BY <1>2 DEF Unsigned, TxOut
<1>4. Sighash(tx, c.out, {}) = Sighash(bare, c.out, {})
  BY <1>2, Zenon DEF Sighash
<1>5. sig = [key |-> Benefactor(Bip86), tweak |-> {{}}, hash |-> Sighash(tx, c.out, {})]
  BY <1>4, Zenon DEF SignTaproot
<1>6. c.out.spk.internal = Benefactor(Bip86) /\ c.out.spk.root = {}
  <2>1. c.out = TxOut(c.out.value, P2tr(Benefactor(Bip86), {}))
    BY VaultAssumption, Zenon
  <2>2. c.out.spk = P2tr(Benefactor(Bip86), {})
    BY <2>1 DEF TxOut
  <2>. QED  BY <2>2 DEF P2tr
<1> HIDE DEF sig, bare
<1>7. Witnessed(tx, u.out)
  BY <1>2, <1>5, <1>6, Zenon DEF Witnessed
<1>8. Fee \in Nat /\ c.out.value \in Nat
  BY VaultAssumption, Zenon
<1>9. IsAbsoluteTimelockSatisfied([lock_time |-> tx.lock, input |-> <<tx.seq>>], height, time)
  <2> DEFINE checked == [lock_time |-> tx.lock, input |-> <<tx.seq>>]
  <2>1. DOMAIN checked.input = {1} /\ checked.input[1] = SeqMax
    BY <1>3
  <2> HIDE DEF checked
  <2>2. ~IsLockTimeEnabled(checked)
    BY <2>1, Zenon DEF IsLockTimeEnabled, EnablesAbsoluteLockTime
  <2>. QED  BY <2>2, Zenon DEF IsAbsoluteTimelockSatisfied, checked
<1>. QED  BY <1>3, <1>7, <1>8, <1>9 DEF Accepts

\* What is known of the outputs decides who may spend them, and when.
LEMMA InvImplies == VaultInv => InheritanceHolds
<1> SUFFICES ASSUME VaultInv PROVE InheritanceHolds
  BY Zenon
<1>0. height \in Nat /\ time \in Nat
  BY Zenon DEF VaultInv
<1>1. ASSUME NEW p \in handed, NEW u \in utxos, u.outpoint = p.prev
      PROVE  Describes(p) /\ u.out = p.utxo
  <2>1. /\ Describes(p) /\ p.prev \in DOMAIN made /\ made[p.prev].out = p.utxo
    BY Zenon DEF VaultInv, Outputs
  <2>2. DOMAIN made \subseteq Nat \ {0}
    BY DEF VaultInv, Outputs, IsSeq
  <2>. QED  BY <1>1, <2>1, <2>2 DEF VaultInv, Outputs
<1>2. HeirCanClaim
  <2> SUFFICES ASSUME NEW p \in handed, NEW u \in utxos, u.outpoint = p.prev
               PROVE  /\ u.out = p.utxo
                      /\ Accepts(SpentInheritance(p, p.lock)) <=> IsSatisfiedBy(p.lock, height, time)
    BY Zenon DEF HeirCanClaim
  <2>1. Describes(p) /\ u.out = p.utxo
    BY <1>1, Zenon
  <2>2. p.lock.n \in Int
    BY <2>1 DEF Describes, IsLock
  <2>3. ASSUME Accepts(SpentInheritance(p, p.lock)) PROVE IsSatisfiedBy(p.lock, height, time)
    BY <1>0, <2>1, <2>2, <2>3, ClaimOpens, Zenon
  <2>4. ASSUME IsSatisfiedBy(p.lock, height, time) PROVE Accepts(SpentInheritance(p, p.lock))
    BY <2>1, <2>4, ClaimAccepted, Zenon
  <2>. QED  BY <2>1, <2>3, <2>4, Zenon
<1>3. HeirWaits
  <2> SUFFICES ASSUME NEW tx \in claims, NEW p \in handed, p.prev = tx.prev, Accepts(tx)
               PROVE  IsSatisfiedBy(p.lock, height, time)
    BY Zenon DEF HeirWaits
  <2>1. PICK q \in handed : \E lock : lock.n \in Int /\ tx = SpentInheritance(q, lock)
    BY Zenon DEF VaultInv, Spends
  <2>2. PICK lock : lock.n \in Int /\ tx = SpentInheritance(q, lock)
    BY <2>1, Zenon
  <2>3. tx.prev = q.prev
    BY <2>2, Zenon DEF SpentInheritance, WithWitness, Unsigned
  <2>4. p = q /\ Describes(p)
    BY <2>3, Zenon DEF VaultInv, Outputs
  <2>. QED  BY <1>0, <2>2, <2>4, ClaimOpens, Zenon
<1>4. BenefactorMayMove
  <2> SUFFICES ASSUME NEW i \in DOMAIN made, NEW u \in utxos, u.outpoint = made[i].prev
               PROVE  Accepts(made[i]) /\ u.out.value = made[i].out.value + Fee
    BY Zenon DEF BenefactorMayMove
  <2>1. ASSUME NEW p \in handed, SpendsOutput(made[i], p)
        PROVE  Accepts(made[i]) /\ u.out.value = made[i].out.value + Fee
    <3>1. made[i].prev = p.prev
      BY <2>1 DEF SpendsOutput, WithWitness, Unsigned
    <3>2. Describes(p) /\ u.out = p.utxo
      BY <1>1, <3>1, Zenon
    <3>. QED  BY <1>0, <2>1, <3>2, OutputMoves, Zenon
  <2>2. ASSUME NEW c \in Coins, SpendsCoin(made[i], c)
        PROVE  Accepts(made[i]) /\ u.out.value = made[i].out.value + Fee
    <3>1. made[i].prev = c.outpoint
      BY <2>2 DEF SpendsCoin, Bip86KeySpend, WithWitness, Unsigned
    <3>2. u.outpoint < 0
      BY <3>1, VaultAssumption, Zenon
    <3>3. PICK d \in Coins : d.outpoint = u.outpoint /\ d.out = u.out
      BY <3>2, Zenon DEF VaultInv, Outputs
    <3>4. u.out = c.out
      BY <3>1, <3>3, VaultAssumption, Zenon
    <3>. QED  BY <2>2, <3>4, CoinMoves, Zenon
  <2>. QED  BY <2>1, <2>2, Zenon DEF VaultInv, Spends
<1>. QED  BY <1>2, <1>3, <1>4, Zenon DEF InheritanceHolds
-----------------------------------------------------------------------------
\* A call that returns a transaction and a PSBT for its output.
LEMMA ReturnKeeps ==
  ASSUME Outputs, Spends, NEW tx, NEW psbt, psbt.prev = Len(made) + 1,
         Describes(psbt), tx.out = psbt.utxo,
         \/ \E c \in Coins : SpendsCoin(tx, c)
         \/ \E p \in handed : SpendsOutput(tx, p),
         made' = Append(made, tx), handed' = handed \union {psbt}, UNCHANGED <<claims, utxos>>
  PROVE  Outputs' /\ Spends' /\ psbt \notin handed
<1>0. PICK S : made \in Seq(S)
  BY Zenon DEF Outputs, IsSeq
<1>1. made' \in Seq(S \union {tx})
  <2>1. made \in Seq(S \union {tx})
    BY <1>0
  <2>. QED  BY <2>1
<1>2. /\ Len(made) \in Nat /\ DOMAIN made = 1 .. Len(made)
      /\ DOMAIN made' = 1 .. Len(made) + 1
      /\ \A i \in DOMAIN made : made'[i] = made[i]
      /\ made'[Len(made) + 1] = tx
  BY <1>0
<1>3. \A p \in handed : p.prev \in DOMAIN made /\ p.prev # psbt.prev
  BY <1>2 DEF Outputs
<1>4. Outputs'
  <2>1. IsSeq(made)'
    BY <1>1, Zenon DEF IsSeq
  <2>2. ASSUME NEW p \in handed'
        PROVE  Describes(p) /\ p.prev \in DOMAIN made' /\ made'[p.prev].out = p.utxo
    <3>1. CASE p \in handed
      BY <1>2, <3>1 DEF Outputs
    <3>2. CASE p = psbt
      BY <1>2, <3>2
    <3>. QED  BY <3>1, <3>2, Zenon
  <2>3. ASSUME NEW p \in handed', NEW q \in handed', p.prev = q.prev
        PROVE  p = q
    BY <1>3, <2>3, Zenon DEF Outputs
  <2>4. ASSUME NEW u \in utxos'
        PROVE  /\ u.outpoint \in Int
               /\ u.outpoint < 0 => \E c \in Coins : c.outpoint = u.outpoint /\ c.out = u.out
               /\ u.outpoint > 0 => u.outpoint \in DOMAIN made' /\ u.out = made'[u.outpoint].out
    BY <1>2 DEF Outputs
  <2>. QED  BY <2>1, <2>2, <2>3, <2>4, Zenon DEF Outputs
<1>5. Spends'
  <2>1. ASSUME NEW i \in DOMAIN made'
        PROVE  \/ \E c \in Coins : SpendsCoin(made'[i], c)
               \/ \E p \in handed' : SpendsOutput(made'[i], p)
    <3>1. CASE i \in DOMAIN made
      BY <1>2, <3>1, Zenon DEF Spends
    <3>2. CASE i = Len(made) + 1
      BY <1>2, <3>2, Zenon
    <3>. QED  BY <1>2, <3>1, <3>2
  <2>2. ASSUME NEW c \in claims'
        PROVE  \E p \in handed' : \E lock : lock.n \in Int /\ c = SpentInheritance(p, lock)
    BY Zenon DEF Spends
  <2>. QED  BY <2>1, <2>2, Zenon DEF Spends
<1>. QED  BY <1>3, <1>4, <1>5, Zenon

\* A transaction of the wallet, by its number, or one of the beneficiary's.
Known(tx, txid) == txid = 0 \/ (txid \in DOMAIN made /\ tx = made[txid])

\* A transaction that enters a block leaves its output there.
LEMMA ConfirmKeeps ==
  ASSUME Outputs, Spends, NEW tx, NEW txid, Confirm(tx, txid), Known(tx, txid)
  PROVE  Outputs' /\ Spends'
<1>1. DOMAIN made \subseteq Nat \ {0}
  BY DEF Outputs, IsSeq
<1>2. UNCHANGED <<made, handed, claims>>
  BY Zenon DEF Confirm
<1>3. ASSUME NEW u \in utxos'
      PROVE  /\ u.outpoint \in Int
             /\ u.outpoint < 0 => \E c \in Coins : c.outpoint = u.outpoint /\ c.out = u.out
             /\ u.outpoint > 0 => u.outpoint \in DOMAIN made /\ u.out = made[u.outpoint].out
  <2>1. CASE u \in utxos
    BY <2>1, Zenon DEF Outputs
  <2>2. CASE u = [outpoint |-> txid, out |-> tx.out]
    BY <1>1, <2>2 DEF Known
  <2>. QED  BY <2>1, <2>2, Zenon DEF Confirm
<1>4. Outputs'
  BY <1>2, <1>3, Zenon DEF Outputs
<1>5. Spends'
  BY <1>2, Zenon DEF Spends
<1>. QED  BY <1>4, <1>5, Zenon

\* The PSBT that goes with the i-th output.
IsNext(p, prev, lock, v, i, origins) ==
  /\ IsLock(lock) /\ v \in Nat /\ i \in Nat
  /\ origins \in {{HeirOrigin(lock, i)}, {HeirOrigin(lock, i), OwnOrigin(i)}}
  /\ p = NextPsbt(prev, lock, v, Benefactor(i), HeirScript(lock, i), origins)

\* It names its output, the lock and the keys.
LEMMA NextDescribes ==
  ASSUME NEW p, NEW prev, NEW lock, NEW v, NEW i, NEW origins, IsNext(p, prev, lock, v, i, origins)
  PROVE  /\ Describes(p) /\ Made(p, i, origins) /\ p.prev = prev /\ p.lock = lock
         /\ p.utxo = TxOut(v, P2tr(Benefactor(i), {HeirScript(lock, i)}))
<1> USE DEF IsNext
<1>1. /\ p.prev = prev /\ p.lock = lock /\ p.utxo.value = v
      /\ p.utxo = TxOut(v, P2tr(Benefactor(i), {HeirScript(lock, i)}))
  BY Zenon DEF NextPsbt, TxOut
<1>2. Made(p, i, origins)
  BY <1>1, Zenon DEF Made
<1>. QED  BY <1>1, <1>2, Zenon DEF Describes

\* Of the origins of the i-th output one is the internal key's, or none.
LEMMA Origins ==
  ASSUME NEW p, NEW i, NEW origins, Made(p, i, origins)
  PROVE  /\ \A o \in InternalOrigin(p) : Benefactor(o.path) = p.internal
         /\ origins = {HeirOrigin(p.lock, i)} => InternalOrigin(p) = {}
<1>1. p.internal = Benefactor(i) /\ p.origins = origins
  BY PsbtFields, Zenon
<1>2. origins \in {{HeirOrigin(p.lock, i)}, {HeirOrigin(p.lock, i), OwnOrigin(i)}}
  BY Zenon DEF Made
<1>3. HeirOrigin(p.lock, i).key # Benefactor(i) /\ OwnOrigin(i).path = i
  BY Zenon DEF HeirOrigin, OwnOrigin, Origin, Benefactor, Beneficiary
<1>. QED  BY <1>1, <1>2, <1>3, Zenon DEF InternalOrigin

\* The wallet after a call that succeeds.
LEMMA WalletAfter ==
  ASSUME WalletSound, NEW info, NEW psbt, NEW next,
         benefactor' = [benefactor EXCEPT !.spend_info = {info}, !.next_psbt = {psbt}, !.next = next]
  PROVE  /\ benefactor' = [spend_info |-> {info}, next_psbt |-> {psbt}, next |-> next,
                           panicked |-> benefactor.panicked]
         /\ benefactor'.spend_info = {info} /\ benefactor'.next_psbt = {psbt}
         /\ benefactor'.next = next /\ benefactor'.panicked = benefactor.panicked
<1>1. PICK s, n, k, q : benefactor = [spend_info |-> s, next_psbt |-> n, next |-> k, panicked |-> q]
  BY Zenon DEF WalletSound
<1>2. benefactor' = [spend_info |-> {info}, next_psbt |-> {psbt}, next |-> next, panicked |-> q]
  BY <1>1, Zenon
<1>. QED  BY <1>1, <1>2, Zenon

\* create_inheritance_funding_tx succeeds once.
LEMMA CreateKeeps ==
  ASSUME VaultInv, NEW l \in VaultLocks, NEW c \in Coins,
         CreateInheritanceFundingTx(FromConsensus(l), c)
  PROVE  Outputs' /\ Spends' /\ WalletSound'
<1> DEFINE i == benefactor.next
           lock == FromConsensus(l)
           script == TimeLockScript(lock, Beneficiary(i))
           info == P2tr(Benefactor(i), {script})
           value == c.out.value - Fee
           origins == {Origin(Beneficiary(i), {script}, i), Origin(Benefactor(i), {}, i)}
           psbt == NextPsbt(Len(made) + 1, lock, value, Benefactor(i), script, origins)
           tx == Bip86KeySpend(c, TxOut(value, info))
<1>0. Outputs /\ Spends /\ WalletSound /\ i \in Nat
  BY Zenon DEF VaultInv, WalletSound
<1>1. CASE /\ UNCHANGED <<made, handed, claims, utxos>>
           /\ \/ UNCHANGED benefactor
              \/ \E panic : benefactor' = [benefactor EXCEPT !.spend_info = {info}, !.panicked = panic]
              \/ benefactor' = [benefactor EXCEPT !.spend_info = {info}]
  <2>1. Outputs' /\ Spends'
    BY <1>0, <1>1, Zenon DEF Outputs, Spends
  <2>2. WalletSound'
    BY <1>0, <1>1, Zenon DEF WalletSound
  <2>. QED  BY <2>1, <2>2, Zenon
<1>2. CASE /\ ~(i > 0 /\ benefactor.spend_info # {}) /\ CanPay(c.out.value)
           /\ made' = Append(made, tx) /\ handed' = handed \union {psbt} /\ UNCHANGED <<claims, utxos>>
           /\ benefactor' = [benefactor EXCEPT !.spend_info = {info}, !.next_psbt = {psbt}, !.next = i + 1]
  <2>1. i = 0 /\ handed = {}
    BY <1>0, <1>2 DEF WalletSound
  <2>2. value \in Nat /\ l \in 0 .. U32 - 1
    BY <1>2, VaultAssumption DEF CanPay
  <2>3. script = HeirScript(lock, i) /\ origins = {HeirOrigin(lock, i), OwnOrigin(i)}
    BY Zenon DEF HeirScript, HeirOrigin, OwnOrigin
  <2>4. IsLock(lock) /\ lock.n = l
    BY <2>2, Zenon DEF IsLock, FromConsensus, Lock
  <2>5. SpendsCoin(tx, c) /\ tx.out = TxOut(value, info)
    BY Zenon DEF SpendsCoin, Bip86KeySpend, WithWitness, Unsigned
  <2>6. psbt = NextPsbt(Len(made) + 1, lock, value, Benefactor(i), HeirScript(lock, i), origins)
    BY <2>3, Zenon
  <2>7. info = P2tr(Benefactor(i), {HeirScript(lock, i)})
    BY <2>3, Zenon
  <2> HIDE DEF psbt, tx, info, script, origins, value, lock
  <2>8. Describes(psbt) /\ psbt.prev = Len(made) + 1 /\ psbt.lock = lock /\ psbt.utxo = TxOut(value, info)
    <3>1. origins \in {{HeirOrigin(lock, i)}, {HeirOrigin(lock, i), OwnOrigin(i)}}
      BY <2>3, Zenon
    <3>2. i \in Nat /\ value \in Nat /\ IsLock(lock)
      BY <1>0, <2>2, <2>4, Zenon
    <3> HIDE DEF i
    <3>3. /\ Describes(psbt) /\ psbt.prev = Len(made) + 1 /\ psbt.lock = lock
          /\ psbt.utxo = TxOut(value, P2tr(Benefactor(i), {HeirScript(lock, i)}))
      <4>1. IsNext(psbt, Len(made) + 1, lock, value, i, origins)
        BY <2>6, <3>1, <3>2, Zenon DEF IsNext
      <4>. QED  BY <4>1, NextDescribes, Zenon
    <3>. QED  BY <2>7, <3>3, Zenon
  <2>9. Outputs' /\ Spends'
    BY <1>0, <1>2, <2>5, <2>8, ReturnKeeps, Zenon
  <2>10. WalletSound'
    <3>0. benefactor' = [benefactor EXCEPT !.spend_info = {info}, !.next_psbt = {psbt}, !.next = 1]
      BY <1>2, <2>1
    <3>1. /\ benefactor'.next = 1 /\ benefactor'.spend_info = {info} /\ benefactor'.next_psbt = {psbt}
          /\ benefactor' = [spend_info |-> {info}, next_psbt |-> {psbt}, next |-> 1,
                            panicked |-> benefactor'.panicked]
      <4>1. WalletSound
        BY <1>0, Zenon
      <4>. QED  BY <3>0, <4>1, WalletAfter, Zenon
    <3>2. handed' = {psbt} /\ psbt.lock.n \in VaultLocks
      BY <1>2, <2>1, <2>4, <2>8, Zenon
    <3>. QED  BY <3>1, <3>2 DEF WalletSound
  <2>. QED  BY <2>9, <2>10, Zenon
<1>. QED  BY <1>1, <1>2, Zenon DEF CreateInheritanceFundingTx

\* The lock that refresh_tx computes is later by the delta, in the same unit.
LEMMA LockMoves ==
  ASSUME NEW p, IsLock(p.lock), p.lock.n \in VaultLocks, NEW d \in Deltas,
         NEW lock \in NewLock(p, d), lock.ok
  PROVE  IsLock(lock.val) /\ lock.val.n = p.lock.n + d /\ IsSameUnit(p.lock, lock.val)
<1> DEFINE n == p.lock.n
<1>1. n \in Nat /\ d \in Nat /\ n + d < U32 /\ U32 \in Nat /\ Threshold \in Nat
  BY VaultAssumption, LockAssumption DEF IsLock
<1>2. AddU32(n, d) = {Some(n + d)}
  BY <1>1, Zenon DEF AddU32
<1>3. Some(n + d).ok /\ Some(n + d).val = n + d
  BY Zenon DEF Some
<1>4. lock = LockFromHeight(n + d)
  BY <1>2, <1>3, Zenon DEF NewLock
<1>5. n + d < Threshold /\ lock.val = Lock("Blocks", n + d)
  BY <1>4, Zenon DEF LockFromHeight, HeightFromConsensus, IsBlockHeight, Some, None
<1>6. p.lock = Lock("Blocks", n)
  <2>1. n < Threshold
    BY <1>1, <1>5
  <2>. QED  BY <2>1, Zenon DEF IsLock, FromConsensus, IsBlockHeight
<1>7. lock.val = FromConsensus(n + d)
  BY <1>5, Zenon DEF FromConsensus, IsBlockHeight
<1>8. lock.val.n = n + d /\ lock.val.unit = "Blocks" /\ p.lock.unit = "Blocks"
  BY <1>5, <1>6 DEF Lock
<1>. QED  BY <1>1, <1>7, <1>8 DEF IsLock, IsSameUnit

\* The wallet after a call that fails.
LEMMA FailureKeeps ==
  ASSUME Outputs, Spends, WalletSound, UNCHANGED <<made, handed, claims, utxos>>,
         \/ UNCHANGED benefactor
         \/ benefactor' = [benefactor EXCEPT !.panicked = TRUE]
         \/ \E info : benefactor' = [benefactor EXCEPT !.spend_info = {info}]
         \/ \E info : benefactor' = [benefactor EXCEPT !.spend_info = {info}, !.panicked = TRUE]
  PROVE  Outputs' /\ Spends' /\ WalletSound'
<1>1. Outputs' /\ Spends'
  BY Zenon DEF Outputs, Spends
<1>2. WalletSound'
  BY ZenonT(40) DEF WalletSound
<1>. QED  BY <1>1, <1>2, Zenon

\* The body of RefreshLater.
Later ==
  \A p \in handed, q \in handed' \ handed :
    \/ p.prev >= q.prev
    \/ IsSameUnit(p.lock, q.lock) /\ \E d \in Deltas : q.lock.n = p.lock.n + d

\* refresh_tx succeeds once, on the output of create_inheritance_funding_tx.
LEMMA RefreshKeeps ==
  ASSUME VaultInv, NEW delta \in Deltas, RefreshTx(delta)
  PROVE  Outputs' /\ Spends' /\ WalletSound' /\ Later
<1>0. Outputs /\ Spends /\ WalletSound /\ benefactor.next \in Nat
  BY Zenon DEF VaultInv, WalletSound
<1>1. CASE /\ UNCHANGED <<made, handed, claims, utxos>>
           /\ \/ UNCHANGED benefactor
              \/ benefactor' = [benefactor EXCEPT !.panicked = TRUE]
              \/ \E info : benefactor' = [benefactor EXCEPT !.spend_info = {info}]
  <2>1. Outputs' /\ Spends' /\ WalletSound'
    BY <1>0, <1>1, FailureKeeps, Zenon
  <2>. QED  BY <1>1, <2>1, Zenon DEF Later
<1> DEFINE i == benefactor.next
           Value(psbt) == psbt.utxo.value - Fee
           Script(lock) == TimeLockScript(lock.val, Beneficiary(i))
           Info(lock) == P2tr(Benefactor(i), {Script(lock)})
           Bare(psbt, lock) == Unsigned(psbt.prev, psbt.seq, FromConsensus(0), TxOut(Value(psbt), Info(lock)))
           NewPsbt(psbt, lock) ==
             NextPsbt(Len(made) + 1, lock.val, Value(psbt), Benefactor(i), Script(lock),
                      {Origin(Beneficiary(i), {Script(lock)}, i)})
           Signed(psbt, lock, o) ==
             WithWitness(Bare(psbt, lock),
                         {SignTaproot(Benefactor(o.path), {}, psbt.root, Sighash(Bare(psbt, lock), psbt.utxo, {}))}, {})
<1>2. ASSUME NEW psbt \in benefactor.next_psbt, NEW lock \in NewLock(psbt, delta),
             CanPay(psbt.utxo.value), lock.ok, NEW o \in InternalOrigin(psbt),
             made' = Append(made, Signed(psbt, lock, o)),
             handed' = handed \union {NewPsbt(psbt, lock)}, UNCHANGED <<claims, utxos>>,
             benefactor' = [benefactor EXCEPT !.spend_info = {Info(lock)},
                                              !.next_psbt = {NewPsbt(psbt, lock)}, !.next = i + 1]
      PROVE  Outputs' /\ Spends' /\ WalletSound' /\ Later
  <2> DEFINE lk == lock.val
             value == Value(psbt)
             info == Info(lock)
             next == NewPsbt(psbt, lock)
             tx == Signed(psbt, lock, o)
             origins == {HeirOrigin(lk, i)}
  <2>1. psbt \in handed /\ handed = {psbt} /\ psbt.lock.n \in VaultLocks
    BY <1>0, <1>2, Zenon DEF WalletSound
  <2>2. Describes(psbt)
    BY <1>0, <2>1, Zenon DEF Outputs
  <2>3. IsLock(lk) /\ lk.n = psbt.lock.n + delta /\ IsSameUnit(psbt.lock, lk)
    BY <1>2, <2>1, <2>2, LockMoves, Zenon DEF Describes
  <2>4. value \in Nat
    BY <1>2, <2>2, VaultAssumption DEF CanPay, Describes
  <2>5. Benefactor(o.path) = psbt.internal
    <3>1. PICK j \in Nat : \E orig : Made(psbt, j, orig)
      BY <2>2, Zenon DEF Describes
    <3>. QED  BY <1>2, <3>1, Origins, Zenon
  <2>6. SpendsOutput(tx, psbt) /\ tx.out = TxOut(value, info)
    <3>1. SpendsOutput(tx, psbt)
      BY <2>5, Zenon DEF SpendsOutput
    <3>2. tx.out = TxOut(value, info)
      BY Zenon DEF WithWitness, Unsigned
    <3>. QED  BY <3>1, <3>2, Zenon
  <2>7. info = P2tr(Benefactor(i), {HeirScript(lk, i)})
    BY Zenon DEF HeirScript
  <2>8. IsNext(next, Len(made) + 1, lk, value, i, origins)
    <3>1. next = NextPsbt(Len(made) + 1, lk, value, Benefactor(i), HeirScript(lk, i), origins)
      BY Zenon DEF HeirScript, HeirOrigin
    <3> HIDE DEF next, lk, value, i
    <3>2. i \in Nat
      BY <1>0, Zenon DEF i
    <3>. QED  BY <2>3, <2>4, <3>1, <3>2, Zenon DEF IsNext
  <2>9. made' = Append(made, tx) /\ handed' = handed \union {next}
    BY <1>2, Zenon
  <2>10. benefactor' = [benefactor EXCEPT !.spend_info = {info}, !.next_psbt = {next}, !.next = i + 1]
    BY <1>2, Zenon
  <2> HIDE DEF next, tx, info, value, lk, i, origins, NewPsbt, Signed, Info, Value
  <2>11. /\ Describes(next) /\ Made(next, i, origins) /\ next.prev = Len(made) + 1 /\ next.lock = lk
         /\ next.utxo = TxOut(value, info)
    BY <2>7, <2>8, NextDescribes, Zenon
  <2>12. Outputs' /\ Spends' /\ next \notin handed
    <3>1. tx.out = next.utxo /\ \E p \in handed : SpendsOutput(tx, p)
      BY <2>1, <2>6, <2>11, Zenon
    <3>. QED  BY <1>0, <1>2, <2>9, <2>11, <3>1, ReturnKeeps, Zenon
  <2>13. InternalOrigin(next) = {}
    BY <2>11, Origins, Zenon DEF origins
  <2>14. WalletSound'
    <3>1. /\ benefactor'.next = i + 1 /\ benefactor'.spend_info = {info} /\ benefactor'.next_psbt = {next}
          /\ benefactor' = [spend_info |-> {info}, next_psbt |-> {next}, next |-> i + 1,
                            panicked |-> benefactor'.panicked]
      <4>1. WalletSound
        BY <1>0, Zenon
      <4>. QED  BY <2>10, <4>1, WalletAfter, Zenon
    <3>2. i + 1 \in Nat /\ i + 1 > 0
      BY <1>0 DEF i
    <3>. QED  BY <2>9, <2>13, <3>1, <3>2 DEF WalletSound
  <2>15. Later
    BY <2>1, <2>3, <2>9, <2>11, Zenon DEF Later
  <2>. QED  BY <2>12, <2>14, <2>15, Zenon
<1>. QED  BY <1>1, <1>2, ZenonT(40) DEF RefreshTx, RefreshedValue

\* spend_inheritance makes a claim of a PSBT that was handed out.
LEMMA SpendKeeps ==
  ASSUME Outputs, Spends, WalletSound, NEW p \in handed, NEW l \in VaultLocks,
         SpendInheritance(p, FromConsensus(l))
  PROVE  Outputs' /\ Spends' /\ WalletSound'
<1>1. UNCHANGED <<benefactor, made, handed, utxos>>
  BY Zenon DEF SpendInheritance
<1>2. Outputs' /\ WalletSound'
  BY <1>1, Zenon DEF Outputs, WalletSound
<1>3. FromConsensus(l).n \in Int
  BY VaultAssumption DEF FromConsensus, Lock
<1>4. claims' \subseteq claims \union {SpentInheritance(p, FromConsensus(l))}
  BY Zenon DEF SpendInheritance
<1>5. Spends'
  BY <1>1, <1>3, <1>4, Zenon DEF Spends
<1>. QED  BY <1>2, <1>5, Zenon

\* Calls, claims and blocks keep what is known, in any order.
LEMMA VaultStep ==
  ASSUME VaultInv, [VaultNext]_vaultVars
  PROVE  VaultInv' /\ (Later \/ UNCHANGED vaultVars)
<1>0. Outputs /\ Spends /\ WalletSound /\ height \in Nat /\ time \in Nat
  BY Zenon DEF VaultInv
<1>1. ASSUME Wallets, UNCHANGED <<height, time>>
      PROVE  VaultInv' /\ Later
  <2>1. ASSUME NEW l \in VaultLocks, NEW c \in Coins, CreateInheritanceFundingTx(FromConsensus(l), c)
        PROVE  Outputs' /\ Spends' /\ WalletSound' /\ Later
    <3>0. handed' = handed \/ ~(benefactor.next > 0 /\ benefactor.spend_info # {})
      BY <2>1, Zenon DEF CreateInheritanceFundingTx
    <3>1. handed' = handed \/ handed = {}
      BY <1>0, <3>0 DEF WalletSound
    <3>2. Later
      BY <3>1, Zenon DEF Later
    <3>. QED  BY <2>1, <3>2, CreateKeeps, Zenon
  <2>2. ASSUME NEW d \in Deltas, RefreshTx(d)
        PROVE  Outputs' /\ Spends' /\ WalletSound' /\ Later
    BY <2>2, RefreshKeeps, Zenon
  <2>3. ASSUME NEW p \in handed, NEW l \in VaultLocks, SpendInheritance(p, FromConsensus(l))
        PROVE  Outputs' /\ Spends' /\ WalletSound' /\ Later
    BY <1>0, <2>3, SpendKeeps, Zenon DEF SpendInheritance, Later
  <2>4. ASSUME NEW tx, NEW txid, Confirm(tx, txid), Known(tx, txid)
        PROVE  Outputs' /\ Spends' /\ WalletSound' /\ Later
    <3>1. Outputs' /\ Spends'
      BY <1>0, <2>4, ConfirmKeeps, Zenon
    <3>2. WalletSound' /\ Later
      BY <1>0, <2>4, Zenon DEF Confirm, WalletSound, Later
    <3>. QED  BY <3>1, <3>2, Zenon
  <2>5. ASSUME NEW n \in DOMAIN made, Confirm(made[n], n)
        PROVE  Outputs' /\ Spends' /\ WalletSound' /\ Later
    BY <2>4, <2>5, Zenon DEF Known
  <2>6. ASSUME NEW tx \in claims, Confirm(tx, 0)
        PROVE  Outputs' /\ Spends' /\ WalletSound' /\ Later
    <3>1. Known(tx, 0)
      BY Zenon DEF Known
    <3>. QED  BY <2>4, <2>6, <3>1, Zenon
  <2>7. Outputs' /\ Spends' /\ WalletSound' /\ Later
    BY <1>1, <2>1, <2>2, <2>3, <2>5, <2>6, ZenonT(40) DEF Wallets
  <2>. QED  BY <1>0, <1>1, <2>7, Zenon DEF VaultInv
<1>2. ASSUME NEW t \in Nat, NextBlock(t)
      PROVE  VaultInv' /\ Later
  BY <1>0, <1>2 DEF NextBlock, Tip, walletVars, VaultInv, Outputs, Spends, WalletSound, Later
<1>3. CASE UNCHANGED vaultVars
  BY <1>0, <1>3, Zenon DEF vaultVars, walletVars, VaultInv, Outputs, Spends, WalletSound
<1>. QED  BY <1>1, <1>2, <1>3, Zenon DEF VaultNext

\* A new wallet knows nothing, and the coins are on the chain.
LEMMA VaultStart == VaultInit => VaultInv
<1> SUFFICES ASSUME VaultInit PROVE VaultInv
  BY Zenon
<1>1. Outputs
  <2>1. IsSeq(made)
    <3>1. made \in Seq({})
      BY DEF VaultInit
    <3>. QED  BY <3>1, Zenon DEF IsSeq
  <2>2. \A u \in utxos : u.outpoint \in Int /\ u.outpoint < 0
                         /\ \E c \in Coins : c.outpoint = u.outpoint /\ c.out = u.out
    BY VaultAssumption DEF VaultInit
  <2>3. handed = {}
    BY Zenon DEF VaultInit
  <2>4. \A u \in utxos : /\ u.outpoint \in Int
                         /\ u.outpoint < 0 => \E c \in Coins : c.outpoint = u.outpoint /\ c.out = u.out
                         /\ u.outpoint > 0 => u.outpoint \in DOMAIN made /\ u.out = made[u.outpoint].out
    BY <2>2
  <2>. QED  BY <2>1, <2>3, <2>4, Zenon DEF Outputs
<1>2. Spends /\ WalletSound
  BY DEF VaultInit, Spends, WalletSound, NewWallet
<1>3. height \in Nat /\ time \in Nat
  BY LockAssumption, Zenon DEF VaultInit
<1>. QED  BY <1>1, <1>2, <1>3, Zenon DEF VaultInv

\* For all coins, locks, deltas and fees, however the calls of the two wallets, their
\* transactions and the blocks interleave: the PSBT that the heir holds spends its output
\* from the lock on and not before, and what the owner's wallet returned can be sent at
\* any time (taproot-psbt.rs).
THEOREM InheritanceAlwaysHolds == VaultSpec => []InheritanceHolds
<1>1. VaultInv /\ [VaultNext]_vaultVars => VaultInv'
  BY VaultStep, Zenon
<1>. QED  BY <1>1, VaultStart, InvImplies, PTL DEF VaultSpec

\* A PSBT that refresh_tx hands out opens exactly a delta after the ones before it, as
\* long as no lock is moved beyond the largest u32.
THEOREM RefreshAlwaysLater == VaultSpec => RefreshLater
<1>1. VaultInv /\ [VaultNext]_vaultVars => VaultInv'
  BY VaultStep, Zenon
<1>2. VaultInv /\ [VaultNext]_vaultVars => [Later]_vaultVars
  BY VaultStep, Zenon
<1>. QED  BY <1>1, <1>2, VaultStart, PTL DEF VaultSpec, RefreshLater, Later
-----------------------------------------------------------------------------
(***************************************************************************)
(* The locks that the chain is watched with, in blocks and in time.        *)
(***************************************************************************)

\* A relative lock goes to a sequence number and back.
LEMMA SequenceBack ==
  ASSUME NEW lock \in Relative
  PROVE  /\ RelFromSequence(RelToSequence(lock)) = Some(lock)
         /\ IsRbf(RelToSequence(lock)) /\ EnablesAbsoluteLockTime(RelToSequence(lock))
         /\ IsTimeLocked(RelToSequence(lock)) <=> lock.unit = "Seconds"
<1>1. PICK u \in {"Blocks", "Seconds"}, n \in 0 .. U16 - 1 : lock = Lock(u, n)
  BY DEF Relative
<1>2. lock.unit = u /\ lock.n = n
  BY <1>1 DEF Lock
<1>3. /\ n \in Nat /\ n < U16 /\ n < TypeFlag /\ U16 \in Nat /\ U16 > 0 /\ TypeFlag \in Nat /\ TypeFlag > 0
      /\ U32 \in Nat /\ 4 * TypeFlag <= U32 /\ U32 % 2 = 0 /\ TypeFlag % U16 = 0
  BY LockAssumption
<1> DEFINE half == U32 \div 2
<1>4. half \in Nat /\ U32 = 2 * half
  BY <1>3
<1> HIDE DEF half
<1>5. CASE u = "Blocks"
  <2>1. RelToSequence(lock) = n
    BY <1>2, <1>5 DEF RelToSequence, RelToConsensus
  <2>2. n \div TypeFlag = 0
    <3>1. 0 * TypeFlag <= n /\ n < (0 + 1) * TypeFlag
      BY <1>3
    <3>. QED  BY <1>3, <3>1, Quotient
  <2>3. ~TypeBit(n)
    BY <2>2 DEF TypeBit
  <2>4. IsRelativeLockTime(n)
    BY <1>3, <1>4 DEF IsRelativeLockTime, half
  <2>5. n % U16 = n
    <3>1. 0 % U16 = 0
      BY <1>3
    <3>2. (n + 0) % U16 = n
      BY <1>3, <3>1, Remainder
    <3>. QED  BY <1>3, <3>2
  <2>6. RelFromSequence(n) = Some(Lock("Blocks", n))
    BY <2>3, <2>4, <2>5 DEF RelFromSequence, RelFromConsensus, ToRelativeLockTime, IsTimeLocked, LowU16
  <2>7. IsRbf(n) /\ EnablesAbsoluteLockTime(n)
    BY <1>3 DEF IsRbf, EnablesAbsoluteLockTime, MinNoRbf, SeqMax
  <2>8. ~IsTimeLocked(n)
    BY <2>3 DEF IsTimeLocked
  <2>. QED  BY <1>1, <1>2, <1>5, <2>1, <2>6, <2>7, <2>8, SMTT(40)
<1>6. CASE u = "Seconds"
  <2> DEFINE s == n + TypeFlag
  <2>0. s \in Nat
    BY <1>3
  <2>1. RelToSequence(lock) = s
    BY <1>2, <1>6 DEF RelToSequence, RelToConsensus
  <2>2. s \div TypeFlag = 1
    <3>1. 1 * TypeFlag <= s /\ s < (1 + 1) * TypeFlag
      BY <1>3
    <3>. QED  BY <1>3, <2>0, <3>1, Quotient
  <2>3. TypeBit(s)
    BY <2>2 DEF TypeBit
  <2>4. IsRelativeLockTime(s)
    BY <1>3, <1>4 DEF IsRelativeLockTime, half
  <2>5. s % U16 = n
    BY <1>3, Remainder, SMTT(40)
  <2>7. IsRbf(s) /\ EnablesAbsoluteLockTime(s)
    BY <1>3 DEF IsRbf, EnablesAbsoluteLockTime, MinNoRbf, SeqMax
  <2> HIDE DEF s
  <2>6. RelFromSequence(s) = Some(Lock("Seconds", n))
    BY <2>3, <2>4, <2>5 DEF RelFromSequence, RelFromConsensus, ToRelativeLockTime, IsTimeLocked, LowU16
  <2>8. IsTimeLocked(s)
    BY <2>3, <2>4 DEF IsTimeLocked
  <2>. QED  BY <1>1, <1>2, <1>6, <2>1, <2>6, <2>7, <2>8, SMTT(40)
<1>. QED  BY <1>5, <1>6

\* A sequence number is one of three things.
LEMMA OneKind ==
  ASSUME NEW n
  PROVE  Cardinality({k \in 1 .. 3 : <<IsHeightLocked(n), IsTimeLocked(n), ~RelFromSequence(n).ok>>[k]}) = 1
<1> DEFINE kinds == <<IsHeightLocked(n), IsTimeLocked(n), ~RelFromSequence(n).ok>>
           which == {k \in 1 .. 3 : kinds[k]}
<1>1. /\ IsRelativeLockTime(n) => RelFromSequence(n).ok
      /\ ~IsRelativeLockTime(n) => ~RelFromSequence(n).ok
  <2>1. CASE IsRelativeLockTime(n)
    <3>1. PICK lock : RelFromSequence(n) = Some(lock)
      BY <2>1 DEF RelFromSequence, RelFromConsensus, ToRelativeLockTime
    <3>2. Some(lock).ok
      BY DEF Some
    <3>. QED  BY <2>1, <3>1, <3>2
  <2>2. CASE ~IsRelativeLockTime(n)
    <3>1. RelFromSequence(n) = None("Disabled")
      BY <2>2 DEF RelFromSequence, RelFromConsensus, ToRelativeLockTime
    <3>2. ~None("Disabled").ok
      BY DEF None
    <3>. QED  BY <2>2, <3>1, <3>2
  <2>. QED  BY <2>1, <2>2
<1>2. kinds[1] = IsHeightLocked(n) /\ kinds[2] = IsTimeLocked(n) /\ kinds[3] = ~RelFromSequence(n).ok
  OBVIOUS
<1>3. 1 .. 3 = {1, 2, 3} /\ 1 # 2 /\ 2 # 3 /\ 1 # 3
  OBVIOUS
<1> HIDE DEF kinds
<1>5. \E k \in 1 .. 3 : which = {k}
  <2>1. CASE IsRelativeLockTime(n) /\ ~TypeBit(n)
    <3>1. kinds[1] /\ ~kinds[2] /\ ~kinds[3]
      BY <1>1, <1>2, <2>1, Zenon DEF IsHeightLocked, IsTimeLocked
    <3>2. which = {1}
      BY <1>3, <3>1, Zenon
    <3>. QED  BY <3>2
  <2>2. CASE IsRelativeLockTime(n) /\ TypeBit(n)
    <3>1. ~kinds[1] /\ kinds[2] /\ ~kinds[3]
      BY <1>1, <1>2, <2>2, Zenon DEF IsHeightLocked, IsTimeLocked
    <3>2. which = {2}
      BY <1>3, <3>1, Zenon
    <3>. QED  BY <3>2
  <2>3. CASE ~IsRelativeLockTime(n)
    <3>1. ~kinds[1] /\ ~kinds[2] /\ kinds[3]
      BY <1>1, <1>2, <2>3, Zenon DEF IsHeightLocked, IsTimeLocked
    <3>2. which = {3}
      BY <1>3, <3>1, Zenon
    <3>. QED  BY <3>2
  <2>. QED  BY <2>1, <2>2, <2>3
<1>4. Cardinality(which) = 1
  BY <1>5, FS_Singleton
<1>. QED  BY <1>4 DEF kinds

Rounded(s) ==
  \A f \in {TimeFromSecondsFloor(s)}, c \in TimeFromSecondsCeil(s) :
    /\ f.ok => f.val * Interval <= s /\ s < (f.val + 1) * Interval
    /\ c.ok => s <= c.val * Interval /\ c.val * Interval < s + Interval
    /\ SeqFromSecondsFloor(s) = {IF f.ok THEN Some(SeqFromIntervals(f.val)) ELSE f}
    /\ c.ok => SeqFromSecondsCeil(s) = {Some(SeqFromIntervals(c.val))}

\* The seconds of a time lock are rounded down and up to the unit.
LEMMA SecondsRounded ==
  ASSUME NEW s \in Numbers, s + Interval - 1 < U32
  PROVE  Rounded(s)
<1>0. /\ s \in Nat /\ Interval \in Nat /\ Interval > 0 /\ U16 \in Nat /\ U32 \in Nat
      /\ s + (Interval - 1) \in Nat /\ Interval - 1 \in Nat
  BY LockAssumption DEF Numbers
<1> DEFINE low == s \div Interval
           sum == s + (Interval - 1)
           high == sum \div Interval
<1>1. low \in Nat /\ low * Interval <= s /\ s < (low + 1) * Interval
  BY <1>0, Division
<1>2. high \in Nat /\ high * Interval <= sum /\ sum < (high + 1) * Interval
  BY <1>0, Division
<1>3. low <= high
  BY <1>0, QuotientGrows
<1>4. AddU32(s, Interval - 1) = {Some(sum)}
  BY <1>0 DEF AddU32
<1>5. TimeFromSecondsFloor(s) = IF low < U16 THEN Some(low) ELSE None("TimeOverflow")
  BY DEF TimeFromSecondsFloor
<1>6. Some(sum).ok /\ Some(sum).val = sum
  BY DEF Some
<1>7. TimeFromSecondsCeil(s) = {IF high < U16 THEN Some(high) ELSE None("TimeOverflow")}
  BY <1>4, <1>6 DEF TimeFromSecondsCeil
<1>8. SeqFromSecondsFloor(s) = IF low < U16 THEN {Some(SeqFromIntervals(low))} ELSE OverflowError(s)
  BY DEF SeqFromSecondsFloor
<1>9. low >= U16 => OverflowError(s) = {None("TimeOverflow")}
  <2>1. low >= U16 => high >= U16
    BY <1>0, <1>1, <1>2, <1>3, SMTT(40)
  <2>2. high >= U16 => OverflowError(s) = {None("TimeOverflow")}
    BY <1>4, <1>6 DEF OverflowError
  <2>. QED  BY <2>1, <2>2
<1>10. high < U16 => SeqFromSecondsCeil(s) = {Some(SeqFromIntervals(high))}
  BY <1>4, <1>6 DEF SeqFromSecondsCeil
<1>11. s <= high * Interval /\ high * Interval < s + Interval
  <2>1. (high + 1) * Interval = high * Interval + Interval /\ high * Interval \in Int
    BY <1>0, <1>2
  <2>2. sum = s + (Interval - 1)
    OBVIOUS
  <2> HIDE DEF high, sum
  <2>. QED  BY <1>0, <1>2, <2>1, <2>2
<1> HIDE DEF low, high, sum
<1>12. CASE low < U16 /\ high < U16
  BY <1>1, <1>5, <1>7, <1>8, <1>10, <1>11, <1>12, SMTT(40) DEF Rounded, Some
<1>13. CASE low < U16 /\ ~(high < U16)
  BY <1>1, <1>5, <1>7, <1>8, <1>11, <1>13, SMTT(40) DEF Rounded, Some, None
<1>14. CASE ~(low < U16)
  <2>1. low >= U16 /\ ~(high < U16)
    BY <1>0, <1>1, <1>2, <1>3, <1>14
  <2>2. \A v : ~None(v).ok
    BY DEF None
  <2>3. /\ TimeFromSecondsFloor(s) = None("TimeOverflow") /\ TimeFromSecondsCeil(s) = {None("TimeOverflow")}
        /\ SeqFromSecondsFloor(s) = {None("TimeOverflow")}
    BY <1>5, <1>7, <1>8, <1>9, <1>14, <2>1, Zenon
  <2>. QED  BY <2>2, <2>3, Zenon DEF Rounded
<1>. QED  BY <1>12, <1>13, <1>14

Watches == watched.absolute \subseteq Absolute /\ watched.relative \subseteq Relative /\ watched.numbers \subseteq Numbers
LockInv == Watches /\ height \in Nat /\ time \in Nat

\* When a relative lock is open.
LEMMA RelativeOpen ==
  ASSUME NEW lock, NEW h, NEW t
  PROVE  /\ lock.unit = "Blocks" => (RelIsSatisfiedBy(lock, h, t) <=> lock.n <= h)
         /\ lock.unit = "Seconds" => (RelIsSatisfiedBy(lock, h, t) <=> lock.n <= t)
<1>1. \A v : Some(v).ok /\ Some(v).val = v
  BY DEF Some
<1>2. \A v : ~None(v).ok
  BY DEF None
<1> DEFINE byHeight == RelSatisfiedByHeight(lock, h)
           byTime == RelSatisfiedByTime(lock, t)
<1>0. RelIsSatisfiedBy(lock, h, t) <=> (byHeight.ok /\ byHeight.val) \/ (byTime.ok /\ byTime.val)
  BY DEF RelIsSatisfiedBy
<1> HIDE DEF byHeight, byTime
<1>3. ASSUME lock.unit = "Blocks"
      PROVE  RelIsSatisfiedBy(lock, h, t) <=> lock.n <= h
  <2>1. byHeight = Some(lock.n <= h) /\ byTime = None("IncompatibleTime")
    BY <1>3 DEF RelSatisfiedByHeight, RelSatisfiedByTime, byHeight, byTime
  <2>2. byHeight.ok /\ byHeight.val = (lock.n <= h) /\ ~byTime.ok
    BY <1>1, <1>2, <2>1, Zenon
  <2>. QED  BY <1>0, <2>2, Zenon
<1>4. ASSUME lock.unit = "Seconds"
      PROVE  RelIsSatisfiedBy(lock, h, t) <=> lock.n <= t
  <2>1. byTime = Some(lock.n <= t) /\ byHeight = None("IncompatibleHeight")
    BY <1>4 DEF RelSatisfiedByHeight, RelSatisfiedByTime, byHeight, byTime
  <2>2. byTime.ok /\ byTime.val = (lock.n <= t) /\ ~byHeight.ok
    BY <1>1, <1>2, <2>1, Zenon
  <2>. QED  BY <1>0, <2>2, Zenon
<1>. QED  BY <1>3, <1>4, Zenon

\* The locks of both kinds that imply each other.
LEMMA ImpliedLocksOpen ==
  ASSUME LockInv
  PROVE  ImpliedOpen
<1>0. height \in Nat /\ time \in Nat /\ Threshold \in Nat
  BY LockAssumption DEF LockInv
<1>1. ASSUME NEW a \in watched.absolute, NEW b \in watched.absolute,
             IsImpliedBy(a, b), IsSatisfiedBy(b, height, time)
      PROVE  IsSatisfiedBy(a, height, time)
  <2>1. PICK m \in Numbers, n \in Numbers : a = FromConsensus(m) /\ b = FromConsensus(n)
    BY DEF LockInv, Watches, Absolute
  <2>2. a.n = m /\ b.n = n /\ m \in Int /\ n \in Int
    BY <2>1 DEF FromConsensus, Lock, Numbers
  <2>. QED  BY <1>0, <1>1, <2>2 DEF IsImpliedBy, IsSameUnit, IsSatisfiedBy
<1>2. ASSUME NEW a \in watched.relative, NEW b \in watched.relative,
             RelIsImpliedBySequence(a, RelToSequence(b)), RelIsSatisfiedBy(b, height, time - Threshold)
      PROVE  RelIsSatisfiedBy(a, height, time - Threshold)
  <2>1. a \in Relative /\ b \in Relative
    BY DEF LockInv, Watches
  <2>2. RelIsImpliedBy(a, b)
    <3>1. RelFromSequence(RelToSequence(b)) = Some(b)
      BY <2>1, SequenceBack
    <3>2. Some(b).val = b
      BY DEF Some
    <3>. QED  BY <1>2, <3>1, <3>2 DEF RelIsImpliedBySequence
  <2>3. /\ a.n \in Int /\ b.n \in Int /\ a.unit = b.unit /\ a.n <= b.n /\ b.unit \in {"Blocks", "Seconds"}
    BY <2>1, <2>2, LockAssumption DEF Relative, Lock, RelIsImpliedBy, IsSameUnit
  <2>4. CASE b.unit = "Blocks"
    <3>1. b.n <= height
      BY <1>2, <2>4, RelativeOpen
    <3>2. a.n <= height
      BY <1>0, <2>3, <3>1
    <3>. QED  BY <2>3, <2>4, <3>2, RelativeOpen, SMTT(40)
  <2>5. CASE b.unit = "Seconds"
    <3>1. b.n <= time - Threshold
      BY <1>2, <2>5, RelativeOpen
    <3>2. a.n <= time - Threshold
      BY <1>0, <2>3, <3>1, SMTT(40)
    <3>. QED  BY <2>3, <2>5, <3>2, RelativeOpen
  <2>. QED  BY <2>3, <2>4, <2>5
<1>. QED  BY <1>1, <1>2 DEF ImpliedOpen

\* Sequence numbers and seconds.
LEMMA SequencesAreRight ==
  ASSUME LockInv
  PROVE  SequencesHold
<1>1. \A lock \in watched.relative :
       /\ RelFromSequence(RelToSequence(lock)) = Some(lock)
       /\ IsRbf(RelToSequence(lock)) /\ EnablesAbsoluteLockTime(RelToSequence(lock))
       /\ IsTimeLocked(RelToSequence(lock)) <=> lock.unit = "Seconds"
  BY SequenceBack DEF LockInv, Watches
<1>2. \A n \in watched.numbers :
        Cardinality({k \in 1 .. 3 : <<IsHeightLocked(n), IsTimeLocked(n), ~RelFromSequence(n).ok>>[k]}) = 1
  BY OneKind
<1>3. \A s \in watched.numbers : s + Interval - 1 < U32 => Rounded(s)
  BY SecondsRounded DEF LockInv, Watches
<1>. QED  BY <1>1, <1>2, <1>3, SMTT(40) DEF SequencesHold, Rounded

\* Whatever locks and sequence numbers are looked at, and however the chain grows, a lock
\* that is implied by another is open when the other is, and the encodings of relative
\* locks lose nothing.
THEOREM LocksAlwaysHold == LockSpec => []LocksHold
<1>1. LockInit => LockInv
  <2>1. ASSUME NEW a \in SUBSET Absolute, NEW r \in SUBSET Relative, NEW n \in SUBSET Numbers, watched = Watching(a, r, n)
        PROVE  Watches
    BY <2>1 DEF Watching, Watches
  <2>. QED  BY <2>1, LockAssumption DEF LockInit, LockInv
<1>2. LockInv /\ [LockNext]_<<height, time, watched>> => LockInv'
  BY DEF LockInv, LockNext, Tip, Watches
<1>3. LockInv => LocksHold
  BY ImpliedLocksOpen, SequencesAreRight DEF LocksHold
<1>. QED  BY <1>1, <1>2, <1>3, PTL DEF LockSpec
=============================================================================
