------------------------------- MODULE Script -------------------------------
(***************************************************************************)
(* Scripts as bytes (blockdata/script, blockdata/opcodes.rs): the builder, *)
(* the iterator over instructions, numbers, the standard templates, what a *)
(* script is recognised as, and its signature operations and dust limit.   *)
(*                                                                         *)
(* Opcodes have the numbers of the code.  A hash160, a sha256, a key and a *)
(* witness program are shorter than they are.                              *)
(***************************************************************************)
EXTENDS TapData

CONSTANTS
  MinProgram, MaxProgram,   \* bytes of a witness program, 2 and 40
  MaxElementSize            \* MAX_SCRIPT_ELEMENT_SIZE, 520

OP_PUSHDATA1 == 76
OP_PUSHDATA2 == 77
OP_PUSHDATA4 == 78
OP_NEG1 == 79
OP_PUSHNUM_1 == 81
OP_PUSHNUM_16 == 96
OP_VERIFY == 105
OP_RETURN == 106
OP_DUP == 118
OP_EQUAL == 135
OP_EQUALVERIFY == 136
OP_NUMEQUAL == 156
OP_HASH160 == 169
OP_CHECKSIG == 172
OP_CHECKMULTISIG == 174
OP_CHECKSIGADD == 186

\* Opcode::classify.
AlwaysIllegal == {101, 102, 255}
LegacyIllegal == (126..129) \union (131..134) \union {141, 142} \union (149..153)
Successes ==
  {80, 98} \union (126..129) \union (131..134) \union {137, 138, 141, 142} \union (149..153) \union (187..254)
Reserved == {80, 137, 138, 98}
NoOps == {97} \union (176..185)

ClassifyLegacy(op) ==
  CASE op \in AlwaysIllegal \union LegacyIllegal -> "IllegalOp"
    [] op \in NoOps -> "NoOp"
    [] op = OP_RETURN \/ op \in Reserved \/ op \in OP_CHECKSIGADD..254 -> "ReturnOp"
    [] op = OP_NEG1 \/ op \in OP_PUSHNUM_1..OP_PUSHNUM_16 -> "PushNum"
    [] op < OP_PUSHDATA1 -> "PushBytes"
    [] OTHER -> "Ordinary"

ClassifyTapScript(op) ==
  CASE op \in AlwaysIllegal -> "IllegalOp"
    [] op \in Successes -> "SuccessOp"
    [] op \in NoOps -> "NoOp"
    [] op \in {OP_RETURN, OP_CHECKMULTISIG, OP_CHECKMULTISIG + 1} -> "ReturnOp"
    [] op = OP_NEG1 \/ op \in OP_PUSHNUM_1..OP_PUSHNUM_16 -> "PushNum"
    [] op < OP_PUSHDATA1 -> "PushBytes"
    [] OTHER -> "Ordinary"

\* The opcodes Ordinary::with knows; for any other it panics.
OrdinaryOps ==
  (OP_PUSHDATA1..OP_PUSHDATA4) \union {99, 100, 103, 104, OP_VERIFY, 107, 108} \union (109..125)
  \union {130, OP_EQUAL, OP_EQUALVERIFY} \union {139, 140} \union (143..148) \union (154..165)
  \union (166..175) \union {OP_CHECKSIGADD}

DecodePushnum(op) == IF op \in OP_PUSHNUM_1..OP_PUSHNUM_16 THEN {op - OP_PUSHNUM_1 + 1} ELSE {}
OpcodeToVerify(last) ==
  {op + 1 : op \in last \intersect {OP_EQUAL, OP_NUMEQUAL, OP_CHECKSIG, OP_CHECKMULTISIG}}
-----------------------------------------------------------------------------
\* Numbers: little endian magnitude with the sign in the top bit.
WriteScriptInt(n) ==
  LET abs == IF n < 0 THEN -n ELSE n
      len == CHOOSE k \in 1..W64 : abs < 256 ^ k /\ (k = 1 \/ abs >= 256 ^ (k - 1))
      le == ToLE(abs, len)
      sign == IF n < 0 THEN 128 ELSE 0
  IN  IF n = 0 THEN <<>>
      ELSE IF le[len] >= 128 THEN Append(le, sign)
      ELSE Append(Front(le), le[len] + sign)

ScriptIntParse(v) ==
  LET top == v[Len(v)]
  IN  IF top >= 128 THEN -FromLE(Append(Front(v), top - 128)) ELSE FromLE(v)

Redundant(v) == v[Len(v)] % 128 = 0 /\ (Len(v) <= 1 \/ v[Len(v) - 1] < 128)

\* A number takes 4 bytes at most, the width of a u32.
ReadScriptInt(v) ==
  IF v = <<>> THEN Ok(0, <<>>)
  ELSE IF Len(v) > W32 THEN Err("NumericOverflow")
  ELSE IF Redundant(v) THEN Err("NonMinimalPush")
  ELSE Ok(ScriptIntParse(v), <<>>)

ReadScriptIntNonMinimal(v) ==
  IF v = <<>> THEN Ok(0, <<>>)
  ELSE IF Len(v) > W32 THEN Err("NumericOverflow")
  ELSE Ok(ScriptIntParse(v), <<>>)

ReadScriptBool(v) ==
  v # <<>> /\ ~(v[Len(v)] \in {0, 128} /\ \A i \in 1..Len(v) - 1 : v[i] = 0)
-----------------------------------------------------------------------------
\* ScriptBuf and Builder.  A builder is a script and the last opcode, in a set.
Op(op) == [push |-> FALSE, op |-> op, data |-> <<>>]
Push(data) == [push |-> TRUE, op |-> 0, data |-> data]

PushPrefix(n) ==
  CASE n < OP_PUSHDATA1 -> <<n>>
    [] n >= OP_PUSHDATA1 /\ n < 256 -> <<OP_PUSHDATA1, n>>
    [] n >= 256 /\ n < 256 ^ W16 -> <<OP_PUSHDATA2>> \o ToLE(n, W16)
    [] OTHER -> <<OP_PUSHDATA4>> \o ToLE(n, W32)

ScriptPush(script, data) == script \o PushPrefix(Len(data)) \o data
ReservedLenForSlice(n) ==
  n + (IF n < 76 THEN 1 ELSE IF n < 256 THEN 2 ELSE IF n < 256 ^ W16 THEN 1 + W16 ELSE 1 + W32)
ScriptSerializedLen(i) == IF i.push THEN ReservedLenForSlice(Len(i.data)) ELSE 1

PushInstruction(script, i) == IF i.push THEN ScriptPush(script, i.data) ELSE Append(script, i.op)
FromInstructions(is) ==
  LET made[k \in 0..Len(is)] == IF k = 0 THEN <<>> ELSE PushInstruction(made[k - 1], is[k])
  IN  made[Len(is)]

Builder(script, last) == [script |-> script, last |-> last]
NewBuilder == Builder(<<>>, {})
BuildOpcode(b, op) == Builder(Append(b.script, op), {op})

\* Mutant: the last opcode stays known.
BuildSliceKeepLast(b, data) == Builder(ScriptPush(b.script, data), b.last)
BuildSlice(b, data) == Builder(ScriptPush(b.script, data), {})
BuildKey(b, pk) == BuildSlice(b, KeyToBytes(pk))
BuildXOnly(b, x) == BuildSlice(b, <<x>>)
BuildIntNonMinimal(b, n) == BuildSlice(b, WriteScriptInt(n))
BuildInt(b, n) ==
  IF n = -1 \/ n \in 1..16 THEN BuildOpcode(b, n - 1 + OP_PUSHNUM_1)
  ELSE IF n = 0 THEN BuildOpcode(b, 0)
  ELSE BuildIntNonMinimal(b, n)
WithVerify(script, last) ==
  LET v == OpcodeToVerify(last)
  IN  IF v = {} THEN Append(script, OP_VERIFY)
      ELSE Append(Front(script), CHOOSE op \in v : TRUE)
BuildVerify(b) ==
  LET s == WithVerify(b.script, b.last) IN Builder(s, {s[Len(s)]})
-----------------------------------------------------------------------------
\* Instructions: one call of next on the bytes that are left.  An error ends the
\* iterator, which goes to the end of the script.
Stop(kind) == [ok |-> FALSE, val |-> kind, rest |-> <<>>]
TakeSlice(n, r) == Then(ReadSlice(n, r), LAMBDA data, rest : Ok(Push(data), rest))

NextPushDataLen(r, width, least, minimal) ==
  Then(ReadUint(width, r), LAMBDA n, rest :
    IF minimal /\ n < least THEN Stop("NonMinimalPush") ELSE TakeSlice(n, rest))

SmallNumber(data) == Len(data) = 1 /\ data[1] \in {129} \union (1..16)

InstructionOf(op, rest, class, minimal) ==
  CASE class = "PushBytes" ->
       IF minimal /\ op = 1 /\ rest # <<>> /\ SmallNumber(<<rest[1]>>)
         THEN Stop("NonMinimalPush") ELSE TakeSlice(op, rest)
    [] class # "PushBytes" /\ op = OP_PUSHDATA1 -> NextPushDataLen(rest, 1, 76, minimal)
    [] class # "PushBytes" /\ op = OP_PUSHDATA2 -> NextPushDataLen(rest, W16, 256, minimal)
    [] class # "PushBytes" /\ op = OP_PUSHDATA4 -> NextPushDataLen(rest, W32, 256 ^ W16, minimal)
    [] OTHER -> Ok(Op(op), rest)
NextInstruction(r, minimal) == InstructionOf(r[1], Tail(r), ClassifyLegacy(r[1]), minimal)

\* All instructions up to the first error; each with the place it starts at.
Parsed(s, n, len) ==
  IF n.ok THEN [list |-> Append(s.list, n.val), starts |-> Append(s.starts, len - Len(s.rest)), err |-> "", rest |-> n.rest]
  ELSE [s EXCEPT !.err = n.val, !.rest = <<>>]
RECURSIVE ParseRest(_, _, _)
ParseRest(s, len, minimal) ==
  IF s.rest = <<>> THEN s ELSE ParseRest(Parsed(s, NextInstruction(s.rest, minimal), len), len, minimal)
Parse(script, minimal) ==
  ParseRest([list |-> <<>>, starts |-> <<>>, err |-> "", rest |-> script], Len(script), minimal)

Instructions(script) == Parse(script, FALSE)

\* next_with of InstructionIndices: the start is the bytes consumed before.
InstructionIndices(script) == Parse(script, FALSE).starts

ScriptNum(i) ==
  IF i.push THEN {r.val : r \in {x \in {ReadScriptIntNonMinimal(i.data)} : x.ok}}
  ELSE IF i.op = OP_NEG1 THEN {-1} ELSE DecodePushnum(i.op)

LastOpcode(script) ==
  LET p == Instructions(script)
  IN  IF p.err # "" \/ p.list = <<>> \/ p.list[Len(p.list)].push THEN {} ELSE {p.list[Len(p.list)].op}
LastPushdata(script) ==
  LET p == Instructions(script)
  IN  IF p.err # "" \/ p.list = <<>> \/ ~p.list[Len(p.list)].push THEN {} ELSE {p.list[Len(p.list)].data}

FromVec(script) == Builder(script, LastOpcode(script))
ScanAndPushVerify(script) == WithVerify(script, LastOpcode(script))
-----------------------------------------------------------------------------
(***************************************************************************)
(* The standard scripts (script/owned.rs, script/borrowed.rs) and witness  *)
(* programs (witness_program.rs, witness_version.rs): how they are made,   *)
(* recognised and counted.                                                 *)
(***************************************************************************)

\* WitnessVersion: a number up to 16, an opcode, or the first instruction.
VersionFromNum(n) == IF n <= 16 THEN Ok(n, <<>>) ELSE Err("TryFromError")
VersionFromOpcode(op) ==
  IF op = 0 THEN Ok(0, <<>>)
  ELSE IF op \in OP_PUSHNUM_1..OP_PUSHNUM_16 THEN VersionFromNum(op - OP_PUSHNUM_1 + 1)
  ELSE Err("TryFromError")
VersionFromInstruction(i) ==
  IF ~i.push THEN VersionFromOpcode(i.op)
  ELSE IF i.data = <<>> THEN Ok(0, <<>>) ELSE Err("DataPush")
VersionToOpcode(v) == IF v = 0 THEN 0 ELSE OP_PUSHNUM_1 + v - 1

\* WitnessProgram
P2aProgram == <<78, 115>>
Program(version, bytes) == [version |-> version, program |-> bytes]
NewProgram(version, bytes) ==
  IF Len(bytes) < MinProgram \/ Len(bytes) > MaxProgram THEN Err("InvalidLength")
  ELSE IF version = 0 /\ Len(bytes) \notin {Hash20, HashSize} THEN Err("InvalidSegwitV0Length")
  ELSE Ok(Program(version, bytes), <<>>)
ProgramP2wpkh(p) == Program(0, Hash160(SerializePoint(p)))
ProgramP2wsh(script) == Program(0, HashOf(script))
ProgramP2tr(x, root) == {Program(1, <<o.output_key>>) : o \in TapTweakKey(x, root)}
ProgramP2trTweaked(x) == Program(1, <<x>>)
ProgramP2a == Program(1, P2aProgram)
ProgramIsP2wpkh(p) == p.version = 0 /\ Len(p.program) = Hash20
ProgramIsP2wsh(p) == p.version = 0 /\ Len(p.program) = HashSize
ProgramIsP2tr(p) == p.version = 1 /\ Len(p.program) = XSize
ProgramIsP2a(p) == p.version = 1 /\ p.program = P2aProgram
-----------------------------------------------------------------------------
\* The scripts themselves.
NewP2pk(pk) == BuildOpcode(BuildKey(NewBuilder, pk), OP_CHECKSIG).script
NewP2pkh(hash) ==
  ScriptPush(<<OP_DUP, OP_HASH160>>, hash) \o <<OP_EQUALVERIFY, OP_CHECKSIG>>
NewP2sh(hash) == Append(ScriptPush(<<OP_HASH160>>, hash), OP_EQUAL)
NewWitnessProgram(p) == ScriptPush(<<VersionToOpcode(p.version)>>, p.program)
NewP2wpkh(hash) == NewWitnessProgram(Program(0, hash))
NewP2wsh(hash) == NewWitnessProgram(Program(0, hash))
NewP2tr(x, root) == {NewWitnessProgram(p) : p \in ProgramP2tr(x, root)}
NewP2trTweaked(x) == NewWitnessProgram(ProgramP2trTweaked(x))
NewP2a == NewWitnessProgram(ProgramP2a)
P2wpkhScriptCode(hash) == NewP2pkh(hash)
NewOpReturn(data) == ScriptPush(<<OP_RETURN>>, data)

ToP2sh(script) == NewP2sh(Hash160(script))
ToP2wsh(script) == NewP2wsh(HashOf(script))
ToP2tr(script, x) == NewP2tr(x, {LeafHashOf(script, LeafTapscript)})
-----------------------------------------------------------------------------
\* What a script is recognised as.
WitnessVersion(s) ==
  IF Len(s) \notin MinProgram + 2..MaxProgram + 2 \/ s[2] \notin MinProgram..MaxProgram
     \/ Len(s) - 2 # s[2]
    THEN {} ELSE {r.val : r \in {x \in {VersionFromOpcode(s[1])} : x.ok}}

IsWitnessProgram(s) == WitnessVersion(s) # {}
IsP2wsh(s) == Len(s) = 2 + HashSize /\ WitnessVersion(s) = {0} /\ s[2] = HashSize
IsP2wpkh(s) == Len(s) = 2 + Hash20 /\ WitnessVersion(s) = {0} /\ s[2] = Hash20
IsP2tr(s) == Len(s) = 2 + XSize /\ WitnessVersion(s) = {1} /\ s[2] = XSize
IsP2sh(s) == Len(s) = 3 + Hash20 /\ s[1] = OP_HASH160 /\ s[2] = Hash20 /\ s[Len(s)] = OP_EQUAL
IsP2pkh(s) ==
  /\ Len(s) = 5 + Hash20
  /\ SubSeq(s, 1, 3) = <<OP_DUP, OP_HASH160, Hash20>>
  /\ SubSeq(s, Len(s) - 1, Len(s)) = <<OP_EQUALVERIFY, OP_CHECKSIG>>
P2pkPubkeyBytes(s) ==
  IF Len(s) \in {FullSize + 2, PointSize + 2} /\ s[1] = Len(s) - 2 /\ s[Len(s)] = OP_CHECKSIG
    THEN {SubSeq(s, 2, Len(s) - 1)} ELSE {}
IsP2pk(s) == P2pkPubkeyBytes(s) # {}
P2pkPublicKey(s) == {r.val : r \in {x \in {KeyFromSlice(b) : b \in P2pkPubkeyBytes(s)} : x.ok}}
IsOpReturn(s) == s # <<>> /\ s[1] = OP_RETURN
IsProvablyUnspendable(s) == s # <<>> /\ ClassifyLegacy(s[1]) \in {"ReturnOp", "IllegalOp"}
IsPushOnly(s) ==
  LET p == Instructions(s)
  IN  p.err = "" /\ \A i \in DOMAIN p.list : p.list[i].push \/ p.list[i].op <= OP_PUSHNUM_16

\* is_multisig: the count of keys is a u8; an opcode that is no number ends the
\* keys without a look at the count.
IsMultisig(s) ==
  LET p == Instructions(s)
      n == Len(p.list)
      end == CHOOSE k \in 2..n : ~p.list[k].push /\ \A j \in 2..k - 1 : p.list[j].push
      keys == (end - 2) % 256
  IN  /\ n >= 3 /\ p.err = "" /\ ~p.list[1].push /\ DecodePushnum(p.list[1].op) # {}
      /\ \E k \in 2..n : ~p.list[k].push
      /\ DecodePushnum(p.list[end].op) \subseteq {keys}
      /\ \A required \in DecodePushnum(p.list[1].op) : required <= keys
      /\ n = end + 1 /\ p.list[n] = Op(OP_CHECKMULTISIG)

RedeemScript(s) ==
  LET p == Instructions(s)
  IN  IF p.err # "" \/ p.list = <<>> \/ \E i \in DOMAIN p.list : ~p.list[i].push THEN {}
      ELSE {p.list[Len(p.list)].data}

P2wpkhCodeOf(s) == IF IsP2wpkh(s) THEN {P2wpkhScriptCode(Drop(s, 2))} ELSE {}
-----------------------------------------------------------------------------
\* count_sigops_internal: the number in front of a multisig is remembered across
\* signature checks.
NumberAfter(i, cache) == IF i.push THEN {} ELSE DecodePushnum(i.op)

CountSigops(s, accurate) ==
  LET list == Instructions(s).list
      at[k \in 0..Len(list)] ==
        IF k = 0 THEN [n |-> 0, cache |-> {}]
        ELSE LET p == at[k - 1]
                 i == list[k]
             IN  IF ~i.push /\ i.op \in {OP_CHECKSIG, OP_CHECKSIG + 1} THEN [p EXCEPT !.n = @ + 1]
                 ELSE IF ~i.push /\ i.op \in {OP_CHECKMULTISIG, OP_CHECKMULTISIG + 1}
                   THEN [p EXCEPT !.n = @ + (IF accurate /\ p.cache # {} THEN CHOOSE c \in p.cache : TRUE ELSE 20)]
                 ELSE [p EXCEPT !.cache = NumberAfter(i, p.cache)]
  IN  at[Len(list)].n

\* The dust limit in satoshis, for a relay fee in satoshis per 1000 bytes.
MinimalNonDust(s, dust_relay_fee) ==
  (dust_relay_fee *
     (IF IsOpReturn(s) THEN 0
      ELSE 32 + 4 + 1 + (IF IsWitnessProgram(s) THEN 107 \div 4 ELSE 107) + 4 + 8 + Len(EncodeBytes(s))))
  \div 1000
=============================================================================
