---------------------------- MODULE Mimblewimble ----------------------------
(***************************************************************************)
(* The wire format of MWEB transactions (blockdata/mimblewimble.rs).       *)
(*                                                                         *)
(* The fixed arrays (commitments, proofs, signatures, offsets) are one     *)
(* byte, and a public key is one byte that is 2 or 3 when it is a point.   *)
(* An Option is a set with at most one element.  An encoder that fails     *)
(* halfway has the mark Fail among its bytes.                              *)
(***************************************************************************)
EXTENDS Consensus

Fail == -1

HasBit(n, bit) == (n \div bit) % 2 = 1

FeeBit == 1
PeginBit == 2
PegoutBit == 4
HeightLockBit == 8
StealthExcessBit == 16
KernelExtraBit == 32

StandardFieldsBit == 1
MessageExtraBit == 2

MaxAmount == (256 ^ W64 \div 2) - 1

Get(opt) == CHOOSE x \in opt : TRUE
-----------------------------------------------------------------------------
\* The variable length amounts: seven bits a byte, the highest group first, one
\* less in every group but the last, so that no number has two forms.
Leading[n \in Nat] ==
  IF n <= 127 THEN <<n + 128>> ELSE Append(Leading[(n \div 128) - 1], (n % 128) + 128)

WriteAmount(n) == IF n <= 127 THEN <<n % 128>> ELSE Append(Leading[(n \div 128) - 1], n % 128)

Overflow == -1

ShiftIn(n, ch, max) ==
  LET more == n * 128 + (ch % 128) + (IF ch >= 128 THEN 1 ELSE 0)
  IN  IF n > max \div 128 \/ more > max THEN Overflow ELSE more

ReadGroups(max, b) ==
  LET ends == {i \in 1..Len(b) : b[i] < 128}
      stop == CHOOSE i \in ends : \A j \in ends : i <= j
      acc[i \in 0..Len(b)] ==
        IF i = 0 THEN 0
        ELSE LET n == acc[i - 1] IN IF n = Overflow THEN n ELSE ShiftIn(n, b[i], max)
  IN  IF ends = {} THEN Err(IF acc[Len(b)] = Overflow THEN "ParseFailed" ELSE "UnexpectedEof")
      ELSE IF acc[stop] = Overflow THEN Err("ParseFailed") ELSE Ok(acc[stop], Drop(b, stop))

ReadAmount(b) == ReadGroups(MaxAmount, b)

WriteCompactVarint(n) == WriteAmount(n)
ReadCompactVarint(b) == ReadGroups(MaxUint(W64), b)
-----------------------------------------------------------------------------
ReadKey(b) ==
  Then(ReadUint(1, b), LAMBDA k, r : IF k \in {2, 3} THEN Ok(k, r) ELSE Err("ParseFailed"))

ReadArray(b) == ReadUint(1, b)

\* A field that is there when its bit is set.
If(bit, D(_), b) == IF bit THEN Then(D(b), LAMBDA v, r : Ok({v}, r)) ELSE Ok({}, b)
IfBytes(bit, b) == IF bit THEN DecodeBytes(b) ELSE Ok(<<>>, b)

DecodePegOutCoin(b) ==
  Then(ReadAmount(b), LAMBDA amount, r :
    Then(DecodeBytes(r), LAMBDA script, rest :
      IF script = <<>> THEN Err("ParseFailed")
      ELSE Ok([amount |-> amount, script_pub_key |-> script], rest)))

EncodePegOutCoin(p) == WriteAmount(p.amount) \o EncodeBytes(p.script_pub_key)

ReadLockHeight(b) ==
  Then(ReadAmount(b), LAMBDA n, r : IF n > MaxUint(W32) THEN Err("ParseFailed") ELSE Ok(n, r))

DecodeKernel(b) ==
  Then(ReadUint(1, b), LAMBDA features, r0 :
  Then(If(HasBit(features, FeeBit), ReadAmount, r0), LAMBDA fee, r1 :
  Then(If(HasBit(features, PeginBit), ReadAmount, r1), LAMBDA pegin, r2 :
  Then(IF HasBit(features, PegoutBit) THEN DecodeVec(DecodePegOutCoin, r2) ELSE Ok(<<>>, r2),
       LAMBDA pegouts, r3 :
  Then(If(HasBit(features, HeightLockBit), ReadLockHeight, r3), LAMBDA lock_height, r4 :
  Then(If(HasBit(features, StealthExcessBit), ReadKey, r4), LAMBDA stealth_excess, r5 :
  Then(IfBytes(HasBit(features, KernelExtraBit), r5), LAMBDA extra_data, r6 :
  Then(ReadArray(r6), LAMBDA excess, r7 :
  Then(ReadArray(r7), LAMBDA signature, rest :
    Ok([features |-> features, fee |-> fee, pegin |-> pegin, pegouts |-> pegouts,
        lock_height |-> lock_height, stealth_excess |-> stealth_excess,
        extra_data |-> extra_data, excess |-> excess, signature |-> signature], rest))))))))))

\* A field whose bit is set must be there; one whose bit is not set is left out.
Field(bit, opt, E(_)) == IF ~bit THEN <<>> ELSE IF opt = {} THEN <<Fail>> ELSE E(Get(opt))

EncodeKernel(k) ==
  LET one(x) == <<x>>
  IN  <<k.features>>
      \o Field(HasBit(k.features, FeeBit), k.fee, WriteAmount)
      \o Field(HasBit(k.features, PeginBit), k.pegin, WriteAmount)
      \o (IF HasBit(k.features, PegoutBit) THEN EncodeVec(EncodePegOutCoin, k.pegouts) ELSE <<>>)
      \o Field(HasBit(k.features, HeightLockBit), k.lock_height, WriteAmount)
      \o Field(HasBit(k.features, StealthExcessBit), k.stealth_excess, one)
      \o (IF HasBit(k.features, KernelExtraBit) THEN EncodeBytes(k.extra_data) ELSE <<>>)
      \o <<k.excess, k.signature>>
-----------------------------------------------------------------------------
DecodeMwebInput(b) ==
  Then(ReadUint(1, b), LAMBDA features, r0 :
  Then(ReadArray(r0), LAMBDA output_id, r1 :
  Then(ReadArray(r1), LAMBDA commitment, r2 :
  Then(ReadKey(r2), LAMBDA output_public_key, r3 :
  Then(If(HasBit(features, 1), ReadKey, r3), LAMBDA input_public_key, r4 :
  Then(IfBytes(HasBit(features, 2), r4), LAMBDA extra_data, r5 :
  Then(ReadArray(r5), LAMBDA signature, rest :
    Ok([features |-> features, output_id |-> output_id, commitment |-> commitment,
        input_public_key |-> input_public_key, output_public_key |-> output_public_key,
        extra_data |-> extra_data, signature |-> signature], rest))))))))

EncodeMwebInput(i) ==
  LET one(x) == <<x>>
  IN  <<i.features, i.output_id, i.commitment, i.output_public_key>>
      \o Field(HasBit(i.features, 1), i.input_public_key, one)
      \o (IF HasBit(i.features, 2) THEN EncodeBytes(i.extra_data) ELSE <<>>)
      \o <<i.signature>>

ReadStandardFields(b) ==
  Then(ReadKey(b), LAMBDA key, r1 :
  Then(ReadUint(1, r1), LAMBDA tag, r2 :
  Then(ReadUint(W64, r2), LAMBDA value, r3 :
  Then(ReadArray(r3), LAMBDA nonce, rest :
    Ok([key_exchange_pubkey |-> key, view_tag |-> tag, masked_value |-> value,
        masked_nonce |-> nonce], rest)))))

DecodeOutputMessage(b) ==
  Then(ReadUint(1, b), LAMBDA features, r0 :
  Then(If(HasBit(features, StandardFieldsBit), ReadStandardFields, r0), LAMBDA fields, r1 :
  Then(IfBytes(HasBit(features, MessageExtraBit), r1), LAMBDA extra_data, rest :
    Ok([features |-> features, standard_fields |-> fields, extra_data |-> extra_data], rest))))

\* The standard fields are written whenever they are there, whatever the bit says.
EncodeOutputMessage(m) ==
  LET fields(f) == <<f.key_exchange_pubkey, f.view_tag>> \o EmitUint(f.masked_value, W64)
                   \o <<f.masked_nonce>>
  IN  <<m.features>>
      \o (IF m.standard_fields = {} THEN <<>> ELSE fields(Get(m.standard_fields)))
      \o (IF HasBit(m.features, MessageExtraBit) THEN EncodeBytes(m.extra_data) ELSE <<>>)

DecodeMwebOutput(b) ==
  Then(ReadArray(b), LAMBDA commitment, r1 :
  Then(ReadKey(r1), LAMBDA sender, r2 :
  Then(ReadKey(r2), LAMBDA receiver, r3 :
  Then(DecodeOutputMessage(r3), LAMBDA message, r4 :
  Then(ReadArray(r4), LAMBDA range_proof, r5 :
  Then(ReadArray(r5), LAMBDA signature, rest :
    Ok([commitment |-> commitment, sender_public_key |-> sender, receiver_public_key |-> receiver,
        message |-> message, range_proof |-> range_proof, signature |-> signature], rest)))))))

EncodeMwebOutput(o) ==
  <<o.commitment, o.sender_public_key, o.receiver_public_key>> \o EncodeOutputMessage(o.message)
  \o <<o.range_proof, o.signature>>
-----------------------------------------------------------------------------
DecodeTxBody(b) ==
  Then(DecodeVec(DecodeMwebInput, b), LAMBDA inputs, r1 :
  Then(DecodeVec(DecodeMwebOutput, r1), LAMBDA outputs, r2 :
  Then(DecodeVec(DecodeKernel, r2), LAMBDA kernels, rest :
    Ok([inputs |-> inputs, outputs |-> outputs, kernels |-> kernels], rest))))

EncodeTxBody(body) ==
  EncodeVec(EncodeMwebInput, body.inputs) \o EncodeVec(EncodeMwebOutput, body.outputs)
  \o EncodeVec(EncodeKernel, body.kernels)

DecodeMwebTx(b) ==
  Then(ReadArray(b), LAMBDA kernel_offset, r1 :
  Then(ReadArray(r1), LAMBDA stealth_offset, r2 :
  Then(DecodeTxBody(r2), LAMBDA body, rest :
    IF body.kernels = <<>> THEN Err("ParseFailed")
    ELSE Ok([kernel_offset |-> kernel_offset, stealth_offset |-> stealth_offset, body |-> body], rest))))

EncodeMwebTx(t) == <<t.kernel_offset, t.stealth_offset>> \o EncodeTxBody(t.body)
=============================================================================
