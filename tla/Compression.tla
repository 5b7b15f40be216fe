---------------------------- MODULE Compression -----------------------------
(***************************************************************************)
(* Machine words of 32 and 64 bits as sequences of 16-bit limbs, the most  *)
(* significant first.  SubSeq turns a word that is defined place by place  *)
(* into its limbs.                                                         *)
(***************************************************************************)
EXTENDS Integers, Sequences

Limb == 65536

AndNibble == [x \in 0..15 |-> [y \in 0..15 |->
  LET both(b) == ((x \div b) % 2) * ((y \div b) % 2) * b IN both(1) + both(2) + both(4) + both(8)]]
AndByte == [x \in 0..255 |-> [y \in 0..255 |->
  (16 * AndNibble[x \div 16][y \div 16]) + AndNibble[x % 16][y % 16]]]
AndLimb(x, y) == (256 * AndByte[x \div 256][y \div 256]) + AndByte[x % 256][y % 256]

And(v, w) == SubSeq([i \in 1..Len(v) |-> AndLimb(v[i], w[i])], 1, Len(v))
Xor(v, w) == SubSeq([i \in 1..Len(v) |-> v[i] + w[i] - (2 * AndLimb(v[i], w[i]))], 1, Len(v))
Or(v, w) == SubSeq([i \in 1..Len(v) |-> v[i] + w[i] - AndLimb(v[i], w[i])], 1, Len(v))
Not(w) == SubSeq([i \in 1..Len(w) |-> Limb - 1 - w[i]], 1, Len(w))
Xor3(u, v, w) == Xor(Xor(u, v), w)

\* wrapping_add
Add(v, w) ==
  LET carry[i \in 0..Len(v)] == IF i = Len(v) THEN 0 ELSE (v[i + 1] + w[i + 1] + carry[i + 1]) \div Limb
  IN  SubSeq([i \in 1..Len(v) |-> (v[i] + w[i] + carry[i]) % Limb], 1, Len(v))
Sum3(u, v, w) == Add(Add(u, v), w)

\* rotate_left and >>
LimbAt(w, i) == w[((i - 1) % Len(w)) + 1]
Rotl(w, n) ==
  SubSeq([i \in 1..Len(w) |-> ((LimbAt(w, i + (n \div 16)) * 2 ^ (n % 16)) % Limb)
                              + (LimbAt(w, i + (n \div 16) + 1) \div 2 ^ (16 - (n % 16)))], 1, Len(w))
Shr(w, n) == SubSeq([i \in 1..Len(w) |-> (w[i] \div 2 ^ n) + IF i = 1 THEN 0 ELSE (w[i - 1] * 2 ^ (16 - n)) % Limb], 1, Len(w))

\* Words from and to bytes; a word of four bytes has two limbs.
FromBE(bytes) == SubSeq([i \in 1..Len(bytes) \div 2 |-> (256 * bytes[(2 * i) - 1]) + bytes[2 * i]], 1, Len(bytes) \div 2)
ToBE(w) == SubSeq([i \in 1..2 * Len(w) |-> IF i % 2 = 1 THEN w[(i + 1) \div 2] \div 256 ELSE w[i \div 2] % 256], 1, 2 * Len(w))
Backwards(s) == SubSeq([i \in 1..Len(s) |-> s[Len(s) + 1 - i]], 1, Len(s))
FromLE(bytes) == FromBE(Backwards(bytes))
ToLE(w) == Backwards(ToBE(w))
-----------------------------------------------------------------------------
(***************************************************************************)
(* The compression functions of SHA-256, three times over, and of SHA-512  *)
(* (hashes/src/sha256.rs, sha512.rs), four rounds at a time.  The working  *)
(* variables are kept in the order in which the next round names them.     *)
(***************************************************************************)

\* The constants of software_process_block, of const_hash, and of the intrinsics,
\* whose sixteen groups are written from the high lane to the low one.
SoftK == <<
  <<\h428a,\h2f98>>, <<\h7137,\h4491>>, <<\hb5c0,\hfbcf>>, <<\he9b5,\hdba5>>, <<\h3956,\hc25b>>, <<\h59f1,\h11f1>>,
  <<\h923f,\h82a4>>, <<\hab1c,\h5ed5>>, <<\hd807,\haa98>>, <<\h1283,\h5b01>>, <<\h2431,\h85be>>, <<\h550c,\h7dc3>>,
  <<\h72be,\h5d74>>, <<\h80de,\hb1fe>>, <<\h9bdc,\h06a7>>, <<\hc19b,\hf174>>, <<\he49b,\h69c1>>, <<\hefbe,\h4786>>,
  <<\h0fc1,\h9dc6>>, <<\h240c,\ha1cc>>, <<\h2de9,\h2c6f>>, <<\h4a74,\h84aa>>, <<\h5cb0,\ha9dc>>, <<\h76f9,\h88da>>,
  <<\h983e,\h5152>>, <<\ha831,\hc66d>>, <<\hb003,\h27c8>>, <<\hbf59,\h7fc7>>, <<\hc6e0,\h0bf3>>, <<\hd5a7,\h9147>>,
  <<\h06ca,\h6351>>, <<\h1429,\h2967>>, <<\h27b7,\h0a85>>, <<\h2e1b,\h2138>>, <<\h4d2c,\h6dfc>>, <<\h5338,\h0d13>>,
  <<\h650a,\h7354>>, <<\h766a,\h0abb>>, <<\h81c2,\hc92e>>, <<\h9272,\h2c85>>, <<\ha2bf,\he8a1>>, <<\ha81a,\h664b>>,
  <<\hc24b,\h8b70>>, <<\hc76c,\h51a3>>, <<\hd192,\he819>>, <<\hd699,\h0624>>, <<\hf40e,\h3585>>, <<\h106a,\ha070>>,
  <<\h19a4,\hc116>>, <<\h1e37,\h6c08>>, <<\h2748,\h774c>>, <<\h34b0,\hbcb5>>, <<\h391c,\h0cb3>>, <<\h4ed8,\haa4a>>,
  <<\h5b9c,\hca4f>>, <<\h682e,\h6ff3>>, <<\h748f,\h82ee>>, <<\h78a5,\h636f>>, <<\h84c8,\h7814>>, <<\h8cc7,\h0208>>,
  <<\h90be,\hfffa>>, <<\ha450,\h6ceb>>, <<\hbef9,\ha3f7>>, <<\hc671,\h78f2>>>>
\* const_hash
ConstK == <<
  <<\h428a,\h2f98>>, <<\h7137,\h4491>>, <<\hb5c0,\hfbcf>>, <<\he9b5,\hdba5>>, <<\h3956,\hc25b>>, <<\h59f1,\h11f1>>,
  <<\h923f,\h82a4>>, <<\hab1c,\h5ed5>>, <<\hd807,\haa98>>, <<\h1283,\h5b01>>, <<\h2431,\h85be>>, <<\h550c,\h7dc3>>,
  <<\h72be,\h5d74>>, <<\h80de,\hb1fe>>, <<\h9bdc,\h06a7>>, <<\hc19b,\hf174>>, <<\he49b,\h69c1>>, <<\hefbe,\h4786>>,
  <<\h0fc1,\h9dc6>>, <<\h240c,\ha1cc>>, <<\h2de9,\h2c6f>>, <<\h4a74,\h84aa>>, <<\h5cb0,\ha9dc>>, <<\h76f9,\h88da>>,
  <<\h983e,\h5152>>, <<\ha831,\hc66d>>, <<\hb003,\h27c8>>, <<\hbf59,\h7fc7>>, <<\hc6e0,\h0bf3>>, <<\hd5a7,\h9147>>,
  <<\h06ca,\h6351>>, <<\h1429,\h2967>>, <<\h27b7,\h0a85>>, <<\h2e1b,\h2138>>, <<\h4d2c,\h6dfc>>, <<\h5338,\h0d13>>,
  <<\h650a,\h7354>>, <<\h766a,\h0abb>>, <<\h81c2,\hc92e>>, <<\h9272,\h2c85>>, <<\ha2bf,\he8a1>>, <<\ha81a,\h664b>>,
  <<\hc24b,\h8b70>>, <<\hc76c,\h51a3>>, <<\hd192,\he819>>, <<\hd699,\h0624>>, <<\hf40e,\h3585>>, <<\h106a,\ha070>>,
  <<\h19a4,\hc116>>, <<\h1e37,\h6c08>>, <<\h2748,\h774c>>, <<\h34b0,\hbcb5>>, <<\h391c,\h0cb3>>, <<\h4ed8,\haa4a>>,
  <<\h5b9c,\hca4f>>, <<\h682e,\h6ff3>>, <<\h748f,\h82ee>>, <<\h78a5,\h636f>>, <<\h84c8,\h7814>>, <<\h8cc7,\h0208>>,
  <<\h90be,\hfffa>>, <<\ha450,\h6ceb>>, <<\hbef9,\ha3f7>>, <<\hc671,\h78f2>>>>
\* process_block_simd_x86_intrinsics
SimdK == <<
  <<<<\he9b5,\hdba5>>, <<\hb5c0,\hfbcf>>, <<\h7137,\h4491>>, <<\h428a,\h2f98>>>>,
  <<<<\hab1c,\h5ed5>>, <<\h923f,\h82a4>>, <<\h59f1,\h11f1>>, <<\h3956,\hc25b>>>>,
  <<<<\h550c,\h7dc3>>, <<\h2431,\h85be>>, <<\h1283,\h5b01>>, <<\hd807,\haa98>>>>,
  <<<<\hc19b,\hf174>>, <<\h9bdc,\h06a7>>, <<\h80de,\hb1fe>>, <<\h72be,\h5d74>>>>,
  <<<<\h240c,\ha1cc>>, <<\h0fc1,\h9dc6>>, <<\hefbe,\h4786>>, <<\he49b,\h69c1>>>>,
  <<<<\h76f9,\h88da>>, <<\h5cb0,\ha9dc>>, <<\h4a74,\h84aa>>, <<\h2de9,\h2c6f>>>>,
  <<<<\hbf59,\h7fc7>>, <<\hb003,\h27c8>>, <<\ha831,\hc66d>>, <<\h983e,\h5152>>>>,
  <<<<\h1429,\h2967>>, <<\h06ca,\h6351>>, <<\hd5a7,\h9147>>, <<\hc6e0,\h0bf3>>>>,
  <<<<\h5338,\h0d13>>, <<\h4d2c,\h6dfc>>, <<\h2e1b,\h2138>>, <<\h27b7,\h0a85>>>>,
  <<<<\h9272,\h2c85>>, <<\h81c2,\hc92e>>, <<\h766a,\h0abb>>, <<\h650a,\h7354>>>>,
  <<<<\hc76c,\h51a3>>, <<\hc24b,\h8b70>>, <<\ha81a,\h664b>>, <<\ha2bf,\he8a1>>>>,
  <<<<\h106a,\ha070>>, <<\hf40e,\h3585>>, <<\hd699,\h0624>>, <<\hd192,\he819>>>>,
  <<<<\h34b0,\hbcb5>>, <<\h2748,\h774c>>, <<\h1e37,\h6c08>>, <<\h19a4,\hc116>>>>,
  <<<<\h682e,\h6ff3>>, <<\h5b9c,\hca4f>>, <<\h4ed8,\haa4a>>, <<\h391c,\h0cb3>>>>,
  <<<<\h8cc7,\h0208>>, <<\h84c8,\h7814>>, <<\h78a5,\h636f>>, <<\h748f,\h82ee>>>>,
  <<<<\hc671,\h78f2>>, <<\hbef9,\ha3f7>>, <<\ha450,\h6ceb>>, <<\h90be,\hfffa>>>>>>
\* The first chaining values.
Init256 == <<
  <<\h6a09,\he667>>, <<\hbb67,\hae85>>, <<\h3c6e,\hf372>>, <<\ha54f,\hf53a>>,
  <<\h510e,\h527f>>, <<\h9b05,\h688c>>, <<\h1f83,\hd9ab>>, <<\h5be0,\hcd19>>>>
\* sha512
Init512 == <<
  <<\h6a09,\he667,\hf3bc,\hc908>>, <<\hbb67,\hae85,\h84ca,\ha73b>>,
  <<\h3c6e,\hf372,\hfe94,\hf82b>>, <<\ha54f,\hf53a,\h5f1d,\h36f1>>,
  <<\h510e,\h527f,\hade6,\h82d1>>, <<\h9b05,\h688c,\h2b3e,\h6c1f>>,
  <<\h1f83,\hd9ab,\hfb41,\hbd6b>>, <<\h5be0,\hcd19,\h137e,\h2179>>>>
\* sha384
Init384 == <<
  <<\hcbbb,\h9d5d,\hc105,\h9ed8>>, <<\h629a,\h292a,\h367c,\hd507>>,
  <<\h9159,\h015a,\h3070,\hdd17>>, <<\h152f,\hecd8,\hf70e,\h5939>>,
  <<\h6733,\h2667,\hffc0,\h0b31>>, <<\h8eb4,\h4a87,\h6858,\h1511>>,
  <<\hdb0c,\h2e0d,\h64f9,\h8fa7>>, <<\h47b5,\h481d,\hbefa,\h4fa4>>>>
\* sha512/256
Init512t256 == <<
  <<\h2231,\h2194,\hfc2b,\hf72c>>, <<\h9f55,\h5fa3,\hc84c,\h64c2>>,
  <<\h2393,\hb86b,\h6f53,\hb151>>, <<\h9638,\h7719,\h5940,\heabd>>,
  <<\h9628,\h3ee2,\ha88e,\hffe3>>, <<\hbe5e,\h1e25,\h5386,\h3992>>,
  <<\h2b01,\h99fc,\h2c85,\hb8aa>>, <<\h0eb7,\h2ddc,\h81c5,\h2ca2>>>>
\* sha512
K512 == <<
  <<\h428a,\h2f98,\hd728,\hae22>>, <<\h7137,\h4491,\h23ef,\h65cd>>, <<\hb5c0,\hfbcf,\hec4d,\h3b2f>>,
  <<\he9b5,\hdba5,\h8189,\hdbbc>>, <<\h3956,\hc25b,\hf348,\hb538>>, <<\h59f1,\h11f1,\hb605,\hd019>>,
  <<\h923f,\h82a4,\haf19,\h4f9b>>, <<\hab1c,\h5ed5,\hda6d,\h8118>>, <<\hd807,\haa98,\ha303,\h0242>>,
  <<\h1283,\h5b01,\h4570,\h6fbe>>, <<\h2431,\h85be,\h4ee4,\hb28c>>, <<\h550c,\h7dc3,\hd5ff,\hb4e2>>,
  <<\h72be,\h5d74,\hf27b,\h896f>>, <<\h80de,\hb1fe,\h3b16,\h96b1>>, <<\h9bdc,\h06a7,\h25c7,\h1235>>,
  <<\hc19b,\hf174,\hcf69,\h2694>>, <<\he49b,\h69c1,\h9ef1,\h4ad2>>, <<\hefbe,\h4786,\h384f,\h25e3>>,
  <<\h0fc1,\h9dc6,\h8b8c,\hd5b5>>, <<\h240c,\ha1cc,\h77ac,\h9c65>>, <<\h2de9,\h2c6f,\h592b,\h0275>>,
  <<\h4a74,\h84aa,\h6ea6,\he483>>, <<\h5cb0,\ha9dc,\hbd41,\hfbd4>>, <<\h76f9,\h88da,\h8311,\h53b5>>,
  <<\h983e,\h5152,\hee66,\hdfab>>, <<\ha831,\hc66d,\h2db4,\h3210>>, <<\hb003,\h27c8,\h98fb,\h213f>>,
  <<\hbf59,\h7fc7,\hbeef,\h0ee4>>, <<\hc6e0,\h0bf3,\h3da8,\h8fc2>>, <<\hd5a7,\h9147,\h930a,\ha725>>,
  <<\h06ca,\h6351,\he003,\h826f>>, <<\h1429,\h2967,\h0a0e,\h6e70>>, <<\h27b7,\h0a85,\h46d2,\h2ffc>>,
  <<\h2e1b,\h2138,\h5c26,\hc926>>, <<\h4d2c,\h6dfc,\h5ac4,\h2aed>>, <<\h5338,\h0d13,\h9d95,\hb3df>>,
  <<\h650a,\h7354,\h8baf,\h63de>>, <<\h766a,\h0abb,\h3c77,\hb2a8>>, <<\h81c2,\hc92e,\h47ed,\haee6>>,
  <<\h9272,\h2c85,\h1482,\h353b>>, <<\ha2bf,\he8a1,\h4cf1,\h0364>>, <<\ha81a,\h664b,\hbc42,\h3001>>,
  <<\hc24b,\h8b70,\hd0f8,\h9791>>, <<\hc76c,\h51a3,\h0654,\hbe30>>, <<\hd192,\he819,\hd6ef,\h5218>>,
  <<\hd699,\h0624,\h5565,\ha910>>, <<\hf40e,\h3585,\h5771,\h202a>>, <<\h106a,\ha070,\h32bb,\hd1b8>>,
  <<\h19a4,\hc116,\hb8d2,\hd0c8>>, <<\h1e37,\h6c08,\h5141,\hab53>>, <<\h2748,\h774c,\hdf8e,\heb99>>,
  <<\h34b0,\hbcb5,\he19b,\h48a8>>, <<\h391c,\h0cb3,\hc5c9,\h5a63>>, <<\h4ed8,\haa4a,\he341,\h8acb>>,
  <<\h5b9c,\hca4f,\h7763,\he373>>, <<\h682e,\h6ff3,\hd6b2,\hb8a3>>, <<\h748f,\h82ee,\h5def,\hb2fc>>,
  <<\h78a5,\h636f,\h4317,\h2f60>>, <<\h84c8,\h7814,\ha1f0,\hab72>>, <<\h8cc7,\h0208,\h1a64,\h39ec>>,
  <<\h90be,\hfffa,\h2363,\h1e28>>, <<\ha450,\h6ceb,\hde82,\hbde9>>, <<\hbef9,\ha3f7,\hb2c6,\h7915>>,
  <<\hc671,\h78f2,\he372,\h532b>>, <<\hca27,\h3ece,\hea26,\h619c>>, <<\hd186,\hb8c7,\h21c0,\hc207>>,
  <<\heada,\h7dd6,\hcde0,\heb1e>>, <<\hf57d,\h4f7f,\hee6e,\hd178>>, <<\h06f0,\h67aa,\h7217,\h6fba>>,
  <<\h0a63,\h7dc5,\ha2c8,\h98a6>>, <<\h113f,\h9804,\hbef9,\h0dae>>, <<\h1b71,\h0b35,\h131c,\h471b>>,
  <<\h28db,\h77f5,\h2304,\h7d84>>, <<\h32ca,\hab7b,\h40c7,\h2493>>, <<\h3c9e,\hbe0a,\h15c9,\hbebc>>,
  <<\h431d,\h67c4,\h9c10,\h0d4c>>, <<\h4cc5,\hd4be,\hcb3e,\h42b6>>, <<\h597f,\h299c,\hfc65,\h7e2a>>,
  <<\h5fcb,\h6fab,\h3ad6,\hfaec>>, <<\h6c44,\h198c,\h4a47,\h5817>>>>
-----------------------------------------------------------------------------
\* The rotations of Sigma0, Sigma1, sigma0 and sigma1; the last of the small ones
\* is a shift.
Rotations256 == [big0 |-> <<30, 19, 10>>, big1 |-> <<26, 21, 7>>, small0 |-> <<25, 14, 3>>, small1 |-> <<15, 13, 10>>]
Rotations512 == [big0 |-> <<36, 30, 25>>, big1 |-> <<50, 46, 23>>, small0 |-> <<63, 56, 7>>, small1 |-> <<45, 3, 6>>]

Ch(x, y, z) == Xor(z, And(x, Xor(y, z)))
Maj(x, y, z) == Or(And(x, y), And(z, Or(x, y)))
BigSigma(x, r) == Xor3(Rotl(x, r[1]), Rotl(x, r[2]), Rotl(x, r[3]))
SmallSigma(x, r) == Xor3(Rotl(x, r[1]), Rotl(x, r[2]), Shr(x, r[3]))

\* v is <<a, b, c, d, e, f, g, h>>; the next round calls h what this one calls g.
Shifted(v, t1, t2) == <<Add(t1, t2), v[1], v[2], v[3], Add(v[4], t1), v[5], v[6], v[7]>>
Round(p, v, k, w) ==
  Shifted(v, Add(Sum3(v[8], BigSigma(v[5], p.big1), Ch(v[5], v[6], v[7])), Add(k, w)),
          Add(BigSigma(v[1], p.big0), Maj(v[1], v[2], v[3])))

\* The word of round j + 16, which takes the place of the word of round j.
LaterWord(p, w, j) ==
  LET at(i) == w[((j + i) % 16) + 1]
  IN  Add(Sum3(at(0), SmallSigma(at(14), p.small1), at(9)), SmallSigma(at(1), p.small0))

\* A block in work: the variables v and the last sixteen words w of the schedule.
StartBlock(h, words) == [v |-> h, w |-> words]
RoundAt(p, ks, st, r) ==
  LET j == r % 16
      w == IF r < 16 THEN st.w ELSE [st.w EXCEPT ![j + 1] = LaterWord(p, st.w, j)]
  IN  [v |-> Round(p, st.v, ks[r + 1], w[j + 1]), w |-> w]
FourRounds(p, ks, st, g) ==
  RoundAt(p, ks, RoundAt(p, ks, RoundAt(p, ks, RoundAt(p, ks, st, 4 * g), (4 * g) + 1), (4 * g) + 2), (4 * g) + 3)
EndBlock(h, st) == SubSeq([i \in 1..Len(h) |-> Add(h[i], st.v[i])], 1, Len(h))

SoftGroup(st, g) == FourRounds(Rotations256, SoftK, st, g)
ConstGroup(st, g) == FourRounds(Rotations256, ConstK, st, g)
Group512(st, g) == FourRounds(Rotations512, K512, st, g)

Words256(block) == SubSeq([i \in 1..16 |-> FromBE(SubSeq(block, (4 * i) - 3, 4 * i))], 1, 16)
Words512(block) == SubSeq([i \in 1..16 |-> FromBE(SubSeq(block, (8 * i) - 7, 8 * i))], 1, 16)
-----------------------------------------------------------------------------
\* The intrinsics, on vectors of four lanes written from the high one to the low one.
AddEpi32(x, y) == <<Add(x[1], y[1]), Add(x[2], y[2]), Add(x[3], y[3]), Add(x[4], y[4])>>
Shuffle0E(x) == <<x[4], x[4], x[1], x[2]>>
ShuffleB1(x) == <<x[2], x[1], x[4], x[3]>>
Shuffle1B(x) == <<x[4], x[3], x[2], x[1]>>
Alignr4(x, y) == <<x[4], y[1], y[2], y[3]>>
Alignr8(x, y) == <<x[3], x[4], y[1], y[2]>>
BlendF0(x, y) == <<y[1], y[2], x[3], x[4]>>
Sha256Rnds2(cdgh, abef, wk) ==
  LET zero == <<0, 0>>
      v == <<abef[1], abef[2], cdgh[1], cdgh[2], abef[3], abef[4], cdgh[3], cdgh[4]>>
      u == Round(Rotations256, Round(Rotations256, v, wk[4], zero), wk[3], zero)
  IN  <<u[1], u[2], u[5], u[6]>>
Sha256Msg1(x, y) ==
  LET s0(z) == SmallSigma(z, Rotations256.small0)
  IN  <<Add(x[1], s0(y[4])), Add(x[2], s0(x[1])), Add(x[3], s0(x[2])), Add(x[4], s0(x[3]))>>
Sha256Msg2(x, y) ==
  LET s1(z) == SmallSigma(z, Rotations256.small1)
      w16 == Add(x[4], s1(y[2]))
      w17 == Add(x[3], s1(y[1]))
  IN  <<Add(x[1], s1(w17)), Add(x[2], s1(w16)), w17, w16>>

\* The registers: state0 holds ABEF and state1 CDGH; msg is msg0 to msg3.
SimdStart(h, words) ==
  LET tmp == ShuffleB1(<<h[4], h[3], h[2], h[1]>>)
      efgh == Shuffle1B(<<h[8], h[7], h[6], h[5]>>)
      load(i) == <<words[(4 * i) + 4], words[(4 * i) + 3], words[(4 * i) + 2], words[(4 * i) + 1]>>
  IN  [state0 |-> Alignr8(tmp, efgh), state1 |-> BlendF0(efgh, tmp), msg |-> <<load(0), load(1), load(2), load(3)>>]

\* Mutant: the message words of two groups are joined in the wrong order.
SimdScheduleSwapped(msg, g) ==
  LET cur == msg[(g % 4) + 1]
      next == ((g + 1) % 4) + 1
      prev == ((g + 3) % 4) + 1
      mid == IF g \in 3..14 THEN [msg EXCEPT ![next] = Sha256Msg2(AddEpi32(msg[next], Alignr4(msg[prev], cur)), cur)] ELSE msg
  IN  IF g \in 1..12 THEN [mid EXCEPT ![prev] = Sha256Msg1(mid[prev], cur)] ELSE mid
\* What a group does for the words of later groups.
SimdSchedule(msg, g) ==
  LET cur == msg[(g % 4) + 1]
      next == ((g + 1) % 4) + 1
      prev == ((g + 3) % 4) + 1
      mid == IF g \in 3..14 THEN [msg EXCEPT ![next] = Sha256Msg2(AddEpi32(msg[next], Alignr4(cur, msg[prev])), cur)] ELSE msg
  IN  IF g \in 1..12 THEN [mid EXCEPT ![prev] = Sha256Msg1(mid[prev], cur)] ELSE mid

\* The rounds 4 * g to 4 * g + 3.
SimdGroup(st, g) ==
  LET wk == AddEpi32(st.msg[(g % 4) + 1], SimdK[g + 1])
      state1 == Sha256Rnds2(st.state1, st.state0, wk)
      state0 == Sha256Rnds2(st.state0, state1, Shuffle0E(wk))
  IN  [state0 |-> state0, state1 |-> state1, msg |-> SimdSchedule(st.msg, g)]

SimdEnd(st, start) ==
  LET tmp == Shuffle1B(AddEpi32(st.state0, start.state0))
      dchg == ShuffleB1(AddEpi32(st.state1, start.state1))
      low == BlendF0(tmp, dchg)
      high == Alignr8(dchg, tmp)
  IN  <<low[4], low[3], low[2], low[1], high[4], high[3], high[2], high[1]>>
-----------------------------------------------------------------------------
(***************************************************************************)
(* The compression functions of RIPEMD-160 and SHA-1                       *)
(* (hashes/src/ripemd160.rs, sha1.rs), four rounds at a time, and          *)
(* SipHash-2-4 with its own buffering (hashes/src/siphash24.rs).           *)
(***************************************************************************)

\* The first chaining value of both.
Init160 == <<
  <<\h6745,\h2301>>, <<\hefcd,\hab89>>, <<\h98ba,\hdcfe>>, <<\h1032,\h5476>>, <<\hc3d2,\he1f0>>>>
\* The word and the rotation of each round of the two lines.
LeftWord == <<
  0, 1, 2, 3, 4, 5, 6, 7, 8, 9, 10, 11, 12, 13, 14, 15,
  7, 4, 13, 1, 10, 6, 15, 3, 12, 0, 9, 5, 2, 14, 11, 8,
  3, 10, 14, 4, 9, 15, 8, 1, 2, 7, 0, 6, 13, 11, 5, 12,
  1, 9, 11, 10, 0, 8, 12, 4, 13, 3, 7, 15, 14, 5, 6, 2,
  4, 0, 5, 9, 7, 12, 2, 10, 14, 1, 3, 8, 11, 6, 15, 13>>
\* left line
LeftShift == <<
  11, 14, 15, 12, 5, 8, 7, 9, 11, 13, 14, 15, 6, 7, 9, 8,
  7, 6, 8, 13, 11, 9, 7, 15, 7, 12, 15, 9, 11, 7, 13, 12,
  11, 13, 6, 7, 14, 9, 13, 15, 14, 8, 13, 6, 5, 12, 7, 5,
  11, 12, 14, 15, 14, 15, 9, 8, 9, 14, 5, 6, 8, 6, 5, 12,
  9, 15, 5, 11, 6, 8, 13, 12, 5, 12, 13, 14, 11, 8, 5, 6>>
\* right line
RightWord == <<
  5, 14, 7, 0, 9, 2, 11, 4, 13, 6, 15, 8, 1, 10, 3, 12,
  6, 11, 3, 7, 0, 13, 5, 10, 14, 15, 8, 12, 4, 9, 1, 2,
  15, 5, 1, 3, 7, 14, 6, 9, 11, 8, 12, 2, 10, 0, 4, 13,
  8, 6, 4, 1, 3, 11, 15, 0, 5, 12, 2, 13, 9, 7, 10, 14,
  12, 15, 10, 4, 1, 5, 8, 7, 6, 2, 13, 14, 0, 3, 9, 11>>
\* right line
RightShift == <<
  8, 9, 9, 11, 13, 15, 15, 5, 7, 7, 8, 11, 14, 14, 12, 6,
  9, 13, 15, 7, 12, 8, 9, 11, 7, 7, 12, 7, 6, 15, 13, 11,
  9, 7, 15, 11, 8, 6, 6, 14, 12, 13, 5, 14, 13, 13, 7, 5,
  15, 5, 8, 11, 14, 14, 6, 14, 6, 9, 12, 9, 12, 5, 15, 8,
  8, 5, 12, 9, 12, 5, 14, 6, 8, 13, 6, 5, 15, 13, 11, 11>>
-----------------------------------------------------------------------------
\* The functions and constants of the five stages of the left line; the right line
\* takes the functions in the opposite order.
Mix(n, x, y, z) ==
  CASE n = 1 -> Xor3(x, y, z)
    [] n = 2 -> Or(And(x, y), And(Not(x), z))
    [] n = 3 -> Xor(Or(x, Not(y)), z)
    [] n = 4 -> Or(And(x, z), And(y, Not(z)))
    [] n = 5 -> Xor(x, Or(y, Not(z)))
LeftAdd == <<<<0, 0>>, <<\h5a82,\h7999>>, <<\h6ed9,\heba1>>, <<\h8f1b,\hbcdc>>, <<\ha953,\hfd4e>>>>
RightAdd == <<<<\h50a2,\h8be6>>, <<\h5c4d,\hd124>>, <<\h6d70,\h3ef3>>, <<\h7a6d,\h76e9>>, <<0, 0>>>>

\* v is <<a, b, c, d, e>>, in the order in which the next round names them.
RipemdRound(v, x, bits, add, f) ==
  <<v[5], Add(Rotl(Add(Sum3(v[1], f, x), add), bits), v[5]), v[2], Rotl(v[3], 10), v[4]>>

\* Both lines in round r, counted from 0.
RipemdAt(st, words, r) ==
  LET n == (r \div 16) + 1
      bb == st.left
      bbb == st.right
  IN  [left |-> RipemdRound(bb, words[LeftWord[r + 1] + 1], LeftShift[r + 1], LeftAdd[n], Mix(n, bb[2], bb[3], bb[4])),
       right |-> RipemdRound(bbb, words[RightWord[r + 1] + 1], RightShift[r + 1], RightAdd[n], Mix(6 - n, bbb[2], bbb[3], bbb[4]))]
RipemdStart(h) == [left |-> h, right |-> h]
RipemdGroup(st, words, g) ==
  RipemdAt(RipemdAt(RipemdAt(RipemdAt(st, words, 4 * g), words, (4 * g) + 1), words, (4 * g) + 2), words, (4 * g) + 3)
RipemdEnd(h, st) ==
  LET b == st.left
      c == st.right
  IN  <<Sum3(c[4], h[2], b[3]), Sum3(h[3], b[4], c[5]), Sum3(h[4], b[5], c[1]), Sum3(h[5], b[1], c[2]), Sum3(h[1], b[2], c[3])>>
-----------------------------------------------------------------------------
\* The schedule w of a block grows with the rounds.
Sha1Word(w, r) ==
  IF r < 16 THEN w ELSE Append(w, Rotl(Xor(Xor(w[r - 2], w[r - 7]), Xor(w[r - 13], w[r - 15])), 1))
Sha1Mix(r, b, c, d) ==
  CASE r \in 0..19 -> [f |-> Or(And(b, c), And(Not(b), d)), k |-> <<\h5a82,\h7999>>]
    [] r \in 20..39 -> [f |-> Xor3(b, c, d), k |-> <<\h6ed9,\heba1>>]
    [] r \in 40..59 -> [f |-> Or(Or(And(b, c), And(b, d)), And(c, d)), k |-> <<\h8f1b,\hbcdc>>]
    [] r \in 60..79 -> [f |-> Xor3(b, c, d), k |-> <<\hca62,\hc1d6>>]
Sha1At(st, r) ==
  LET w == Sha1Word(st.w, r)
      v == st.v
      m == Sha1Mix(r, v[2], v[3], v[4])
      new_a == Add(Sum3(Rotl(v[1], 5), m.f, v[5]), Add(m.k, w[r + 1]))
  IN  [v |-> <<new_a, v[1], Rotl(v[2], 30), v[3], v[4]>>, w |-> w]
Sha1Start(h, words) == [v |-> h, w |-> words]
Sha1Group(st, g) == Sha1At(Sha1At(Sha1At(Sha1At(st, 4 * g), (4 * g) + 1), (4 * g) + 2), (4 * g) + 3)
Sha1End(h, st) == SubSeq([i \in 1..5 |-> Add(h[i], st.v[i])], 1, 5)
-----------------------------------------------------------------------------
\* siphash24: a state is <<v0, v1, v2, v3>>.
SipKey(k0, k1) ==
  <<Xor(k0, <<\h736f,\h6d65,\h7073,\h6575>>), Xor(k1, <<\h646f,\h7261,\h6e64,\h6f6d>>),
    Xor(k0, <<\h6c79,\h6765,\h6e65,\h7261>>), Xor(k1, <<\h7465,\h6462,\h7974,\h6573>>)>>
Zero64 == <<0, 0, 0, 0>>

\* Half of a round of compress!: the two sums are mixed into what was added, and one
\* of them is turned and changes places with the other.
SipMixed(s0, v1, s2, v3, b1, b3) == <<s2, Xor(Rotl(v1, b1), s0), Rotl(s0, 32), Xor(Rotl(v3, b3), s2)>>
HalfRound(v, b1, b3) == SipMixed(Add(v[1], v[2]), v[2], Add(v[3], v[4]), v[4], b1, b3)
Compress(v) == HalfRound(HalfRound(v, 13, 16), 17, 21)
CRounds(v) == Compress(Compress(v))
DRounds(v) == CRounds(CRounds(v))

SipNew(k0, k1) == [length |-> 0, state |-> SipKey(k0, k1), tail |-> Zero64, ntail |-> 0]
Xor1(v, m) == [v EXCEPT ![1] = Xor(@, m)]
SipWord(state, m) == Xor1(CRounds([state EXCEPT ![4] = Xor(@, m)]), m)

\* The len bytes of msg after start, moved up by n bytes in a word.
U8To64LE(msg, start, len, n) ==
  FromLE(SubSeq([i \in 1..8 |-> IF i \in n + 1..n + len THEN msg[start + i - n] ELSE 0], 1, 8))

\* The loop over whole words runs from needed in steps of 8 while it is below len - left.
SipTurns(needed, len, left) == IF needed < len - left THEN (len - left - needed + 7) \div 8 ELSE 0
\* The words of msg between the bytes that were needed and those that are left.
SipWords(state, msg, needed, turns, left, length) ==
  LET at[k \in 0..turns] == IF k = 0 THEN state ELSE SipWord(at[k - 1], FromLE(SubSeq(msg, needed + (8 * k) - 7, needed + (8 * k))))
  IN  [length |-> length, state |-> at[turns], tail |-> U8To64LE(msg, needed + (8 * turns), left, 0), ntail |-> left]
SipFilled(e, msg, needed, tail) ==
  IF e.ntail # 0 /\ Len(msg) < needed
    THEN [length |-> e.length + Len(msg), state |-> e.state, tail |-> tail, ntail |-> e.ntail + Len(msg)]
  ELSE SipWords(IF e.ntail = 0 THEN e.state ELSE SipWord(e.state, tail), msg, needed,
                SipTurns(needed, Len(msg) - needed, (Len(msg) - needed) % 8), (Len(msg) - needed) % 8, e.length + Len(msg))
SipNeeding(e, msg, needed) ==
  SipFilled(e, msg, needed, Or(e.tail, U8To64LE(msg, 0, IF Len(msg) < needed THEN Len(msg) ELSE needed, e.ntail)))
SipInput(e, msg) == SipNeeding(e, msg, IF e.ntail = 0 THEN 0 ELSE 8 - e.ntail)

SipFold(d) == Xor(Xor(d[1], d[2]), Xor(d[3], d[4]))
SipToU64(e) ==
  SipFold(DRounds([SipWord(e.state, Or(<<(e.length % 256) * 256, 0, 0, 0>>, e.tail)) EXCEPT ![3] = Xor(@, <<0, 0, 0, 255>>)]))
SipHash(k0, k1, data) == ToLE(SipToU64(SipInput(SipNew(k0, k1), data)))
-----------------------------------------------------------------------------
(***************************************************************************)
(* A hash function at work on the blocks of a message: process_block of    *)
(* every engine, a group of four rounds at a time.  SHA-256 runs three     *)
(* ways at once: in software, on the intrinsics of x86 and in const_hash.  *)
(***************************************************************************)

VARIABLE blk

\* The midstate of an engine as bytes, cut to the length of the hash.
Engines ==
  [sha256     |-> [init |-> Init256, groups |-> 16, size |-> 64, len |-> 32],
   sha512     |-> [init |-> Init512, groups |-> 20, size |-> 128, len |-> 64],
   sha384     |-> [init |-> Init384, groups |-> 20, size |-> 128, len |-> 48],
   sha512_256 |-> [init |-> Init512t256, groups |-> 20, size |-> 128, len |-> 32],
   sha1       |-> [init |-> Init160, groups |-> 20, size |-> 64, len |-> 20],
   ripemd160  |-> [init |-> Init160, groups |-> 20, size |-> 64, len |-> 20]]
Big512 == {"sha512", "sha384", "sha512_256"}
Flatten(ss) == LET f[i \in 0..Len(ss)] == IF i = 0 THEN <<>> ELSE f[i - 1] \o ss[i] IN f[Len(ss)]
BytesBE(h) == Flatten(SubSeq([i \in 1..Len(h) |-> ToBE(h[i])], 1, Len(h)))
BytesLE(h) == Flatten(SubSeq([i \in 1..Len(h) |-> ToLE(h[i])], 1, Len(h)))
AsBytes(alg, h) == SubSeq(IF alg = "ripemd160" THEN BytesLE(h) ELSE BytesBE(h), 1, Engines[alg].len)
WordsLE(block) == SubSeq([i \in 1..16 |-> FromLE(SubSeq(block, (4 * i) - 3, 4 * i))], 1, 16)
BlockWords(alg, block) ==
  IF alg \in Big512 THEN Words512(block)
  ELSE IF alg = "ripemd160" THEN WordsLE(block)
  ELSE Words256(block)

\* A message with the end that from_engine gives it: a marker, zeroes, the length in bits.
Ended(m, size, len, little) ==
  LET zeroes == (size - ((Len(m) + 1 + len) % size)) % size
      bits == 8 * Len(m)
      big == [i \in 1..len |-> IF len - i > 1 THEN 0 ELSE (bits \div 256 ^ (len - i)) % 256]
  IN  m \o <<128>> \o SubSeq([i \in 1..zeroes |-> 0], 1, zeroes) \o IF little THEN Backwards(big) ELSE SubSeq(big, 1, len)

\* A message in whole blocks; h is the chaining value and work the block in hand.
Hashing(alg, data, answer) ==
  [alg |-> alg, data |-> data, answer |-> answer, h |-> Engines[alg].init, at |-> 0, group |-> 0, work |-> {}]

Begin(alg, h, words) ==
  CASE alg = "sha256" -> [soft |-> StartBlock(h, words), const |-> StartBlock(h, words), simd |-> SimdStart(h, words), start |-> SimdStart(h, words)]
    [] alg \in Big512 -> StartBlock(h, words)
    [] alg = "sha1" -> Sha1Start(h, words)
    [] alg = "ripemd160" -> [words |-> words, lines |-> RipemdStart(h)]
Turn(alg, w, g) ==
  CASE alg = "sha256" -> [soft |-> SoftGroup(w.soft, g), const |-> ConstGroup(w.const, g), simd |-> SimdGroup(w.simd, g), start |-> w.start]
    [] alg \in Big512 -> Group512(w, g)
    [] alg = "sha1" -> Sha1Group(w, g)
    [] alg = "ripemd160" -> [words |-> w.words, lines |-> RipemdGroup(w.lines, w.words, g)]
End(alg, h, w) ==
  CASE alg = "sha256" -> EndBlock(h, w.soft)
    [] alg \in Big512 -> EndBlock(h, w)
    [] alg = "sha1" -> Sha1End(h, w)
    [] alg = "ripemd160" -> RipemdEnd(h, w.lines)

TakeBlock ==
  /\ blk.work = {} /\ blk.at < Len(blk.data)
  /\ LET size == Engines[blk.alg].size
     IN  blk' = [blk EXCEPT !.at = @ + size, !.group = 0,
                            !.work = {Begin(blk.alg, blk.h, BlockWords(blk.alg, SubSeq(blk.data, blk.at + 1, blk.at + size)))}]
Rounds ==
  /\ blk.group < Engines[blk.alg].groups
  /\ \E w \in blk.work : blk' = [blk EXCEPT !.group = @ + 1, !.work = {Turn(blk.alg, w, blk.group)}]
Chain ==
  /\ blk.group = Engines[blk.alg].groups
  /\ \E w \in blk.work : blk' = [blk EXCEPT !.h = End(blk.alg, blk.h, w), !.work = {}]

BlkNext == TakeBlock \/ Rounds \/ Chain
=============================================================================
