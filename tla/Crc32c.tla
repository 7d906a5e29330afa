------------------------------- MODULE Crc32c -------------------------------
(***************************************************************************)
(* CRC-32C, src/src/crc32c.c: the software path with its table, the x86    *)
(* and ARM paths with the words they read, the public functions.  A 32-bit *)
(* value is the set of its bits that are 1, a byte is a number.            *)
(***************************************************************************)
EXTENDS Integers, SequencesExt

Bit32 == 0 .. 31

BitsOf(n) == {i \in 0 .. 15 : (n \div 2^i) % 2 = 1}
High(bits) == {i + 16 : i \in bits}
Xor(a, b) == (a \ b) \cup (b \ a)
Right(a, n) == {i - n : i \in {j \in a : j >= n}}
Flip(a) == Bit32 \ a

\* (uint8_t)a
Low8(a) == SumSet({2^i : i \in a \cap 0 .. 7})

\* The table, as the halves of its entries.
Entries == <<
  <<\h0000,\h0000>>, <<\hF26B,\h8303>>, <<\hE13B,\h70F7>>, <<\h1350,\hF3F4>>, <<\hC79A,\h971F>>, <<\h35F1,\h141C>>, <<\h26A1,\hE7E8>>, <<\hD4CA,\h64EB>>,
  <<\h8AD9,\h58CF>>, <<\h78B2,\hDBCC>>, <<\h6BE2,\h2838>>, <<\h9989,\hAB3B>>, <<\h4D43,\hCFD0>>, <<\hBF28,\h4CD3>>, <<\hAC78,\hBF27>>, <<\h5E13,\h3C24>>,
  <<\h105E,\hC76F>>, <<\hE235,\h446C>>, <<\hF165,\hB798>>, <<\h030E,\h349B>>, <<\hD7C4,\h5070>>, <<\h25AF,\hD373>>, <<\h36FF,\h2087>>, <<\hC494,\hA384>>,
  <<\h9A87,\h9FA0>>, <<\h68EC,\h1CA3>>, <<\h7BBC,\hEF57>>, <<\h89D7,\h6C54>>, <<\h5D1D,\h08BF>>, <<\hAF76,\h8BBC>>, <<\hBC26,\h7848>>, <<\h4E4D,\hFB4B>>,
  <<\h20BD,\h8EDE>>, <<\hD2D6,\h0DDD>>, <<\hC186,\hFE29>>, <<\h33ED,\h7D2A>>, <<\hE727,\h19C1>>, <<\h154C,\h9AC2>>, <<\h061C,\h6936>>, <<\hF477,\hEA35>>,
  <<\hAA64,\hD611>>, <<\h580F,\h5512>>, <<\h4B5F,\hA6E6>>, <<\hB934,\h25E5>>, <<\h6DFE,\h410E>>, <<\h9F95,\hC20D>>, <<\h8CC5,\h31F9>>, <<\h7EAE,\hB2FA>>,
  <<\h30E3,\h49B1>>, <<\hC288,\hCAB2>>, <<\hD1D8,\h3946>>, <<\h23B3,\hBA45>>, <<\hF779,\hDEAE>>, <<\h0512,\h5DAD>>, <<\h1642,\hAE59>>, <<\hE429,\h2D5A>>,
  <<\hBA3A,\h117E>>, <<\h4851,\h927D>>, <<\h5B01,\h6189>>, <<\hA96A,\hE28A>>, <<\h7DA0,\h8661>>, <<\h8FCB,\h0562>>, <<\h9C9B,\hF696>>, <<\h6EF0,\h7595>>,
  <<\h417B,\h1DBC>>, <<\hB310,\h9EBF>>, <<\hA040,\h6D4B>>, <<\h522B,\hEE48>>, <<\h86E1,\h8AA3>>, <<\h748A,\h09A0>>, <<\h67DA,\hFA54>>, <<\h95B1,\h7957>>,
  <<\hCBA2,\h4573>>, <<\h39C9,\hC670>>, <<\h2A99,\h3584>>, <<\hD8F2,\hB687>>, <<\h0C38,\hD26C>>, <<\hFE53,\h516F>>, <<\hED03,\hA29B>>, <<\h1F68,\h2198>>,
  <<\h5125,\hDAD3>>, <<\hA34E,\h59D0>>, <<\hB01E,\hAA24>>, <<\h4275,\h2927>>, <<\h96BF,\h4DCC>>, <<\h64D4,\hCECF>>, <<\h7784,\h3D3B>>, <<\h85EF,\hBE38>>,
  <<\hDBFC,\h821C>>, <<\h2997,\h011F>>, <<\h3AC7,\hF2EB>>, <<\hC8AC,\h71E8>>, <<\h1C66,\h1503>>, <<\hEE0D,\h9600>>, <<\hFD5D,\h65F4>>, <<\h0F36,\hE6F7>>,
  <<\h61C6,\h9362>>, <<\h93AD,\h1061>>, <<\h80FD,\hE395>>, <<\h7296,\h6096>>, <<\hA65C,\h047D>>, <<\h5437,\h877E>>, <<\h4767,\h748A>>, <<\hB50C,\hF789>>,
  <<\hEB1F,\hCBAD>>, <<\h1974,\h48AE>>, <<\h0A24,\hBB5A>>, <<\hF84F,\h3859>>, <<\h2C85,\h5CB2>>, <<\hDEEE,\hDFB1>>, <<\hCDBE,\h2C45>>, <<\h3FD5,\hAF46>>,
  <<\h7198,\h540D>>, <<\h83F3,\hD70E>>, <<\h90A3,\h24FA>>, <<\h62C8,\hA7F9>>, <<\hB602,\hC312>>, <<\h4469,\h4011>>, <<\h5739,\hB3E5>>, <<\hA552,\h30E6>>,
  <<\hFB41,\h0CC2>>, <<\h092A,\h8FC1>>, <<\h1A7A,\h7C35>>, <<\hE811,\hFF36>>, <<\h3CDB,\h9BDD>>, <<\hCEB0,\h18DE>>, <<\hDDE0,\hEB2A>>, <<\h2F8B,\h6829>>,
  <<\h82F6,\h3B78>>, <<\h709D,\hB87B>>, <<\h63CD,\h4B8F>>, <<\h91A6,\hC88C>>, <<\h456C,\hAC67>>, <<\hB707,\h2F64>>, <<\hA457,\hDC90>>, <<\h563C,\h5F93>>,
  <<\h082F,\h63B7>>, <<\hFA44,\hE0B4>>, <<\hE914,\h1340>>, <<\h1B7F,\h9043>>, <<\hCFB5,\hF4A8>>, <<\h3DDE,\h77AB>>, <<\h2E8E,\h845F>>, <<\hDCE5,\h075C>>,
  <<\h92A8,\hFC17>>, <<\h60C3,\h7F14>>, <<\h7393,\h8CE0>>, <<\h81F8,\h0FE3>>, <<\h5532,\h6B08>>, <<\hA759,\hE80B>>, <<\hB409,\h1BFF>>, <<\h4662,\h98FC>>,
  <<\h1871,\hA4D8>>, <<\hEA1A,\h27DB>>, <<\hF94A,\hD42F>>, <<\h0B21,\h572C>>, <<\hDFEB,\h33C7>>, <<\h2D80,\hB0C4>>, <<\h3ED0,\h4330>>, <<\hCCBB,\hC033>>,
  <<\hA24B,\hB5A6>>, <<\h5020,\h36A5>>, <<\h4370,\hC551>>, <<\hB11B,\h4652>>, <<\h65D1,\h22B9>>, <<\h97BA,\hA1BA>>, <<\h84EA,\h524E>>, <<\h7681,\hD14D>>,
  <<\h2892,\hED69>>, <<\hDAF9,\h6E6A>>, <<\hC9A9,\h9D9E>>, <<\h3BC2,\h1E9D>>, <<\hEF08,\h7A76>>, <<\h1D63,\hF975>>, <<\h0E33,\h0A81>>, <<\hFC58,\h8982>>,
  <<\hB215,\h72C9>>, <<\h407E,\hF1CA>>, <<\h532E,\h023E>>, <<\hA145,\h813D>>, <<\h758F,\hE5D6>>, <<\h87E4,\h66D5>>, <<\h94B4,\h9521>>, <<\h66DF,\h1622>>,
  <<\h38CC,\h2A06>>, <<\hCAA7,\hA905>>, <<\hD9F7,\h5AF1>>, <<\h2B9C,\hD9F2>>, <<\hFF56,\hBD19>>, <<\h0D3D,\h3E1A>>, <<\h1E6D,\hCDEA>>, <<\hEC06,\h4EE9>>,
  <<\hC38D,\h26C4>>, <<\h31E6,\hA5C7>>, <<\h22B6,\h5633>>, <<\hD0DD,\hD530>>, <<\h0417,\hB1DB>>, <<\hF67C,\h32D8>>, <<\hE52C,\hC12C>>, <<\h1747,\h422F>>,
  <<\h4954,\h7E0B>>, <<\hBB3F,\hFD08>>, <<\hA86F,\h0EFC>>, <<\h5A04,\h8DFF>>, <<\h8ECE,\hE914>>, <<\h7CA5,\h6A17>>, <<\h6FF5,\h99E3>>, <<\h9D9E,\h1AE0>>,
  <<\hD3D3,\hE1AB>>, <<\h21B8,\h62A8>>, <<\h32E8,\h915C>>, <<\hC083,\h125F>>, <<\h1449,\h76B4>>, <<\hE622,\hF5B7>>, <<\hF572,\h0643>>, <<\h0719,\h8540>>,
  <<\h590A,\hB964>>, <<\hAB61,\h3A67>>, <<\hB831,\hC993>>, <<\h4A5A,\h4A90>>, <<\h9E90,\h2E7B>>, <<\h6CFB,\hAD78>>, <<\h7FAB,\h5E8C>>, <<\h8DC0,\hDD8F>>,
  <<\hE330,\hA81A>>, <<\h115B,\h2B19>>, <<\h020B,\hD8ED>>, <<\hF060,\h5BEE>>, <<\h24AA,\h3F05>>, <<\hD6C1,\hBC06>>, <<\hC591,\h4FF2>>, <<\h37FA,\hCCF1>>,
  <<\h69E9,\hF0D5>>, <<\h9B82,\h73D6>>, <<\h88D2,\h8022>>, <<\h7AB9,\h0321>>, <<\hAE73,\h67CA>>, <<\h5C18,\hE4C9>>, <<\h4F48,\h173D>>, <<\hBD23,\h943E>>,
  <<\hF36E,\h6F75>>, <<\h0105,\hEC76>>, <<\h1255,\h1F82>>, <<\hE03E,\h9C81>>, <<\h34F4,\hF86A>>, <<\hC69F,\h7B69>>, <<\hD5CF,\h889D>>, <<\h27A4,\h0B9E>>,
  <<\h79B7,\h37BA>>, <<\h8BDC,\hB4B9>>, <<\h988C,\h474D>>, <<\h6AE7,\hC44E>>, <<\hBE2D,\hA0A5>>, <<\h4C46,\h23A6>>, <<\h5F16,\hD052>>, <<\hAD7D,\h5351>> >>

crc32c_table[n \in 0 .. 255] ==
  BitsOf(Entries[n + 1][2]) \cup High(BitsOf(Entries[n + 1][1]))

sw_crc32c(crc, buf) ==
  FoldLeft(LAMBDA c, byte : Xor(crc32c_table[Low8(Xor(c, BitsOf(byte)))], Right(c, 8)),
           crc, buf)

-----------------------------------------------------------------------------
(* The processors' instructions: the division by the polynomial, bit by bit *)

Polynomial == BitsOf(\h3B78) \cup High(BitsOf(\h82F6))

Divide(crc) == IF 0 \in crc THEN Xor(Right(crc, 1), Polynomial) ELSE Right(crc, 1)
DivideByte(crc, byte) ==
  LET f[i \in 0 .. 8] == IF i = 0 THEN Xor(crc, BitsOf(byte)) ELSE Divide(f[i - 1])
  IN f[8]
Instruction(crc, word) == FoldLeft(DivideByte, crc, word)

\* The two functions have the same loops: words of 8 bytes, in 64-bit builds,
\* then of 4, then single bytes, each read in the order of a little-endian host.
ByWords[sizes \in SUBSET {1, 4, 8}, crc \in SUBSET Bit32, buf \in Seq(0 .. 255)] ==
  LET fit == {n \in sizes : n <= Len(buf)}
      n == Max(fit)
  IN IF fit = {} THEN crc
     ELSE ByWords[sizes, Instruction(crc, SubSeq(buf, 1, n)), SubSeq(buf, n + 1, Len(buf))]

Sizes(bits) == IF bits = 64 THEN {1, 4, 8} ELSE {1, 4}
hw_crc32c_x86(bits, crc, buf) == ByWords[Sizes(bits), crc, buf]
hw_crc32c_arm(bits, crc, buf) == ByWords[Sizes(bits), crc, buf]

-----------------------------------------------------------------------------
(* The public functions; path is the one the build selects *)

BuildPaths == {[cpu |-> "none", bits |-> 32]} \cup [cpu : {"x86", "arm"}, bits : {32, 64}]

Raw(path, crc, buf) ==
  CASE path.cpu = "x86" -> hw_crc32c_x86(path.bits, crc, buf)
    [] path.cpu = "arm" -> hw_crc32c_arm(path.bits, crc, buf)
    [] OTHER -> sw_crc32c(crc, buf)

\* What a running CRC is when the bytes are read; as it was given, as a slip.
EntryRaw(crc) == crc
Entry(crc) == Flip(crc)

kfl_crc32c(path, crc, buf) == Flip(Raw(path, Entry(crc), buf))

\* The last four bytes hold the CRC, low byte first, whatever the host's order.
Stored(bytes) == UNION {{i + 8 * (k - 1) : i \in BitsOf(bytes[k])} : k \in 1 .. 4}

kfl_crc32c_verify(path, buf) ==
  /\ Len(buf) >= 4
  /\ LET n == Len(buf) - 4
     IN kfl_crc32c(path, {}, SubSeq(buf, 1, n)) = Stored(SubSeq(buf, n + 1, n + 4))
=============================================================================
