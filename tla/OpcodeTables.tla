--------------------------- MODULE OpcodeTables ---------------------------
(***************************************************************************)
(* The tables of udis86/itab.c: the lookup tables that lead from opcode    *)
(* bytes and extensions to an instruction, and the rows that describe its  *)
(* operands.  The generated tables have 447 lookup tables and 1760 rows;   *)
(* here are at least one table of every kind and the rows of the           *)
(* instruction families in InstructionSet, under the numbers they have in  *)
(* the source.  A table whose other entries no family uses is given by the *)
(* entries that are.                                                       *)
(***************************************************************************)
EXTENDS Integers, Sequences, TLC

(* Pointers into the tables: bit 15 tells a group from an instruction. *)
INVALID == 0
GROUP(n) == 32768 + n

(* Operand sizes (decode.h): the small numbers are symbolic, the others are *)
(* widths in bits, and the MR/MU pairs hold a memory and a register size.  *)
SZ_NA == 0
SZ_Z == 1
SZ_V == 2
SZ_Y == 3
SZ_X == 4
SZ_RDQ == 7
SZ_O == 12
SZ_DQ == 128
SZ_QQ == 256
SZ_Pair(mem, reg) == mem * 256 + reg

(* Prefix bits of a row (P_rexw, P_def64, ...), as a set. *)
P_none == {}
P_rxb == {"rexr", "rexx", "rexb"}
P_wrxb == P_rxb \union {"rexw"}

READ == 1
WRITE == 2
READ_WRITE == 3

(* A row of ud_itab: a mnemonic, up to four operands, how the first two are *)
(* accessed, and the prefixes that apply.                                   *)
Row(mnemonic, operands, access, prefix) ==
  [mnemonic |-> mnemonic, operands |-> operands, access |-> access, prefix |-> prefix]

O(type, size) == <<type, size>>
O_Ev == O("E", SZ_V)
O_Gv == O("G", SZ_V)
O_V == O("V", SZ_DQ)
O_W == O("W", SZ_DQ)
O_Vx == O("V", SZ_X)
O_Hx == O("H", SZ_X)
O_Wx == O("W", SZ_X)
O_Ib == O("I", 8)
O_M == O("M", SZ_NA)

ud_itab_general ==
     0 :> Row("invalid", <<>>, <<READ, READ>>, P_none)
  @@ 16 :> Row("add", <<O_Ev, O_Gv>>, <<READ_WRITE, READ>>, P_wrxb)
  @@ 70 :> Row("call", <<O("E", 64)>>, <<READ, READ>>, P_wrxb \union {"def64"})
  @@ 71 :> Row("call", <<O("F", SZ_V)>>, <<READ, READ>>, P_wrxb)
  @@ 72 :> Row("call", <<O("J", SZ_Z)>>, <<READ, READ>>, {"def64"})
  @@ 200 :> Row("enter", <<O("I", 16), O_Ib>>, <<READ, READ>>, {"def64"})
  @@ 697 :> Row("imul", <<O_Gv, O_Ev, O("I", SZ_Z)>>, <<READ_WRITE, READ>>, P_wrxb)
  @@ 759 :> Row("jecxz", <<O("J", 8)>>, <<READ, READ>>, P_none)
  @@ 760 :> Row("jrcxz", <<O("J", 8)>>, <<READ, READ>>, P_none)
  @@ 764 :> Row("jmp", <<O("A", SZ_V)>>, <<READ, READ>>, P_none)
  @@ 770 :> Row("lea", <<O_Gv, O_M>>, <<WRITE, READ>>, P_wrxb)
  @@ 1240 :> Row("push", <<O("ES", SZ_NA)>>, <<READ, READ>>, {"inv64"})
  @@ 1255 :> Row("push", <<O_Ev>>, <<READ, READ>>, P_wrxb \union {"def64"})
  @@ 1298 :> Row("rdtscp", <<>>, <<READ, READ>>, P_none)
  @@ 1302 :> Row("ret", <<>>, <<READ, READ>>, P_none)
  @@ 1477 :> Row("xchg", <<O("R0", SZ_V), O("rAX", SZ_V)>>, <<READ_WRITE, READ_WRITE>>, {"rexw", "rexb"})

ud_itab_mov ==
     827 :> Row("mov", <<O_Ev, O("sI", SZ_Z)>>, <<WRITE, READ>>, P_wrxb)
  @@ 828 :> Row("mov", <<O("E", 8), O("G", 8)>>, <<WRITE, READ>>, P_rxb)
  @@ 829 :> Row("mov", <<O_Ev, O_Gv>>, <<WRITE, READ>>, P_wrxb)
  @@ 831 :> Row("mov", <<O_Gv, O_Ev>>, <<WRITE, READ>>, P_wrxb)
  @@ 833 :> Row("mov", <<O("S", 16), O("MR", SZ_Pair(16, SZ_V))>>, <<WRITE, READ>>, P_wrxb)
  @@ 834 :> Row("mov", <<O("AL", 8), O("O", 8)>>, <<WRITE, READ>>, P_none)
  @@ 846 :> Row("mov", <<O("R0", SZ_V), O("I", SZ_V)>>, <<WRITE, READ>>, {"rexw", "rexb"})
  @@ 922 :> Row("movsb", <<>>, <<WRITE, READ>>, {"str", "seg"})
  @@ 924 :> Row("movsd", <<>>, <<WRITE, READ>>, {"str", "seg", "rexw"})
  @@ 927 :> Row("movsq", <<>>, <<WRITE, READ>>, {"str", "seg", "rexw"})

ud_itab_simd ==
     476 :> Row("fld", <<O("M", 32)>>, <<READ, READ>>, P_rxb)
  @@ 27 :> Row("addps", <<O_V, O_W>>, <<READ_WRITE, READ>>, P_rxb)
  @@ 31 :> Row("addss", <<O_V, O_W>>, <<READ_WRITE, READ>>, P_rxb)
  @@ 141 :> Row("cvtpi2ps", <<O_V, O("Q", 64)>>, <<WRITE, READ>>, P_rxb)
  @@ 154 :> Row("cvtsi2ss", <<O_V, O("E", SZ_Y)>>, <<WRITE, READ>>, P_wrxb)
  @@ 477 :> Row("fld", <<O("ST0", SZ_NA)>>, <<READ, READ>>, P_none)
  @@ 683 :> Row("fxsave", <<O_M>>, <<READ, READ>>, P_wrxb)
  @@ 777 :> Row("lfence", <<>>, <<READ, READ>>, P_none)
  @@ 909 :> Row("movntq", <<O_M, O("P", 64)>>, <<WRITE, READ>>, P_rxb)
  @@ 920 :> Row("movq", <<O("P", 64), O("Q", 64)>>, <<WRITE, READ>>, P_wrxb)
  @@ 928 :> Row("movss", <<O_V, O("MU", SZ_Pair(32, SZ_O))>>, <<WRITE, READ>>, P_rxb)
  @@ 929 :> Row("movss", <<O_W, O_V>>, <<WRITE, READ>>, P_rxb)
  @@ 936 :> Row("movups", <<O_V, O_W>>, <<WRITE, READ>>, P_rxb)
  @@ 938 :> Row("movups", <<O_W, O_V>>, <<WRITE, READ>>, P_rxb)
  @@ 961 :> Row("nop", <<O_M>>, <<READ, READ>>, P_rxb)
  @@ 1059 :> Row("pinsrw", <<O("P", 64), O("MR", SZ_Pair(16, SZ_Y)), O_Ib>>, <<WRITE, READ>>, P_wrxb \union {"def64"})
  @@ 1128 :> Row("prefetcht0", <<O_M>>, <<READ, READ>>, P_wrxb)
  @@ 1216 :> Row("pi2fw", <<O("P", 64), O("Q", 64)>>, <<WRITE, READ>>, P_rxb)
  @@ 1229 :> Row("pfmax", <<O("P", 64), O("Q", 64)>>, <<WRITE, READ>>, P_rxb)
  @@ 1522 :> Row("movdqu", <<O_V, O_W>>, <<WRITE, READ>>, P_rxb)

ud_itab_avx ==
     937 :> Row("vmovups", <<O_Vx, O_Wx>>, <<WRITE, READ>>, P_rxb \union {"vexl"})
  @@ 1450 :> Row("vunpcklps", <<O_Vx, O_Hx, O_Wx>>, <<READ_WRITE, READ>>, P_rxb)
  @@ 1727 :> Row("vbroadcastsd", <<O("V", SZ_QQ), O("M", 64)>>, <<WRITE, READ>>, P_rxb \union {"vexl"})
  @@ 1741 :> Row("vzeroupper", <<>>, <<READ, READ>>, P_none)
  @@ 1742 :> Row("vzeroall", <<>>, <<READ, READ>>, P_none)
  @@ 1744 :> Row("vblendvps", <<O_Vx, O_Hx, O_Wx, O("L", SZ_X)>>, <<WRITE, READ>>, P_rxb \union {"vexl"})
  @@ 1749 :> Row("vmovss", <<O_V, O("H", SZ_X), O("U", SZ_O)>>, <<WRITE, READ>>, P_rxb)
  @@ 1750 :> Row("vmovss", <<O_V, O("M", 32)>>, <<WRITE, READ>>, P_rxb)

(* The eight operations of an opcode group share operands and prefixes. *)
GroupRows(numbers, names, access, operands, prefix) ==
  [n \in {numbers[k] : k \in DOMAIN numbers} |->
     LET k == CHOOSE k \in DOMAIN numbers : numbers[k] = n
     IN Row(names[k], operands, <<access[k], READ>>, prefix)]

AluGroup(numbers, operands, prefix) ==
  GroupRows(numbers, <<"add", "or", "adc", "sbb", "and", "sub", "xor", "cmp">>,
            <<READ_WRITE, READ_WRITE, READ_WRITE, WRITE, READ_WRITE, READ_WRITE, READ_WRITE, READ>>, operands, prefix)
ShiftGroup(numbers, operands, prefix) ==
  GroupRows(numbers, <<"rol", "ror", "rcl", "rcr", "shl", "shr", "shl", "sar">>,
            [k \in 1 .. 8 |-> READ_WRITE], operands, prefix)
UnaryGroup(numbers, operands) ==
  GroupRows(numbers, <<"not", "neg", "mul", "imul", "div", "idiv">>,
            <<READ_WRITE, READ_WRITE, READ, READ_WRITE, WRITE, READ>>, operands, P_wrxb)

AluNumbers == "80" :> <<21, 970, 11, 1342, 55, 1413, 1493, 106>>
           @@ "81" :> <<23, 971, 13, 1343, 57, 1414, 1494, 108>>
           @@ "83" :> <<24, 973, 14, 1345, 58, 1416, 1496, 109>>
ShiftNumbers == "C1" :> <<1284, 1287, 1268, 1274, 1323, 1330, 1319, 1315>>
             @@ "D3" :> <<1283, 1290, 1271, 1278, 1328, 1335, 1322, 1317>>
UnaryNumbers == "F6" :> <<962, 953, 942, 695, 186, 689>> @@ "F7" :> <<963, 954, 943, 696, 185, 688>>

ud_itab_groups ==
     [AluGroup(AluNumbers["80"], <<O("E", 8), O_Ib>>, P_rxb) EXCEPT ![55].prefix = P_wrxb]
  @@ AluGroup(AluNumbers["81"], <<O_Ev, O("sI", SZ_Z)>>, P_wrxb)
  @@ AluGroup(AluNumbers["83"], <<O_Ev, O("sI", 8)>>, P_wrxb)
  @@ ShiftGroup(ShiftNumbers["C1"], <<O_Ev, O_Ib>>, P_wrxb)
  @@ ShiftGroup(ShiftNumbers["D3"], <<O_Ev, O("CL", 8)>>, P_wrxb)
  @@ UnaryGroup(UnaryNumbers["F6"], <<O("E", 8)>>)
  @@ UnaryGroup(UnaryNumbers["F7"], <<O_Ev>>)
  @@ 1432 :> Row("test", <<O("E", 8), O_Ib>>, <<READ, READ>>, P_wrxb)
  @@ 1437 :> Row("test", <<O("E", 8), O_Ib>>, <<READ, READ>>, P_wrxb)
  @@ 1438 :> Row("test", <<O_Ev, O("sI", SZ_Z)>>, <<READ, READ>>, P_wrxb)
  @@ 1439 :> Row("test", <<O_Ev, O("I", SZ_Z)>>, <<READ, READ>>, P_wrxb)
  @@ 183 :> Row("dec", <<O("E", 8)>>, <<READ_WRITE, READ>>, P_wrxb)
  @@ 184 :> Row("dec", <<O_Ev>>, <<READ_WRITE, READ>>, P_wrxb)
  @@ 707 :> Row("inc", <<O_Ev>>, <<READ_WRITE, READ>>, P_wrxb)
  @@ 708 :> Row("inc", <<O("E", 8)>>, <<READ_WRITE, READ>>, P_wrxb)
  @@ 761 :> Row("jmp", <<O_Ev>>, <<READ, READ>>, P_wrxb \union {"def64"})
  @@ 1109 :> Row("pop", <<O_Ev>>, <<WRITE, READ>>, P_wrxb \union {"def64"})
  @@ 1668 :> Row("bt", <<O_Ev, O_Ib>>, <<READ, READ>>, P_wrxb)
  @@ 1675 :> Row("bts", <<O_Ev, O_Ib>>, <<READ_WRITE, READ>>, P_wrxb)
  @@ 1673 :> Row("btr", <<O_Ev, O_Ib>>, <<READ_WRITE, READ>>, P_wrxb)
  @@ 1671 :> Row("btc", <<O_Ev, O_Ib>>, <<READ_WRITE, READ>>, P_wrxb)
  @@ 125 :> Row("cmpxchg8b", <<O_M>>, <<READ_WRITE, READ>>, P_rxb)
  @@ 126 :> Row("cmpxchg16b", <<O_M>>, <<READ_WRITE, READ>>, P_rxb)

ud_itab_integer ==
     68 :> Row("movsxd", <<O("G", 64), O("E", 32)>>, <<WRITE, READ>>, P_wrxb)
  @@ 88 :> Row("cmove", <<O_Gv, O_Ev>>, <<WRITE, READ>>, P_wrxb)
  @@ 103 :> Row("cmp", <<O_Gv, O_Ev>>, <<READ, READ>>, P_wrxb)
  @@ 123 :> Row("cmpxchg", <<O_Ev, O_Gv>>, <<READ_WRITE, READ>>, P_wrxb)
  @@ 930 :> Row("movsx", <<O_Gv, O("E", 8)>>, <<WRITE, READ>>, P_wrxb)
  @@ 940 :> Row("movzx", <<O_Gv, O("E", 8)>>, <<WRITE, READ>>, P_wrxb)
  @@ 941 :> Row("movzx", <<O("G", SZ_Y), O("E", 16)>>, <<WRITE, READ>>, P_wrxb)
  @@ 1246 :> Row("push", <<O("R0", SZ_V)>>, <<READ, READ>>, {"rexb", "def64"})
  @@ 1256 :> Row("push", <<O("sI", 8)>>, <<READ, READ>>, {"def64"})
  @@ 1354 :> Row("sete", <<O("E", 8)>>, <<WRITE, READ>>, P_rxb)
  @@ 1434 :> Row("test", <<O_Ev, O_Gv>>, <<READ, READ>>, P_wrxb)
  @@ 1474 :> Row("xadd", <<O_Ev, O_Gv>>, <<READ_WRITE, WRITE>>, P_wrxb)
  @@ 1476 :> Row("xchg", <<O_Ev, O_Gv>>, <<READ_WRITE, READ_WRITE>>, P_wrxb)

ud_itab == ud_itab_general @@ ud_itab_mov @@ ud_itab_simd @@ ud_itab_avx @@ ud_itab_groups @@ ud_itab_integer
---------------------------------------------------------------------------
(* Lookup tables, by number; `Filled' is a table that is INVALID elsewhere. *)
Table(type, entries) == [type |-> type, table |-> entries]
Filled(size, some) == [i \in 0 .. size - 1 |-> IF i \in DOMAIN some THEN some[i] ELSE INVALID]
Listed(entries) == [i \in 0 .. Len(entries) - 1 |-> entries[i + 1]]

ud_itab__0 ==
  Table("TABLE",    \h01 :> 16 @@ \h06 :> GROUP(1) @@ \h0F :> GROUP(4) @@ \h3B :> 103 @@ \h50 :> 1246
                 @@ \h63 :> GROUP(299) @@ \h69 :> 697 @@ \h6A :> 1256 @@ \h80 :> GROUP(302)
                 @@ \h81 :> GROUP(303) @@ \h83 :> GROUP(313) @@ \h85 :> 1434 @@ \h87 :> 1476
                 @@ \h88 :> 828 @@ \h89 :> 829 @@ \h8B :> 831 @@ \h8D :> 770 @@ \h8E :> 833
                 @@ \h8F :> GROUP(314) @@ \h90 :> 1477 @@ \hA0 :> 834 @@ \hA4 :> 922 @@ \hA5 :> GROUP(326)
                 @@ \hB8 :> 846 @@ \hC1 :> GROUP(332) @@ \hC3 :> 1302 @@ \hC4 :> GROUP(333)
                 @@ \hC5 :> GROUP(403) @@ \hC7 :> GROUP(406) @@ \hC8 :> 200 @@ \hD3 :> GROUP(412)
                 @@ \hD9 :> GROUP(419) @@ \hE3 :> GROUP(440) @@ \hE8 :> 72 @@ \hEA :> GROUP(441)
                 @@ \hF6 :> GROUP(442) @@ \hF7 :> GROUP(443) @@ \hFE :> GROUP(444) @@ \hFF :> GROUP(445))

ud_itab__4 ==
  Table("TABLE",    \h01 :> GROUP(6) @@ \h0F :> GROUP(28) @@ \h10 :> GROUP(29) @@ \h11 :> GROUP(30)
                 @@ \h18 :> GROUP(41) @@ \h1F :> 961 @@ \h2A :> GROUP(44) @@ \h44 :> 88
                 @@ \h58 :> GROUP(151) @@ \h6F :> GROUP(176) @@ \h94 :> 1354 @@ \hAE :> GROUP(215)
                 @@ \hB1 :> 123 @@ \hB6 :> 940 @@ \hB7 :> 941 @@ \hBA :> GROUP(222) @@ \hBE :> 930
                 @@ \hC1 :> 1474 @@ \hC4 :> GROUP(224) @@ \hC7 :> GROUP(227) @@ \hE7 :> GROUP(259))

ud_itab__302 == Table("REG", Listed(AluNumbers["80"]))
ud_itab__303 == Table("REG", Listed(AluNumbers["81"]))
ud_itab__313 == Table("REG", Listed(AluNumbers["83"]))
ud_itab__314 == Table("REG", Filled(8, 0 :> 1109))
ud_itab__332 == Table("REG", Listed(ShiftNumbers["C1"]))
ud_itab__412 == Table("REG", Listed(ShiftNumbers["D3"]))
ud_itab__442 == Table("REG", Listed(<<1432, 1437>> \o UnaryNumbers["F6"]))
ud_itab__443 == Table("REG", Listed(<<1438, 1439>> \o UnaryNumbers["F7"]))
ud_itab__444 == Table("REG", Filled(8, 0 :> 708 @@ 1 :> 183))
ud_itab__222 == Table("REG", Filled(8, 4 :> 1668 @@ 5 :> 1675 @@ 6 :> 1673 @@ 7 :> 1671))
ud_itab__227 == Table("MOD", 0 :> GROUP(228))
ud_itab__228 == Table("REG", 1 :> GROUP(229))
ud_itab__299 == Table("MODE", 1 :> 68)

ud_itab__1 == Table("MODE", Listed(<<1240, INVALID>>))
ud_itab__441 == Table("MODE", Listed(<<764, INVALID>>))
ud_itab__446 == Table("MODE", Listed(<<69, 70>>))

(* The F2 and 66 columns of every SSE table are empty in this repository's *)
(* itab.c, and so is the 16-bit column of every OSIZE table.               *)
ud_itab__29 == Table("SSE", Listed(<<936, INVALID, 928, INVALID>>))
ud_itab__30 == Table("SSE", Listed(<<938, INVALID, 929, INVALID>>))
ud_itab__44 == Table("SSE", Listed(<<141, INVALID, 154, INVALID>>))
ud_itab__151 == Table("SSE", Listed(<<27, INVALID, 31, INVALID>>))
ud_itab__176 == Table("SSE", Listed(<<920, INVALID, 1522, INVALID>>))
ud_itab__224 == Table("SSE", Listed(<<1059, INVALID, INVALID, INVALID>>))
ud_itab__259 == Table("SSE", Listed(<<909, INVALID, INVALID, INVALID>>))
ud_itab__229 == Table("OSIZE", Listed(<<INVALID, 125, 126>>))
ud_itab__326 == Table("OSIZE", Listed(<<INVALID, 924, 927>>))
ud_itab__440 == Table("ASIZE", Listed(<<INVALID, 759, 760>>))

ud_itab__28 == Table("3DNOW", Filled(256, \h0C :> 1216 @@ \hA4 :> 1229))

ud_itab__6 == Table("MOD", 1 :> GROUP(8))
ud_itab__8 == Table("REG", 7 :> GROUP(25))
ud_itab__25 == Table("RM", 1 :> GROUP(26))
ud_itab__26 == Table("VENDOR", Listed(<<1298, INVALID, INVALID>>))

ud_itab__41 == Table("REG", 1 :> 1128)
ud_itab__215 == Table("MOD", Listed(<<GROUP(216), GROUP(217)>>))
ud_itab__216 == Table("REG", 0 :> 683)
ud_itab__217 == Table("REG", 5 :> GROUP(218))
ud_itab__218 == Table("RM", 0 :> 777)
ud_itab__406 == Table("REG", Filled(8, 0 :> 827))
ud_itab__445 == Table("REG", 0 :> 707 @@ 1 :> 184 @@ 2 :> GROUP(446) @@ 3 :> 71 @@ 4 :> 761 @@ 6 :> 1255 @@ 7 :> INVALID)

ud_itab__419 == Table("MOD", Listed(<<GROUP(420), GROUP(421)>>))
ud_itab__420 == Table("REG", 0 :> 476)
ud_itab__421 == Table("X87", 0 :> 477)

(* Three-byte and two-byte VEX: the index is pp and the opcode map. *)
VexMaps == 1 :> GROUP(335) @@ 2 :> INVALID @@ 3 :> INVALID @@ 6 :> GROUP(357) @@ 7 :> GROUP(369) @@ 9 :> GROUP(394)
ud_itab__333 == Table("VEX", VexMaps)
ud_itab__403 == Table("VEX", VexMaps)
ud_itab__335 == Table("TABLE", \h10 :> 937 @@ \h14 :> 1450 @@ \h77 :> GROUP(340))
ud_itab__340 == Table("VEX_L", Listed(<<1741, 1742>>))
ud_itab__357 == Table("TABLE", \h19 :> GROUP(363))
ud_itab__363 == Table("VEX_W", Listed(<<GROUP(364), INVALID>>))
ud_itab__364 == Table("VEX_L", Listed(<<INVALID, 1727>>))
ud_itab__369 == Table("TABLE", \h4A :> GROUP(392))
ud_itab__392 == Table("VEX_W", Listed(<<1744, INVALID>>))
ud_itab__394 == Table("TABLE", \h10 :> GROUP(395))
ud_itab__395 == Table("MOD", Listed(<<1750, 1749>>))

ud_lookup_table_list ==
     0 :> ud_itab__0 @@ 1 :> ud_itab__1 @@ 4 :> ud_itab__4 @@ 6 :> ud_itab__6 @@ 8 :> ud_itab__8
  @@ 25 :> ud_itab__25 @@ 26 :> ud_itab__26 @@ 28 :> ud_itab__28 @@ 29 :> ud_itab__29
  @@ 30 :> ud_itab__30 @@ 41 :> ud_itab__41 @@ 176 :> ud_itab__176 @@ 215 :> ud_itab__215
  @@ 216 :> ud_itab__216 @@ 217 :> ud_itab__217 @@ 218 :> ud_itab__218 @@ 224 :> ud_itab__224
  @@ 259 :> ud_itab__259 @@ 326 :> ud_itab__326 @@ 333 :> ud_itab__333 @@ 335 :> ud_itab__335
  @@ 340 :> ud_itab__340 @@ 357 :> ud_itab__357 @@ 363 :> ud_itab__363 @@ 364 :> ud_itab__364
  @@ 369 :> ud_itab__369 @@ 392 :> ud_itab__392 @@ 394 :> ud_itab__394 @@ 395 :> ud_itab__395
  @@ 403 :> ud_itab__403 @@ 406 :> ud_itab__406 @@ 419 :> ud_itab__419 @@ 420 :> ud_itab__420
  @@ 421 :> ud_itab__421 @@ 440 :> ud_itab__440 @@ 441 :> ud_itab__441 @@ 445 :> ud_itab__445
  @@ 446 :> ud_itab__446 @@ 302 :> ud_itab__302 @@ 303 :> ud_itab__303 @@ 313 :> ud_itab__313
  @@ 314 :> ud_itab__314 @@ 332 :> ud_itab__332 @@ 412 :> ud_itab__412 @@ 442 :> ud_itab__442
  @@ 443 :> ud_itab__443 @@ 444 :> ud_itab__444 @@ 222 :> ud_itab__222 @@ 227 :> ud_itab__227
  @@ 228 :> ud_itab__228 @@ 229 :> ud_itab__229 @@ 299 :> ud_itab__299 @@ 44 :> ud_itab__44
  @@ 151 :> ud_itab__151
===========================================================================
