---------------------------- MODULE InsnDecode ------------------------------
(***************************************************************************)
(* How x86_emulate_memop decodes an instruction (x86_emulate.c): operand   *)
(* and address size, the effective address of a ModRM byte as a symbol (a  *)
(* set of registers, a scaled register, a displacement, a segment), and    *)
(* the register a ModRM byte selects; next to each what the architecture   *)
(* defines.                                                                *)
(***************************************************************************)
EXTENDS Naturals, FiniteSets, Sequences

RAX == 0
RCX == 1
RDX == 2
RBX == 3
RSP == 4
RBP == 5
RSI == 6
RDI == 7

(* Decoding.  An encoding e has the mode (16, 32, 64), the prefixes, a REX *)
(* prefix or none, and the fields of ModRM and SIB.                        *)

Count(e, prefix) == Cardinality({i \in DOMAIN e.prefixes : e.prefixes[i] = prefix})

Parity(e, prefix) == Count(e, prefix) % 2 = 1

Has(e, prefix) == \E i \in DOMAIN e.prefixes : e.prefixes[i] = prefix

Flip(n, other, flips) == IF flips THEN other ELSE n

\* "switch between 2/4 bytes": every prefix 66 toggles; REX.W comes after.
op_bytes(e) ==
    LET default == IF e.mode = 16 THEN 2 ELSE 4
    IN  IF e.rex /\ e.W THEN 8
        ELSE Flip(default, 6 - default, Parity(e, "66"))

ad_bytes(e) ==
    CASE e.mode = 16 -> Flip(2, 4, Parity(e, "67"))
      [] e.mode = 32 -> Flip(4, 2, Parity(e, "67"))
      [] e.mode = 64 -> Flip(8, 4, Parity(e, "67"))

\* REX.R, REX.X and REX.B are bit 3 of a register number.
Ext(e, bit) == IF e.rex /\ bit THEN 8 ELSE 0

\* Every segment prefix sets "override_base": the last one wins.
Overrides(e, seg) ==
    \E n \in DOMAIN e.prefixes :
        /\ e.prefixes[n] = seg
        /\ \A m \in DOMAIN e.prefixes : e.prefixes[m] \in {"fs", "ss"} => m <= n

SegmentPrefix(e) ==
    CASE Overrides(e, "fs") -> "fs" [] Overrides(e, "ss") -> "ss" [] OTHER -> "none"

Sum16 == <<{RBX, RSI}, {RBX, RDI}, {RBP, RSI}, {RBP, RDI}, {RSI}, {RDI}, {RBP}, {RBX}>>

Disp16(e) ==
    CASE e.mod = 0 -> IF e.rm = 6 THEN 2 ELSE 0
      [] e.mod = 1 -> 1
      [] e.mod = 2 -> 2

\* 16-bit ModR/M decode: the registers added, and the size of the displacement.
Ea16(e) ==
    [sum |-> IF e.rm = 6 /\ e.mod = 0 THEN {} ELSE Sum16[e.rm + 1],
     index |-> {}, disp |-> Disp16(e), rip |-> FALSE,
     stack |-> e.rm \in {2, 3} \/ (e.rm = 6 /\ e.mod # 0)]

\* Mutant: the displacement of a SIB byte without base is forgotten.
NoSibDisp(e) ==
    LET rm == e.rm + Ext(e, e.B)
        sib == rm \in {4, 12}
        base == e.base + Ext(e, e.B)
        index == e.index + Ext(e, e.X)
    IN  [sum |-> IF (sib /\ base = 5 /\ e.mod = 0) \/ (rm = 5 /\ e.mod = 0) THEN {}
                 ELSE IF sib THEN {base} ELSE {rm},
         index |-> IF sib /\ index # 4 THEN {index} ELSE {},
         disp |-> CASE e.mod = 0 -> IF rm = 5 THEN 4 ELSE 0
                    [] e.mod = 1 -> 1
                    [] e.mod = 2 -> 4,
         rip |-> rm = 5 /\ e.mod = 0 /\ e.mode = 64,
         stack |-> FALSE]

\* 32/64-bit ModR/M decode.
Ea32(e) ==
    LET rm == e.rm + Ext(e, e.B)
        sib == rm \in {4, 12}
        base == e.base + Ext(e, e.B)
        index == e.index + Ext(e, e.X)
        nobase == sib /\ base = 5 /\ e.mod = 0
    IN  [sum |-> IF nobase \/ (rm = 5 /\ e.mod = 0) THEN {}
                 ELSE IF sib THEN {base} ELSE {rm},
         index |-> IF sib /\ index # 4 THEN {index} ELSE {},
         disp |-> (IF nobase THEN 4 ELSE 0)
                  + CASE e.mod = 0 -> IF rm = 5 THEN 4 ELSE 0
                      [] e.mod = 1 -> 1
                      [] e.mod = 2 -> 4,
         rip |-> rm = 5 /\ e.mod = 0 /\ e.mode = 64,
         stack |-> FALSE]

\* The segment base that is added.  In 64-bit mode only FS and GS have one,
\* and emulate_instruction has set those to zero as well.
Segment(e, stack) ==
    CASE e.mode = 64 -> "none"
      [] e.mode # 64 /\ SegmentPrefix(e) # "none" -> SegmentPrefix(e)
      [] OTHER -> IF stack THEN "ss" ELSE "ds"

\* An address relative to rip counts from the end of the instruction: the
\* bytes of the immediate operand still to come.
RipTail(e) ==
    CASE e.imm = "imm8" -> 1
      [] e.imm = "imm" -> IF e.byte THEN 1 ELSE IF op_bytes(e) = 8 THEN 4 ELSE op_bytes(e)
      [] OTHER -> 0

modrm_ea(e) ==
    LET ea == IF ad_bytes(e) = 2 THEN Ea16(e) ELSE Ea32(e)
    IN  [sum |-> ea.sum, index |-> ea.index, disp |-> ea.disp,
         seg |-> Segment(e, ea.stack),
         tail |-> IF ea.rip THEN <<RipTail(e)>> ELSE <<>>]

\* Without REX, byte registers 4 to 7 are AH, CH, DH and BH.
decode_register(reg, high) ==
    IF high /\ reg \in 4 .. 7 THEN [reg |-> reg - 4, high |-> TRUE]
    ELSE [reg |-> reg, high |-> FALSE]

\* The destination register.  movzx has a byte source and a wide
\* destination, so it is excepted; movsx is not.
DstRegister(op, byte, reg, rex) ==
    IF byte /\ op # "movzx8" THEN decode_register(reg, ~rex)
    ELSE decode_register(reg, FALSE)

-----------------------------------------------------------------------------
(* The architecture's definitions, by the low three bits of the fields.    *)

RefOpBytes(e) ==
    IF e.rex /\ e.W THEN 8 ELSE IF (e.mode = 16) # Has(e, "66") THEN 2 ELSE 4

RefAdBytes(e) ==
    CASE e.mode = 64 -> IF Has(e, "67") THEN 4 ELSE 8
      [] e.mode # 64 -> IF (e.mode = 16) # Has(e, "67") THEN 2 ELSE 4

\* What follows the displacement: an immediate, for "test" of group 3 too.
RefTail(e) ==
    CASE e.imm = "none" -> 0
      [] e.imm = "imm8" -> 1
      [] e.imm \in {"imm", "test"} ->
           IF e.byte THEN 1 ELSE IF RefOpBytes(e) = 2 THEN 2 ELSE 4

\* No base register: a displacement alone, or one relative to rip.
RefNoBase(e) == e.mod = 0 /\ (e.rm = 5 \/ (e.rm = 4 /\ e.base = 5))

Ref16(e) ==
    [sum |-> CASE e.rm = 0 -> {RBX, RSI} [] e.rm = 1 -> {RBX, RDI}
               [] e.rm = 2 -> {RBP, RSI} [] e.rm = 3 -> {RBP, RDI}
               [] e.rm = 4 -> {RSI} [] e.rm = 5 -> {RDI}
               [] e.rm = 6 -> IF e.mod = 0 THEN {} ELSE {RBP}
               [] e.rm = 7 -> {RBX},
     index |-> {},
     disp |-> IF e.mod = 0 /\ e.rm = 6 THEN 2 ELSE e.mod]

Ref32(e) ==
    [sum |-> IF RefNoBase(e) THEN {}
             ELSE {(IF e.rm = 4 THEN e.base ELSE e.rm) + Ext(e, e.B)},
     index |-> IF e.rm = 4 /\ (e.index # 4 \/ (e.rex /\ e.X))
               THEN {e.index + Ext(e, e.X)} ELSE {},
     disp |-> IF RefNoBase(e) \/ e.mod = 2 THEN 4 ELSE e.mod]

\* The stack segment is the default for addresses based on BP or SP.  64-bit
\* mode ignores the prefixes of the other segments, wherever they stand.
RefSegment(e, ea) ==
    CASE e.mode = 64 -> IF Has(e, "fs") THEN "fs" ELSE "none"
      [] e.mode # 64 /\ SegmentPrefix(e) # "none" -> SegmentPrefix(e)
      [] OTHER -> IF ea.sum \cap {RBP, RSP} # {} THEN "ss" ELSE "ds"

RefEa(e) ==
    LET ea == IF RefAdBytes(e) = 2 THEN Ref16(e) ELSE Ref32(e)
    IN  [sum |-> ea.sum, index |-> ea.index, disp |-> ea.disp,
         seg |-> RefSegment(e, ea),
         tail |-> IF e.mode = 64 /\ e.mod = 0 /\ e.rm = 5 THEN <<RefTail(e)>> ELSE <<>>]

\* AH, CH, DH and BH are operands of byte instructions without REX only.
RefRegister(op, byte, reg, rex) ==
    IF byte /\ op \notin {"movzx8", "movsx8"} /\ ~rex /\ reg \in 4 .. 7
    THEN [reg |-> reg - 4, high |-> TRUE] ELSE [reg |-> reg, high |-> FALSE]
=============================================================================
