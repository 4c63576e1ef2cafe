---------------------------- MODULE EmulateProofs ----------------------------
(***************************************************************************)
(* What the emulator decodes and what it does, for every encoding, every   *)
(* instruction, every layout of memory and every answer of a device.       *)
(***************************************************************************)
EXTENDS Emulate, FiniteSetTheorems, SequenceTheorems, TLAPS

-----------------------------------------------------------------------------
(* Decoding.                                                               *)

\* The fields of an encoding have the types the assumption gives them.
Encoded(e) ==
    /\ e.mode \in {16, 32, 64} /\ e.prefixes \in Seq({"66", "67", "fs", "ss"})
    /\ e.rex \in BOOLEAN /\ e.W \in BOOLEAN /\ e.X \in BOOLEAN /\ e.B \in BOOLEAN
    /\ e.mod \in 0 .. 2 /\ e.rm \in Reg /\ e.base \in Reg /\ e.index \in Reg /\ e.reg \in Reg
    /\ e.imm \in {"none", "imm8", "imm", "test"} /\ e.byte \in BOOLEAN

\* Every encoding has these fields.
LEMMA EncodedFields == ASSUME NEW e \in Encodings PROVE Encoded(e)
  BY EncodingsAssumption DEF Encoded

\* A prefix that is given at most once toggles if it is given.
LEMMA ParityIsHas ==
  ASSUME NEW e, Encoded(e), NEW p, ~(Count(e, p) > 1)
  PROVE  Parity(e, p) <=> Has(e, p)
<1> DEFINE S == {i \in DOMAIN e.prefixes : e.prefixes[i] = p}
<1>1. IsFiniteSet(S)
  <2>1. Len(e.prefixes) \in Nat /\ DOMAIN e.prefixes = 1 .. Len(e.prefixes)
    BY DEF Encoded
  <2>2. IsFiniteSet(1 .. Len(e.prefixes))
    BY <2>1, FS_Interval
  <2> QED BY <2>1, <2>2, FS_Subset
<1>2. Cardinality(S) \in Nat /\ (Cardinality(S) = 0 <=> S = {})
  BY <1>1, FS_CardinalityType, FS_EmptySet
<1>3. S = {} <=> ~Has(e, p)
  BY DEF Has
<1>4. Count(e, p) = Cardinality(S)
  BY DEF Count
<1>5. Count(e, p) \in {0, 1}
  BY <1>2, <1>4
<1>6. Parity(e, p) <=> Count(e, p) = 1
  BY <1>5 DEF Parity
<1> HIDE DEF S
<1> QED BY <1>2, <1>3, <1>4, <1>5, <1>6

\* Exclusive or, as the definitions of the architecture write it.
LEMMA Differs ==
  ASSUME NEW e, NEW p
  PROVE  ((e.mode = 16) # Has(e, p)) <=> (e.mode = 16 <=> ~Has(e, p))
BY Zenon DEF Has

\* The operand size.
LEMMA OperandSize ==
  ASSUME NEW e, Encoded(e), Parity(e, "66") <=> Has(e, "66")
  PROVE  op_bytes(e) = RefOpBytes(e) /\ op_bytes(e) \in {2, 4, 8}
<1>1. RefOpBytes(e) = IF e.rex /\ e.W THEN 8
                      ELSE IF e.mode = 16 <=> ~Has(e, "66") THEN 2 ELSE 4
  BY Differs, Zenon DEF RefOpBytes
<1> QED BY <1>1 DEF Encoded, op_bytes, Flip

\* The address size.
LEMMA AddressSize ==
  ASSUME NEW e, Encoded(e), Parity(e, "67") <=> Has(e, "67")
  PROVE  /\ ad_bytes(e) = RefAdBytes(e)
         /\ ad_bytes(e) \in {2, 4, 8}
         /\ ad_bytes(e) = 2 => e.mode # 64
         /\ ad_bytes(e) = 8 => e.mode = 64
<1>1. e.mode = 64 => RefAdBytes(e) = IF Has(e, "67") THEN 4 ELSE 8
  BY DEF RefAdBytes
<1>2. e.mode # 64 => RefAdBytes(e) = IF (e.mode = 16) # Has(e, "67") THEN 2 ELSE 4
  BY Zenon DEF RefAdBytes
<1>3. e.mode # 64 => RefAdBytes(e) = IF e.mode = 16 <=> ~Has(e, "67") THEN 2 ELSE 4
  BY <1>2, Differs, Zenon
<1> QED BY <1>1, <1>3 DEF Encoded, ad_bytes, Flip

\* A 16-bit address: BP is what makes it an address of the stack.
LEMMA Address16 ==
  ASSUME NEW e, Encoded(e)
  PROVE  /\ Ea16(e).sum = Ref16(e).sum /\ Ea16(e).index = Ref16(e).index
         /\ Ea16(e).disp = Ref16(e).disp
         /\ ~Ea16(e).rip
         /\ Ea16(e).stack <=> Ref16(e).sum \cap {RBP, RSP} # {}
<1>1. e.rm \in {0, 1, 2, 3, 4, 5, 6, 7} /\ e.mod \in {0, 1, 2}
  BY DEF Encoded, Reg
<1>2. Ref16(e).sum = IF e.rm = 6 /\ e.mod = 0 THEN {} ELSE Sum16[e.rm + 1]
  <2>1. CASE e.rm = 0 BY <2>1 DEF Ref16, Sum16
  <2>2. CASE e.rm = 1 BY <2>2 DEF Ref16, Sum16
  <2>3. CASE e.rm = 2 BY <2>3 DEF Ref16, Sum16
  <2>4. CASE e.rm = 3 BY <2>4 DEF Ref16, Sum16
  <2>5. CASE e.rm = 4 BY <2>5 DEF Ref16, Sum16
  <2>6. CASE e.rm = 5 BY <2>6 DEF Ref16, Sum16
  <2>7. CASE e.rm = 6 BY <2>7 DEF Ref16, Sum16
  <2>8. CASE e.rm = 7 BY <2>8 DEF Ref16, Sum16
  <2> QED BY <1>1, <2>1, <2>2, <2>3, <2>4, <2>5, <2>6, <2>7, <2>8
<1>3. Ea16(e).disp = Ref16(e).disp
  BY <1>1 DEF Ea16, Ref16, Disp16
<1>4. Ea16(e).stack <=> (e.rm \in {2, 3} \/ (e.rm = 6 /\ e.mod # 0))
  BY DEF Ea16
<1>5. Ea16(e).stack <=> Ref16(e).sum \cap {RBP, RSP} # {}
  <2> USE <1>4 DEF Ref16, RBP, RSP, RBX, RSI, RDI
  <2>1. CASE e.rm = 0 BY <2>1
  <2>2. CASE e.rm = 1 BY <2>2
  <2>3. CASE e.rm = 2 BY <2>3
  <2>4. CASE e.rm = 3 BY <2>4
  <2>5. CASE e.rm = 4 BY <2>5
  <2>6. CASE e.rm = 5 BY <2>6
  <2>7. CASE e.rm = 6 BY <2>7
  <2>8. CASE e.rm = 7 BY <2>8
  <2> QED BY <1>1, <2>1, <2>2, <2>3, <2>4, <2>5, <2>6, <2>7, <2>8
<1> QED BY <1>2, <1>3, <1>5 DEF Ea16, Ref16

\* A 32-bit or 64-bit address, unless r13 is taken for "no base".
LEMMA Address32 ==
  ASSUME NEW e, Encoded(e), ~(e.rex /\ e.B /\ RefNoBase(e))
  PROVE  /\ Ea32(e).sum = Ref32(e).sum /\ Ea32(e).index = Ref32(e).index
         /\ Ea32(e).disp = Ref32(e).disp
         /\ Ea32(e).rip <=> e.mode = 64 /\ e.mod = 0 /\ e.rm = 5
         /\ ~Ea32(e).stack
<1> DEFINE b == Ext(e, e.B)
           x == Ext(e, e.X)
<1>1. /\ b \in {0, 8} /\ x \in {0, 8} /\ (x = 8 <=> e.rex /\ e.X)
      /\ b = 8 => ~RefNoBase(e)
  BY DEF Encoded, Ext
<1>2. e.mod \in 0 .. 2 /\ e.rm \in 0 .. 7 /\ e.base \in 0 .. 7 /\ e.index \in 0 .. 7
  BY DEF Encoded, Reg
<1>3. Ea32(e).sum = Ref32(e).sum
  <2>1. Ea32(e).sum = IF (e.rm + b \in {4, 12} /\ e.base + b = 5 /\ e.mod = 0)
                         \/ (e.rm + b = 5 /\ e.mod = 0) THEN {}
                      ELSE IF e.rm + b \in {4, 12} THEN {e.base + b} ELSE {e.rm + b}
    BY DEF Ea32
  <2>2. Ref32(e).sum = IF RefNoBase(e) THEN {} ELSE {(IF e.rm = 4 THEN e.base ELSE e.rm) + b}
    BY DEF Ref32
  <2> HIDE DEF b, x
  <2> QED BY <1>1, <1>2, <2>1, <2>2 DEF RefNoBase
<1>4. Ea32(e).index = Ref32(e).index
  <2>1. Ea32(e).index = IF e.rm + b \in {4, 12} /\ e.index + x # 4 THEN {e.index + x} ELSE {}
    BY DEF Ea32
  <2>2. Ref32(e).index = IF e.rm = 4 /\ (e.index # 4 \/ (e.rex /\ e.X))
                         THEN {e.index + x} ELSE {}
    BY DEF Ref32
  <2> HIDE DEF b, x
  <2> QED BY <1>1, <1>2, <2>1, <2>2
<1>5. Ea32(e).disp = Ref32(e).disp
  <2>1. Ea32(e).disp = (IF e.rm + b \in {4, 12} /\ e.base + b = 5 /\ e.mod = 0 THEN 4 ELSE 0)
                       + CASE e.mod = 0 -> IF e.rm + b = 5 THEN 4 ELSE 0
                           [] e.mod = 1 -> 1
                           [] e.mod = 2 -> 4
    BY DEF Ea32
  <2>2. Ref32(e).disp = IF RefNoBase(e) \/ e.mod = 2 THEN 4 ELSE e.mod
    BY DEF Ref32
  <2> HIDE DEF b, x
  <2> QED BY <1>1, <1>2, <2>1, <2>2 DEF RefNoBase
<1>6. Ea32(e).rip <=> e.mode = 64 /\ e.mod = 0 /\ e.rm = 5
  <2>1. Ea32(e).rip <=> (e.rm + b = 5 /\ e.mod = 0 /\ e.mode = 64)
    BY DEF Ea32
  <2> HIDE DEF b, x
  <2> QED BY <1>1, <1>2, <2>1 DEF RefNoBase
<1>7. ~Ea32(e).stack
  BY DEF Ea32
<1> QED BY <1>3, <1>4, <1>5, <1>6, <1>7

\* The segment and what follows the displacement.
LEMMA SegmentAndTail ==
  ASSUME NEW e, Encoded(e), ~Misdecoded(e), op_bytes(e) = RefOpBytes(e),
         op_bytes(e) \in {2, 4, 8}
  PROVE  /\ e.mode = 64 => \A s, ea : Segment(e, s) = RefSegment(e, ea)
         /\ RefNoBase(e) => RipTail(e) = RefTail(e)
<1>1. e.mode = 64 => \A s, ea : Segment(e, s) = RefSegment(e, ea)
  <2>1. ~(e.mode = 64 /\ Has(e, "fs"))
    BY DEF Misdecoded
  <2> QED BY <2>1 DEF Segment, RefSegment
<1>2. RefNoBase(e) => RipTail(e) = RefTail(e)
  <2>1. RefNoBase(e) => e.imm # "test"
    BY DEF Misdecoded
  <2> QED BY <2>1 DEF Encoded, RipTail, RefTail
<1> QED BY <1>1, <1>2

\* Every encoding that is not listed as misdecoded forms its address.
LEMMA AddressExact ==
  ASSUME NEW e, Encoded(e), ~Misdecoded(e)
  PROVE  modrm_ea(e) = RefEa(e) /\ op_bytes(e) = RefOpBytes(e) /\ ad_bytes(e) = RefAdBytes(e)
<1>1. ~(Count(e, "66") > 1) /\ ~(Count(e, "67") > 1)
  BY DEF Misdecoded
<1>2. op_bytes(e) = RefOpBytes(e) /\ op_bytes(e) \in {2, 4, 8}
  BY <1>1, ParityIsHas, OperandSize
<1>3. /\ ad_bytes(e) = RefAdBytes(e) /\ ad_bytes(e) \in {2, 4, 8}
      /\ ad_bytes(e) = 2 => e.mode # 64
      /\ ad_bytes(e) = 8 => e.mode = 64
  BY <1>1, ParityIsHas, AddressSize
<1>4. /\ e.mode = 64 => \A s, ea : Segment(e, s) = RefSegment(e, ea)
      /\ RefNoBase(e) => RipTail(e) = RefTail(e)
  BY <1>2, SegmentAndTail
<1>5. CASE ad_bytes(e) = 2
  <2> DEFINE p == Ea16(e)
             q == Ref16(e)
  <2>1. modrm_ea(e) = [sum |-> p.sum, index |-> p.index, disp |-> p.disp,
                       seg |-> Segment(e, p.stack),
                       tail |-> IF p.rip THEN <<RipTail(e)>> ELSE <<>>]
    BY <1>5 DEF modrm_ea
  <2>2. RefEa(e) = [sum |-> q.sum, index |-> q.index, disp |-> q.disp,
                    seg |-> RefSegment(e, q),
                    tail |-> IF e.mode = 64 /\ e.mod = 0 /\ e.rm = 5 THEN <<RefTail(e)>>
                             ELSE <<>>]
    BY <1>3, <1>5 DEF RefEa
  <2>3. /\ p.sum = q.sum /\ p.index = q.index /\ p.disp = q.disp
        /\ ~p.rip /\ (p.stack <=> q.sum \cap {RBP, RSP} # {})
    BY Address16
  <2>4. Segment(e, p.stack) = RefSegment(e, q)
    <3> HIDE DEF p, q
    <3> QED BY <2>3, <1>3, <1>5 DEF Segment, RefSegment
  <2> HIDE DEF p, q
  <2> QED BY <1>2, <1>3, <1>5, <2>1, <2>2, <2>3, <2>4
<1>6. CASE ad_bytes(e) # 2
  <2> DEFINE p == Ea32(e)
             q == Ref32(e)
  <2>1. modrm_ea(e) = [sum |-> p.sum, index |-> p.index, disp |-> p.disp,
                       seg |-> Segment(e, p.stack),
                       tail |-> IF p.rip THEN <<RipTail(e)>> ELSE <<>>]
    BY <1>6 DEF modrm_ea
  <2>2. RefEa(e) = [sum |-> q.sum, index |-> q.index, disp |-> q.disp,
                    seg |-> RefSegment(e, q),
                    tail |-> IF e.mode = 64 /\ e.mod = 0 /\ e.rm = 5 THEN <<RefTail(e)>>
                             ELSE <<>>]
    BY <1>3, <1>6 DEF RefEa
  <2>3. /\ p.sum = q.sum /\ p.index = q.index /\ p.disp = q.disp
        /\ (p.rip <=> e.mode = 64 /\ e.mod = 0 /\ e.rm = 5) /\ ~p.stack
    BY Address32 DEF Misdecoded
  <2>4. ad_bytes(e) = 4 => q.sum \cap {RSP, RBP} = {}
    BY <2>1, <2>3 DEF Misdecoded
  <2>5. Segment(e, p.stack) = RefSegment(e, q)
    <3>1. CASE e.mode = 64
      BY <1>4, <3>1
    <3>2. CASE e.mode # 64
      <4>1. ad_bytes(e) = 4
        BY <1>3, <1>6, <3>2
      <4> HIDE DEF p, q
      <4> QED BY <2>3, <2>4, <3>2, <4>1 DEF Segment, RefSegment
    <3> QED BY <3>1, <3>2
  <2>6. (e.mode = 64 /\ e.mod = 0 /\ e.rm = 5) => RipTail(e) = RefTail(e)
    BY <1>4 DEF RefNoBase
  <2> HIDE DEF p, q
  <2> QED BY <1>2, <1>3, <2>1, <2>2, <2>3, <2>5, <2>6
<1> QED BY <1>5, <1>6

\* The register a ModRM byte names.
LEMMA RegisterNamed ==
  ASSUME NEW e, Encoded(e), ~(e.op = "movsx8" /\ e.reg \in 4 .. 7 /\ ~e.rex)
  PROVE  DstRegister(e.op, e.byte, e.reg, e.rex) = RefRegister(e.op, e.byte, e.reg, e.rex)
BY DEF Encoded, DstRegister, RefRegister, decode_register

-----------------------------------------------------------------------------
(* Instructions, widths and registers.                                     *)

\* The fields of an instruction have the types the assumption gives them.
Decoded(i) ==
    /\ i.form \in {"mr", "rm", "mi", "m", "implicit"} /\ i.op \in Operations[i.form]
    /\ i.w \in 1 .. 4 /\ i.reg \in Reg /\ i.imm \in Word /\ i.a \in 2 .. 4 /\ i.ea \in Word
    /\ i.rex \in BOOLEAN /\ i.rep \in BOOLEAN /\ i.lock \in BOOLEAN /\ i.df \in BOOLEAN
    /\ i.long \in BOOLEAN
    /\ i.imm < 2^i.w /\ SrcWidth(i) <= i.w /\ (i.op = "cmovz" => i.w > 1)
    /\ Bytes(i.w) <= 2^i.a
    /\ i.op = "pop" /\ i.long => i.a = 4
    /\ i.rep => i.op \in {"movs", "stos", "lods"}
    /\ i.op \in {"push", "mul"} => Region[i.ea] = "io"
    /\ ~(i.op = "movsx8" /\ i.reg \in 4 .. 7 /\ ~i.rex)

\* Every instruction has these fields.
LEMMA DecodedFields == ASSUME NEW i \in Insns PROVE Decoded(i)
  BY InsnsAssumption DEF Decoded

\* The powers of two that occur.
LEMMA Powers ==
  ASSUME NEW w \in 1 .. 4
  PROVE  /\ w = 1 => 2^w = 2 /\ 2^(w - 1) = 1
         /\ w = 2 => 2^w = 4 /\ 2^(w - 1) = 2
         /\ w = 3 => 2^w = 8 /\ 2^(w - 1) = 4
         /\ w = 4 => 2^w = 16 /\ 2^(w - 1) = 8
         /\ w \in {1, 2, 3, 4}
         /\ 2^w \in {2, 4, 8, 16}
         /\ 2^(w - 1) \in {1, 2, 4, 8}
<1>1. CASE w = 1 BY <1>1
<1>2. CASE w = 2 BY <1>2
<1>3. CASE w = 3 BY <1>3
<1>4. CASE w = 4 BY <1>4
<1> QED BY <1>1, <1>2, <1>3, <1>4

\* A value of a width.
Val(w) == 0 .. (2^w - 1)

\* Truncation.
LEMMA Truncated ==
  ASSUME NEW w \in 1 .. 4, NEW x \in Word
  PROVE  /\ x % 2^w \in Val(w) /\ x % 2^w \in Word
         /\ (x % 2^w) % 2^w = x % 2^w
         /\ Val(w) \subseteq Word
         /\ x \in Val(w) => x % 2^w = x
<1> USE Powers DEF Val, Word
<1>1. CASE w = 1 BY <1>1
<1>2. CASE w = 2 BY <1>2
<1>3. CASE w = 3 BY <1>3
<1>4. CASE w = 4 BY <1>4
<1> QED BY <1>1, <1>2, <1>3, <1>4

\* The width of a source operand.
LEMMA SourceWidth == ASSUME NEW i, Decoded(i) PROVE SrcWidth(i) \in 1 .. 4
BY DEF Decoded, SrcWidth

\* An address in a register.
LEMMA RegisterAddress ==
  ASSUME NEW i, Decoded(i), NEW regs \in [Reg -> Word], NEW r \in Reg
  PROVE  register_address(i, regs, r) \in Word
<1>1. i.a \in 1 .. 4 /\ regs[r] \in Word
  BY DEF Decoded
<1> QED BY <1>1, Truncated DEF register_address

\* How an operation refers to a register: the byte forms reach bits 8 to 15.
IsRegister(p) == DOMAIN p = {"reg", "high"} /\ p.reg \in Reg /\ p.high \in BOOLEAN

\* Reading and writing an operand's register is what the processor does.
LEMMA OperandRegister ==
  ASSUME NEW i, Decoded(i), NEW regs \in [Reg -> Word], NEW p, IsRegister(p),
         i.w = 1 /\ ~i.rex /\ i.reg >= 4 => p.high /\ p.reg = i.reg - 4,
         ~(i.w = 1 /\ ~i.rex /\ i.reg >= 4) => ~p.high /\ p.reg = i.reg
  PROVE  /\ ReadReg(regs, p, i.w) = Get(i, regs)
         /\ Get(i, regs) \in Val(i.w)
         /\ \A v \in Val(i.w) : /\ WriteReg(regs, p, i.w, v) = PutByteOrWord(i, regs, v)
                                /\ PutByteOrWord(i, regs, v) \in [Reg -> Word]
<1> USE DEF Decoded, Reg, Word, Val, IsRegister
<1>1. CASE i.w = 1 /\ ~i.rex /\ i.reg >= 4
  <2>1. i.reg - 4 \in 0 .. 7 /\ regs[i.reg - 4] \in 0 .. 15
    BY <1>1
  <2>2. ReadReg(regs, p, i.w) = Get(i, regs) /\ Get(i, regs) \in Val(i.w)
    BY <1>1, <2>1 DEF ReadReg, Get
  <2>3. ASSUME NEW v \in Val(i.w)
        PROVE  /\ WriteReg(regs, p, i.w, v) = PutByteOrWord(i, regs, v)
               /\ PutByteOrWord(i, regs, v) \in [Reg -> Word]
    <3>1. v \in {0, 1}
      BY <1>1
    <3> DEFINE old == regs[i.reg - 4]
    <3>2. (old - 2 * ((old \div 2) % 2)) + 2 * v = (4 * (old \div 4)) + (2 * v) + (old % 2)
      BY <2>1, <3>1
    <3>3. (4 * (old \div 4)) + (2 * v) + (old % 2) \in 0 .. 15
      BY <2>1, <3>1
    <3>4. WriteReg(regs, p, i.w, v)
            = [regs EXCEPT ![i.reg - 4] = (old - 2 * ((old \div 2) % 2)) + 2 * v]
      BY <1>1 DEF WriteReg
    <3>5. PutByteOrWord(i, regs, v)
            = [regs EXCEPT ![i.reg - 4] = (4 * (old \div 4)) + (2 * v) + (old % 2)]
      BY <1>1 DEF PutByteOrWord
    <3> DEFINE new == (4 * (old \div 4)) + (2 * v) + (old % 2)
    <3>6. /\ WriteReg(regs, p, i.w, v) = [regs EXCEPT ![i.reg - 4] = new]
          /\ PutByteOrWord(i, regs, v) = [regs EXCEPT ![i.reg - 4] = new]
      BY <3>2, <3>4, <3>5
    <3>7. new \in 0 .. 15
      BY <3>3
    <3> HIDE DEF old, new
    <3> QED BY <2>1, <3>6, <3>7
  <2> QED BY <2>2, <2>3
<1>2. CASE ~(i.w = 1 /\ ~i.rex /\ i.reg >= 4)
  <2>1. regs[i.reg] \in 0 .. 15
    OBVIOUS
  <2>2. ReadReg(regs, p, i.w) = Get(i, regs) /\ Get(i, regs) \in Val(i.w)
    BY <1>2, <2>1, Truncated DEF ReadReg, Get
  <2>3. ASSUME NEW v \in Val(i.w)
        PROVE  /\ WriteReg(regs, p, i.w, v) = PutByteOrWord(i, regs, v)
               /\ PutByteOrWord(i, regs, v) \in [Reg -> Word]
    <3> DEFINE old == regs[i.reg]
               new == IF i.w \in {1, 2} THEN (old - (old % 2^i.w)) + v ELSE v
               put == IF i.w >= 3 THEN v ELSE (2^i.w * (old \div 2^i.w)) + v
    <3>1. new = put /\ put \in 0 .. 15
      <4> old \in 0 .. 15
        BY <2>1
      <4> HIDE DEF old
      <4>1. CASE i.w = 1 BY <4>1, Powers
      <4>2. CASE i.w = 2 BY <4>2, Powers
      <4>3. CASE i.w = 3 BY <4>3, Powers
      <4>4. CASE i.w = 4 BY <4>4, Powers
      <4> QED BY <4>1, <4>2, <4>3, <4>4
    <3>2. WriteReg(regs, p, i.w, v) = [regs EXCEPT ![i.reg] = new]
      BY <1>2 DEF WriteReg
    <3>3. PutByteOrWord(i, regs, v) = [regs EXCEPT ![i.reg] = put]
      BY <1>2 DEF PutByteOrWord, Put
    <3> HIDE DEF old, new, put
    <3> QED BY <3>1, <3>2, <3>3
  <2> QED BY <2>2, <2>3
<1> QED BY <1>1, <1>2

\* A register operand of two bytes or more, or with REX.
LEMMA WideRegister ==
  ASSUME NEW i, Decoded(i), NEW regs \in [Reg -> Word], NEW p, IsRegister(p), ~p.high,
         NEW v \in Val(i.w)
  PROVE  /\ WriteReg(regs, p, i.w, v) = Put(regs, p.reg, i.w, v)
         /\ Put(regs, p.reg, i.w, v) \in [Reg -> Word]
<1> USE DEF Decoded, Reg, Word, Val, IsRegister
<1> DEFINE old == regs[p.reg]
           new == IF i.w \in {1, 2} THEN (old - (old % 2^i.w)) + v ELSE v
           put == IF i.w >= 3 THEN v ELSE (2^i.w * (old \div 2^i.w)) + v
<1>1. new = put /\ put \in 0 .. 15
  <2> old \in 0 .. 15
    OBVIOUS
  <2> HIDE DEF old
  <2>1. CASE i.w = 1 BY <2>1, Powers
  <2>2. CASE i.w = 2 BY <2>2, Powers
  <2>3. CASE i.w = 3 BY <2>3, Powers
  <2>4. CASE i.w = 4 BY <2>4, Powers
  <2> QED BY <2>1, <2>2, <2>3, <2>4
<1>2. WriteReg(regs, p, i.w, v) = [regs EXCEPT ![p.reg] = new]
  BY DEF WriteReg
<1>3. Put(regs, p.reg, i.w, v) = [regs EXCEPT ![p.reg] = put]
  BY DEF Put
<1> HIDE DEF old, new, put
<1> QED BY <1>1, <1>2, <1>3

\* register_address_increment moves a pointer as the processor does.
LEMMA PointerMoves ==
  ASSUME NEW i, Decoded(i), NEW regs \in [Reg -> Word], NEW r \in Reg
  PROVE  /\ Step(i, regs, r)
              = [regs EXCEPT ![r] = register_address_increment(regs[r], i.a, Bytes(i.w), i.df)]
         /\ Step(i, regs, r) \in [Reg -> Word]
<1> DEFINE x == regs[r]
           s == 2^i.a
           n == Bytes(i.w)
           moved == register_address_increment(x, i.a, n, i.df)
           step == (s * (x \div s))
                   + (IF ~i.df THEN ((x % s) + n) % s
                      ELSE IF (x % s) >= n THEN (x % s) - n ELSE ((x % s) + s) - n)
<1>1. x \in 0 .. 15
  BY DEF Word
<1>2. s \in {4, 8, 16}
  <2>1. i.a \in 1 .. 4 /\ i.a \in {2, 3, 4}
    BY DEF Decoded
  <2> QED BY <2>1, Powers
<1>3. n \in {1, 2, 4, 8} /\ n <= s
  BY Powers DEF Decoded, Bytes
<1>4. moved = step /\ step \in 0 .. 15
  <2>1. moved = IF i.df THEN (x - (x % s)) + (((x + s) - n) % s) ELSE (x - (x % s)) + ((x + n) % s)
    BY DEF register_address_increment
  <2> HIDE DEF x, s, n, moved
  <2>2. /\ (x - (x % s)) + ((x + n) % s) = (s * (x \div s)) + (((x % s) + n) % s)
        /\ (x - (x % s)) + (((x + s) - n) % s)
             = (s * (x \div s)) + (IF (x % s) >= n THEN (x % s) - n ELSE ((x % s) + s) - n)
        /\ (x - (x % s)) + ((x + n) % s) \in 0 .. 15
        /\ (x - (x % s)) + (((x + s) - n) % s) \in 0 .. 15
    <3>1. CASE s = 4 BY <1>1, <1>3, <3>1
    <3>2. CASE s = 8 BY <1>1, <1>3, <3>2
    <3>3. CASE s = 16 BY <1>1, <1>3, <3>3
    <3> QED BY <1>2, <3>1, <3>2, <3>3
  <2>3. CASE i.df
    BY <2>1, <2>2, <2>3
  <2>4. CASE ~i.df
    BY <2>1, <2>2, <2>4
  <2> QED BY <2>3, <2>4
<1>5. Step(i, regs, r) = [regs EXCEPT ![r] = step]
  BY DEF Step
<1>6. Step(i, regs, r) = [regs EXCEPT ![r] = moved] /\ moved \in Word
  <2> HIDE DEF x, s, n, moved, step
  <2> QED BY <1>4, <1>5 DEF Word
<1>7. Step(i, regs, r) \in [Reg -> Word]
  <2> HIDE DEF x, s, n, moved, step
  <2> QED BY <1>6
<1> QED BY <1>6, <1>7, Zenon

-----------------------------------------------------------------------------
(* The memory operations.                                                  *)

\* The four outcomes of a read: the answer that is waiting is taken, memory is
\* read, the fault is reported, a device is asked.
LEMMA ReadEmulated ==
  ASSUME NEW m \in Mmio, NEW a \in Word, NEW w \in 1 .. 4, ram \in [Word -> Word]
  PROVE  LET r == emulator_read_emulated(m, a, w)
         IN  /\ m.completed =>
                  /\ r.rc = "continue" /\ r.val = m.data % 2^w
                  /\ r.mm = [m EXCEPT !.completed = FALSE]
             /\ ~m.completed /\ Region[a] = "ram" =>
                  r.rc = "continue" /\ r.val = ram[a] % 2^w /\ r.mm = m
             /\ ~m.completed /\ Region[a] = "unmapped" => r.rc = "propagate" /\ r.mm = m
             /\ ~m.completed /\ Region[a] = "io" =>
                  /\ r.rc = "unhandleable"
                  /\ r.mm = [m EXCEPT !.needed = TRUE, !.write = FALSE, !.a = a, !.w = w]
<1> USE EmulateAssumption DEF Mmio
<1>1. m.completed \in BOOLEAN /\ Region[a] \in {"ram", "io", "unmapped"}
  OBVIOUS
<1>2. emulator_read_std(a, w)
        = IF Region[a] = "unmapped" THEN [rc |-> "propagate", val |-> 0]
          ELSE IF Region[a] = "io" THEN [rc |-> "unhandleable", val |-> 0]
          ELSE [rc |-> "continue", val |-> ram[a] % 2^w]
  BY <1>1 DEF emulator_read_std
<1>3. CASE m.completed
  BY <1>3 DEF emulator_read_emulated
<1>4. CASE ~m.completed /\ Region[a] = "ram"
  BY <1>2, <1>4 DEF emulator_read_emulated
<1>5. CASE ~m.completed /\ Region[a] = "unmapped"
  BY <1>2, <1>5 DEF emulator_read_emulated
<1>6. CASE ~m.completed /\ Region[a] = "io"
  BY <1>2, <1>6 DEF emulator_read_emulated
<1> QED BY <1>1, <1>3, <1>4, <1>5, <1>6

\* A read that takes the answer.
LEMMA ReadTaken ==
  ASSUME NEW m \in Mmio, m.completed, NEW a, NEW w
  PROVE  /\ emulator_read_emulated(m, a, w).rc = "continue"
         /\ emulator_read_emulated(m, a, w).val = m.data % 2^w
         /\ emulator_read_emulated(m, a, w).mm = [m EXCEPT !.completed = FALSE]
<1> DEFINE u == [m EXCEPT !.completed = FALSE]
           y == m.data % 2^w
<1>1. emulator_read_emulated(m, a, w) = [rc |-> "continue", val |-> y, mm |-> u]
  BY DEF emulator_read_emulated
<1> HIDE DEF u, y
<1>2. /\ emulator_read_emulated(m, a, w).rc = "continue"
      /\ emulator_read_emulated(m, a, w).val = y
      /\ emulator_read_emulated(m, a, w).mm = u
  BY <1>1
<1> QED BY <1>2 DEF u, y

\* A read of memory.
LEMMA ReadRam ==
  ASSUME NEW m \in Mmio, ~m.completed, NEW a, NEW w, Region[a] = "ram"
  PROVE  /\ emulator_read_emulated(m, a, w).rc = "continue"
         /\ emulator_read_emulated(m, a, w).val = ram[a] % 2^w
         /\ emulator_read_emulated(m, a, w).mm = m
<1> DEFINE y == ram[a] % 2^w
<1>1. emulator_read_std(a, w) = [rc |-> "continue", val |-> y]
  BY DEF emulator_read_std
<1> HIDE DEF y
<1>2. emulator_read_emulated(m, a, w) = [rc |-> "continue", val |-> y, mm |-> m]
  BY <1>1 DEF emulator_read_emulated
<1>3. /\ emulator_read_emulated(m, a, w).rc = "continue"
      /\ emulator_read_emulated(m, a, w).val = y
      /\ emulator_read_emulated(m, a, w).mm = m
  BY <1>2
<1> QED BY <1>3 DEF y

\* What asking and taking an answer do to the vcpu's mmio fields.
LEMMA MmioFields ==
  ASSUME NEW m \in Mmio, NEW a \in Word, NEW w \in 1 .. 4, NEW v \in Word
  PROVE  LET taken == [m EXCEPT !.completed = FALSE]
             asked == [m EXCEPT !.needed = TRUE, !.write = FALSE, !.a = a, !.w = w]
             wrote == [m EXCEPT !.needed = TRUE, !.write = TRUE, !.a = a, !.w = w, !.data = v]
         IN  /\ taken \in Mmio /\ ~taken.completed
             /\ (taken.needed <=> m.needed) /\ (taken.write <=> m.write)
             /\ asked \in Mmio /\ asked.needed /\ ~asked.write /\ asked.a = a /\ asked.w = w
             /\ (asked.completed <=> m.completed)
             /\ wrote \in Mmio /\ wrote.needed /\ wrote.write /\ wrote.a = a /\ wrote.w = w
             /\ (wrote.completed <=> m.completed) /\ wrote.data = v
BY DEF Mmio

-----------------------------------------------------------------------------
(* Which accesses trap.                                                    *)

\* The stack pointer of a pop is the one the emulator computes.
LEMMA Pointers ==
  ASSUME NEW i, Decoded(i), i.op = "pop", NEW v
  PROVE  Sp(i, v) = register_address(i, v.regs, RSP)
<1>1. StackBits(i) = i.a
  BY DEF StackBits, Decoded
<1> QED BY <1>1 DEF Sp, register_address

\* The repetition has come to its end.
Exhausted(i, v) == i.rep /\ v.regs[RCX] = 0

\* What an instruction touches, operation by operation.
LEMMA Touched ==
  ASSUME NEW i, Decoded(i), NEW v \in Cpu
  PROVE  /\ Exhausted(i, v) => Touches(i, v) = <<>>
         /\ ~Exhausted(i, v) =>
              /\ i.op \in {"movs", "cmps"} => Touches(i, v) = <<Si(i, v), Di(i, v)>>
              /\ i.op = "stos" => Touches(i, v) = <<Di(i, v)>>
              /\ i.op = "lods" => Touches(i, v) = <<Si(i, v)>>
              /\ i.op = "pop" => Touches(i, v) = <<Sp(i, v), i.ea>>
              /\ i.op \notin {"movs", "cmps", "stos", "lods", "pop"} =>
                   Touches(i, v) = <<i.ea>>
<1>1. i.op = "pop" => ~i.rep
  BY DEF Decoded
<1>2. CASE Exhausted(i, v)
  BY <1>1, <1>2 DEF Exhausted, Touches
<1>3. CASE ~Exhausted(i, v)
  <2>1. CASE i.op \in {"movs", "cmps"}
    BY <1>3, <2>1 DEF Exhausted, Touches, Si, Di
  <2>2. CASE i.op = "stos"
    BY <1>3, <2>2 DEF Exhausted, Touches, Di
  <2>3. CASE i.op = "lods"
    BY <1>3, <2>3 DEF Exhausted, Touches, Si
  <2>4. CASE i.op = "pop"
    BY <1>3, <2>4 DEF Exhausted, Touches, Sp
  <2>5. CASE i.op \notin {"movs", "cmps", "stos", "lods", "pop"}
    BY <1>3, <2>5 DEF Exhausted, Touches
  <2> QED BY <1>3, <2>1, <2>2, <2>3, <2>4, <2>5
<1> QED BY <1>2, <1>3

\* One access: it traps or it does not.
LEMMA OneTrap ==
  ASSUME NEW i, NEW v, NEW a, Touches(i, v) = <<a>>
  PROVE  /\ Traps(i, v) = {} <=> Region[a] = "ram"
         /\ Traps(i, v) # {} => TrapAddress(i, v) = a
<1>1. DOMAIN Touches(i, v) = {1} /\ Touches(i, v)[1] = a
  OBVIOUS
<1> QED BY <1>1 DEF Traps, TrapAddress

\* Two accesses: the second traps when the first does not.
LEMMA TwoTraps ==
  ASSUME NEW i, NEW v, NEW a, NEW b, Touches(i, v) = <<a, b>>
  PROVE  /\ Traps(i, v) = {} <=> Region[a] = "ram" /\ Region[b] = "ram"
         /\ Traps(i, v) # {} => TrapAddress(i, v) = IF Region[a] # "ram" THEN a ELSE b
<1>1. DOMAIN Touches(i, v) = {1, 2} /\ Touches(i, v)[1] = a /\ Touches(i, v)[2] = b
  OBVIOUS
<1> QED BY <1>1 DEF Traps, TrapAddress

\* Where an access to a device can be when the emulator is called.
LEMMA TrappedAt ==
  ASSUME NEW i, Decoded(i), NEW v \in Cpu, Trapped(i, v)
  PROVE  /\ ~Exhausted(i, v)
         /\ i.op \in {"movs", "cmps"} =>
              \/ Region[Si(i, v)] = "io"
              \/ Region[Si(i, v)] = "ram" /\ Region[Di(i, v)] = "io"
         /\ i.op = "stos" => TrapAddress(i, v) = Di(i, v) /\ Region[Di(i, v)] = "io"
         /\ i.op = "lods" => TrapAddress(i, v) = Si(i, v) /\ Region[Si(i, v)] = "io"
         /\ i.op = "pop" => \/ Region[Sp(i, v)] = "io"
                            \/ Region[Sp(i, v)] = "ram" /\ Region[i.ea] = "io"
         /\ i.op \notin {"movs", "cmps", "stos", "lods", "pop"} =>
              TrapAddress(i, v) = i.ea /\ Region[i.ea] = "io"
<1>1. ~Exhausted(i, v)
  <2>1. Exhausted(i, v) => DOMAIN Touches(i, v) = {}
    BY Touched
  <2> QED BY <2>1 DEF Trapped, Traps
<1>2. CASE i.op \in {"movs", "cmps"}
  <2>1. Touches(i, v) = <<Si(i, v), Di(i, v)>>
    BY <1>1, <1>2, Touched
  <2>2. TrapAddress(i, v) = IF Region[Si(i, v)] # "ram" THEN Si(i, v) ELSE Di(i, v)
    BY <2>1, TwoTraps DEF Trapped
  <2> QED BY <1>1, <1>2, <2>2 DEF Trapped
<1>3. CASE i.op = "stos"
  BY <1>1, <1>3, Touched, OneTrap DEF Trapped
<1>4. CASE i.op = "lods"
  BY <1>1, <1>4, Touched, OneTrap DEF Trapped
<1>5. CASE i.op = "pop"
  <2>1. Touches(i, v) = <<Sp(i, v), i.ea>>
    BY <1>1, <1>5, Touched
  <2>2. TrapAddress(i, v) = IF Region[Sp(i, v)] # "ram" THEN Sp(i, v) ELSE i.ea
    BY <2>1, TwoTraps DEF Trapped
  <2> QED BY <1>1, <1>5, <2>2 DEF Trapped
<1>6. CASE i.op \notin {"movs", "cmps", "stos", "lods", "pop"}
  BY <1>1, <1>6, Touched, OneTrap DEF Trapped
<1> QED BY <1>1, <1>2, <1>3, <1>4, <1>5, <1>6

-----------------------------------------------------------------------------
(* Arithmetic.                                                             *)

\* A flag of the cpu.
Flag(f) == f \in BOOLEAN

\* What the arithmetic instructions return.
LEMMA AluType ==
  ASSUME NEW op \in Alu2 \cup Alu1, NEW w \in 1 .. 4, NEW d \in Val(w), NEW s \in Val(w),
         NEW zf, NEW cf, Flag(zf), Flag(cf)
  PROVE  /\ Alu(op, d, s, zf, cf, w).val \in Val(w)
         /\ Alu(op, d, s, zf, cf, w).zf \in BOOLEAN
         /\ Alu(op, d, s, zf, cf, w).cf \in BOOLEAN
         /\ op = "cmp" => Alu(op, d, s, zf, cf, w).val = d
<1> USE DEF Flag
<1>1. 2^w \in {2, 4, 8, 16}
  BY Powers
<1> DEFINE m == 2^w
<1>2. d \in 0 .. (m - 1) /\ s \in 0 .. (m - 1)
  BY DEF Val
<1>3. /\ (d + s) % m \in 0 .. (m - 1) /\ ((d + m) - s) % m \in 0 .. (m - 1)
      /\ (d + 1) % m \in 0 .. (m - 1) /\ (m - d) % m \in 0 .. (m - 1)
      /\ (m - 1) - d \in 0 .. (m - 1)
  <2> HIDE DEF m
  <2> USE <1>2
  <2>1. CASE m = 2 BY <2>1
  <2>2. CASE m = 4 BY <2>2
  <2>3. CASE m = 8 BY <2>3
  <2>4. CASE m = 16 BY <2>4
  <2>5. m \in {2, 4, 8, 16}
    BY <1>1 DEF m
  <2> QED BY <2>1, <2>2, <2>3, <2>4, <2>5
<1>10. Val(w) = 0 .. (m - 1) /\ m \in Nat
  BY <1>1 DEF Val
<1> HIDE DEF m
<1>4. CASE op = "add"
  <2>1. Alu(op, d, s, zf, cf, w) = [val |-> (d + s) % m, zf |-> (d + s) % m = 0, cf |-> d + s >= m]
    BY <1>4 DEF m, Alu
  <2>2. Alu(op, d, s, zf, cf, w).val = (d + s) % m
    BY <1>2, <1>10, <2>1, SMT
  <2>3. Alu(op, d, s, zf, cf, w).zf \in BOOLEAN
    BY <1>2, <1>10, <2>1, SMT
  <2>4. Alu(op, d, s, zf, cf, w).cf \in BOOLEAN
    BY <1>2, <1>10, <2>1
  <2> QED BY <1>2, <1>3, <1>10, <1>4, <2>2, <2>3, <2>4
<1>5. CASE op = "sub"
  <2>1. Alu(op, d, s, zf, cf, w)
          = [val |-> ((d + m) - s) % m, zf |-> ((d + m) - s) % m = 0, cf |-> d < s]
    BY <1>5 DEF m, Alu
  <2>2. Alu(op, d, s, zf, cf, w).val = ((d + m) - s) % m
    BY <1>2, <1>10, <2>1, SMT
  <2>3. Alu(op, d, s, zf, cf, w).zf \in BOOLEAN
    BY <1>2, <1>10, <2>1, SMT
  <2>4. Alu(op, d, s, zf, cf, w).cf \in BOOLEAN
    BY <1>2, <1>10, <2>1
  <2> QED BY <1>2, <1>3, <1>10, <1>5, <2>2, <2>3, <2>4
<1>6. CASE op = "cmp"
  <2>1. Alu(op, d, s, zf, cf, w) = [val |-> d, zf |-> ((d + m) - s) % m = 0, cf |-> d < s]
    BY <1>6 DEF m, Alu
  <2>2. Alu(op, d, s, zf, cf, w).val = d
    BY <1>2, <1>10, <2>1, SMT
  <2>3. Alu(op, d, s, zf, cf, w).zf \in BOOLEAN
    BY <1>2, <1>10, <2>1, SMT
  <2>4. Alu(op, d, s, zf, cf, w).cf \in BOOLEAN
    BY <1>2, <1>10, <2>1
  <2> QED BY <1>2, <1>3, <1>10, <1>6, <2>2, <2>3, <2>4
<1>7. CASE op = "inc" BY <1>2, <1>3, <1>10, <1>7 DEF m, Alu
<1>8. CASE op = "neg" BY <1>2, <1>3, <1>10, <1>8 DEF m, Alu
<1>9. CASE op = "not" BY <1>2, <1>3, <1>10, <1>9 DEF m, Alu
<1> QED BY <1>4, <1>5, <1>6, <1>7, <1>8, <1>9 DEF Alu2, Alu1

\* Sign extension.
LEMMA SignExtended ==
  ASSUME NEW from \in 1 .. 4, NEW to \in 1 .. 4, from <= to, NEW s \in Val(from)
  PROVE  /\ SignExtend(s, from, to) = Signed(s, from, to)
         /\ SignExtend(s, from, to) \in Val(to)
<1> DEFINE f == 2^(from - 1)
           t == 2^to
<1>1. f \in {1, 2, 4, 8} /\ 2^from = 2 * f /\ t \in {2, 4, 8, 16} /\ 2 * f <= t
  <2>1. /\ from = 1 => f = 1 /\ 2^from = 2
        /\ from = 2 => f = 2 /\ 2^from = 4
        /\ from = 3 => f = 4 /\ 2^from = 8
        /\ from = 4 => f = 8 /\ 2^from = 16
        /\ from \in {1, 2, 3, 4}
    BY Powers
  <2>2. /\ to = 1 => t = 2
        /\ to = 2 => t = 4
        /\ to = 3 => t = 8
        /\ to = 4 => t = 16
        /\ to \in {1, 2, 3, 4}
    BY Powers
  <2> HIDE DEF f, t
  <2> QED BY <2>1, <2>2
<1>2. s \in 0 .. (2 * f - 1)
  BY <1>1 DEF Val
<1>3. SignExtend(s, from, to) = IF s >= f THEN (s + t) - 2 * f ELSE s
  BY <1>1 DEF SignExtend
<1>4. Signed(s, from, to) = s + (s \div f) * (t - 2 * f)
  BY <1>1 DEF Signed
<1>5. s \div f = IF s >= f THEN 1 ELSE 0
  <2> HIDE DEF f
  <2> USE <1>2
  <2>1. CASE f = 1 BY <2>1
  <2>2. CASE f = 2 BY <2>2
  <2>3. CASE f = 4 BY <2>3
  <2>4. CASE f = 8 BY <2>4
  <2> QED BY <1>1, <2>1, <2>2, <2>3, <2>4
<1>6. Val(to) = 0 .. (t - 1)
  BY DEF Val
<1> HIDE DEF f, t
<1> QED BY <1>1, <1>2, <1>3, <1>4, <1>5, <1>6

-----------------------------------------------------------------------------
(* The effect on a processor, operation by operation.                      *)

\* Cpu and memory when an iteration begins.
Begun(b) == b.cpu \in Cpu /\ b.ram \in [Word -> Word]

\* The other operand of an instruction on memory.
Other(i, g) == IF i.form = "mi" THEN i.imm ELSE Get(i, g)

\* An effect, field by field.
IsEffect(e, regs, zf, cf, reads, write) ==
    /\ e.regs = regs /\ (e.zf <=> zf) /\ (e.cf <=> cf) /\ e.reads = reads /\ e.write = write
    /\ e.zf \in BOOLEAN /\ e.cf \in BOOLEAN

\* The registers that an effect leaves, and what it writes.
IsWrite(write) ==
    write = <<>> \/ \E a \in Word, w \in 1 .. 4, v \in Word : write = <<a, w, v>>
EffectOK(e) ==
    /\ e.regs \in [Reg -> Word] /\ e.zf \in BOOLEAN /\ e.cf \in BOOLEAN /\ IsWrite(e.write)

\* A write of a value of the operand's width.
LEMMA OperandWrite ==
  ASSUME NEW i, Decoded(i), NEW z \in Val(i.w)
  PROVE  IsWrite(<<i.ea, i.w, z>>) /\ IsWrite(<<>>)
<1>1. i.ea \in Word /\ i.w \in 1 .. 4
  BY DEF Decoded
<1>2. z \in Word
  BY <1>1, Truncated DEF Word
<1> QED BY <1>1, <1>2 DEF IsWrite

\* The register operand: what the processor reads and writes.
LEMMA RegisterOperand ==
  ASSUME NEW i, Decoded(i), NEW g \in [Reg -> Word]
  PROVE  /\ Get(i, g) \in Val(i.w) /\ Other(i, g) \in Val(i.w)
         /\ \A z \in Val(i.w) : PutByteOrWord(i, g, z) \in [Reg -> Word]
         /\ \A z \in Val(i.w), r \in Reg : Put(g, r, i.w, z) \in [Reg -> Word]
<1> DEFINE p == IF i.w = 1 /\ ~i.rex /\ i.reg >= 4 THEN [reg |-> i.reg - 4, high |-> TRUE]
                ELSE [reg |-> i.reg, high |-> FALSE]
<1>1. /\ IsRegister(p)
      /\ i.w = 1 /\ ~i.rex /\ i.reg >= 4 => p.high /\ p.reg = i.reg - 4
      /\ ~(i.w = 1 /\ ~i.rex /\ i.reg >= 4) => ~p.high /\ p.reg = i.reg
  BY DEF IsRegister, Decoded, Reg
<1>2. /\ Get(i, g) \in Val(i.w)
      /\ \A z \in Val(i.w) : PutByteOrWord(i, g, z) \in [Reg -> Word]
  <2> HIDE DEF p
  <2> QED BY <1>1, OperandRegister
<1>3. i.imm \in Val(i.w)
  BY Powers DEF Decoded, Val, Word
<1>4. ASSUME NEW z \in Val(i.w), NEW r \in Reg PROVE Put(g, r, i.w, z) \in [Reg -> Word]
  <2> DEFINE q == [reg |-> r, high |-> FALSE]
  <2>1. IsRegister(q) /\ ~q.high /\ q.reg = r
    BY DEF IsRegister
  <2> HIDE DEF q
  <2> QED BY <2>1, WideRegister
<1> QED BY <1>2, <1>3, <1>4 DEF Other

\* The arithmetic of an instruction.
LEMMA AluOf ==
  ASSUME NEW i, Decoded(i), NEW u \in Cpu, NEW op \in Alu2 \cup Alu1,
         NEW d \in Val(i.w), NEW s \in Val(i.w)
  PROVE  LET r == Alu(op, d, s, u.zf, u.cf, i.w)
         IN  /\ r.val \in Val(i.w) /\ Flag(r.zf) /\ Flag(r.cf)
             /\ op = "cmp" => r.val = d
<1>1. i.w \in 1 .. 4 /\ Flag(u.zf) /\ Flag(u.cf)
  BY DEF Decoded, Cpu, Flag
<1> QED BY <1>1, AluType DEF Flag

\* An effect that is written down as a record.
LEMMA EffectRecord ==
  ASSUME NEW e, NEW regs \in [Reg -> Word], NEW zf, NEW cf, NEW reads, NEW write,
         e = [regs |-> regs, zf |-> zf, cf |-> cf, reads |-> reads, write |-> write],
         Flag(zf), Flag(cf), IsWrite(write)
  PROVE  IsEffect(e, regs, zf, cf, reads, write) /\ EffectOK(e)
BY DEF IsEffect, EffectOK, Flag

\* What is used of the cpu an iteration begins with.
LEMMA BegunCpu ==
  ASSUME NEW b, Begun(b)
  PROVE  b.cpu \in Cpu /\ b.cpu.regs \in [Reg -> Word] /\ Flag(b.cpu.zf) /\ Flag(b.cpu.cf)
BY DEF Begun, Cpu, Flag

\* The value read, as an operand.
LEMMA OperandRead ==
  ASSUME NEW i, Decoded(i), NEW v \in Word
  PROVE  /\ i.w \in 1 .. 4 /\ SrcWidth(i) \in 1 .. 4
         /\ v % 2^i.w \in Val(i.w) /\ v % 2^SrcWidth(i) \in Val(i.w)
         /\ v % 2^SrcWidth(i) \in Val(SrcWidth(i))
<1>1. i.w \in 1 .. 4 /\ SrcWidth(i) \in 1 .. 4 /\ SrcWidth(i) <= i.w
  BY SourceWidth DEF Decoded
<1>2. v % 2^i.w \in Val(i.w) /\ v % 2^SrcWidth(i) \in Val(SrcWidth(i))
  BY <1>1, Truncated
<1>3. Val(SrcWidth(i)) \subseteq Val(i.w)
  <2> DEFINE n == SrcWidth(i)
  <2>1. n \in 1 .. 4 /\ n <= i.w /\ i.w \in 1 .. 4
    BY <1>1
  <2> HIDE DEF n
  <2>2. /\ n = 1 => 2^n = 2
        /\ n = 2 => 2^n = 4
        /\ n = 3 => 2^n = 8
        /\ n = 4 => 2^n = 16
    BY <2>1, Powers
  <2>3. /\ i.w = 1 => 2^i.w = 2
        /\ i.w = 2 => 2^i.w = 4
        /\ i.w = 3 => 2^i.w = 8
        /\ i.w = 4 => 2^i.w = 16
    BY <2>1, Powers
  <2>4. 2^n <= 2^i.w /\ 2^n \in Nat /\ 2^i.w \in Nat
    BY <2>1, <2>2, <2>3
  <2>5. Val(n) \subseteq Val(i.w)
    BY <2>4 DEF Val
  <2> QED BY <2>5 DEF n
<1> QED BY <1>1, <1>2, <1>3

\* add, sub and cmp of a register with memory.
LEMMA EffectAluReg ==
  ASSUME NEW i, Decoded(i), i.op \in Alu2, i.form = "rm", NEW b, Begun(b), NEW v \in Word,
         NEW lazy \in BOOLEAN
  PROVE  LET g == b.cpu.regs
             r == Alu(i.op, Get(i, g), v % 2^i.w, b.cpu.zf, b.cpu.cf, i.w)
         IN  /\ IsEffect(Effect(i, b, v, lazy),
                         IF i.op = "cmp" \/ (lazy /\ r.val = Get(i, g)) THEN g
                         ELSE PutByteOrWord(i, g, r.val),
                         r.zf, r.cf, <<i.ea, SrcWidth(i)>>, <<>>)
             /\ r.val \in Val(i.w) /\ (i.op = "cmp" => r.val = Get(i, g))
             /\ Flag(r.zf) /\ Flag(r.cf)
             /\ EffectOK(Effect(i, b, v, lazy))
<1> DEFINE g == b.cpu.regs
           r == Alu(i.op, Get(i, g), v % 2^i.w, b.cpu.zf, b.cpu.cf, i.w)
           regs == IF i.op = "cmp" \/ (lazy /\ r.val = Get(i, g)) THEN g
                   ELSE PutByteOrWord(i, g, r.val)
<1>1. Effect(i, b, v, lazy)
        = [regs |-> regs, zf |-> r.zf, cf |-> r.cf, reads |-> <<i.ea, SrcWidth(i)>>,
           write |-> <<>>]
  BY DEF Effect, Alu2, Alu1
<1>2. Get(i, g) \in Val(i.w) /\ v % 2^i.w \in Val(i.w) /\ i.op \in Alu2 \cup Alu1
  BY BegunCpu, RegisterOperand, OperandRead
<1>3. /\ r.val \in Val(i.w) /\ (i.op = "cmp" => r.val = Get(i, g))
      /\ Flag(r.zf) /\ Flag(r.cf)
  BY <1>2, BegunCpu, AluOf, ZenonT(40)
<1>4. regs \in [Reg -> Word]
  BY <1>3, BegunCpu, RegisterOperand
<1>5. IsEffect(Effect(i, b, v, lazy), regs, r.zf, r.cf, <<i.ea, SrcWidth(i)>>, <<>>)
      /\ EffectOK(Effect(i, b, v, lazy))
  <2> HIDE DEF g, r, regs
  <2>1. IsWrite(<<>>)
    BY DEF IsWrite
  <2> QED BY <1>1, <1>3, <1>4, <2>1, EffectRecord
<1> QED BY <1>3, <1>5, SMTT(30)

\* add, sub and cmp of memory with a register or an immediate.
LEMMA EffectAluMem ==
  ASSUME NEW i, Decoded(i), i.op \in Alu2, i.form # "rm", NEW b, Begun(b), NEW v \in Word,
         NEW lazy \in BOOLEAN
  PROVE  LET g == b.cpu.regs
             r == Alu(i.op, v % 2^i.w, Other(i, g), b.cpu.zf, b.cpu.cf, i.w)
         IN  /\ IsEffect(Effect(i, b, v, lazy), g, r.zf, r.cf, <<i.ea, SrcWidth(i)>>,
                         IF i.op = "cmp" \/ (lazy /\ r.val = v % 2^i.w) THEN <<>>
                         ELSE <<i.ea, i.w, r.val>>)
             /\ r.val \in Val(i.w) /\ (i.op = "cmp" => r.val = v % 2^i.w)
             /\ Flag(r.zf) /\ Flag(r.cf)
             /\ EffectOK(Effect(i, b, v, lazy))
<1> DEFINE g == b.cpu.regs
           r == Alu(i.op, v % 2^i.w, Other(i, g), b.cpu.zf, b.cpu.cf, i.w)
           write == IF i.op = "cmp" \/ (lazy /\ r.val = v % 2^i.w) THEN <<>>
                    ELSE <<i.ea, i.w, r.val>>
<1>1. Effect(i, b, v, lazy)
        = [regs |-> g, zf |-> r.zf, cf |-> r.cf, reads |-> <<i.ea, SrcWidth(i)>>,
           write |-> write]
  BY DEF Effect, Other, Alu2, Alu1
<1>2. Other(i, g) \in Val(i.w) /\ v % 2^i.w \in Val(i.w) /\ i.op \in Alu2 \cup Alu1
  BY BegunCpu, RegisterOperand, OperandRead
<1>3. /\ r.val \in Val(i.w) /\ (i.op = "cmp" => r.val = v % 2^i.w)
      /\ Flag(r.zf) /\ Flag(r.cf)
  BY <1>2, BegunCpu, AluOf
<1>4. IsWrite(write)
  BY <1>3, OperandWrite
<1>5. IsEffect(Effect(i, b, v, lazy), g, r.zf, r.cf, <<i.ea, SrcWidth(i)>>, write)
      /\ EffectOK(Effect(i, b, v, lazy))
  <2>1. g \in [Reg -> Word]
    BY BegunCpu
  <2> HIDE DEF g, r, write
  <2> QED BY <1>1, <1>3, <1>4, <2>1, EffectRecord
<1> QED BY <1>3, <1>5

\* inc, neg and not.
LEMMA EffectAlu1 ==
  ASSUME NEW i, Decoded(i), i.op \in Alu1, NEW b, Begun(b), NEW v \in Word,
         NEW lazy \in BOOLEAN
  PROVE  LET g == b.cpu.regs
             r == Alu(i.op, v % 2^i.w, 0, b.cpu.zf, b.cpu.cf, i.w)
         IN  /\ IsEffect(Effect(i, b, v, lazy), g, r.zf, r.cf, <<i.ea, SrcWidth(i)>>,
                         IF lazy /\ r.val = v % 2^i.w THEN <<>> ELSE <<i.ea, i.w, r.val>>)
             /\ r.val \in Val(i.w) /\ Flag(r.zf) /\ Flag(r.cf)
             /\ EffectOK(Effect(i, b, v, lazy))
<1> DEFINE g == b.cpu.regs
           r == Alu(i.op, v % 2^i.w, 0, b.cpu.zf, b.cpu.cf, i.w)
           write == IF lazy /\ r.val = v % 2^i.w THEN <<>> ELSE <<i.ea, i.w, r.val>>
<1>1. Effect(i, b, v, lazy)
        = [regs |-> g, zf |-> r.zf, cf |-> r.cf, reads |-> <<i.ea, SrcWidth(i)>>,
           write |-> write]
  BY DEF Effect, Alu2, Alu1
<1>2. 0 \in Val(i.w) /\ v % 2^i.w \in Val(i.w) /\ i.op \in Alu2 \cup Alu1
  BY OperandRead, Powers DEF Val
<1>3. r.val \in Val(i.w) /\ Flag(r.zf) /\ Flag(r.cf)
  BY <1>2, BegunCpu, AluOf
<1>4. IsWrite(write)
  BY <1>3, OperandWrite
<1>5. IsEffect(Effect(i, b, v, lazy), g, r.zf, r.cf, <<i.ea, SrcWidth(i)>>, write)
      /\ EffectOK(Effect(i, b, v, lazy))
  <2>1. g \in [Reg -> Word]
    BY BegunCpu
  <2> HIDE DEF g, r, write
  <2> QED BY <1>1, <1>3, <1>4, <2>1, EffectRecord
<1> QED BY <1>3, <1>5, SMTT(30)

\* mov to a register.
LEMMA EffectMovReg ==
  ASSUME NEW i, Decoded(i), i.op = "mov", i.form = "rm", NEW b, Begun(b), NEW v \in Word,
         NEW lazy \in BOOLEAN
  PROVE  /\ IsEffect(Effect(i, b, v, lazy), PutByteOrWord(i, b.cpu.regs, v % 2^i.w),
                     b.cpu.zf, b.cpu.cf, <<i.ea, SrcWidth(i)>>, <<>>)
         /\ EffectOK(Effect(i, b, v, lazy))
<1> DEFINE regs == PutByteOrWord(i, b.cpu.regs, v % 2^i.w)
<1>1. Effect(i, b, v, lazy)
        = [regs |-> regs, zf |-> b.cpu.zf, cf |-> b.cpu.cf, reads |-> <<i.ea, SrcWidth(i)>>,
           write |-> <<>>]
  BY DEF Effect, Alu2, Alu1
<1>2. regs \in [Reg -> Word] /\ IsWrite(<<>>)
  BY BegunCpu, RegisterOperand, OperandRead DEF IsWrite
<1> HIDE DEF regs
<1>3. IsEffect(Effect(i, b, v, lazy), regs, b.cpu.zf, b.cpu.cf, <<i.ea, SrcWidth(i)>>, <<>>)
      /\ EffectOK(Effect(i, b, v, lazy))
  BY <1>1, <1>2, BegunCpu, EffectRecord
<1> QED BY <1>3 DEF regs

\* mov to memory.
LEMMA EffectMovMem ==
  ASSUME NEW i, Decoded(i), i.op = "mov", i.form # "rm", NEW b, Begun(b), NEW v \in Word,
         NEW lazy \in BOOLEAN
  PROVE  /\ IsEffect(Effect(i, b, v, lazy), b.cpu.regs, b.cpu.zf, b.cpu.cf, <<>>,
                     <<i.ea, i.w, Other(i, b.cpu.regs)>>)
         /\ EffectOK(Effect(i, b, v, lazy))
<1> DEFINE z == Other(i, b.cpu.regs)
<1>1. Effect(i, b, v, lazy)
        = [regs |-> b.cpu.regs, zf |-> b.cpu.zf, cf |-> b.cpu.cf, reads |-> <<>>,
           write |-> <<i.ea, i.w, z>>]
  BY DEF Effect, Other, Alu2, Alu1
<1>2. IsWrite(<<i.ea, i.w, z>>)
  BY BegunCpu, RegisterOperand, OperandWrite
<1> HIDE DEF z
<1>3. IsEffect(Effect(i, b, v, lazy), b.cpu.regs, b.cpu.zf, b.cpu.cf, <<>>, <<i.ea, i.w, z>>)
      /\ EffectOK(Effect(i, b, v, lazy))
  BY <1>1, <1>2, BegunCpu, EffectRecord
<1> QED BY <1>3 DEF z

\* movzx.
LEMMA EffectMovzx ==
  ASSUME NEW i, Decoded(i), i.op \in {"movzx8", "movzx16"}, NEW b, Begun(b), NEW v \in Word,
         NEW lazy \in BOOLEAN
  PROVE  /\ IsEffect(Effect(i, b, v, lazy), Put(b.cpu.regs, i.reg, i.w, v % 2^SrcWidth(i)),
                     b.cpu.zf, b.cpu.cf, <<i.ea, SrcWidth(i)>>, <<>>)
         /\ EffectOK(Effect(i, b, v, lazy))
<1> DEFINE regs == Put(b.cpu.regs, i.reg, i.w, v % 2^SrcWidth(i))
<1>1. Effect(i, b, v, lazy)
        = [regs |-> regs, zf |-> b.cpu.zf, cf |-> b.cpu.cf, reads |-> <<i.ea, SrcWidth(i)>>,
           write |-> <<>>]
  BY DEF Effect, Alu2, Alu1
<1>2. regs \in [Reg -> Word] /\ IsWrite(<<>>)
  BY BegunCpu, RegisterOperand, OperandRead DEF IsWrite, Decoded
<1> HIDE DEF regs
<1>3. IsEffect(Effect(i, b, v, lazy), regs, b.cpu.zf, b.cpu.cf, <<i.ea, SrcWidth(i)>>, <<>>)
      /\ EffectOK(Effect(i, b, v, lazy))
  BY <1>1, <1>2, BegunCpu, EffectRecord
<1> QED BY <1>3, SMTT(30) DEF regs

\* movsx and movsxd.
LEMMA EffectMovsx ==
  ASSUME NEW i, Decoded(i), i.op \in {"movsx8", "movsx16", "movsxd"}, NEW b, Begun(b),
         NEW v \in Word, NEW lazy \in BOOLEAN
  PROVE  LET z == SignExtend(v % 2^SrcWidth(i), SrcWidth(i), i.w)
         IN  /\ IsEffect(Effect(i, b, v, lazy), Put(b.cpu.regs, i.reg, i.w, z),
                         b.cpu.zf, b.cpu.cf, <<i.ea, SrcWidth(i)>>, <<>>)
             /\ z \in Val(i.w)
             /\ EffectOK(Effect(i, b, v, lazy))
<1> DEFINE z == SignExtend(v % 2^SrcWidth(i), SrcWidth(i), i.w)
           y == Signed(v % 2^SrcWidth(i), SrcWidth(i), i.w)
           regs == Put(b.cpu.regs, i.reg, i.w, y)
<1>1. Effect(i, b, v, lazy)
        = [regs |-> regs, zf |-> b.cpu.zf, cf |-> b.cpu.cf, reads |-> <<i.ea, SrcWidth(i)>>,
           write |-> <<>>]
  BY DEF Effect, Alu2, Alu1
<1>2. z = y /\ z \in Val(i.w)
  BY SignExtended, OperandRead DEF Decoded
<1> HIDE DEF z, y
<1>3. regs \in [Reg -> Word] /\ IsWrite(<<>>)
  BY <1>2, BegunCpu, RegisterOperand DEF IsWrite, Decoded
<1>4. IsEffect(Effect(i, b, v, lazy), regs, b.cpu.zf, b.cpu.cf, <<i.ea, SrcWidth(i)>>, <<>>)
      /\ EffectOK(Effect(i, b, v, lazy))
  <2> HIDE DEF regs
  <2> QED BY <1>1, <1>3, BegunCpu, EffectRecord
<1> QED BY <1>2, <1>4 DEF z

\* xchg.
LEMMA EffectXchg ==
  ASSUME NEW i, Decoded(i), i.op = "xchg", NEW b, Begun(b), NEW v \in Word,
         NEW lazy \in BOOLEAN
  PROVE  LET z == Other(i, b.cpu.regs)
         IN  /\ IsEffect(Effect(i, b, v, lazy), PutByteOrWord(i, b.cpu.regs, v % 2^i.w),
                         b.cpu.zf, b.cpu.cf, <<i.ea, SrcWidth(i)>>,
                         IF lazy /\ z = v % 2^i.w THEN <<>> ELSE <<i.ea, i.w, z>>)
             /\ EffectOK(Effect(i, b, v, lazy))
<1> DEFINE z == Other(i, b.cpu.regs)
           regs == PutByteOrWord(i, b.cpu.regs, v % 2^i.w)
           write == IF lazy /\ z = v % 2^i.w THEN <<>> ELSE <<i.ea, i.w, z>>
<1>1. Effect(i, b, v, lazy)
        = [regs |-> regs, zf |-> b.cpu.zf, cf |-> b.cpu.cf, reads |-> <<i.ea, SrcWidth(i)>>,
           write |-> write]
  BY DEF Effect, Other, Alu2, Alu1
<1>2. regs \in [Reg -> Word] /\ IsWrite(write)
  BY BegunCpu, RegisterOperand, OperandRead, OperandWrite
<1>3. IsEffect(Effect(i, b, v, lazy), regs, b.cpu.zf, b.cpu.cf, <<i.ea, SrcWidth(i)>>, write)
      /\ EffectOK(Effect(i, b, v, lazy))
  <2> HIDE DEF z, regs, write
  <2> QED BY <1>1, <1>2, BegunCpu, EffectRecord
<1> QED BY <1>3

\* cmov: a register that is not moved to keeps its value, or is written with it.
LEMMA EffectCmov ==
  ASSUME NEW i, Decoded(i), i.op = "cmovz", NEW b, Begun(b), NEW v \in Word,
         NEW lazy \in BOOLEAN
  PROVE  LET g == b.cpu.regs
         IN  /\ IsEffect(Effect(i, b, v, lazy),
                         IF b.cpu.zf THEN Put(g, i.reg, i.w, v % 2^i.w)
                         ELSE IF lazy THEN g ELSE Put(g, i.reg, i.w, g[i.reg] % 2^i.w),
                         b.cpu.zf, b.cpu.cf, <<i.ea, SrcWidth(i)>>, <<>>)
             /\ EffectOK(Effect(i, b, v, lazy))
<1> DEFINE g == b.cpu.regs
           regs == IF b.cpu.zf THEN Put(g, i.reg, i.w, v % 2^i.w)
                   ELSE IF lazy THEN g ELSE Put(g, i.reg, i.w, g[i.reg] % 2^i.w)
<1>1. Effect(i, b, v, lazy)
        = [regs |-> regs, zf |-> b.cpu.zf, cf |-> b.cpu.cf, reads |-> <<i.ea, SrcWidth(i)>>,
           write |-> <<>>]
  BY DEF Effect, Alu2, Alu1
<1>2. regs \in [Reg -> Word] /\ IsWrite(<<>>)
  <2>1. i.reg \in Reg /\ g \in [Reg -> Word] /\ g[i.reg] \in Word
    BY BegunCpu DEF Decoded
  <2>2. g[i.reg] % 2^i.w \in Val(i.w) /\ v % 2^i.w \in Val(i.w)
    BY <2>1, OperandRead
  <2> QED BY <2>1, <2>2, RegisterOperand DEF IsWrite
<1>3. IsEffect(Effect(i, b, v, lazy), regs, b.cpu.zf, b.cpu.cf, <<i.ea, SrcWidth(i)>>, <<>>)
      /\ EffectOK(Effect(i, b, v, lazy))
  <2> HIDE DEF g, regs
  <2> QED BY <1>1, <1>2, BegunCpu, EffectRecord
<1> QED BY <1>3

\* cmpxchg: memory is written if it equals RAX, and RAX if not.
LEMMA EffectCmpxchg ==
  ASSUME NEW i, Decoded(i), i.op = "cmpxchg", NEW b, Begun(b), NEW v \in Word,
         NEW lazy \in BOOLEAN
  PROVE  LET g == b.cpu.regs
             x == v % 2^i.w
             swap == x = g[RAX] % 2^i.w
         IN  /\ IsEffect(Effect(i, b, v, lazy), IF swap THEN g ELSE Put(g, RAX, i.w, x),
                         swap, g[RAX] % 2^i.w < x, <<i.ea, SrcWidth(i)>>,
                         IF swap THEN <<i.ea, i.w, Other(i, g)>> ELSE <<>>)
             /\ EffectOK(Effect(i, b, v, lazy))
<1> DEFINE g == b.cpu.regs
           x == v % 2^i.w
           swap == x = g[RAX] % 2^i.w
           less == g[RAX] % 2^i.w < x
           regs == IF swap THEN g ELSE Put(g, RAX, i.w, x)
           write == IF swap THEN <<i.ea, i.w, Other(i, g)>> ELSE <<>>
<1>1. Effect(i, b, v, lazy)
        = [regs |-> regs, zf |-> swap, cf |-> less, reads |-> <<i.ea, SrcWidth(i)>>,
           write |-> write]
  BY DEF Effect, Other, Alu2, Alu1
<1>2. RAX \in Reg /\ g \in [Reg -> Word] /\ x \in Val(i.w) /\ g[RAX] \in Word
  BY BegunCpu, OperandRead DEF RAX, Reg
<1>3. regs \in [Reg -> Word] /\ IsWrite(write)
  BY <1>2, RegisterOperand, OperandWrite
<1>4. Flag(swap) /\ Flag(less)
  BY <1>2 DEF Flag
<1>5. IsEffect(Effect(i, b, v, lazy), regs, swap, less, <<i.ea, SrcWidth(i)>>, write)
      /\ EffectOK(Effect(i, b, v, lazy))
  <2> HIDE DEF g, x, swap, less, regs, write
  <2> QED BY <1>1, <1>3, <1>4, EffectRecord
<1> QED BY <1>5

\* The two halves of a word.
LEMMA Halves ==
  ASSUME NEW v \in Word, NEW c \in Word, NEW d \in Word
  PROVE  /\ v % 8 \in Word /\ v \div 8 \in Word
         /\ 8 * (c % 2) + (d % 8) \in Word
         /\ (8 * c + (d % 8)) % 16 = 8 * (c % 2) + (d % 8)
         /\ v % 2^4 = v /\ 8 * (c % 2) + (d % 8) = (8 * (c % 2) + (d % 8)) % 2^4
BY DEF Word

\* cmpxchg8b.
LEMMA EffectCmpxchg8b ==
  ASSUME NEW i, Decoded(i), i.op = "cmpxchg8b", NEW b, Begun(b), NEW v \in Word,
         NEW lazy \in BOOLEAN
  PROVE  LET g == b.cpu.regs
             swap == v % 8 = g[RAX] % 8 /\ v \div 8 = g[RDX] % 8
         IN  /\ IsEffect(Effect(i, b, v, lazy),
                         IF swap THEN g ELSE [g EXCEPT ![RAX] = v % 8, ![RDX] = v \div 8],
                         swap, b.cpu.cf, <<i.ea, 4>>,
                         IF swap THEN <<i.ea, 4, 8 * (g[RCX] % 2) + (g[RBX] % 8)>> ELSE <<>>)
             /\ EffectOK(Effect(i, b, v, lazy))
<1> DEFINE g == b.cpu.regs
           swap == v % 8 = g[RAX] % 8 /\ v \div 8 = g[RDX] % 8
           new == 8 * (g[RCX] % 2) + (g[RBX] % 8)
           regs == IF swap THEN g ELSE [g EXCEPT ![RAX] = v % 8, ![RDX] = v \div 8]
           write == IF swap THEN <<i.ea, 4, new>> ELSE <<>>
<1>1. Effect(i, b, v, lazy)
        = [regs |-> regs, zf |-> swap, cf |-> b.cpu.cf, reads |-> <<i.ea, 4>>,
           write |-> write]
  BY DEF Effect, Alu2, Alu1
<1>2. g \in [Reg -> Word] /\ {RAX, RCX, RDX, RBX} \subseteq Reg
  BY BegunCpu DEF RAX, RCX, RDX, RBX, Reg
<1>3. g[RCX] \in Word /\ g[RBX] \in Word
  BY <1>2
<1>4. v % 8 \in Word /\ v \div 8 \in Word /\ new \in Word
  BY <1>3, Halves
<1>5. regs \in [Reg -> Word]
  BY <1>2, <1>4
<1>6. IsWrite(write)
  <2> HIDE DEF new
  <2> QED BY <1>4 DEF IsWrite, Decoded
<1>7. Flag(swap)
  BY DEF Flag
<1>8. IsEffect(Effect(i, b, v, lazy), regs, swap, b.cpu.cf, <<i.ea, 4>>, write)
      /\ EffectOK(Effect(i, b, v, lazy))
  <2> HIDE DEF g, swap, new, regs, write
  <2> QED BY <1>1, <1>5, <1>6, <1>7, BegunCpu, EffectRecord
<1> QED BY <1>8

\* The stack pointer after a pop of width n.
Popped(i, n, x) == (x - (x % 2^i.a)) + ((x + Bytes(n)) % 2^i.a)

\* It moves within its width.
LEMMA PopMoves ==
  ASSUME NEW i, Decoded(i), NEW n \in 1 .. 4, NEW x \in Word
  PROVE  /\ (x - (x % 2^i.a)) + (((x % 2^i.a) + Bytes(n)) % 2^i.a) = Popped(i, n, x)
         /\ Popped(i, n, x) \in Word
<1> DEFINE s == 2^i.a
           m == Bytes(n)
<1>2. m \in {1, 2, 4, 8}
  BY Powers DEF Bytes
<1>3. s \in {4, 8, 16}
  <2>1. i.a \in 1 .. 4 /\ i.a \in {2, 3, 4}
    BY DEF Decoded
  <2> QED BY <2>1, Powers
<1>4. /\ (x - (x % s)) + (((x % s) + m) % s) = (x - (x % s)) + ((x + m) % s)
      /\ (x - (x % s)) + ((x + m) % s) \in Word
  <2> HIDE DEF s, m
  <2> USE <1>2 DEF Word
  <2>1. CASE s = 4 BY <2>1
  <2>2. CASE s = 8 BY <2>2
  <2>3. CASE s = 16 BY <2>3
  <2> QED BY <1>3, <2>1, <2>2, <2>3
<1> QED BY <1>4 DEF Popped

\* A pop of width n to memory.
PopOf(i, n, b) ==
    [regs |-> [b.cpu.regs EXCEPT ![RSP] = Popped(i, n, b.cpu.regs[RSP])],
     zf |-> b.cpu.zf, cf |-> b.cpu.cf, reads |-> <<>>,
     write |-> <<i.ea, n, b.ram[Sp(i, b.cpu)] % 2^n>>]

\* Its parts.
LEMMA PopParts ==
  ASSUME NEW i, Decoded(i), i.op = "pop", NEW n \in 1 .. 4, NEW b, Begun(b)
  PROVE  /\ IsEffect(PopOf(i, n, b),
                     [b.cpu.regs EXCEPT ![RSP] = Popped(i, n, b.cpu.regs[RSP])],
                     b.cpu.zf, b.cpu.cf, <<>>, <<i.ea, n, b.ram[Sp(i, b.cpu)] % 2^n>>)
         /\ EffectOK(PopOf(i, n, b))
<1> DEFINE g == b.cpu.regs
           sp == Sp(i, b.cpu)
           z == b.ram[sp] % 2^n
           write == <<i.ea, n, z>>
           regs == [g EXCEPT ![RSP] = Popped(i, n, g[RSP])]
<1>1. RSP \in Reg /\ g \in [Reg -> Word] /\ g[RSP] \in Word
  BY BegunCpu DEF RSP, Reg
<1>2. sp \in Word
  BY <1>1, RegisterAddress, Pointers
<1>3. regs \in [Reg -> Word]
  BY <1>1, PopMoves
<1>4. IsWrite(write)
  <2>1. b.ram[sp] \in Word /\ i.ea \in Word
    BY <1>2 DEF Begun, Decoded
  <2>2. z \in Word
    BY <2>1, Truncated
  <2> HIDE DEF z
  <2> QED BY <2>1, <2>2 DEF IsWrite
<1>5. PopOf(i, n, b)
        = [regs |-> regs, zf |-> b.cpu.zf, cf |-> b.cpu.cf, reads |-> <<>>, write |-> write]
  BY DEF PopOf
<1>6. IsEffect(PopOf(i, n, b), regs, b.cpu.zf, b.cpu.cf, <<>>, write) /\ EffectOK(PopOf(i, n, b))
  <2> HIDE DEF g, regs, write
  <2> QED BY <1>3, <1>4, <1>5, BegunCpu, EffectRecord
<1> QED BY <1>6

\* pop to memory, of the processor's width.
LEMMA EffectPop ==
  ASSUME NEW i, Decoded(i), i.op = "pop", NEW b, Begun(b), NEW v \in Word,
         NEW lazy \in BOOLEAN
  PROVE  /\ Effect(i, b, v, lazy) = PopOf(i, PopWidth(i), b)
         /\ PopWidth(i) \in 1 .. 4
         /\ EffectOK(Effect(i, b, v, lazy))
<1> DEFINE g == b.cpu.regs
           x == g[RSP]
           sp == Sp(i, b.cpu)
           n == PopWidth(i)
           write == <<i.ea, n, b.ram[sp] % 2^n>>
<1>1. RSP \in Reg /\ g \in [Reg -> Word] /\ x \in Word
  BY BegunCpu DEF RSP, Reg
<1>2. StackBits(i) = i.a /\ n \in 1 .. 4
  BY DEF StackBits, PopWidth, Decoded
<1>3. sp = x % 2^i.a
  BY <1>2 DEF Sp
<1>4. Effect(i, b, v, lazy)
        = [regs |-> [g EXCEPT ![RSP] = (x - (x % 2^i.a)) + (((x % 2^i.a) + Bytes(n)) % 2^i.a)],
           zf |-> b.cpu.zf, cf |-> b.cpu.cf, reads |-> <<>>, write |-> write]
  <2> HIDE DEF sp, n
  <2>1. b.ram[x % 2^i.a] = b.ram[sp]
    BY <1>3
  <2> QED BY <1>2, <2>1 DEF Effect, Alu2, Alu1, n
<1>5. Effect(i, b, v, lazy)
        = [regs |-> [g EXCEPT ![RSP] = Popped(i, n, x)],
           zf |-> b.cpu.zf, cf |-> b.cpu.cf, reads |-> <<>>, write |-> write]
  <2> HIDE DEF write, n
  <2> QED BY <1>1, <1>2, <1>4, PopMoves
<1>6. Effect(i, b, v, lazy) = PopOf(i, n, b)
  BY <1>5 DEF PopOf
<1> QED BY <1>2, <1>6, PopParts

\* What the emulator does: a pop takes 8 bytes in 64-bit mode.
Done(i, b, v, lazy) == IF Mispopped(i) THEN PopOf(i, Widest(i), b) ELSE Effect(i, b, v, lazy)

\* It is what the processor does, but for the pop of two bytes.
LEMMA DoneIs ==
  ASSUME NEW i, NEW b, NEW v, NEW lazy
  PROVE  /\ ~Mispopped(i) => Done(i, b, v, lazy) = Effect(i, b, v, lazy)
         /\ i.op # "pop" => ~Mispopped(i)
BY DEF Done, Mispopped

\* pop to memory, of the emulator's width.
LEMMA DonePop ==
  ASSUME NEW i, Decoded(i), i.op = "pop", NEW b, Begun(b), NEW v \in Word,
         NEW lazy \in BOOLEAN
  PROVE  /\ Widest(i) \in 1 .. 4
         /\ Done(i, b, v, lazy) = PopOf(i, Widest(i), b)
         /\ EffectOK(Done(i, b, v, lazy))
<1>1. Widest(i) \in 1 .. 4
  BY DEF Widest, Decoded
<1>2. ~Mispopped(i) => PopWidth(i) = Widest(i)
  BY DEF Mispopped, PopWidth, Widest
<1>3. Done(i, b, v, lazy) = PopOf(i, Widest(i), b)
  BY <1>2, EffectPop DEF Done
<1> QED BY <1>1, <1>3, PopParts

\* The registers of a repeated instruction, counted down.
Counted(i, g) == IF i.rep THEN [g EXCEPT ![RCX] = @ - 1] ELSE g

\* The count does not go below zero.
LEMMA CountedType ==
  ASSUME NEW i, NEW u \in Cpu, ~Exhausted(i, u)
  PROVE  Counted(i, u.regs) \in [Reg -> Word]
<1>1. u.regs \in [Reg -> Word] /\ RCX \in Reg
  BY DEF Cpu, RCX, Reg
<1>2. i.rep => u.regs[RCX] - 1 \in Word
  BY <1>1 DEF Exhausted, Word
<1> QED BY <1>1, <1>2 DEF Counted

\* The numbers of the registers.
LEMMA Registers == {RAX, RCX, RDX, RBX, RSP, RBP, RSI, RDI} \subseteq Reg
BY DEF RAX, RCX, RDX, RBX, RSP, RBP, RSI, RDI, Reg

\* movs.
LEMMA EffectMovs ==
  ASSUME NEW i, Decoded(i), i.op = "movs", NEW b, Begun(b), ~Exhausted(i, b.cpu),
         NEW v \in Word, NEW lazy \in BOOLEAN
  PROVE  /\ IsEffect(Effect(i, b, v, lazy),
                     Step(i, Step(i, Counted(i, b.cpu.regs), RSI), RDI), b.cpu.zf, b.cpu.cf,
                     <<Si(i, b.cpu), i.w>>, <<Di(i, b.cpu), i.w, v % 2^i.w>>)
         /\ EffectOK(Effect(i, b, v, lazy))
<1> DEFINE count == Counted(i, b.cpu.regs)
           regs == Step(i, Step(i, count, RSI), RDI)
           si == Si(i, b.cpu)
           di == Di(i, b.cpu)
           x == v % 2^i.w
<1>1. Effect(i, b, v, lazy)
        = [regs |-> regs, zf |-> b.cpu.zf, cf |-> b.cpu.cf, reads |-> <<si, i.w>>,
           write |-> <<di, i.w, x>>]
  BY DEF Effect, Alu2, Alu1, Counted, Si, Di, register_address
<1>2. regs \in [Reg -> Word]
  BY BegunCpu, CountedType, PointerMoves, Registers
<1>3. IsWrite(<<di, i.w, x>>)
  <2>1. di \in Word /\ i.w \in 1 .. 4
    BY BegunCpu, RegisterAddress, Registers DEF Di, Decoded
  <2>2. x \in Word
    BY <2>1, Truncated
  <2> HIDE DEF di, x
  <2> QED BY <2>1, <2>2 DEF IsWrite
<1>4. /\ IsEffect(Effect(i, b, v, lazy), regs, b.cpu.zf, b.cpu.cf, <<si, i.w>>, <<di, i.w, x>>)
      /\ EffectOK(Effect(i, b, v, lazy))
  <2> HIDE DEF regs, si, di, x
  <2> QED BY <1>1, <1>2, <1>3, BegunCpu, EffectRecord
<1> QED BY <1>4

\* stos.
LEMMA EffectStos ==
  ASSUME NEW i, Decoded(i), i.op = "stos", NEW b, Begun(b), ~Exhausted(i, b.cpu),
         NEW v \in Word, NEW lazy \in BOOLEAN
  PROVE  /\ IsEffect(Effect(i, b, v, lazy), Step(i, Counted(i, b.cpu.regs), RDI), b.cpu.zf,
                     b.cpu.cf, <<>>, <<Di(i, b.cpu), i.w, b.cpu.regs[RAX] % 2^i.w>>)
         /\ EffectOK(Effect(i, b, v, lazy))
<1> DEFINE regs == Step(i, Counted(i, b.cpu.regs), RDI)
           di == Di(i, b.cpu)
           x == b.cpu.regs[RAX] % 2^i.w
<1>1. Effect(i, b, v, lazy)
        = [regs |-> regs, zf |-> b.cpu.zf, cf |-> b.cpu.cf, reads |-> <<>>,
           write |-> <<di, i.w, x>>]
  BY DEF Effect, Alu2, Alu1, Counted, Di, register_address
<1>2. regs \in [Reg -> Word]
  BY BegunCpu, CountedType, PointerMoves, Registers
<1>3. IsWrite(<<di, i.w, x>>)
  <2>1. di \in Word /\ i.w \in 1 .. 4 /\ b.cpu.regs[RAX] \in Word
    BY BegunCpu, RegisterAddress, Registers DEF Di, Decoded
  <2>2. x \in Word
    BY <2>1, Truncated
  <2> HIDE DEF di, x
  <2> QED BY <2>1, <2>2 DEF IsWrite
<1>4. /\ IsEffect(Effect(i, b, v, lazy), regs, b.cpu.zf, b.cpu.cf, <<>>, <<di, i.w, x>>)
      /\ EffectOK(Effect(i, b, v, lazy))
  <2> HIDE DEF regs, di, x
  <2> QED BY <1>1, <1>2, <1>3, BegunCpu, EffectRecord
<1> QED BY <1>4

\* lods.
LEMMA EffectLods ==
  ASSUME NEW i, Decoded(i), i.op = "lods", NEW b, Begun(b), ~Exhausted(i, b.cpu),
         NEW v \in Word, NEW lazy \in BOOLEAN
  PROVE  /\ IsEffect(Effect(i, b, v, lazy),
                     Step(i, Put(Counted(i, b.cpu.regs), RAX, i.w, v % 2^i.w), RSI), b.cpu.zf,
                     b.cpu.cf, <<Si(i, b.cpu), i.w>>, <<>>)
         /\ EffectOK(Effect(i, b, v, lazy))
<1> DEFINE count == Counted(i, b.cpu.regs)
           x == v % 2^i.w
           regs == Step(i, Put(count, RAX, i.w, x), RSI)
           si == Si(i, b.cpu)
<1>1. Effect(i, b, v, lazy)
        = [regs |-> regs, zf |-> b.cpu.zf, cf |-> b.cpu.cf, reads |-> <<si, i.w>>,
           write |-> <<>>]
  BY DEF Effect, Alu2, Alu1, Counted, Si, register_address
<1>2. regs \in [Reg -> Word] /\ IsWrite(<<>>)
  <2>1. count \in [Reg -> Word]
    BY BegunCpu, CountedType
  <2>2. x \in Val(i.w)
    BY OperandRead
  <2> HIDE DEF count, x
  <2> QED BY <2>1, <2>2, RegisterOperand, PointerMoves, Registers DEF IsWrite
<1>3. /\ IsEffect(Effect(i, b, v, lazy), regs, b.cpu.zf, b.cpu.cf, <<si, i.w>>, <<>>)
      /\ EffectOK(Effect(i, b, v, lazy))
  <2> HIDE DEF regs, si
  <2> QED BY <1>1, <1>2, BegunCpu, EffectRecord
<1> QED BY <1>3

\* cmps, which only the processor runs.
LEMMA EffectCmps ==
  ASSUME NEW i, Decoded(i), i.op = "cmps", NEW b, Begun(b), NEW v \in Word,
         NEW lazy \in BOOLEAN
  PROVE  /\ EffectOK(Effect(i, b, v, lazy))
         /\ Effect(i, b, v, lazy).reads = <<>> /\ Effect(i, b, v, lazy).write = <<>>
<1> DEFINE d == b.ram[Si(i, b.cpu)] % 2^i.w
           s == b.ram[Di(i, b.cpu)] % 2^i.w
           r == Alu("cmp", d, s, FALSE, FALSE, i.w)
           regs == Step(i, Step(i, b.cpu.regs, RSI), RDI)
<1>1. Effect(i, b, v, lazy)
        = [regs |-> regs, zf |-> r.zf, cf |-> r.cf, reads |-> <<>>, write |-> <<>>]
  BY Zenon DEF Effect, Alu2, Alu1, Si, Di, register_address
<1>2. regs \in [Reg -> Word] /\ IsWrite(<<>>)
  BY BegunCpu, PointerMoves, Registers DEF IsWrite
<1>3. Flag(r.zf) /\ Flag(r.cf)
  <2>1. Si(i, b.cpu) \in Word /\ Di(i, b.cpu) \in Word /\ i.w \in 1 .. 4
    BY BegunCpu, RegisterAddress, Registers DEF Si, Di, Decoded
  <2>2. d \in Val(i.w) /\ s \in Val(i.w)
    BY <2>1, Truncated DEF Begun
  <2>3. "cmp" \in Alu2 \cup Alu1 /\ Flag(FALSE)
    BY DEF Alu2, Flag
  <2> HIDE DEF d, s
  <2> QED BY <2>1, <2>2, <2>3, AluType DEF Flag
<1> HIDE DEF regs, r
<1>4. EffectOK(Effect(i, b, v, lazy))
  BY <1>1, <1>2, <1>3, EffectRecord
<1> QED BY <1>1, <1>4

\* The operations of each form.
LEMMA Forms ==
  ASSUME NEW i, Decoded(i)
  PROVE  /\ i.form = "mr" => i.op \in {"mov", "add", "sub", "cmp", "xchg", "cmpxchg"}
         /\ i.form = "rm" => i.op \in {"mov", "add", "sub", "cmp", "cmovz", "movzx8", "movzx16",
                                       "movsx8", "movsx16", "movsxd"}
         /\ i.form = "mi" => i.op \in {"mov", "add", "sub", "cmp"}
         /\ i.form = "m" => i.op \in {"inc", "neg", "not", "pop", "push", "mul"}
         /\ i.form = "implicit" => i.op \in {"movs", "stos", "lods", "cmps", "cmpxchg8b"}
         /\ i.form \in {"mr", "rm", "mi", "m", "implicit"}
BY DEF Decoded, Operations

\* Every effect leaves registers and flags, and writes a value.
LEMMA EffectType ==
  ASSUME NEW i, Decoded(i), i.op \notin {"push", "mul"}, NEW b, Begun(b), ~Exhausted(i, b.cpu),
         NEW v \in Word, NEW lazy \in BOOLEAN
  PROVE  EffectOK(Effect(i, b, v, lazy))
<1>1. CASE i.op \in Alu2
  <2>1. CASE i.form = "rm" BY <1>1, <2>1, EffectAluReg
  <2>2. CASE i.form # "rm" BY <1>1, <2>2, EffectAluMem
  <2> QED BY <2>1, <2>2
<1>2. CASE i.op \in Alu1 BY <1>2, EffectAlu1
<1>3. CASE i.op = "mov"
  <2>1. CASE i.form = "rm" BY <1>3, <2>1, EffectMovReg
  <2>2. CASE i.form # "rm" BY <1>3, <2>2, EffectMovMem
  <2> QED BY <2>1, <2>2
<1>4. CASE i.op \in {"movzx8", "movzx16"} BY <1>4, EffectMovzx
<1>5. CASE i.op \in {"movsx8", "movsx16", "movsxd"} BY <1>5, EffectMovsx
<1>6. CASE i.op = "xchg" BY <1>6, EffectXchg
<1>7. CASE i.op = "cmovz" BY <1>7, EffectCmov
<1>8. CASE i.op = "cmpxchg" BY <1>8, EffectCmpxchg
<1>9. CASE i.op = "cmpxchg8b" BY <1>9, EffectCmpxchg8b
<1>10. CASE i.op = "pop" BY <1>10, EffectPop
<1>11. CASE i.op = "movs" BY <1>11, EffectMovs
<1>12. CASE i.op = "stos" BY <1>12, EffectStos
<1>13. CASE i.op = "lods" BY <1>13, EffectLods
<1>14. CASE i.op = "cmps" BY <1>14, EffectCmps
<1> QED BY <1>1, <1>2, <1>3, <1>4, <1>5, <1>6, <1>7, <1>8, <1>9, <1>10, <1>11, <1>12, <1>13,
           <1>14, Forms DEF Alu1, Alu2

\* So does what the emulator does.
LEMMA DoneType ==
  ASSUME NEW i, Decoded(i), i.op \notin {"push", "mul"}, NEW b, Begun(b), ~Exhausted(i, b.cpu),
         NEW v \in Word, NEW lazy \in BOOLEAN
  PROVE  EffectOK(Done(i, b, v, lazy))
BY EffectType, DoneIs, DonePop

-----------------------------------------------------------------------------
(* The stages of the emulator.                                             *)

\* What the instruction reads through the emulator, if it does.
Reads(i) ==
    \/ i.op \in {"movs", "lods", "cmpxchg8b"} \/ i.form = "rm"
    \/ i.form \in {"mr", "mi", "m"} /\ i.op \notin {"mov", "pop"}
ReadAddress(i, v) == IF i.op \in {"movs", "lods"} THEN Si(i, v) ELSE i.ea
ReadWidth(i) == IF i.op = "cmpxchg8b" THEN 4 ELSE SrcWidth(i)
ReadsDevice(i, v) == Reads(i) /\ Region[ReadAddress(i, v)] = "io"

ContextFields == {"rc", "cr2", "regs", "zf", "cf", "eip", "mm", "src", "dst", "mov", "lock"}
OperandFields == {"type", "ptr", "w", "val", "orig"}

\* The context of a stage that has committed nothing yet.
Carried(i, v, c) ==
    /\ DOMAIN c = ContextFields
    /\ c.rc = "continue" /\ c.cr2 = TrapAddress(i, v) /\ c.eip = 1
    /\ c.regs = v.regs /\ c.zf = v.zf /\ c.cf = v.cf
    /\ c.mm \in Mmio /\ ~c.mm.needed /\ ~c.mm.write
    /\ c.mov \in BOOLEAN /\ (c.mov <=> opcode_table(i).mov)
    /\ c.lock \in BOOLEAN

\* An emulation that ends without effect: a device has to be asked for what
\* the instruction reads, a fault is met for good, or the emulator gives up.
Stopped(i, v, c) ==
    /\ c.rc \in {"unhandleable", "propagate"}
    /\ c.mm \in Mmio /\ ~c.mm.write
    /\ c.rc = "unhandleable" /\ c.mm.needed =>
          /\ ReadsDevice(i, v) /\ ~c.mm.completed
          /\ c.mm.a = ReadAddress(i, v) /\ c.mm.w = ReadWidth(i)
    /\ c.rc = "propagate" => Stuck(i, v) /\ ~c.mm.completed /\ ~c.mm.needed

\* Registers, flags and rip are those of effect e.
Matches(i, e, c) ==
    /\ c.regs = e.regs /\ c.zf = e.zf /\ Flag(c.cf)
    /\ i.op # "cmpxchg" => c.cf = e.cf
    /\ c.eip = IF i.rep THEN 0 ELSE 1

\* The write that user space has to make is the one of effect e, if any.
WriteIs(e, m) ==
    /\ m \in Mmio /\ ~m.completed
    /\ e.write = <<>> => ~m.write /\ ~m.needed
    /\ e.write # <<>> => /\ m.write /\ m.a = e.write[1] /\ m.w = e.write[2]
                         /\ m.data = e.write[3] % 2^e.write[2]

\* An emulation ends with the effect, or without any.
Ends(i, v, e, c) ==
    IF c.rc = "continue" THEN Matches(i, e, c) /\ WriteIs(e, c.mm) ELSE Stopped(i, v, c)

\* What is left for "writeback" to do: nothing, a register, or memory.
Computed(i, v, e, c) ==
    /\ DOMAIN c = ContextFields /\ c.rc = "continue"
    /\ c.mm \in Mmio /\ ~c.mm.needed /\ ~c.mm.write /\ ~c.mm.completed
    /\ c.zf = e.zf /\ Flag(c.cf) /\ (i.op # "cmpxchg" => c.cf = e.cf)
    /\ c.eip = IF i.rep THEN 0 ELSE 1
    /\ c.mov \in BOOLEAN /\ c.lock \in BOOLEAN
    /\ ~(c.mov \/ c.dst.orig # c.dst.val) => c.regs = e.regs /\ e.write = <<>>
    /\ (c.mov \/ c.dst.orig # c.dst.val) /\ c.dst.type = "reg" =>
          WriteReg(c.regs, c.dst.ptr, c.dst.w, c.dst.val) = e.regs /\ e.write = <<>>
    /\ (c.mov \/ c.dst.orig # c.dst.val) /\ c.dst.type # "reg" =>
          /\ c.regs = e.regs /\ e.write = <<c.dst.ptr, c.dst.w, c.dst.val>>
          /\ c.dst.ptr \in Word /\ c.dst.w \in 1 .. 4 /\ c.dst.val \in Word
          /\ Region[c.dst.ptr] = "unmapped" => Stuck(i, v)

\* "writeback" does what is left.
LEMMA WritebackEnds ==
  ASSUME NEW i, NEW v, NEW e, NEW c, Computed(i, v, e, c)
  PROVE  Ends(i, v, e, Writeback(c))
<1> DEFINE writes == c.mov \/ c.dst.orig # c.dst.val
<1>1. CASE ~writes
  <2>1. Writeback(c) = c
    BY <1>1 DEF Writeback
  <2> QED BY <1>1, <2>1 DEF Computed, Ends, Matches, WriteIs
<1>2. CASE writes /\ c.dst.type = "reg"
  <2>1. Writeback(c) = [c EXCEPT !.regs = WriteReg(c.regs, c.dst.ptr, c.dst.w, c.dst.val)]
    BY <1>2 DEF Writeback
  <2> DEFINE d == Writeback(c)
  <2>2. /\ d.rc = c.rc /\ d.zf = c.zf /\ d.cf = c.cf /\ d.eip = c.eip /\ d.mm = c.mm
        /\ d.regs = WriteReg(c.regs, c.dst.ptr, c.dst.w, c.dst.val)
    BY <2>1 DEF Computed, ContextFields
  <2> HIDE DEF d
  <2>3. Ends(i, v, e, d)
    BY <1>2, <2>2 DEF Computed, Ends, Matches, WriteIs
  <2> QED BY <2>3 DEF d
<1>3. CASE writes /\ c.dst.type # "reg"
  <2> DEFINE a == c.dst.ptr
             w == c.dst.w
             z == c.dst.val
             d == Writeback(c)
             o == emulator_write_emulated(c.mm, a, w, z)
  <2>1. d = [c EXCEPT !.rc = o.rc, !.mm = o.mm]
    BY <1>3 DEF Writeback, emulator_cmpxchg_emulated
  <2>2. /\ d.rc = o.rc /\ d.mm = o.mm /\ d.zf = c.zf /\ d.cf = c.cf /\ d.eip = c.eip
        /\ d.regs = c.regs
    <3> HIDE DEF o
    <3> QED BY <2>1 DEF Computed, ContextFields
  <2>3. /\ c.regs = e.regs /\ e.write = <<a, w, z>> /\ a \in Word /\ w \in 1 .. 4 /\ z \in Word
        /\ Region[a] = "unmapped" => Stuck(i, v)
    BY <1>3 DEF Computed
  <2>4. CASE Region[a] = "unmapped"
    <3>1. o.rc = "propagate" /\ o.mm = c.mm
      BY <2>4 DEF emulator_write_emulated
    <3> HIDE DEF o, d, a
    <3>2. Ends(i, v, e, d)
      BY <2>2, <2>3, <2>4, <3>1 DEF Ends, Stopped, Computed
    <3> QED BY <3>2 DEF d
  <2>5. CASE Region[a] # "unmapped"
    <3> DEFINE y == z % 2^w
    <3>1. y \in Word
      BY <2>3, Truncated
    <3>2. /\ o.rc = "continue"
          /\ o.mm = [c.mm EXCEPT !.needed = TRUE, !.write = TRUE, !.a = a, !.w = w, !.data = y]
      BY <2>5 DEF emulator_write_emulated
    <3> HIDE DEF o, d, a, w, y
    <3>3. /\ o.mm \in Mmio /\ o.mm.write /\ ~o.mm.completed
          /\ o.mm.a = a /\ o.mm.w = w /\ o.mm.data = y
      BY <2>3, <3>1, <3>2 DEF Computed, Mmio
    <3>4. e.write # <<>> /\ e.write[1] = a /\ e.write[2] = w /\ e.write[3] = z
      BY <2>3
    <3>5. WriteIs(e, o.mm)
      BY <3>3, <3>4 DEF WriteIs, y
    <3>6. Ends(i, v, e, d)
      BY <2>2, <2>3, <3>2, <3>5 DEF Ends, Matches, Computed
    <3> QED BY <3>6 DEF d
  <2> QED BY <2>4, <2>5
<1> QED BY <1>1, <1>2, <1>3

-----------------------------------------------------------------------------
(* The operands that are fetched, and what is computed from them.          *)

DstReg(i) == DstRegister(i.op, ByteOp(i), i.reg, i.rex)
SrcReg(i) == decode_register(i.reg, ByteOp(i) /\ ~i.rex)

Operand(type, ptr, w, val) == [type |-> type, ptr |-> ptr, w |-> w, val |-> val, orig |-> val]

\* The destination, when the instruction has read x.
DstOf(i, v, x) ==
    IF i.form = "rm" THEN Operand("reg", DstReg(i), i.w, ReadReg(v.regs, DstReg(i), i.w))
    ELSE Operand("mem", i.ea, i.w, IF opcode_table(i).mov THEN 0 ELSE x % 2^i.w)

\* The source.
SrcOf(i, v, x) ==
    IF i.form = "mr" THEN Operand("reg", SrcReg(i), SrcWidth(i), ReadReg(v.regs, SrcReg(i), i.w))
    ELSE IF i.form = "rm" THEN Operand("mem", i.ea, SrcWidth(i), x % 2^SrcWidth(i))
    ELSE IF i.form = "mi" THEN Operand("imm", 0, SrcWidth(i), i.imm)
    ELSE NoOperand

Ready(i, v, x, c) ==
    /\ Carried(i, v, c) /\ ~c.mm.completed
    /\ c.dst = DstOf(i, v, x) /\ c.src = SrcOf(i, v, x)

\* The registers an operand of the given form names.
LEMMA OperandRegisters ==
  ASSUME NEW i, Decoded(i), NEW g \in [Reg -> Word]
  PROVE  /\ i.form = "mr" =>
              /\ ReadReg(g, SrcReg(i), i.w) = Get(i, g)
              /\ \A z \in Val(i.w) : WriteReg(g, SrcReg(i), i.w, z) = PutByteOrWord(i, g, z)
         /\ i.form = "rm" /\ i.op \in {"mov", "add", "sub", "cmp"} =>
              /\ ReadReg(g, DstReg(i), i.w) = Get(i, g)
              /\ \A z \in Val(i.w) : WriteReg(g, DstReg(i), i.w, z) = PutByteOrWord(i, g, z)
         /\ i.form = "rm" /\ i.op \notin {"mov", "add", "sub", "cmp"} =>
              \A z \in Val(i.w) : WriteReg(g, DstReg(i), i.w, z) = Put(g, i.reg, i.w, z)
<1>1. ASSUME i.form = "mr"
      PROVE  /\ IsRegister(SrcReg(i))
             /\ i.w = 1 /\ ~i.rex /\ i.reg >= 4 => SrcReg(i).high /\ SrcReg(i).reg = i.reg - 4
             /\ ~(i.w = 1 /\ ~i.rex /\ i.reg >= 4) => ~SrcReg(i).high /\ SrcReg(i).reg = i.reg
  <2>1. i.op \notin {"movzx8", "movsx8"}
    BY <1>1, Forms
  <2> QED BY <2>1 DEF Decoded, SrcReg, decode_register, ByteOp, IsRegister, Reg
<1>2. ASSUME i.form = "rm", i.op \in {"mov", "add", "sub", "cmp"}
      PROVE  /\ IsRegister(DstReg(i))
             /\ i.w = 1 /\ ~i.rex /\ i.reg >= 4 => DstReg(i).high /\ DstReg(i).reg = i.reg - 4
             /\ ~(i.w = 1 /\ ~i.rex /\ i.reg >= 4) => ~DstReg(i).high /\ DstReg(i).reg = i.reg
  BY <1>2 DEF Decoded, DstReg, DstRegister, decode_register, ByteOp, IsRegister, Reg
<1>3. ASSUME i.form = "rm", i.op \notin {"mov", "add", "sub", "cmp"}
      PROVE  IsRegister(DstReg(i)) /\ ~DstReg(i).high /\ DstReg(i).reg = i.reg
  <2>1. i.op \in {"cmovz", "movzx8", "movzx16", "movsx8", "movsx16", "movsxd"}
    BY <1>3, Forms
  <2>2. i.op \in {"movzx16", "movsx16", "movsxd", "cmovz"} => ~ByteOp(i)
    BY <2>1 DEF Decoded, ByteOp, SrcWidth
  <2> QED BY <2>1, <2>2 DEF Decoded, DstReg, DstRegister, decode_register, IsRegister, Reg
<1> QED BY <1>1, <1>2, <1>3, OperandRegister, WideRegister

\* The value of the source operand.
LEMMA SourceValue ==
  ASSUME NEW i, Decoded(i), NEW v \in Cpu, NEW x \in Word
  PROVE  /\ i.form \in {"mr", "mi"} => SrcOf(i, v, x).val = Other(i, v.regs)
         /\ i.form = "rm" => SrcOf(i, v, x).val = x % 2^SrcWidth(i)
         /\ i.form = "mr" => SrcOf(i, v, x).ptr = SrcReg(i)
<1>1. v.regs \in [Reg -> Word]
  BY DEF Cpu
<1> QED BY <1>1, OperandRegisters DEF SrcOf, Operand, Other

\* What the stages use of a context that is ready.
LEMMA ReadyFields ==
  ASSUME NEW i, Decoded(i), NEW v \in Cpu, NEW x \in Word, NEW c, Ready(i, v, x, c)
  PROVE  /\ DOMAIN c = ContextFields /\ DOMAIN c.dst = OperandFields
         /\ c.rc = "continue" /\ c.eip = 1 /\ c.regs = v.regs /\ c.zf = v.zf /\ c.cf = v.cf
         /\ c.mm \in Mmio /\ ~c.mm.needed /\ ~c.mm.write /\ ~c.mm.completed
         /\ c.mov \in BOOLEAN /\ (c.mov <=> opcode_table(i).mov) /\ c.lock \in BOOLEAN
         /\ v.regs \in [Reg -> Word] /\ Flag(v.zf) /\ Flag(v.cf)
         /\ c.dst.orig = c.dst.val /\ c.dst.w = i.w
         /\ i.form # "rm" => /\ c.dst.type = "mem" /\ c.dst.ptr = i.ea
                             /\ c.dst.val = IF opcode_table(i).mov THEN 0 ELSE x % 2^i.w
         /\ i.form = "rm" => /\ c.dst.type = "reg" /\ c.dst.ptr = DstReg(i)
                             /\ c.dst.val = ReadReg(v.regs, DstReg(i), i.w)
         /\ i.form \in {"mr", "mi"} => c.src.val = Other(i, v.regs)
         /\ i.form = "rm" => c.src.val = x % 2^SrcWidth(i)
         /\ i.form = "mr" => c.src.ptr = SrcReg(i)
<1>1. v.regs \in [Reg -> Word] /\ Flag(v.zf) /\ Flag(v.cf)
  BY DEF Cpu, Flag
<1>2. c.dst = DstOf(i, v, x) /\ c.src = SrcOf(i, v, x)
  BY DEF Ready
<1>3. /\ DOMAIN c.dst = OperandFields /\ c.dst.orig = c.dst.val /\ c.dst.w = i.w
      /\ i.form # "rm" => /\ c.dst.type = "mem" /\ c.dst.ptr = i.ea
                          /\ c.dst.val = IF opcode_table(i).mov THEN 0 ELSE x % 2^i.w
      /\ i.form = "rm" => /\ c.dst.type = "reg" /\ c.dst.ptr = DstReg(i)
                          /\ c.dst.val = ReadReg(v.regs, DstReg(i), i.w)
  BY <1>2 DEF DstOf, Operand, OperandFields
<1>4. /\ i.form \in {"mr", "mi"} => c.src.val = Other(i, v.regs)
      /\ i.form = "rm" => c.src.val = x % 2^SrcWidth(i)
      /\ i.form = "mr" => c.src.ptr = SrcReg(i)
  BY <1>2, SourceValue
<1> QED BY <1>1, <1>3, <1>4 DEF Ready, Carried

\* Which operations move.
LEMMA Moves ==
  ASSUME NEW i
  PROVE  opcode_table(i).mov <=>
           i.op \in {"mov", "pop", "movs", "stos", "lods", "cmovz", "movzx8", "movzx16",
                     "movsx8", "movsx16", "movsxd"}
BY DEF opcode_table

\* Where a mapped instruction can be: its address is a device's.
AtDevice(i) == Region[i.ea] = "io"

\* xchg.
LEMMA ComputesXchg ==
  ASSUME NEW i, Decoded(i), i.op = "xchg", NEW b, Begun(b), NEW x \in Word, NEW c,
         Ready(i, b.cpu, x, c), AtDevice(i), NEW lazy \in BOOLEAN, lazy
  PROVE  Computed(i, b.cpu, Effect(i, b, x, lazy), Execute(i, c))
<1> DEFINE e == Effect(i, b, x, lazy)
           d == Execute(i, c)
           g == b.cpu.regs
           z == Other(i, g)
<1>1. i.form = "mr" /\ ~i.rep
  BY Forms DEF Decoded
<1>2. d = [c EXCEPT !.regs = WriteReg(c.regs, c.src.ptr, i.w, c.dst.val), !.dst.val = c.src.val,
                    !.lock = TRUE]
  BY DEF Execute, Alu2
<1>3. /\ DOMAIN d = ContextFields /\ d.rc = c.rc /\ d.mm = c.mm /\ d.zf = c.zf /\ d.cf = c.cf
      /\ d.eip = c.eip /\ d.mov = c.mov /\ d.lock \in BOOLEAN
      /\ d.regs = WriteReg(c.regs, c.src.ptr, i.w, c.dst.val)
      /\ d.dst.val = c.src.val /\ d.dst.orig = c.dst.orig /\ d.dst.type = c.dst.type
      /\ d.dst.ptr = c.dst.ptr /\ d.dst.w = c.dst.w
  BY <1>2, BegunCpu, ReadyFields DEF ContextFields, OperandFields
<1>4. /\ c.dst.val = x % 2^i.w /\ c.dst.orig = x % 2^i.w /\ c.src.val = z
      /\ c.dst.type = "mem" /\ c.dst.ptr = i.ea /\ c.dst.w = i.w /\ ~c.mov
      /\ c.regs = g /\ c.src.ptr = SrcReg(i)
  BY <1>1, BegunCpu, ReadyFields, Moves
<1>5. WriteReg(c.regs, c.src.ptr, i.w, c.dst.val) = PutByteOrWord(i, g, x % 2^i.w)
  BY <1>1, <1>4, BegunCpu, OperandRegisters, OperandRead
<1>6. IsEffect(e, PutByteOrWord(i, g, x % 2^i.w), b.cpu.zf, b.cpu.cf, <<i.ea, SrcWidth(i)>>,
               IF lazy /\ z = x % 2^i.w THEN <<>> ELSE <<i.ea, i.w, z>>)
  BY EffectXchg
<1>7. z \in Word /\ i.w \in 1 .. 4 /\ i.ea \in Word
  BY BegunCpu, RegisterOperand, OperandRead, Truncated DEF Decoded
<1>8. /\ c.rc = "continue" /\ c.mm \in Mmio /\ ~c.mm.needed /\ ~c.mm.write /\ ~c.mm.completed
      /\ c.zf = b.cpu.zf /\ c.cf = b.cpu.cf /\ c.eip = 1 /\ c.mov \in BOOLEAN
      /\ Flag(b.cpu.zf) /\ Flag(b.cpu.cf)
  BY BegunCpu, ReadyFields
<1> HIDE DEF e, d, g, z
<1>9. Computed(i, b.cpu, e, d)
  BY <1>1, <1>3, <1>4, <1>5, <1>6, <1>7, <1>8 DEF Computed, IsEffect, Flag, AtDevice
<1> QED BY <1>9 DEF e, d

\* add, sub and cmp.
LEMMA ComputesAlu2 ==
  ASSUME NEW i, Decoded(i), i.op \in Alu2, NEW b, Begun(b), NEW x \in Word, NEW c,
         Ready(i, b.cpu, x, c), AtDevice(i), NEW lazy \in BOOLEAN, lazy
  PROVE  Computed(i, b.cpu, Effect(i, b, x, lazy), Execute(i, c))
<1> DEFINE e == Effect(i, b, x, lazy)
           d == Execute(i, c)
           g == b.cpu.regs
           r == Alu(i.op, c.dst.val, c.src.val, c.zf, c.cf, i.w)
<1>1. i.op \in {"add", "sub", "cmp"} /\ i.form \in {"mr", "mi", "rm"} /\ ~i.rep
      /\ SrcWidth(i) = i.w
  BY Forms DEF Decoded, Alu2, SrcWidth
<1>2. d = [Flags(c, r) EXCEPT !.dst.val = r.val]
  BY <1>1 DEF Execute, Alu2
<1>3. /\ DOMAIN d = ContextFields /\ d.rc = c.rc /\ d.mm = c.mm /\ d.zf = r.zf /\ d.cf = r.cf
      /\ d.eip = c.eip /\ d.mov = c.mov /\ d.lock = c.lock /\ d.regs = c.regs
      /\ d.dst.val = r.val /\ d.dst.orig = c.dst.orig /\ d.dst.type = c.dst.type
      /\ d.dst.ptr = c.dst.ptr /\ d.dst.w = c.dst.w
  <2> HIDE DEF r
  <2> QED BY <1>2, BegunCpu, ReadyFields DEF ContextFields, OperandFields, Flags
<1>4. /\ c.rc = "continue" /\ c.mm \in Mmio /\ ~c.mm.needed /\ ~c.mm.write /\ ~c.mm.completed
      /\ c.zf = b.cpu.zf /\ c.cf = b.cpu.cf /\ c.eip = 1 /\ ~c.mov /\ c.mov \in BOOLEAN
      /\ c.lock \in BOOLEAN /\ c.regs = g /\ c.dst.orig = c.dst.val /\ c.dst.w = i.w
  <2>1. ~opcode_table(i).mov
    BY <1>1, Moves
  <2> QED BY <1>1, <2>1, BegunCpu, ReadyFields
<1>5. i.w \in 1 .. 4 /\ i.ea \in Word
  BY DEF Decoded
<1>6. CASE i.form = "rm"
  <2>1. /\ c.dst.type = "reg" /\ c.dst.ptr = DstReg(i) /\ c.dst.val = Get(i, g)
        /\ c.src.val = x % 2^i.w
    BY <1>1, <1>6, BegunCpu, ReadyFields, OperandRegisters
  <2>2. r = Alu(i.op, Get(i, g), x % 2^i.w, b.cpu.zf, b.cpu.cf, i.w)
    BY <1>4, <2>1
  <2>3. /\ IsEffect(e, IF i.op = "cmp" \/ (lazy /\ r.val = Get(i, g)) THEN g
                       ELSE PutByteOrWord(i, g, r.val),
                    r.zf, r.cf, <<i.ea, SrcWidth(i)>>, <<>>)
        /\ r.val \in Val(i.w) /\ (i.op = "cmp" => r.val = Get(i, g))
        /\ Flag(r.zf) /\ Flag(r.cf)
    <3> HIDE DEF r, e
    <3> QED BY <1>6, <2>2, EffectAluReg DEF e
  <2>4. WriteReg(g, DstReg(i), i.w, r.val) = PutByteOrWord(i, g, r.val)
    BY <1>1, <1>6, <2>3, BegunCpu, OperandRegisters
  <2> HIDE DEF e, d, g, r
  <2>5. Computed(i, b.cpu, e, d)
    BY <1>1, <1>3, <1>4, <2>1, <2>3, <2>4 DEF Computed, IsEffect, Flag
  <2> QED BY <2>5 DEF e, d
<1>7. CASE i.form # "rm"
  <2>1. /\ c.dst.type = "mem" /\ c.dst.ptr = i.ea /\ c.dst.val = x % 2^i.w
        /\ c.src.val = Other(i, g)
    <3>1. ~opcode_table(i).mov
      BY <1>1, Moves
    <3> QED BY <1>1, <1>7, <3>1, BegunCpu, ReadyFields
  <2>2. r = Alu(i.op, x % 2^i.w, Other(i, g), b.cpu.zf, b.cpu.cf, i.w)
    BY <1>4, <2>1
  <2>3. /\ IsEffect(e, g, r.zf, r.cf, <<i.ea, SrcWidth(i)>>,
                    IF i.op = "cmp" \/ (lazy /\ r.val = x % 2^i.w) THEN <<>>
                    ELSE <<i.ea, i.w, r.val>>)
        /\ r.val \in Val(i.w) /\ (i.op = "cmp" => r.val = x % 2^i.w)
        /\ Flag(r.zf) /\ Flag(r.cf)
    <3> HIDE DEF r, e
    <3> QED BY <1>7, <2>2, EffectAluMem DEF e
  <2>4. r.val \in Word
    BY <1>5, <2>3, Truncated
  <2> HIDE DEF e, d, g, r
  <2>5. Computed(i, b.cpu, e, d)
    BY <1>1, <1>3, <1>4, <1>5, <2>1, <2>3, <2>4 DEF Computed, IsEffect, Flag, AtDevice
  <2> QED BY <2>5 DEF e, d
<1> QED BY <1>6, <1>7

\* inc, neg and not.
LEMMA ComputesAlu1 ==
  ASSUME NEW i, Decoded(i), i.op \in Alu1, NEW b, Begun(b), NEW x \in Word, NEW c,
         Ready(i, b.cpu, x, c), AtDevice(i), NEW lazy \in BOOLEAN, lazy
  PROVE  Computed(i, b.cpu, Effect(i, b, x, lazy), ExecuteGroup(i, c))
<1> DEFINE e == Effect(i, b, x, lazy)
           d == ExecuteGroup(i, c)
           g == b.cpu.regs
           r == Alu(i.op, c.dst.val, 0, c.zf, c.cf, i.w)
<1>1. i.op \in {"inc", "neg", "not"} /\ i.form = "m" /\ ~i.rep
  BY Forms DEF Decoded, Alu1
<1>2. d = [Flags(c, r) EXCEPT !.dst.val = r.val]
  BY <1>1 DEF ExecuteGroup, Alu1
<1>3. /\ DOMAIN d = ContextFields /\ d.rc = c.rc /\ d.mm = c.mm /\ d.zf = r.zf /\ d.cf = r.cf
      /\ d.eip = c.eip /\ d.mov = c.mov /\ d.lock = c.lock /\ d.regs = c.regs
      /\ d.dst.val = r.val /\ d.dst.orig = c.dst.orig /\ d.dst.type = c.dst.type
      /\ d.dst.ptr = c.dst.ptr /\ d.dst.w = c.dst.w
  <2> HIDE DEF r
  <2> QED BY <1>2, BegunCpu, ReadyFields DEF ContextFields, OperandFields, Flags
<1>4. /\ c.rc = "continue" /\ c.mm \in Mmio /\ ~c.mm.needed /\ ~c.mm.write /\ ~c.mm.completed
      /\ c.zf = b.cpu.zf /\ c.cf = b.cpu.cf /\ c.eip = 1 /\ ~c.mov /\ c.mov \in BOOLEAN
      /\ c.lock \in BOOLEAN /\ c.regs = g /\ c.dst.orig = c.dst.val /\ c.dst.w = i.w
      /\ c.dst.type = "mem" /\ c.dst.ptr = i.ea /\ c.dst.val = x % 2^i.w
  <2>1. ~opcode_table(i).mov
    BY <1>1, Moves
  <2> QED BY <1>1, <2>1, BegunCpu, ReadyFields
<1>5. i.w \in 1 .. 4 /\ i.ea \in Word
  BY DEF Decoded
<1>6. r = Alu(i.op, x % 2^i.w, 0, b.cpu.zf, b.cpu.cf, i.w)
  BY <1>4
<1>7. /\ IsEffect(e, g, r.zf, r.cf, <<i.ea, SrcWidth(i)>>,
                  IF lazy /\ r.val = x % 2^i.w THEN <<>> ELSE <<i.ea, i.w, r.val>>)
      /\ r.val \in Val(i.w) /\ Flag(r.zf) /\ Flag(r.cf)
  <2> HIDE DEF r, e
  <2> QED BY <1>6, EffectAlu1 DEF e
<1>8. r.val \in Word
  BY <1>5, <1>7, Truncated
<1> HIDE DEF e, d, g, r
<1>9. Computed(i, b.cpu, e, d)
  BY <1>1, <1>3, <1>4, <1>5, <1>7, <1>8 DEF Computed, IsEffect, Flag, AtDevice
<1> QED BY <1>9 DEF e, d

\* A move: what "writeback" finds after the switch has set the value.
LEMMA ComputesMove ==
  ASSUME NEW i, Decoded(i), NEW b, Begun(b), NEW x \in Word, NEW c, Ready(i, b.cpu, x, c),
         ~i.rep, opcode_table(i).mov, NEW e, NEW z, NEW d, d = [c EXCEPT !.dst.val = z],
         e.zf = b.cpu.zf, e.cf = b.cpu.cf, i.op # "cmpxchg",
         i.form = "rm" => WriteReg(b.cpu.regs, DstReg(i), i.w, z) = e.regs /\ e.write = <<>>,
         i.form # "rm" => /\ e.regs = b.cpu.regs /\ e.write = <<i.ea, i.w, z>>
                          /\ z \in Val(i.w) /\ AtDevice(i)
  PROVE  Computed(i, b.cpu, e, d)
<1>1. /\ DOMAIN d = ContextFields /\ d.rc = c.rc /\ d.mm = c.mm /\ d.zf = c.zf /\ d.cf = c.cf
      /\ d.eip = c.eip /\ d.mov = c.mov /\ d.lock = c.lock /\ d.regs = c.regs
      /\ d.dst.val = z /\ d.dst.orig = c.dst.orig /\ d.dst.type = c.dst.type
      /\ d.dst.ptr = c.dst.ptr /\ d.dst.w = c.dst.w
  BY BegunCpu, ReadyFields DEF ContextFields, OperandFields
<1>2. /\ c.rc = "continue" /\ c.mm \in Mmio /\ ~c.mm.needed /\ ~c.mm.write /\ ~c.mm.completed
      /\ c.zf = b.cpu.zf /\ c.cf = b.cpu.cf /\ c.eip = 1 /\ c.mov /\ c.mov \in BOOLEAN
      /\ c.lock \in BOOLEAN /\ c.regs = b.cpu.regs /\ c.dst.w = i.w
      /\ Flag(b.cpu.zf) /\ Flag(b.cpu.cf)
      /\ i.form # "rm" => c.dst.type = "mem" /\ c.dst.ptr = i.ea
      /\ i.form = "rm" => c.dst.type = "reg" /\ c.dst.ptr = DstReg(i)
  BY BegunCpu, ReadyFields
<1>3. i.w \in 1 .. 4 /\ i.ea \in Word /\ (i.form # "rm" => z \in Word)
  BY Truncated DEF Decoded, Word
<1>4. /\ DOMAIN d = ContextFields /\ d.rc = "continue"
      /\ d.mm \in Mmio /\ ~d.mm.needed /\ ~d.mm.write /\ ~d.mm.completed
      /\ d.zf = e.zf /\ d.cf = e.cf /\ Flag(d.cf) /\ d.eip = IF i.rep THEN 0 ELSE 1
      /\ d.mov /\ d.mov \in BOOLEAN /\ d.lock \in BOOLEAN
  BY <1>1, <1>2, ZenonT(40)
<1>5. CASE i.form = "rm"
  <2>1. /\ d.dst.type = "reg" /\ e.write = <<>>
        /\ WriteReg(d.regs, d.dst.ptr, d.dst.w, d.dst.val) = e.regs
    BY <1>1, <1>2, <1>5
  <2> QED BY <1>4, <2>1, Zenon DEF Computed
<1>6. CASE i.form # "rm"
  <2>1. /\ d.dst.type = "mem" /\ d.regs = e.regs /\ e.write = <<d.dst.ptr, d.dst.w, d.dst.val>>
        /\ d.dst.ptr \in Word /\ d.dst.w \in 1 .. 4 /\ d.dst.val \in Word
        /\ Region[d.dst.ptr] = "io"
    BY <1>1, <1>2, <1>3, <1>6 DEF AtDevice
  <2>2. d.dst.type # "reg" /\ Region[d.dst.ptr] # "unmapped"
    BY <2>1
  <2> QED BY <1>4, <2>1, <2>2, Zenon DEF Computed
<1> QED BY <1>5, <1>6

\* mov.
LEMMA ComputesMov ==
  ASSUME NEW i, Decoded(i), i.op = "mov", NEW b, Begun(b), NEW x \in Word, NEW c,
         Ready(i, b.cpu, x, c), AtDevice(i), NEW lazy \in BOOLEAN
  PROVE  Computed(i, b.cpu, Effect(i, b, x, lazy), Execute(i, c))
<1> DEFINE e == Effect(i, b, x, lazy)
           d == Execute(i, c)
           z == c.src.val
<1>1. ~i.rep /\ opcode_table(i).mov /\ i.form \in {"mr", "mi", "rm"} /\ SrcWidth(i) = i.w
  BY Forms, Moves DEF Decoded, SrcWidth
<1>2. d = [c EXCEPT !.dst.val = z]
  BY DEF Execute, Alu2
<1>3. CASE i.form = "rm"
  <2>1. z = x % 2^i.w /\ z \in Val(i.w)
    BY <1>1, <1>3, BegunCpu, ReadyFields, OperandRead
  <2>2. IsEffect(e, PutByteOrWord(i, b.cpu.regs, z), b.cpu.zf, b.cpu.cf,
                 <<i.ea, SrcWidth(i)>>, <<>>)
    BY <1>3, <2>1, EffectMovReg
  <2>3. WriteReg(b.cpu.regs, DstReg(i), i.w, z) = PutByteOrWord(i, b.cpu.regs, z)
    BY <1>3, <2>1, BegunCpu, OperandRegisters
  <2>4. e.zf = b.cpu.zf /\ e.cf = b.cpu.cf
    <3> HIDE DEF e
    <3> QED BY <2>2, BegunCpu DEF IsEffect, Flag
  <2> HIDE DEF e, d, z
  <2>5. Computed(i, b.cpu, e, d)
    BY <1>1, <1>2, <1>3, <2>2, <2>3, <2>4, ComputesMove DEF IsEffect
  <2> QED BY <2>5 DEF e, d
<1>4. CASE i.form # "rm"
  <2>1. z = Other(i, b.cpu.regs) /\ z \in Val(i.w)
    BY <1>1, <1>4, BegunCpu, ReadyFields, RegisterOperand
  <2>2. IsEffect(e, b.cpu.regs, b.cpu.zf, b.cpu.cf, <<>>, <<i.ea, i.w, z>>)
    BY <1>4, <2>1, EffectMovMem
  <2>3. e.zf = b.cpu.zf /\ e.cf = b.cpu.cf
    <3> HIDE DEF e
    <3> QED BY <2>2, BegunCpu DEF IsEffect, Flag
  <2> HIDE DEF e, d, z
  <2>4. Computed(i, b.cpu, e, d)
    BY <1>1, <1>2, <1>4, <2>1, <2>2, <2>3, ComputesMove DEF IsEffect
  <2> QED BY <2>4 DEF e, d
<1> QED BY <1>3, <1>4

\* movzx, movsx and, in 64-bit mode, movsxd.
LEMMA ComputesExtend ==
  ASSUME NEW i, Decoded(i), NEW b, Begun(b), NEW x \in Word, NEW c,
         Ready(i, b.cpu, x, c), NEW lazy \in BOOLEAN,
         i.op \in {"movzx8", "movzx16", "movsx8", "movsx16", "movsxd"},
         NEW d, d = [c EXCEPT !.dst.val = IF i.op \in {"movzx8", "movzx16"} THEN c.src.val
                                          ELSE SignExtend(c.src.val, SrcWidth(i), i.w)]
  PROVE  Computed(i, b.cpu, Effect(i, b, x, lazy), d)
<1> DEFINE e == Effect(i, b, x, lazy)
           z == IF i.op \in {"movzx8", "movzx16"} THEN c.src.val
                ELSE SignExtend(c.src.val, SrcWidth(i), i.w)
<1>1. ~i.rep /\ opcode_table(i).mov /\ i.form = "rm"
  BY Forms, Moves DEF Decoded
<1>2. c.src.val = x % 2^SrcWidth(i)
  BY <1>1, BegunCpu, ReadyFields
<1>3. z \in Val(i.w) /\ IsEffect(e, Put(b.cpu.regs, i.reg, i.w, z), b.cpu.zf, b.cpu.cf,
                                 <<i.ea, SrcWidth(i)>>, <<>>)
  <2>1. CASE i.op \in {"movzx8", "movzx16"}
    BY <1>2, <2>1, EffectMovzx, OperandRead
  <2>2. CASE i.op \in {"movsx8", "movsx16", "movsxd"}
    BY <1>2, <2>2, EffectMovsx
  <2> QED BY <2>1, <2>2
<1>4. WriteReg(b.cpu.regs, DstReg(i), i.w, z) = Put(b.cpu.regs, i.reg, i.w, z)
  <2> HIDE DEF z
  <2> QED BY <1>1, <1>3, BegunCpu, OperandRegisters
<1>5. e.zf = b.cpu.zf /\ e.cf = b.cpu.cf
  <2> HIDE DEF e
  <2> QED BY <1>3, BegunCpu DEF IsEffect, Flag
<1>6. d = [c EXCEPT !.dst.val = z]
  OBVIOUS
<1> HIDE DEF e, z
<1>7. Computed(i, b.cpu, e, d)
  <2>1. WriteReg(b.cpu.regs, DstReg(i), i.w, z) = e.regs /\ e.write = <<>> /\ i.op # "cmpxchg"
    BY <1>3, <1>4 DEF IsEffect
  <2> QED BY <1>1, <1>5, <1>6, <2>1, ComputesMove
<1> QED BY <1>7 DEF e

\* cmov, with zf as its condition.
LEMMA ComputesCmov ==
  ASSUME NEW i, Decoded(i), i.op = "cmovz", NEW b, Begun(b), NEW x \in Word, NEW c,
         Ready(i, b.cpu, x, c), NEW lazy \in BOOLEAN, lazy
  PROVE  Computed(i, b.cpu, Effect(i, b, x, lazy), ExecuteTwobyte(i, c))
<1> DEFINE e == Effect(i, b, x, lazy)
           d == ExecuteTwobyte(i, c)
           g == b.cpu.regs
           z == x % 2^i.w
<1>1. i.form = "rm" /\ ~i.rep /\ SrcWidth(i) = i.w /\ i.op # "cmpxchg"
  BY Forms DEF Decoded, SrcWidth
<1>2. d = [c EXCEPT !.dst.val = c.src.val, !.dst.orig = c.src.val, !.mov = c.zf]
  BY DEF ExecuteTwobyte
<1>3. /\ DOMAIN d = ContextFields /\ d.rc = c.rc /\ d.mm = c.mm /\ d.zf = c.zf /\ d.cf = c.cf
      /\ d.eip = c.eip /\ d.mov = c.zf /\ d.lock = c.lock /\ d.regs = c.regs
      /\ d.dst.val = c.src.val /\ d.dst.orig = c.src.val /\ d.dst.type = c.dst.type
      /\ d.dst.ptr = c.dst.ptr /\ d.dst.w = c.dst.w
  <2> DEFINE o == [c.dst EXCEPT !.val = c.src.val, !.orig = c.src.val]
  <2>1. d = [c EXCEPT !.dst = o, !.mov = c.zf]
    BY <1>2
  <2>2. /\ o.val = c.src.val /\ o.orig = c.src.val /\ o.type = c.dst.type
        /\ o.ptr = c.dst.ptr /\ o.w = c.dst.w
    BY BegunCpu, ReadyFields DEF OperandFields
  <2> HIDE DEF o, d
  <2>3. DOMAIN c = ContextFields /\ d.dst = o
    BY <2>1, BegunCpu, ReadyFields DEF ContextFields
  <2> QED BY <2>1, <2>2, <2>3 DEF ContextFields
<1>4. /\ c.rc = "continue" /\ c.mm \in Mmio /\ ~c.mm.needed /\ ~c.mm.write /\ ~c.mm.completed
      /\ c.zf = b.cpu.zf /\ c.cf = b.cpu.cf /\ c.eip = 1 /\ c.lock \in BOOLEAN /\ c.regs = g
      /\ c.dst.w = i.w /\ c.dst.type = "reg" /\ c.dst.ptr = DstReg(i) /\ c.src.val = z
      /\ Flag(b.cpu.zf) /\ Flag(b.cpu.cf)
  BY <1>1, BegunCpu, ReadyFields
<1>5. WriteReg(g, DstReg(i), i.w, z) = Put(g, i.reg, i.w, z)
  BY <1>1, BegunCpu, OperandRegisters, OperandRead
<1>6. IsEffect(e, IF b.cpu.zf THEN Put(g, i.reg, i.w, z)
                  ELSE IF lazy THEN g ELSE Put(g, i.reg, i.w, g[i.reg] % 2^i.w),
               b.cpu.zf, b.cpu.cf, <<i.ea, SrcWidth(i)>>, <<>>)
  BY EffectCmov
<1> HIDE DEF e, d, g, z
<1>7. /\ DOMAIN d = ContextFields /\ d.rc = "continue"
      /\ d.mm \in Mmio /\ ~d.mm.needed /\ ~d.mm.write /\ ~d.mm.completed
      /\ d.zf = e.zf /\ d.cf = e.cf /\ Flag(d.cf) /\ d.eip = IF i.rep THEN 0 ELSE 1
      /\ d.mov \in BOOLEAN /\ d.lock \in BOOLEAN /\ d.dst.orig = d.dst.val
      /\ (d.mov <=> b.cpu.zf) /\ d.dst.type = "reg" /\ e.write = <<>>
  BY <1>1, <1>3, <1>4, <1>6 DEF IsEffect, Flag
<1>8. /\ b.cpu.zf => WriteReg(d.regs, d.dst.ptr, d.dst.w, d.dst.val) = e.regs
      /\ ~b.cpu.zf => d.regs = e.regs
  BY <1>3, <1>4, <1>5, <1>6 DEF IsEffect, Flag
<1>9. Computed(i, b.cpu, e, d)
  BY <1>7, <1>8, Zenon DEF Computed
<1> QED BY <1>9 DEF e, d

\* The comparison of cmpxchg.
LEMMA Compared ==
  ASSUME NEW w \in 1 .. 4, NEW d \in Val(w), NEW s \in Val(w), NEW zf, NEW cf
  PROVE  /\ Alu("cmp", d, s, zf, cf, w).zf \in BOOLEAN
         /\ Alu("cmp", d, s, zf, cf, w).cf \in BOOLEAN
         /\ Alu("cmp", d, s, zf, cf, w).zf <=> d = s
<1> DEFINE m == 2^w
<1>1. d \in 0 .. (m - 1) /\ s \in 0 .. (m - 1) /\ m \in {2, 4, 8, 16}
  BY Powers DEF Val
<1>2. Alu("cmp", d, s, zf, cf, w) = [val |-> d, zf |-> ((d + m) - s) % m = 0, cf |-> d < s]
  BY DEF Alu
<1>3. ((d + m) - s) % m = 0 <=> d = s
  <2> HIDE DEF m
  <2> USE <1>1
  <2>1. CASE m = 2 BY <2>1
  <2>2. CASE m = 4 BY <2>2
  <2>3. CASE m = 8 BY <2>3
  <2>4. CASE m = 16 BY <2>4
  <2> QED BY <2>1, <2>2, <2>3, <2>4
<1> DEFINE r == Alu("cmp", d, s, zf, cf, w)
           y == ((d + m) - s) % m = 0
           n == d < s
<1>4. r = [val |-> d, zf |-> y, cf |-> n] /\ y \in BOOLEAN /\ n \in BOOLEAN
  BY <1>1, <1>2
<1>5. r.zf \in BOOLEAN /\ r.cf \in BOOLEAN /\ (r.zf <=> y)
  <2> HIDE DEF r, y, n
  <2> QED BY <1>4
<1> QED BY <1>3, <1>5

\* cmpxchg.
LEMMA ComputesCmpxchg ==
  ASSUME NEW i, Decoded(i), i.op = "cmpxchg", NEW b, Begun(b), NEW x \in Word, NEW c,
         Ready(i, b.cpu, x, c), AtDevice(i), NEW lazy \in BOOLEAN
  PROVE  Computed(i, b.cpu, Effect(i, b, x, lazy), ExecuteTwobyte(i, c))
<1> DEFINE e == Effect(i, b, x, lazy)
           d == ExecuteTwobyte(i, c)
           g == b.cpu.regs
           z == x % 2^i.w
           s == g[RAX] % 2^i.w
           r == Alu("cmp", c.dst.val, c.regs[RAX] % 2^i.w, c.zf, c.cf, i.w)
           p == decode_register(RAX, FALSE)
<1>1. i.form = "mr" /\ ~i.rep
  BY Forms DEF Decoded
<1> DEFINE f == Flags(c, r)
           s1 == IF r.zf THEN c.src.val ELSE f.dst.val
           s2 == IF r.zf THEN "mem" ELSE "reg"
           s3 == IF r.zf THEN f.dst.ptr ELSE p
<1>2. d = [f EXCEPT !.mov = TRUE, !.dst.val = s1, !.dst.type = s2, !.dst.ptr = s3]
  BY DEF ExecuteTwobyte
<1>3. /\ DOMAIN d = ContextFields /\ d.rc = c.rc /\ d.mm = c.mm /\ d.zf = r.zf /\ d.cf = r.cf
      /\ d.eip = c.eip /\ d.mov = TRUE /\ d.lock = c.lock /\ d.regs = c.regs
      /\ d.dst.val = (IF r.zf THEN c.src.val ELSE c.dst.val)
      /\ d.dst.type = (IF r.zf THEN "mem" ELSE "reg")
      /\ d.dst.ptr = (IF r.zf THEN c.dst.ptr ELSE p) /\ d.dst.w = c.dst.w
  <2>1. DOMAIN c = ContextFields /\ DOMAIN c.dst = OperandFields
    BY BegunCpu, ReadyFields
  <2>2. /\ DOMAIN f = ContextFields /\ f.rc = c.rc /\ f.mm = c.mm /\ f.zf = r.zf /\ f.cf = r.cf
        /\ f.eip = c.eip /\ f.lock = c.lock /\ f.regs = c.regs /\ f.dst = c.dst
    <3> HIDE DEF r, p
    <3> QED BY <2>1 DEF Flags, ContextFields
  <2>3. /\ DOMAIN d = ContextFields /\ d.rc = f.rc /\ d.mm = f.mm /\ d.zf = f.zf /\ d.cf = f.cf
        /\ d.eip = f.eip /\ d.mov = TRUE /\ d.lock = f.lock /\ d.regs = f.regs
        /\ d.dst.val = s1 /\ d.dst.type = s2 /\ d.dst.ptr = s3 /\ d.dst.w = f.dst.w
    <3> HIDE DEF f, s1, s2, s3, d
    <3> QED BY <1>2, <2>1, <2>2 DEF ContextFields, OperandFields
  <2> HIDE DEF r, p, f, d
  <2> QED BY <2>2, <2>3
<1>4. /\ c.rc = "continue" /\ c.mm \in Mmio /\ ~c.mm.needed /\ ~c.mm.write /\ ~c.mm.completed
      /\ c.eip = 1 /\ c.lock \in BOOLEAN /\ c.regs = g
      /\ c.dst.w = i.w /\ c.dst.type = "mem" /\ c.dst.ptr = i.ea /\ c.dst.val = z
      /\ c.src.val = Other(i, g)
  <2>1. ~opcode_table(i).mov
    BY Moves
  <2> QED BY <1>1, <2>1, BegunCpu, ReadyFields
<1>5. /\ i.w \in 1 .. 4 /\ z \in Val(i.w) /\ s \in Val(i.w) /\ Other(i, g) \in Val(i.w)
      /\ i.ea \in Word /\ z \in Word /\ Other(i, g) \in Word
  <2>1. i.w \in 1 .. 4 /\ i.ea \in Word
    BY DEF Decoded
  <2>2. g[RAX] \in Word
    BY BegunCpu, Registers
  <2>3. z \in Val(i.w) /\ s \in Val(i.w) /\ z \in Word
    BY <2>1, <2>2, Truncated
  <2>4. Other(i, g) \in Val(i.w)
    BY BegunCpu, RegisterOperand
  <2>5. Other(i, g) \in Word
    BY <2>1, <2>4, Truncated DEF Word
  <2> QED BY <2>1, <2>3, <2>4, <2>5
<1>6. Flag(r.zf) /\ Flag(r.cf) /\ (r.zf <=> z = s)
  <2>1. r = Alu("cmp", z, s, c.zf, c.cf, i.w)
    BY <1>4
  <2> HIDE DEF r, z, s
  <2> QED BY <1>5, <2>1, Compared DEF Flag
<1>7. WriteReg(g, p, i.w, z) = Put(g, RAX, i.w, z)
  <2>1. IsRegister(p) /\ ~p.high /\ p.reg = RAX
    BY DEF decode_register, IsRegister, RAX, Reg
  <2> HIDE DEF p, z
  <2> QED BY <1>5, <2>1, BegunCpu, WideRegister
<1>8. IsEffect(e, IF z = s THEN g ELSE Put(g, RAX, i.w, z), z = s, s < z, <<i.ea, SrcWidth(i)>>,
               IF z = s THEN <<i.ea, i.w, Other(i, g)>> ELSE <<>>)
  BY EffectCmpxchg
<1> HIDE DEF e, d, g, z, s, r, p, f, s1, s2, s3
<1>9. /\ DOMAIN d = ContextFields /\ d.rc = "continue"
      /\ d.mm \in Mmio /\ ~d.mm.needed /\ ~d.mm.write /\ ~d.mm.completed
      /\ d.zf = e.zf /\ Flag(d.cf) /\ d.eip = (IF i.rep THEN 0 ELSE 1) /\ i.op = "cmpxchg"
      /\ d.mov \in BOOLEAN /\ d.lock \in BOOLEAN /\ d.mov
  BY <1>1, <1>3, <1>4, <1>6, <1>8 DEF IsEffect, Flag
<1>10. CASE z = s
  <2>1. /\ d.dst.type = "mem" /\ d.regs = e.regs /\ e.write = <<d.dst.ptr, d.dst.w, d.dst.val>>
        /\ d.dst.ptr \in Word /\ d.dst.w \in 1 .. 4 /\ d.dst.val \in Word
        /\ Region[d.dst.ptr] = "io"
    BY <1>3, <1>4, <1>5, <1>6, <1>8, <1>10 DEF AtDevice, IsEffect, Flag
  <2>2. d.dst.type # "reg" /\ Region[d.dst.ptr] # "unmapped"
    BY <2>1
  <2>3. Computed(i, b.cpu, e, d)
    BY <1>9, <2>1, <2>2, Zenon DEF Computed
  <2> QED BY <2>3 DEF e, d
<1>11. CASE z # s
  <2>1. /\ d.dst.type = "reg" /\ e.write = <<>>
        /\ WriteReg(d.regs, d.dst.ptr, d.dst.w, d.dst.val) = e.regs
    BY <1>3, <1>4, <1>6, <1>7, <1>8, <1>11 DEF IsEffect, Flag
  <2>2. Computed(i, b.cpu, e, d)
    BY <1>9, <2>1, Zenon DEF Computed
  <2> QED BY <2>2 DEF e, d
<1> QED BY <1>10, <1>11

\* An operation that fails without asking a device ends the emulation.
LEMMA FailsStopped ==
  ASSUME NEW i, Decoded(i), NEW v \in Cpu, NEW x \in Word, NEW c, Ready(i, v, x, c)
  PROVE  Stopped(i, v, Fails(c, "unhandleable")) /\ ~Fails(c, "unhandleable").mm.needed
<1> DEFINE d == Fails(c, "unhandleable")
<1>1. d.rc = "unhandleable" /\ d.mm = c.mm
  BY ReadyFields DEF Fails, ContextFields
<1> HIDE DEF d
<1>2. Stopped(i, v, d) /\ ~d.mm.needed
  BY <1>1, ReadyFields DEF Stopped
<1> QED BY <1>2 DEF d

\* pop to memory: the stack is read, or refused when it is a device's.
LEMMA ComputesPop ==
  ASSUME NEW i, Decoded(i), i.op = "pop", NEW b, Begun(b), ram = b.ram, NEW x \in Word, NEW c,
         Ready(i, b.cpu, x, c), Trapped(i, b.cpu), NEW lazy \in BOOLEAN
  PROVE  \/ Computed(i, b.cpu, Done(i, b, x, lazy), Execute(i, c))
         \/ Stopped(i, b.cpu, Execute(i, c)) /\ ~Execute(i, c).mm.needed
<1> DEFINE e == Done(i, b, x, lazy)
           d == Execute(i, c)
           g == b.cpu.regs
           sp == Sp(i, b.cpu)
           n == Widest(i)
           z == b.ram[sp] % 2^n
           pop == emulator_read_std(sp, n)
<1>1. i.form = "m" /\ ~i.rep /\ i.op # "cmpxchg"
  BY Forms DEF Decoded
<1>2. /\ DOMAIN c = ContextFields /\ DOMAIN c.dst = OperandFields
      /\ c.rc = "continue" /\ c.mm \in Mmio /\ ~c.mm.needed /\ ~c.mm.write /\ ~c.mm.completed
      /\ c.zf = b.cpu.zf /\ c.cf = b.cpu.cf /\ c.eip = 1 /\ c.lock \in BOOLEAN /\ c.regs = g
      /\ c.mov \in BOOLEAN /\ c.mov /\ c.dst.type = "mem" /\ c.dst.ptr = i.ea
      /\ Flag(b.cpu.zf) /\ Flag(b.cpu.cf) /\ g \in [Reg -> Word]
  <2>1. opcode_table(i).mov
    BY Moves
  <2> QED BY <1>1, <2>1, BegunCpu, ReadyFields
<1>3. sp = register_address(i, c.regs, RSP)
  BY <1>2, Pointers
<1>4. d = IF pop.rc # "continue" THEN Fails(c, pop.rc)
          ELSE [c EXCEPT !.dst.w = n, !.dst.val = pop.val,
                  !.regs[RSP] = register_address_increment(c.regs[RSP], i.a, Bytes(n), FALSE)]
  BY <1>3, Zenon DEF Execute, Alu2
<1>5. CASE Region[sp] = "io"
  <2>1. pop.rc = "unhandleable"
    BY <1>5 DEF emulator_read_std
  <2>2. d = Fails(c, "unhandleable")
    <3> HIDE DEF d, pop
    <3> QED BY <1>4, <2>1
  <2>3. Stopped(i, b.cpu, d) /\ ~d.mm.needed
    <3> HIDE DEF d
    <3> QED BY <2>2, BegunCpu, FailsStopped
  <2> QED BY <2>3
<1>6. CASE Region[sp] = "ram" /\ AtDevice(i)
  <2> DEFINE y == Popped(i, n, g[RSP])
             o == [c.dst EXCEPT !.w = n, !.val = z]
  <2>1. pop.rc = "continue" /\ pop.val = z
    BY <1>6 DEF emulator_read_std
  <2>2. register_address_increment(c.regs[RSP], i.a, Bytes(n), FALSE) = y
    BY <1>2 DEF register_address_increment, Popped
  <2>3. d = [c EXCEPT !.dst.w = n, !.dst.val = z, !.regs[RSP] = y]
    <3> HIDE DEF d, pop, z, n, y
    <3> QED BY <1>4, <2>1, <2>2
  <2>4. /\ o.w = n /\ o.val = z /\ o.type = "mem" /\ o.ptr = i.ea
    <3> HIDE DEF n, z
    <3> QED BY <1>2 DEF OperandFields
  <2>5. d = [c EXCEPT !.dst = o, !.regs = [g EXCEPT ![RSP] = y]]
    <3> HIDE DEF d, n, z, y
    <3> QED BY <1>2, <2>3 DEF ContextFields
  <2>6. /\ DOMAIN d = ContextFields /\ d.rc = c.rc /\ d.mm = c.mm /\ d.zf = c.zf /\ d.cf = c.cf
        /\ d.eip = c.eip /\ d.mov = c.mov /\ d.lock = c.lock
        /\ d.regs = [g EXCEPT ![RSP] = y] /\ d.dst = o
    <3> HIDE DEF d, o, y
    <3> QED BY <1>2, <2>5 DEF ContextFields
  <2>7. n \in 1 .. 4 /\ z \in Word /\ i.ea \in Word
    <3>1. g[RSP] \in Word /\ sp \in Word
      BY <1>2, BegunCpu, RegisterAddress, Registers, Pointers
    <3>2. n \in 1 .. 4 /\ b.ram[sp] \in Word
      BY <3>1, DonePop DEF Begun
    <3> QED BY <3>2, Truncated DEF Decoded
  <2>8. IsEffect(e, [g EXCEPT ![RSP] = y], b.cpu.zf, b.cpu.cf, <<>>, <<i.ea, n, z>>)
    BY DonePop, PopParts
  <2> HIDE DEF e, d, g, sp, n, z, pop, y, o
  <2>9. /\ DOMAIN d = ContextFields /\ d.rc = "continue"
        /\ d.mm \in Mmio /\ ~d.mm.needed /\ ~d.mm.write /\ ~d.mm.completed
        /\ d.zf = e.zf /\ d.cf = e.cf /\ Flag(d.cf) /\ d.eip = (IF i.rep THEN 0 ELSE 1)
        /\ d.mov \in BOOLEAN /\ d.lock \in BOOLEAN /\ d.mov
    BY <1>1, <1>2, <2>6, <2>8 DEF IsEffect, Flag
  <2>10. /\ d.dst.type = "mem" /\ d.regs = e.regs /\ e.write = <<d.dst.ptr, d.dst.w, d.dst.val>>
         /\ d.dst.ptr \in Word /\ d.dst.w \in 1 .. 4 /\ d.dst.val \in Word
         /\ Region[d.dst.ptr] = "io"
    BY <1>6, <2>4, <2>6, <2>7, <2>8 DEF AtDevice, IsEffect
  <2>11. d.dst.type # "reg" /\ Region[d.dst.ptr] # "unmapped"
    BY <2>10
  <2>12. Computed(i, b.cpu, e, d)
    BY <2>9, <2>10, <2>11, Zenon DEF Computed
  <2> QED BY <2>12 DEF e, d
<1> QED BY <1>5, <1>6, BegunCpu, TrappedAt DEF AtDevice

\* The stage "execute" of instructions with a ModRM byte.
Run(i, c) ==
    CASE i.op \in GroupOps -> ExecuteGroup(i, c)
      [] i.op \in TwobyteOps -> ExecuteTwobyte(i, c)
      [] OTHER -> Execute(i, c)

\* push from memory, which the emulator does not do.
LEMMA RunPush ==
  ASSUME NEW i, Decoded(i), i.op = "push", NEW v \in Cpu, NEW x \in Word, NEW c,
         Ready(i, v, x, c)
  PROVE  Stopped(i, v, ExecuteGroup(i, c)) /\ ~ExecuteGroup(i, c).mm.needed
<1>1. emulator_read_std(i.ea, 4).rc = "unhandleable"
  BY DEF Decoded, emulator_read_std
<1>2. ExecuteGroup(i, c)
        = Fails(c, IF i.long THEN "unhandleable"
                   ELSE emulator_write_std(register_address(i, c.regs, RSP), i.w))
  BY <1>1 DEF ExecuteGroup, Alu1, Decoded
<1>3. ExecuteGroup(i, c) = Fails(c, "unhandleable")
  BY <1>2 DEF emulator_write_std, Decoded
<1> QED BY <1>3, FailsStopped

\* The stage ends with what is left to write back, or without effect.
LEMMA RunOthers ==
  ASSUME NEW i, Decoded(i), i.form # "implicit", i.op # "pop", NEW b, Begun(b), ram = b.ram,
         NEW x \in Word, NEW c, Ready(i, b.cpu, x, c), Trapped(i, b.cpu),
         NEW lazy \in BOOLEAN, lazy
  PROVE  \/ /\ Computed(i, b.cpu, Effect(i, b, x, lazy), Run(i, c))
            /\ i.op \notin {"push", "mul", "cmps"}
         \/ Stopped(i, b.cpu, Run(i, c)) /\ ~Run(i, c).mm.needed
<1>1. i.op # "pop" => AtDevice(i)
  <2>1. i.op \notin {"movs", "cmps", "stos", "lods"}
    BY Forms
  <2> QED BY <2>1, BegunCpu, TrappedAt DEF AtDevice
<1>2. CASE i.op \in Alu1
  <2>1. Run(i, c) = ExecuteGroup(i, c)
    BY <1>2 DEF Run, GroupOps, TwobyteOps, Alu1
  <2> QED BY <1>1, <1>2, <2>1, ComputesAlu1 DEF Alu1
<1>3. CASE i.op = "push"
  <2>1. Run(i, c) = ExecuteGroup(i, c)
    BY <1>3 DEF Run, GroupOps, TwobyteOps, Alu1
  <2> QED BY <1>3, <2>1, BegunCpu, RunPush
<1>4. CASE i.op = "mul"
  <2>1. Run(i, c) = Fails(c, "unhandleable")
    BY <1>4 DEF Run, GroupOps, TwobyteOps, ExecuteGroup, Alu1
  <2> QED BY <2>1, BegunCpu, FailsStopped
<1>5. CASE i.op = "cmovz"
  <2>1. Run(i, c) = ExecuteTwobyte(i, c)
    BY <1>5 DEF Run, GroupOps, Alu1, TwobyteOps
  <2> QED BY <1>5, <2>1, ComputesCmov
<1>6. CASE i.op = "cmpxchg"
  <2>1. Run(i, c) = ExecuteTwobyte(i, c)
    BY <1>6 DEF Run, GroupOps, Alu1, TwobyteOps
  <2> QED BY <1>1, <1>6, <2>1, ComputesCmpxchg
<1>7. CASE i.op \in {"movzx8", "movzx16", "movsx8", "movsx16"}
  <2>1. Run(i, c) = ExecuteTwobyte(i, c)
    BY <1>7 DEF Run, GroupOps, Alu1, TwobyteOps
  <2>2. ExecuteTwobyte(i, c)
          = [c EXCEPT !.dst.val = IF i.op \in {"movzx8", "movzx16"} THEN c.src.val
                                  ELSE SignExtend(c.src.val, SrcWidth(i), i.w)]
    BY <1>7 DEF ExecuteTwobyte
  <2> QED BY <1>7, <2>1, <2>2, ComputesExtend
<1>8. CASE i.op = "movsxd"
  <2>1. Run(i, c) = Execute(i, c) /\ SrcWidth(i) = 3
    BY <1>8 DEF Run, GroupOps, Alu1, TwobyteOps, SrcWidth
  <2>2. CASE i.long
    <3>1. Execute(i, c)
            = [c EXCEPT !.dst.val = IF i.op \in {"movzx8", "movzx16"} THEN c.src.val
                                    ELSE SignExtend(c.src.val, SrcWidth(i), i.w)]
      BY <1>8, <2>1, <2>2 DEF Execute, Alu2
    <3> QED BY <1>8, <2>1, <3>1, ComputesExtend
  <2>3. CASE ~i.long
    <3>1. Execute(i, c) = Fails(c, "unhandleable")
      BY <1>8, <2>3 DEF Execute, Alu2
    <3> QED BY <2>1, <3>1, BegunCpu, FailsStopped
  <2> QED BY <2>2, <2>3
<1>9. CASE i.op \in Alu2 \cup {"mov", "xchg"}
  <2>1. Run(i, c) = Execute(i, c)
    BY <1>9 DEF Run, GroupOps, Alu1, Alu2, TwobyteOps
  <2>2. CASE i.op \in Alu2 BY <1>1, <2>1, <2>2, ComputesAlu2 DEF Alu2
  <2>3. CASE i.op = "mov" BY <1>1, <2>1, <2>3, ComputesMov
  <2>4. CASE i.op = "xchg" BY <1>1, <2>1, <2>4, ComputesXchg
  <2> QED BY <1>9, <2>2, <2>3, <2>4
<1> QED BY <1>2, <1>3, <1>4, <1>5, <1>6, <1>7, <1>8, <1>9, Forms DEF Alu1, Alu2

\* The same for every instruction, with what the emulator does.
LEMMA RunEnds ==
  ASSUME NEW i, Decoded(i), i.form # "implicit", NEW b, Begun(b), ram = b.ram, NEW x \in Word,
         NEW c, Ready(i, b.cpu, x, c), Trapped(i, b.cpu), NEW lazy \in BOOLEAN, lazy
  PROVE  \/ /\ Computed(i, b.cpu, Done(i, b, x, lazy), Run(i, c))
            /\ i.op \notin {"push", "mul", "cmps"}
         \/ Stopped(i, b.cpu, Run(i, c)) /\ ~Run(i, c).mm.needed
<1>1. CASE i.op = "pop"
  <2>1. Run(i, c) = Execute(i, c)
    BY <1>1 DEF Run, GroupOps, Alu1, TwobyteOps
  <2> QED BY <1>1, <2>1, ComputesPop
<1>2. CASE i.op # "pop"
  <2>1. Done(i, b, x, lazy) = Effect(i, b, x, lazy)
    BY <1>2, DoneIs
  <2> QED BY <1>2, <2>1, RunOthers
<1> QED BY <1>1, <1>2

-----------------------------------------------------------------------------
(* The instructions that decode their own operands.                        *)

\* The context x86_emulate_memop starts with: an answer that is waiting is
\* for a read of this instruction.
Begins(i, v, m, c) ==
    /\ c = Context(i, v, m, TrapAddress(i, v))
    /\ m \in Mmio /\ ~m.needed /\ ~m.write
    /\ m.completed => ReadsDevice(i, v)

\* x is what the instruction reads: the answer that is waiting, or memory.
Knows(i, b, m, x) ==
    /\ x \in Word
    /\ m.completed => x % 2^ReadWidth(i) = m.data % 2^ReadWidth(i)
    /\ ~m.completed /\ i.op = "movs" => x = b.ram[Si(i, b.cpu)]

\* The fields of that context.
LEMMA BeginsFields ==
  ASSUME NEW i, Decoded(i), NEW v \in Cpu, NEW m, NEW c, Begins(i, v, m, c)
  PROVE  /\ DOMAIN c = ContextFields
         /\ c.rc = "continue" /\ c.cr2 = TrapAddress(i, v) /\ c.eip = 1 /\ c.regs = v.regs
         /\ c.zf = v.zf /\ c.cf = v.cf /\ c.mm = m /\ c.dst = NoOperand /\ c.src = NoOperand
         /\ c.mov \in BOOLEAN /\ (c.mov <=> opcode_table(i).mov) /\ c.lock \in BOOLEAN
         /\ m \in Mmio /\ ~m.needed /\ ~m.write
<1> DEFINE o == opcode_table(i).mov
           cr2 == TrapAddress(i, v)
<1>1. o \in BOOLEAN /\ i.lock \in BOOLEAN /\ v.zf \in BOOLEAN /\ v.cf \in BOOLEAN
  BY DEF opcode_table, Decoded, Cpu
<1>2. c = [rc |-> "continue", cr2 |-> cr2, regs |-> v.regs, zf |-> v.zf, cf |-> v.cf,
           eip |-> 1, mm |-> m, src |-> NoOperand, dst |-> NoOperand, mov |-> o, lock |-> i.lock]
  BY DEF Begins, Context
<1>3. m \in Mmio /\ ~m.needed /\ ~m.write
  BY DEF Begins
<1> HIDE DEF o, cr2
<1>4. /\ DOMAIN c = ContextFields /\ c.rc = "continue" /\ c.cr2 = cr2 /\ c.regs = v.regs
      /\ c.eip = 1 /\ c.mm = m /\ c.src = NoOperand /\ c.dst = NoOperand
  BY <1>2 DEF ContextFields
<1>5. c.zf = v.zf /\ c.cf = v.cf /\ c.mov = o /\ c.lock = i.lock
  BY <1>1, <1>2
<1> QED BY <1>1, <1>3, <1>4, <1>5 DEF o, cr2

\* The count of a repeated instruction, and what else it leaves alone.
LEMMA RepeatedFields ==
  ASSUME NEW i, Decoded(i), NEW v \in Cpu, ~Exhausted(i, v), NEW m, NEW c, Begins(i, v, m, c)
  PROVE  /\ DOMAIN Repeated(i, c) = ContextFields
         /\ Repeated(i, c).rc = "continue" /\ Repeated(i, c).cr2 = TrapAddress(i, v)
         /\ Repeated(i, c).regs = Counted(i, v.regs)
         /\ Repeated(i, c).eip = (IF i.rep THEN 0 ELSE 1)
         /\ Repeated(i, c).zf = v.zf /\ Repeated(i, c).cf = v.cf /\ Repeated(i, c).mm = m
         /\ Repeated(i, c).mov \in BOOLEAN /\ (Repeated(i, c).mov <=> opcode_table(i).mov)
         /\ Repeated(i, c).lock \in BOOLEAN
         /\ Counted(i, v.regs) \in [Reg -> Word]
         /\ Si(i, v) = register_address(i, Counted(i, v.regs), RSI)
         /\ Di(i, v) = register_address(i, Counted(i, v.regs), RDI)
         /\ Counted(i, v.regs)[RAX] = v.regs[RAX]
<1>1. v.regs \in [Reg -> Word] /\ RCX \in Reg /\ RAX \in Reg /\ RSI \in Reg /\ RDI \in Reg
  BY Registers DEF Cpu
<1>2. Counted(i, v.regs) \in [Reg -> Word]
  BY CountedType
<1>3. /\ Counted(i, v.regs)[RAX] = v.regs[RAX] /\ Counted(i, v.regs)[RSI] = v.regs[RSI]
      /\ Counted(i, v.regs)[RDI] = v.regs[RDI]
  BY <1>1 DEF Counted, RAX, RCX, RSI, RDI
<1>4. CASE i.rep
  <2>1. (v.regs[RCX] + 15) % 16 = v.regs[RCX] - 1
    BY <1>1, <1>4 DEF Exhausted, Word
  <2>2. Repeated(i, c) = [c EXCEPT !.regs = [v.regs EXCEPT ![RCX] = v.regs[RCX] - 1], !.eip = 0]
    <3> DEFINE n == (v.regs[RCX] + 15) % 16
    <3>1. c.regs = v.regs /\ DOMAIN c = ContextFields
      BY BeginsFields
    <3>2. Repeated(i, c) = [c EXCEPT !.regs[RCX] = n, !.eip = 0]
      BY <1>4, <3>1 DEF Repeated
    <3>3. n = v.regs[RCX] - 1
      BY <2>1
    <3> HIDE DEF n
    <3> QED BY <3>1, <3>2, <3>3 DEF ContextFields
  <2> QED BY <1>2, <1>3, <1>4, <2>2, BeginsFields DEF ContextFields, Counted, Si, Di,
                                                     register_address
<1>5. CASE ~i.rep
  <2>1. Repeated(i, c) = c /\ Counted(i, v.regs) = v.regs
    BY <1>5 DEF Repeated, Counted
  <2> QED BY <1>2, <1>5, <2>1, BeginsFields DEF Si, Di
<1> QED BY <1>4, <1>5

\* stos.
LEMMA SpecialStos ==
  ASSUME NEW i, Decoded(i), i.op = "stos", NEW b, Begun(b), Trapped(i, b.cpu), NEW m, NEW c,
         Begins(i, b.cpu, m, c), NEW x \in Word, NEW lazy \in BOOLEAN
  PROVE  Computed(i, b.cpu, Effect(i, b, x, lazy), Special(i, Repeated(i, c)))
<1> DEFINE e == Effect(i, b, x, lazy)
           k == Repeated(i, c)
           d == Special(i, k)
           g == Counted(i, b.cpu.regs)
           y == register_address_increment(g[RDI], i.a, Bytes(i.w), i.df)
           z == b.cpu.regs[RAX] % 2^i.w
           di == Di(i, b.cpu)
           o == [type |-> "mem", ptr |-> di, w |-> i.w, val |-> z, orig |-> 0]
<1>1. ~Exhausted(i, b.cpu) /\ TrapAddress(i, b.cpu) = di /\ Region[di] = "io"
  BY BegunCpu, TrappedAt
<1>2. /\ DOMAIN k = ContextFields /\ k.rc = "continue" /\ k.cr2 = di /\ k.regs = g
      /\ k.eip = (IF i.rep THEN 0 ELSE 1) /\ k.zf = b.cpu.zf /\ k.cf = b.cpu.cf /\ k.mm = m
      /\ k.mov \in BOOLEAN /\ (k.mov <=> opcode_table(i).mov) /\ k.lock \in BOOLEAN
      /\ g \in [Reg -> Word] /\ k.regs[RAX] = b.cpu.regs[RAX]
  BY <1>1, BegunCpu, RepeatedFields
<1>3. m \in Mmio /\ ~m.needed /\ ~m.write /\ ~m.completed
  BY DEF Begins, ReadsDevice, Reads, Decoded, Operations
<1>4. d = [k EXCEPT !.dst = o, !.regs = [g EXCEPT ![RDI] = y]]
  <2>1. d = [k EXCEPT !.dst = [type |-> "mem", ptr |-> k.cr2, w |-> i.w,
                               val |-> k.regs[RAX] % 2^i.w, orig |-> 0],
                      !.regs[RDI] = register_address_increment(k.regs[RDI], i.a, Bytes(i.w), i.df)]
    BY DEF Special
  <2> HIDE DEF k, d, g, di
  <2> QED BY <1>2, <2>1 DEF ContextFields
<1>5. /\ DOMAIN d = ContextFields /\ d.rc = k.rc /\ d.mm = k.mm /\ d.zf = k.zf /\ d.cf = k.cf
      /\ d.eip = k.eip /\ d.mov = k.mov /\ d.lock = k.lock
      /\ d.regs = [g EXCEPT ![RDI] = y] /\ d.dst = o
  <2> HIDE DEF k, d, g, o, y
  <2> QED BY <1>2, <1>4 DEF ContextFields
<1>6. IsEffect(e, Step(i, g, RDI), b.cpu.zf, b.cpu.cf, <<>>, <<di, i.w, z>>)
  BY <1>1, EffectStos
<1>7. Step(i, g, RDI) = [g EXCEPT ![RDI] = y]
  BY <1>2, PointerMoves, Registers
<1>8. di \in Word /\ i.w \in 1 .. 4 /\ z \in Word
  <2>1. di \in Word /\ i.w \in 1 .. 4 /\ b.cpu.regs[RAX] \in Word
    BY BegunCpu, RegisterAddress, Registers DEF Di, Decoded
  <2> QED BY <2>1, Truncated
<1>9. opcode_table(i).mov /\ i.op # "cmpxchg" /\ Flag(b.cpu.zf) /\ Flag(b.cpu.cf)
  BY Moves, BegunCpu
<1>10. o.type = "mem" /\ o.ptr = di /\ o.w = i.w /\ o.val = z
  <2> HIDE DEF di, z
  <2> QED OBVIOUS
<1> HIDE DEF e, k, d, g, y, z, di, o
<1>11. /\ DOMAIN d = ContextFields /\ d.rc = "continue"
       /\ d.mm \in Mmio /\ ~d.mm.needed /\ ~d.mm.write /\ ~d.mm.completed
       /\ d.zf = e.zf /\ d.cf = e.cf /\ Flag(d.cf) /\ d.eip = (IF i.rep THEN 0 ELSE 1)
       /\ d.mov \in BOOLEAN /\ d.lock \in BOOLEAN /\ d.mov
  BY <1>2, <1>3, <1>5, <1>6, <1>9 DEF IsEffect, Flag
<1>12. /\ d.dst.type = "mem" /\ d.regs = e.regs /\ e.write = <<d.dst.ptr, d.dst.w, d.dst.val>>
       /\ d.dst.ptr \in Word /\ d.dst.w \in 1 .. 4 /\ d.dst.val \in Word
       /\ Region[d.dst.ptr] = "io"
  BY <1>1, <1>5, <1>6, <1>7, <1>8, <1>10 DEF IsEffect
<1>13. d.dst.type # "reg" /\ Region[d.dst.ptr] # "unmapped"
  BY <1>12
<1>14. Computed(i, b.cpu, e, d)
  BY <1>11, <1>12, <1>13, Zenon DEF Computed
<1> QED BY <1>14 DEF e, d, k

\* cmps, which the emulator does not do.
LEMMA SpecialCmps ==
  ASSUME NEW i, Decoded(i), i.op = "cmps", NEW v \in Cpu, Trapped(i, v), NEW m, NEW c,
         Begins(i, v, m, c)
  PROVE  Stopped(i, v, Special(i, Repeated(i, c))) /\ ~Special(i, Repeated(i, c)).mm.needed
<1> DEFINE k == Repeated(i, c)
           d == Special(i, k)
<1>1. DOMAIN k = ContextFields /\ k.mm = m
  BY TrappedAt, RepeatedFields
<1>2. d = [k EXCEPT !.rc = "unhandleable"]
  BY DEF Special, Fails
<1> HIDE DEF k, d
<1>3. d.rc = "unhandleable" /\ d.mm = m
  BY <1>1, <1>2 DEF ContextFields
<1>4. Stopped(i, v, d) /\ ~d.mm.needed
  BY <1>3 DEF Stopped, Begins
<1> QED BY <1>4 DEF d, k

\* Asking a device ends the emulation, to start over with the answer.
LEMMA Asks ==
  ASSUME NEW i, NEW v, NEW m \in Mmio, ~m.completed, ReadsDevice(i, v), NEW d,
         ReadAddress(i, v) \in Word, ReadWidth(i) \in 1 .. 4, d.rc = "unhandleable",
         d.mm = [m EXCEPT !.needed = TRUE, !.write = FALSE, !.a = ReadAddress(i, v),
                          !.w = ReadWidth(i)]
  PROVE  Stopped(i, v, d)
<1>1. /\ d.mm \in Mmio /\ ~d.mm.write /\ ~d.mm.completed
      /\ d.mm.a = ReadAddress(i, v) /\ d.mm.w = ReadWidth(i)
  BY DEF Mmio
<1> QED BY <1>1 DEF Stopped

\* Taking an answer leaves nothing to wait for.
LEMMA Takes ==
  ASSUME NEW m \in Mmio, ~m.needed, ~m.write, NEW u, u = [m EXCEPT !.completed = FALSE]
  PROVE  u \in Mmio /\ ~u.needed /\ ~u.write /\ ~u.completed
BY DEF Mmio

\* lods with the answer.
LEMMA SpecialLods ==
  ASSUME NEW i, Decoded(i), i.op = "lods", NEW b, Begun(b), ram = b.ram, Trapped(i, b.cpu),
         NEW m, NEW c, Begins(i, b.cpu, m, c), NEW x, Knows(i, b, m, x), NEW lazy \in BOOLEAN
  PROVE  \/ /\ Computed(i, b.cpu, Effect(i, b, x, lazy), Special(i, Repeated(i, c)))
            /\ m.completed
         \/ Stopped(i, b.cpu, Special(i, Repeated(i, c))) /\ ~m.completed
<1> DEFINE e == Effect(i, b, x, lazy)
           k == Repeated(i, c)
           d == Special(i, k)
           g == Counted(i, b.cpu.regs)
           y == register_address_increment(g[RSI], i.a, Bytes(i.w), i.df)
           z == x % 2^i.w
           si == Si(i, b.cpu)
           p == decode_register(RAX, FALSE)
           r == emulator_read_emulated(m, si, i.w)
           o == [type |-> "reg", ptr |-> p, w |-> i.w, val |-> r.val, orig |-> 0]
<1>1. ~Exhausted(i, b.cpu) /\ TrapAddress(i, b.cpu) = si /\ Region[si] = "io"
  BY BegunCpu, TrappedAt
<1>2. /\ DOMAIN k = ContextFields /\ k.rc = "continue" /\ k.cr2 = si /\ k.regs = g
      /\ k.eip = (IF i.rep THEN 0 ELSE 1) /\ k.zf = b.cpu.zf /\ k.cf = b.cpu.cf /\ k.mm = m
      /\ k.mov \in BOOLEAN /\ (k.mov <=> opcode_table(i).mov) /\ k.lock \in BOOLEAN
      /\ g \in [Reg -> Word]
  BY <1>1, BegunCpu, RepeatedFields
<1>3. m \in Mmio /\ ~m.needed /\ ~m.write
  BY DEF Begins
<1>4. d = [k EXCEPT !.rc = r.rc, !.mm = r.mm, !.dst = o, !.regs = [g EXCEPT ![RSI] = y]]
  <2> DEFINE q == emulator_read_emulated(k.mm, k.cr2, i.w)
  <2>1. d = [k EXCEPT !.rc = q.rc, !.mm = q.mm,
                      !.dst = [type |-> "reg", ptr |-> p, w |-> i.w, val |-> q.val, orig |-> 0],
                      !.regs[RSI] = register_address_increment(k.regs[RSI], i.a, Bytes(i.w), i.df)]
    BY DEF Special
  <2>2. q = r
    BY <1>2
  <2> HIDE DEF k, d, g, si, p, q, r
  <2> QED BY <1>2, <2>1, <2>2 DEF ContextFields
<1>5. /\ DOMAIN d = ContextFields /\ d.rc = r.rc /\ d.mm = r.mm /\ d.zf = k.zf /\ d.cf = k.cf
      /\ d.eip = k.eip /\ d.mov = k.mov /\ d.lock = k.lock
      /\ d.regs = [g EXCEPT ![RSI] = y] /\ d.dst = o
  <2> HIDE DEF k, d, g, o, y, r
  <2> QED BY <1>2, <1>4 DEF ContextFields
<1>6. /\ si \in Word /\ i.w \in 1 .. 4 /\ x \in Word /\ ram \in [Word -> Word]
      /\ ReadWidth(i) = i.w /\ ReadAddress(i, b.cpu) = si /\ ReadsDevice(i, b.cpu)
  BY <1>1, BegunCpu, RegisterAddress, Registers
     DEF Si, Decoded, Knows, Begun, ReadWidth, SrcWidth, ReadAddress, ReadsDevice, Reads
<1>7. CASE ~m.completed
  <2>1. /\ r.rc = "unhandleable"
        /\ r.mm = [m EXCEPT !.needed = TRUE, !.write = FALSE, !.a = si, !.w = i.w]
    <3> DEFINE u == [m EXCEPT !.needed = TRUE, !.write = FALSE, !.a = si, !.w = i.w]
    <3>1. u = [m EXCEPT !.needed = TRUE, !.write = FALSE, !.a = si, !.w = i.w]
      OBVIOUS
    <3> HIDE DEF u, si
    <3>2. r.rc = "unhandleable" /\ r.mm = u
      <4>1. emulator_read_std(si, i.w) = [rc |-> "unhandleable", val |-> 0]
        BY <1>1, <1>3, <1>7 DEF emulator_read_std
      <4>2. r = [rc |-> "unhandleable", val |-> 0, mm |-> u]
        BY <1>1, <1>3, <1>7, <3>1, <4>1 DEF emulator_read_emulated
      <4> HIDE DEF r
      <4> QED BY <4>2
    <3> QED BY <3>2 DEF u
  <2> HIDE DEF d, r, k, si
  <2>2. Stopped(i, b.cpu, d)
    <3>1. /\ d.rc = "unhandleable" /\ ReadAddress(i, b.cpu) \in Word /\ ReadWidth(i) \in 1 .. 4
          /\ d.mm = [m EXCEPT !.needed = TRUE, !.write = FALSE, !.a = ReadAddress(i, b.cpu),
                              !.w = ReadWidth(i)]
      BY <1>5, <1>6, <2>1
    <3> QED BY <1>3, <1>6, <1>7, <3>1, Asks
  <2> QED BY <1>7, <2>2 DEF d, k
<1>8. CASE m.completed
  <2>1. r.rc = "continue" /\ r.val = m.data % 2^i.w /\ r.mm = [m EXCEPT !.completed = FALSE]
    BY <1>3, <1>8, ReadTaken
  <2>2. r.val = z /\ z \in Val(i.w)
    BY <1>6, <1>8, <2>1, Truncated DEF Knows
  <2>3. r.mm \in Mmio /\ ~r.mm.needed /\ ~r.mm.write /\ ~r.mm.completed
    <3> HIDE DEF r
    <3> QED BY <1>3, <2>1, Takes
  <2>4. IsEffect(e, Step(i, Put(g, RAX, i.w, z), RSI), b.cpu.zf, b.cpu.cf, <<si, i.w>>, <<>>)
    BY <1>1, <1>6, EffectLods
  <2>5. IsRegister(p) /\ ~p.high /\ p.reg = RAX
    BY DEF decode_register, IsRegister, RAX, Reg
  <2> DEFINE f == [g EXCEPT ![RSI] = y]
             h == Put(g, RAX, i.w, z)
  <2>6. RSI \in Reg /\ RAX \in Reg /\ RSI # RAX
    BY Registers DEF RSI, RAX
  <2>7. y \in Word /\ f \in [Reg -> Word]
    <3>1. Step(i, g, RSI) = f /\ Step(i, g, RSI) \in [Reg -> Word]
      BY <1>2, <2>6, PointerMoves
    <3>2. f \in [Reg -> Word]
      <4> HIDE DEF f
      <4> QED BY <3>1
    <3>3. f[RSI] = y
      <4> HIDE DEF y, g
      <4> QED BY <1>2, <2>6
    <3> HIDE DEF f, y
    <3> QED BY <2>6, <3>2, <3>3
  <2>8. WriteReg(f, p, i.w, z) = Put(f, RAX, i.w, z)
    <3> HIDE DEF f, p, z
    <3> QED BY <2>2, <2>5, <2>7, WideRegister
  <2>9. h \in [Reg -> Word] /\ h[RSI] = g[RSI]
    <3>1. h \in [Reg -> Word]
      BY <1>2, <2>2, <2>6, RegisterOperand
    <3> HIDE DEF g, z
    <3> QED BY <1>2, <2>6, <3>1 DEF Put
  <2>10. Step(i, h, RSI) = [h EXCEPT ![RSI] = y]
    <3>1. Step(i, h, RSI)
            = [h EXCEPT ![RSI] = register_address_increment(h[RSI], i.a, Bytes(i.w), i.df)]
      <4> HIDE DEF h
      <4> QED BY <2>6, <2>9, PointerMoves
    <3> QED BY <2>9, <3>1
  <2>11. Put(f, RAX, i.w, z) = [h EXCEPT ![RSI] = y]
    <3> HIDE DEF g, z, y
    <3> QED BY <1>2, <2>6 DEF Put
  <2>12. opcode_table(i).mov /\ i.op # "cmpxchg" /\ Flag(b.cpu.zf) /\ Flag(b.cpu.cf)
    BY Moves, BegunCpu
  <2>13. o.type = "reg" /\ o.ptr = p /\ o.w = i.w /\ o.val = r.val
    <3> HIDE DEF p, r
    <3> QED OBVIOUS
  <2> HIDE DEF e, k, d, g, y, z, si, p, r, o, f, h
  <2>14. /\ DOMAIN d = ContextFields /\ d.rc = "continue"
         /\ d.mm \in Mmio /\ ~d.mm.needed /\ ~d.mm.write /\ ~d.mm.completed
         /\ d.zf = e.zf /\ d.cf = e.cf /\ Flag(d.cf) /\ d.eip = (IF i.rep THEN 0 ELSE 1)
         /\ d.mov \in BOOLEAN /\ d.lock \in BOOLEAN /\ d.mov
    BY <1>2, <1>5, <2>1, <2>3, <2>4, <2>12 DEF IsEffect, Flag
  <2>15. /\ d.dst.type = "reg" /\ e.write = <<>>
         /\ WriteReg(d.regs, d.dst.ptr, d.dst.w, d.dst.val) = e.regs
    BY <1>5, <2>2, <2>4, <2>8, <2>10, <2>11, <2>13 DEF IsEffect, f, h
  <2>16. Computed(i, b.cpu, e, d)
    BY <2>14, <2>15, Zenon DEF Computed
  <2> QED BY <1>8, <2>16 DEF e, d, k
<1> QED BY <1>7, <1>8

\* movs that has read x: the write is left.
LEMMA SpecialMovs ==
  ASSUME NEW i, Decoded(i), i.op = "movs", NEW b, Begun(b), ram = b.ram, Trapped(i, b.cpu),
         NEW m, NEW c, Begins(i, b.cpu, m, c), NEW x, Knows(i, b, m, x), NEW lazy \in BOOLEAN
  PROVE  \/ /\ Computed(i, b.cpu, Effect(i, b, x, lazy), Special(i, Repeated(i, c)))
            /\ m.completed \/ ~ReadsDevice(i, b.cpu)
            /\ Special(i, Repeated(i, c)).mov
            /\ Special(i, Repeated(i, c)).dst.type = "mem"
            /\ Special(i, Repeated(i, c)).dst.ptr = Di(i, b.cpu)
         \/ Stopped(i, b.cpu, Special(i, Repeated(i, c))) /\ ~m.completed
<1> DEFINE e == Effect(i, b, x, lazy)
           k == Repeated(i, c)
           d == Special(i, k)
           g == Counted(i, b.cpu.regs)
           s == register_address_increment(g[RSI], i.a, Bytes(i.w), i.df)
           y == register_address_increment(g[RDI], i.a, Bytes(i.w), i.df)
           z == x % 2^i.w
           si == Si(i, b.cpu)
           di == Di(i, b.cpu)
           r == emulator_read_emulated(m, si, i.w)
           o == [type |-> "mem", ptr |-> di, w |-> i.w, val |-> r.val, orig |-> 0]
           f == [[g EXCEPT ![RSI] = s] EXCEPT ![RDI] = y]
<1>1. /\ ~Exhausted(i, b.cpu)
      /\ Region[si] = "io" \/ (Region[si] = "ram" /\ Region[di] = "io")
  BY BegunCpu, TrappedAt
<1>2. /\ DOMAIN k = ContextFields /\ k.rc = "continue" /\ k.regs = g
      /\ k.eip = (IF i.rep THEN 0 ELSE 1) /\ k.zf = b.cpu.zf /\ k.cf = b.cpu.cf /\ k.mm = m
      /\ k.mov \in BOOLEAN /\ (k.mov <=> opcode_table(i).mov) /\ k.lock \in BOOLEAN
      /\ g \in [Reg -> Word]
      /\ si = register_address(i, g, RSI) /\ di = register_address(i, g, RDI)
  BY <1>1, BegunCpu, RepeatedFields
<1>3. m \in Mmio /\ ~m.needed /\ ~m.write /\ (m.completed => ReadsDevice(i, b.cpu))
  BY DEF Begins
<1>4. d = [k EXCEPT !.rc = r.rc, !.mm = r.mm, !.dst = o, !.regs = f]
  <2> DEFINE q == emulator_read_emulated(k.mm, register_address(i, k.regs, RSI), i.w)
             a == register_address(i, k.regs, RDI)
             u == register_address_increment(k.regs[RSI], i.a, Bytes(i.w), i.df)
             t == register_address_increment(k.regs[RDI], i.a, Bytes(i.w), i.df)
  <2>1. d = [k EXCEPT !.rc = q.rc, !.mm = q.mm,
                      !.dst = [type |-> "mem", ptr |-> a, w |-> i.w, val |-> q.val, orig |-> 0],
                      !.regs[RSI] = u, !.regs[RDI] = t]
    BY DEF Special
  <2>2. q = r /\ a = di /\ u = s /\ t = y
    BY <1>2
  <2>3. d = [k EXCEPT !.rc = r.rc, !.mm = r.mm, !.dst = o, !.regs[RSI] = s, !.regs[RDI] = y]
    <3> HIDE DEF d, k, q, r, a, di, u, t, s, y
    <3> QED BY <2>1, <2>2
  <2> HIDE DEF k, d, r, o, s, y, g
  <2> QED BY <1>2, <2>3 DEF ContextFields
<1>5. /\ DOMAIN d = ContextFields /\ d.rc = r.rc /\ d.mm = r.mm /\ d.zf = k.zf /\ d.cf = k.cf
      /\ d.eip = k.eip /\ d.mov = k.mov /\ d.lock = k.lock /\ d.regs = f /\ d.dst = o
  <2> HIDE DEF k, d, f, o, r
  <2> QED BY <1>2, <1>4 DEF ContextFields
<1>6. /\ si \in Word /\ di \in Word /\ i.w \in 1 .. 4 /\ x \in Word /\ ram \in [Word -> Word]
      /\ ReadWidth(i) = i.w /\ ReadAddress(i, b.cpu) = si
      /\ Region[si] = "io" <=> ReadsDevice(i, b.cpu)
  BY BegunCpu, RegisterAddress, Registers
     DEF Si, Di, Decoded, Knows, Begun, ReadWidth, SrcWidth, ReadAddress, ReadsDevice, Reads
<1>7. CASE ~m.completed /\ Region[si] = "io"
  <2>1. /\ r.rc = "unhandleable"
        /\ r.mm = [m EXCEPT !.needed = TRUE, !.write = FALSE, !.a = si, !.w = i.w]
    <3> DEFINE u == [m EXCEPT !.needed = TRUE, !.write = FALSE, !.a = si, !.w = i.w]
    <3>1. u = [m EXCEPT !.needed = TRUE, !.write = FALSE, !.a = si, !.w = i.w]
      OBVIOUS
    <3> HIDE DEF u, si
    <3>2. r.rc = "unhandleable" /\ r.mm = u
      <4>1. emulator_read_std(si, i.w) = [rc |-> "unhandleable", val |-> 0]
        BY <1>3, <1>7 DEF emulator_read_std
      <4>2. r = [rc |-> "unhandleable", val |-> 0, mm |-> u]
        BY <1>3, <1>7, <3>1, <4>1 DEF emulator_read_emulated
      <4> HIDE DEF r
      <4> QED BY <4>2
    <3> QED BY <3>2 DEF u
  <2> HIDE DEF d, r, k, si
  <2>2. Stopped(i, b.cpu, d)
    <3>1. /\ d.rc = "unhandleable" /\ ReadAddress(i, b.cpu) \in Word /\ ReadWidth(i) \in 1 .. 4
          /\ d.mm = [m EXCEPT !.needed = TRUE, !.write = FALSE, !.a = ReadAddress(i, b.cpu),
                              !.w = ReadWidth(i)]
      BY <1>5, <1>6, <2>1
    <3> QED BY <1>3, <1>6, <1>7, <3>1, Asks
  <2> QED BY <1>7, <2>2 DEF d, k
<1>8. ASSUME m.completed \/ Region[si] = "ram"
      PROVE  Computed(i, b.cpu, e, d) /\ d.mov /\ d.dst.type = "mem" /\ d.dst.ptr = di
  <2>1. /\ r.rc = "continue" /\ r.val = z
        /\ r.mm \in Mmio /\ ~r.mm.needed /\ ~r.mm.write /\ ~r.mm.completed
    <3>1. CASE m.completed
      <4>1. r.rc = "continue" /\ r.val = m.data % 2^i.w /\ r.mm = [m EXCEPT !.completed = FALSE]
        BY <1>3, <3>1, ReadTaken
      <4>2. m.data % 2^i.w = z
        BY <1>6, <3>1 DEF Knows
      <4> HIDE DEF r, z
      <4> QED BY <1>3, <4>1, <4>2, Takes
    <3>2. CASE ~m.completed
      <4>1. r.rc = "continue" /\ r.val = ram[si] % 2^i.w /\ r.mm = m
        BY <1>3, <1>8, <3>2, ReadRam
      <4>2. x = ram[si]
        BY <3>2 DEF Knows
      <4> HIDE DEF r
      <4> QED BY <1>3, <3>2, <4>1, <4>2
    <3> QED BY <3>1, <3>2
  <2>2. z \in Word
    BY <1>6, Truncated
  <2>3. IsEffect(e, Step(i, Step(i, g, RSI), RDI), b.cpu.zf, b.cpu.cf, <<si, i.w>>,
                 <<di, i.w, z>>)
    BY <1>1, <1>6, EffectMovs
  <2>4. RSI \in Reg /\ RDI \in Reg /\ RSI # RDI
    BY Registers DEF RSI, RDI
  <2>5. Step(i, Step(i, g, RSI), RDI) = f
    <3> DEFINE h == Step(i, g, RSI)
    <3>1. h = [g EXCEPT ![RSI] = s] /\ h \in [Reg -> Word]
      BY <1>2, <2>4, PointerMoves
    <3>2. Step(i, h, RDI)
            = [h EXCEPT ![RDI] = register_address_increment(h[RDI], i.a, Bytes(i.w), i.df)]
      <4> HIDE DEF h
      <4> QED BY <2>4, <3>1, PointerMoves
    <3>3. h[RDI] = g[RDI]
      <4> HIDE DEF h, g, s
      <4> QED BY <1>2, <2>4, <3>1
    <3> HIDE DEF h, g, s
    <3>4. Step(i, h, RDI) = [[g EXCEPT ![RSI] = s] EXCEPT ![RDI] = y]
      BY <3>1, <3>2, <3>3
    <3> QED BY <3>4 DEF h
  <2>6. opcode_table(i).mov /\ i.op # "cmpxchg" /\ Flag(b.cpu.zf) /\ Flag(b.cpu.cf)
    BY Moves, BegunCpu
  <2>7. o.type = "mem" /\ o.ptr = di /\ o.w = i.w /\ o.val = r.val
    <3> HIDE DEF di, r
    <3> QED OBVIOUS
  <2>8. Region[di] = "unmapped" => Stuck(i, b.cpu)
    BY DEF Stuck
  <2> HIDE DEF e, k, d, g, s, y, z, si, di, r, o, f
  <2>9. /\ DOMAIN d = ContextFields /\ d.rc = "continue"
        /\ d.mm \in Mmio /\ ~d.mm.needed /\ ~d.mm.write /\ ~d.mm.completed
        /\ d.zf = e.zf /\ d.cf = e.cf /\ Flag(d.cf) /\ d.eip = (IF i.rep THEN 0 ELSE 1)
        /\ d.mov \in BOOLEAN /\ d.lock \in BOOLEAN /\ d.mov
    BY <1>2, <1>5, <2>1, <2>3, <2>6 DEF IsEffect, Flag
  <2>10. /\ d.dst.type = "mem" /\ d.regs = e.regs /\ e.write = <<d.dst.ptr, d.dst.w, d.dst.val>>
         /\ d.dst.ptr \in Word /\ d.dst.w \in 1 .. 4 /\ d.dst.val \in Word
         /\ d.dst.ptr = di
    BY <1>5, <1>6, <2>1, <2>2, <2>3, <2>5, <2>7 DEF IsEffect
  <2>11. d.dst.type # "reg" /\ (Region[d.dst.ptr] = "unmapped" => Stuck(i, b.cpu))
    BY <2>8, <2>10
  <2>12. Computed(i, b.cpu, e, d)
    BY <2>9, <2>10, <2>11, Zenon DEF Computed
  <2> QED BY <2>9, <2>10, <2>12
<1> QED BY <1>1, <1>6, <1>7, <1>8

\* cmpxchg8b: it compares and writes before "writeback", which finds nothing.
LEMMA SpecialCmpxchg8b ==
  ASSUME NEW i, Decoded(i), i.op = "cmpxchg8b", NEW b, Begun(b), ram = b.ram,
         Trapped(i, b.cpu), NEW m, NEW c, Begins(i, b.cpu, m, c), NEW x, Knows(i, b, m, x),
         NEW lazy \in BOOLEAN
  PROVE  \/ /\ Ends(i, b.cpu, Effect(i, b, x, lazy), Writeback(SpecialTwobyte(i, c)))
            /\ SpecialTwobyte(i, c).rc = "continue" /\ m.completed
         \/ Stopped(i, b.cpu, SpecialTwobyte(i, c)) /\ ~m.completed
<1> DEFINE e == Effect(i, b, x, lazy)
           d == SpecialTwobyte(i, c)
           g == b.cpu.regs
           ea == i.ea
           r == emulator_read_emulated(m, ea, 4)
           same == x % 8 = g[RAX] % 8 /\ x \div 8 = g[RDX] % 8
           new == 8 * (g[RCX] % 2) + (g[RBX] % 8)
<1>1. TrapAddress(i, b.cpu) = ea /\ Region[ea] = "io"
  BY BegunCpu, TrappedAt
<1>2. /\ DOMAIN c = ContextFields /\ c.rc = "continue" /\ c.cr2 = ea /\ c.eip = 1 /\ c.regs = g
      /\ c.zf = b.cpu.zf /\ c.cf = b.cpu.cf /\ c.mm = m /\ c.dst = NoOperand
      /\ c.mov \in BOOLEAN /\ ~c.mov /\ c.lock \in BOOLEAN
      /\ m \in Mmio /\ ~m.needed /\ ~m.write
  <2>1. ~opcode_table(i).mov
    BY Moves
  <2> QED BY <1>1, <2>1, BegunCpu, BeginsFields
<1>3. /\ ea \in Word /\ x \in Word /\ ram \in [Word -> Word] /\ 4 \in 1 .. 4 /\ ~i.rep
      /\ ReadWidth(i) = 4 /\ ReadAddress(i, b.cpu) = ea /\ ReadsDevice(i, b.cpu)
      /\ g \in [Reg -> Word]
  BY <1>1, BegunCpu DEF Decoded, Knows, Begun, ReadWidth, ReadAddress, ReadsDevice, Reads
<1>4. CASE ~m.completed
  <2>1. /\ r.rc = "unhandleable"
        /\ r.mm = [m EXCEPT !.needed = TRUE, !.write = FALSE, !.a = ea, !.w = 4]
    <3> DEFINE u == [m EXCEPT !.needed = TRUE, !.write = FALSE, !.a = ea, !.w = 4]
    <3>1. u = [m EXCEPT !.needed = TRUE, !.write = FALSE, !.a = ea, !.w = 4]
      OBVIOUS
    <3> HIDE DEF u, ea
    <3>2. r.rc = "unhandleable" /\ r.mm = u
      <4>1. emulator_read_std(ea, 4) = [rc |-> "unhandleable", val |-> 0]
        BY <1>1, <1>2, <1>4 DEF emulator_read_std
      <4>2. r = [rc |-> "unhandleable", val |-> 0, mm |-> u]
        BY <1>1, <1>2, <1>4, <3>1, <4>1 DEF emulator_read_emulated
      <4> HIDE DEF r
      <4> QED BY <4>2
    <3> QED BY <3>2 DEF u
  <2>2. d = [c EXCEPT !.rc = r.rc, !.mm = r.mm]
    <3>1. emulator_read_emulated(c.mm, c.cr2, 4) = r
      BY <1>2
    <3> HIDE DEF r
    <3> QED BY <2>1, <3>1 DEF SpecialTwobyte
  <2> HIDE DEF d, r, ea
  <2>3. d.rc = r.rc /\ d.mm = r.mm
    BY <1>2, <2>2 DEF ContextFields
  <2>4. Stopped(i, b.cpu, d)
    <3>1. /\ d.rc = "unhandleable" /\ ReadAddress(i, b.cpu) \in Word /\ ReadWidth(i) \in 1 .. 4
          /\ d.mm = [m EXCEPT !.needed = TRUE, !.write = FALSE, !.a = ReadAddress(i, b.cpu),
                              !.w = ReadWidth(i)]
      BY <1>3, <2>1, <2>3
    <3> QED BY <1>2, <1>3, <1>4, <3>1, Asks
  <2> QED BY <1>4, <2>4 DEF d
<1>5. CASE m.completed
  <2> DEFINE u == [m EXCEPT !.completed = FALSE]
             n == (8 * g[RCX] + (g[RBX] % 8)) % 16
             q == emulator_read_emulated(c.mm, c.cr2, 4)
  <2>1. r.rc = "continue" /\ r.val = m.data % 2^4 /\ r.mm = u
    <3> DEFINE w == ReadWidth(i)
               p == emulator_read_emulated(m, ea, w)
    <3>1. p.rc = "continue" /\ p.val = m.data % 2^w /\ p.mm = u
      BY <1>2, <1>5, ReadTaken
    <3>2. r = p /\ 2^w = 2^4
      BY <1>3
    <3> HIDE DEF r, p, u
    <3> QED BY <3>1, <3>2
  <2>2. /\ g[RAX] \in Word /\ g[RCX] \in Word /\ g[RDX] \in Word /\ g[RBX] \in Word
        /\ RAX \in Reg /\ RDX \in Reg /\ RAX # RDX
    BY <1>3, Registers DEF RAX, RDX
  <2>3. r.val = x
    <3>1. x % 2^4 = m.data % 2^4
      BY <1>3, <1>5 DEF Knows
    <3>2. x % 2^4 = x
      BY <1>3, Halves
    <3> HIDE DEF r
    <3> QED BY <2>1, <3>1, <3>2
  <2>4. n = new /\ new \in Word /\ new % 2^4 = new /\ x % 8 \in Word /\ x \div 8 \in Word
    <3> DEFINE cx == g[RCX]
               bx == g[RBX]
    <3>1. cx \in Word /\ bx \in Word
      BY <2>2
    <3>2. /\ n = (8 * cx + (bx % 8)) % 16 /\ new = 8 * (cx % 2) + (bx % 8)
      OBVIOUS
    <3> HIDE DEF cx, bx, n, new
    <3> QED BY <1>3, <3>1, <3>2 DEF Word
  <2>5. u \in Mmio /\ ~u.needed /\ ~u.write /\ ~u.completed
    BY <1>2, Takes
  <2>6. q = r
    BY <1>2
  <2>7. IsEffect(e, IF same THEN g ELSE [g EXCEPT ![RAX] = x % 8, ![RDX] = x \div 8], same,
                 b.cpu.cf, <<ea, 4>>, IF same THEN <<ea, 4, new>> ELSE <<>>)
    BY <1>3, EffectCmpxchg8b
  <2>8. Flag(b.cpu.zf) /\ Flag(b.cpu.cf) /\ i.op # "cmpxchg" /\ NoOperand.orig = NoOperand.val
    BY BegunCpu DEF NoOperand
  <2>9. CASE ~same
    <3>1. d = [c EXCEPT !.mm = u, !.zf = FALSE, !.regs[RAX] = x % 8, !.regs[RDX] = x \div 8]
      <4>1. ~(q.val % 8 = c.regs[RAX] % 8 /\ q.val \div 8 = c.regs[RDX] % 8)
        BY <1>2, <2>3, <2>6, <2>9
      <4>2. d = [c EXCEPT !.mm = q.mm, !.zf = FALSE,
                          !.regs[RAX] = q.val % 8, !.regs[RDX] = q.val \div 8]
        <5>1. q.rc = "continue"
          BY <2>1, <2>6
        <5> QED BY <4>1, <5>1 DEF SpecialTwobyte
      <4> HIDE DEF d, q, r, u
      <4> QED BY <2>1, <2>3, <2>6, <4>2
    <3> DEFINE f == [g EXCEPT ![RAX] = x % 8, ![RDX] = x \div 8]
    <3>2. d = [c EXCEPT !.mm = u, !.zf = FALSE, !.regs = f]
      <4> HIDE DEF d, u, g
      <4> QED BY <1>2, <3>1 DEF ContextFields
    <3> HIDE DEF d, u, f, e, g, r, same, ea, new
    <3>3. /\ d.rc = "continue" /\ d.mm = u /\ ~d.zf /\ d.zf \in BOOLEAN /\ d.regs = f
          /\ d.cf = c.cf /\ d.eip = 1 /\ ~d.mov /\ d.mov \in BOOLEAN /\ d.dst = NoOperand
      BY <1>2, <3>2 DEF ContextFields
    <3>4. Writeback(d) = d
      BY <2>8, <3>3 DEF Writeback
    <3>5. e.regs = f /\ d.zf = e.zf /\ d.cf = e.cf /\ e.write = <<>>
      BY <1>2, <2>7, <2>8, <2>9, <3>3 DEF IsEffect, Flag, f
    <3>6. Matches(i, e, d) /\ WriteIs(e, d.mm)
      BY <1>2, <1>3, <2>5, <2>8, <3>3, <3>5 DEF Matches, WriteIs
    <3> QED BY <1>5, <3>3, <3>4, <3>6 DEF Ends, d, e
  <2>10. CASE same
    <3> DEFINE t == emulator_cmpxchg_emulated(u, ea, 4, x, n)
    <3>1. /\ t.rc = "continue"
          /\ t.mm = [u EXCEPT !.needed = TRUE, !.write = TRUE, !.a = ea, !.w = 4,
                              !.data = n % 2^4]
      BY <1>1 DEF emulator_cmpxchg_emulated, emulator_write_emulated
    <3>2. d = [c EXCEPT !.rc = t.rc, !.mm = t.mm, !.zf = TRUE]
      <4>1. q.val % 8 = c.regs[RAX] % 8 /\ q.val \div 8 = c.regs[RDX] % 8
        BY <1>2, <2>3, <2>6, <2>10
      <4> DEFINE n1 == (8 * c.regs[RCX] + (c.regs[RBX] % 8)) % 16
                 t1 == emulator_cmpxchg_emulated(q.mm, c.cr2, 4, q.val, n1)
      <4>2. d = [c EXCEPT !.rc = t1.rc, !.mm = t1.mm, !.zf = TRUE]
        <5>1. q.rc = "continue"
          BY <2>1, <2>6
        <5> QED BY <4>1, <5>1 DEF SpecialTwobyte
      <4>3. n1 = n
        BY <1>2
      <4>4. t1 = t
        <5> HIDE DEF q, r, u, n, n1, ea
        <5> QED BY <1>2, <2>1, <2>3, <2>6, <4>3
      <4> HIDE DEF d, q, r, u, t, t1
      <4> QED BY <4>2, <4>4
    <3> HIDE DEF d, u, e, g, r, same, ea, new, t, n
    <3>3. /\ d.rc = "continue" /\ d.mm = t.mm /\ d.zf /\ d.zf \in BOOLEAN /\ d.regs = g
          /\ d.cf = c.cf /\ d.eip = 1 /\ ~d.mov /\ d.mov \in BOOLEAN /\ d.dst = NoOperand
      BY <1>2, <3>1, <3>2 DEF ContextFields
    <3>4. Writeback(d) = d
      BY <2>8, <3>3 DEF Writeback
    <3>5. e.regs = g /\ d.zf = e.zf /\ d.cf = e.cf /\ e.write = <<ea, 4, new>>
      BY <1>2, <2>7, <2>8, <2>10, <3>3 DEF IsEffect, Flag
    <3>6. /\ t.mm \in Mmio /\ t.mm.write /\ ~t.mm.completed /\ t.mm.a = ea /\ t.mm.w = 4
          /\ t.mm.data = new
      <4> DEFINE y == n % 2^4
      <4>1. y = new /\ new \in Word
        BY <2>4
      <4>2. t.mm = [u EXCEPT !.needed = TRUE, !.write = TRUE, !.a = ea, !.w = 4, !.data = y]
        BY <3>1
      <4> HIDE DEF y
      <4> QED BY <1>3, <2>5, <4>1, <4>2 DEF Mmio
    <3>7. e.write # <<>> /\ e.write[1] = ea /\ e.write[2] = 4 /\ e.write[3] = new
      BY <3>5
    <3>8. Matches(i, e, d)
      BY <1>2, <1>3, <2>8, <3>3, <3>5 DEF Matches
    <3>9. WriteIs(e, d.mm)
      BY <2>4, <3>3, <3>6, <3>7 DEF WriteIs
    <3> QED BY <1>5, <3>3, <3>4, <3>8, <3>9 DEF Ends, d, e
  <2> QED BY <2>9, <2>10
<1> QED BY <1>4, <1>5

\* The stage of these instructions.
RunSpecial(i, c) ==
    CASE i.op = "cmpxchg8b" -> SpecialTwobyte(i, c)
      [] i.op # "cmpxchg8b" -> Special(i, Repeated(i, c))

\* A movs to a page that is not mapped is stopped by its write.
LEMMA StuckWrite ==
  ASSUME NEW i, NEW v, NEW e, NEW c, Computed(i, v, e, c), c.mov, c.dst.type = "mem",
         Region[c.dst.ptr] = "unmapped"
  PROVE  Stopped(i, v, Writeback(c))
<1> DEFINE d == Writeback(c)
           o == emulator_write_emulated(c.mm, c.dst.ptr, c.dst.w, c.dst.val)
<1>1. o = [rc |-> "propagate", mm |-> c.mm]
  BY DEF emulator_write_emulated
<1>2. d = [c EXCEPT !.rc = o.rc, !.mm = o.mm]
  BY DEF Writeback, emulator_cmpxchg_emulated
<1>3. d.rc = "propagate"
  <2> HIDE DEF o, d
  <2> QED BY <1>1, <1>2 DEF Computed, ContextFields
<1>4. Ends(i, v, e, d)
  BY WritebackEnds
<1> HIDE DEF d
<1>5. Stopped(i, v, d)
  BY <1>3, <1>4 DEF Ends
<1> QED BY <1>5 DEF d

\* What is computed can be written back.
LEMMA ComputedContinues ==
  ASSUME NEW i, NEW v, NEW e, NEW c, Computed(i, v, e, c)
  PROVE  c.rc = "continue" /\ Ends(i, v, e, Writeback(c))
BY WritebackEnds DEF Computed

\* These instructions end with their effect, or without any.
LEMMA RunSpecialEnds ==
  ASSUME NEW i, Decoded(i), i.form = "implicit", NEW b, Begun(b), ram = b.ram,
         Trapped(i, b.cpu), NEW m, NEW c, Begins(i, b.cpu, m, c), NEW x \in Word,
         ~Stuck(i, b.cpu) => Knows(i, b, m, x), NEW lazy \in BOOLEAN
  PROVE  \/ /\ RunSpecial(i, c).rc = "continue"
            /\ Ends(i, b.cpu, Effect(i, b, x, lazy), Writeback(RunSpecial(i, c)))
            /\ ReadsDevice(i, b.cpu) => m.completed
            /\ i.op \notin {"push", "mul", "cmps"}
            /\ Stuck(i, b.cpu) => Stopped(i, b.cpu, Writeback(RunSpecial(i, c)))
         \/ /\ Stopped(i, b.cpu, RunSpecial(i, c))
            /\ RunSpecial(i, c).mm.needed => ~m.completed
<1>1. i.op \in {"movs", "stos", "lods", "cmps", "cmpxchg8b"}
  BY Forms
<1>2. i.op # "movs" => Knows(i, b, m, x)
  BY DEF Stuck
<1>3. i.op # "cmpxchg8b" => RunSpecial(i, c) = Special(i, Repeated(i, c))
  BY DEF RunSpecial
<1>4. CASE i.op = "stos"
  <2>1. ~Stuck(i, b.cpu) /\ ~ReadsDevice(i, b.cpu)
    BY <1>4 DEF Stuck, ReadsDevice, Reads, Decoded, Operations
  <2> QED BY <1>3, <1>4, <2>1, SpecialStos, ComputedContinues
<1>5. CASE i.op = "lods"
  BY <1>2, <1>3, <1>5, SpecialLods, ComputedContinues DEF Stuck
<1>6. CASE i.op = "cmps"
  BY <1>3, <1>6, BegunCpu, SpecialCmps
<1>7. CASE i.op = "cmpxchg8b"
  <2>1. RunSpecial(i, c) = SpecialTwobyte(i, c)
    BY <1>7 DEF RunSpecial
  <2> QED BY <1>2, <1>7, <2>1, SpecialCmpxchg8b DEF Stuck
<1>8. CASE i.op = "movs" /\ ~Stuck(i, b.cpu)
  BY <1>3, <1>8, SpecialMovs, ComputedContinues
<1>9. CASE i.op = "movs" /\ Stuck(i, b.cpu)
  <2> DEFINE y == IF m.completed THEN m.data ELSE b.ram[Si(i, b.cpu)]
             d == Special(i, Repeated(i, c))
             e == Effect(i, b, x, lazy)
             f == Effect(i, b, y, lazy)
  <2>1. Knows(i, b, m, y)
    <3>1. m \in Mmio
      BY DEF Begins
    <3>2. m.data \in Word /\ b.ram[Si(i, b.cpu)] \in Word
      BY <3>1, BegunCpu, RegisterAddress, Registers DEF Si, Begun, Mmio
    <3> QED BY <3>2 DEF Knows
  <2> HIDE DEF y
  <2>2. CASE Stopped(i, b.cpu, d) /\ ~m.completed
    BY <1>3, <1>9, <2>2
  <2>3. CASE ~(Stopped(i, b.cpu, d) /\ ~m.completed)
    <3>1. /\ Computed(i, b.cpu, f, d) /\ (m.completed \/ ~ReadsDevice(i, b.cpu))
          /\ d.mov /\ d.dst.type = "mem" /\ d.dst.ptr = Di(i, b.cpu)
      BY <1>9, <2>1, <2>3, SpecialMovs
    <3>2. Region[d.dst.ptr] = "unmapped"
      BY <1>9, <3>1 DEF Stuck
    <3> HIDE DEF d, e, f
    <3>3. Stopped(i, b.cpu, Writeback(d)) /\ d.rc = "continue"
      BY <3>1, <3>2, StuckWrite, ComputedContinues
    <3>4. Ends(i, b.cpu, e, Writeback(d))
      BY <3>3 DEF Ends, Stopped
    <3>5. RunSpecial(i, c) = d
      BY <1>3, <1>9 DEF d
    <3> QED BY <1>9, <3>1, <3>3, <3>4, <3>5 DEF e
  <2> QED BY <2>2, <2>3
<1> QED BY <1>1, <1>4, <1>5, <1>6, <1>7, <1>8, <1>9

-----------------------------------------------------------------------------
(* Fetching the operands of instructions with a ModRM byte.                *)

\* The destination has been fetched; the source has not.
Fetched(i, v, m, x, c) ==
    /\ Carried(i, v, c) /\ c.dst = DstOf(i, v, x) /\ c.src = NoOperand
    /\ IF i.form = "rm" THEN c.mm = m
       ELSE ~c.mm.completed /\ (ReadsDevice(i, v) => m.completed)

\* Where such an instruction has its operands.
LEMMA OperandForms ==
  ASSUME NEW i, Decoded(i), i.form # "implicit"
  PROVE  /\ opcode_table(i).dst = (IF i.form = "rm" THEN "reg" ELSE "mem")
         /\ opcode_table(i).src = (IF i.form = "mr" THEN "reg" ELSE IF i.form = "rm" THEN "mem"
                                   ELSE IF i.form = "mi" THEN "imm" ELSE "none")
         /\ ReadAddress(i, NoOperand) = i.ea /\ ReadWidth(i) = SrcWidth(i)
         /\ Reads(i) <=> i.form = "rm" \/ ~opcode_table(i).mov
         /\ i.form # "rm" => SrcWidth(i) = i.w
<1>1. i.form \in {"mr", "rm", "mi", "m"}
  BY DEF Decoded
<1>2. i.op \notin {"movs", "lods", "stos", "cmps", "cmpxchg8b"}
  BY Forms
<1>3. i.form # "rm" =>
        i.op \in {"mov", "add", "sub", "cmp", "xchg", "cmpxchg", "inc", "neg", "not", "pop",
                  "push", "mul"}
  BY <1>1, Forms
<1>4. /\ opcode_table(i).dst = (IF i.form = "rm" THEN "reg" ELSE "mem")
      /\ opcode_table(i).src = (IF i.form = "mr" THEN "reg" ELSE IF i.form = "rm" THEN "mem"
                                ELSE IF i.form = "mi" THEN "imm" ELSE "none")
  BY <1>1 DEF opcode_table
<1>5. ReadAddress(i, NoOperand) = i.ea /\ ReadWidth(i) = SrcWidth(i)
  BY <1>2 DEF ReadAddress, ReadWidth
<1>6. Reads(i) <=> i.form = "rm" \/ ~opcode_table(i).mov
  BY <1>1, <1>2, <1>3, Moves DEF Reads
<1>7. i.form # "rm" => SrcWidth(i) = i.w
  BY <1>3 DEF SrcWidth
<1> QED BY <1>4, <1>5, <1>6, <1>7

\* The same of an instruction that traps.
LEMMA OperandAddress ==
  ASSUME NEW i, Decoded(i), i.form # "implicit", NEW v \in Cpu, Trapped(i, v)
  PROVE  /\ ReadAddress(i, v) = i.ea /\ i.ea \in Word /\ ReadWidth(i) \in 1 .. 4
         /\ Reads(i) => Region[i.ea] = "io" /\ ReadsDevice(i, v)
         /\ ReadsDevice(i, v) => Reads(i)
         /\ ~Stuck(i, v)
<1>1. i.op \notin {"movs", "lods", "stos", "cmps", "cmpxchg8b"}
  BY Forms
<1>2. ReadAddress(i, v) = i.ea /\ ~Stuck(i, v)
  BY <1>1 DEF ReadAddress, Stuck
<1>3. i.ea \in Word /\ ReadWidth(i) \in 1 .. 4
  BY SourceWidth DEF Decoded, ReadWidth
<1>4. Reads(i) => Region[i.ea] = "io"
  <2>1. Reads(i) => i.op # "pop"
    BY Forms, Moves DEF Reads
  <2> QED BY <1>1, <2>1, TrappedAt
<1> QED BY <1>2, <1>3, <1>4 DEF ReadsDevice

\* Fetching the destination.
LEMMA FetchesDestination ==
  ASSUME NEW i, Decoded(i), i.form # "implicit", NEW v \in Cpu, Trapped(i, v), NEW m, NEW c,
         Begins(i, v, m, c), NEW x \in Word,
         m.completed => x % 2^ReadWidth(i) = m.data % 2^ReadWidth(i)
  PROVE  \/ Fetched(i, v, m, x, FetchDst(i, c))
         \/ Stopped(i, v, FetchDst(i, c)) /\ ~m.completed
<1> DEFINE d == FetchDst(i, c)
           o == DstOf(i, v, x)
           r == emulator_read_emulated(m, i.ea, i.w)
<1>1. /\ DOMAIN c = ContextFields
      /\ c.rc = "continue" /\ c.cr2 = TrapAddress(i, v) /\ c.eip = 1 /\ c.regs = v.regs
      /\ c.zf = v.zf /\ c.cf = v.cf /\ c.mm = m /\ c.dst = NoOperand /\ c.src = NoOperand
      /\ c.mov \in BOOLEAN /\ (c.mov <=> opcode_table(i).mov) /\ c.lock \in BOOLEAN
      /\ m \in Mmio /\ ~m.needed /\ ~m.write
  BY BeginsFields
<1>2. m.completed => ReadsDevice(i, v)
  BY DEF Begins
<1>3. CASE i.form = "rm"
  <2>1. d = [c EXCEPT !.dst = o]
    <3>1. opcode_table(i).dst = "reg"
      BY <1>3, OperandForms
    <3> QED BY <1>1, <1>3, <3>1 DEF FetchDst, DstOf, Operand, DstReg
  <2> HIDE DEF d, o
  <2>2. Carried(i, v, d) /\ d.dst = o /\ d.src = NoOperand /\ d.mm = m
    BY <1>1, <2>1 DEF Carried, ContextFields
  <2>3. Fetched(i, v, m, x, d)
    BY <1>3, <2>2 DEF Fetched, o
  <2> QED BY <2>3 DEF d
<1>4. CASE i.form # "rm" /\ c.mov
  <2>1. d = [c EXCEPT !.dst = o]
    <3>1. opcode_table(i).dst = "mem" /\ opcode_table(i).mov
      BY <1>1, <1>4, OperandForms
    <3> QED BY <1>1, <1>4, <3>1 DEF FetchDst, DstOf, Operand
  <2>2. ~ReadsDevice(i, v)
    BY <1>1, <1>4, OperandForms, OperandAddress
  <2> HIDE DEF d, o
  <2>3. Carried(i, v, d) /\ d.dst = o /\ d.src = NoOperand /\ d.mm = m
    BY <1>1, <2>1 DEF Carried, ContextFields
  <2>4. Fetched(i, v, m, x, d)
    BY <1>2, <1>4, <2>2, <2>3 DEF Fetched, o
  <2> QED BY <2>4 DEF d
<1>5. CASE i.form # "rm" /\ ~c.mov
  <2> DEFINE a == i.ea
             w == i.w
             q == Operand("mem", a, w, r.val)
  <2>1. d = [c EXCEPT !.rc = r.rc, !.mm = r.mm, !.dst = q]
    <3>1. opcode_table(i).dst = "mem"
      BY <1>5, OperandForms
    <3> QED BY <1>1, <1>5, <3>1 DEF FetchDst, Operand
  <2>2. d.rc = r.rc /\ d.mm = r.mm
    <3> HIDE DEF d, r, q
    <3> QED BY <1>1, <2>1 DEF ContextFields
  <2>3. /\ Reads(i) /\ Region[a] = "io" /\ ReadsDevice(i, v) /\ ReadAddress(i, v) = a
        /\ a \in Word /\ ReadWidth(i) = w /\ w \in 1 .. 4
    BY <1>1, <1>5, OperandForms, OperandAddress
  <2>4. CASE ~m.completed
    <3> DEFINE u == [m EXCEPT !.needed = TRUE, !.write = FALSE, !.a = a, !.w = w]
    <3>1. emulator_read_std(a, w) = [rc |-> "unhandleable", val |-> 0]
      BY <2>3 DEF emulator_read_std
    <3>2. r = [rc |-> "unhandleable", val |-> 0, mm |-> u]
      <4> HIDE DEF u
      <4> QED BY <2>4, <3>1 DEF emulator_read_emulated, u
    <3>3. r.rc = "unhandleable" /\ r.mm = u
      <4> HIDE DEF r, u
      <4> QED BY <3>2
    <3> HIDE DEF d, r, a, w
    <3>4. d.rc = "unhandleable"
          /\ d.mm = [m EXCEPT !.needed = TRUE, !.write = FALSE, !.a = ReadAddress(i, v),
                              !.w = ReadWidth(i)]
      BY <2>2, <2>3, <3>3
    <3>5. Stopped(i, v, d)
      BY <1>1, <2>3, <2>4, <3>4, Asks
    <3> QED BY <2>4, <3>5 DEF d
  <2>5. CASE m.completed
    <3>1. r.rc = "continue" /\ r.val = m.data % 2^w /\ r.mm = [m EXCEPT !.completed = FALSE]
      BY <1>1, <2>5, ReadTaken
    <3>2. m.data % 2^w = x % 2^w
      BY <2>3, <2>5
    <3>3. q = o
      <4>1. r.val = x % 2^w /\ ~opcode_table(i).mov
        <5> HIDE DEF r
        <5> QED BY <1>1, <1>5, <3>1, <3>2
      <4> HIDE DEF r
      <4> QED BY <1>5, <4>1 DEF DstOf
    <3>4. r.mm \in Mmio /\ ~r.mm.needed /\ ~r.mm.write /\ ~r.mm.completed
      <4> HIDE DEF r
      <4> QED BY <1>1, <3>1, Takes
    <3> HIDE DEF d, r, q, o
    <3>5. Carried(i, v, d) /\ d.dst = o /\ d.src = NoOperand
      BY <1>1, <2>1, <3>1, <3>3, <3>4 DEF Carried, ContextFields
    <3>6. Fetched(i, v, m, x, d)
      BY <1>5, <2>2, <2>5, <3>4, <3>5 DEF Fetched, o
    <3> QED BY <3>6 DEF d
  <2> QED BY <2>4, <2>5
<1> QED BY <1>1, <1>3, <1>4, <1>5

\* Fetching the source.
LEMMA FetchesSource ==
  ASSUME NEW i, Decoded(i), i.form # "implicit", NEW v \in Cpu, Trapped(i, v), NEW m \in Mmio,
         NEW c, NEW x \in Word, Fetched(i, v, m, x, c),
         m.completed => x % 2^ReadWidth(i) = m.data % 2^ReadWidth(i)
  PROVE  \/ Ready(i, v, x, FetchSrc(i, c)) /\ (ReadsDevice(i, v) => m.completed)
         \/ Stopped(i, v, FetchSrc(i, c)) /\ ~m.completed
<1> DEFINE d == FetchSrc(i, c)
           o == SrcOf(i, v, x)
           w == SrcWidth(i)
           a == i.ea
           r == emulator_read_emulated(m, a, w)
<1>1. /\ DOMAIN c = ContextFields
      /\ c.rc = "continue" /\ c.cr2 = TrapAddress(i, v) /\ c.eip = 1 /\ c.regs = v.regs
      /\ c.zf = v.zf /\ c.cf = v.cf /\ c.dst = DstOf(i, v, x) /\ c.src = NoOperand
      /\ c.mm \in Mmio /\ ~c.mm.needed /\ ~c.mm.write
      /\ c.mov \in BOOLEAN /\ (c.mov <=> opcode_table(i).mov) /\ c.lock \in BOOLEAN
  BY DEF Fetched, Carried
<1>2. CASE i.form # "rm"
  <2>1. ~c.mm.completed /\ (ReadsDevice(i, v) => m.completed)
    BY <1>2 DEF Fetched
  <2>2. d = IF i.form = "m" THEN c ELSE [c EXCEPT !.src = o]
    <3>1. opcode_table(i).src = (IF i.form = "mr" THEN "reg"
                                 ELSE IF i.form = "mi" THEN "imm" ELSE "none")
          /\ i.form \in {"mr", "mi", "m"}
      BY <1>2, OperandForms DEF Decoded
    <3>2. CASE i.form = "mr"
      BY <1>1, <3>1, <3>2 DEF FetchSrc, SrcOf, Operand, SrcReg
    <3>3. CASE i.form = "mi"
      BY <1>1, <3>1, <3>3 DEF FetchSrc, SrcOf, Operand
    <3>4. CASE i.form = "m"
      BY <1>1, <3>1, <3>4 DEF FetchSrc
    <3> QED BY <3>1, <3>2, <3>3, <3>4
  <2>3. i.form = "m" => o = c.src
    BY <1>1 DEF SrcOf
  <2> HIDE DEF d, o
  <2>4. Carried(i, v, d) /\ d.dst = c.dst /\ d.src = o /\ d.mm = c.mm
    BY <1>1, <2>2, <2>3 DEF Carried, ContextFields
  <2>5. Ready(i, v, x, d)
    BY <1>1, <2>1, <2>4 DEF Ready, o
  <2> QED BY <2>1, <2>5 DEF d
<1>3. CASE i.form = "rm"
  <2> DEFINE q == Operand("mem", a, w, r.val)
  <2>1. d = [c EXCEPT !.rc = r.rc, !.mm = r.mm, !.src = q]
    <3>1. opcode_table(i).src = "mem" /\ c.mm = m
      BY <1>3, OperandForms DEF Fetched
    <3> QED BY <3>1 DEF FetchSrc, Operand
  <2>2. d.rc = r.rc /\ d.mm = r.mm
    <3> HIDE DEF d, r, q
    <3> QED BY <1>1, <2>1 DEF ContextFields
  <2>3. /\ Region[a] = "io" /\ ReadsDevice(i, v) /\ ReadAddress(i, v) = a
        /\ a \in Word /\ ReadWidth(i) = w /\ w \in 1 .. 4
    BY <1>3, OperandForms, OperandAddress
  <2>4. c.mm = m
    BY <1>3 DEF Fetched
  <2>5. CASE ~m.completed
    <3> DEFINE u == [m EXCEPT !.needed = TRUE, !.write = FALSE, !.a = a, !.w = w]
    <3>1. emulator_read_std(a, w) = [rc |-> "unhandleable", val |-> 0]
      BY <2>3 DEF emulator_read_std
    <3>2. r = [rc |-> "unhandleable", val |-> 0, mm |-> u]
      <4> HIDE DEF u
      <4> QED BY <2>5, <3>1 DEF emulator_read_emulated, u
    <3>3. r.rc = "unhandleable" /\ r.mm = u
      <4> HIDE DEF r, u
      <4> QED BY <3>2
    <3> HIDE DEF d, r, a, w
    <3>4. d.rc = "unhandleable"
          /\ d.mm = [m EXCEPT !.needed = TRUE, !.write = FALSE, !.a = ReadAddress(i, v),
                              !.w = ReadWidth(i)]
      BY <2>2, <2>3, <3>3
    <3>5. Stopped(i, v, d)
      BY <2>3, <2>5, <3>4, Asks
    <3> QED BY <2>5, <3>5 DEF d
  <2>6. CASE m.completed
    <3>1. r.rc = "continue" /\ r.val = m.data % 2^w /\ r.mm = [m EXCEPT !.completed = FALSE]
      BY <2>6, ReadTaken
    <3>2. m.data % 2^w = x % 2^w
      BY <2>3, <2>6
    <3>3. q = o
      <4>1. r.val = x % 2^w
        <5> HIDE DEF r
        <5> QED BY <3>1, <3>2
      <4> HIDE DEF r
      <4> QED BY <1>3, <4>1 DEF SrcOf
    <3>4. r.mm \in Mmio /\ ~r.mm.needed /\ ~r.mm.write /\ ~r.mm.completed
      <4> HIDE DEF r
      <4> QED BY <1>1, <2>4, <3>1, Takes
    <3> HIDE DEF d, r, q, o
    <3>5. Carried(i, v, d) /\ d.dst = c.dst /\ d.src = o
      BY <1>1, <2>1, <3>1, <3>3, <3>4 DEF Carried, ContextFields
    <3>6. Ready(i, v, x, d)
      BY <1>1, <2>2, <3>4, <3>5 DEF Ready, o
    <3> QED BY <2>6, <3>6 DEF d
  <2> QED BY <2>5, <2>6
<1> QED BY <1>2, <1>3

-----------------------------------------------------------------------------
(* The invariant.                                                          *)

\* Decoding: the encoding is one of the given ones, and dec is what
\* x86_emulate_memop makes of it.
DecodeInv ==
    /\ enc \in Encodings /\ insn = <<>>
    /\ pc = "decoded" =>
          dec = [ea |-> modrm_ea(enc), op |-> op_bytes(enc), ad |-> ad_bytes(enc),
                 reg |-> DstRegister(enc.op, enc.byte, enc.reg, enc.rex)]

Typed ==
    /\ insn \in Insns /\ cpu \in Cpu /\ ram \in [Word -> Word] /\ mm \in Mmio
    /\ Begun(begin) /\ first \in Cpu

Reading == [k : {"r"}, a : Word, w : 1 .. 4, v : Word]

\* Nothing is committed: devices have been read at most.
Untouched == cpu = begin.cpu /\ ram = begin.ram /\ acc \in Seq(Reading)

\* What has been read is the answer that is waiting.
Pending ==
    /\ Untouched /\ ~mm.needed
    /\ mm.completed => ReadsDevice(insn, begin.cpu) /\ Trapped(insn, begin.cpu)
    /\ ~Stuck(insn, begin.cpu) =>
          acc = IF mm.completed
                THEN <<R(ReadAddress(insn, begin.cpu), ReadWidth(insn), mm.data)>> ELSE <<>>

\* A device that the instruction reads has answered.
Answered == ReadsDevice(insn, begin.cpu) => mm.completed

Refused == {"push", "mul", "cmps"}

\* vcpu->mmio_* as x86_emulate_memop finds it.
Mm0 == [mm EXCEPT !.write = FALSE]

\* What holds at the stages of the emulator.
Special0 == insn.form = "implicit" /\ Begins(insn, begin.cpu, Mm0, ctxt)
Dst0 == insn.form # "implicit" /\ Begins(insn, begin.cpu, Mm0, ctxt)
Src0 == insn.form # "implicit" /\ Fetched(insn, begin.cpu, Mm0, Got, ctxt)
Execute0 == insn.form # "implicit" /\ Ready(insn, begin.cpu, Got, ctxt) /\ Answered
Writeback0 ==
    /\ ctxt.rc = "continue" /\ DOMAIN ctxt = ContextFields
    /\ Answered /\ insn.op \notin Refused
    /\ Stuck(insn, begin.cpu) => Writeback(ctxt).rc # "continue"
    /\ \A lazy \in BOOLEAN : lazy =>
          Ends(insn, begin.cpu, Done(insn, begin, Got, lazy), Writeback(ctxt))
Done0 ==
    /\ \A lazy \in BOOLEAN : lazy => Ends(insn, begin.cpu, Done(insn, begin, Got, lazy), ctxt)
    /\ ctxt.rc = "continue" =>
          Answered /\ insn.op \notin Refused /\ ~Stuck(insn, begin.cpu)
    /\ ctxt.rc = "unhandleable" /\ ctxt.mm.needed => ~mm.completed

Stages == {"special", "dst", "src", "execute", "writeback", "done"}
Emulating ==
    /\ Pending /\ Trapped(insn, begin.cpu)
    /\ pc = "special" => Special0
    /\ pc = "dst" => Dst0
    /\ pc = "src" => Src0
    /\ pc = "execute" => Execute0
    /\ pc = "writeback" => Writeback0
    /\ pc = "done" => Done0

\* User space is asked to read what the instruction reads.
Asking ==
    /\ Untouched /\ Trapped(insn, begin.cpu) /\ ReadsDevice(insn, begin.cpu)
    /\ ~mm.completed /\ mm.a = ReadAddress(insn, begin.cpu) /\ mm.w = ReadWidth(insn)
    /\ ~Stuck(insn, begin.cpu) => acc = <<>>

\* The accesses of an iteration that has read what it reads.
Heard ==
    IF ReadsDevice(insn, begin.cpu)
    THEN \E z \in Word : acc = <<R(ReadAddress(insn, begin.cpu), ReadWidth(insn), z)>>
    ELSE acc = <<>>

\* Registers, flags and rip are committed.
Committed(i, e, v) ==
    /\ v.regs = e.regs /\ v.zf = e.zf /\ Flag(v.cf) /\ (i.op # "cmpxchg" => v.cf = e.cf)
    /\ v.rip = IF i.rep THEN 0 ELSE 1

\* User space is asked for the write, with everything else committed.
Writing ==
    /\ Trapped(insn, begin.cpu) /\ insn.op \notin Refused
    /\ ram = begin.ram /\ ~mm.completed /\ Heard
    /\ \A lazy \in BOOLEAN : lazy =>
          /\ Committed(insn, Done(insn, begin, Got, lazy), cpu)
          /\ WriteIs(Done(insn, begin, Got, lazy), mm)

EmulateInv ==
    /\ pc \in {"decode", "decoded", "guest", "user", "retired", "end", "faulted", "fail"}
              \cup Stages
    /\ pc \in {"decode", "decoded"} => DecodeInv
    /\ pc \notin {"decode", "decoded"} => Typed
    /\ pc \in {"guest", "faulted"} => Pending
    /\ pc \in Stages => Emulating
    /\ pc = "user" => IF mm.write THEN Writing ELSE Asking
    /\ pc = "retired" => AsArch /\ Got \in Word /\ ~mm.needed /\ ~mm.completed
    /\ pc = "end" => cpu = begin.cpu
    /\ pc = "fail" => Untouched

-----------------------------------------------------------------------------
(* What the iteration has read.                                            *)

\* The address an effect writes to.
WriteAddress(i, v) == IF i.op \in {"movs", "stos"} THEN Di(i, v) ELSE i.ea

\* Writing or not writing at an address.
LEMMA WritesAt ==
  ASSUME NEW t, NEW a, NEW w, NEW z, t = <<>> \/ t = <<a, w, z>>
  PROVE  t # <<>> => t[1] = a
OBVIOUS

\* The accesses of an effect are those of the instruction.
LEMMA EffectAccesses ==
  ASSUME NEW i, Decoded(i), i.op \notin {"push", "mul"}, NEW b, Begun(b), ~Exhausted(i, b.cpu),
         NEW v \in Word, NEW lazy \in BOOLEAN
  PROVE  /\ Effect(i, b, v, lazy).reads
              = IF Reads(i) THEN <<ReadAddress(i, b.cpu), ReadWidth(i)>> ELSE <<>>
         /\ Effect(i, b, v, lazy).write # <<>> =>
              /\ Effect(i, b, v, lazy).write[1] = WriteAddress(i, b.cpu)
              /\ i.op \notin {"lods", "cmps"}
<1> DEFINE e == Effect(i, b, v, lazy)
           a == WriteAddress(i, b.cpu)
           reads == IF Reads(i) THEN <<ReadAddress(i, b.cpu), ReadWidth(i)>> ELSE <<>>
<1>1. CASE i.op \in Alu2 \cup Alu1 \cup {"xchg", "cmovz", "cmpxchg", "movzx8", "movzx16", "movsx8",
                                       "movsx16", "movsxd"}
  <2>1. Reads(i) /\ ReadAddress(i, b.cpu) = i.ea /\ ReadWidth(i) = SrcWidth(i) /\ a = i.ea
    BY <1>1, Forms DEF Reads, ReadAddress, ReadWidth, WriteAddress, Alu1, Alu2
  <2>2. e.reads = <<i.ea, SrcWidth(i)>> /\ (e.write # <<>> => e.write[1] = i.ea)
    <3> HIDE DEF e
    <3>1. CASE i.op \in Alu2 /\ i.form = "rm"
      BY <3>1, EffectAluReg DEF e, IsEffect
    <3>2. CASE i.op \in Alu2 /\ i.form # "rm"
      <4> DEFINE r == Alu(i.op, v % 2^i.w, Other(i, b.cpu.regs), b.cpu.zf, b.cpu.cf, i.w)
      <4>1. IsEffect(e, b.cpu.regs, r.zf, r.cf, <<i.ea, SrcWidth(i)>>,
                     IF i.op = "cmp" \/ (lazy /\ r.val = v % 2^i.w) THEN <<>>
                     ELSE <<i.ea, i.w, r.val>>)
        BY <3>2, EffectAluMem DEF e
      <4> HIDE DEF r
      <4>2. e.write = <<>> \/ e.write = <<i.ea, i.w, r.val>>
        BY <4>1, Zenon DEF IsEffect
      <4> QED BY <4>1, <4>2, WritesAt DEF IsEffect
    <3>3. CASE i.op \in Alu1
      <4> DEFINE r == Alu(i.op, v % 2^i.w, 0, b.cpu.zf, b.cpu.cf, i.w)
      <4>1. IsEffect(e, b.cpu.regs, r.zf, r.cf, <<i.ea, SrcWidth(i)>>,
                     IF lazy /\ r.val = v % 2^i.w THEN <<>> ELSE <<i.ea, i.w, r.val>>)
        BY <3>3, EffectAlu1 DEF e
      <4> HIDE DEF r
      <4>2. e.write = <<>> \/ e.write = <<i.ea, i.w, r.val>>
        BY <4>1, Zenon DEF IsEffect
      <4> QED BY <4>1, <4>2, WritesAt DEF IsEffect
    <3>4. CASE i.op = "xchg"
      <4> DEFINE z == Other(i, b.cpu.regs)
      <4>1. IsEffect(e, PutByteOrWord(i, b.cpu.regs, v % 2^i.w), b.cpu.zf, b.cpu.cf,
                     <<i.ea, SrcWidth(i)>>, IF lazy /\ z = v % 2^i.w THEN <<>> ELSE <<i.ea, i.w, z>>)
        BY <3>4, EffectXchg DEF e
      <4> HIDE DEF z
      <4>2. e.write = <<>> \/ e.write = <<i.ea, i.w, z>>
        BY <4>1, Zenon DEF IsEffect
      <4> QED BY <4>1, <4>2, WritesAt DEF IsEffect
    <3>5. CASE i.op = "cmovz" BY <3>5, EffectCmov DEF e, IsEffect
    <3>6. CASE i.op = "cmpxchg"
      <4> DEFINE swap == v % 2^i.w = b.cpu.regs[RAX] % 2^i.w
                 regs == IF swap THEN b.cpu.regs ELSE Put(b.cpu.regs, RAX, i.w, v % 2^i.w)
                 z == Other(i, b.cpu.regs)
                 less == b.cpu.regs[RAX] % 2^i.w < v % 2^i.w
      <4>1. IsEffect(e, regs, swap, less, <<i.ea, SrcWidth(i)>>,
                     IF swap THEN <<i.ea, i.w, z>> ELSE <<>>)
        BY <3>6, EffectCmpxchg DEF e
      <4> HIDE DEF swap, regs, z, less
      <4>2. e.write = <<>> \/ e.write = <<i.ea, i.w, z>>
        BY <4>1, Zenon DEF IsEffect
      <4> QED BY <4>1, <4>2, WritesAt DEF IsEffect
    <3>7. CASE i.op \in {"movzx8", "movzx16"} BY <3>7, EffectMovzx DEF e, IsEffect
    <3>8. CASE i.op \in {"movsx8", "movsx16", "movsxd"} BY <3>8, EffectMovsx DEF e, IsEffect
    <3> QED BY <1>1, <3>1, <3>2, <3>3, <3>4, <3>5, <3>6, <3>7, <3>8
  <2> QED BY <1>1, <2>1, <2>2 DEF Alu1, Alu2
<1>2. CASE i.op = "mov"
  <2>1. CASE i.form = "rm"
    <3>1. reads = <<i.ea, SrcWidth(i)>> /\ a = i.ea
      BY <1>2, <2>1 DEF Reads, ReadAddress, ReadWidth, WriteAddress
    <3> QED BY <1>2, <2>1, <3>1, EffectMovReg DEF IsEffect
  <2>2. CASE i.form # "rm"
    <3>1. reads = <<>> /\ a = i.ea
      BY <1>2, <2>2 DEF Reads, WriteAddress
    <3> QED BY <1>2, <2>2, <3>1, EffectMovMem DEF IsEffect
  <2> QED BY <2>1, <2>2
<1>3. CASE i.op = "pop"
  <2>1. reads = <<>> /\ a = i.ea
    BY <1>3, Forms DEF Reads, WriteAddress
  <2> DEFINE n == PopWidth(i)
             z == b.ram[Sp(i, b.cpu)] % 2^n
             regs == [b.cpu.regs EXCEPT ![RSP] = Popped(i, n, b.cpu.regs[RSP])]
  <2>3. IsEffect(e, regs, b.cpu.zf, b.cpu.cf, <<>>, <<i.ea, n, z>>)
    BY <1>3, EffectPop, PopParts
  <2> HIDE DEF n, z, regs
  <2>2. e.reads = <<>> /\ e.write = <<i.ea, n, z>>
    BY <2>3, Zenon DEF IsEffect
  <2> QED BY <1>3, <2>1, <2>2, WritesAt
<1>4. CASE i.op = "cmpxchg8b"
  <2>1. reads = <<i.ea, 4>> /\ a = i.ea
    BY <1>4 DEF Reads, ReadAddress, ReadWidth, WriteAddress
  <2> DEFINE g == b.cpu.regs
             swap == v % 8 = g[RAX] % 8 /\ v \div 8 = g[RDX] % 8
             regs == IF swap THEN g ELSE [g EXCEPT ![RAX] = v % 8, ![RDX] = v \div 8]
             z == 8 * (g[RCX] % 2) + (g[RBX] % 8)
  <2>2. IsEffect(e, regs, swap, b.cpu.cf, <<i.ea, 4>>, IF swap THEN <<i.ea, 4, z>> ELSE <<>>)
    BY <1>4, EffectCmpxchg8b
  <2> HIDE DEF regs, swap, z
  <2>3. e.write = <<>> \/ e.write = <<i.ea, 4, z>>
    BY <2>2, Zenon DEF IsEffect
  <2> QED BY <1>4, <2>1, <2>2, <2>3, WritesAt DEF IsEffect
<1>5. CASE i.op = "movs"
  <2>1. reads = <<Si(i, b.cpu), i.w>> /\ a = Di(i, b.cpu)
    BY <1>5 DEF Reads, ReadAddress, ReadWidth, SrcWidth, WriteAddress
  <2> QED BY <1>5, <2>1, EffectMovs DEF IsEffect
<1>6. CASE i.op = "stos"
  <2>1. reads = <<>> /\ a = Di(i, b.cpu)
    BY <1>6, Forms DEF Reads, WriteAddress
  <2> QED BY <1>6, <2>1, EffectStos DEF IsEffect
<1>7. CASE i.op = "lods"
  <2>1. reads = <<Si(i, b.cpu), i.w>>
    BY <1>7 DEF Reads, ReadAddress, ReadWidth, SrcWidth
  <2> QED BY <1>7, <2>1, EffectLods DEF IsEffect
<1>8. CASE i.op = "cmps"
  <2>1. reads = <<>>
    BY <1>8, Forms DEF Reads
  <2> QED BY <1>8, <2>1, EffectCmps
<1> QED BY <1>1, <1>2, <1>3, <1>4, <1>5, <1>6, <1>7, <1>8, Forms DEF Alu1, Alu2

\* Memory where an instruction begins to touch it.
FirstTouched(i, b) ==
    IF Touches(i, b.cpu) = <<>> THEN 0 ELSE b.ram[Touches(i, b.cpu)[1]]

\* What an iteration with accesses s has read.
GotBy(i, b, s) ==
    LET reads == {n \in DOMAIN s : s[n].k = "r"}
    IN  IF reads # {} THEN s[CHOOSE n \in reads : \A m \in reads : n <= m].v
        ELSE FirstTouched(i, b)

\* Got is what the recorded accesses have read.
LEMMA GotIs == Got = GotBy(insn, begin, acc)
BY DEF Got, GotBy, FirstTouched

\* Nothing but writes: memory has been read.
LEMMA GotMemory ==
  ASSUME NEW i, NEW b, NEW s, \A n \in DOMAIN s : s[n].k # "r"
  PROVE  GotBy(i, b, s) = FirstTouched(i, b)
BY DEF GotBy

\* A read first: it has been read.
LEMMA GotAnswer ==
  ASSUME NEW i, NEW b, NEW s, NEW len \in Nat, DOMAIN s = 1 .. len, len > 0, s[1].k = "r"
  PROVE  GotBy(i, b, s) = s[1].v
<1> DEFINE reads == {n \in DOMAIN s : s[n].k = "r"}
           first1 == CHOOSE n \in reads : \A m \in reads : n <= m
<1>1. 1 \in reads /\ \A m \in reads : 1 <= m /\ m \in Nat
  OBVIOUS
<1>2. first1 \in reads /\ \A m \in reads : first1 <= m
  BY <1>1
<1>3. first1 = 1
  BY <1>1, <1>2
<1> QED BY <1>1, <1>3 DEF GotBy

\* Where an instruction begins to touch memory.
LEMMA TouchesFirst ==
  ASSUME NEW i, Decoded(i), NEW b, Begun(b)
  PROVE  /\ FirstTouched(i, b) \in Word
         /\ ~Exhausted(i, b.cpu) /\ i.op = "movs" => FirstTouched(i, b) = b.ram[Si(i, b.cpu)]
<1>1. Si(i, b.cpu) \in Word /\ Di(i, b.cpu) \in Word
      /\ (i.op = "pop" => Sp(i, b.cpu) \in Word)
  BY BegunCpu, RegisterAddress, Registers, Pointers DEF Si, Di
<1>2. i.ea \in Word
  BY DEF Decoded
<1>3. \/ Touches(i, b.cpu) = <<>>
      \/ Touches(i, b.cpu) # <<>> /\ Touches(i, b.cpu)[1] \in Word
  BY <1>1, <1>2, BegunCpu, Touched
<1>4. ~Exhausted(i, b.cpu) /\ i.op = "movs" =>
        Touches(i, b.cpu) # <<>> /\ Touches(i, b.cpu)[1] = Si(i, b.cpu)
  BY BegunCpu, Touched
<1> QED BY <1>1, <1>3, <1>4 DEF FirstTouched, Begun, Word

\* The one read of an iteration.
LEMMA GotOne ==
  ASSUME NEW i, NEW b, NEW r, r.k = "r", NEW s, s = <<r>>
  PROVE  GotBy(i, b, s) = r.v
<1> DEFINE len == 1
<1>1. DOMAIN s = 1 .. len /\ s[1] = r /\ len \in Nat /\ len > 0
  OBVIOUS
<1> HIDE DEF len
<1> QED BY <1>1, GotAnswer

\* Reading is reading a value.
LEMMA GotType ==
  ASSUME NEW i, Decoded(i), NEW b, Begun(b), NEW s \in Seq(Reading)
  PROVE  GotBy(i, b, s) \in Word /\ (s = <<>> => GotBy(i, b, s) = FirstTouched(i, b))
<1>1. DOMAIN s = 1 .. Len(s) /\ Len(s) \in Nat
  OBVIOUS
<1>2. CASE s = <<>>
  BY <1>2, GotMemory, TouchesFirst
<1>3. CASE s # <<>>
  <2>1. Len(s) > 0
    BY <1>3
  <2>2. s[1] \in Reading
    BY <1>1, <2>1
  <2>3. s[1].k = "r" /\ s[1].v \in Word
    BY <2>2 DEF Reading
  <2> QED BY <1>1, <1>3, <2>1, <2>3, GotAnswer
<1> QED BY <1>2, <1>3

\* What is known while the emulator runs.
LEMMA PendingKnows ==
  ASSUME NEW i, i = insn, Decoded(i), NEW b, b = begin, Begun(b), mm \in Mmio, Pending,
         Trapped(i, b.cpu)
  PROVE  Got \in Word /\ (~Stuck(i, b.cpu) => Knows(i, b, Mm0, Got))
<1>1. Got = GotBy(i, b, acc) /\ acc \in Seq(Reading)
  BY GotIs DEF Pending, Untouched
<1>2. Got \in Word
  BY <1>1, GotType
<1>3. Mm0.completed = mm.completed /\ Mm0.data = mm.data /\ mm.data \in Word
  BY DEF Mm0, Mmio
<1>4. ASSUME ~Stuck(i, b.cpu) PROVE Knows(i, b, Mm0, Got)
  <2>1. CASE mm.completed
    <3> DEFINE w == ReadWidth(i)
               a == ReadAddress(i, b.cpu)
    <3>1. acc = <<R(a, w, mm.data)>>
      BY <1>4, <2>1 DEF Pending
    <3>2. w \in 1 .. 4
      BY SourceWidth DEF ReadWidth
    <3> HIDE DEF w, a
    <3>3. Got = mm.data % 2^w
      <4> DEFINE r == R(a, w, mm.data)
      <4>1. r.k = "r" /\ r.v = mm.data % 2^w
        BY DEF R
      <4> HIDE DEF r
      <4>2. Got = r.v
        BY <1>1, <3>1, <4>1, GotOne DEF r
      <4> QED BY <4>1, <4>2
    <3>4. Got % 2^w = mm.data % 2^w
      BY <1>3, <3>2, <3>3, Truncated
    <3> QED BY <1>2, <1>3, <2>1, <3>4 DEF Knows, w
  <2>2. CASE ~mm.completed
    <3>1. acc = <<>>
      BY <1>4, <2>2 DEF Pending
    <3>2. ~Exhausted(i, b.cpu)
      BY BegunCpu, TrappedAt
    <3>3. i.op = "movs" => Got = b.ram[Si(i, b.cpu)]
      BY <1>1, <3>1, <3>2, GotType, TouchesFirst
    <3> QED BY <1>2, <1>3, <2>2, <3>3 DEF Knows
  <2> QED BY <2>1, <2>2
<1> QED BY <1>2, <1>4

-----------------------------------------------------------------------------
(* The accesses that devices see.                                          *)

\* The read of an iteration that reads x, and the write of effect e.
ReadPart(i, v, x) ==
    IF ReadsDevice(i, v) THEN <<R(ReadAddress(i, v), ReadWidth(i), x)>> ELSE <<>>
WritePart(e) ==
    IF e.write # <<>> /\ IsIo(e.write[1]) THEN <<W(e.write[1], e.write[2], e.write[3])>>
    ELSE <<>>

\* Registers and memory of effect e.
CpuOf(i, e) == [regs |-> e.regs, zf |-> e.zf, cf |-> e.cf, rip |-> IF i.rep THEN 0 ELSE 1]
RamOf(e, m) ==
    IF e.write # <<>> /\ ~IsIo(e.write[1])
    THEN StoreRam(m, e.write[1], e.write[2], e.write[3]) ELSE m

\* The outcome of an iteration, field by field.
LEMMA OutcomeIs ==
  ASSUME NEW i, Decoded(i), i.op \notin {"push", "mul"}, NEW b, Begun(b), ~Exhausted(i, b.cpu),
         NEW x \in Word, NEW lazy \in BOOLEAN
  PROVE  /\ Outcome(i, b, x, lazy).cpu = CpuOf(i, Effect(i, b, x, lazy))
         /\ Outcome(i, b, x, lazy).ram = RamOf(Effect(i, b, x, lazy), b.ram)
         /\ Outcome(i, b, x, lazy).acc
              = ReadPart(i, b.cpu, x) \o WritePart(Effect(i, b, x, lazy))
<1> DEFINE e == Effect(i, b, x, lazy)
           a == ReadAddress(i, b.cpu)
           w == ReadWidth(i)
           reads == IF e.reads # <<>> /\ IsIo(e.reads[1]) THEN <<R(e.reads[1], e.reads[2], x)>>
                    ELSE <<>>
           io == IsIo(a)
           r == R(a, w, x)
<1>1. Outcome(i, b, x, lazy)
        = [cpu |-> CpuOf(i, e), ram |-> RamOf(e, b.ram), acc |-> reads \o WritePart(e)]
  BY Zenon DEF Outcome, CpuOf, RamOf, WritePart
<1>2. e.reads = IF Reads(i) THEN <<a, w>> ELSE <<>>
  BY EffectAccesses
<1>3. ReadPart(i, b.cpu, x) = IF Reads(i) /\ io THEN <<r>> ELSE <<>>
  BY DEF ReadPart, ReadsDevice, IsIo
<1>4. reads = ReadPart(i, b.cpu, x)
  <2>1. CASE Reads(i)
    <3> HIDE DEF e, a, w
    <3>1. e.reads # <<>> /\ e.reads[1] = a /\ e.reads[2] = w
      BY <1>2, <2>1
    <3> QED BY <1>3, <2>1, <3>1, Zenon
  <2>2. CASE ~Reads(i)
    <3>1. e.reads = <<>>
      BY <1>2, <2>2
    <3> HIDE DEF e
    <3> QED BY <1>3, <2>2, <3>1, Zenon
  <2> QED BY <2>1, <2>2
<1> HIDE DEF e, reads
<1>5. /\ Outcome(i, b, x, lazy).cpu = CpuOf(i, e)
      /\ Outcome(i, b, x, lazy).ram = RamOf(e, b.ram)
      /\ Outcome(i, b, x, lazy).acc = reads \o WritePart(e)
  BY <1>1
<1> QED BY <1>4, <1>5 DEF e

\* Truncating twice is truncating once.
LEMMA TruncatedTwice ==
  ASSUME NEW a \in Word, NEW w \in 1 .. 4, NEW z \in Word
  PROVE  /\ R(a, w, z % 2^w) = R(a, w, z) /\ W(a, w, z % 2^w) = W(a, w, z)
         /\ \A m : StoreRam(m, a, w, z % 2^w) = StoreRam(m, a, w, z)
<1>1. (z % 2^w) % 2^w = z % 2^w
  BY Truncated
<1> QED BY <1>1, Zenon DEF R, W, StoreRam

\* Memory stays memory.
LEMMA StoreType ==
  ASSUME NEW m \in [Word -> Word], NEW a \in Word, NEW w \in 1 .. 4, NEW z \in Word
  PROVE  StoreRam(m, a, w, z) \in [Word -> Word]
<1> DEFINE y == m[a]
           n == (2^w * (y \div 2^w)) + (z % 2^w)
<1>1. n \in Word
  <2>1. y \in Word
    OBVIOUS
  <2> HIDE DEF y
  <2> USE <2>1, Powers DEF Word
  <2>2. CASE w = 1 BY <2>2
  <2>3. CASE w = 2 BY <2>3
  <2>4. CASE w = 3 BY <2>4
  <2>5. CASE w = 4 BY <2>5
  <2> QED BY <2>2, <2>3, <2>4, <2>5
<1>2. StoreRam(m, a, w, z) = [m EXCEPT ![a] = n]
  BY DEF StoreRam
<1> HIDE DEF n
<1> QED BY <1>1, <1>2

\* What an effect leaves is registers, flags and memory.
LEMMA EffectLeaves ==
  ASSUME NEW i, NEW e, EffectOK(e), NEW m \in [Word -> Word]
  PROVE  /\ CpuOf(i, e) \in Cpu /\ RamOf(e, m) \in [Word -> Word]
         /\ e.write # <<>> => e.write[1] \in Word /\ e.write[2] \in 1 .. 4 /\ e.write[3] \in Word
<1>1. CpuOf(i, e) \in Cpu
  BY DEF CpuOf, EffectOK, Cpu
<1>2. e.write # <<>> => e.write[1] \in Word /\ e.write[2] \in 1 .. 4 /\ e.write[3] \in Word
  BY DEF EffectOK, IsWrite
<1>3. RamOf(e, m) \in [Word -> Word]
  BY <1>2, StoreType DEF RamOf
<1> QED BY <1>1, <1>2, <1>3

\* What has been heard is what the instruction reads.
LEMMA HeardReads ==
  ASSUME NEW i, i = insn, Decoded(i), NEW b, b = begin, Begun(b), Heard
  PROVE  /\ Got \in Word /\ acc = ReadPart(i, b.cpu, Got)
         /\ ~ReadsDevice(i, b.cpu) => Got = FirstTouched(i, b)
<1>1. Got = GotBy(i, b, acc)
  BY GotIs
<1>2. CASE ReadsDevice(i, b.cpu)
  <2> DEFINE a == ReadAddress(i, b.cpu)
             w == ReadWidth(i)
  <2>1. PICK z \in Word : acc = <<R(a, w, z)>>
    BY <1>2 DEF Heard
  <2>2. w \in 1 .. 4 /\ a \in Word
    BY SourceWidth, BegunCpu, RegisterAddress, Registers
    DEF ReadWidth, ReadAddress, Si, Decoded
  <2> HIDE DEF a, w
  <2> DEFINE r == R(a, w, z)
  <2>3. r.k = "r" /\ r.v = z % 2^w
    BY DEF R
  <2>4. r = R(a, w, z % 2^w) /\ z % 2^w \in Word
    <3>1. z % 2^w \in Word
      BY <2>2, Truncated
    <3>2. r = R(a, w, z % 2^w)
      BY <2>2, TruncatedTwice, Zenon
    <3> QED BY <3>1, <3>2
  <2> HIDE DEF r
  <2>5. Got = r.v
    BY <1>1, <2>1, <2>3, GotOne DEF r
  <2>6. acc = <<R(a, w, Got)>> /\ Got \in Word
    BY <2>1, <2>3, <2>4, <2>5 DEF r
  <2> QED BY <1>2, <2>6 DEF ReadPart, a, w
<1>3. CASE ~ReadsDevice(i, b.cpu)
  <2>1. acc = <<>>
    BY <1>3 DEF Heard
  <2>2. Got = FirstTouched(i, b)
    BY <1>1, <2>1, GotMemory
  <2> QED BY <1>3, <2>1, <2>2, TouchesFirst DEF ReadPart
<1> QED BY <1>2, <1>3

-----------------------------------------------------------------------------
(* The invariant holds initially and is kept by every action.              *)

\* The variables that the stages leave alone.
Staying == UNCHANGED <<enc, dec, insn, cpu, ram, mm, begin, acc, first, log>>

\* What is kept with them.
LEMMA Kept ==
  ASSUME Staying
  PROVE  /\ Typed => Typed'
         /\ Pending => Pending'
         /\ Answered => Answered'
         /\ Got' = Got /\ Mm0' = Mm0
<1> USE DEF Staying
<1>1. Typed => Typed'
  BY DEF Typed
<1>2. Pending => Pending'
  BY DEF Pending, Untouched
<1>3. Answered => Answered'
  BY DEF Answered
<1>4. Got' = Got /\ Mm0' = Mm0
  BY DEF Got, Mm0
<1> QED BY <1>1, <1>2, <1>3, <1>4

\* The instruction that runs has the fields of one.
LEMMA Running ==
  ASSUME Typed
  PROVE  /\ insn \in Insns /\ Decoded(insn) /\ cpu \in Cpu /\ ram \in [Word -> Word]
         /\ mm \in Mmio /\ Begun(begin) /\ begin.cpu \in Cpu
BY DecodedFields, BegunCpu DEF Typed

\* A stage of the emulator.
LEMMA AtStage ==
  ASSUME EmulateInv, pc \in Stages
  PROVE  /\ Typed /\ Pending /\ Trapped(insn, begin.cpu)
         /\ Got \in Word /\ (~Stuck(insn, begin.cpu) => Knows(insn, begin, Mm0, Got))
         /\ Mm0 \in Mmio /\ (Mm0.completed <=> mm.completed)
<1>1. Typed /\ Pending /\ Trapped(insn, begin.cpu)
  BY DEF EmulateInv, Emulating, Stages
<1>2. Decoded(insn) /\ Begun(begin) /\ mm \in Mmio
  BY <1>1, Running
<1>3. Got \in Word /\ (~Stuck(insn, begin.cpu) => Knows(insn, begin, Mm0, Got))
  BY <1>1, <1>2, PendingKnows
<1> QED BY <1>1, <1>2, <1>3 DEF Mm0, Mmio

\* Where nothing was done, the emulator has ended.
LEMMA StageStops ==
  ASSUME EmulateInv, pc \in Stages, Staying, pc' = "done",
         Stopped(insn, begin.cpu, ctxt'), ctxt'.mm.needed => ~mm.completed
  PROVE  EmulateInv'
<1>1. Typed' /\ Pending' /\ Trapped(insn', begin'.cpu)
  BY AtStage, Kept DEF Staying
<1>2. ctxt'.rc # "continue"
  BY DEF Stopped
<1>3. Done0'
  BY <1>2 DEF Done0, Ends, Staying
<1> QED BY <1>1, <1>3 DEF EmulateInv, Emulating, Stages

\* x86_emulate_memop starts over.
LEMMA BeginsEmulating ==
  ASSUME EmulateInv, emulate_instruction
  PROVE  EmulateInv'
<1>1. Staying /\ pc = "guest"
  BY DEF emulate_instruction, Staying
<1>2. Typed /\ Pending /\ Decoded(insn) /\ mm \in Mmio
  BY <1>1, Running DEF EmulateInv, Stages
<1>3. cpu = begin.cpu
  BY <1>2 DEF Pending, Untouched
<1>4. Trapped(insn, begin.cpu)
  BY <1>3 DEF Trapped, emulate_instruction
<1>5. /\ Mm0 \in Mmio /\ ~Mm0.needed /\ ~Mm0.write
      /\ Mm0.completed => ReadsDevice(insn, begin.cpu)
  BY <1>2 DEF Mm0, Mmio, Pending
<1>6. Begins(insn, begin.cpu, Mm0, ctxt')
  BY <1>3, <1>5 DEF Begins, Mm0, emulate_instruction
<1>7. opcode_table(insn).dst = "implicit" <=> insn.form = "implicit"
  <2>1. ASSUME insn.form = "implicit" PROVE opcode_table(insn).dst = "implicit"
    BY <2>1 DEF opcode_table
  <2>2. ASSUME insn.form # "implicit" PROVE opcode_table(insn).dst \in {"reg", "mem"}
    BY <1>2, <2>2, OperandForms
  <2> QED BY <2>1, <2>2
<1>8. \/ insn.form = "implicit" /\ pc' = "special"
      \/ insn.form # "implicit" /\ pc' = "dst"
  <2>1. pc' = IF opcode_table(insn).dst = "implicit" THEN "special" ELSE "dst"
    BY DEF emulate_instruction
  <2>2. CASE opcode_table(insn).dst = "implicit"
    BY <1>7, <2>1, <2>2
  <2>3. CASE opcode_table(insn).dst # "implicit"
    BY <1>7, <2>1, <2>3
  <2> QED BY <2>2, <2>3
<1>9. /\ Typed' /\ Pending' /\ Mm0' = Mm0 /\ insn' = insn /\ begin' = begin
      /\ Trapped(insn', begin'.cpu)
  BY <1>1, <1>2, <1>4, Kept DEF Staying
<1>10. Begins(insn', begin'.cpu, Mm0', ctxt')
  BY <1>6, <1>9
<1> QED BY <1>8, <1>9, <1>10 DEF EmulateInv, Emulating, Special0, Dst0, Stages

\* The destination is fetched.
LEMMA KeepsFetchesDst ==
  ASSUME EmulateInv, FetchesDst
  PROVE  EmulateInv'
<1>1. /\ Staying /\ pc = "dst" /\ pc \in Stages /\ ctxt' = FetchDst(insn, ctxt)
      /\ pc' = IF ctxt'.rc = "continue" THEN "src" ELSE "done"
  BY DEF FetchesDst, Goto, Staying, Stages
<1>2. Dst0 /\ Decoded(insn) /\ begin.cpu \in Cpu
  BY <1>1, AtStage, Running DEF EmulateInv, Emulating
<1>3. \/ Fetched(insn, begin.cpu, Mm0, Got, ctxt')
      \/ Stopped(insn, begin.cpu, ctxt') /\ ~mm.completed
  <2>1. ~Stuck(insn, begin.cpu)
    BY <1>1, <1>2, AtStage, OperandAddress DEF Dst0
  <2>2. Mm0.completed => Got % 2^ReadWidth(insn) = Mm0.data % 2^ReadWidth(insn)
    BY <1>1, <2>1, AtStage DEF Knows
  <2> QED BY <1>1, <1>2, <2>2, AtStage, FetchesDestination DEF Dst0
<1>4. CASE Fetched(insn, begin.cpu, Mm0, Got, ctxt')
  <2>1. pc' = "src"
    BY <1>1, <1>4 DEF Fetched, Carried
  <2>2. /\ Typed' /\ Pending' /\ Mm0' = Mm0 /\ Got' = Got /\ insn' = insn /\ begin' = begin
        /\ Trapped(insn', begin'.cpu)
    BY <1>1, AtStage, Kept DEF Staying
  <2>3. Src0'
    BY <1>2, <1>4, <2>2 DEF Src0, Dst0
  <2> QED BY <2>1, <2>2, <2>3 DEF EmulateInv, Emulating, Stages
<1>5. CASE Stopped(insn, begin.cpu, ctxt') /\ ~mm.completed
  <2>1. pc' = "done"
    BY <1>1, <1>5 DEF Stopped
  <2> QED BY <1>1, <1>5, <2>1, StageStops
<1> QED BY <1>3, <1>4, <1>5

\* The source is fetched.
LEMMA KeepsFetchesSrc ==
  ASSUME EmulateInv, FetchesSrc
  PROVE  EmulateInv'
<1>1. /\ Staying /\ pc = "src" /\ pc \in Stages /\ ctxt' = FetchSrc(insn, ctxt)
      /\ pc' = IF ctxt'.rc = "continue" THEN "execute" ELSE "done"
  BY DEF FetchesSrc, Goto, Staying, Stages
<1>2. Src0 /\ Decoded(insn) /\ begin.cpu \in Cpu
  BY <1>1, AtStage, Running DEF EmulateInv, Emulating
<1>3. \/ Ready(insn, begin.cpu, Got, ctxt') /\ Answered
      \/ Stopped(insn, begin.cpu, ctxt') /\ ~mm.completed
  <2>1. ~Stuck(insn, begin.cpu)
    BY <1>1, <1>2, AtStage, OperandAddress DEF Src0
  <2>2. Mm0.completed => Got % 2^ReadWidth(insn) = Mm0.data % 2^ReadWidth(insn)
    BY <1>1, <2>1, AtStage DEF Knows
  <2> QED BY <1>1, <1>2, <2>2, AtStage, FetchesSource DEF Src0, Answered
<1>4. CASE Ready(insn, begin.cpu, Got, ctxt') /\ Answered
  <2>1. pc' = "execute"
    BY <1>1, <1>4 DEF Ready, Carried
  <2>2. /\ Typed' /\ Pending' /\ Answered' /\ Got' = Got /\ insn' = insn /\ begin' = begin
        /\ Trapped(insn', begin'.cpu)
    BY <1>1, <1>4, AtStage, Kept DEF Staying
  <2>3. Execute0'
    BY <1>2, <1>4, <2>2 DEF Execute0, Src0
  <2> QED BY <2>1, <2>2, <2>3 DEF EmulateInv, Emulating, Stages
<1>5. CASE Stopped(insn, begin.cpu, ctxt') /\ ~mm.completed
  <2>1. pc' = "done"
    BY <1>1, <1>5 DEF Stopped
  <2> QED BY <1>1, <1>5, <2>1, StageStops
<1> QED BY <1>3, <1>4, <1>5

\* The operation is computed.
LEMMA KeepsExecutes ==
  ASSUME EmulateInv, Executes
  PROVE  EmulateInv'
<1>1. /\ Staying /\ pc = "execute" /\ pc \in Stages /\ ctxt' = Run(insn, ctxt)
      /\ pc' = IF ctxt'.rc = "continue" THEN "writeback" ELSE "done"
  BY DEF Executes, Goto, Staying, Stages, Run
<1>2. /\ Execute0 /\ Decoded(insn) /\ begin.cpu \in Cpu /\ Begun(begin) /\ ram = begin.ram
      /\ Got \in Word /\ Trapped(insn, begin.cpu)
  BY <1>1, AtStage, Running DEF EmulateInv, Emulating, Pending, Untouched
<1>3. CASE Stopped(insn, begin.cpu, ctxt') /\ ~ctxt'.mm.needed
  <2>1. pc' = "done"
    BY <1>1, <1>3 DEF Stopped
  <2> QED BY <1>1, <1>3, <2>1, StageStops
<1>4. CASE ~(Stopped(insn, begin.cpu, ctxt') /\ ~ctxt'.mm.needed)
  <2>1. ASSUME NEW lazy \in BOOLEAN, lazy
        PROVE  /\ Computed(insn, begin.cpu, Done(insn, begin, Got, lazy), ctxt')
               /\ insn.op \notin Refused
    BY <1>1, <1>2, <1>4, <2>1, RunEnds DEF Execute0, Refused
  <2>2. PICK lazy \in BOOLEAN : lazy
    OBVIOUS
  <2>3. /\ ctxt'.rc = "continue" /\ DOMAIN ctxt' = ContextFields /\ insn.op \notin Refused
    BY <2>1, <2>2 DEF Computed
  <2>4. \A l \in BOOLEAN : l =>
          Ends(insn, begin.cpu, Done(insn, begin, Got, l), Writeback(ctxt'))
    BY <2>1, WritebackEnds
  <2>5. ~Stuck(insn, begin.cpu)
    BY <1>2, OperandAddress DEF Execute0
  <2>6. /\ Typed' /\ Pending' /\ Answered' /\ Got' = Got /\ insn' = insn /\ begin' = begin
        /\ Trapped(insn', begin'.cpu)
    BY <1>1, <1>2, AtStage, Kept DEF Staying, Execute0
  <2>7. Writeback0'
    BY <2>3, <2>4, <2>5, <2>6 DEF Writeback0
  <2> QED BY <1>1, <2>3, <2>6, <2>7 DEF EmulateInv, Emulating, Stages
<1> QED BY <1>3, <1>4

\* A stage of these instructions keeps the fields of the context.
LEMMA SpecialFields ==
  ASSUME NEW i, NEW c, DOMAIN c = ContextFields,
         i.op \in {"movs", "stos", "lods", "cmps", "cmpxchg8b"}
  PROVE  DOMAIN RunSpecial(i, c) = ContextFields
<1> DEFINE d == Repeated(i, c)
<1>1. DOMAIN d = ContextFields
  BY DEF Repeated
<1>2. CASE i.op = "cmpxchg8b"
  BY <1>2 DEF RunSpecial, SpecialTwobyte
<1>3. CASE i.op # "cmpxchg8b"
  <2>1. RunSpecial(i, c) = Special(i, d)
    BY <1>3 DEF RunSpecial
  <2> HIDE DEF d
  <2>2. CASE i.op = "movs" BY <1>1, <2>1, <2>2 DEF Special
  <2>3. CASE i.op = "stos" BY <1>1, <2>1, <2>3 DEF Special
  <2>4. CASE i.op = "lods" BY <1>1, <2>1, <2>4 DEF Special
  <2>5. CASE i.op = "cmps" BY <1>1, <2>1, <2>5 DEF Special, Fails
  <2> QED BY <1>3, <2>2, <2>3, <2>4, <2>5
<1> QED BY <1>2, <1>3

\* A special instruction is executed.
LEMMA KeepsExecutesSpecial ==
  ASSUME EmulateInv, ExecutesSpecial
  PROVE  EmulateInv'
<1>1. /\ Staying /\ pc = "special" /\ pc \in Stages /\ ctxt' = RunSpecial(insn, ctxt)
      /\ pc' = IF ctxt'.rc = "continue" THEN "writeback" ELSE "done"
  BY DEF ExecutesSpecial, Goto, Staying, Stages, RunSpecial
<1>2. /\ Special0 /\ Decoded(insn) /\ begin.cpu \in Cpu /\ Begun(begin) /\ ram = begin.ram
      /\ Got \in Word /\ Trapped(insn, begin.cpu)
      /\ (~Stuck(insn, begin.cpu) => Knows(insn, begin, Mm0, Got))
      /\ (Mm0.completed <=> mm.completed)
  BY <1>1, AtStage, Running DEF EmulateInv, Emulating, Pending, Untouched
<1>3. DOMAIN ctxt' = ContextFields
  BY <1>1, <1>2, BeginsFields, SpecialFields, Forms DEF Special0
<1>4. CASE Stopped(insn, begin.cpu, ctxt') /\ (ctxt'.mm.needed => ~mm.completed)
  <2>1. pc' = "done"
    BY <1>1, <1>4 DEF Stopped
  <2> QED BY <1>1, <1>4, <2>1, StageStops
<1>5. CASE ~(Stopped(insn, begin.cpu, ctxt') /\ (ctxt'.mm.needed => ~mm.completed))
  <2>1. ASSUME NEW lazy \in BOOLEAN
        PROVE  /\ ctxt'.rc = "continue" /\ Answered /\ insn.op \notin Refused
               /\ Ends(insn, begin.cpu, Done(insn, begin, Got, lazy), Writeback(ctxt'))
               /\ Stuck(insn, begin.cpu) => Stopped(insn, begin.cpu, Writeback(ctxt'))
    <3>1. Done(insn, begin, Got, lazy) = Effect(insn, begin, Got, lazy)
      BY <1>2, DoneIs, Forms DEF Special0
    <3> QED BY <1>1, <1>2, <1>5, <3>1, RunSpecialEnds DEF Special0, Refused, Answered
  <2>2. PICK lazy \in BOOLEAN : lazy
    OBVIOUS
  <2>3. ctxt'.rc = "continue" /\ Answered /\ insn.op \notin Refused
    BY <2>1, <2>2
  <2>4. Stuck(insn, begin.cpu) => Writeback(ctxt').rc # "continue"
    BY <2>1, <2>2 DEF Stopped
  <2>5. /\ Typed' /\ Pending' /\ Answered' /\ Got' = Got /\ insn' = insn /\ begin' = begin
        /\ Trapped(insn', begin'.cpu)
    BY <1>1, <1>2, <2>3, AtStage, Kept DEF Staying
  <2>6. Writeback0'
    BY <1>3, <2>1, <2>3, <2>4, <2>5 DEF Writeback0
  <2> QED BY <1>1, <2>3, <2>5, <2>6 DEF EmulateInv, Emulating, Stages
<1> QED BY <1>4, <1>5

\* The write is refused, or asked for.
LEMMA WritebackRc ==
  ASSUME NEW c, DOMAIN c = ContextFields, c.rc = "continue"
  PROVE  Writeback(c).rc # "unhandleable"
<1> DEFINE o == emulator_write_emulated(c.mm, c.dst.ptr, c.dst.w, c.dst.val)
<1>1. o.rc \in {"continue", "propagate"}
  BY DEF emulator_write_emulated
<1>2. \/ Writeback(c) = c
      \/ Writeback(c) = [c EXCEPT !.regs = WriteReg(c.regs, c.dst.ptr, c.dst.w, c.dst.val)]
      \/ Writeback(c) = [c EXCEPT !.rc = o.rc, !.mm = o.mm]
  BY DEF Writeback, emulator_cmpxchg_emulated
<1> HIDE DEF o
<1> QED BY <1>1, <1>2 DEF ContextFields

\* The result is written back.
LEMMA KeepsWritesBack ==
  ASSUME EmulateInv, WritesBack
  PROVE  EmulateInv'
<1>1. /\ Staying /\ pc = "writeback" /\ pc \in Stages /\ ctxt' = Writeback(ctxt)
      /\ pc' = "done"
  BY DEF WritesBack, Goto, Staying, Stages
<1>2. Writeback0
  BY <1>1 DEF EmulateInv, Emulating
<1>3. ctxt'.rc # "unhandleable"
  BY <1>1, <1>2, WritebackRc DEF Writeback0
<1>4. /\ Typed' /\ Pending' /\ Answered' /\ Got' = Got /\ insn' = insn /\ begin' = begin
      /\ Trapped(insn', begin'.cpu)
  BY <1>1, <1>2, AtStage, Kept DEF Staying, Writeback0
<1>5. Done0'
  BY <1>1, <1>2, <1>3, <1>4 DEF Done0, Writeback0
<1> QED BY <1>1, <1>4, <1>5 DEF EmulateInv, Emulating, Stages

\* What has been heard when the iteration ends.
LEMMA HeardNow ==
  ASSUME Pending, Answered, ~Stuck(insn, begin.cpu)
  PROVE  mm.data \in Word => Heard
BY DEF Pending, Answered, Heard

\* The iteration ended with effect e: it is the processor's.
LEMMA EndsAsArch ==
  ASSUME Decoded(insn), Begun(begin), Trapped(insn, begin.cpu), insn.op \notin Refused,
         ram = begin.ram, Heard, NEW lazy \in BOOLEAN,
         NEW e, e = Done(insn, begin, Got, lazy),
         Committed(insn, e, cpu'), cpu' \in Cpu,
         insn' = insn, begin' = begin, Got' = Got,
         ram' = RamOf(e, ram), acc' = acc \o WritePart(e)
  PROVE  AsArch'
<1>0. Mispopped(insn) => AsArch'
  BY DEF AsArch, Mispopped
<1> SUFFICES ASSUME ~Mispopped(insn), e = Effect(insn, begin, Got, lazy) PROVE AsArch'
  BY <1>0, DoneIs
<1> DEFINE o == Outcome(insn, begin, Got, lazy)
<1>1. /\ insn.op \notin {"push", "mul"} /\ ~Exhausted(insn, begin.cpu) /\ begin.cpu \in Cpu
      /\ Got \in Word /\ acc = ReadPart(insn, begin.cpu, Got)
  BY BegunCpu, TrappedAt, HeardReads DEF Refused
<1>2. o.cpu = CpuOf(insn, e) /\ o.ram = RamOf(e, ram) /\ o.acc = acc \o WritePart(e)
  BY <1>1, OutcomeIs, SMTT(30)
<1>3. \/ cpu' = o.cpu
      \/ insn.op = "cmpxchg" /\ [cpu' EXCEPT !.cf = o.cpu.cf] = o.cpu
  <2> DEFINE u == cpu'
             t == CpuOf(insn, e)
  <2>1. EffectOK(e)
    BY <1>1, EffectType
  <2>2. /\ u.regs = t.regs /\ u.zf = t.zf /\ u.rip = t.rip /\ (insn.op # "cmpxchg" => u.cf = t.cf)
        /\ t \in Cpu /\ u \in Cpu
    BY <1>1, <2>1, EffectLeaves DEF Committed, CpuOf, Begun
  <2> HIDE DEF u, t
  <2>3. u = t \/ (insn.op = "cmpxchg" /\ [u EXCEPT !.cf = t.cf] = t)
    BY <2>2 DEF Cpu
  <2> HIDE DEF o
  <2>4. o.cpu = t
    BY <1>2 DEF t
  <2> QED BY <2>3, <2>4 DEF u
<1>4. ~(insn'.rep /\ begin'.cpu.regs[RCX] = 0)
  BY <1>1 DEF Exhausted
<1>5. \E l \in BOOLEAN :
        /\ \/ cpu' = Outcome(insn', begin', Got', l).cpu
           \/ /\ insn'.op = "cmpxchg"
              /\ [cpu' EXCEPT !.cf = Outcome(insn', begin', Got', l).cpu.cf]
                  = Outcome(insn', begin', Got', l).cpu
        /\ ram' = Outcome(insn', begin', Got', l).ram
        /\ acc' = Outcome(insn', begin', Got', l).acc
  <2>1. o = Outcome(insn', begin', Got', lazy)
    OBVIOUS
  <2> HIDE DEF o
  <2> QED BY <1>2, <1>3, <2>1
<1> QED BY <1>4, <1>5 DEF AsArch, SameCpu

\* The emulator returns with the effect.
LEMMA KeepsDoneWell ==
  ASSUME EmulateInv, EmulationDone, ctxt.rc = "continue"
  PROVE  EmulateInv'
<1>1. /\ pc = "done" /\ pc \in Stages /\ mm' = ctxt.mm
      /\ UNCHANGED <<insn, ram, begin, acc, first>>
      /\ cpu' = [regs |-> ctxt.regs, zf |-> ctxt.zf, cf |-> ctxt.cf, rip |-> ctxt.eip]
      /\ pc' = IF ctxt.mm.write THEN "user" ELSE "retired"
  BY DEF EmulationDone, Commit, Stages
<1>2. /\ Done0 /\ Decoded(insn) /\ begin.cpu \in Cpu /\ Begun(begin) /\ ram = begin.ram
      /\ Got \in Word /\ Trapped(insn, begin.cpu) /\ Typed /\ Pending /\ mm \in Mmio
  BY <1>1, AtStage, Running DEF EmulateInv, Emulating, Pending, Untouched
<1>3. Answered /\ insn.op \notin Refused /\ ~Stuck(insn, begin.cpu)
  BY <1>2 DEF Done0
<1>4. Heard
  BY <1>2, <1>3, HeardNow DEF Mmio
<1>5. ASSUME NEW lazy \in BOOLEAN, lazy
      PROVE  /\ Committed(insn, Done(insn, begin, Got, lazy), cpu')
             /\ WriteIs(Done(insn, begin, Got, lazy), mm')
             /\ cpu' \in Cpu
  <2> DEFINE e == Done(insn, begin, Got, lazy)
  <2>1. Matches(insn, e, ctxt) /\ WriteIs(e, ctxt.mm)
    BY <1>2, <1>5 DEF Done0, Ends
  <2>2. EffectOK(e)
    BY <1>2, <1>3, DoneType, TrappedAt DEF Refused
  <2> HIDE DEF e
  <2>3. Committed(insn, e, cpu') /\ cpu' \in Cpu
    BY <1>1, <2>1, <2>2 DEF Matches, Committed, EffectOK, Cpu, Flag
  <2> QED BY <1>1, <2>1, <2>3 DEF e
<1>6. PICK lazy \in BOOLEAN : lazy
  OBVIOUS
<1>7. /\ cpu' \in Cpu /\ mm' \in Mmio /\ ~mm'.completed /\ (~mm'.write => ~mm'.needed)
  BY <1>5, <1>6 DEF WriteIs
<1>8. Typed' /\ Got' = Got
  BY <1>1, <1>2, <1>7 DEF Typed, Got
<1>9. CASE mm'.write
  <2>1. Heard'
    BY <1>1, <1>4 DEF Heard
  <2>2. Writing'
    BY <1>1, <1>2, <1>3, <1>5, <1>7, <1>8, <2>1 DEF Writing
  <2> QED BY <1>1, <1>8, <1>9, <2>2 DEF EmulateInv, Stages
<1>10. CASE ~mm'.write
  <2> DEFINE e == Done(insn, begin, Got, lazy)
  <2>1. Committed(insn, e, cpu') /\ e.write = <<>>
    BY <1>5, <1>6, <1>10 DEF WriteIs
  <2> HIDE DEF e
  <2>2. ram' = RamOf(e, ram) /\ acc' = acc \o WritePart(e)
    <3>1. WritePart(e) = <<>> /\ RamOf(e, ram) = ram
      BY <2>1 DEF WritePart, RamOf
    <3>2. acc \in Seq(Reading)
      BY <1>2 DEF Pending, Untouched
    <3> QED BY <1>1, <3>1, <3>2
  <2>3. AsArch'
    BY <1>1, <1>2, <1>3, <1>4, <1>7, <1>8, <2>1, <2>2, EndsAsArch DEF e
  <2> QED BY <1>1, <1>2, <1>7, <1>8, <1>10, <2>3 DEF EmulateInv, Stages
<1> QED BY <1>9, <1>10

\* The emulator returns without any.
LEMMA KeepsDoneStopped ==
  ASSUME EmulateInv, EmulationDone, ctxt.rc # "continue"
  PROVE  EmulateInv'
<1>1. /\ pc = "done" /\ pc \in Stages /\ mm' = ctxt.mm /\ cpu' = cpu
      /\ UNCHANGED <<insn, ram, begin, acc, first>>
  BY DEF EmulationDone, Commit, Stages
<1>2. /\ Done0 /\ Trapped(insn, begin.cpu) /\ Typed /\ Pending
  BY <1>1, AtStage DEF EmulateInv, Emulating
<1>3. PICK lazy \in BOOLEAN : lazy
  OBVIOUS
<1>4. Stopped(insn, begin.cpu, ctxt)
  BY <1>2, <1>3 DEF Done0, Ends
<1>5. /\ Typed' /\ Untouched' /\ ~mm'.write
      /\ Trapped(insn', begin'.cpu)
  BY <1>1, <1>2, <1>4 DEF Typed, Pending, Untouched, Stopped
<1>6. \/ ctxt.rc = "unhandleable" /\ pc' = IF mm'.needed THEN "user" ELSE "fail"
      \/ ctxt.rc = "propagate" /\ pc' = "guest"
  BY <1>1, <1>4, <1>5 DEF EmulationDone, Stopped
<1>7. CASE ctxt.rc = "unhandleable" /\ mm'.needed
  <2>1. /\ ReadsDevice(insn, begin.cpu) /\ ~mm'.completed
        /\ mm'.a = ReadAddress(insn, begin.cpu) /\ mm'.w = ReadWidth(insn) /\ ~mm.completed
    BY <1>1, <1>2, <1>4, <1>7 DEF Stopped, Done0
  <2>2. Asking'
    BY <1>1, <1>2, <1>5, <2>1 DEF Asking, Pending
  <2> QED BY <1>5, <1>6, <1>7, <2>2 DEF EmulateInv, Stages
<1>8. CASE ctxt.rc = "unhandleable" /\ ~mm'.needed
  BY <1>5, <1>6, <1>8 DEF EmulateInv, Stages
<1>9. CASE ctxt.rc = "propagate"
  <2>1. Stuck(insn, begin.cpu) /\ ~mm'.completed /\ ~mm'.needed
    BY <1>1, <1>4, <1>9 DEF Stopped
  <2>2. Pending'
    BY <1>1, <1>5, <2>1 DEF Pending
  <2> QED BY <1>5, <1>6, <1>9, <2>2 DEF EmulateInv, Stages
<1> QED BY <1>4, <1>7, <1>8, <1>9 DEF Stopped

\* A device answers.
LEMMA KeepsUserReads ==
  ASSUME EmulateInv, UserReads
  PROVE  EmulateInv'
<1>1. /\ pc = "user" /\ ~mm.write /\ pc' = "guest" /\ UNCHANGED <<insn, cpu, ram, begin, first>>
  BY DEF UserReads
<1>2. PICK v \in Answers :
        /\ mm' = [mm EXCEPT !.needed = FALSE, !.completed = TRUE, !.data = v]
        /\ acc' = Record(R(mm.a, mm.w, v))
  BY DEF UserReads
<1>3. Typed /\ Asking /\ mm \in Mmio /\ Begun(begin) /\ v \in Word
  BY <1>1, Running, EmulateAssumption DEF EmulateInv, Stages
<1>4. mm' \in Mmio /\ ~mm'.needed /\ mm'.completed /\ mm'.data = v
  BY <1>2, <1>3 DEF Mmio
<1> DEFINE r == R(mm.a, mm.w, v)
<1>5. r \in Reading
  <2>1. mm.a \in Word /\ mm.w \in 1 .. 4
    BY <1>3 DEF Mmio
  <2>2. v % 2^mm.w \in Word
    BY <1>3, <2>1, Truncated
  <2> QED BY <2>1, <2>2 DEF R, Reading
<1> HIDE DEF r
<1>6. /\ acc \in Seq(Reading) /\ acc' \in Seq(Reading)
      /\ acc = <<>> => acc' = <<r>>
  <2>1. acc' = IF Len(acc) < 2 THEN Append(acc, r) ELSE acc
    BY <1>2 DEF Record, MaxAcc, r
  <2>2. acc \in Seq(Reading)
    BY <1>3 DEF Asking, Untouched
  <2>3. acc' \in Seq(Reading)
    BY <1>5, <2>1, <2>2
  <2>4. ASSUME acc = <<>> PROVE acc' = <<r>>
    <3>1. Len(<<>>) < 2 /\ Append(<<>>, r) = <<r>>
      OBVIOUS
    <3> QED BY <2>1, <2>4, <3>1, Zenon
  <2> QED BY <2>2, <2>3, <2>4
<1>7. Pending'
  BY <1>1, <1>3, <1>4, <1>6 DEF Pending, Asking, Untouched, r
<1>8. Typed'
  BY <1>1, <1>3, <1>4 DEF Typed
<1> QED BY <1>1, <1>7, <1>8 DEF EmulateInv, Stages

\* A write is recorded: it is not what has been read.
LEMMA GotAfterWrite ==
  ASSUME NEW i, NEW b, NEW r, r.k = "r", NEW x, x.k = "w", NEW s, s = <<r>> \/ s = <<>>
  PROVE  GotBy(i, b, Append(s, x)) = GotBy(i, b, s)
<1> DEFINE t == Append(s, x)
<1>1. CASE s = <<r>>
  <2> DEFINE len == 2
  <2>1. s \in Seq({r, x}) /\ Len(s) = 1 /\ s[1] = r
    BY <1>1
  <2>2. t \in Seq({r, x}) /\ Len(t) = len /\ t[1] = r
    <3> DEFINE S == {r, x}
    <3>1. x \in S /\ s \in Seq(S)
      BY <2>1
    <3> HIDE DEF S
    <3>2. t \in Seq(S) /\ Len(t) = Len(s) + 1
      BY <3>1
    <3>3. t[1] = s[1]
      BY <2>1, <3>1
    <3> QED BY <2>1, <3>2, <3>3 DEF S
  <2>3. DOMAIN t = 1 .. len /\ len \in Nat /\ len > 0
    <3> HIDE DEF t
    <3> QED BY <2>2
  <2> HIDE DEF t, len
  <2>4. GotBy(i, b, t) = r.v
    BY <2>2, <2>3, GotAnswer
  <2> QED BY <1>1, <2>4, GotOne DEF t
<1>2. CASE s = <<>>
  <2>1. t = <<x>>
    BY <1>2
  <2>2. \A n \in DOMAIN t : t[n].k # "r"
    BY <2>1
  <2> HIDE DEF t
  <2>3. GotBy(i, b, t) = FirstTouched(i, b)
    BY <2>2, GotMemory
  <2>4. GotBy(i, b, s) = FirstTouched(i, b)
    BY <1>2, GotMemory
  <2> QED BY <2>3, <2>4 DEF t
<1> QED BY <1>1, <1>2

\* What has been heard is one read or none.
LEMMA HeardOne ==
  ASSUME Heard
  PROVE  \E r : r.k = "r" /\ (acc = <<r>> \/ acc = <<>>)
<1> DEFINE q(z) == R(ReadAddress(insn, begin.cpu), ReadWidth(insn), z)
<1>1. \A z : q(z).k = "r"
  BY DEF R
<1>2. acc = <<>> \/ \E z \in Word : acc = <<q(z)>>
  BY DEF Heard
<1> HIDE DEF q
<1> QED BY <1>1, <1>2

\* User space makes the write.
LEMMA KeepsUserWrites ==
  ASSUME EmulateInv, UserWrites
  PROVE  EmulateInv'
<1>1. /\ pc = "user" /\ mm.write /\ pc' = "retired" /\ UNCHANGED <<insn, cpu, begin, first>>
      /\ mm' = [mm EXCEPT !.needed = FALSE]
      /\ ram' = IF IsIo(mm.a) THEN ram ELSE StoreRam(ram, mm.a, mm.w, mm.data)
      /\ acc' = IF IsIo(mm.a) THEN Record(W(mm.a, mm.w, mm.data)) ELSE acc
  BY DEF UserWrites
<1>2. /\ Typed /\ Writing /\ mm \in Mmio /\ Begun(begin) /\ Decoded(insn)
      /\ ram \in [Word -> Word] /\ cpu \in Cpu /\ begin.cpu \in Cpu
  BY <1>1, Running DEF EmulateInv, Stages
<1>3. PICK lazy \in BOOLEAN : lazy
  OBVIOUS
<1> DEFINE e == Done(insn, begin, Got, lazy)
<1>4. /\ Committed(insn, e, cpu) /\ WriteIs(e, mm) /\ Trapped(insn, begin.cpu) /\ Heard
      /\ insn.op \notin Refused /\ ram = begin.ram /\ ~mm.completed
  BY <1>2, <1>3 DEF Writing
<1>5. EffectOK(e)
  BY <1>2, <1>4, HeardReads, DoneType, TrappedAt DEF Refused
<1> DEFINE a == e.write[1]
           w == e.write[2]
           z == e.write[3]
<1> HIDE DEF e
<1>6. e.write # <<>> /\ a \in Word /\ w \in 1 .. 4 /\ z \in Word
  BY <1>1, <1>2, <1>4, <1>5, EffectLeaves DEF WriteIs
<1>7. mm.a = a /\ mm.w = w /\ mm.data = z % 2^w
  BY <1>4, <1>6 DEF WriteIs
<1> HIDE DEF a, w, z
<1>8. W(mm.a, mm.w, mm.data) = W(a, w, z) /\ StoreRam(ram, mm.a, mm.w, mm.data) = StoreRam(ram, a, w, z)
  <2>1. W(a, w, z % 2^w) = W(a, w, z)
    BY <1>6, TruncatedTwice, Zenon
  <2>2. StoreRam(ram, a, w, z % 2^w) = StoreRam(ram, a, w, z)
    BY <1>6, TruncatedTwice, Zenon
  <2> QED BY <1>7, <2>1, <2>2
<1>9. PICK r : r.k = "r" /\ (acc = <<r>> \/ acc = <<>>)
  BY <1>4, HeardOne
<1> DEFINE x == W(a, w, z)
<1>10. x.k = "w"
  BY DEF W
<1>11. WritePart(e) = IF IsIo(a) THEN <<x>> ELSE <<>>
  BY <1>6, Zenon DEF WritePart, a, w, z
<1>12. RamOf(e, ram) = IF IsIo(a) THEN ram ELSE StoreRam(ram, a, w, z)
  BY <1>6, Zenon DEF RamOf, a, w, z
<1> HIDE DEF x
<1>13. ram' = RamOf(e, ram)
  BY <1>1, <1>7, <1>8, <1>12
<1>14. acc' = IF IsIo(a) THEN Append(acc, x) ELSE acc
  <2>1. Len(acc) < MaxAcc
    BY <1>9 DEF MaxAcc
  <2> QED BY <1>1, <1>7, <1>8, <2>1 DEF Record, x
<1>15. acc' = acc \o WritePart(e)
  <2>1. <<r>> \in Seq({r, x}) /\ <<>> \in Seq({r, x})
    OBVIOUS
  <2>2. acc \in Seq({r, x})
    BY <1>9, <2>1, Zenon
  <2> QED BY <1>11, <1>14, <2>2
<1>16. Got' = Got
  <2>1. Got = GotBy(insn, begin, acc) /\ Got' = GotBy(insn, begin, acc')
    BY <1>1, GotIs DEF Got, GotBy, FirstTouched
  <2> QED BY <1>9, <1>10, <1>14, <2>1, GotAfterWrite
<1>17. AsArch'
  BY <1>1, <1>2, <1>3, <1>4, <1>13, <1>15, <1>16, EndsAsArch DEF e
<1>18. mm' \in Mmio /\ ~mm'.needed /\ ~mm'.completed
  BY <1>1, <1>2, <1>4 DEF Mmio
<1>19. ram' \in [Word -> Word]
  BY <1>2, <1>5, <1>13, EffectLeaves
<1>20. Got' \in Word
  BY <1>2, <1>4, <1>16, HeardReads
<1> QED BY <1>1, <1>2, <1>17, <1>18, <1>19, <1>20 DEF EmulateInv, Stages, Typed

\* What the processor runs touches memory only.
LEMMA NoDevice ==
  ASSUME NEW i, Decoded(i), NEW v \in Cpu, ~Exhausted(i, v), Traps(i, v) = {}
  PROVE  /\ ~ReadsDevice(i, v) /\ i.op \notin {"push", "mul"}
         /\ i.op \notin {"lods", "cmps"} => Region[WriteAddress(i, v)] = "ram"
<1>1. CASE i.op \in {"movs", "cmps"}
  <2>1. Region[Si(i, v)] = "ram" /\ Region[Di(i, v)] = "ram"
    BY <1>1, Touched, TwoTraps
  <2> QED BY <1>1, <2>1, Forms DEF ReadsDevice, Reads, ReadAddress, WriteAddress
<1>2. CASE i.op = "stos"
  <2>1. Region[Di(i, v)] = "ram"
    BY <1>2, Touched, OneTrap
  <2> QED BY <1>2, <2>1, Forms DEF ReadsDevice, Reads, WriteAddress
<1>3. CASE i.op = "lods"
  <2>1. Region[Si(i, v)] = "ram"
    BY <1>3, Touched, OneTrap
  <2> QED BY <1>3, <2>1 DEF ReadsDevice, ReadAddress
<1>4. CASE i.op = "pop"
  <2>1. Region[i.ea] = "ram"
    BY <1>4, Touched, TwoTraps
  <2> QED BY <1>4, <2>1 DEF ReadsDevice, ReadAddress, WriteAddress
<1>5. CASE i.op \notin {"movs", "cmps", "stos", "lods", "pop"}
  <2>1. Region[i.ea] = "ram"
    BY <1>5, Touched, OneTrap
  <2>2. i.op \notin {"push", "mul"}
    BY <2>1 DEF Decoded
  <2> QED BY <1>5, <2>1, <2>2 DEF ReadsDevice, ReadAddress, WriteAddress
<1> QED BY <1>1, <1>2, <1>3, <1>4, <1>5

\* The processor ends the repetition, or runs the instruction.
LEMMA KeepsGuestExecutes ==
  ASSUME EmulateInv, GuestExecutes
  PROVE  EmulateInv'
<1>1. /\ pc = "guest" /\ pc' = "retired" /\ UNCHANGED <<insn, mm, begin, acc, first>>
      /\ Traps(insn, cpu) = {}
  BY DEF GuestExecutes
<1>2. /\ Typed /\ Pending /\ Decoded(insn) /\ Begun(begin) /\ begin.cpu \in Cpu
      /\ cpu = begin.cpu /\ ram = begin.ram /\ cpu \in Cpu /\ ram \in [Word -> Word]
  BY <1>1, Running DEF EmulateInv, Stages, Pending, Untouched
<1>3. ~Trapped(insn, begin.cpu) /\ ~Stuck(insn, begin.cpu) /\ ~mm.needed /\ ~mm.completed
  BY <1>1, <1>2 DEF Trapped, Stuck, Pending
<1>4. acc = <<>>
  BY <1>2, <1>3 DEF Pending
<1>5. Got = FirstTouched(insn, begin) /\ InRam = Got /\ Got \in Word /\ Got' = Got
  <2>1. Got = GotBy(insn, begin, acc) /\ <<>> \in Seq(Reading)
    BY GotIs
  <2>2. Got = FirstTouched(insn, begin) /\ Got \in Word
    BY <1>2, <1>4, <2>1, GotType
  <2>3. InRam = FirstTouched(insn, begin)
    BY <1>2 DEF InRam, FirstTouched
  <2>4. Got' = Got
    BY <1>1 DEF Got
  <2> QED BY <2>2, <2>3, <2>4
<1>6. CASE Exhausted(insn, begin.cpu)
  <2>1. insn.rep /\ cpu.regs[RCX] = 0
    BY <1>2, <1>6 DEF Exhausted
  <2>2. cpu' = [cpu EXCEPT !.rip = 1] /\ ram' = ram
    BY <2>1 DEF GuestExecutes
  <2>3. AsArch'
    BY <1>1, <1>2, <1>4, <2>1, <2>2 DEF AsArch
  <2>4. Typed'
    BY <1>1, <1>2, <2>2 DEF Typed, Cpu
  <2> QED BY <1>1, <1>3, <1>5, <2>3, <2>4 DEF EmulateInv, Stages
<1>7. CASE ~Exhausted(insn, begin.cpu)
  <2>1. ~(insn.rep /\ cpu.regs[RCX] = 0)
    BY <1>2, <1>7 DEF Exhausted
  <2>2. PICK lazy \in BOOLEAN : lazy = FALSE
    OBVIOUS
  <2> DEFINE o == Outcome(insn, begin, Got, lazy)
             e == Effect(insn, begin, Got, lazy)
  <2>3. cpu' = o.cpu /\ ram' = o.ram
    <3>1. o = Outcome(insn, begin, InRam, FALSE)
      BY <1>5, <2>2
    <3> HIDE DEF o
    <3> QED BY <2>1, <3>1 DEF GuestExecutes
  <2>4. /\ ~ReadsDevice(insn, begin.cpu) /\ insn.op \notin {"push", "mul"}
        /\ insn.op \notin {"lods", "cmps"} => Region[WriteAddress(insn, begin.cpu)] = "ram"
    BY <1>1, <1>2, <1>7, NoDevice
  <2>5. EffectOK(e)
    BY <1>2, <1>5, <1>7, <2>4, EffectType
  <2>6. e.write # <<>> => ~IsIo(e.write[1])
    BY <1>2, <1>5, <1>7, <2>4, EffectAccesses, ZenonT(40) DEF IsIo
  <2>7. /\ o.cpu = CpuOf(insn, e) /\ o.ram = RamOf(e, begin.ram)
        /\ o.acc = ReadPart(insn, begin.cpu, Got) \o WritePart(e)
    BY <1>2, <1>5, <1>7, <2>4, OutcomeIs
  <2>8. o.acc = <<>>
    <3>1. ReadPart(insn, begin.cpu, Got) = <<>>
      BY <2>4 DEF ReadPart
    <3> HIDE DEF e, o
    <3>2. WritePart(e) = <<>>
      BY <2>6 DEF WritePart
    <3> QED BY <2>7, <3>1, <3>2
  <2>9. o = Outcome(insn', begin', Got', lazy)
    BY <1>1, <1>5
  <2> HIDE DEF e
  <2>10. cpu' \in Cpu /\ ram' \in [Word -> Word]
    <3> HIDE DEF o
    <3> QED BY <1>2, <2>3, <2>5, <2>7, EffectLeaves
  <2>11. AsArch'
    <3>1. ~(insn'.rep /\ begin'.cpu.regs[RCX] = 0)
      BY <1>1, <1>7 DEF Exhausted
    <3>2. cpu' = o.cpu /\ ram' = o.ram /\ acc' = o.acc
      BY <1>1, <1>4, <2>3, <2>8
    <3> HIDE DEF o
    <3> QED BY <2>9, <3>1, <3>2 DEF AsArch, SameCpu
  <2>12. Typed'
    BY <1>1, <1>2, <2>10 DEF Typed
  <2> QED BY <1>1, <1>3, <1>5, <2>11, <2>12 DEF EmulateInv, Stages
<1> QED BY <1>6, <1>7

\* A fault of the guest's own.
LEMMA KeepsGuestFaults ==
  ASSUME EmulateInv, GuestFaults
  PROVE  EmulateInv'
<1>1. /\ Staying /\ pc = "guest" /\ pc' = "faulted"
  BY DEF GuestFaults, Staying
<1>2. Typed /\ Pending
  BY <1>1 DEF EmulateInv, Stages
<1> QED BY <1>1, <1>2, Kept DEF EmulateInv, Stages

\* The next iteration begins, or the instruction has ended.
LEMMA KeepsRetire ==
  ASSUME EmulateInv, Retire
  PROVE  EmulateInv'
<1>1. /\ pc = "retired" /\ pc' \in {"guest", "end"} /\ UNCHANGED <<insn, cpu, ram, mm, first>>
      /\ begin' = [cpu |-> cpu, ram |-> ram] /\ acc' = <<>>
  BY DEF Retire
<1>2. Typed /\ ~mm.needed /\ ~mm.completed
  BY <1>1 DEF EmulateInv, Stages
<1>3. Typed'
  BY <1>1, <1>2 DEF Typed, Begun
<1>4. Pending'
  BY <1>1, <1>2 DEF Pending, Untouched
<1>5. cpu' = begin'.cpu
  BY <1>1
<1> QED BY <1>1, <1>3, <1>4, <1>5 DEF EmulateInv, Stages

\* An encoding is decoded.
LEMMA KeepsDecode ==
  ASSUME EmulateInv, Decode
  PROVE  EmulateInv'
<1>1. pc = "decode" /\ pc' = "decoded" /\ enc' = enc /\ insn' = insn
  BY DEF Decode
<1>2. DecodeInv'
  BY <1>1 DEF EmulateInv, DecodeInv, Decode
<1> QED BY <1>1, <1>2 DEF EmulateInv, Stages

\* The initial states.
LEMMA EmulateInit == Init => EmulateInv
<1> SUFFICES ASSUME Init PROVE EmulateInv
  OBVIOUS
<1>1. CASE pc = "decode" /\ enc \in Encodings /\ insn = <<>>
  BY <1>1 DEF EmulateInv, DecodeInv, Stages
<1>2. CASE pc = "guest" /\ insn \in Insns /\ cpu \in Starts
  <2>1. /\ ram = Ram0 /\ mm = NoMmio /\ begin = [cpu |-> cpu, ram |-> ram] /\ acc = <<>>
        /\ first = cpu
    BY DEF Init
  <2>2. cpu \in Cpu /\ ram \in [Word -> Word]
    BY <1>2, <2>1, InsnsAssumption, EmulateAssumption
  <2>3. mm \in Mmio /\ ~mm.needed /\ ~mm.completed
    BY <2>1 DEF NoMmio, Mmio, Word
  <2>4. Typed
    BY <1>2, <2>1, <2>2, <2>3 DEF Typed, Begun
  <2>5. Pending
    BY <2>1, <2>3 DEF Pending, Untouched
  <2> QED BY <1>2, <2>4, <2>5 DEF EmulateInv, Stages
<1> QED BY <1>1, <1>2 DEF Init

\* Every step keeps the invariant.
LEMMA EmulateStep == EmulateInv /\ [Next]_vars => EmulateInv'
<1> SUFFICES ASSUME EmulateInv, [Next]_vars PROVE EmulateInv'
  OBVIOUS
<1>1. CASE Decode BY <1>1, KeepsDecode
<1>2. CASE GuestExecutes BY <1>2, KeepsGuestExecutes
<1>3. CASE GuestFaults BY <1>3, KeepsGuestFaults
<1>4. CASE emulate_instruction BY <1>4, BeginsEmulating
<1>5. CASE FetchesDst BY <1>5, KeepsFetchesDst
<1>6. CASE FetchesSrc BY <1>6, KeepsFetchesSrc
<1>7. CASE Executes BY <1>7, KeepsExecutes
<1>8. CASE ExecutesSpecial BY <1>8, KeepsExecutesSpecial
<1>9. CASE WritesBack BY <1>9, KeepsWritesBack
<1>10. CASE EmulationDone BY <1>10, KeepsDoneWell, KeepsDoneStopped
<1>11. CASE UserReads BY <1>11, KeepsUserReads
<1>12. CASE UserWrites BY <1>12, KeepsUserWrites
<1>13. CASE Retire BY <1>13, KeepsRetire
<1>14. CASE UNCHANGED vars
  <2>1. Staying /\ pc' = pc /\ ctxt' = ctxt
    BY <1>14 DEF vars, Staying
  <2>2. /\ Typed => Typed'
        /\ Pending => Pending'
        /\ Answered => Answered'
        /\ Got' = Got /\ Mm0' = Mm0 /\ insn' = insn /\ begin' = begin
    BY <2>1, Kept DEF Staying
  <2>3. DecodeInv => DecodeInv'
    BY <2>1 DEF Staying, DecodeInv
  <2>4. Emulating => Emulating'
    <3>1. /\ Special0 => Special0'
          /\ Dst0 => Dst0'
          /\ Src0 => Src0'
          /\ Execute0 => Execute0'
      BY <2>1, <2>2 DEF Special0, Dst0, Src0, Execute0
    <3>2. Writeback0 => Writeback0'
      BY <2>1, <2>2 DEF Writeback0
    <3>3. Done0 => Done0'
      BY <2>1, <2>2 DEF Done0, Staying
    <3> QED BY <2>1, <2>2, <3>1, <3>2, <3>3 DEF Emulating
  <2>5. Asking => Asking'
    BY <2>1 DEF Asking, Untouched, Staying
  <2>6. Writing => Writing'
    <3>1. Heard => Heard'
      BY <2>1 DEF Heard, Staying
    <3> QED BY <2>1, <2>2, <3>1 DEF Writing, Staying
  <2>7. AsArch => AsArch'
    BY <2>1, <2>2 DEF AsArch, SameCpu, Staying
  <2>8. Untouched => Untouched'
    BY <2>1 DEF Untouched, Staying
  <2>9. cpu' = cpu /\ mm' = mm
    BY <2>1 DEF Staying
  <2> QED BY <2>1, <2>2, <2>3, <2>4, <2>5, <2>6, <2>7, <2>8, <2>9 DEF EmulateInv, Stages
<1> QED BY <1>1, <1>2, <1>3, <1>4, <1>5, <1>6, <1>7, <1>8, <1>9, <1>10, <1>11, <1>12, <1>13,
           <1>14 DEF Next

-----------------------------------------------------------------------------
(* What it implies.                                                        *)

\* The invariant of every behaviour.
THEOREM EmulateInvariant == Spec => []EmulateInv
BY EmulateInit, EmulateStep, PTL DEF Spec

\* Whatever encoding is decoded, outside the known exceptions, the address,
\* the sizes and the register are those of the architecture.
THEOREM DecodeTheorem == Spec => []DecodeExact
<1>1. EmulateInv => DecodeExact
  <2> SUFFICES ASSUME EmulateInv, pc = "decoded" PROVE DecodeExact
    BY DEF DecodeExact, EaExact, RegisterExact
  <2>1. /\ enc \in Encodings
        /\ dec = [ea |-> modrm_ea(enc), op |-> op_bytes(enc), ad |-> ad_bytes(enc),
                  reg |-> DstRegister(enc.op, enc.byte, enc.reg, enc.rex)]
    BY DEF EmulateInv, DecodeInv
  <2>2. EaExact
    BY <2>1, EncodedFields, AddressExact DEF EaExact
  <2>3. RegisterExact
    BY <2>1, EncodedFields, RegisterNamed DEF RegisterExact
  <2> QED BY <2>2, <2>3 DEF DecodeExact
<1> QED BY <1>1, EmulateInvariant, PTL

\* Whatever the instruction, the cpu it starts with, memory, the layout and
\* the answers, an iteration that went through the emulator has done to
\* registers, flags, memory and devices what the processor does.
THEOREM AsArchTheorem == Spec => []AsArch
<1>1. EmulateInv => AsArch
  BY DEF EmulateInv, AsArch
<1> QED BY <1>1, EmulateInvariant, PTL

\* An instruction that the emulator gives up on, or that faults, has
\* changed nothing and written to no device.
THEOREM FailCleanTheorem == Spec => []FailClean
<1>1. EmulateInv => FailClean
  <2> SUFFICES ASSUME EmulateInv, pc \in {"fail", "faulted"} PROVE FailClean
    BY DEF FailClean
  <2>1. Untouched
    BY DEF EmulateInv, Pending, Stages
  <2>2. ASSUME NEW n \in DOMAIN acc PROVE acc[n].k = "r"
    <3>1. acc[n] \in Reading
      BY <2>1 DEF Untouched
    <3> QED BY <3>1 DEF Reading
  <2> QED BY <2>1, <2>2 DEF FailClean, Untouched
<1> QED BY <1>1, EmulateInvariant, PTL

-----------------------------------------------------------------------------
(* Repetition.                                                             *)

\* A pointer that starts at y, after n iterations.
Along(i, y, n) ==
    LET size == 2^i.a
        moved == n * Bytes(i.w)
        low == y % size
    IN  (size * (y \div size)) + ((IF i.df THEN (low + 16 * size) - moved ELSE low + moved) % size)

\* Where a pointer is that Step moves.
Next1(i, x) ==
    LET low == x % 2^i.a
        n == Bytes(i.w)
    IN  (2^i.a * (x \div 2^i.a))
        + (IF ~i.df THEN (low + n) % 2^i.a ELSE IF low >= n THEN low - n ELSE (low + 2^i.a) - n)

\* No movement, no change.
LEMMA MovesNot ==
  ASSUME NEW size \in {4, 8, 16}, NEW y \in Word
  PROVE  /\ size * (y \div size) + (((y % size) + 0) % size) = y
         /\ size * (y \div size) + ((((y % size) + 16 * size) - 0) % size) = y
<1> USE DEF Word
<1>1. CASE size = 4 BY <1>1
<1>2. CASE size = 8 BY <1>2
<1>3. CASE size = 16 BY <1>3
<1> QED BY <1>1, <1>2, <1>3

\* One iteration moves a pointer along.
LEMMA AlongStep ==
  ASSUME NEW i, Decoded(i), NEW y \in Word, NEW n \in 0 .. 14
  PROVE  Along(i, y, 0) = y /\ Next1(i, Along(i, y, n)) = Along(i, y, n + 1)
<1> DEFINE size == 2^i.a
           b == Bytes(i.w)
           m == n * b
           x == Along(i, y, n)
<1>1. size \in {4, 8, 16} /\ b \in {1, 2, 4, 8} /\ b <= size
  <2>1. i.a \in 2 .. 4 /\ i.w \in 1 .. 4 /\ b <= size
    BY DEF Decoded
  <2>2. size \in {4, 8, 16}
    <3> HIDE DEF b
    <3>1. CASE i.a = 2 BY <3>1
    <3>2. CASE i.a = 3 BY <3>2
    <3>3. CASE i.a = 4 BY <3>3
    <3> QED BY <2>1, <3>1, <3>2, <3>3
  <2>3. b \in {1, 2, 4, 8}
    <3> HIDE DEF size
    <3> QED BY <2>1, Powers DEF Bytes
  <2> QED BY <2>1, <2>2, <2>3
<1>2. /\ Along(i, y, 0)
           = (size * (y \div size)) + ((IF i.df THEN ((y % size) + 16 * size) - (0 * b)
                                       ELSE (y % size) + (0 * b)) % size)
      /\ x = (size * (y \div size)) + ((IF i.df THEN ((y % size) + 16 * size) - m
                                       ELSE (y % size) + m) % size)
      /\ Along(i, y, n + 1)
           = (size * (y \div size)) + ((IF i.df THEN ((y % size) + 16 * size) - ((n + 1) * b)
                                       ELSE (y % size) + ((n + 1) * b)) % size)
  BY DEF Along
<1>3. Next1(i, x)
        = (size * (x \div size))
          + (IF ~i.df THEN ((x % size) + b) % size
             ELSE IF x % size >= b THEN (x % size) - b ELSE ((x % size) + size) - b)
  <2> HIDE DEF x
  <2> QED BY DEF Next1
<1> HIDE DEF size, b, x
<1>4. 0 * b = 0 /\ m \in Nat /\ (n + 1) * b = m + b /\ m + b <= 16 * size
  <2>1. CASE b = 1 BY <1>1, <2>1
  <2>2. CASE b = 2 BY <1>1, <2>2
  <2>3. CASE b = 4 BY <1>1, <2>3
  <2>4. CASE b = 8 BY <1>1, <2>4
  <2> QED BY <1>1, <2>1, <2>2, <2>3, <2>4
<1> HIDE DEF m
<1>5. CASE i.df
  <2>1. Along(i, y, 0) = y
    BY <1>1, <1>2, <1>4, <1>5, MovesNot
  <2>2. x = size * (y \div size) + ((((y % size) + 16 * size) - m) % size)
    BY <1>2, <1>5
  <2>3. Next1(i, x) = (size * (x \div size))
          + (IF x % size >= b THEN (x % size) - b ELSE ((x % size) + size) - b)
    BY <1>3, <1>5
  <2>4. Along(i, y, n + 1) = size * (y \div size) + ((((y % size) + 16 * size) - (m + b)) % size)
    BY <1>2, <1>4, <1>5
  <2>5. b \in 1 .. size
    BY <1>1
  <2>6. Next1(i, x) = Along(i, y, n + 1)
    <3> USE <1>4, <2>2, <2>3, <2>4, <2>5 DEF Word
    <3>1. CASE size = 4 BY <3>1
    <3>2. CASE size = 8 BY <3>2
    <3>3. CASE size = 16 BY <3>3
    <3> QED BY <1>1, <3>1, <3>2, <3>3
  <2> QED BY <2>1, <2>6 DEF x
<1>6. CASE ~i.df
  <2>1. Along(i, y, 0) = y
    BY <1>1, <1>2, <1>4, <1>6, MovesNot
  <2>2. x = size * (y \div size) + (((y % size) + m) % size)
    BY <1>2, <1>6
  <2>3. Next1(i, x) = (size * (x \div size)) + (((x % size) + b) % size)
    BY <1>3, <1>6
  <2>4. Along(i, y, n + 1) = size * (y \div size) + (((y % size) + (m + b)) % size)
    BY <1>2, <1>4, <1>6
  <2>5. b \in Nat
    BY <1>1
  <2>6. Next1(i, x) = Along(i, y, n + 1)
    <3> USE <1>4, <2>2, <2>3, <2>4, <2>5 DEF Word
    <3>1. CASE size = 4 BY <3>1
    <3>2. CASE size = 8 BY <3>2
    <3>3. CASE size = 16 BY <3>3
    <3> QED BY <1>1, <3>1, <3>2, <3>3
  <2> QED BY <2>1, <2>6 DEF x
<1> QED BY <1>5, <1>6

\* The devices that iteration n + 1 reads and writes.
ReadVisit(n) == IF insn.op \in {"movs", "lods"} THEN Visits("r", RSI, n) ELSE <<>>
WriteVisit(n) == IF insn.op \in {"movs", "stos"} THEN Visits("w", RDI, n) ELSE <<>>

\* The recursion of Expected has a solution up to k.
Unfolds(k) ==
    \E g : \A n \in 0 .. k :
        g[n] = IF n = 0 THEN <<>> ELSE g[n - 1] \o ReadVisit(n - 1) \o WriteVisit(n - 1)

\* The solution is extended by one.
LEMMA UnfoldsMore == ASSUME NEW k \in 0 .. 14, Unfolds(k) PROVE Unfolds(k + 1)
<1> DEFINE next(g, n) == g[n - 1] \o ReadVisit(n - 1) \o WriteVisit(n - 1)
<1>1. PICK g : \A n \in 0 .. k : g[n] = IF n = 0 THEN <<>> ELSE next(g, n)
  BY DEF Unfolds
<1> DEFINE h == [n \in 0 .. (k + 1) |-> IF n = k + 1 THEN next(g, n) ELSE g[n]]
<1>2. ASSUME NEW n \in 0 .. (k + 1)
      PROVE  h[n] = IF n = 0 THEN <<>> ELSE next(h, n)
  <2>1. CASE n = 0
    BY <1>1, <2>1
  <2>2. CASE n # 0
    <3>1. n - 1 \in 0 .. (k + 1) /\ n - 1 # k + 1 /\ h[n - 1] = g[n - 1]
      BY <2>2
    <3>2. next(h, n) = next(g, n)
      <4> HIDE DEF h
      <4> QED BY <3>1
    <3>3. h[n] = next(g, n)
      <4>1. CASE n = k + 1
        BY <4>1
      <4>2. CASE n # k + 1
        <5>1. n \in 0 .. k /\ h[n] = g[n]
          BY <4>2
        <5> HIDE DEF h
        <5> QED BY <1>1, <2>2, <5>1
      <4> QED BY <4>1, <4>2
    <3> HIDE DEF h, next
    <3> QED BY <2>2, <3>2, <3>3
  <2> QED BY <1>1, <2>1, <2>2
<1> HIDE DEF h
<1> QED BY <1>2 DEF Unfolds

\* Expected is what its definition says.
LEMMA ExpectedIs ==
  ASSUME NEW n \in Word
  PROVE  Expected[n] = IF n = 0 THEN <<>>
                       ELSE Expected[n - 1] \o ReadVisit(n - 1) \o WriteVisit(n - 1)
<1>1. Unfolds(0)
  <2>1. \A m \in 0 .. 0 : [l \in {0} |-> <<>>][m]
          = IF m = 0 THEN <<>> ELSE [l \in {0} |-> <<>>][m - 1] \o ReadVisit(m - 1) \o WriteVisit(m - 1)
    OBVIOUS
  <2> QED BY <2>1, Zenon DEF Unfolds
<1>2. \A k \in 0 .. 14 : Unfolds(k) => Unfolds(k + 1)
  BY UnfoldsMore
<1>3. Unfolds(15)
  <2> DEFINE q(k) == Unfolds(k)
  <2>1. q(0) /\ \A k \in 0 .. 14 : q(k) => q(k + 1)
    BY <1>1, <1>2
  <2> HIDE DEF q
  <2>2. q(1) /\ q(2) /\ q(3) /\ q(4) /\ q(5)
    BY <2>1
  <2>3. q(6) /\ q(7) /\ q(8) /\ q(9) /\ q(10)
    BY <2>1, <2>2
  <2>4. q(11) /\ q(12) /\ q(13) /\ q(14) /\ q(15)
    BY <2>1, <2>3
  <2> QED BY <2>4 DEF q
<1> DEFINE next(f, m) == f[m - 1] \o ReadVisit(m - 1) \o WriteVisit(m - 1)
           Solves(f) == f = [m \in Word |-> IF m = 0 THEN <<>> ELSE next(f, m)]
<1>4. \E f : Solves(f)
  <2>1. PICK g : \A m \in 0 .. 15 : g[m] = IF m = 0 THEN <<>> ELSE next(g, m)
    BY <1>3 DEF Unfolds
  <2> DEFINE h == [m \in Word |-> g[m]]
  <2>2. ASSUME NEW m \in Word
        PROVE  h[m] = IF m = 0 THEN <<>> ELSE next(h, m)
    <3>1. h[m] = g[m] /\ m \in 0 .. 15
      BY DEF Word
    <3>2. CASE m = 0
      <4> HIDE DEF h, next
      <4> QED BY <2>1, <3>1, <3>2
    <3>3. CASE m # 0
      <4>1. h[m - 1] = g[m - 1]
        BY <3>3 DEF Word
      <4>2. next(h, m) = next(g, m)
        <5> HIDE DEF h
        <5> QED BY <4>1
      <4> HIDE DEF h, next
      <4> QED BY <2>1, <3>1, <3>3, <4>2
    <3> QED BY <3>2, <3>3
  <2>3. h = [m \in Word |-> h[m]]
    OBVIOUS
  <2> HIDE DEF h, next
  <2>4. Solves(h)
    BY <2>2, <2>3
  <2> HIDE DEF Solves
  <2> QED BY <2>4
<1>5. Expected = CHOOSE f : Solves(f)
  BY Zenon DEF Expected, ReadVisit, WriteVisit
<1>6. Solves(Expected)
  <2> HIDE DEF Solves
  <2> QED BY <1>4, <1>5
<1> QED BY <1>6

\* Nothing that Expected depends on changes.
LEMMA ExpectedKept ==
  ASSUME insn' = insn, first' = first
  PROVE  Expected' = Expected /\ \A r, n : Advanced(r, n)' = Advanced(r, n)
<1>1. Expected' = Expected
  BY SMT DEF Expected, Visits, Advanced
<1> QED BY <1>1 DEF Advanced

\* A step of a pointer, and what it leaves alone.
LEMMA StepIs ==
  ASSUME NEW i, Decoded(i), NEW regs \in [Reg -> Word], NEW r \in Reg
  PROVE  /\ Step(i, regs, r) = [regs EXCEPT ![r] = Next1(i, regs[r])]
         /\ Step(i, regs, r) \in [Reg -> Word]
<1>1. Step(i, regs, r) = [regs EXCEPT ![r] = Next1(i, regs[r])]
  BY DEF Step, Next1
<1> QED BY <1>1, PointerMoves

\* What an iteration of a repeated instruction does to count and pointers.
LEMMA IterationMoves ==
  ASSUME NEW i, Decoded(i), i.rep, NEW b, Begun(b), ~Exhausted(i, b.cpu), NEW x \in Word,
         NEW lazy \in BOOLEAN, NEW g, g = b.cpu.regs,
         NEW h, h = Effect(i, b, x, lazy).regs
  PROVE  /\ h[RCX] = g[RCX] - 1
         /\ h[RSI] = IF i.op = "stos" THEN g[RSI] ELSE Next1(i, g[RSI])
         /\ h[RDI] = IF i.op = "lods" THEN g[RDI] ELSE Next1(i, g[RDI])
<1> DEFINE count == [g EXCEPT ![RCX] = @ - 1]
<1>1. g \in [Reg -> Word] /\ count = Counted(i, g) /\ count \in [Reg -> Word]
  BY BegunCpu, CountedType DEF Counted
<1>2. /\ count[RCX] = g[RCX] - 1 /\ count[RSI] = g[RSI] /\ count[RDI] = g[RDI]
      /\ RSI \in Reg /\ RDI \in Reg /\ RAX \in Reg /\ RCX \in Reg
      /\ RSI # RDI /\ RSI # RCX /\ RDI # RCX /\ RAX # RCX /\ RAX # RSI /\ RAX # RDI
  BY <1>1, Registers DEF RSI, RDI, RCX, RAX
<1> HIDE DEF count
<1>3. CASE i.op = "movs"
  <2> DEFINE m == Step(i, count, RSI)
             k == Step(i, m, RDI)
  <2>1. h = k
    BY <1>1, <1>3, EffectMovs DEF IsEffect
  <2>2. m = [count EXCEPT ![RSI] = Next1(i, count[RSI])] /\ m \in [Reg -> Word]
    BY <1>1, <1>2, StepIs
  <2>3. k = [m EXCEPT ![RDI] = Next1(i, m[RDI])]
    <3>1. m \in [Reg -> Word] /\ RDI \in Reg
      BY <1>2, <2>2
    <3> HIDE DEF m
    <3> QED BY <3>1, StepIs
  <2> HIDE DEF m, k
  <2>4. /\ m[RCX] = count[RCX] /\ m[RDI] = count[RDI] /\ m[RSI] = Next1(i, count[RSI])
    BY <1>1, <1>2, <2>2
  <2>5. /\ k[RCX] = m[RCX] /\ k[RSI] = m[RSI] /\ k[RDI] = Next1(i, m[RDI])
    BY <1>2, <2>2, <2>3
  <2> QED BY <1>2, <1>3, <2>1, <2>4, <2>5
<1>4. CASE i.op = "stos"
  <2> DEFINE k == Step(i, count, RDI)
  <2>1. h = k
    BY <1>1, <1>4, EffectStos DEF IsEffect
  <2>2. k = [count EXCEPT ![RDI] = Next1(i, count[RDI])]
    BY <1>1, <1>2, StepIs
  <2> HIDE DEF k
  <2> QED BY <1>1, <1>2, <1>4, <2>1, <2>2
<1>5. CASE i.op = "lods"
  <2> DEFINE m == Put(count, RAX, i.w, x % 2^i.w)
             k == Step(i, m, RSI)
  <2>1. h = k
    BY <1>1, <1>5, EffectLods DEF IsEffect
  <2>2. m \in [Reg -> Word]
    <3>1. x % 2^i.w \in Val(i.w)
      BY OperandRead
    <3> QED BY <1>1, <1>2, <3>1, RegisterOperand
  <2>3. m[RCX] = count[RCX] /\ m[RSI] = count[RSI] /\ m[RDI] = count[RDI]
    BY <1>1, <1>2 DEF Put
  <2>4. k = [m EXCEPT ![RSI] = Next1(i, m[RSI])]
    BY <1>2, <2>2, StepIs
  <2> HIDE DEF m, k
  <2> QED BY <1>2, <1>5, <2>1, <2>2, <2>3, <2>4
<1> QED BY <1>3, <1>4, <1>5 DEF Decoded

\* The kinds and addresses of a sequence of accesses.
Seen(s) == [n \in DOMAIN s |-> <<s[n].k, s[n].a>>]
Kinds == {"r", "w"} \X Word

\* One after the other.
LEMMA SeenParts ==
  ASSUME NEW s, NEW t, NEW r, NEW x, s = <<>> \/ s = <<r>>, t = <<>> \/ t = <<x>>
  PROVE  Seen(s \o t) = Seen(s) \o Seen(t)
         /\ Seen(<<>>) = <<>> /\ Seen(<<r>>) = << <<r.k, r.a>> >>
<1> DEFINE p == <<r.k, r.a>>
           q == <<x.k, x.a>>
<1>1. Seen(<<>>) = <<>> /\ Seen(<<r>>) = <<p>> /\ Seen(<<x>>) = <<q>>
  BY DEF Seen
<1>2. /\ <<r>> \in Seq({r, x}) /\ <<x>> \in Seq({r, x}) /\ <<>> \in Seq({r, x})
      /\ <<p>> \in Seq({p, q}) /\ <<q>> \in Seq({p, q}) /\ <<>> \in Seq({p, q})
  OBVIOUS
<1>3. CASE s = <<>>
  <2>1. s \o t = t
    BY <1>2, <1>3
  <2>2. Seen(s) \o Seen(t) = Seen(t)
    <3> HIDE DEF p, q
    <3>1. Seen(t) \in Seq({p, q})
      BY <1>1, <1>2
    <3> QED BY <1>1, <1>3, <3>1
  <2> QED BY <1>1, <2>1, <2>2
<1>4. CASE t = <<>>
  <2>1. s \o t = s
    BY <1>2, <1>4
  <2>2. Seen(s) \o Seen(t) = Seen(s)
    <3> HIDE DEF p, q
    <3>1. Seen(s) \in Seq({p, q})
      BY <1>1, <1>2
    <3> QED BY <1>1, <1>4, <3>1
  <2> QED BY <1>1, <2>1, <2>2
<1>5. CASE s = <<r>> /\ t = <<x>>
  <2> DEFINE u == s \o t
             z == <<p>> \o <<q>>
  <2>1. DOMAIN u = 1 .. 2 /\ u[1] = r /\ u[2] = x
    BY <1>2, <1>5
  <2>2. z \in Seq({p, q}) /\ Len(z) = 2 /\ z[1] = p /\ z[2] = q
    <3> HIDE DEF p, q
    <3> QED BY <1>2
  <2> HIDE DEF u, z
  <2>3. Seen(u) = [n \in 1 .. 2 |-> IF n = 1 THEN p ELSE q]
    BY <2>1 DEF Seen
  <2>4. z = [n \in 1 .. 2 |-> IF n = 1 THEN p ELSE q]
    <3> HIDE DEF p, q
    <3> QED BY <2>2
  <2> QED BY <1>1, <1>5, <2>3, <2>4 DEF u, z
<1> QED BY <1>1, <1>3, <1>4, <1>5

\* A sequence of one access at most.
AtMostOne(s) == s = <<>> \/ \E r : s = <<r>>

\* The same for two of them.
LEMMA SeenBoth ==
  ASSUME NEW s, NEW t, AtMostOne(s), AtMostOne(t)
  PROVE  Seen(s \o t) = Seen(s) \o Seen(t)
<1>1. PICK r, y : (s = <<>> \/ s = <<r>>) /\ (t = <<>> \/ t = <<y>>)
  BY DEF AtMostOne
<1>2. CASE s = <<>> /\ t = <<>> BY <1>2, SeenParts
<1>3. CASE s = <<>> /\ t = <<y>> BY <1>3, SeenParts
<1>4. CASE s = <<r>> /\ t = <<>> BY <1>4, SeenParts
<1>5. CASE s = <<r>> /\ t = <<y>> BY <1>5, SeenParts
<1> QED BY <1>1, <1>2, <1>3, <1>4, <1>5

\* A log is continued access by access.
LEMMA LogContinued ==
  ASSUME NEW s \in Seq(Kinds), NEW t \in Seq(Kinds), NEW u \in Seq(Kinds)
  PROVE  s \o (t \o u) = (s \o t) \o u /\ s \o (t \o u) \in Seq(Kinds)
<1>1. s \o (t \o u) = (s \o t) \o u
  BY ConcatAssociative
<1>2. s \o (t \o u) \in Seq(Kinds)
  BY ConcatProperties
<1> QED BY <1>1, <1>2

\* Between iterations, registers and log are where the count says.
RepInv ==
    pc \notin {"decode", "decoded"} /\ insn.rep =>
        LET n == first.regs[RCX] - begin.cpu.regs[RCX]
        IN  /\ begin.cpu.regs[RCX] <= first.regs[RCX]
            /\ begin.cpu.regs[RSI] = Advanced(RSI, IF insn.op = "stos" THEN 0 ELSE n)
            /\ begin.cpu.regs[RDI] = Advanced(RDI, IF insn.op = "lods" THEN 0 ELSE n)
            /\ log = Expected[n]
            /\ log \in Seq(Kinds)
            /\ pc = "end" => begin.cpu.regs[RCX] = 0

\* Advanced is where pointers are along.
LEMMA AdvancedIs == \A r, n : Advanced(r, n) = Along(insn, first.regs[r], n)
BY DEF Advanced, Along

\* The accesses of iteration n + 1 are those expected of it.
LEMMA IterationSeen ==
  ASSUME NEW i, i = insn, Decoded(i), i.rep, NEW b, Begun(b), ~Exhausted(i, b.cpu),
         NEW x \in Word, NEW lazy \in BOOLEAN, NEW n,
         i.op # "stos" => b.cpu.regs[RSI] = Advanced(RSI, n),
         i.op # "lods" => b.cpu.regs[RDI] = Advanced(RDI, n)
  PROVE  /\ Seen(Outcome(i, b, x, lazy).acc) = ReadVisit(n) \o WriteVisit(n)
         /\ ReadVisit(n) \in Seq(Kinds) /\ WriteVisit(n) \in Seq(Kinds)
<1> DEFINE e == Effect(i, b, x, lazy)
           s == ReadPart(i, b.cpu, x)
           t == WritePart(e)
           si == Si(i, b.cpu)
           di == Di(i, b.cpu)
<1>1. i.op \in {"movs", "stos", "lods"} /\ i.form = "implicit"
  BY Forms DEF Decoded
<1>2. Outcome(i, b, x, lazy).acc = s \o t
  BY <1>1, OutcomeIs
<1>3. si \in Word /\ di \in Word
  BY BegunCpu, RegisterAddress, Registers DEF Si, Di
<1>4. /\ i.op # "stos" => Advanced(RSI, n) % 2^i.a = si
      /\ i.op # "lods" => Advanced(RDI, n) % 2^i.a = di
  BY DEF Si, Di, register_address
<1> HIDE DEF e, si, di
<1>5. \E r : /\ s = <<>> \/ s = <<r>>
             /\ Seen(s) = ReadVisit(n) /\ ReadVisit(n) \in Seq(Kinds)
  <2> DEFINE r == R(si, ReadWidth(i), x)
             p == <<"r", si>>
  <2>1. r.k = "r" /\ r.a = si /\ p \in Kinds
    BY <1>3 DEF R, Kinds
  <2>2. ReadVisit(n) = IF i.op # "stos" /\ IsIo(si) THEN <<p>> ELSE <<>>
    BY <1>1, <1>4 DEF ReadVisit, Visits
  <2>3. s = IF i.op # "stos" /\ IsIo(si) THEN <<r>> ELSE <<>>
    BY <1>1 DEF ReadPart, ReadsDevice, Reads, ReadAddress, IsIo, si
  <2> HIDE DEF r, s
  <2>4. Seen(<<>>) = <<>> /\ Seen(<<r>>) = <<p>>
    BY <2>1, SeenParts
  <2>5. Seen(s) = ReadVisit(n) /\ (s = <<>> \/ s = <<r>>)
    BY <2>2, <2>3, <2>4
  <2>6. ReadVisit(n) \in Seq(Kinds)
    <3> HIDE DEF p
    <3> QED BY <2>1, <2>2
  <2> QED BY <2>5, <2>6
<1>6. \E r : /\ t = <<>> \/ t = <<r>>
             /\ Seen(t) = WriteVisit(n) /\ WriteVisit(n) \in Seq(Kinds)
  <2> DEFINE r == W(e.write[1], e.write[2], e.write[3])
             p == <<"w", di>>
  <2>1. e.write = <<>> <=> i.op = "lods"
    <3>1. CASE i.op = "movs"
      <4>1. IsEffect(e, Step(i, Step(i, Counted(i, b.cpu.regs), RSI), RDI), b.cpu.zf, b.cpu.cf,
                     <<si, i.w>>, <<di, i.w, x % 2^i.w>>)
        BY <3>1, EffectMovs DEF e, si, di
      <4> QED BY <3>1, <4>1 DEF IsEffect
    <3>2. CASE i.op = "stos"
      <4>1. IsEffect(e, Step(i, Counted(i, b.cpu.regs), RDI), b.cpu.zf, b.cpu.cf,
                     <<>>, <<di, i.w, b.cpu.regs[RAX] % 2^i.w>>)
        BY <3>2, EffectStos DEF e, di
      <4> QED BY <3>2, <4>1 DEF IsEffect
    <3>3. CASE i.op = "lods"
      <4>1. IsEffect(e, Step(i, Put(Counted(i, b.cpu.regs), RAX, i.w, x % 2^i.w), RSI),
                     b.cpu.zf, b.cpu.cf, <<si, i.w>>, <<>>)
        BY <3>3, EffectLods DEF e, si
      <4> QED BY <3>3, <4>1 DEF IsEffect
    <3> QED BY <1>1, <3>1, <3>2, <3>3
  <2>2. e.write # <<>> => e.write[1] = di
    BY <1>1, EffectAccesses, ZenonT(40) DEF e, di, WriteAddress
  <2>3. r.k = "w" /\ r.a = e.write[1] /\ p \in Kinds
    BY <1>3 DEF W, Kinds
  <2>4. WriteVisit(n) = IF i.op # "lods" /\ IsIo(di) THEN <<p>> ELSE <<>>
    BY <1>1, <1>4 DEF WriteVisit, Visits
  <2>5. t = IF i.op # "lods" /\ IsIo(di) THEN <<r>> ELSE <<>>
    BY <2>1, <2>2 DEF WritePart
  <2> HIDE DEF r, t
  <2>6. Seen(<<>>) = <<>> /\ (i.op # "lods" => Seen(<<r>>) = <<p>>)
    BY <2>1, <2>2, <2>3, SeenParts
  <2>7. Seen(t) = WriteVisit(n) /\ (t = <<>> \/ t = <<r>>)
    BY <2>4, <2>5, <2>6
  <2>8. WriteVisit(n) \in Seq(Kinds)
    <3> HIDE DEF p
    <3> QED BY <2>3, <2>4
  <2> QED BY <2>7, <2>8
<1> HIDE DEF s, t
<1>7. Seen(s \o t) = Seen(s) \o Seen(t)
  <2>1. AtMostOne(s) /\ AtMostOne(t)
    BY <1>5, <1>6 DEF AtMostOne
  <2> QED BY <2>1, SeenBoth
<1> QED BY <1>2, <1>5, <1>6, <1>7

\* The end of an iteration: the next one begins, or the repetition is over.
LEMMA RepeatedRetire ==
  ASSUME EmulateInv, RepInv, Retire
  PROVE  RepInv'
<1> SUFFICES ASSUME insn'.rep PROVE RepInv'
  BY DEF RepInv
<1>1. /\ pc = "retired" /\ UNCHANGED <<insn, cpu, first>>
      /\ pc' = IF cpu.rip = 1 THEN "end" ELSE "guest"
      /\ begin'.cpu = cpu /\ log' = log \o Seen(acc)
  BY DEF Retire, Seen
<1> DEFINE i == insn
           g == begin.cpu.regs
           h == cpu.regs
           f == first.regs
           n == f[RCX] - g[RCX]
<1>2. /\ AsArch /\ Got \in Word /\ Decoded(i) /\ i.rep /\ cpu \in Cpu /\ first \in Cpu
      /\ Begun(begin) /\ begin.cpu \in Cpu /\ ~Mispopped(insn)
  BY <1>1, Running DEF EmulateInv, Stages, Typed, Decoded, Mispopped
<1>3. /\ g[RCX] <= f[RCX] /\ log = Expected[n] /\ log \in Seq(Kinds)
      /\ g[RSI] = Advanced(RSI, IF i.op = "stos" THEN 0 ELSE n)
      /\ g[RDI] = Advanced(RDI, IF i.op = "lods" THEN 0 ELSE n)
  BY <1>1, <1>2 DEF RepInv
<1>4. /\ g \in [Reg -> Word] /\ f \in [Reg -> Word] /\ h \in [Reg -> Word]
      /\ {RCX, RSI, RDI} \subseteq Reg
      /\ g[RCX] \in Word /\ f[RCX] \in Word /\ h[RCX] \in Word
  BY <1>2, Registers DEF Cpu
<1>5. Expected' = Expected /\ \A r, m : Advanced(r, m)' = Advanced(r, m)
  BY <1>1, ExpectedKept
<1> DEFINE k == f[RCX] - h[RCX]
<1>6. ASSUME h[RCX] <= f[RCX], log' = Expected[k], log' \in Seq(Kinds),
             h[RSI] = Advanced(RSI, IF i.op = "stos" THEN 0 ELSE k),
             h[RDI] = Advanced(RDI, IF i.op = "lods" THEN 0 ELSE k),
             pc' = "end" => h[RCX] = 0
      PROVE  RepInv'
  BY <1>1, <1>5, <1>6 DEF RepInv, Advanced
<1>7. CASE Exhausted(i, begin.cpu)
  <2>1. cpu = [begin.cpu EXCEPT !.rip = 1] /\ acc = <<>>
    BY <1>1, <1>2, <1>7 DEF AsArch, Exhausted
  <2>2. h = g
    BY <1>2, <2>1 DEF Cpu
  <2>3. log' = log
    BY <1>1, <1>3, <2>1 DEF Seen
  <2> QED BY <1>3, <1>6, <1>7, <2>2, <2>3 DEF Exhausted
<1>8. CASE ~Exhausted(i, begin.cpu)
  <2>1. PICK lazy \in BOOLEAN : LET o == Outcome(i, begin, Got, lazy)
                                IN  SameCpu(cpu, o.cpu) /\ acc = o.acc
    BY <1>1, <1>2, <1>8 DEF AsArch, Exhausted
  <2> DEFINE e == Effect(i, begin, Got, lazy)
             o == Outcome(i, begin, Got, lazy)
  <2>2. i.op \in {"movs", "stos", "lods"}
    BY <1>2 DEF Decoded
  <2>3. o.cpu = CpuOf(i, e)
    BY <1>2, <1>8, <2>2, OutcomeIs
  <2>4. h = e.regs /\ cpu.rip = 0 /\ acc = o.acc
    <3> HIDE DEF e, o
    <3> QED BY <1>2, <2>1, <2>2, <2>3 DEF SameCpu, CpuOf, o
  <2>5. n \in 0 .. 14
    <3>1. g[RCX] # 0
      BY <1>2, <1>8 DEF Exhausted
    <3> HIDE DEF g, f
    <3> QED BY <1>3, <1>4, <3>1 DEF Word
  <2>6. /\ h[RCX] = g[RCX] - 1
        /\ h[RSI] = IF i.op = "stos" THEN g[RSI] ELSE Next1(i, g[RSI])
        /\ h[RDI] = IF i.op = "lods" THEN g[RDI] ELSE Next1(i, g[RDI])
    BY <1>2, <1>8, <2>4, IterationMoves
  <2>7. h[RCX] <= f[RCX] /\ k = n + 1 /\ n + 1 \in Word /\ n + 1 # 0 /\ (n + 1) - 1 = n
    <3>1. /\ h[RCX] = g[RCX] - 1 /\ g[RCX] \in 0 .. 15 /\ f[RCX] \in 0 .. 15
          /\ g[RCX] <= f[RCX] /\ n \in 0 .. 14
      BY <1>3, <1>4, <2>5, <2>6 DEF Word
    <3> HIDE DEF h, g, f
    <3> QED BY <3>1 DEF Word
  <2>8. /\ h[RSI] = Advanced(RSI, IF i.op = "stos" THEN 0 ELSE k)
        /\ h[RDI] = Advanced(RDI, IF i.op = "lods" THEN 0 ELSE k)
    <3>1. \A r \in {RSI, RDI} : Next1(i, Advanced(r, n)) = Advanced(r, n + 1)
      BY <1>2, <1>4, <2>5, AdvancedIs, AlongStep
    <3> HIDE DEF i, h, g, f, n, k
    <3> QED BY <1>3, <2>6, <2>7, <3>1
  <2>9. Seen(acc) = ReadVisit(n) \o WriteVisit(n)
        /\ ReadVisit(n) \in Seq(Kinds) /\ WriteVisit(n) \in Seq(Kinds)
    <3>1. /\ i.op # "stos" => g[RSI] = Advanced(RSI, n)
          /\ i.op # "lods" => g[RDI] = Advanced(RDI, n)
      BY <1>3
    <3> HIDE DEF n
    <3> QED BY <1>2, <1>8, <2>4, <3>1, IterationSeen
  <2>10. Expected[n + 1] = (Expected[n] \o ReadVisit(n)) \o WriteVisit(n)
    <3> HIDE DEF n
    <3> QED BY <2>7, ExpectedIs
  <2>11. log' = Expected[k] /\ log' \in Seq(Kinds)
    <3> HIDE DEF n, k
    <3>1. /\ log \o (ReadVisit(n) \o WriteVisit(n)) = (log \o ReadVisit(n)) \o WriteVisit(n)
          /\ log \o (ReadVisit(n) \o WriteVisit(n)) \in Seq(Kinds)
      BY <1>3, <2>9, LogContinued, Zenon
    <3> QED BY <1>1, <1>3, <2>7, <2>9, <2>10, <3>1
  <2> HIDE DEF h, f, k, g, n
  <2> QED BY <1>1, <1>6, <2>4, <2>7, <2>8, <2>11
<1> QED BY <1>7, <1>8

\* Nothing else moves the count, and only the end of an iteration ends the
\* instruction.
LEMMA RepeatedElse ==
  ASSUME EmulateInv, RepInv, Next, ~Retire
  PROVE  RepInv'
<1>1. UNCHANGED <<insn, begin, first, log>>
  BY DEF Next, Decode, GuestExecutes, GuestFaults, emulate_instruction, Goto, FetchesDst,
         FetchesSrc, Executes, ExecutesSpecial, WritesBack, EmulationDone, UserReads, UserWrites
<1>2. pc' # "end" /\ (pc' \notin {"decode", "decoded"} => pc \notin {"decode", "decoded"})
  <2>1. CASE EmulationDone
    <3>1. Done0 /\ pc = "done"
      BY <2>1 DEF EmulationDone, EmulateInv, Emulating, Stages
    <3>2. PICK lazy \in BOOLEAN : lazy
      OBVIOUS
    <3>3. \/ ctxt.rc = "continue"
          \/ ctxt.rc \in {"unhandleable", "propagate"} /\ ~ctxt.mm.write
      BY <3>1, <3>2 DEF Done0, Ends, Stopped
    <3> QED BY <2>1, <3>1, <3>3 DEF EmulationDone
  <2>2. CASE ~EmulationDone
    BY <2>2 DEF Next, Decode, GuestExecutes, GuestFaults, emulate_instruction, Goto, FetchesDst,
                FetchesSrc, Executes, ExecutesSpecial, WritesBack, UserReads, UserWrites
  <2> QED BY <2>1, <2>2
<1>3. Expected' = Expected /\ \A r, m : Advanced(r, m)' = Advanced(r, m)
  BY <1>1, ExpectedKept
<1> QED BY <1>1, <1>2, <1>3 DEF RepInv, Advanced

\* The first iteration.
LEMMA RepeatedInit == Init => RepInv
<1> SUFFICES ASSUME Init, pc \notin {"decode", "decoded"}, insn.rep PROVE RepInv
  BY DEF RepInv
<1>1. /\ pc = "guest" /\ begin.cpu = first /\ log = <<>>
      /\ EmulateInv
  BY EmulateInit DEF Init
<1>2. Decoded(insn) /\ first \in Cpu
  BY <1>1, Running DEF EmulateInv, Stages, Typed
<1> DEFINE f == first.regs
<1>3. f \in [Reg -> Word] /\ {RCX, RSI, RDI} \subseteq Reg
  BY <1>2, Registers DEF Cpu
<1>4. f[RCX] - f[RCX] = 0 /\ f[RCX] <= f[RCX]
  BY <1>3 DEF Word
<1>5. f[RSI] = Advanced(RSI, 0) /\ f[RDI] = Advanced(RDI, 0)
  <2>1. 0 \in 0 .. 14
    OBVIOUS
  <2> QED BY <1>2, <1>3, <2>1, AdvancedIs, AlongStep
<1>6. Expected[0] = <<>>
  BY ExpectedIs DEF Word
<1> QED BY <1>1, <1>4, <1>5, <1>6 DEF RepInv

\* A repeated string instruction, run by processor and emulator in turns, is
\* between iterations where its count says, has accessed each device once
\* for each iteration, and ends at zero.
THEOREM RepTheorem == Spec => []RepExact
<1>1. Init => EmulateInv /\ RepInv
  BY EmulateInit, RepeatedInit
<1>2. (EmulateInv /\ RepInv) /\ [Next]_vars => (EmulateInv /\ RepInv)'
  <2> SUFFICES ASSUME EmulateInv, RepInv, [Next]_vars PROVE RepInv'
    BY EmulateStep
  <2>1. CASE UNCHANGED vars
    <3>1. UNCHANGED <<pc, insn, begin, first, log>>
      BY <2>1 DEF vars
    <3>2. Expected' = Expected /\ \A r, m : Advanced(r, m)' = Advanced(r, m)
      BY <3>1, ExpectedKept
    <3> QED BY <3>1, <3>2 DEF RepInv, Advanced
  <2> QED BY <2>1, RepeatedRetire, RepeatedElse
<1>3. EmulateInv /\ RepInv => RepExact
  <2> SUFFICES ASSUME EmulateInv, RepInv, insn.rep, pc \in {"guest", "end", "faulted"}
               PROVE  RepExact
    BY DEF RepExact
  <2>1. cpu = begin.cpu
    BY DEF EmulateInv, Pending, Untouched, Stages
  <2> QED BY <2>1 DEF RepInv, RepExact
<1> QED BY <1>1, <1>2, <1>3, PTL DEF Spec
=============================================================================
