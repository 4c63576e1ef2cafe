------------------------------- MODULE Emulate -------------------------------
(***************************************************************************)
(* The instruction emulator (x86_emulate.c) and the memory operations that *)
(* KVM gives it (kvm_main.c): how an instruction that touches memory-      *)
(* mapped I/O is decoded, fetches its operands, leaves for user space when *)
(* it needs a device, starts over with the answer, writes back and is      *)
(* committed.                                                              *)
(*                                                                         *)
(* Decoding is checked on encodings: the address they form, as a symbol,   *)
(* the sizes and the register they select.  Execution is checked on        *)
(* decoded instructions over registers of four bits: a value of width 1,   *)
(* 2, 3 or 4 (an operand of 1, 2, 4 or 8 bytes) is the low 1, 2, 3 or 4    *)
(* bits, so that bytes have a low and a high form and a 4-byte write       *)
(* clears the rest of a register.  Logical operations, shifts and bit      *)
(* tests take the same path as "add".                                      *)
(***************************************************************************)
EXTENDS InsnDecode

CONSTANTS
    Encodings,  \* the encodings to decode
    Insns,      \* the decoded instructions to execute
    Starts,     \* the cpu states they start in
    Ram0,       \* contents of memory, by address
    Region,     \* Region[a]: "ram", "io" or "unmapped"
    Answers     \* what a device may answer

Reg == 0 .. 7
Word == 0 .. 15
ASSUME EmulateAssumption ==
    /\ Ram0 \in [Word -> Word]
    /\ Region \in [Word -> {"ram", "io", "unmapped"}]
    /\ Answers \subseteq Word

\* What the prefixes and the fields of ModRM and SIB can be; a mod of 3
\* names a register and forms no address.
ASSUME EncodingsAssumption ==
    Encodings \subseteq
        [mode : {16, 32, 64}, prefixes : Seq({"66", "67", "fs", "ss"}),
         rex : BOOLEAN, W : BOOLEAN, X : BOOLEAN, B : BOOLEAN,
         mod : 0 .. 2, rm : Reg, base : Reg, index : Reg, reg : Reg,
         imm : {"none", "imm8", "imm", "test"}, byte : BOOLEAN,
         op : {"add", "mov", "movzx8", "movsx8"}]

VARIABLES
    pc,     \* "decode", "decoded"; "guest", "user", "retired"; a stage of the
            \*   emulator; "end", "faulted" (by a page fault) or "fail"
    enc,    \* the encoding being decoded
    dec,    \* what decoding it gave
    insn,   \* the instruction being executed
    cpu,    \* registers, flags, and rip: 0 at the instruction, 1 after it
    ram,    \* memory
    mm,     \* vcpu->mmio_*
    ctxt,   \* the locals of x86_emulate_memop
    begin,  \* history: cpu and memory when this iteration began
    acc,    \* history: device accesses of this iteration
    first,  \* history: cpu when the instruction began
    log     \* history: kinds and addresses of all its device accesses

vars == <<pc, enc, dec, insn, cpu, ram, mm, ctxt, begin, acc, first, log>>

-----------------------------------------------------------------------------
(* The memory operations that emulate_ops points to.                       *)

emulator_read_std(a, w) ==
    CASE Region[a] = "unmapped" -> [rc |-> "propagate", val |-> 0]
      [] Region[a] = "io" -> [rc |-> "unhandleable", val |-> 0]
      [] Region[a] = "ram" -> [rc |-> "continue", val |-> ram[a] % 2^w]

emulator_write_std(a, w) == "unhandleable"

\* An answer that is waiting is taken, whatever the address.
\*
\* Mutant: the answer stays.
ReadKeepsAnswer(m, a, w) ==
    LET std == emulator_read_std(a, w)
    IN  CASE m.completed -> [rc |-> "continue", val |-> m.data % 2^w, mm |-> m]
          [] ~m.completed /\ std.rc # "unhandleable" ->
               [rc |-> std.rc, val |-> std.val, mm |-> m]
          [] OTHER ->
               [rc |-> "unhandleable", val |-> 0,
                mm |-> [m EXCEPT !.needed = TRUE, !.write = FALSE, !.a = a, !.w = w]]

\* Mutant: an answer that is waiting is not looked for.
ReadAsksAgain(m, a, w) ==
    LET std == emulator_read_std(a, w)
    IN  IF std.rc # "unhandleable"
        THEN [rc |-> std.rc, val |-> std.val, mm |-> m]
        ELSE [rc |-> "unhandleable", val |-> 0,
              mm |-> [m EXCEPT !.needed = TRUE, !.write = FALSE, !.a = a, !.w = w]]

emulator_read_emulated(m, a, w) ==
    LET std == emulator_read_std(a, w)
    IN  CASE m.completed ->
               [rc |-> "continue", val |-> m.data % 2^w,
                mm |-> [m EXCEPT !.completed = FALSE]]
          [] ~m.completed /\ std.rc # "unhandleable" ->
               [rc |-> std.rc, val |-> std.val, mm |-> m]
          [] OTHER ->
               [rc |-> "unhandleable", val |-> 0,
                mm |-> [m EXCEPT !.needed = TRUE, !.write = FALSE, !.a = a, !.w = w]]

\* Memory is written by user space too: there is no case for it here.
emulator_write_emulated(m, a, w, v) ==
    IF Region[a] = "unmapped" THEN [rc |-> "propagate", mm |-> m]
    ELSE [rc |-> "continue",
          mm |-> [m EXCEPT !.needed = TRUE, !.write = TRUE, !.a = a, !.w = w,
                           !.data = v % 2^w]]

emulator_cmpxchg_emulated(m, a, w, old, new) == emulator_write_emulated(m, a, w, new)

-----------------------------------------------------------------------------
(* x86_emulate_memop, stage by stage.  A context c holds cr2, the shadow   *)
(* copies of registers, flags and rip, the operands src and dst, the       *)
(* result code of the last memory operation, and Mov and lock_prefix.      *)

opcode_table(i) ==
    [dst |-> CASE i.form \in {"mr", "mi", "m"} -> "mem"
               [] i.form = "rm" -> "reg" [] i.form = "implicit" -> "implicit",
     src |-> CASE i.form = "mr" -> "reg" [] i.form = "rm" -> "mem"
               [] i.form = "mi" -> "imm" [] OTHER -> "none",
     mov |-> i.op \in {"mov", "pop", "movs", "stos", "lods", "cmovz",
                       "movzx8", "movzx16", "movsx8", "movsx16", "movsxd"}]

ByteOp(i) == i.w = 1 \/ i.op \in {"movzx8", "movsx8"}

SrcWidth(i) ==
    CASE i.op \in {"movzx8", "movsx8"} -> 1
      [] i.op \in {"movzx16", "movsx16"} -> 2
      [] i.op = "movsxd" -> 3
      [] OTHER -> i.w

\* The inline assembly runs the instruction itself on the operands.
Alu(op, d, s, zf, cf, w) ==
    LET m == 2^w
        Sets(val, c) == [val |-> val, zf |-> val = 0, cf |-> c]
    IN  CASE op = "add" -> Sets((d + s) % m, d + s >= m)
          [] op = "sub" -> Sets(((d + m) - s) % m, d < s)
          [] op = "cmp" -> [Sets(((d + m) - s) % m, d < s) EXCEPT !.val = d]
          [] op = "inc" -> Sets((d + 1) % m, cf)
          [] op = "neg" -> Sets((m - d) % m, d # 0)
          [] op = "not" -> [val |-> (m - 1) - d, zf |-> zf, cf |-> cf]

Alu2 == {"add", "sub", "cmp"}
Alu1 == {"inc", "neg", "not"}

ReadReg(regs, p, w) ==
    IF p.high THEN (regs[p.reg] \div 2) % 2 ELSE regs[p.reg] % 2^w

\* "The 4-byte case *is* correct: in 64-bit mode we zero-extend."
WriteReg(regs, p, w, v) ==
    LET old == regs[p.reg]
        new == CASE p.high -> (old - 2 * ((old \div 2) % 2)) + 2 * v
                 [] ~p.high /\ w \in {1, 2} -> (old - (old % 2^w)) + v
                 [] OTHER -> v
    IN  [regs EXCEPT ![p.reg] = new]

register_address(i, regs, r) == regs[r] % 2^i.a

register_address_increment(x, a, n, down) ==
    LET moved == IF down THEN (x + 2^a) - n ELSE x + n
    IN  (x - (x % 2^a)) + (moved % 2^a)

Bytes(w) == 2^(w - 1)
Widest(i) == IF i.long THEN 4 ELSE i.w

NoOperand == [type |-> "none", ptr |-> 0, w |-> 1, val |-> 0, orig |-> 0]

Context(i, v, m, cr2) ==
    [rc |-> "continue", cr2 |-> cr2, regs |-> v.regs, zf |-> v.zf, cf |-> v.cf, eip |-> 1,
     mm |-> m, src |-> NoOperand, dst |-> NoOperand, mov |-> opcode_table(i).mov, lock |-> i.lock]

Fails(c, rc) == [c EXCEPT !.rc = rc]

FetchDst(i, c) ==
    LET reg == DstRegister(i.op, ByteOp(i), i.reg, i.rex)
        mem == emulator_read_emulated(c.mm, i.ea, i.w)
        Operand(type, ptr, val) ==
            [type |-> type, ptr |-> ptr, w |-> i.w, val |-> val, orig |-> val]
    IN  CASE opcode_table(i).dst = "reg" ->
               [c EXCEPT !.dst = Operand("reg", reg, ReadReg(c.regs, reg, i.w))]
          [] opcode_table(i).dst = "mem" /\ c.mov ->
               [c EXCEPT !.dst = Operand("mem", i.ea, 0)]
          [] opcode_table(i).dst = "mem" /\ ~c.mov ->
               [c EXCEPT !.rc = mem.rc, !.mm = mem.mm, !.dst = Operand("mem", i.ea, mem.val)]

FetchSrc(i, c) ==
    LET reg == decode_register(i.reg, ByteOp(i) /\ ~i.rex)
        mem == emulator_read_emulated(c.mm, i.ea, SrcWidth(i))
        Operand(type, ptr, val) ==
            [type |-> type, ptr |-> ptr, w |-> SrcWidth(i), val |-> val, orig |-> val]
    IN  CASE opcode_table(i).src = "none" -> c
          [] opcode_table(i).src = "reg" ->
               [c EXCEPT !.src = Operand("reg", reg, ReadReg(c.regs, reg, i.w))]
          [] opcode_table(i).src = "imm" ->
               [c EXCEPT !.src = Operand("imm", 0, i.imm)]
          [] opcode_table(i).src = "mem" ->
               [c EXCEPT !.rc = mem.rc, !.mm = mem.mm, !.src = Operand("mem", i.ea, mem.val)]

SignExtend(v, from, to) == IF v >= 2^(from - 1) THEN (v + 2^to) - 2^from ELSE v

Flags(c, r) == [c EXCEPT !.zf = r.zf, !.cf = r.cf]

\* The switch over the opcode: two operands, moves, xchg and pop.
Execute(i, c) ==
    LET d == c.dst.val
        s == c.src.val
        two == Alu(i.op, d, s, c.zf, c.cf, i.w)
        pop == emulator_read_std(register_address(i, c.regs, RSP), Widest(i))
    IN  CASE i.op \in Alu2 -> [Flags(c, two) EXCEPT !.dst.val = two.val]
          [] i.op = "mov" -> [c EXCEPT !.dst.val = s]
          [] i.op = "movsxd" ->
               IF i.long THEN [c EXCEPT !.dst.val = SignExtend(s, 3, i.w)]
               ELSE Fails(c, "unhandleable")
          [] i.op = "xchg" ->
               [c EXCEPT !.regs = WriteReg(c.regs, c.src.ptr, i.w, d),
                         !.dst.val = s, !.lock = TRUE]
          [] i.op = "pop" ->
               IF pop.rc # "continue" THEN Fails(c, pop.rc)
               ELSE [c EXCEPT !.dst.w = Widest(i), !.dst.val = pop.val,
                       !.regs[RSP] = register_address_increment(@, i.a, Bytes(Widest(i)), FALSE)]

\* Groups 3 to 5: one operand.
GroupOps == Alu1 \cup {"push", "mul"}

ExecuteGroup(i, c) ==
    LET one == Alu(i.op, c.dst.val, 0, c.zf, c.cf, i.w)
        operand == IF i.long THEN emulator_read_std(i.ea, 4).rc ELSE "continue"
    IN  CASE i.op \in Alu1 -> [Flags(c, one) EXCEPT !.dst.val = one.val]
          [] i.op = "push" ->
               Fails(c, IF operand # "continue" THEN operand
                        ELSE emulator_write_std(register_address(i, c.regs, RSP), i.w))
          [] i.op = "mul" -> Fails(c, "unhandleable")

\* "twobyte_insn:" of cmov, zf stands for every condition.
TwobyteOps == {"cmovz", "cmpxchg", "movzx8", "movzx16", "movsx8", "movsx16"}

ExecuteTwobyte(i, c) ==
    LET s == c.src.val
        eax == Alu("cmp", c.dst.val, c.regs[RAX] % 2^i.w, c.zf, c.cf, i.w)
    IN  CASE i.op = "cmovz" ->
               [c EXCEPT !.dst.val = s, !.dst.orig = s, !.mov = c.zf]
          [] i.op = "cmpxchg" ->
               [Flags(c, eax) EXCEPT
                   !.mov = TRUE,
                   !.dst.val = IF eax.zf THEN s ELSE @,
                   !.dst.type = IF eax.zf THEN "mem" ELSE "reg",
                   !.dst.ptr = IF eax.zf THEN @ ELSE decode_register(RAX, FALSE)]
          [] i.op \in {"movzx8", "movzx16"} -> [c EXCEPT !.dst.val = s]
          [] i.op \in {"movsx8", "movsx16"} ->
               [c EXCEPT !.dst.val = SignExtend(s, SrcWidth(i), i.w)]

\* "special_insn:" the string instructions decode their own operands.
Special(i, c) ==
    LET src == register_address(i, c.regs, RSI)
        dst == register_address(i, c.regs, RDI)
        Moved(x) == register_address_increment(x, i.a, Bytes(i.w), i.df)
        Operand(type, ptr, val) ==
            [type |-> type, ptr |-> ptr, w |-> i.w, val |-> val, orig |-> 0]
        movs == emulator_read_emulated(c.mm, src, i.w)
        lods == emulator_read_emulated(c.mm, c.cr2, i.w)
    IN  CASE i.op = "movs" ->
               [c EXCEPT !.rc = movs.rc, !.mm = movs.mm,
                         !.dst = Operand("mem", dst, movs.val),
                         !.regs[RSI] = Moved(@), !.regs[RDI] = Moved(@)]
          [] i.op = "stos" ->
               [c EXCEPT !.dst = Operand("mem", c.cr2, c.regs[RAX] % 2^i.w),
                         !.regs[RDI] = Moved(@)]
          [] i.op = "lods" ->
               [c EXCEPT !.rc = lods.rc, !.mm = lods.mm,
                         !.dst = Operand("reg", decode_register(RAX, FALSE), lods.val),
                         !.regs[RSI] = Moved(@)]
          [] i.op = "cmps" -> Fails(c, "unhandleable")

\* "twobyte_special_insn:" cmpxchg8b compares and writes by itself.
SpecialTwobyte(i, c) ==
    LET old == emulator_read_emulated(c.mm, c.cr2, 4)
        same == old.val % 8 = c.regs[RAX] % 8 /\ old.val \div 8 = c.regs[RDX] % 8
        new == (8 * c.regs[RCX] + (c.regs[RBX] % 8)) % 16
        xchg == emulator_cmpxchg_emulated(old.mm, c.cr2, 4, old.val, new)
    IN  CASE old.rc # "continue" -> [c EXCEPT !.rc = old.rc, !.mm = old.mm]
          [] old.rc = "continue" /\ ~same ->
               [c EXCEPT !.mm = old.mm, !.zf = FALSE,
                         !.regs[RAX] = old.val % 8, !.regs[RDX] = old.val \div 8]
          [] old.rc = "continue" /\ same ->
               [c EXCEPT !.rc = xchg.rc, !.mm = xchg.mm, !.zf = TRUE]

\* "writeback:" only moves write a value that did not change.
Writeback(c) ==
    LET write == IF c.lock
                 THEN emulator_cmpxchg_emulated(c.mm, c.dst.ptr, c.dst.w, c.dst.orig, c.dst.val)
                 ELSE emulator_write_emulated(c.mm, c.dst.ptr, c.dst.w, c.dst.val)
    IN  CASE ~(c.mov \/ c.dst.orig # c.dst.val) -> c
          [] (c.mov \/ c.dst.orig # c.dst.val) /\ c.dst.type = "reg" ->
               [c EXCEPT !.regs = WriteReg(c.regs, c.dst.ptr, c.dst.w, c.dst.val)]
          [] OTHER -> [c EXCEPT !.rc = write.rc, !.mm = write.mm]

\* Mutant: the instruction pointer moves on after the first iteration.
RepeatedOnce(i, c) == IF i.rep THEN [c EXCEPT !.regs[RCX] = (@ + 15) % 16] ELSE c

\* "rep": the count goes down and rip stays at the instruction.
Repeated(i, c) ==
    IF i.rep THEN [c EXCEPT !.regs[RCX] = (@ + 15) % 16, !.eip = 0] ELSE c

\* "done:" shadow state is committed unless an operation failed.
\*
\* Mutant: the shadow copy is committed on failure too.
CommitsAlways(c, v) == [regs |-> c.regs, zf |-> c.zf, cf |-> c.cf, rip |-> c.eip]

Commit(c, v) ==
    IF c.rc = "continue" THEN [regs |-> c.regs, zf |-> c.zf, cf |-> c.cf, rip |-> c.eip]
    ELSE v

-----------------------------------------------------------------------------
(* The processor: what one iteration of instruction i does, from cpu b.cpu *)
(* and memory b.ram, when the device answers v.  "lazy" leaves a           *)
(* destination alone whose value does not change.                          *)

R(a, w, v) == [k |-> "r", a |-> a, w |-> w, v |-> v % 2^w]
W(a, w, v) == [k |-> "w", a |-> a, w |-> w, v |-> v % 2^w]

\* A pop takes 8 bytes in 64-bit mode, or 2 with the prefix 66; the stack
\* pointer is as wide as the mode's addresses, which outside 64-bit mode is
\* i.a, for InsnsAssumption leaves a pop with the prefix 67 out.
PopWidth(i) == IF i.long /\ i.w # 2 THEN 4 ELSE i.w
StackBits(i) == IF i.long THEN 4 ELSE i.a

Si(i, v) == register_address(i, v.regs, RSI)
Di(i, v) == register_address(i, v.regs, RDI)
Sp(i, v) == v.regs[RSP] % 2^StackBits(i)

\* The addresses it touches, in order.
Touches(i, v) ==
    CASE i.rep /\ v.regs[RCX] = 0 -> <<>>
      [] ~(i.rep /\ v.regs[RCX] = 0) /\ i.op \in {"movs", "cmps"} -> <<Si(i, v), Di(i, v)>>
      [] ~(i.rep /\ v.regs[RCX] = 0) /\ i.op = "stos" -> <<Di(i, v)>>
      [] ~(i.rep /\ v.regs[RCX] = 0) /\ i.op = "lods" -> <<Si(i, v)>>
      [] i.op = "pop" -> <<Sp(i, v), i.ea>>
      [] OTHER -> <<i.ea>>

\* Writing a register: 4-byte writes clear the upper half.
Put(regs, r, w, v) ==
    [regs EXCEPT ![r] = IF w >= 3 THEN v ELSE (2^w * (@ \div 2^w)) + v]

PutByteOrWord(i, regs, v) ==
    IF i.w = 1 /\ ~i.rex /\ i.reg >= 4
    THEN [regs EXCEPT ![i.reg - 4] = (4 * (@ \div 4)) + (2 * v) + (@ % 2)]
    ELSE Put(regs, i.reg, i.w, v)

Get(i, regs) ==
    IF i.w = 1 /\ ~i.rex /\ i.reg >= 4 THEN (regs[i.reg - 4] \div 2) % 2
    ELSE regs[i.reg] % 2^i.w

Step(i, regs, r) ==
    LET top == 2^i.a * (regs[r] \div 2^i.a)
        low == regs[r] % 2^i.a
        n == Bytes(i.w)
    IN  [regs EXCEPT ![r] =
            top + (IF ~i.df THEN (low + n) % 2^i.a
                   ELSE IF low >= n THEN low - n ELSE (low + 2^i.a) - n)]

\* The bits above the sign bit are copies of it.
Signed(v, from, to) == v + (v \div 2^(from - 1)) * (2^to - 2^from)

\* Registers, flags, the access that reads and the write it makes (or <<>>).
Effect(i, b, v, lazy) ==
    LET g == b.cpu.regs
        x == v % 2^i.w
        other == IF i.form = "mi" THEN i.imm ELSE Get(i, g)
        E(regs, zf, cf, reads, write) ==
            [regs |-> regs, zf |-> zf, cf |-> cf, reads |-> reads, write |-> write]
        Plain(regs, reads, write) == E(regs, b.cpu.zf, b.cpu.cf, reads, write)
        Result(r, old, reads) ==
            E(g, r.zf, r.cf, reads,
              IF i.op = "cmp" \/ (lazy /\ r.val = old) THEN <<>> ELSE <<i.ea, i.w, r.val>>)
        toReg == Alu(i.op, Get(i, g), x, b.cpu.zf, b.cpu.cf, i.w)
        toMem == Alu(i.op, x, other, b.cpu.zf, b.cpu.cf, i.w)
        read == <<i.ea, SrcWidth(i)>>
        si == g[RSI] % 2^i.a
        di == g[RDI] % 2^i.a
        sp == g[RSP] % 2^StackBits(i)
        count == IF i.rep THEN [g EXCEPT ![RCX] = @ - 1] ELSE g
        swap == x = g[RAX] % 2^i.w
        swap8 == v % 8 = g[RAX] % 8 /\ v \div 8 = g[RDX] % 8
    IN  CASE i.op \in Alu2 /\ i.form = "rm" ->
               E(IF i.op = "cmp" \/ (lazy /\ toReg.val = Get(i, g)) THEN g
                 ELSE PutByteOrWord(i, g, toReg.val), toReg.zf, toReg.cf, read, <<>>)
          [] i.op \in Alu2 /\ i.form # "rm" -> Result(toMem, x, read)
          [] i.op \in Alu1 -> Result(Alu(i.op, x, 0, b.cpu.zf, b.cpu.cf, i.w), x, read)
          [] i.op = "mov" /\ i.form = "rm" -> Plain(PutByteOrWord(i, g, x), read, <<>>)
          [] i.op = "mov" /\ i.form # "rm" -> Plain(g, <<>>, <<i.ea, i.w, other>>)
          [] i.op \in {"movzx8", "movzx16"} ->
               Plain(Put(g, i.reg, i.w, v % 2^SrcWidth(i)), read, <<>>)
          [] i.op \in {"movsx8", "movsx16", "movsxd"} ->
               Plain(Put(g, i.reg, i.w, Signed(v % 2^SrcWidth(i), SrcWidth(i), i.w)), read, <<>>)
          [] i.op = "xchg" ->
               Plain(PutByteOrWord(i, g, x), read,
                     IF lazy /\ other = x THEN <<>> ELSE <<i.ea, i.w, other>>)
          [] i.op = "cmovz" ->
               Plain(IF b.cpu.zf THEN Put(g, i.reg, i.w, x)
                     ELSE IF lazy THEN g ELSE Put(g, i.reg, i.w, g[i.reg] % 2^i.w), read, <<>>)
          [] i.op = "cmpxchg" ->
               E(IF swap THEN g ELSE Put(g, RAX, i.w, x), swap, g[RAX] % 2^i.w < x, read,
                 IF swap THEN <<i.ea, i.w, other>> ELSE <<>>)
          [] i.op = "cmpxchg8b" ->
               E(IF swap8 THEN g ELSE [g EXCEPT ![RAX] = v % 8, ![RDX] = v \div 8],
                 swap8, b.cpu.cf, <<i.ea, 4>>,
                 IF swap8 THEN <<i.ea, 4, 8 * (g[RCX] % 2) + (g[RBX] % 8)>> ELSE <<>>)
          [] i.op = "pop" ->
               Plain([g EXCEPT ![RSP] =
                         (@ - sp) + ((sp + Bytes(PopWidth(i))) % 2^StackBits(i))],
                     <<>>, <<i.ea, PopWidth(i), b.ram[sp] % 2^PopWidth(i)>>)
          [] i.op = "movs" ->
               Plain(Step(i, Step(i, count, RSI), RDI), <<si, i.w>>, <<di, i.w, x>>)
          [] i.op = "stos" -> Plain(Step(i, count, RDI), <<>>, <<di, i.w, g[RAX] % 2^i.w>>)
          [] i.op = "cmps" ->
               LET r == Alu("cmp", b.ram[si] % 2^i.w, b.ram[di] % 2^i.w, FALSE, FALSE, i.w)
               IN  E(Step(i, Step(i, g, RSI), RDI), r.zf, r.cf, <<>>, <<>>)
          [] i.op = "lods" -> Plain(Step(i, Put(count, RAX, i.w, x), RSI), <<si, i.w>>, <<>>)

IsIo(a) == Region[a] = "io"

StoreRam(m, a, w, v) == [m EXCEPT ![a] = (2^w * (@ \div 2^w)) + (v % 2^w)]

\* The same as the state it leaves and the accesses devices see.
Outcome(i, b, v, lazy) ==
    LET e == Effect(i, b, v, lazy)
        reads == IF e.reads # <<>> /\ IsIo(e.reads[1]) THEN <<R(e.reads[1], e.reads[2], v)>>
                 ELSE <<>>
        writes == IF e.write # <<>> /\ IsIo(e.write[1])
                  THEN <<W(e.write[1], e.write[2], e.write[3])>> ELSE <<>>
    IN  [cpu |-> [regs |-> e.regs, zf |-> e.zf, cf |-> e.cf, rip |-> IF i.rep THEN 0 ELSE 1],
         ram |-> IF e.write # <<>> /\ ~IsIo(e.write[1])
                 THEN StoreRam(b.ram, e.write[1], e.write[2], e.write[3]) ELSE b.ram,
         acc |-> reads \o writes]

-----------------------------------------------------------------------------
(* The vcpu.  A behaviour decodes one encoding, or runs one instruction:   *)
(* it is repeated until rip has moved past it.                             *)

Cpu == [regs : [Reg -> Word], zf : BOOLEAN, cf : BOOLEAN, rip : {0, 1}]
Mmio == [needed : BOOLEAN, completed : BOOLEAN, write : BOOLEAN, a : Word, w : 1 .. 4,
         data : Word]

\* The operations by the form of their operands: memory and register,
\* register and memory, memory and immediate, memory, or none in ModRM.
Operations ==
    [mr |-> {"mov", "add", "sub", "cmp", "xchg", "cmpxchg"},
     rm |-> {"mov", "add", "sub", "cmp", "cmovz", "movzx8", "movzx16", "movsx8", "movsx16",
             "movsxd"},
     mi |-> {"mov", "add", "sub", "cmp"},
     m |-> {"inc", "neg", "not", "pop", "push", "mul"},
     implicit |-> {"movs", "stos", "lods", "cmps", "cmpxchg8b"}]

\* An immediate has the width of the operand, cmov has no byte form, an
\* element is no longer than the pointer to it, and the count of "cmps",
\* which the emulator refuses, is left out; so are "push" and "mul" from
\* memory, which never get here, and the movsx that RegisterExact excludes.
\* A pop has no byte form; one with the prefix 67 is left out: the emulator
\* cuts its stack pointer to the address size, a processor does not.
ASSUME InsnsAssumption ==
    /\ Insns \subseteq
          [op : STRING, form : {"mr", "rm", "mi", "m", "implicit"}, w : 1 .. 4, reg : Reg,
           rex : BOOLEAN, imm : Word, rep : BOOLEAN, lock : BOOLEAN, a : 2 .. 4, ea : Word,
           df : BOOLEAN, long : BOOLEAN]
    /\ \A i \in Insns :
          /\ i.op \in Operations[i.form]
          /\ i.imm < 2^i.w
          /\ SrcWidth(i) <= i.w
          /\ i.op \in {"cmovz", "pop"} => i.w > 1
          /\ i.op = "pop" /\ i.long => i.a = 4
          /\ Bytes(i.w) <= 2^i.a
          /\ i.rep => i.op \in {"movs", "stos", "lods"}
          /\ i.op \in {"push", "mul"} => Region[i.ea] = "io"
          /\ ~(i.op = "movsx8" /\ i.reg \in 4 .. 7 /\ ~i.rex)
    /\ Starts \subseteq {v \in Cpu : v.rip = 0}

NoMmio == [needed |-> FALSE, completed |-> FALSE, write |-> FALSE, a |-> 0, w |-> 1, data |-> 0]

Init ==
    /\ \/ pc = "decode" /\ enc \in Encodings /\ insn = <<>> /\ cpu = <<>>
       \/ pc = "guest" /\ enc = <<>> /\ insn \in Insns /\ cpu \in Starts
    /\ dec = <<>>
    /\ ram = Ram0
    /\ mm = NoMmio
    /\ ctxt = <<>>
    /\ begin = [cpu |-> cpu, ram |-> ram]
    /\ acc = <<>>
    /\ first = cpu
    /\ log = <<>>

Decode ==
    /\ pc = "decode"
    /\ pc' = "decoded"
    /\ dec' = [ea |-> modrm_ea(enc), op |-> op_bytes(enc), ad |-> ad_bytes(enc),
               reg |-> DstRegister(enc.op, enc.byte, enc.reg, enc.rex)]
    /\ UNCHANGED <<enc, insn, cpu, ram, mm, begin, acc, first, log, ctxt>>

\* The accesses that leave the guest, by their place in Touches: no shadow
\* page maps them.  The first one is reported, with its address in CR2.
Traps(i, v) == {n \in DOMAIN Touches(i, v) : Region[Touches(i, v)[n]] # "ram"}
TrapAddress(i, v) == Touches(i, v)[IF 1 \in Traps(i, v) THEN 1 ELSE 2]
Trapped(i, v) == Traps(i, v) # {} /\ Region[TrapAddress(i, v)] = "io"

\* The value in memory that the instruction reads, if it reads memory.
InRam ==
    LET touched == Touches(insn, cpu) IN IF touched = <<>> THEN 0 ELSE ram[touched[1]]

\* Nothing traps: the processor runs the instruction, or ends the repetition.
GuestExecutes ==
    /\ pc = "guest"
    /\ Traps(insn, cpu) = {}
    /\ LET o == Outcome(insn, begin, InRam, FALSE)
           done == insn.rep /\ cpu.regs[RCX] = 0
       IN  /\ cpu' = IF done THEN [cpu EXCEPT !.rip = 1] ELSE o.cpu
           /\ ram' = IF done THEN ram ELSE o.ram
    /\ pc' = "retired"
    /\ UNCHANGED <<enc, dec, insn, mm, begin, acc, first, log, ctxt>>

\* The page fault is the guest's own (ShadowMmu has the decision).
GuestFaults ==
    /\ pc = "guest"
    /\ Traps(insn, cpu) # {} /\ Region[TrapAddress(insn, cpu)] = "unmapped"
    /\ pc' = "faulted"
    /\ UNCHANGED <<enc, dec, insn, cpu, ram, mm, begin, acc, first, log, ctxt>>

\* emulate_instruction calls x86_emulate_memop, which starts over.
emulate_instruction ==
    /\ pc = "guest"
    /\ Trapped(insn, cpu)
    /\ ctxt' = Context(insn, cpu, [mm EXCEPT !.write = FALSE], TrapAddress(insn, cpu))
    /\ pc' = IF opcode_table(insn).dst = "implicit" THEN "special" ELSE "dst"
    /\ UNCHANGED <<enc, dec, insn, cpu, ram, mm, begin, acc, first, log>>

\* Stage "at" ends in context c; a failed operation skips to "done".
Goto(at, c, next) ==
    /\ pc = at
    /\ ctxt' = c
    /\ pc' = IF ctxt'.rc = "continue" THEN next ELSE "done"
    /\ UNCHANGED <<enc, dec, insn, cpu, ram, mm, begin, acc, first, log>>

FetchesDst == Goto("dst", FetchDst(insn, ctxt), "src")

FetchesSrc == Goto("src", FetchSrc(insn, ctxt), "execute")

Executes ==
    Goto("execute",
         CASE insn.op \in GroupOps -> ExecuteGroup(insn, ctxt)
           [] insn.op \in TwobyteOps -> ExecuteTwobyte(insn, ctxt)
           [] OTHER -> Execute(insn, ctxt),
         "writeback")

ExecutesSpecial ==
    Goto("special",
         CASE insn.op = "cmpxchg8b" -> SpecialTwobyte(insn, ctxt)
           [] insn.op # "cmpxchg8b" -> Special(insn, Repeated(insn, ctxt)),
         "writeback")

WritesBack == Goto("writeback", Writeback(ctxt), "done")

\* Back in emulate_instruction.  A fault of the access that is to be
\* propagated returns EMULATE_DONE as success does, with nothing committed.
EmulationDone ==
    /\ pc = "done"
    /\ cpu' = Commit(ctxt, cpu)
    /\ mm' = ctxt.mm
    /\ pc' = CASE ctxt.rc = "unhandleable" -> IF ctxt.mm.needed THEN "user" ELSE "fail"
               [] ctxt.rc # "unhandleable" /\ ctxt.mm.write -> "user"
               [] ctxt.rc = "propagate" /\ ~ctxt.mm.write -> "guest"
               [] ctxt.rc = "continue" /\ ~ctxt.mm.write -> "retired"
    /\ ctxt' = <<>>
    /\ UNCHANGED <<enc, dec, insn, ram, begin, acc, first, log>>

\* At most MaxAcc accesses of an iteration are recorded.
MaxAcc == 2
Record(x) == IF Len(acc) < MaxAcc THEN Append(acc, x) ELSE acc

\* handle_mmio: a device answers, and KVM_RUN takes the answer along.
UserReads ==
    /\ pc = "user"
    /\ ~mm.write
    /\ \E v \in Answers :
          /\ mm' = [mm EXCEPT !.needed = FALSE, !.completed = TRUE, !.data = v]
          /\ acc' = Record(R(mm.a, mm.w, v))
    /\ pc' = "guest"
    /\ UNCHANGED <<enc, dec, insn, cpu, ram, begin, first, log, ctxt>>

\* ... or takes the write; the address may as well be memory.
UserWrites ==
    /\ pc = "user"
    /\ mm.write
    /\ mm' = [mm EXCEPT !.needed = FALSE]
    /\ ram' = IF IsIo(mm.a) THEN ram ELSE StoreRam(ram, mm.a, mm.w, mm.data)
    /\ acc' = IF IsIo(mm.a) THEN Record(W(mm.a, mm.w, mm.data)) ELSE acc
    /\ pc' = "retired"
    /\ UNCHANGED <<enc, dec, insn, cpu, begin, first, log, ctxt>>

\* The guest goes on: with the next instruction, or the next repetition.
Retire ==
    /\ pc = "retired"
    /\ pc' = IF cpu.rip = 1 THEN "end" ELSE "guest"
    /\ begin' = [cpu |-> cpu, ram |-> ram]
    /\ log' = log \o [n \in DOMAIN acc |-> <<acc[n].k, acc[n].a>>]
    /\ acc' = <<>>
    /\ UNCHANGED <<enc, dec, insn, cpu, ram, mm, first, ctxt>>

Next ==
    \/ Decode
    \/ GuestExecutes \/ GuestFaults \/ emulate_instruction
    \/ FetchesDst \/ FetchesSrc \/ Executes \/ ExecutesSpecial \/ WritesBack \/ EmulationDone
    \/ UserReads \/ UserWrites
    \/ Retire

\* The vcpu thread and the devices always go on.
Spec == Init /\ [][Next]_vars /\ WF_vars(Next)

-----------------------------------------------------------------------------
\* Encodings that the decoder is known to get wrong: a prefix given twice;
\* REX.B with the base "none" of r13; the default segment of EBP and ESP;
\* the immediate of "test" in group 3 after a rip-relative address; FS and
\* GS in 64-bit mode.
Misdecoded(e) ==
    \/ \E p \in {"66", "67"} : Count(e, p) > 1
    \/ e.rex /\ e.B /\ RefNoBase(e)
    \/ ad_bytes(e) = 4 /\ modrm_ea(e).sum \cap {RSP, RBP} # {}
    \/ e.imm = "test" /\ RefNoBase(e)
    \/ e.mode = 64 /\ Has(e, "fs")

\* Every other ModRM and SIB byte forms the address the architecture gives
\* it, in every mode, with every prefix: registers, displacement, segment
\* and, relative to rip, the length of the instruction.
EaExact ==
    pc = "decoded" /\ ~Misdecoded(enc) =>
        dec.ea = RefEa(enc) /\ dec.op = RefOpBytes(enc) /\ dec.ad = RefAdBytes(enc)

\* The register field selects the register the architecture names, high
\* bytes included; movsx from a byte to SP, BP, SI or DI does not.
RegisterExact ==
    pc = "decoded" /\ ~(enc.op = "movsx8" /\ enc.reg \in 4 .. 7 /\ ~enc.rex) =>
        dec.reg = RefRegister(enc.op, enc.byte, enc.reg, enc.rex)

\* An instruction is decoded to the operands the architecture gives it.
DecodeExact == EaExact /\ RegisterExact

\* What the iteration read: the answer of the device, or memory.
Got ==
    LET reads == {n \in DOMAIN acc : acc[n].k = "r"}
        touched == Touches(insn, begin.cpu)
    IN  IF reads # {} THEN acc[CHOOSE n \in reads : \A m \in reads : n <= m].v
        ELSE IF touched = <<>> THEN 0 ELSE begin.ram[touched[1]]

\* With the prefix 66 in 64-bit mode the emulator pops 8 bytes, not 2.
Mispopped(i) == i.op = "pop" /\ i.long /\ i.w = 2

SameCpu(v, u) == v = u \/ (insn.op = "cmpxchg" /\ [v EXCEPT !.cf = u.cf] = u)

\* An instruction that went through the emulator, with an exit to user
\* space for its read, a restart with the answer and an exit for its write,
\* has the effect it has on a processor: registers, flags, memory, and the
\* accesses devices see, each once.  Left out: a destination whose value
\* does not change may stay unwritten, the carry of cmpxchg, and the pop of
\* two bytes in 64-bit mode.
AsArch ==
    pc = "retired" /\ ~Mispopped(insn) =>
        LET done == insn.rep /\ begin.cpu.regs[RCX] = 0
        IN  IF done THEN cpu = [begin.cpu EXCEPT !.rip = 1] /\ ram = begin.ram /\ acc = <<>>
            ELSE \E lazy \in BOOLEAN :
                    LET o == Outcome(insn, begin, Got, lazy)
                    IN  SameCpu(cpu, o.cpu) /\ ram = o.ram /\ acc = o.acc

\* Register r after n iterations of a string instruction.
Advanced(r, n) ==
    LET size == 2^insn.a
        moved == n * Bytes(insn.w)
        low == first.regs[r] % size
    IN  (size * (first.regs[r] \div size))
        + ((IF insn.df THEN (low + 16 * size) - moved ELSE low + moved) % size)

Visits(k, r, n) ==
    LET a == Advanced(r, n) % 2^insn.a IN IF IsIo(a) THEN << <<k, a>> >> ELSE <<>>

\* The device accesses of n iterations; a count is a register.
Expected[n \in Word] ==
    IF n = 0 THEN <<>>
    ELSE Expected[n - 1]
         \o (IF insn.op \in {"movs", "lods"} THEN Visits("r", RSI, n - 1) ELSE <<>>)
         \o (IF insn.op \in {"movs", "stos"} THEN Visits("w", RDI, n - 1) ELSE <<>>)

\* A repeated string instruction, run by processor and emulator in turns, is
\* between iterations where its count says: the pointers have moved once
\* and the devices were accessed once for each, and it ends at zero.
RepExact ==
    insn # <<>> /\ insn.rep /\ acc = <<>> /\ pc \in {"guest", "end", "faulted"} =>
        LET n == first.regs[RCX] - cpu.regs[RCX]
        IN  /\ pc = "end" => cpu.regs[RCX] = 0
            /\ cpu.regs[RSI] = Advanced(RSI, IF insn.op = "stos" THEN 0 ELSE n)
            /\ cpu.regs[RDI] = Advanced(RDI, IF insn.op = "lods" THEN 0 ELSE n)
            /\ log = Expected[n]

\* An instruction the emulator gives up on (EMULATE_FAIL), or that faults,
\* leaves registers and memory as they were and has written to no device:
\* user space sees the guest at that instruction.
FailClean ==
    pc \in {"fail", "faulted"} =>
        cpu = begin.cpu /\ ram = begin.ram /\ \A n \in DOMAIN acc : acc[n].k = "r"

\* A move from a device to a page that is not mapped: the device access
\* takes it to the emulator, which meets the fault and starts over.
Stuck(i, v) == Trapped(i, v) /\ i.op = "movs" /\ Region[Di(i, v)] = "unmapped"

\* Every instruction comes to an end: it retires, faults, or is refused.
\* Left out: an instruction that comes to a stuck move, at once or after
\* some repetitions, is emulated for ever (FaultPropagated).
InstructionCompletes ==
    pc = "guest" ~> \/ pc \in {"end", "faulted", "fail"}
                    \/ pc = "guest" /\ Stuck(insn, cpu)

\* "If the access fails [...] it is up to the memop to propagate the fault
\* to the guest": after X86EMUL_PROPAGATE_FAULT the guest gets the fault.
FaultPropagated == (pc = "done" /\ ctxt.rc = "propagate") ~> pc = "faulted"
=============================================================================
