------------------------------ MODULE MCEmulate ------------------------------
(* Instances of Emulate: encodings and instructions for TLC.               *)
EXTENDS Emulate

CONSTANTS Targets  \* where the registers of string instructions may point

Plain == [mode |-> 32, prefixes |-> <<>>, rex |-> FALSE, W |-> FALSE, X |-> FALSE,
          B |-> FALSE, mod |-> 1, rm |-> 0, base |-> 0, index |-> 0, imm |-> "none",
          byte |-> FALSE, op |-> "add", reg |-> 0]

Prefixes == {<<>>, <<"66">>, <<"67">>, <<"66", "67">>, <<"66", "66">>, <<"67", "ss">>,
             <<"ss">>, <<"fs">>, <<"fs", "ss">>, <<"ss", "fs">>}

Modes == {[Plain EXCEPT !.mode = m] : m \in {16, 32, 64}}
         \cup {[Plain EXCEPT !.mode = 64, !.rex = TRUE, !.W = w, !.X = x, !.B = b]
               : w, x, b \in BOOLEAN}

Memory == {<<mod, rm, 0, 0>> : mod \in 0 .. 2, rm \in 0 .. 7}
          \cup {<<mod, 4, base, index>> : mod \in 0 .. 2, base \in {1, 4, 5}, index \in {0, 4}}

MCEncodings ==
    {[e EXCEPT !.prefixes = p, !.mod = m[1], !.rm = m[2], !.base = m[3], !.index = m[4],
               !.imm = i, !.byte = b] :
        e \in Modes, p \in Prefixes, m \in Memory, i \in {"none", "imm8", "imm", "test"},
        b \in BOOLEAN}
    \cup {[e EXCEPT !.op = o, !.byte = (o # "mov"), !.reg = r] :
        e \in Modes, o \in {"add", "mov", "movzx8", "movsx8"}, r \in 0 .. 7}

-----------------------------------------------------------------------------
\* Addresses 0 to 3 are a device, 14 and 15 are not mapped.
MCRegion == [a \in Word |-> IF a <= 3 THEN "io" ELSE IF a >= 14 THEN "unmapped" ELSE "ram"]
MCRam0 == [a \in Word |-> (7 * a) % 16]

Basic == [op |-> "mov", form |-> "mr", w |-> 1, reg |-> RDX, rex |-> FALSE, imm |-> 1,
          rep |-> FALSE, lock |-> FALSE, a |-> 4, ea |-> 2, df |-> FALSE, long |-> TRUE]

Of(ops, form, widths) ==
    {[Basic EXCEPT !.op = o, !.form = form, !.w = w] : o \in ops, w \in widths}

Operands ==
    Of({"mov", "add", "sub", "cmp", "xchg", "cmpxchg"}, "mr", 1 .. 4)
    \cup Of({"mov", "add", "sub", "cmp"}, "rm", 1 .. 4)
    \cup Of({"mov", "add", "sub", "cmp"}, "mi", 1 .. 4)
    \cup Of({"inc", "neg", "not", "push", "mul"}, "m", 1 .. 4)
    \cup Of({"pop"}, "m", 2 .. 4)
    \cup Of({"cmovz"}, "rm", 2 .. 4)
    \cup Of({"movzx8", "movsx8", "movzx16", "movsx16"}, "rm", 2 .. 4)
    \cup Of({"movsxd"}, "rm", {3, 4})

\* In 64-bit mode with and without REX, and in 32-bit mode, with LOCK.
Memops ==
    {[i EXCEPT !.reg = r, !.rex = m[1], !.long = m[2], !.lock = ~m[2],
               !.a = IF m[2] THEN 4 ELSE 3] :
        i \in Operands, r \in {RDX, RSI},
        m \in {<<TRUE, TRUE>>, <<FALSE, TRUE>>, <<FALSE, FALSE>>}}

Repeats ==
    {[Basic EXCEPT !.op = o, !.form = "implicit", !.w = w, !.rep = r, !.a = a, !.df = d] :
        o \in {"movs", "stos", "lods"}, w \in {1, 2}, r, d \in BOOLEAN, a \in {3, 4}}
    \cup Of({"cmps"}, "implicit", {1, 2})

\* movsx from a byte to one of the registers 4 to 7 is left out.
MCInsns ==
    {i \in Memops : /\ ~(i.op = "movsx8" /\ i.reg = RSI /\ ~i.rex)
                    /\ i.long \/ i.w < 4}
    \cup Repeats
    \cup {[Basic EXCEPT !.op = "cmpxchg8b", !.form = "implicit", !.w = 4, !.lock = k]
          : k \in BOOLEAN}

\* From the device to a page that is not mapped.
FaultTargets == {<<1, 14, 8>>}

\* RSI, RDI and RSP: between device and memory either way, inside the
\* device, and from memory to memory, towards pages that are not mapped.
MCTargets == {<<1, 7, 8>>, <<5, 2, 1>>, <<0, 2, 15>>, <<6, 13, 13>>} \cup FaultTargets

\* RDX and RSI also serve as operands.
MCStarts ==
    {[regs |-> [r \in Reg |-> <<6, c, 9, 5, t[3], 0, t[1], t[2]>>[r + 1]],
      zf |-> z, cf |-> z, rip |-> 0] : c \in {0, 2}, t \in Targets, z \in BOOLEAN}
=============================================================================
