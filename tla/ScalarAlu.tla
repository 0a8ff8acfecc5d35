------------------------------ MODULE ScalarAlu ------------------------------
(***************************************************************************)
(* The two executions of a shader's scalar instructions: the evaluator      *)
(* (src/gpu/shader/gcn_eval.cpp) runs them before the draw to find the      *)
(* descriptors, the translator (gcn_translate_alu.cpp) emits SPIR-V for     *)
(* them that runs in the draw.  Both must compute the same registers, or    *)
(* the draw is bound to one thing and reads another.  Words have W bits     *)
(* instead of 32 and pairs 2W, constants of the code (31, 63, >> 16, 0x7F)  *)
(* scale with them.  The emulated wave has one lane, bit 0 of EXEC.         *)
(***************************************************************************)
EXTENDS Integers, Bitwise

CONSTANTS W,          \* bits of a scalar register, even
          Seeds,      \* values the user-data registers start with
          Immediates  \* of the SOPK forms, of W \div 2 bits

VARIABLES evaluator,  \* [s, exec, scc, ok]: exec_mask apart from its register pair
          shader,     \* [s, exec, scc, ok]: exec_ is the lane's boolean
          executed    \* the instruction both have just run

aluVars == <<evaluator, shader, executed>>

M == 2 ^ W
MM == M * M
Registers == {"s0", "s1", "exec_lo", "exec_hi"}
PairHigh(r) == IF r = "s0" THEN "s1" ELSE "exec_hi"
Sources == {"s0", "s1", "exec_lo", "one", "minus_one", "scc"}
Destinations == {"s0", "exec_lo"}

Undefined == -1   \* what SPIR-V leaves undefined, or a form that is not supported

-----------------------------------------------------------------------------
(* Arithmetic on n-value words. *)

Signed(a, n) == IF a >= n \div 2 THEN a - n ELSE a
Invert(a, n) == n - 1 - a
ShiftLeft(a, k, n) == (a * 2 ^ k) % n
ShiftRight(a, k) == a \div 2 ^ k
Ones(k) == 2 ^ k - 1
SignExtend(a, width, n) == IF width > 0 /\ a >= 2 ^ (width - 1) THEN ((a + n) - 2 ^ width) % n ELSE a
Bits(a) == { k \in 0 .. W - 1 : ShiftRight(a, k) % 2 = 1 }
Reversed(a) == LET B == Bits(a) IN
               LET V[k \in 0 .. W] == IF k = 0 THEN 0
                               ELSE V[k - 1] + (IF (k - 1) \in B THEN 2 ^ (W - k) ELSE 0) IN V[W]
Count(a) == LET V[k \in 0 .. W] == IF k = 0 THEN 0 ELSE V[k - 1] + (ShiftRight(a, k - 1) % 2) IN V[W]
Lowest(a) == CHOOSE k \in Bits(a) : \A j \in Bits(a) : k <= j
Immediate(k) == SignExtend(k, W \div 2, M)
Smaller(a, b) == IF a < b THEN a ELSE b

Logic(op, a, b, n) ==
    CASE op = "And" -> a & b             [] op = "Or" -> a | b
      [] op = "Xor" -> a ^^ b            [] op = "Andn2" -> a & Invert(b, n)
      [] op = "Orn2" -> a | Invert(b, n) [] op = "Nand" -> Invert(a & b, n)
      [] op = "Nor" -> Invert(a | b, n)  [] op = "Xnor" -> Invert(a ^^ b, n)
      [] op = "Andn1" -> Invert(a, n) & b [] op = "Orn1" -> Invert(a, n) | b

LogicOps == {"And", "Or", "Xor", "Andn2", "Orn2", "Nand", "Nor", "Xnor"}
Signs == {"I", "U"}
Relations == {"Eq", "Lg", "Gt", "Ge", "Lt", "Le"}
Compares(rel, sign, a, b) ==
    LET x == IF sign = "I" THEN Signed(a, M) ELSE a
        y == IF sign = "I" THEN Signed(b, M) ELSE b IN
    CASE rel = "Eq" -> x = y [] rel = "Lg" -> x # y [] rel = "Gt" -> x > y
      [] rel = "Ge" -> x >= y [] rel = "Lt" -> x < y [] rel = "Le" -> x <= y

Binary32 == LogicOps \cup {"AddU", "SubU", "AddI", "SubI", "MulI", "MulHiU", "Lshl", "Lshr", "Ashr",
             "Bfm", "BfeU", "BfeI", "Cselect", "MinU", "MaxU", "MinI", "MaxI", "Lshl1Add", "PackLl", "PackLh", "PackHh"}
Unary32 == {"Mov", "Not", "Brev", "Bcnt1", "FF1", "Bitset1"}
Unary64 == {"Mov", "Not", "Wqm"}
Ops64 == LogicOps \cup {"Andn1", "Orn1", "Cselect", "Lshl", "Lshr", "BfeU", "BfeI", "Bfm"}
SaveExec == LogicOps \cup {"Andn1", "Orn1"}

-----------------------------------------------------------------------------
(* The evaluator.  Its ALU takes no wave state: SCC as a source is refused. *)

EvaluateOperand(e, x) == CASE x \in Registers -> e.s[x] [] x = "one" -> 1
                           [] x = "minus_one" -> M - 1  [] OTHER -> Undefined
EvaluateOperand64(e, x) ==
    CASE x = "exec_lo" -> e.exec
      [] x = "s0" -> e.s["s0"] + M * e.s["s1"]
      [] x = "minus_one" -> MM - 1
      [] OTHER -> EvaluateOperand(e, x)

\* TryExecuteScalarAlu, 32-bit forms: [v, scc]; scc is kept where the code leaves it.
Evaluate32(op, a, b, old, scc) ==
    LET nz(v) == [v |-> v, scc |-> v # 0]
        keep(v) == [v |-> v, scc |-> scc]
        sum == (a + b) % M   diff == ((a + M) - b) % M
        offset == b % W
        width == Smaller(ShiftRight(b, W \div 2) % (4 * W), W - offset)
        field == ShiftRight(a, offset) % 2 ^ width IN
    CASE op \in LogicOps -> nz(Logic(op, a, b, M))
      [] op = "Mov" -> keep(a)
      [] op = "Not" -> nz(Invert(a, M))
      [] op = "Brev" -> nz(Reversed(a))
      [] op = "Bcnt1" -> nz(Count(a))
      [] op = "FF1" -> nz(IF a = 0 THEN 0 ELSE Lowest(a))
      [] op = "Bitset1" -> keep(old | (2 ^ (a % W)))
      [] op = "AddU" -> [v |-> sum, scc |-> sum < a]
      [] op = "SubU" -> [v |-> diff, scc |-> b > a]
      [] op = "AddI" -> [v |-> sum, scc |-> ((a ^^ sum) & (b ^^ sum)) >= M \div 2]
      [] op = "SubI" -> [v |-> diff, scc |-> ((a ^^ b) & (a ^^ diff)) >= M \div 2]
      [] op = "MulI" -> keep((a * b) % M)
      [] op = "MulHiU" -> keep((a * b) \div M)
      [] op = "Lshl" -> nz(ShiftLeft(a, b % W, M))
      [] op = "Lshr" -> nz(ShiftRight(a, b % W))
      [] op = "Ashr" -> nz((Signed(a, M) \div 2 ^ (b % W)) % M)
      [] op = "Bfm" -> keep(IF a % W = 0 THEN 0 ELSE ShiftLeft(Ones(a % W), b % W, M))
      [] op = "BfeU" -> nz(field)
      [] op = "BfeI" -> nz(SignExtend(field, width, M))
      [] op = "Cselect" -> keep(IF scc THEN a ELSE b)
      [] op = "MinU" -> [v |-> Smaller(a, b), scc |-> a < b]
      [] op = "MaxU" -> [v |-> IF a < b THEN b ELSE a, scc |-> a > b]
      [] op = "MinI" -> [v |-> IF Signed(a, M) < Signed(b, M) THEN a ELSE b, scc |-> Signed(a, M) < Signed(b, M)]
      [] op = "MaxI" -> [v |-> IF Signed(a, M) < Signed(b, M) THEN b ELSE a, scc |-> Signed(a, M) > Signed(b, M)]
      [] op = "Lshl1Add" -> keep((2 * a + b) % M)
      [] OTHER -> [v |-> Undefined, scc |-> scc]

\* TryExecuteScalarAlu, 64-bit forms.  b32 is the second source read as one word.
Evaluate64(op, a, b, b32, scc) ==
    LET nz(v) == [v |-> v, scc |-> v # 0]
        offset == b32 % (2 * W)
        width == Smaller(ShiftRight(b32, W \div 2) % (4 * W), 2 * W - offset)
        field == ShiftRight(a, offset) % 2 ^ width
        quads == (a | ShiftRight(a, 1) | ShiftRight(a, 2) | ShiftRight(a, 3)) & ((MM - 1) \div 15) IN
    CASE op \in LogicOps -> nz(Logic(op, a, b, MM))
      [] op = "Cselect" -> [v |-> IF scc THEN a ELSE b, scc |-> scc]
      [] op = "Mov" -> nz(a)
      [] op = "Not" -> nz(Invert(a, MM))
      [] op = "Wqm" -> nz(quads * 15)
      [] op = "Lshl" -> nz(ShiftLeft(a, b32 % (2 * W), MM))
      [] op = "Lshr" -> nz(ShiftRight(a, b32 % (2 * W)))
      [] op = "BfeU" -> nz(field)
      [] op = "BfeI" -> nz(SignExtend(field, width, MM))
      [] op = "Bfm" -> nz(IF (a % M) % (2 * W) = 0 THEN 0 ELSE ShiftLeft(Ones((a % M) % (2 * W)), b32 % (2 * W), MM))
      [] OTHER -> [v |-> Undefined, scc |-> scc]

\* Variant for the mutant runs: the halves are swapped.
WriteScalarPairSwapped(e, dst, v) ==
    [e EXCEPT !.s[dst] = v \div M, !.s[PairHigh(dst)] = v % M]
\* WriteScalarPair: EXEC is cut to the 32 lanes of the wave.
WriteScalarPair(e, dst, v) ==
    LET kept == IF dst = "exec_lo" THEN v % M ELSE v IN
    [e EXCEPT !.s[dst] = kept % M, !.s[PairHigh(dst)] = kept \div M,
              !.exec = IF dst = "exec_lo" THEN kept ELSE @]

\* TryExecuteSaveExecScalarAlu.
EvaluateSaveExec(e, i) ==
    IF i.form = "saveexec32"
    THEN LET new == Logic(i.op, EvaluateOperand(e, i.a), e.exec % M, M) IN
         [e EXCEPT !.s = [@ EXCEPT ![i.dst] = e.exec % M, !["exec_lo"] = new, !["exec_hi"] = 0],
                   !.exec = new, !.scc = new # 0]
    ELSE LET new == Logic(i.op, EvaluateOperand64(e, i.a), e.exec, MM) % M IN
         [WriteScalarPair(WriteScalarPair(e, i.dst, e.exec), "exec_lo", new) EXCEPT !.scc = new # 0]

\* The evaluation of the draw fails where the code returns false.
Evaluate(e, i) ==
    LET a == EvaluateOperand(e, i.a)
        b == EvaluateOperand(e, i.b)
        bad == [e EXCEPT !.ok = FALSE]
        put(r) == IF r.v = Undefined THEN bad ELSE [e EXCEPT !.s[i.dst] = r.v, !.scc = r.scc]
        putWide(r) == IF r.v = Undefined THEN bad ELSE [WriteScalarPair(e, i.dst, r.v) EXCEPT !.scc = r.scc] IN
    IF a = Undefined \/ (b = Undefined /\ i.form \notin {"unary32", "saveexec32", "saveexec64"}) THEN bad ELSE
    CASE i.form \in {"saveexec32", "saveexec64"} -> EvaluateSaveExec(e, i)
      [] i.form = "compare" -> [e EXCEPT !.scc = Compares(i.op, i.sign, a, b)]
      [] i.form = "comparek" -> [e EXCEPT !.scc = Compares(i.op, i.sign, e.s[i.dst], Immediate(i.k))]
      [] i.form = "bitcmp" -> [e EXCEPT !.scc = ((ShiftRight(a, b % W) % 2 = 1) = (i.op = "1"))]
      [] i.form = "movk" -> [e EXCEPT !.s[i.dst] = Immediate(i.k)]
      [] i.form = "addk" -> [e EXCEPT !.s[i.dst] = (@ + Immediate(i.k)) % M]
      [] i.form = "mulk" -> [e EXCEPT !.s[i.dst] = (@ * Immediate(i.k)) % M]
      [] i.form \in {"unary32", "binary32"} -> put(Evaluate32(i.op, a, b, e.s[i.dst], e.scc))
      [] i.form = "wide" -> putWide(Evaluate64(i.op, EvaluateOperand64(e, i.a), EvaluateOperand64(e, i.b), b, e.scc))

-----------------------------------------------------------------------------
(* The emitted code. *)

GetRawSource(g, x) == CASE x \in Registers -> g.s[x] [] x = "one" -> 1
                        [] x = "minus_one" -> M - 1  [] x = "scc" -> IF g.scc THEN 1 ELSE 0
LoadS64(g, r) == g.s[r] + M * g.s[PairHigh(r)]
\* Variant for the mutant runs: an inline -1 is not extended to the pair.
GetRawSource64ZeroExtends(g, x) == IF x \in {"s0", "exec_lo"} THEN LoadS64(g, x) ELSE GetRawSource(g, x)
GetRawSource64(g, x) == CASE x \in {"s0", "exec_lo"} -> LoadS64(g, x)
                          [] x = "minus_one" -> MM - 1
                          [] OTHER -> GetRawSource(g, x)

\* IsWaveMaskActive: any bit of the pair counts.
IsWaveMaskActive(mask) == mask # 0

\* A store to the EXEC pair also sets the lane's boolean.
StoreS(g, r, v) ==
    LET h == [g EXCEPT !.s[r] = v] IN
    IF r \in {"exec_lo", "exec_hi"} THEN [h EXCEPT !.exec = IsWaveMaskActive(LoadS64(h, "exec_lo"))] ELSE h
StoreS64(g, r, v) == StoreS(StoreS(g, r, v % M), PairHigh(r), v \div M)
BooleanToWaveMask(g) == IF g.exec THEN 1 ELSE 0

BitFieldInsert(base, insert, offset, count) ==
    IF offset + count > W THEN Undefined
    ELSE (base - (base & ShiftLeft(Ones(count), offset, M))) + ShiftLeft(insert % 2 ^ count, offset, M)

\* TryEmitScalarAlu, 32-bit forms.
Emit32(op, a, b, old, scc) ==
    LET nz(v) == [v |-> v, scc |-> v # 0]
        keep(v) == [v |-> v, scc |-> scc]
        sum == (a + b) % M   diff == ((a + M) - b) % M
        offset == b % W
        width == Smaller(ShiftRight(b, W \div 2) % (4 * W), W - offset)
        extract == ShiftRight(a, offset) % 2 ^ width
        low == 2 ^ (W \div 2) IN
    CASE op \in LogicOps -> nz(Logic(op, a, b, M))
      [] op = "Mov" -> keep(a)
      [] op = "Not" -> nz(Invert(a, M))
      [] op = "Brev" -> nz(Reversed(a))
      [] op = "Bcnt1" -> nz(Count(a))
      [] op = "FF1" -> nz(IF a = 0 THEN M - 1 ELSE Lowest(a))   \* FindILsb
      [] op = "Bitset1" -> keep(BitFieldInsert(old, 1, a % W, 1))
      [] op = "AddU" -> [v |-> sum, scc |-> sum < a]
      [] op = "SubU" -> [v |-> diff, scc |-> b > a]
      [] op = "AddI" -> [v |-> sum, scc |-> ((a ^^ sum) & (b ^^ sum)) >= M \div 2]
      [] op = "SubI" -> [v |-> diff, scc |-> ((a ^^ b) & (a ^^ diff)) >= M \div 2]
      [] op = "MulI" -> keep((a * b) % M)
      [] op = "Lshl" -> nz(ShiftLeft(a, b % W, M))
      [] op = "Lshr" -> nz(ShiftRight(a, b % W))
      [] op = "Ashr" -> nz((Signed(a, M) \div 2 ^ (b % W)) % M)
      [] op = "Bfm" -> keep(BitFieldInsert(0, M - 1, b % W, a % W))
      [] op = "BfeU" -> nz(extract)
      [] op = "BfeI" -> nz(SignExtend(extract, width, M))
      [] op = "Cselect" -> keep(IF scc THEN a ELSE b)
      [] op = "MinU" -> [v |-> Smaller(a, b), scc |-> a < b]
      [] op = "MaxU" -> [v |-> IF a < b THEN b ELSE a, scc |-> a > b]
      [] op = "MinI" -> [v |-> IF Signed(a, M) < Signed(b, M) THEN a ELSE b, scc |-> Signed(a, M) < Signed(b, M)]
      [] op = "MaxI" -> [v |-> IF Signed(a, M) < Signed(b, M) THEN b ELSE a, scc |-> Signed(a, M) > Signed(b, M)]
      [] op = "Lshl1Add" -> keep((2 * a + b) % M)
      [] op = "PackLl" -> keep((a % low) + ShiftLeft(b, W \div 2, M))
      [] op = "PackLh" -> keep((a % low) + (b - (b % low)))
      [] op = "PackHh" -> keep((a \div low) + (b - (b % low)))
      [] OTHER -> [v |-> Undefined, scc |-> scc]

\* TryEmitScalar64.
Emit64(op, a, b, b32, scc) ==
    LET nz(v) == [v |-> v, scc |-> v # 0]
        keep(v) == [v |-> v, scc |-> scc]
        offset == b32 % (2 * W)
        width == Smaller(ShiftRight(b32, W \div 2) % (4 * W), 2 * W - offset)
        mask == IF width = 2 * W THEN MM - 1 ELSE 2 ^ width - 1
        extracted == ShiftRight(a, offset) & mask
        sign == 2 ^ (width - 1)
        quads == (a | ShiftRight(a, 1) | ShiftRight(a, 2) | ShiftRight(a, 3)) & ((MM - 1) \div 15) IN
    CASE op \in SaveExec -> nz(Logic(op, a, b, MM))
      [] op = "Cselect" -> keep(IF scc THEN a ELSE b)
      [] op = "Mov" -> keep(a)
      [] op = "Not" -> nz(Invert(a, MM))
      [] op = "Wqm" -> keep(quads * 15)
      [] op = "Lshl" -> nz(ShiftLeft(a, b32 % (2 * W), MM))
      [] op = "Lshr" -> nz(ShiftRight(a, b32 % (2 * W)))
      [] op = "BfeU" -> nz(extracted)
      [] op = "BfeI" -> nz(IF width = 0 THEN 0 ELSE ((((extracted ^^ sign) + MM) - sign) % MM))
      [] OTHER -> [v |-> Undefined, scc |-> scc]

Emit(g, i) ==
    LET a == GetRawSource(g, i.a)
        b == GetRawSource(g, i.b)
        bad == [g EXCEPT !.ok = FALSE]
        put(r) == IF r.v = Undefined THEN bad ELSE [StoreS(g, i.dst, r.v) EXCEPT !.scc = r.scc]
        putWide(r) == IF r.v = Undefined THEN bad ELSE [StoreS64(g, i.dst, r.v) EXCEPT !.scc = r.scc]
        old == BooleanToWaveMask(g)
        new == IF i.form = "saveexec32" THEN Logic(i.op, a, old, M) ELSE Logic(i.op, GetRawSource64(g, i.a), old, MM) IN
    CASE i.form = "saveexec32" -> [StoreS64(StoreS(g, i.dst, old), "exec_lo", new) EXCEPT !.scc = new # 0]
      [] i.form = "saveexec64" -> [StoreS64(StoreS64(g, i.dst, old), "exec_lo", new) EXCEPT !.scc = new # 0]
      [] i.form = "compare" -> [g EXCEPT !.scc = Compares(i.op, i.sign, a, b)]
      [] i.form = "comparek" -> [g EXCEPT !.scc = Compares(i.op, i.sign, g.s[i.dst], Immediate(i.k))]
      [] i.form = "bitcmp" -> [g EXCEPT !.scc = ((ShiftRight(a, b % W) % 2 = 1) = (i.op = "1"))]
      [] i.form = "movk" -> StoreS(g, i.dst, Immediate(i.k))
      [] i.form = "addk" -> StoreS(g, i.dst, (g.s[i.dst] + Immediate(i.k)) % M)
      [] i.form = "mulk" -> StoreS(g, i.dst, (g.s[i.dst] * Immediate(i.k)) % M)
      [] i.form \in {"unary32", "binary32"} -> put(Emit32(i.op, a, b, g.s[i.dst], g.scc))
      [] i.form = "wide" -> putWide(Emit64(i.op, GetRawSource64(g, i.a), GetRawSource64(g, i.b), b, g.scc))

-----------------------------------------------------------------------------
Instruction(form, op, dst, a, b) == [form |-> form, op |-> op, dst |-> dst, a |-> a, b |-> b, sign |-> "U", k |-> 0]

\* The instructions, with the operands that the code tells apart.
Instructions ==
    { Instruction("unary32", op, d, a, a) : op \in Unary32, d \in Destinations, a \in Sources } \cup
    { Instruction("binary32", op, d, a, b) : op \in Binary32, d \in Destinations, a \in {"s0", "s1"}, b \in Sources } \cup
    { Instruction("wide", op, d, a, a) : op \in Unary64, d \in Destinations, a \in {"s0", "exec_lo", "minus_one"} } \cup
    { Instruction("wide", op, d, a, b) : op \in Ops64, d \in Destinations, a \in {"s0", "exec_lo"}, b \in Sources \ {"s1"} } \cup
    { [Instruction("compare", rel, "s0", a, b) EXCEPT !.sign = n] :
          rel \in Relations, n \in Signs, a \in {"s0", "minus_one"}, b \in Sources } \cup
    { [Instruction("comparek", rel, "s0", "one", "one") EXCEPT !.sign = n, !.k = k] :
          rel \in Relations, n \in Signs, k \in Immediates } \cup
    { Instruction("bitcmp", set, "s0", "s0", b) : set \in {"0", "1"}, b \in Sources } \cup
    { [Instruction(f, "k", d, "one", "one") EXCEPT !.k = k] :
          f \in {"movk", "addk", "mulk"}, d \in Destinations, k \in Immediates } \cup
    { Instruction(f, op, "s0", a, a) : f \in {"saveexec32", "saveexec64"}, op \in SaveExec, a \in {"s0", "exec_lo", "one"} }

NoInstruction == Instruction("none", "none", "s0", "one", "one")

\* GcnEvaluateScalarState starts with all lanes, EmitInitialState with the one it emulates.
Start(x, y, c) ==
    /\ evaluator = [s |-> [s0 |-> x, s1 |-> y, exec_lo |-> M - 1, exec_hi |-> 0], exec |-> M - 1, scc |-> c, ok |-> TRUE]
    /\ shader = [s |-> [s0 |-> x, s1 |-> y, exec_lo |-> 1, exec_hi |-> 0], exec |-> TRUE, scc |-> c, ok |-> TRUE]
    /\ executed = NoInstruction

Init == \E x, y \in Seeds, c \in BOOLEAN : Start(x, y, c)

Idle == Start(0, 0, FALSE)

\* One instruction, from every start: each operation is checked on its own.
Execute(i) == /\ executed' = i
              /\ evaluator' = Evaluate(evaluator, i) /\ shader' = Emit(shader, i)

Next == executed = NoInstruction /\ \E i \in Instructions : Execute(i)

Spec == Init /\ [][Next]_aluVars

-----------------------------------------------------------------------------
(* Properties. *)

\* Forms whose result the two define differently: S_MOV_B64 and S_WQM_B64 set SCC
\* in the evaluator only, S_FF1 of zero is 0 there and -1 in the shader.
KnownToDiffer(i) == \/ i.form = "wide" /\ i.op \in {"Mov", "Wqm"}
                    \/ i.form = "unary32" /\ i.op = "FF1"

\* What the evaluator computes is what the shader computes, whenever both support
\* the form and no operand is the EXEC mask, of which the shader has one lane.
EvaluatorMatchesShader ==
    evaluator.ok /\ shader.ok /\ ~KnownToDiffer(executed)
        /\ executed.form \notin {"saveexec32", "saveexec64"}
        /\ "exec_lo" \notin {executed.dst, executed.a, executed.b}
    => evaluator.s["s0"] = shader.s["s0"] /\ evaluator.s["s1"] = shader.s["s1"] /\ evaluator.scc = shader.scc
=============================================================================
