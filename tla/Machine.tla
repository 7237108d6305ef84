------------------------------- MODULE Machine -------------------------------
(***************************************************************************)
(* What the processor does with the instructions of ValueCode: one program *)
(* after the other, from the call of main to its return.                   *)
(*                                                                         *)
(* Objects have as many bytes as they have in reality and overlap as they  *)
(* do in reality, but a byte has Byte values only: an int has Byte^4.      *)
(* Global variables lie at the low addresses, the stack grows down from    *)
(* the end of the memory, and a word read or written outside of it, like   *)
(* an idiv whose quotient is too large, ends the program (FAULT).          *)
(***************************************************************************)
EXTENDS ValueCode, Words

CONSTANTS
  Memory,     \* bound: addresses 0 .. Memory - 1
  Externals,  \* functions of other compilers' object files, with how many arguments
  Sources     \* the analysed programs: [globals |-> .., strlits |-> .., fns |-> ..],
              \* strlits the literals that occur in the program

ASSUME MemoryAssumption == Memory \in 1 .. Word - 1
ASSUME ExternalsAssumption == \A f \in DOMAIN Externals : Externals[f] \in Nat

VARIABLES
  prog,     \* the program that runs: its source, its text, where its symbols are
  pc,       \* index of the next instruction
  regs,     \* registers
  flags,    \* the two numbers compared last
  mem,      \* bytes
  frames    \* history: what the callers of the active functions rely on

vars == <<prog, pc, regs, flags, mem, frames>>

EXIT    == 0     \* where main returns to
FAULT   == -1
REFUSED == -2    \* there is no code: the compiler stopped

\* What lies at an address: an n-byte number, the memory with it.
Bytes(a, n) == Number([i \in 1 .. 8 |-> IF i <= n THEN mem[a + i - 1] ELSE 0])
Put(m, a, n, w) ==
  LET digits == Digits(w)
  IN [b \in DOMAIN m |-> IF b \in a .. a + n - 1 THEN digits[b - a + 1] ELSE m[b]]

-----------------------------------------------------------------------------
\* Assembler and linker.
Emitted(p) == [i \in DOMAIN p.fns |-> codegen_funcdecl(p.fns[i])]

\* The bytes a directive stands for.
Cells(directive) ==
  CASE directive[1] = "zero"  -> [i \in 1 .. directive[2] |-> 0]
    [] directive[1] = "int"   -> [i \in 1 .. 4 |-> Digits(directive[2] % Int32)[i]]
    [] directive[1] = "ascii" -> directive[2]
    [] directive[1] = "stop"  -> <<>>

\* Functions follow each other in the text, variables and strings in the data.
Assembled(p) ==
  LET code    == Emitted(p)
      lens    == [i \in DOMAIN code |-> Len(code[i])]
      data    == [i \in DOMAIN p.globals |-> codegen_globalvar(p.globals[i])]
                 \o [i \in DOMAIN p.strlits |-> codegen_strlit(p.strlits[i])]
      names   == p.globals \o p.strlits
      cells   == [i \in DOMAIN data |-> Cells(data[i])]
      bytes   == FlattenSeq(cells)
      sizes   == [i \in DOMAIN cells |-> Len(cells[i])]
      symbols == [x \in NamesIn(names) |-> PartialSum(sizes, IndexOf(names, x) - 1)]
      Locals(f) == LET fn == p.fns[IndexOf(p.fns, f)] IN fn.params \o fn.vars
  IN [source  |-> p,
      text    |-> FlattenSeq(code),
      stops   |-> <<"stop">> \in ToSet(FlattenSeq(code)) \cup ToSet(data),
      entry   |-> [f \in NamesIn(p.fns) |-> PartialSum(lens, IndexOf(p.fns, f) - 1) + 1],
      symbol  |-> symbols,
      limit   |-> Len(bytes),
      data    |-> [a \in 0 .. Memory - 1 |-> IF a < Len(bytes) THEN bytes[a + 1] ELSE 0],
      extents |-> {<<symbols[g.name], SizeOf(GlobalType(g))>> : g \in ToSet(p.globals)},
      slots   |-> [f \in NamesIn(p.fns) |-> Slots(Locals(f))],
      frame   |-> [f \in NamesIn(p.fns) |-> Offset(Locals(f), Len(Locals(f)))]]

\* The programs the parser and the analysis can hand over: every function and
\* variable has one name, a variable's initial value is as large as its type (not
\* so where a number initialises a pointer, codegen.c:533), and there is room for
\* the text, the data and the call of main.
HasOneName(s) == \A i, j \in DOMAIN s : s[i].name = s[j].name => i = j
IsString(s)   == s \in Seq(0 .. Byte - 1)
IsInit(e) ==
  /\ e.kind = "strlit" => IsString(e.strval)
  /\ e.kind = "intlit" => e.intval \in Int
  /\ e.kind = "minus" /\ e.value.kind = "intlit" => e.value.intval \in Int
IsGlobal(g) ==
  /\ IsInit(g.init)
  /\ {SizeOf(g.typ), SizeOf(GlobalType(g))} \subseteq Nat
  /\ \/ codegen_globalvar(g) = <<"stop">>
     \/ SizeOf(GlobalType(g)) <= Len(Cells(codegen_globalvar(g)))
IsFunction(fn) ==
  /\ \E S \in {{v \in ToSet(fn.params \o fn.vars) : SizeOf(v.typ) \in Nat}} :
       fn.params \in Seq(S) /\ fn.vars \in Seq(S)
  /\ fn.tree.typ = Stopped \/ fn.tree \in AllTrees

ASSUME SourcesAssumption ==
  \A p \in Sources :
    /\ p.fns \in Seq(ToSet(p.fns)) /\ \A fn \in ToSet(p.fns) : IsFunction(fn)
    /\ p.globals \in Seq(ToSet(p.globals)) /\ \A g \in ToSet(p.globals) : IsGlobal(g)
    /\ p.strlits \in Seq(ToSet(p.strlits)) /\ \A s \in ToSet(p.strlits) : IsString(s.strval)
    /\ HasOneName(p.fns) /\ HasOneName(p.globals \o p.strlits)
    /\ "main" \in NamesIn(p.fns)
    /\ Len(Assembled(p).text) < Word
    /\ Assembled(p).limit + 8 <= Memory

-----------------------------------------------------------------------------
\* Instructions.
Running == pc \in DOMAIN prog.text
instr == prog.text[pc]
In(ops) == Running /\ instr[1] \in ops

Set(r, w) == regs' = [regs EXCEPT ![r] = w]
Skip == pc' = pc + 1 /\ UNCHANGED <<prog, frames>>

\* The bytes of the arguments an external function finds on the stack.
OnStack(f) ==
  IF f \in DOMAIN Externals /\ Externals[f] > 6 THEN 8 * (Externals[f] - 6) ELSE 0

\* The bytes an instruction reads or writes.
Access ==
  CASE instr[1] \in {"push", "push_int"} -> <<regs.rsp - 8, 8>>
    [] instr[1] = "call" -> <<regs.rsp - 8, 8 + OnStack(instr[2])>>
    [] instr[1] \in {"pop", "ret"} -> <<regs.rsp, 8>>
    [] instr[1] = "spill"  -> <<regs.rsp + instr[2], 8>>
    [] instr[1] = "reload" -> <<regs.rbp + instr[2], 8>>
    [] instr[1] = "store"  -> <<regs.rax, instr[2]>>
    [] instr[1] = "movsbl" -> <<regs.rax, 1>>
    [] instr[1] = "movl"   -> <<regs.rax, 4>>
    [] instr[1] = "movq"   -> <<regs.rax, 8>>
    [] OTHER -> <<0, 0>>

\* Where the stack ends after the instruction: the data is below it.
Top ==
  CASE instr[1] \in {"push", "push_int", "call"} -> regs.rsp - 8
    [] instr[1] = "add_int" -> IF instr[3] = "rsp" THEN regs.rsp + instr[2] ELSE Memory
    [] OTHER -> Memory

Reaches ==
  /\ Access[1] >= 0 /\ Access[1] + Access[2] <= Memory
  /\ Top \in prog.limit .. Memory

Dividend == Num(regs.rdx) * Word + regs.rax
Quotient ==
  LET d == Num(regs.rcx)
      q == (IF Dividend < 0 THEN -Dividend ELSE Dividend) \div (IF d < 0 THEN -d ELSE d)
  IN IF (Dividend < 0) = (d < 0) THEN q ELSE -q
Divides == regs.rcx # 0 /\ Quotient \in -(Word \div 2) .. Word \div 2 - 1

Fault ==
  /\ Running
  /\ \/ ~ Reaches
     \/ instr[1] = "idiv" /\ ~ Divides
  /\ pc' = FAULT
  /\ UNCHANGED <<prog, regs, flags, mem, frames>>

Push ==
  /\ In({"push", "push_int"}) /\ Reaches
  /\ LET w == IF instr[1] = "push" THEN regs[instr[2]] ELSE Wrap(instr[2])
     IN mem' = Put(mem, regs.rsp - 8, 8, w)
  /\ Set("rsp", regs.rsp - 8)
  /\ Skip /\ UNCHANGED flags

Pop ==
  /\ In({"pop"}) /\ Reaches
  /\ regs' = [regs EXCEPT !.rsp = @ + 8, ![instr[2]] = Bytes(regs.rsp, 8)]
  /\ Skip /\ UNCHANGED <<flags, mem>>

Move ==
  /\ In({"mov", "mov_int", "lea", "lea_rip"})
  /\ instr[1] = "lea_rip" => instr[2] \in DOMAIN prog.symbol
  /\ CASE instr[1] = "mov"     -> Set(instr[3], regs[instr[2]])
       [] instr[1] = "mov_int" -> Set(instr[3], Wrap(instr[2]))
       [] instr[1] = "lea"     -> Set("rax", Wrap(regs.rbp + instr[2]))
       [] instr[1] = "lea_rip" -> Set("rax", prog.symbol[instr[2]])
  /\ Skip /\ UNCHANGED <<flags, mem>>

\* movsbl extends the sign to 32 bits; whatever writes 32 bits clears the others.
Load ==
  /\ In({"movsbl", "movl", "movq", "reload"}) /\ Reaches
  /\ LET w == Bytes(Access[1], Access[2])
     IN CASE instr[1] = "movsbl" -> Set("rax", Signed(w, Byte) % Int32)
          [] instr[1] \in {"movl", "movq"} -> Set("rax", w)
          [] instr[1] = "reload" -> Set("rcx", w)
  /\ Skip /\ UNCHANGED <<flags, mem>>

Store ==
  /\ In({"store", "spill"}) /\ Reaches
  /\ mem' = Put(mem, Access[1], Access[2],
                IF instr[1] = "store" THEN regs[instr[3]] ELSE regs.rax)
  /\ Skip /\ UNCHANGED <<regs, flags>>

\* The flags of arithmetic are not used.
Arith ==
  /\ In({"add", "add_int", "sub", "and", "neg"}) /\ Reaches
  /\ CASE instr[1] = "add"     -> Set("rax", Wrap(regs.rax + regs.rcx))
       [] instr[1] = "sub"     -> Set("rax", Wrap(regs.rax - regs.rcx))
       [] instr[1] = "and"     -> Set("rax", And(regs.rax, regs.rcx))
       [] instr[1] = "neg"     -> Set("rax", Wrap(-regs.rax))
       [] instr[1] = "add_int" -> Set(instr[3], Wrap(regs[instr[3]] + instr[2]))
  /\ Skip /\ UNCHANGED <<flags, mem>>

Multiply ==
  /\ In({"imul"})
  /\ LET n == Num(regs.rax) * Num(regs.rcx)
     IN regs' = [regs EXCEPT !.rax = Wrap(n), !.rdx = Wrap(n \div Word)]
  /\ Skip /\ UNCHANGED <<flags, mem>>

Divide ==
  /\ In({"idiv"}) /\ Divides
  /\ regs' = [regs EXCEPT !.rax = Wrap(Quotient),
                          !.rdx = Wrap(Dividend - Quotient * Num(regs.rcx))]
  /\ Skip /\ UNCHANGED <<flags, mem>>

Cmp ==
  /\ In({"cmp", "cmp_int"})
  /\ flags' = <<Num(regs.rax), IF instr[1] = "cmp" THEN Num(regs.rcx) ELSE instr[2]>>
  /\ Skip /\ UNCHANGED <<regs, mem>>

Holds(cond) ==
  CASE cond = "e"  -> flags[1] = flags[2]
    [] cond = "ne" -> flags[1] # flags[2]
    [] cond = "l"  -> flags[1] < flags[2]
    [] cond = "le" -> flags[1] <= flags[2]

\* setcc writes the lowest byte and leaves the others.
SetByte ==
  /\ In({"set", "movzbl"})
  /\ LET byte == regs.rax % Byte
     IN IF instr[1] = "set"
        THEN Set("rax", regs.rax - byte + IF Holds(instr[2]) THEN 1 ELSE 0)
        ELSE Set("rax", byte)
  /\ Skip /\ UNCHANGED <<flags, mem>>

Jump ==
  /\ In({"jmp", "jcc"})
  /\ pc' = CASE instr[1] = "jmp" -> pc + 1 + instr[2]
             [] instr[1] = "jcc" -> IF Holds(instr[2]) THEN pc + 1 + instr[3] ELSE pc + 1
  /\ UNCHANGED <<prog, regs, flags, mem, frames>>

Call ==
  /\ In({"call"}) /\ Reaches
  /\ instr[2] \in DOMAIN prog.entry
  /\ mem' = Put(mem, regs.rsp - 8, 8, pc + 1)
  /\ Set("rsp", regs.rsp - 8)
  /\ frames' = Append(frames, [ret |-> pc + 1, rsp |-> regs.rsp, rbp |-> regs.rbp,
                               fn |-> instr[2]])
  /\ pc' = prog.entry[instr[2]]
  /\ UNCHANGED <<prog, flags>>

\* What an external function returns: a number that every argument has a part in.
Answer(args) == PartialSum([i \in DOMAIN args |-> i * args[i]], Len(args))

\* It finds its arguments where the ABI wants them and leaves nothing in the
\* registers it may use.
Junk == Word - 2
CallExternal ==
  /\ In({"call"}) /\ Reaches
  /\ instr[2] \in DOMAIN Externals
  /\ LET args == [i \in 1 .. Externals[instr[2]] |->
                   Signed((IF i <= 6 THEN regs[ArgRegs[i]]
                           ELSE Bytes(regs.rsp + (i - 7) * 8, 4)) % Int32, Int32)]
     IN regs' = [r \in DOMAIN regs |->
                  CASE r = "rax" -> Answer(args) % Int32
                    [] r \in {"rsp", "rbp"} -> regs[r]
                    [] OTHER -> Junk]
  /\ mem' = Put(mem, regs.rsp - 8, 8, pc + 1)
  /\ Skip /\ UNCHANGED flags

Return ==
  /\ In({"ret"}) /\ Reaches
  /\ pc' = Bytes(regs.rsp, 8)
  /\ Set("rsp", regs.rsp + 8)
  /\ frames' = Front(frames)
  /\ UNCHANGED <<prog, flags, mem>>

-----------------------------------------------------------------------------
Refused == prog.stops

Registers == {"rax", "rsp", "rbp", "rdi", "rsi", "rdx", "rcx", "r8", "r9"}

Init ==
  /\ \E p \in Sources : prog = Assembled(p)
  /\ pc = IF Refused THEN REFUSED ELSE prog.entry["main"]
  /\ regs = [r \in Registers |-> IF r = "rsp" THEN Memory - 8 ELSE 0]
  /\ flags = <<0, 0>>
  /\ mem = prog.data
  /\ frames = <<[ret |-> EXIT, rsp |-> Memory, rbp |-> 0, fn |-> "main"]>>

Next ==
  \/ Push \/ Pop \/ Move \/ Load \/ Store
  \/ Arith \/ Multiply \/ Divide \/ Cmp \/ SetByte
  \/ Jump \/ Call \/ CallExternal \/ Return \/ Fault

Spec     == Init /\ [][Next]_vars
FairSpec == Spec /\ WF_vars(Next)

-----------------------------------------------------------------------------
TypeOK ==
  /\ \/ pc \in {EXIT, FAULT}
     \/ pc = REFUSED /\ Refused
     \/ pc \in DOMAIN prog.text
  /\ \A r \in DOMAIN regs : regs[r] \in 0 .. Word - 1
  /\ DOMAIN mem = 0 .. Memory - 1
  /\ \A a \in DOMAIN mem : mem[a] \in 0 .. Byte - 1

\* The frame pointer of the i-th active function.
Base(i) == IF i = Len(frames) THEN regs.rbp ELSE frames[i + 1].rbp

\* Where the variables are: <<address, size>>.
Variables ==
  prog.extents
  \cup UNION {LET slots == prog.slots[frames[i].fn]
              IN {<<Base(i) - slots[x].offset, SizeOf(slots[x].typ)>> : x \in DOMAIN slots} :
                i \in DOMAIN frames}

\* What is stored through an lvalue stays inside of one variable of an active
\* function or of the program: never on an operand, a saved register or a
\* return address, however addresses were added and passed on.
StoresInVariables ==
  In({"store"}) =>
    \E v \in Variables : v[1] <= regs.rax /\ regs.rax + instr[2] <= v[1] + v[2]

\* A word that is popped was pushed after the function's variables got their
\* place: no emission takes more operands than were left for it.
PopsOperands ==
  In({"pop"}) /\ instr[2] # "rbp" =>
    regs.rsp + 8 <= regs.rbp - prog.frame[Last(frames).fn]

\* A function returns to its caller with the caller's stack and frame, whatever
\* was left on the operand stack by expression statements and loops.
ReturnsToCaller ==
  [][Len(frames') < Len(frames) =>
       /\ pc' = Last(frames).ret
       /\ regs'.rsp = Last(frames).rsp
       /\ regs'.rbp = Last(frames).rbp]_vars

\* Every program of the model comes to an end: the jumps of a loop lead to its
\* condition, and recursion to its return.
Terminates == <>(~ Running)
===============================================================================
