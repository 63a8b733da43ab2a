---- MODULE DeviceFilter ----
(***************************************************************************)
(* The eBPF program that cgroup/ebpf.go generates for cgroup v2: blocks    *)
(* appended rule by rule and put in front of the program that is attached, *)
(* once per call of AddDeviceRules (handlePrestart calls it for the        *)
(* accelerators, then for the uverbs nodes), and what the kernel computes  *)
(* with the result.                                                        *)
(***************************************************************************)
EXTENDS Integers, SequencesExt

CONSTANTS
  RuleLists,     \* the lists of rules of one call
  Programs,      \* programs the engine may have attached
  Contexts       \* the accesses the kernel may ask about

VARIABLES
  original,  \* the engine's program
  attached,  \* the instructions attached now
  later,     \* the lists of the calls to come
  pending,   \* rules of this call that are not appended yet
  prog,      \* the program under construction
  added,     \* every rule of the calls that were made
  ctx,       \* the access asked about
  run,       \* the program running: next instruction, registers written
  phase      \* "build", "attached", "refused", "run" or "exit"

deviceVars == <<original, attached, later, pending, prog, added, ctx, run, phase>>

\* unix.BPF_DEVCG_*
DevBlock  == 1
DevChar   == 2
AccMknod  == 1
AccRead   == 2
AccWrite  == 4
AccAll    == AccMknod + AccRead + AccWrite

\* x & mask, for a mask of accesses
And(x, mask) ==
  LET both(bit) == bit * ((x \div bit) % 2) * ((mask \div bit) % 2)
  IN  both(AccMknod) + both(AccRead) + both(AccWrite)

\* convertDevInfoToDevRule
DeviceRule == [allow : {TRUE}, type : {"c"}, access : {{"r", "w", "m"}}, major : Nat, minor : Nat]

\* bpf_cgroup_dev_ctx: 16 bits of type and 16 of access
HalfWord == 65536
Context  == [type : 0 .. HalfWord - 1, access : 1 .. AccAll, major : Nat, minor : Nat]

----------------------------------------------------------------------------
(* Instructions.  A jump goes to a block (a label) while the program is    *)
(* built; in a loaded program it goes to an offset.                        *)

Nowhere        == [block |-> -1, by |-> 0]
Block(n)       == [block |-> n, by |-> 0]
Offset(n)      == [block |-> -1, by |-> n]
Ins(op, r, arg, to) == [op |-> op, r |-> r, arg |-> arg, to |-> to, sym |-> Nowhere]

LoadHalf(r, at) == Ins("ldh", r, at, Nowhere)
LoadWord(r, at) == Ins("ldw", r, at, Nowhere)
RSh(r, n)       == Ins("rsh", r, n, Nowhere)
Mov(r, n)       == Ins("mov", r, n, Nowhere)
MovReg(r, s)    == Ins("movreg", r, s, Nowhere)
AndImm(r, n)    == Ins("and", r, n, Nowhere)
JNE(r, n, to)   == Ins("jne", r, n, to)
JEq(r, n, to)   == Ins("jeq", r, n, to)
JNEReg(r, s, to) == Ins("jnereg", r, s, to)
Ja(to)          == Ins("ja", 0, 0, to)
Return          == Ins("exit", 0, 0, Nowhere)

WithSymbol(insts, label) == [insts EXCEPT ![1].sym = label]

\* Loading a program turns the labels into offsets.
Resolve(insts) ==
  [i \in DOMAIN insts |->
     [insts[i] EXCEPT !.sym = Nowhere,
                      !.to  = IF @.block < 0 THEN @
                              ELSE Offset((CHOOSE j \in DOMAIN insts : insts[j].sym = @) - i)]]

Jumps == {"jne", "jeq", "jnereg", "ja"}
Sets  == {"ldh", "ldw", "rsh", "mov", "movreg", "and"}

Target      == [block : Int, by : Nat]
Instruction == [op : Jumps \cup Sets \cup {"exit"}, r : 0 .. 5, arg : Nat, to : Target, sym : Target]

\* A program that was loaded has no labels.
Loaded(insts) ==
  /\ insts \in Seq(Instruction) /\ insts # <<>>
  /\ \A n \in DOMAIN insts : insts[n].sym = Nowhere /\ insts[n].to.block = -1

Reads(i)  == CASE i.op \in {"ldh", "ldw"} -> {1}
               [] i.op \in {"mov", "ja"}   -> {}
               [] i.op = "movreg"         -> {i.arg}
               [] i.op = "jnereg"         -> {i.r, i.arg}
               [] i.op = "exit"           -> {0}
               [] OTHER                   -> {i.r}
Writes(i) == IF i.op \in Sets THEN {i.r} ELSE {}

\* Where control may come from.
Before(insts, n) == {j \in 1 .. n - 1 : \/ j = n - 1 /\ insts[j].op \notin {"exit", "ja"}
                                        \/ insts[j].op \in Jumps /\ insts[j].to.by = n - j}

\* What every way to an instruction has written, given that of the ones before
\* it.  R1 holds the context at the start.
OnEveryWay(insts, n, written) ==
  {r \in 0 .. 5 : IF n = 1 THEN r = 1
                  ELSE \A j \in Before(insts, n) : r \in Writes(insts[j]) \cup written[j]}

Extend(insts, n, written) == Append(written, OnEveryWay(insts, n, written))

Written(insts) ==
  LET upto[n \in 0 .. Len(insts)] == IF n = 0 THEN <<>> ELSE Extend(insts, n, upto[n - 1])
  IN  upto[Len(insts)]

\* The kernel takes a program that jumps forward inside itself, ends in an exit,
\* and has no instruction that reads a register some way to it has not written.
Verified(insts) ==
  /\ insts[Len(insts)].op = "exit"
  /\ \A n \in DOMAIN insts : insts[n].op \in Jumps => insts[n].to.by \in 1 .. Len(insts) - n
  /\ LET written == Written(insts)
     IN  \A n \in DOMAIN insts : Reads(insts[n]) \subseteq written[n]

----------------------------------------------------------------------------
(* Execution: the state is the next instruction and the registers written. *)

Begin == [pc |-> 1, reg |-> [r \in {1} |-> 0]]

Word(c, at) == CASE at = 0 -> c.access * HalfWord + c.type
                 [] at = 4 -> c.major
                 [] at = 8 -> c.minor

Value(i, c, reg) == CASE i.op = "ldh"    -> Word(c, i.arg) % HalfWord
                      [] i.op = "ldw"    -> Word(c, i.arg)
                      [] i.op = "rsh"    -> reg[i.r] \div 2^i.arg
                      [] i.op = "mov"    -> i.arg
                      [] i.op = "movreg" -> reg[i.arg]
                      [] i.op = "and"    -> And(reg[i.r], i.arg)

Taken(i, reg) == CASE i.op = "jne"    -> reg[i.r] # i.arg
                   [] i.op = "jeq"    -> reg[i.r] = i.arg
                   [] i.op = "jnereg" -> reg[i.r] # reg[i.arg]
                   [] i.op = "ja"     -> TRUE

Advance(insts, c, s) ==
  LET i == insts[s.pc]
  IN  CASE i.op = "exit"  -> s
        [] i.op \in Jumps -> [pc  |-> s.pc + (IF Taken(i, s.reg) THEN i.to.by ELSE 1),
                              reg |-> s.reg]
        [] i.op \in Sets  -> [pc  |-> s.pc + 1,
                              reg |-> [x \in DOMAIN s.reg \cup {i.r} |->
                                         IF x = i.r THEN Value(i, c, s.reg) ELSE s.reg[x]]]

\* What a program decides when it runs alone.  It has left a state for each
\* instruction at the latest when it has taken as many steps as it is long.
Decides(insts, c) ==
  LET after[n \in 0 .. Len(insts)] ==
        IF n = 0 THEN Begin ELSE Advance(insts, c, after[n - 1])
  IN  after[Len(insts)].reg[0] = 1

----------------------------------------------------------------------------
(* program.init, appendDevice, acceptBlock and finalize                    *)

\* Mutant: the minor number is not loaded.
InitProgramNoMinor == <<LoadHalf(2, 0), LoadWord(3, 0), RSh(3, 16), LoadWord(4, 4)>>

\* R2 the type, R3 the access, R4 the major, R5 the minor number.
InitProgram == <<LoadHalf(2, 0), LoadWord(3, 0), RSh(3, 16), LoadWord(4, 4), LoadWord(5, 8)>>

NewProgram == [insts |-> InitProgram, hasWildCard |-> FALSE, blockID |-> 0]

AcceptBlock(accept) == <<Mov(0, IF accept THEN 1 ELSE 0), Return>>

\* Where no program is attached AddDeviceRules starts from a mere exit.
NoProgram == <<Return>>

BpfAccess(letters) == (IF "r" \in letters THEN AccRead ELSE 0)
                    + (IF "w" \in letters THEN AccWrite ELSE 0)
                    + (IF "m" \in letters THEN AccMknod ELSE 0)

\* Mutant: minor number 0 is taken for "not specified".
TestsZeroMinor(dev, next) ==
  <<JNE(2, DevChar, next), JNE(4, dev.major, next)>>
  \o IF dev.minor > 0 THEN <<JNE(5, dev.minor, next)>> ELSE <<>>

\* The tests of a rule; a test that fails goes on with the next block.
Tests(dev, next) ==
  LET when(c, insts) == IF c THEN insts ELSE <<>>
  IN  when(dev.type # "a", <<JNE(2, IF dev.type = "c" THEN DevChar ELSE DevBlock, next)>>)
      \o when(BpfAccess(dev.access) # AccAll,
              <<MovReg(2, 3), AndImm(2, BpfAccess(dev.access)), JEq(2, 0, next)>>)
      \o when(dev.major >= 0, <<JNE(4, dev.major, next)>>)
      \o when(dev.minor >= 0, <<JNE(5, dev.minor, next)>>)

AppendDevice(p, dev) ==
  IF p.hasWildCard THEN p
  ELSE LET tests == Tests(dev, Block(p.blockID + 1))
       IN  [insts       |-> p.insts \o WithSymbol(tests \o AcceptBlock(dev.allow), Block(p.blockID)),
            hasWildCard |-> tests = <<>>,
            blockID     |-> p.blockID + 1]

Finalize(p, orig) == p.insts \o WithSymbol(orig, Block(p.blockID))

----------------------------------------------------------------------------
(* What is attached was taken by the kernel.                               *)
ASSUME ProgramsAssumption ==
  \A insts \in Programs : Loaded(insts) /\ (Verified(insts) \/ insts = NoProgram)
ASSUME RulesAssumption    == RuleLists \subseteq Seq(DeviceRule)
ASSUME ContextsAssumption == Contexts \subseteq Context

(* Building: one call of AddDeviceRules after the other                    *)

DeviceInit == /\ original \in Programs
              /\ attached = original
              /\ \E calls \in [1 .. 2 -> RuleLists] : later = <<calls[2]>> /\ pending = calls[1]
              /\ prog = NewProgram
              /\ added = {}
              /\ ctx = CHOOSE c \in Contexts : TRUE
              /\ run = Begin
              /\ phase = "build"

\* PrependDeviceFilter takes the rules from the last one to the first.
Append1 == /\ phase = "build" /\ pending # <<>>
           /\ prog' = AppendDevice(prog, Last(pending))
           /\ added' = added \cup {Last(pending)}
           /\ pending' = Front(pending)
           /\ UNCHANGED <<original, attached, later, ctx, run, phase>>

\* generateNewProgram loads the program; it takes the place of the old one.
Load == /\ phase = "build" /\ pending = <<>>
        /\ LET insts == Resolve(Finalize(prog, attached))
           IN  IF Verified(insts)
               THEN phase' = "attached" /\ attached' = insts
               ELSE phase' = "refused" /\ UNCHANGED attached
        /\ UNCHANGED <<original, later, pending, prog, added, ctx, run>>

NextCall == /\ phase = "attached" /\ later # <<>>
            /\ pending' = Head(later) /\ later' = Tail(later)
            /\ prog' = NewProgram
            /\ phase' = "build"
            /\ UNCHANGED <<original, attached, added, ctx, run>>

----------------------------------------------------------------------------
(* Running: the kernel asks about an access, one instruction a step       *)

Ask == /\ phase = "attached"
       /\ ctx' \in Contexts
       /\ phase' = "run" /\ run' = Begin
       /\ UNCHANGED <<original, attached, later, pending, prog, added>>

Step == /\ phase = "run"
        /\ run' = Advance(attached, ctx, run)
        /\ phase' = IF attached[run.pc].op = "exit" THEN "exit" ELSE "run"
        /\ UNCHANGED <<original, attached, later, pending, prog, added, ctx>>

DeviceNext == Append1 \/ Load \/ NextCall \/ Ask \/ Step

DeviceSpec == DeviceInit /\ [][DeviceNext]_deviceVars

----------------------------------------------------------------------------
(* Properties                                                              *)

\* A rule is about an access when type, numbers and one letter agree.
Concerns(dev, c) ==
  /\ dev.type = "a" \/ c.type = (IF dev.type = "c" THEN DevChar ELSE DevBlock)
  /\ dev.major \in {-1, c.major}
  /\ dev.minor \in {-1, c.minor}
  /\ And(c.access, BpfAccess(dev.access)) # 0

\* The attached program, whatever was put in front of it and how often,
\* allows exactly what the rules of the calls add to what the engine's own
\* program allows: an access that no rule concerns is decided by the engine's
\* instructions, which find the context and jump as if they ran alone
\* (PrependDeviceFilter).
DecidesAsRules ==
  phase = "exit" =>
    (run.reg[0] = 1 <=> Decides(original, ctx) \/ \E dev \in added : Concerns(dev, ctx))

\* The kernel takes every program generated from one of an engine, also where
\* programs have been generated from it before: none reads a register that
\* some way to the reading instruction has not written (generateNewProgram).
\* The program made where none was attached it does not take.
ProgramLoads == phase = "refused" => original = NoProgram

====
