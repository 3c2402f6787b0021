------------------------------- MODULE Processor -------------------------------
(***************************************************************************)
(* The processor that runs the original image (Machine::step and the       *)
(* extracodes), with the two ways it has of running it: an instruction at  *)
(* a time, or a whole routine at once where a translated one or straight   *)
(* call glue starts (dispatch_translated_routine).  An instruction that    *)
(* needs a line of input is run again when the shell has queued one        *)
(* (run_image_shell).                                                      *)
(*                                                                         *)
(* A word of memory is a number, a text, two instructions, or a control    *)
(* word of the terminal; the numbers' arithmetic is in NativeNumbers.      *)
(***************************************************************************)
EXTENDS Integers, Sequences

CONSTANTS
  Size,        \* words of memory
  Generated,   \* where compiled routines start
  Transfer_,   \* the translated routine that transfers input, a word long
  Memories,    \* memories at the start
  Lines        \* what may be typed: sequences of texts

VARIABLES
  machine,  \* the processor
  plain,    \* one that goes an instruction at a time and has every line at once
  typed     \* lines the shell has not read yet

vars == <<machine, plain, typed>>

\* Registers: 0 is always zero; the base and the link of routines, the one extracodes set, the stack's.
Base == 1
Link == 2
Extra == 3
Stack == 4
Registers == 0 .. 4

Number(n) == [is |-> "number", n |-> n]
Text(s) == [is |-> "text", text |-> s]
Code(l, r) == [is |-> "code", left |-> l, right |-> r]
Control(does, buffer, capacity, last) ==
  [is |-> "control", does |-> does, buffer |-> buffer, capacity |-> capacity, last |-> last]
Ready == [is |-> "ready"]        \* the query whether the terminal is ready
Status == Number(Size)           \* what the terminal answers

Plus(x, y) == (x + y) % Size
Address(w) == IF w.is = "number" THEN w.n % Size ELSE 0
IsZero(w) == w = Number(0)

---------------------------------------------------------------------------
(* Parts of an instruction *)

SetRegister(m, r, v) == IF r = 0 THEN m ELSE [m EXCEPT !.reg[r] = v]
Logical(m) == [m EXCEPT !.group = "logical"]
Load(m, w) == Logical([m EXCEPT !.acc = w])
Store(m, a) == [m EXCEPT !.mem[a] = m.acc]
Push(m) == [Store(m, m.reg[Stack]) EXCEPT !.reg[Stack] = Plus(@, 1)]
Pop(m) == LET a == Plus(m.reg[Stack], -1)
          IN [m EXCEPT !.reg[Stack] = a, !.acc = m.mem[a]]
Branch(m, a) == [m EXCEPT !.pc = a, !.right = FALSE]
BranchIf(m, test, a) == IF test THEN Branch(m, a) ELSE m
Stop(m, why) == [m EXCEPT !.status = why]

\* accumulator_condition, in the two groups these instructions leave.
Condition(m) == m.group # "logical" \/ ~IsZero(m.acc)

\* emulate_e71: control words are obeyed in turn.  The register is cleared even when the
\* transfer finds no line.
RECURSIVE Obey(_, _)
Obey(m, a) ==
  LET w == m.mem[a]
      text == IF m.mem[w.buffer].is = "text" THEN m.mem[w.buffer].text ELSE <<>>
      further(n) == IF w.last THEN [n EXCEPT !.acc = Status] ELSE Obey(n, Plus(a, 1))
  IN CASE w.is # "control" -> Stop(m, "fault")
       [] w.is = "control" /\ w.does = "status" -> [m EXCEPT !.acc = Status]
       [] w.is = "control" /\ w.does = "console" ->
            [m EXCEPT !.out = Append(@, SubSeq(text, 2, Len(text)))]
       [] w.is = "control" /\ w.does = "in" ->
            IF m.in = <<>> THEN Stop(m, "input")
            ELSE LET line == Head(m.in)
                     kept == IF Len(line) > w.capacity THEN w.capacity ELSE Len(line)
                 IN further([m EXCEPT !.in = Tail(@),
                                      !.mem[w.buffer] = Text(SubSeq(line, 1, kept))])
       [] OTHER -> further([m EXCEPT !.out = Append(@, text)])

Terminal(m, a) ==
  LET n == [m EXCEPT !.reg[Extra] = 0]
  IN IF a = 0 \/ n.mem[a] = Ready THEN [n EXCEPT !.acc = Status] ELSE Obey(n, a)

\* Mutant: the modifier of an instruction that waits is gone when it runs again.
RetriedUnmodified(old, m) == [m EXCEPT !.pc = old.pc, !.right = old.right]

\* An instruction that found no input is left to be run again.
Retried(old, m) == [m EXCEPT !.pc = old.pc, !.right = old.right, !.mod = old.mod]

---------------------------------------------------------------------------
(* One instruction: Machine::step *)

\* An instruction taken from its half word: the machine after that (s), its address with the
\* modifier, and the address with the register added.  The stack's top is taken off (t) where
\* the stack register is used bare.
Fetched(m) ==
  LET i == IF m.right THEN m.mem[m.pc].right ELSE m.mem[m.pc].left
      next == Plus(m.pc, 1)
      s == [m EXCEPT !.pc = IF m.right THEN next ELSE @, !.right = ~@, !.mod = 0]
      address == Plus(i.address, m.mod)
      top == address = 0 /\ i.reg = Stack
  IN [op |-> i.op, r |-> i.reg, next |-> next, s |-> s, address |-> address, top |-> top,
      value |-> s.reg[i.reg], effective |-> Plus(address, s.reg[i.reg]),
      t |-> IF top THEN [s EXCEPT !.reg[Stack] = Plus(@, -1)] ELSE s]

Operand(d, m) == m.mem[Plus(d.address, m.reg[d.r])]
Low(a) == a % 5   \* registers are chosen by low bits

\* The accumulator and memory.
Moving(d) ==
  LET s == d.s
  IN CASE d.op = "ATX" -> LET n == Store(s, d.effective)
                          IN IF d.top THEN [n EXCEPT !.reg[Stack] = Plus(@, 1)] ELSE n
       [] d.op = "STX" -> Logical(Pop(Store(s, d.effective)))
       [] d.op = "XTS" -> LET n == Push(s) IN Load(n, Operand(d, n))
       [] d.op = "XTA" -> Load(d.t, Operand(d, d.t))

\* Registers and the modifier.
Indexing(d) ==
  LET s == d.s
      target == Low(d.effective)
  IN CASE d.op = "ATI" -> SetRegister(s, target, Address(s.acc))
       [] d.op = "STI" -> LET n == IF target = Stack THEN [s EXCEPT !.acc = s.mem[Address(s.acc)]]
                                   ELSE Pop(s)
                          IN Logical(SetRegister(n, target, Address(s.acc)))
       [] d.op = "ITA" -> Load(s, Number(s.reg[target]))
       [] d.op = "ITS" -> LET n == Push(s)
                          IN Load(n, Number(n.reg[Low(Plus(d.address, n.reg[d.r]))]))
       [] d.op = "MTJ" -> SetRegister(s, Low(d.address), d.value)
       [] d.op = "J+M" -> SetRegister(s, Low(d.address), Plus(s.reg[Low(d.address)], d.value))
       [] d.op = "UTC" -> [s EXCEPT !.mod = d.effective]
       [] d.op = "WTC" -> [d.t EXCEPT !.mod = Address(Operand(d, d.t))]
       [] d.op = "VTM" -> SetRegister(s, d.r, d.address)
       [] d.op = "UTM" -> SetRegister(s, d.r, d.effective)

Jumping(d) ==
  LET s == d.s
  IN CASE d.op = "UZA" -> BranchIf(s, ~Condition(s), d.effective)
       [] d.op = "U1A" -> BranchIf(s, Condition(s), d.effective)
       [] d.op = "UJ" -> Branch(s, d.effective)
       [] d.op = "VJM" -> Branch(SetRegister(s, d.r, d.next), d.address)
       [] d.op = "VZM" -> BranchIf(s, d.value = 0, d.address)
       [] d.op = "V1M" -> BranchIf(s, d.value # 0, d.address)
       [] d.op = "VLM" -> IF d.value = 0 THEN s
                          ELSE Branch(SetRegister(s, d.r, Plus(d.value, 1)), d.address)
       [] d.op = "STOP" -> Stop(s, "halted")

Extracode(d, old) ==
  LET a == d.effective
      s == [d.s EXCEPT !.reg[Extra] = a]
  IN CASE d.op = "E71" -> LET n == Terminal(s, a)
                          IN IF n.status = "input" THEN Retried(old, n) ELSE Logical(n)
       [] d.op = "E67" -> LET to == Address(s.mem[a])
                          IN IF to = 0 THEN Stop(s, "fault") ELSE Logical(Branch(s, to))
       [] d.op = "E75" -> IF a = 0 THEN Logical(s) ELSE Logical(Store(s, a))
       [] d.op = "E74" -> Logical(Stop(s, IF a = 0 THEN "halted" ELSE "fault"))

Execute(m) ==
  LET d == Fetched(m)
  IN CASE d.op \in {"ATX", "STX", "XTS", "XTA"} -> Moving(d)
       [] d.op \in {"UZA", "U1A", "UJ", "VJM", "VZM", "V1M", "VLM", "STOP"} -> Jumping(d)
       [] d.op \in {"E71", "E67", "E75", "E74"} -> Extracode(d, m)
       [] OTHER -> Indexing(d)

---------------------------------------------------------------------------
(* Whole routines: dispatch_translated_routine *)

Half(m, pc, right) == IF right THEN m.mem[pc].right ELSE m.mem[pc].left

\* The look ahead: straight glue from pc to a jump.
RECURSIVE Straight(_, _, _)
Straight(m, pc, right) ==
  /\ pc >= Generated /\ m.mem[pc].is = "code"
  /\ LET op == Half(m, pc, right).op
     IN \/ op \in {"UJ", "VJM"}
        \/ op \in {"STX", "XTS", "UTC", "VTM"}
           /\ Straight(m, IF right THEN Plus(pc, 1) ELSE pc, ~right)

\* The glue itself, from an instruction on; n counts the instructions.
RECURSIVE Glue(_, _, _, _, _)
Glue(m, pc, right, modifier, n) ==
  LET i == Half(m, pc, right)
      next == Plus(pc, 1)
      address == Plus(i.address, modifier)
      effective(s) == Plus(address, s.reg[i.reg])
      on(s, mod) == Glue(s, IF right THEN next ELSE pc, ~right, mod, n + 1)
      ends(s, a) == [m |-> [Branch(s, a) EXCEPT !.mod = 0], n |-> n + 1]
  IN CASE i.op = "STX" -> on(Logical(Pop(Store(m, effective(m)))), 0)
       [] i.op = "XTS" -> LET s == Push(m) IN on(Load(s, s.mem[effective(s)]), 0)
       [] i.op = "UTC" -> on(m, effective(m))
       [] i.op = "VTM" -> on(SetRegister(m, i.reg, address), 0)
       [] i.op = "UJ" -> ends(m, effective(m))
       [] i.op = "VJM" -> ends(SetRegister(m, i.reg, next), address)

\* p20205_transfer_input: a blocking routine stays at its entry and is tried again.
TransferInput(m) ==
  LET n == Terminal([m EXCEPT !.right = FALSE, !.mod = 0], Plus(m.reg[Base], 1))
  IN IF n.status = "input" THEN [m |-> n, n |-> 0]
     ELSE [m |-> Branch(Logical(n), Plus(m.pc, 1)), n |-> 2]

\* One turn of Machine::step and the number of instructions it stands for.
Turn(m) ==
  CASE ~m.right /\ m.pc = Transfer_ -> TransferInput(m)
    [] ~m.right /\ m.pc >= Generated /\ Straight(m, m.pc, FALSE) ->
         Glue(m, m.pc, FALSE, m.mod, 0)
    [] m.mem[m.pc].is # "code" -> [m |-> Stop(m, "fault"), n |-> 0]
    [] OTHER -> LET n == Execute(m) IN [m |-> n, n |-> IF n.status = "input" THEN 0 ELSE 1]

---------------------------------------------------------------------------
(* The shell *)

\* start and boot_static_image.
Booted(mem) ==
  [pc |-> 1, right |-> FALSE, mod |-> 0, acc |-> Number(0), group |-> "none",
   reg |-> [r \in Registers |-> IF r = Stack THEN Size - 8 ELSE 0],
   mem |-> mem, in |-> <<>>, out |-> <<>>, status |-> "running"]

Init ==
  /\ machine \in {Booted(mem) : mem \in Memories}
  /\ typed \in Lines
  /\ plain = [machine EXCEPT !.in = typed]

RECURSIVE After(_, _)
After(m, n) == IF n = 0 THEN m ELSE After(Execute(m), n - 1)

Step ==
  /\ machine.status = "running"
  /\ LET turn == Turn(machine)
     IN machine' = turn.m /\ plain' = After(plain, turn.n)
  /\ UNCHANGED typed

\* A line is read when one is needed; at the end of the input the shell ends.
ReadLine ==
  /\ machine.status = "input" /\ typed # <<>>
  /\ machine' = [machine EXCEPT !.in = Append(@, Head(typed)), !.status = "running"]
  /\ typed' = Tail(typed) /\ UNCHANGED plain

Next == Step \/ ReadLine

Spec == Init /\ [][Next]_vars

---------------------------------------------------------------------------
(* Properties *)

\* A machine that runs whole routines at once and waits for lines does what one does that
\* runs every instruction by itself and has all the lines: the same place, accumulator,
\* memory, registers and output, whichever is dispatched and however often a transfer is
\* tried again.  The register of extracodes is cleared by a transfer that waits.
WholesAgree ==
  /\ \A f \in {"pc", "right", "mod", "acc", "group", "mem", "out"} : machine[f] = plain[f]
  /\ \A r \in Registers \ {Extra} : machine.reg[r] = plain.reg[r]
  /\ plain.in = machine.in \o typed
=============================================================================
