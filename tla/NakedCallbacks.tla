--------------------------- MODULE NakedCallbacks ---------------------------
(***************************************************************************)
(* The naked hooks that the runtime calls at the start and the end of a    *)
(* profiled function, instruction by instruction: asmhelpers.S for Linux   *)
(* ("sysv") and nakedcallbacks.asm for Windows ("win64").  The three hooks *)
(* of a file differ in the stub they call and in nothing else.             *)
(*                                                                         *)
(* The machine has the integer registers that a callee may change under    *)
(* either convention and a stack of eight-byte slots that grows downward.  *)
(* External are the conventions themselves: which registers hold the       *)
(* argument, which ones the compiled stub may change, the slots above its  *)
(* return address that a Windows callee owns, and the alignment it is due. *)
(***************************************************************************)
EXTENDS Integers, Sequences

VARIABLES
  convention,
  regs, rsp, stack,   \* the registers, the stack pointer, the stack
  hook, argument,     \* the running hook and the id it was called with
  ip                  \* its next instruction; 0 when no hook runs

cpu == <<convention, regs, rsp, stack, hook, argument, ip>>

Registers == {"rax", "rcx", "rdx", "rsi", "rdi", "r8", "r9", "r10", "r11"}
Conventions == {"sysv", "win64"}

\* Of the calling conventions: the register of the first argument, what a
\* callee may overwrite, and how many slots above its return address it owns.
FirstArgument == IF convention = "sysv" THEN "rdi" ELSE "rcx"
Scratch == IF convention = "sysv" THEN Registers ELSE Registers \ {"rsi", "rdi"}
ShadowSlots == IF convention = "sysv" THEN 0 ELSE 4

\* A hook is entered with its return address on top of the stack, so an odd
\* slot off the alignment of sixteen bytes; Slots leaves room below.
Slots     == 1 .. 20
EntryRsp  == 19
Junk      == "junk"               \* what a compiled stub leaves behind
Contents  == Registers \cup {"argument", "caller", "return", Junk}

(* The code of a hook: registers pushed, room made, the stub called, and   *)
(* all of it undone.                                                       *)
Push(r) == [op |-> "push", reg |-> r, n |-> 1]
Pop(r)  == [op |-> "pop",  reg |-> r, n |-> 1]
Add(n)  == [op |-> "add",  reg |-> "rsp", n |-> n]
Call(stub) == [op |-> "call", reg |-> stub, n |-> 0]
Ret     == [op |-> "ret",  reg |-> "rsp", n |-> 1]

Mutant_OneLess == <<Push("rcx"), Push("rdx"), Push("rsi"),
  Push("rdi"), Push("r8"), Push("r9"), Push("r10"), Push("r11")>>
SysvPushes  == <<Push("rax"), Push("rcx"), Push("rdx"), Push("rsi"),
  Push("rdi"), Push("r8"), Push("r9"), Push("r10"), Push("r11")>>
SysvPops    == <<Pop("r11"), Pop("r10"), Pop("r9"), Pop("r8"), Pop("rdi"),
  Pop("rsi"), Pop("rdx"), Pop("rcx"), Pop("rax")>>
Win64Pushes == <<Push("rax"), Push("rcx"), Push("rdx"), Push("r8"),
  Push("r9"), Push("r10"), Push("r11")>>
Win64Pops   == <<Pop("r11"), Pop("r10"), Pop("r9"), Pop("r8"), Pop("rdx"),
  Pop("rcx"), Pop("rax")>>

Mutant_NoRoom(stub) ==
  [sysv  |-> SysvPushes \o <<Call(stub)>> \o SysvPops \o <<Ret>>,
   win64 |-> Win64Pushes \o <<Call(stub)>> \o Win64Pops \o <<Ret>>]
Naked(stub) ==
  [sysv  |-> SysvPushes \o <<Call(stub)>> \o SysvPops \o <<Ret>>,
   win64 |-> Win64Pushes \o <<Add(-4), Call(stub), Add(4)>> \o Win64Pops \o <<Ret>>]

EnterNaked    == Naked("EnterStub")
LeaveNaked    == Naked("LeaveStub")
TailcallNaked == Naked("TailcallStub")
Hook == [enter |-> EnterNaked, leave |-> LeaveNaked, tailcall |-> TailcallNaked]

Code        == Hook[hook][convention]
Instruction == Code[ip]
-----------------------------------------------------------------------------
(* The machine.                                                            *)

\* What the profiled function has in its registers and on its stack.
CallersRegs  ==
  [r \in Registers |-> IF r = FirstArgument THEN "argument" ELSE r]
CallersStack == [s \in Slots |-> IF s = EntryRsp THEN "return" ELSE "caller"]

AtRest ==
  /\ regs = CallersRegs /\ rsp = EntryRsp /\ stack = CallersStack
  /\ hook = "enter" /\ argument = 0 /\ ip = 0

\* The runtime calls a hook with id in the register of the first argument.
CallHook(h, id) ==
  /\ ip = 0 /\ ip' = 1 /\ hook' = h /\ argument' = id
  /\ rsp' = EntryRsp /\ stack' = CallersStack /\ regs' = CallersRegs
  /\ UNCHANGED convention

Executes(op) == ip # 0 /\ Instruction.op = op

ExecutePush ==
  /\ Executes("push")
  /\ rsp' = rsp - 1 /\ ip' = ip + 1
  /\ stack' = [stack EXCEPT ![rsp - 1] = regs[Instruction.reg]]
  /\ UNCHANGED <<convention, regs, hook, argument>>

ExecutePop ==
  /\ Executes("pop")
  /\ regs' = [regs EXCEPT ![Instruction.reg] = stack[rsp]]
  /\ rsp' = rsp + 1 /\ ip' = ip + 1
  /\ UNCHANGED <<convention, stack, hook, argument>>

ExecuteAdd ==
  /\ Executes("add")
  /\ rsp' = rsp + Instruction.n /\ ip' = ip + 1
  /\ UNCHANGED <<convention, regs, stack, hook, argument>>

\* The stub runs and returns.  Its return address lies below rsp and its
\* shadow slots begin at rsp.
ExecuteCall ==
  /\ Executes("call")
  /\ regs' = [r \in Registers |-> IF r \in Scratch THEN Junk ELSE regs[r]]
  /\ stack' = [s \in Slots |->
       IF s \in rsp - 1 .. rsp + ShadowSlots - 1 THEN Junk ELSE stack[s]]
  /\ ip' = ip + 1
  /\ UNCHANGED <<convention, rsp, hook, argument>>

\* The hook is over and forgotten.
ExecuteRet ==
  /\ Executes("ret")
  /\ rsp' = rsp + 1 /\ ip' = 0 /\ hook' = "enter" /\ argument' = 0
  /\ UNCHANGED <<convention, regs, stack>>
-----------------------------------------------------------------------------
(* Correctness.                                                            *)

CpuTypeOK ==
  /\ convention \in Conventions /\ hook \in DOMAIN Hook
  /\ argument \in Nat
  /\ regs \in [Registers -> Contents] /\ stack \in [Slots -> Contents]
  /\ rsp \in Slots /\ ip \in 0 .. Len(Code)

\* The runtime saves nothing for a hook (corprof.idl:287-290): when a hook
\* returns, it does so to its caller, with the integer registers and the
\* caller's part of the stack as they were.
HooksAreTransparent ==
  Executes("ret") =>
    /\ rsp = EntryRsp /\ regs = CallersRegs
    /\ \A s \in EntryRsp .. EntryRsp + 1 : stack[s] = CallersStack[s]

\* The stub, compiled code that may use aligned moves, finds the stack at a
\* multiple of sixteen bytes and the client's id in its first argument.
StubsAreCalledWell ==
  Executes("call") => rsp % 2 = 0 /\ regs[FirstArgument] = "argument"
=============================================================================
