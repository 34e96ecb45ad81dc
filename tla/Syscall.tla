------------------------------ MODULE Syscall ------------------------------
(***************************************************************************)
(* A system call, from SYSCALL to SYSRET: kernel/syscall/syscall_entry.S   *)
(* instruction by instruction, syscall_dispatch and the handlers of        *)
(* kernel/syscall/syscall.c as the one step their call is to it.  The entry*)
(* runs with interrupts off (SFMASK), so that nothing comes in between.    *)
(***************************************************************************)
EXTENDS Integers, Sequences

CONSTANTS
    Numbers,     \* what user code may put in rax
    Fds,         \* what it may put in rdi
    SyscallMax   \* SYSCALL_MAX

CalleeSaved == {"rbx", "rbp", "r12", "r13", "r14", "r15"}
Scratch == {"rcx", "rdx", "rsi", "rdi", "r8", "r9", "r10", "r11"}
Registers == CalleeSaved \cup Scratch \cup {"rax"}

Junk == -2  \* what a C function leaves in a register it need not preserve

VARIABLES
    user,    \* history: the registers, instruction pointer and flags at SYSCALL
    reg,     \* the registers
    stack,   \* what the entry has pushed, last first
    pc,      \* position in Code
    mode,    \* "entry", then "halted" or "user"
    call,    \* history: number and arguments syscall_dispatch has got
    cs, ss   \* selectors

vars == <<user, reg, stack, pc, mode, call, cs, ss>>

-----------------------------------------------------------------------------
(***************************************************************************)
(* syscall_init, and the instructions between syscall_entry and sysretq.   *)
(***************************************************************************)

\* The bases that syscall_init stores in STAR.
StarKernel == 8
StarUser == 24

Push(r) == [op |-> "push", to |-> r, from |-> r]
Pop(r) == [op |-> "pop", to |-> r, from |-> r]
Mov(f, t) == [op |-> "mov", to |-> t, from |-> f]
Load(n, t) == [op |-> "load", to |-> t, from |-> n]  \* n words above rsp
Call == [op |-> "call"]
AddRsp(n) == [op |-> "drop", from |-> n]

Code ==
    <<Push("rbp"), Push("rbx"), Push("r12"), Push("r13"), Push("r14"), Push("r15"),
      Push("rcx"), Push("r11"),
      Mov("rax", "rdi"), Mov("r10", "rcx"),
      Push("rdi"), Push("rsi"), Push("rdx"), Push("r10"), Push("r8"),
      Mov("rax", "rdi"),
      Load(4, "rsi"), Load(3, "rdx"), Load(2, "rcx"), Load(1, "r8"), Load(0, "r9"),
      Call, AddRsp(5),
      Pop("r11"), Pop("rcx"),
      Pop("r15"), Pop("r14"), Pop("r13"), Pop("r12"), Pop("rbx"), Pop("rbp")>>

-----------------------------------------------------------------------------
(***************************************************************************)
(* Actions.                                                                *)
(***************************************************************************)

\* What a handler returns; sys_write takes descriptor 1 only, and numbers
\* without a handler give -1.
Result(num, args) ==
    CASE num = 1 -> IF args[1] # 1 THEN -1 ELSE args[3]  \* sys_write
      [] num \in {3, 4} -> 0                             \* sys_yield, sys_sleep
      [] num = 5 -> 1                                    \* sys_getpid
      [] OTHER -> -1                                     \* sys_read, none

\* One instruction other than the call.
Step ==
    /\ pc \in DOMAIN Code /\ Code[pc].op # "call"
    /\ LET i == Code[pc]
       IN \/ i.op = "push" /\ stack' = <<reg[i.from]>> \o stack /\ UNCHANGED reg
          \/ i.op = "pop" /\ stack' = Tail(stack) /\ reg' = [reg EXCEPT ![i.to] = Head(stack)]
          \/ i.op = "mov" /\ reg' = [reg EXCEPT ![i.to] = reg[i.from]] /\ UNCHANGED stack
          \/ i.op = "load" /\ reg' = [reg EXCEPT ![i.to] = stack[i.from + 1]] /\ UNCHANGED stack
          \/ i.op = "drop" /\ stack' = SubSeq(stack, i.from + 1, Len(stack)) /\ UNCHANGED reg
    /\ pc' = pc + 1
    /\ UNCHANGED <<user, mode, call, cs, ss>>

\* syscall_dispatch; sys_exit does not come back.
Dispatch ==
    LET num == reg["rdi"]
        args == <<reg["rsi"], reg["rdx"], reg["rcx"], reg["r8"], reg["r9"]>>
    IN /\ mode = "entry" /\ pc \in DOMAIN Code /\ Code[pc].op = "call"
       /\ call' = <<num, args>>
       /\ IF num = 2 THEN mode' = "halted" /\ UNCHANGED <<pc, reg>>
          ELSE /\ pc' = pc + 1 /\ UNCHANGED mode
               /\ reg' = [r \in Registers |->
                            CASE r = "rax" -> IF num >= SyscallMax THEN -1 ELSE Result(num, args)
                              [] r \in Scratch -> Junk
                              [] OTHER -> reg[r]]
       /\ UNCHANGED <<user, stack, cs, ss>>

\* sysretq: the processor adds 16 and 8 to the base and sets privilege 3.
Sysret ==
    /\ mode = "entry" /\ pc = Len(Code) + 1
    /\ mode' = "user"
    /\ cs' = StarUser + 16 + 3 /\ ss' = StarUser + 8 + 3
    /\ UNCHANGED <<user, reg, stack, pc, call>>

Finished == mode \in {"halted", "user"} /\ UNCHANGED vars

\* SYSCALL: rcx and r11 hold the user's instruction pointer and flags.
Init ==
    /\ \E num \in Numbers, fd \in Fds :
         reg = [r \in Registers |->
                  CASE r = "rax" -> num [] r = "rdi" -> fd [] r = "rsi" -> 102
                    [] r = "rdx" -> 103 [] r = "r10" -> 104 [] r = "r8" -> 105
                    [] r = "r9" -> 106 [] r = "rcx" -> 107 [] r = "r11" -> 108
                    [] r = "rbx" -> 109 [] r = "rbp" -> 110 [] r = "r12" -> 112
                    [] r = "r13" -> 113 [] r = "r14" -> 114 [] r = "r15" -> 115]
    /\ user = reg
    /\ stack = <<>> /\ pc = 1 /\ mode = "entry" /\ call = <<>>
    /\ cs = StarKernel /\ ss = StarKernel + 8

Next == Step \/ Dispatch \/ Sysret \/ Finished

Spec == Init /\ [][Next]_vars

-----------------------------------------------------------------------------
(***************************************************************************)
(* Properties.                                                             *)
(***************************************************************************)

\* The handler gets the arguments that user code passed: "arg1 = original
\* RDI", and so on.
ArgsDelivered ==
    call # <<>> => call = <<user["rax"], <<user["rdi"], user["rsi"], user["rdx"],
                                           user["r10"], user["r8"]>>>>

\* Back in user code the stack pointer, the registers that a call preserves,
\* the return address and the flags are what they were.
UserStateRestored ==
    mode = "user" =>
      /\ stack = <<>>
      /\ \A r \in CalleeSaved \cup {"rcx", "r11"} : reg[r] = user[r]

\* User code runs on the user segments: "User CS = 0x18 | 3 = 0x1B, User SS =
\* 0x20 | 3 = 0x23".
UserSegments == mode = "user" => cs = 27 /\ ss = 35
=============================================================================
