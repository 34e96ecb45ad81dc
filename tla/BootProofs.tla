----------------------------- MODULE BootProofs -----------------------------
(***************************************************************************)
(* Theorems about Boot, for every memory layout, every number of firmware  *)
(* events and every size of the tables.                                    *)
(***************************************************************************)
EXTENDS Boot, FiniteSetTheorems, WellFoundedInduction, TLAPS

\* The map that the buffer holds and boot_info counts is the firmware's.
Copied == words = MemoryMap /\ entries = NumDesc

InLoader == InFirmware \/ pc \in {"left", "fault"}

\* map_key is never ahead of the firmware's, and as long as it is the
\* firmware's the map fetched with it is up to date.
KeyInv ==
    /\ mapKey \in Nat /\ key \in Int /\ key <= mapKey
    /\ InLoader \/ InKernel
    /\ pc \in {"exit", "exitAgain"} /\ key = mapKey => Copied
    /\ InKernel => Copied

\* The phases of kernel_main.
LEMMA Phases ==
    /\ Len(Startup) = 10
    /\ Range(Startup) = {"gdt", "pic", "idt", "pmm", "heap", "timer", "keyboard", "process",
                         "sti", "shell"}
<1>1. Len(Startup) = 10 /\ DOMAIN Startup = 1..10
  BY DEF Startup
<1>2. Range(Startup) = {Startup[i] : i \in 1..10}
  BY <1>1 DEF Range
<1>3. 1..10 = {1, 2, 3, 4, 5, 6, 7, 8, 9, 10}
  OBVIOUS
<1>4. /\ Startup[1] = "gdt" /\ Startup[2] = "pic" /\ Startup[3] = "idt" /\ Startup[4] = "pmm"
      /\ Startup[5] = "heap" /\ Startup[6] = "timer" /\ Startup[7] = "keyboard"
      /\ Startup[8] = "process" /\ Startup[9] = "sti" /\ Startup[10] = "shell"
  BY DEF Startup
<1>5. Range(Startup) = {Startup[1], Startup[2], Startup[3], Startup[4], Startup[5],
                        Startup[6], Startup[7], Startup[8], Startup[9], Startup[10]}
  BY <1>2, <1>3
<1> QED
  BY <1>1, <1>4, <1>5

\* The map depends on the types of the pages alone.
LEMMA MapSame ==
    ASSUME types' = types
    PROVE  MemoryMap' = MemoryMap /\ NumDesc' = NumDesc
BY DEF MemoryMap, NumDesc, Starts, Length

LEMMA CopiedSame ==
    ASSUME UNCHANGED <<types, words, entries>>
    PROVE  Copied' <=> Copied
BY MapSame DEF Copied

\* The step of kernel_main from one phase to the next.
PhaseFrom(a, b) == pc = a /\ pc' = b

LEMMA PhaseStep ==
    ASSUME NEW i \in 1..(Len(Startup) - 1), KernelPhase(i)
    PROVE  \/ PhaseFrom("gdt", "pic") \/ PhaseFrom("pic", "idt") \/ PhaseFrom("idt", "pmm")
           \/ PhaseFrom("pmm", "heap") \/ PhaseFrom("heap", "timer")
           \/ PhaseFrom("timer", "keyboard") \/ PhaseFrom("keyboard", "process")
           \/ PhaseFrom("process", "sti") \/ PhaseFrom("sti", "shell")
<1>1. i \in 1..9 /\ pc = Startup[i] /\ pc' = Startup[i + 1]
  BY Phases DEF KernelPhase
<1>2. i = 1 \/ i = 2 \/ i = 3 \/ i = 4 \/ i = 5 \/ i = 6 \/ i = 7 \/ i = 8 \/ i = 9
  BY <1>1
<1>3. /\ Startup[1] = "gdt" /\ Startup[2] = "pic" /\ Startup[3] = "idt" /\ Startup[4] = "pmm"
      /\ Startup[5] = "heap" /\ Startup[6] = "timer" /\ Startup[7] = "keyboard"
      /\ Startup[8] = "process" /\ Startup[9] = "sti" /\ Startup[10] = "shell"
  BY DEF Startup
<1> QED
  BY <1>1, <1>2, <1>3 DEF PhaseFrom

\* A step that leaves the firmware's state and the loader's alone.
LEMMA KeyKept ==
    ASSUME KeyInv, UNCHANGED <<types, mapKey, key, words, entries>>,
           (InLoader \/ InKernel)', (pc' \in {"exit", "exitAgain"} => pc' = pc),
           InKernel' => InKernel
    PROVE  KeyInv'
BY CopiedSame DEF KeyInv

\* A step that changes the map makes the key stale.
LEMMA KeyStale ==
    ASSUME KeyInv, mapKey' = mapKey + 1, key' = key, InLoader'
    PROVE  KeyInv'
<1>1. key' < mapKey' /\ mapKey' \in Nat
  BY DEF KeyInv
<1>2. ~InKernel'
  BY Phases DEF InLoader, InKernel, InFirmware
<1> QED
  BY <1>1, <1>2 DEF KeyInv

LEMMA InitKey == Init => KeyInv
<1> SUFFICES ASSUME Init PROVE KeyInv
  OBVIOUS
<1>1. pc = "gather" /\ mapKey = 0 /\ key = -1
  BY DEF Init, None
<1>2. InLoader /\ ~InKernel
  BY <1>1, Phases DEF InLoader, InFirmware, InKernel
<1> QED
  BY <1>1, <1>2 DEF KeyInv

LEMMA NextKey ==
    ASSUME KeyInv, [Next]_vars
    PROVE  KeyInv'
<1> USE DEF vars, firmware, loader, machine
<1>a. ~(InLoader /\ InKernel) /\ (pc \in {"exit", "exitAgain"} => ~InKernel)
  BY Phases DEF InLoader, InKernel, InFirmware
<1>1. ASSUME NEW p \in FirmwareMay, NEW t, FirmwareEvent(p, t) PROVE KeyInv'
  BY <1>1, KeyStale DEF FirmwareEvent, InLoader, InFirmware
<1>2. CASE GatherSize \/ GatherMap \/ DrawFault \/ MenuMove(-1) \/ MenuMove(1)
           \/ MenuChoose \/ MenuLeave \/ GetMapSize \/ GetMapSizeAgain
  <2>1. UNCHANGED <<types, mapKey, key, words, entries>>
    BY <1>2 DEF GatherSize, GatherMap, DrawFault, MenuMove, MenuChoose, MenuLeave,
                GetMapSize, GetMapSizeAgain
  <2>2. pc' \in {"gatherMap", "menu", "fault", "prepare", "left", "pool", "remap"}
    BY <1>2 DEF GatherSize, GatherMap, DrawFault, MenuMove, MenuChoose, MenuLeave,
                GetMapSize, GetMapSizeAgain
  <2>3. InLoader' /\ ~InKernel'
    BY <2>2, Phases DEF InLoader, InFirmware, InKernel
  <2> QED
    BY <2>1, <2>2, <2>3, KeyKept
<1>3. CASE PrepareKernel
  <2>1. CASE Places = {} /\ pc' = "menu" /\ UNCHANGED <<firmware, kernel>>
    <3>1. UNCHANGED <<types, mapKey, key, words, entries>>
      BY <1>3, <2>1 DEF PrepareKernel
    <3>2. InLoader' /\ ~InKernel'
      BY <2>1, Phases DEF InLoader, InFirmware, InKernel
    <3> QED
      BY <2>1, <3>1, <3>2, KeyKept
  <2>2. CASE \E p \in Places : kernel' = p /\ SetTypes({p}, LoaderData) /\ pc' = "size"
    BY <1>3, <2>2, KeyStale DEF PrepareKernel, SetTypes, InLoader, InFirmware
  <2> QED
    BY <1>3, <2>1, <2>2 DEF PrepareKernel
<1>4. CASE AllocatePool
  <2>1. CASE MayFail /\ pc' = "menu" /\ UNCHANGED <<firmware, buf, cap>>
    <3>1. UNCHANGED <<types, mapKey, key, words, entries>>
      BY <1>4, <2>1 DEF AllocatePool
    <3>2. InLoader' /\ ~InKernel'
      BY <2>1, Phases DEF InLoader, InFirmware, InKernel
    <3> QED
      BY <2>1, <3>1, <3>2, KeyKept
  <2>2. CASE \E p \in FirmwareMay :
             /\ types[p] = Conventional
             /\ buf' = p /\ cap' = size /\ SetTypes({p}, LoaderData) /\ pc' = "map"
    BY <1>4, <2>2, KeyStale DEF AllocatePool, SetTypes, InLoader, InFirmware
  <2> QED
    BY <1>4, <2>1, <2>2 DEF AllocatePool
<1>5. ASSUME FillBuffer, entries' = NumDesc, pc' \in {"exit", "exitAgain"} PROVE KeyInv'
  <2>1. Copied'
    BY <1>5, MapSame DEF FillBuffer, Copied
  <2>2. mapKey' = mapKey /\ key' = mapKey
    BY <1>5 DEF FillBuffer
  <2> QED
    BY <1>5, <2>1, <2>2 DEF KeyInv, InLoader, InFirmware
<1>6. CASE GetMap
  <2>1. CASE NumDesc <= size
    BY <1>5, <1>6, <2>1 DEF GetMap
  <2>2. CASE ~(NumDesc <= size)
    BY <1>6, <2>2, KeyStale DEF GetMap, SetTypes, InLoader, InFirmware
  <2> QED
    BY <2>1, <2>2
<1>7. CASE GetMapAgain
  <2>1. CASE NumDesc <= size
    BY <1>5, <1>7, <2>1 DEF GetMapAgain
  <2>2. CASE ~(NumDesc <= size)
    <3>1. UNCHANGED <<types, mapKey, key, words, entries>> /\ pc' = "menu"
      BY <1>7, <2>2 DEF GetMapAgain
    <3>2. InLoader' /\ ~InKernel'
      BY <3>1, Phases DEF InLoader, InFirmware, InKernel
    <3> QED
      BY <3>1, <3>2, KeyKept
  <2> QED
    BY <2>1, <2>2
<1>8. CASE ExitBootServices
  <2>1. UNCHANGED <<types, mapKey, key, words, entries>> /\ pc \in {"exit", "exitAgain"}
    BY <1>8 DEF ExitBootServices
  <2>2. CASE key = mapKey
    <3>1. pc' = "start" /\ Copied'
      BY <1>8, <2>1, <2>2, CopiedSame DEF ExitBootServices, KeyInv
    <3> QED
      BY <2>1, <3>1 DEF KeyInv, InKernel
  <2>3. CASE key # mapKey
    <3>1. pc' \in {"resize", "menu"}
      BY <1>8, <2>3 DEF ExitBootServices
    <3>2. InLoader' /\ ~InKernel'
      BY <3>1, Phases DEF InLoader, InFirmware, InKernel
    <3> QED
      BY <2>1, <3>1, <3>2, KeyKept
  <2> QED
    BY <2>2, <2>3
<1>9. CASE Start
  <2>1. UNCHANGED <<types, mapKey, key, words, entries>> /\ pc = "start" /\ pc' \in {"halt", "gdt"}
    BY <1>9 DEF Start
  <2>2. InKernel /\ InKernel' /\ ~(pc' \in {"exit", "exitAgain"})
    BY <2>1, Phases DEF InKernel
  <2> QED
    BY <2>1, <2>2, KeyKept
<1>10. ASSUME NEW i \in 1..(Len(Startup) - 1), KernelPhase(i) PROVE KeyInv'
  <2>1. UNCHANGED <<types, mapKey, key, words, entries>>
    BY <1>10 DEF KernelPhase
  <2>2. InKernel /\ InKernel' /\ ~(pc' \in {"exit", "exitAgain"})
    BY <1>10, PhaseStep, Phases DEF PhaseFrom, InKernel
  <2> QED
    BY <2>1, <2>2, KeyKept
<1>11. CASE Finished \/ UNCHANGED vars
  <2>1. UNCHANGED <<pc, types, mapKey, key, words, entries>>
    BY <1>11 DEF Finished
  <2>2. (InLoader' <=> InLoader) /\ (InKernel' <=> InKernel)
    BY <2>1 DEF InLoader, InFirmware, InKernel
  <2> QED
    BY <2>1, <2>2, KeyKept DEF KeyInv
<1> QED
  BY <1>1, <1>2, <1>3, <1>4, <1>6, <1>7, <1>8, <1>9, <1>10, <1>11 DEF Next

\* The kernel is entered only with the map the firmware had when it was left,
\* however often its events change the map on the way.
THEOREM MapCorrect == Spec => []MapIsCurrent
<1>1. KeyInv => MapIsCurrent
  BY DEF KeyInv, Copied, MapIsCurrent
<1>2. KeyInv /\ [Next]_vars => KeyInv'
  BY NextKey
<1> QED
  BY <1>1, <1>2, InitKey, PTL DEF Spec

-----------------------------------------------------------------------------
(***************************************************************************)
(* The interrupt tables.                                                   *)
(***************************************************************************)

\* What the phases of kernel_main have set up, phase by phase.
GdtReady == cpu.gdt[1] = "code"

PicReady == cpu.offset = 32 /\ cpu.unmasked \subseteq {0, 1}

IdtReady == \A v \in 32..47 : cpu.idt[v].sel = 1 /\ cpu.idt[v].irq = v - 32

\* The fields the phases set.
IsCpu(c) ==
    \E f, u, o, g, d : c = [if |-> f, unmasked |-> u, offset |-> o, gdt |-> g, idt |-> d]

Later == {"pmm", "heap", "timer", "keyboard", "process", "sti", "shell"}

TablesInv ==
    /\ IsCpu(cpu)
    /\ pc # "shell" => ~cpu.if
    /\ pc \in {"pic", "idt"} \cup Later => GdtReady
    /\ pc \in {"idt"} \cup Later => PicReady
    /\ pc \in Later => IdtReady

LEMMA InitTables ==
    ASSUME ~FirmwareIf, Init
    PROVE  TablesInv
<1>1. cpu = FirmwareCpu /\ pc = "gather"
  BY DEF Init
<1>2. ~FirmwareCpu.if /\ IsCpu(FirmwareCpu)
  BY DEF FirmwareCpu, IsCpu
<1> QED
  BY <1>1, <1>2 DEF TablesInv, Later

\* The tables as kernel_main sets them up.
LEMMA GdtSet ==
    ASSUME IsCpu(cpu), cpu' = GdtInit(cpu)
    PROVE  IsCpu(cpu') /\ GdtReady' /\ cpu'.if = cpu.if
<1> DEFINE n == <<"null", "code", "data", "user code", "user data", "tss", "tss", "none">>
           h == [s \in Selectors |-> n[s + 1]]
<1>1. cpu' = [cpu EXCEPT !.gdt = h]
  BY DEF GdtInit
<1>2. h[1] = "code"
  <2>1. n[2] = "code"
    OBVIOUS
  <2> HIDE DEF n
  <2>2. 1 \in Selectors /\ 1 + 1 = 2
    BY DEF Selectors
  <2>3. h[1] = n[1 + 1]
    BY <2>2
  <2> QED
    BY <2>1, <2>2, <2>3
<1> HIDE DEF h
<1>3. PICK f, u, o, g, d : cpu = [if |-> f, unmasked |-> u, offset |-> o, gdt |-> g, idt |-> d]
  BY DEF IsCpu
<1>4. cpu' = [if |-> f, unmasked |-> u, offset |-> o, gdt |-> h, idt |-> d]
  BY <1>1, <1>3
<1>5. IsCpu(cpu')
  BY <1>4 DEF IsCpu
<1>6. cpu'.gdt = h /\ cpu'.if = cpu.if
  BY <1>3, <1>4
<1> QED
  BY <1>2, <1>5, <1>6 DEF GdtReady

LEMMA PicSet ==
    ASSUME IsCpu(cpu), cpu' = PicInit(cpu)
    PROVE  IsCpu(cpu') /\ PicReady' /\ cpu'.if = cpu.if /\ cpu'.gdt = cpu.gdt
<1>1. PICK f, u, o, g, d : cpu = [if |-> f, unmasked |-> u, offset |-> o, gdt |-> g, idt |-> d]
  BY DEF IsCpu
<1>2. cpu' = [if |-> f, unmasked |-> {}, offset |-> 32, gdt |-> g, idt |-> d]
  BY <1>1 DEF PicInit
<1>3. IsCpu(cpu')
  BY <1>2 DEF IsCpu
<1>4. cpu'.offset = 32 /\ cpu'.unmasked = {} /\ cpu'.if = cpu.if /\ cpu'.gdt = cpu.gdt
  BY <1>1, <1>2
<1> QED
  BY <1>3, <1>4 DEF PicReady

LEMMA IdtSet ==
    ASSUME IsCpu(cpu), cpu' = IdtInit(cpu)
    PROVE  /\ IsCpu(cpu') /\ IdtReady' /\ cpu'.if = cpu.if /\ cpu'.gdt = cpu.gdt
           /\ cpu'.offset = cpu.offset /\ cpu'.unmasked = cpu.unmasked
<1> DEFINE t == [v \in Vectors |->
       [sel |-> IF v \in (0..20) \ {9, 15} \/ v >= 32 THEN 1 ELSE 0,
        irq |-> IF v >= 32 THEN v - 32 ELSE None]]
<1>1. cpu' = [cpu EXCEPT !.idt = t]
  BY DEF IdtInit
<1>2. \A v \in 32..47 : t[v].sel = 1 /\ t[v].irq = v - 32
  BY DEF Vectors
<1> HIDE DEF t
<1>3. PICK f, u, o, g, d : cpu = [if |-> f, unmasked |-> u, offset |-> o, gdt |-> g, idt |-> d]
  BY DEF IsCpu
<1>4. cpu' = [if |-> f, unmasked |-> u, offset |-> o, gdt |-> g, idt |-> t]
  BY <1>1, <1>3
<1>5. IsCpu(cpu')
  BY <1>4 DEF IsCpu
<1>6. /\ cpu'.idt = t /\ cpu'.if = cpu.if /\ cpu'.gdt = cpu.gdt
      /\ cpu'.offset = cpu.offset /\ cpu'.unmasked = cpu.unmasked
  BY <1>3, <1>4
<1> QED
  BY <1>2, <1>5, <1>6 DEF IdtReady

LEMMA UnmaskSet ==
    ASSUME IsCpu(cpu), NEW n \in {0, 1}, cpu' = Unmask(cpu, n)
    PROVE  /\ IsCpu(cpu') /\ cpu'.if = cpu.if /\ cpu'.gdt = cpu.gdt /\ cpu'.idt = cpu.idt
           /\ PicReady => PicReady'
<1>1. PICK f, u, o, g, d : cpu = [if |-> f, unmasked |-> u, offset |-> o, gdt |-> g, idt |-> d]
  BY DEF IsCpu
<1>2. cpu' = [if |-> f, unmasked |-> u \cup {n}, offset |-> o, gdt |-> g, idt |-> d]
  BY <1>1 DEF Unmask
<1>3. IsCpu(cpu')
  BY <1>2 DEF IsCpu
<1>4. /\ cpu'.offset = cpu.offset /\ cpu'.unmasked = cpu.unmasked \cup {n}
      /\ cpu'.if = cpu.if /\ cpu'.gdt = cpu.gdt /\ cpu'.idt = cpu.idt
  BY <1>1, <1>2
<1> QED
  BY <1>3, <1>4 DEF PicReady

LEMMA FlagSet ==
    ASSUME IsCpu(cpu), cpu' = [cpu EXCEPT !.if = TRUE]
    PROVE  /\ IsCpu(cpu') /\ cpu'.gdt = cpu.gdt /\ cpu'.idt = cpu.idt
           /\ cpu'.offset = cpu.offset /\ cpu'.unmasked = cpu.unmasked
<1>1. PICK f, u, o, g, d : cpu = [if |-> f, unmasked |-> u, offset |-> o, gdt |-> g, idt |-> d]
  BY DEF IsCpu
<1>2. cpu' = [if |-> TRUE, unmasked |-> u, offset |-> o, gdt |-> g, idt |-> d]
  BY <1>1
<1> QED
  BY <1>1, <1>2 DEF IsCpu

LEMMA NextTables ==
    ASSUME TablesInv, [Next]_vars
    PROVE  TablesInv'
<1> USE DEF vars, firmware, loader, machine
<1>1. ASSUME cpu' = cpu, pc # "shell", pc' \notin {"pic", "idt"} \cup Later PROVE TablesInv'
  BY <1>1 DEF TablesInv, Later
<1>2. ASSUME NEW i \in 1..(Len(Startup) - 1), KernelPhase(i) PROVE TablesInv'
  <2>1. CASE PhaseFrom("gdt", "pic")
    <3>1. cpu' = GdtInit(cpu)
      BY <1>2, <2>1 DEF KernelPhase, PhaseFrom
    <3> QED
      BY <2>1, <3>1, GdtSet DEF TablesInv, PhaseFrom, Later
  <2>2. CASE PhaseFrom("pic", "idt")
    <3>1. cpu' = PicInit(cpu)
      BY <1>2, <2>2 DEF KernelPhase, PhaseFrom
    <3> QED
      BY <2>2, <3>1, PicSet DEF TablesInv, PhaseFrom, Later, GdtReady
  <2>3. CASE PhaseFrom("idt", "pmm")
    <3>1. cpu' = IdtInit(cpu)
      BY <1>2, <2>3 DEF KernelPhase, PhaseFrom
    <3> QED
      BY <2>3, <3>1, IdtSet DEF TablesInv, PhaseFrom, Later, GdtReady, PicReady
  <2>4. CASE PhaseFrom("pmm", "heap") \/ PhaseFrom("heap", "timer") \/ PhaseFrom("process", "sti")
    <3>1. cpu' = cpu
      BY <1>2, <2>4 DEF KernelPhase, PhaseFrom
    <3> QED
      BY <2>4, <3>1 DEF TablesInv, PhaseFrom, Later, GdtReady, PicReady, IdtReady
  <2>5. CASE PhaseFrom("timer", "keyboard") \/ PhaseFrom("keyboard", "process")
    <3>1. \E n \in {0, 1} : cpu' = Unmask(cpu, n)
      BY <1>2, <2>5 DEF KernelPhase, PhaseFrom
    <3> QED
      BY <2>5, <3>1, UnmaskSet DEF TablesInv, PhaseFrom, Later, GdtReady, IdtReady
  <2>6. CASE PhaseFrom("sti", "shell")
    <3>1. cpu' = [cpu EXCEPT !.if = TRUE]
      BY <1>2, <2>6 DEF KernelPhase, PhaseFrom
    <3>2. IsCpu(cpu') /\ cpu'.gdt = cpu.gdt /\ cpu'.idt = cpu.idt
          /\ cpu'.offset = cpu.offset /\ cpu'.unmasked = cpu.unmasked
      BY <3>1, FlagSet DEF TablesInv
    <3> QED
      BY <2>6, <3>2 DEF TablesInv, PhaseFrom, Later, GdtReady, PicReady, IdtReady
  <2> QED
    BY <1>2, <2>1, <2>2, <2>3, <2>4, <2>5, <2>6, PhaseStep
<1>3. ASSUME NEW p \in FirmwareMay, NEW t, FirmwareEvent(p, t) PROVE TablesInv'
  BY <1>1, <1>3 DEF FirmwareEvent, InFirmware, Later
<1>4. CASE Finished \/ UNCHANGED vars
  BY <1>4 DEF Finished, TablesInv, Later, GdtReady, PicReady, IdtReady
<1>5. CASE GatherSize \/ GatherMap \/ DrawFault \/ MenuMove(-1) \/ MenuMove(1)
           \/ MenuChoose \/ MenuLeave \/ GetMapSize \/ GetMapSizeAgain
  BY <1>1, <1>5 DEF GatherSize, GatherMap, DrawFault, MenuMove, MenuChoose, MenuLeave,
     GetMapSize, GetMapSizeAgain, Later
<1>6. CASE PrepareKernel \/ AllocatePool \/ GetMap \/ GetMapAgain \/ ExitBootServices \/ Start
  BY <1>1, <1>6 DEF PrepareKernel, AllocatePool, GetMap, GetMapAgain, ExitBootServices,
     Start, Later
<1> QED
  BY <1>2, <1>3, <1>4, <1>5, <1>6 DEF Next

\* Interrupts come on only when PIC, IDT and GDT agree on every IRQ that is
\* let through, if the firmware is left with interrupts off.
THEOREM InterruptsCorrect ==
    ASSUME ~FirmwareIf
    PROVE  Spec => []InterruptsServed
<1>1. TablesInv => InterruptsServed
  <2> SUFFICES ASSUME TablesInv, cpu.if, NEW irq \in cpu.unmasked
               PROVE  /\ cpu.idt[cpu.offset + irq].irq = irq
                      /\ cpu.gdt[cpu.idt[cpu.offset + irq].sel] = "code"
    BY DEF InterruptsServed
  <2>1. GdtReady /\ PicReady /\ IdtReady
    BY DEF TablesInv, Later
  <2>2. irq \in {0, 1} /\ cpu.offset + irq \in 32..47
    BY <2>1 DEF PicReady
  <2> QED
    BY <2>1, <2>2 DEF GdtReady, PicReady, IdtReady
<1>2. TablesInv /\ [Next]_vars => TablesInv'
  BY NextTables
<1> QED
  BY <1>1, <1>2, InitTables, PTL DEF Spec

-----------------------------------------------------------------------------
(***************************************************************************)
(* The memory map: its regions, their number and its length.               *)
(***************************************************************************)

\* Every set of naturals that is not empty has a least element.
LEMMA LeastNatural ==
    ASSUME NEW T \in SUBSET Nat, T # {}
    PROVE  \E x \in T : \A y \in T : x <= y
<1>1. PICK x \in T : \A y \in T : ~ (<<y, x>> \in OpToRel(<, Nat))
  BY NatLessThanWellFounded, WFMin
<1>2. \A y \in T : ~(y < x)
  BY <1>1 DEF OpToRel
<1> QED
  BY <1>2

PageTypes == types \in [Pages -> 0..12]

LEMMA Constants ==
    /\ NPages \in Nat \ {0} /\ Reserved \in 1..NPages /\ Pages = 0..(NPages - 1) /\ LinkPage \in Pages
    /\ BssPages \in Nat /\ DescSize \in Nat /\ DescSize >= 3 /\ Slack \in Nat /\ MaxEvents \in Nat
    /\ FirmwareMay \subseteq Pages /\ 0 \in Pages
<1>1. /\ NPages \in Nat /\ Reserved \in 1..NPages /\ LinkPage \in Pages /\ BssPages \in Nat
      /\ FirmwareMay \subseteq Pages /\ EntrySize \in 3..DescSize
      /\ Slack \in Nat /\ MaxEvents \in Nat /\ DescSize \in Nat
  BY BootAssumption
<1>2. NPages # 0 /\ 0 \in Pages
  BY <1>1 DEF Pages
<1>3. DescSize \in Nat /\ DescSize >= 3
  BY <1>1
<1> QED
  BY <1>1, <1>2, <1>3 DEF Pages

LEMMA StartsFinite ==
    /\ Starts \subseteq Pages /\ 0 \in Starts /\ IsFiniteSet(Starts) /\ NumDesc \in Nat
<1>1. Starts \subseteq Pages /\ 0 \in Starts
  BY Constants DEF Starts
<1>2. IsFiniteSet(Pages)
  BY Constants, FS_Interval
<1>3. IsFiniteSet(Starts)
  BY <1>1, <1>2, FS_Subset
<1> QED
  BY <1>1, <1>3, FS_CardinalityType DEF NumDesc

\* A region reaches up to the next one.
LEMMA LengthIs ==
    ASSUME NEW p \in Pages
    PROVE  /\ Length(p) \in 1..(NPages - p)
           /\ \A q \in p..(p + Length(p) - 1) : types[q] = types[p]
           /\ p + Length(p) \in Starts \cup {NPages}
<1>0. p \in Nat /\ p < NPages /\ NPages \in Nat /\ Starts \subseteq Nat
  BY Constants, StartsFinite
<1> DEFINE T == {x \in (p + 1)..NPages : x \in Starts \cup {NPages}}
<1>1. T \in SUBSET Nat /\ NPages \in T
  BY <1>0
<1>2. PICK e \in T : \A y \in T : e <= y
  BY <1>1, LeastNatural
<1>3. e \in Nat /\ p < e /\ e <= NPages /\ e \in Starts \cup {NPages}
  BY <1>0, <1>2
<1>4. ASSUME NEW q \in p..(e - 1), types[q] # types[p] PROVE FALSE
  <2> DEFINE B == {x \in p..(e - 1) : types[x] # types[p]}
  <2>1. B \in SUBSET Nat /\ B # {}
    BY <1>0, <1>3, <1>4
  <2>2. PICK b \in B : \A y \in B : b <= y
    BY <2>1, LeastNatural
  <2>3. b \in p..(e - 1) /\ types[b] # types[p]
    BY <2>2
  <2>4. b # p
    BY <2>3
  <2>5. b - 1 \in p..(e - 1) /\ ~(b <= b - 1) /\ b \in Nat /\ b # 0
    BY <1>0, <1>3, <2>3, <2>4
  <2>6. types[b - 1] = types[p]
    BY <2>2, <2>5
  <2>7. b \in Pages
    BY <1>0, <1>3, <2>3, Constants
  <2>8. b \in Starts
    BY <2>3, <2>6, <2>7 DEF Starts
  <2>9. b \in T /\ ~(e <= b)
    BY <1>0, <1>3, <2>3, <2>4, <2>8
  <2> QED
    BY <1>2, <2>9
<1> DEFINE OK(n) == /\ \A q \in p..(p + n - 1) : types[q] = types[p]
                    /\ p + n \in Starts \cup {NPages}
<1>5. e - p \in 1..(NPages - p) /\ p + (e - p) = e /\ p + (e - p) - 1 = e - 1
  BY <1>0, <1>3
<1>6. OK(e - p)
  BY <1>3, <1>4, <1>5
<1>7. Length(p) = CHOOSE n \in 1..(NPages - p) : OK(n)
  BY DEF Length
<1> HIDE DEF OK
<1>8. Length(p) \in 1..(NPages - p) /\ OK(Length(p))
  <2>1. \E n \in 1..(NPages - p) : OK(n)
    BY <1>5, <1>6
  <2> QED
    BY <1>7, <2>1, Zenon
<1> QED
  BY <1>8 DEF OK

\* The map as it is put together, page by page.
MapStep(f, p) ==
    IF p = -1 THEN <<>>
    ELSE IF p \notin Starts THEN f[p - 1]
    ELSE f[p - 1] \o <<types[p], p, Length(p)>> \o [i \in 1..(DescSize - 3) |-> 0]

Builds(f, n) == \A p \in -1..(n - 1) : f[p] = MapStep(f, p)

LEMMA BuildExists == \A n \in Nat : \E f : Builds(f, n)
<1> DEFINE T == {n \in Nat : ~ \E f : Builds(f, n)}
<1> SUFFICES ASSUME T # {} PROVE FALSE
  OBVIOUS
<1>1. PICK m \in T : \A y \in T : m <= y
  BY LeastNatural
<1>2. m \in Nat /\ ~ \E f : Builds(f, m)
  BY <1>1
<1>3. CASE m = 0
  <2> DEFINE g == [p \in {-1} |-> <<>>]
  <2>1. -1..(0 - 1) = {-1} /\ g[-1] = <<>>
    OBVIOUS
  <2> HIDE DEF g
  <2>2. \A p \in -1..(0 - 1) : g[p] = MapStep(g, p)
    BY <2>1 DEF MapStep
  <2>3. Builds(g, 0)
    BY <2>2 DEF Builds
  <2> QED
    BY <1>2, <1>3, <2>3
<1>4. CASE m # 0
  <2>1. m - 1 \in Nat /\ ~(m <= m - 1)
    BY <1>2, <1>4
  <2>2. PICK f : Builds(f, m - 1)
    BY <1>1, <2>1
  <2> DEFINE D == -1..(m - 1)
             g == [p \in D |-> IF p = m - 1 THEN MapStep(f, p) ELSE f[p]]
  <2>3. ASSUME NEW p \in D PROVE g[p] = MapStep(g, p)
    <3>1. p # -1 => p - 1 \in D /\ p - 1 # m - 1
      BY <1>2, <2>3
    <3>2. p # -1 => g[p - 1] = f[p - 1]
      BY <3>1
    <3>3. MapStep(g, p) = MapStep(f, p)
      <4> HIDE DEF g
      <4> QED
        BY <3>2 DEF MapStep
    <3>4. CASE p = m - 1
      BY <3>3, <3>4
    <3>5. CASE p # m - 1
      <4>1. p \in -1..((m - 1) - 1)
        BY <1>2, <3>5
      <4>2. f[p] = MapStep(f, p)
        BY <2>2, <4>1 DEF Builds
      <4> QED
        BY <3>3, <3>5, <4>2
    <3> QED
      BY <3>4, <3>5
  <2> HIDE DEF g
  <2>4. Builds(g, m)
    BY <2>3 DEF Builds
  <2> QED
    BY <1>2, <2>4
<1> QED
  BY <1>3, <1>4

LEMMA MapBuilt == \E f : Builds(f, NPages) /\ MemoryMap = f[NPages - 1]
<1> DEFINE D == -1..(NPages - 1)
           upTo[p \in D] ==
             IF p = -1 THEN <<>>
             ELSE IF p \notin Starts THEN upTo[p - 1]
             ELSE upTo[p - 1] \o <<types[p], p, Length(p)>> \o [i \in 1..(DescSize - 3) |-> 0]
<1>1. NPages \in Nat /\ NPages - 1 \in D
  BY Constants
<1>2. PICK f : Builds(f, NPages)
  BY <1>1, BuildExists
<1> DEFINE g == [p \in D |-> f[p]]
<1>3. \A p \in D : p # -1 => p - 1 \in D
  BY <1>1
<1>4. \A p \in D : g[p] = IF p = -1 THEN <<>>
             ELSE IF p \notin Starts THEN g[p - 1]
             ELSE g[p - 1] \o <<types[p], p, Length(p)>> \o [i \in 1..(DescSize - 3) |-> 0]
  <2> SUFFICES ASSUME NEW p \in D
               PROVE  g[p] = IF p = -1 THEN <<>>
                        ELSE IF p \notin Starts THEN g[p - 1]
                        ELSE g[p - 1] \o <<types[p], p, Length(p)>> \o [i \in 1..(DescSize - 3) |-> 0]
    OBVIOUS
  <2>1. g[p] = f[p] /\ (p # -1 => g[p - 1] = f[p - 1])
    BY <1>3
  <2>2. f[p] = MapStep(f, p)
    BY <1>2 DEF Builds
  <2> HIDE DEF g
  <2> QED
    BY <2>1, <2>2 DEF MapStep
<1>5. g = [p \in D |-> IF p = -1 THEN <<>>
             ELSE IF p \notin Starts THEN g[p - 1]
             ELSE g[p - 1] \o <<types[p], p, Length(p)>> \o [i \in 1..(DescSize - 3) |-> 0]]
  BY <1>4
<1> HIDE DEF g
<1>6. \E h : h = [p \in D |-> IF p = -1 THEN <<>>
             ELSE IF p \notin Starts THEN h[p - 1]
             ELSE h[p - 1] \o <<types[p], p, Length(p)>> \o [i \in 1..(DescSize - 3) |-> 0]]
  BY <1>5
<1>7. upTo = [p \in D |-> IF p = -1 THEN <<>>
             ELSE IF p \notin Starts THEN upTo[p - 1]
             ELSE upTo[p - 1] \o <<types[p], p, Length(p)>> \o [i \in 1..(DescSize - 3) |-> 0]]
  BY <1>6 DEF upTo
<1>8. MemoryMap = upTo[NPages - 1]
  BY DEF MemoryMap, upTo, D
<1> HIDE DEF upTo
<1>9. Builds(upTo, NPages)
  <2>1. \A p \in D : upTo[p] = MapStep(upTo, p)
    BY <1>7 DEF MapStep
  <2> QED
    BY <2>1 DEF Builds
<1> QED
  BY <1>8, <1>9

\* The regions that start up to a page, and the words of one in the map.
Count(p) == Cardinality({s \in Starts : s <= p})

Region(u, i, s) ==
    /\ u[i * DescSize + 1] = types[s] /\ u[i * DescSize + 2] = s
    /\ u[i * DescSize + 3] = Length(s)

Shape(u, p) ==
    /\ u \in Seq(Int) /\ Len(u) = Count(p) * DescSize
    /\ \A i \in 0..(Count(p) - 1) : \E s \in Starts : s <= p /\ Region(u, i, s)
    /\ \A s \in Starts : s <= p => \E i \in 0..(Count(p) - 1) : Region(u, i, s)

LEMMA CountStep ==
    /\ Count(-1) = 0 /\ Count(NPages - 1) = NumDesc
    /\ \A p \in -1..(NPages - 1) : Count(p) \in Nat
    /\ \A p \in Pages : Count(p) = Count(p - 1) + IF p \in Starts THEN 1 ELSE 0
<1> DEFINE C(p) == {s \in Starts : s <= p}
<1>1. Starts \subseteq Nat /\ IsFiniteSet(Starts) /\ Starts \subseteq 0..(NPages - 1)
      /\ NPages \in Nat /\ Pages = 0..(NPages - 1)
  BY StartsFinite, Constants
<1>2. C(-1) = {} /\ C(NPages - 1) = Starts
  <2>1. \A s \in Starts : ~(s <= -1) /\ s <= NPages - 1
    BY <1>1
  <2> QED
    BY <2>1
<1>3. \A p \in -1..(NPages - 1) : IsFiniteSet(C(p)) /\ Count(p) \in Nat
  <2>1. ASSUME NEW p \in -1..(NPages - 1) PROVE IsFiniteSet(C(p)) /\ Cardinality(C(p)) \in Nat
    <3>1. C(p) \subseteq Starts
      OBVIOUS
    <3> HIDE DEF C
    <3>2. IsFiniteSet(C(p))
      BY <1>1, <3>1, FS_Subset
    <3> QED
      BY <3>2, FS_CardinalityType
  <2> QED
    BY <2>1 DEF Count
<1>4. ASSUME NEW p \in Pages PROVE Count(p) = Count(p - 1) + IF p \in Starts THEN 1 ELSE 0
  <2>1. p - 1 \in -1..(NPages - 1) /\ p \notin C(p - 1)
    BY <1>1
  <2>2. CASE p \in Starts
    <3>1. C(p) = C(p - 1) \cup {p}
      <4>1. \A s \in Starts : s <= p <=> (s <= p - 1 \/ s = p)
        BY <1>1
      <4> QED
        BY <2>2, <4>1
    <3>2. IsFiniteSet(C(p - 1))
      BY <1>3, <2>1
    <3> HIDE DEF C
    <3>3. Cardinality(C(p - 1) \cup {p}) = Cardinality(C(p - 1)) + 1
      BY <2>1, <3>2, FS_AddElement
    <3> QED
      BY <2>2, <3>1, <3>3 DEF Count, C
  <2>3. CASE p \notin Starts
    <3>1. C(p) = C(p - 1)
      <4>1. \A s \in Starts : s # p => (s <= p <=> s <= p - 1)
        BY <1>1
      <4> QED
        BY <2>3, <4>1
    <3>2. Count(p - 1) \in Nat /\ Count(p) = Count(p - 1)
      BY <1>3, <2>1, <3>1 DEF Count
    <3> QED
      BY <2>3, <3>2
  <2> QED
    BY <2>2, <2>3
<1>5. Count(-1) = 0 /\ Count(NPages - 1) = NumDesc
  BY <1>2, FS_EmptySet DEF Count, NumDesc
<1> QED
  BY <1>3, <1>4, <1>5

LEMMA Concatenated ==
    ASSUME NEW S, NEW s \in Seq(S), NEW t \in Seq(S)
    PROVE  /\ s \o t \in Seq(S) /\ Len(s \o t) = Len(s) + Len(t)
           /\ \A i \in 1..Len(s) : (s \o t)[i] = s[i]
           /\ \A i \in 1..Len(t) : (s \o t)[Len(s) + i] = t[i]
OBVIOUS

LEMMA BlockAdded ==
    ASSUME NEW u \in Seq(Int), NEW a \in Int, NEW b \in Int, NEW c \in Int, NEW n \in Nat
    PROVE  LET v == u \o <<a, b, c>> \o [i \in 1..n |-> 0]
           IN /\ v \in Seq(Int) /\ Len(v) = Len(u) + (3 + n)
              /\ \A i \in 1..Len(u) : v[i] = u[i]
              /\ v[Len(u) + 1] = a /\ v[Len(u) + 2] = b /\ v[Len(u) + 3] = c
<1> DEFINE t == <<a, b, c>>
           z == [i \in 1..n |-> 0]
           x == u \o t
<1>1. t \in Seq(Int) /\ Len(t) = 3 /\ t[1] = a /\ t[2] = b /\ t[3] = c /\ Len(u) \in Nat
  OBVIOUS
<1>2. z \in Seq(Int) /\ Len(z) = n
  OBVIOUS
<1> HIDE DEF t, z
<1>3. /\ x \in Seq(Int) /\ Len(x) = Len(u) + Len(t)
      /\ \A i \in 1..Len(u) : x[i] = u[i]
      /\ \A i \in 1..Len(t) : x[Len(u) + i] = t[i]
  <2>1. t \in Seq(Int)
    BY <1>1
  <2> QED
    BY <2>1, Concatenated
<1>4. Len(x) = Len(u) + 3 /\ \A i \in 1..3 : x[Len(u) + i] = t[i]
  BY <1>1, <1>3
<1> HIDE DEF x
<1>5. /\ x \o z \in Seq(Int) /\ Len(x \o z) = Len(x) + n
      /\ \A i \in 1..Len(x) : (x \o z)[i] = x[i]
  <2>1. z \in Seq(Int) /\ x \in Seq(Int)
    BY <1>2, <1>3
  <2>2. /\ x \o z \in Seq(Int) /\ Len(x \o z) = Len(x) + Len(z)
        /\ \A i \in 1..Len(x) : (x \o z)[i] = x[i]
    BY <2>1, Concatenated
  <2> QED
    BY <1>2, <2>2
<1> DEFINE v == x \o z
<1> HIDE DEF v
<1>6. v \in Seq(Int) /\ Len(v) = Len(u) + (3 + n)
  BY <1>1, <1>4, <1>5 DEF v
<1>7. \A i \in 1..Len(u) : v[i] = u[i]
  <2>1. \A i \in 1..Len(u) : i \in 1..Len(x)
    BY <1>1, <1>4
  <2> QED
    BY <1>3, <1>5, <2>1 DEF v
<1>8. v[Len(u) + 1] = a /\ v[Len(u) + 2] = b /\ v[Len(u) + 3] = c
  <2>1. \A i \in 1..3 : Len(u) + i \in 1..Len(x)
    BY <1>1, <1>4
  <2>2. \A i \in 1..3 : v[Len(u) + i] = t[i]
    BY <1>4, <1>5, <2>1 DEF v
  <2> QED
    BY <1>1, <2>2
<1> QED
  BY <1>6, <1>7, <1>8 DEF v, x, t, z

LEMMA Products ==
    ASSUME NEW d \in Nat, d >= 3
    PROVE  /\ 0 * d = 0 /\ \A n \in Nat : n * d \in Nat /\ (n + 1) * d = n * d + d
           /\ \A i, n \in Nat : i < n => i * d + d <= n * d
           /\ \A i, n \in Nat : i <= n => i * d <= n * d
<1>1. \A n \in Nat : n * d \in Nat /\ (n + 1) * d = n * d + d
  BY Z3
<1>2. \A k, i \in Nat : (i + k) * d = i * d + k * d /\ k * d \in Nat /\ i * d \in Nat
  BY Z3
<1>3. ASSUME NEW i \in Nat, NEW n \in Nat, i <= n PROVE i * d <= n * d
  <2>1. n - i \in Nat /\ i + (n - i) = n
    BY <1>3
  <2>2. (i + (n - i)) * d = i * d + (n - i) * d /\ (n - i) * d \in Nat /\ i * d \in Nat
    BY <1>2, <2>1
  <2> QED
    BY <2>1, <2>2
<1>4. ASSUME NEW i \in Nat, NEW n \in Nat, i < n PROVE i * d + d <= n * d
  <2>1. i + 1 \in Nat /\ i + 1 <= n
    BY <1>4
  <2>2. (i + 1) * d <= n * d
    BY <1>3, <2>1
  <2> QED
    BY <1>1, <2>2
<1>5. 0 * d = 0
  BY Z3
<1> QED
  BY <1>1, <1>3, <1>4, <1>5

LEMMA ShapeStep ==
    ASSUME PageTypes, NEW p \in Pages, p \in Starts, NEW u, Shape(u, p - 1)
    PROVE  Shape(u \o <<types[p], p, Length(p)>> \o [i \in 1..(DescSize - 3) |-> 0], p)
<1> DEFINE v == u \o <<types[p], p, Length(p)>> \o [i \in 1..(DescSize - 3) |-> 0]
           D == DescSize
           n == Count(p - 1)
<1>1. /\ n \in Nat /\ Count(p) = n + 1 /\ D \in Nat /\ D >= 3 /\ DescSize - 3 \in Nat /\ p \in Nat
      /\ Starts \subseteq Nat
  <2>1. p - 1 \in -1..(NPages - 1) /\ p \in Nat /\ Starts \subseteq Nat
    BY Constants, StartsFinite
  <2> QED
    BY <2>1, Constants, CountStep
<1>2. types[p] \in Int /\ p \in Int /\ Length(p) \in Int
  <2>1. types[p] \in 0..12
    BY DEF PageTypes
  <2>2. Length(p) \in 1..(NPages - p)
    BY LengthIs
  <2> QED
    BY <1>1, <2>1, <2>2, Constants
<1>3. /\ u \in Seq(Int) /\ Len(u) = n * D
      /\ \A i \in 0..(n - 1) : \E s \in Starts : s <= p - 1 /\ Region(u, i, s)
      /\ \A s \in Starts : s <= p - 1 => \E i \in 0..(n - 1) : Region(u, i, s)
  BY DEF Shape
<1>4. /\ v \in Seq(Int) /\ Len(v) = Len(u) + (3 + (DescSize - 3))
      /\ \A i \in 1..Len(u) : v[i] = u[i]
      /\ v[Len(u) + 1] = types[p] /\ v[Len(u) + 2] = p /\ v[Len(u) + 3] = Length(p)
  <2>1. u \in Seq(Int)
    BY <1>3
  <2> QED
    BY <1>1, <1>2, <2>1, BlockAdded
<1>5. /\ n * D \in Nat /\ (n + 1) * D = n * D + D
      /\ \A i \in 0..(n - 1) : i * D \in Nat /\ i * D + D <= n * D
  <2>1. \A i \in 0..(n - 1) : i \in Nat /\ i < n
    BY <1>1
  <2> QED
    BY <1>1, <2>1, Products
<1> HIDE DEF v, n
<1>6. Len(v) = Count(p) * D
  <2>1. Len(v) = n * D + (3 + (D - 3))
    BY <1>3, <1>4
  <2>2. 3 + (D - 3) = D
    BY <1>1
  <2> QED
    BY <1>1, <1>5, <2>1, <2>2
<1>7. Region(v, n, p)
  BY <1>3, <1>4 DEF Region
<1>8. ASSUME NEW i \in 0..(n - 1), NEW s, Region(u, i, s) PROVE Region(v, i, s)
  <2>1. /\ i * D + 1 \in 1..Len(u) /\ i * D + 2 \in 1..Len(u) /\ i * D + 3 \in 1..Len(u)
    <3>1. \A x, y, d \in Nat : x + d <= y /\ d >= 3 => {x + 1, x + 2, x + 3} \subseteq 1..y
      OBVIOUS
    <3>2. i * D \in Nat /\ n * D \in Nat /\ i * D + D <= n * D
      BY <1>5
    <3>3. {i * D + 1, i * D + 2, i * D + 3} \subseteq 1..(n * D)
      BY <1>1, <3>1, <3>2
    <3> QED
      BY <1>3, <3>3
  <2> QED
    BY <1>4, <1>8, <2>1 DEF Region
<1>9. ASSUME NEW i \in 0..(Count(p) - 1) PROVE \E s \in Starts : s <= p /\ Region(v, i, s)
  <2>1. i = n \/ i \in 0..(n - 1)
    BY <1>1
  <2>2. CASE i = n
    BY <1>1, <1>7, <2>2
  <2>3. CASE i \in 0..(n - 1)
    <3>1. PICK s \in Starts : s <= p - 1 /\ Region(u, i, s)
      BY <1>3, <2>3
    <3>2. s <= p
      BY <1>1, <3>1
    <3> QED
      BY <1>8, <2>3, <3>1, <3>2
  <2> QED
    BY <2>1, <2>2, <2>3
<1>10. ASSUME NEW s \in Starts, s <= p PROVE \E i \in 0..(Count(p) - 1) : Region(v, i, s)
  <2>1. CASE s = p
    <3>1. n \in 0..(Count(p) - 1)
      BY <1>1
    <3> QED
      BY <1>7, <2>1, <3>1
  <2>2. CASE s # p
    <3>1. s <= p - 1
      BY <1>1, <1>10, <2>2
    <3>2. PICK i \in 0..(n - 1) : Region(u, i, s)
      BY <1>3, <3>1
    <3>3. i \in 0..(Count(p) - 1)
      BY <1>1
    <3> QED
      BY <1>8, <3>2, <3>3
  <2> QED
    BY <2>1, <2>2
<1>11. Shape(v, p)
  BY <1>4, <1>6, <1>9, <1>10 DEF Shape
<1> QED
  BY <1>11 DEF v

\* The map has an entry for every region, and only those.
LEMMA MapShape ==
    ASSUME PageTypes
    PROVE  Shape(MemoryMap, NPages - 1)
<1>1. PICK f : Builds(f, NPages) /\ MemoryMap = f[NPages - 1]
  BY MapBuilt
<1>2. NPages \in Nat \ {0} /\ Pages = 0..(NPages - 1) /\ DescSize \in Nat /\ DescSize >= 3
  BY Constants
<1>3. \A p \in -1..(NPages - 1) : f[p] = MapStep(f, p)
  BY <1>1 DEF Builds
<1> DEFINE T == {n \in 0..NPages : ~Shape(f[n - 1], n - 1)}
<1>4. ASSUME T # {} PROVE FALSE
  <2>1. T \in SUBSET Nat
    BY <1>2
  <2>2. PICK m \in T : \A y \in T : m <= y
    BY <1>4, <2>1, LeastNatural
  <2>3. m \in 0..NPages /\ ~Shape(f[m - 1], m - 1)
    BY <2>2
  <2>4. CASE m = 0
    <3>1. f[-1] = <<>> /\ m - 1 = -1
      <4>1. -1 \in -1..(NPages - 1) /\ m - 1 = -1
        BY <1>2, <2>4
      <4>2. f[-1] = MapStep(f, -1)
        BY <1>3, <4>1
      <4> QED
        BY <4>1, <4>2 DEF MapStep
    <3>2. Count(-1) = 0 /\ 0 * DescSize = 0 /\ \A s \in Starts : ~(s <= -1)
      <4>1. Starts \subseteq Nat
        BY StartsFinite, Constants
      <4> QED
        BY <1>2, <4>1, CountStep, Products
    <3>3. <<>> \in Seq(Int) /\ Len(<<>>) = 0
      OBVIOUS
    <3>4. Shape(<<>>, -1)
      BY <3>2, <3>3 DEF Shape
    <3> QED
      BY <2>3, <3>1, <3>4
  <2>5. CASE m # 0
    <3> DEFINE p == m - 1
    <3>1. p \in Pages /\ p \in -1..(NPages - 1) /\ p # -1 /\ m - 1 \in 0..NPages /\ ~(m <= m - 1)
      BY <1>2, <2>3, <2>5
    <3>2. Shape(f[p - 1], p - 1)
      BY <2>2, <3>1
    <3>3. f[p] = MapStep(f, p)
      BY <1>3, <3>1
    <3>4. ~Shape(f[p], p)
      BY <2>3
    <3> HIDE DEF p
    <3>5. CASE p \in Starts
      <4>1. f[p] = f[p - 1] \o <<types[p], p, Length(p)>> \o [i \in 1..(DescSize - 3) |-> 0]
        BY <3>1, <3>3, <3>5 DEF MapStep
      <4>2. Shape(f[p - 1] \o <<types[p], p, Length(p)>> \o [i \in 1..(DescSize - 3) |-> 0], p)
        BY <3>1, <3>2, <3>5, ShapeStep
      <4> QED
        BY <3>4, <4>1, <4>2
    <3>6. CASE p \notin Starts
      <4>1. f[p] = f[p - 1]
        BY <3>1, <3>3, <3>6 DEF MapStep
      <4>2. Count(p) = Count(p - 1)
        <5>1. p - 1 \in -1..(NPages - 1)
          BY <1>2, <3>1
        <5>2. Count(p - 1) \in Nat
          BY <5>1, CountStep
        <5> QED
          BY <3>1, <3>6, <5>2, CountStep
      <4>3. \A s \in Starts : s <= p <=> s <= p - 1
        <5>1. \A s \in Starts : s \in Nat /\ s # p
          BY <3>6, StartsFinite, Constants
        <5>2. p \in Int
          BY <1>2, <3>1
        <5> QED
          BY <5>1, <5>2
      <4> QED
        BY <3>2, <3>4, <4>1, <4>2, <4>3 DEF Shape
    <3> QED
      BY <3>5, <3>6
  <2> QED
    BY <2>4, <2>5
<1>5. Shape(f[NPages - 1], NPages - 1)
  <2>1. NPages \in 0..NPages
    BY <1>2
  <2> QED
    BY <1>4, <2>1
<1> QED
  BY <1>1, <1>5

LEMMA MapLength ==
    ASSUME PageTypes
    PROVE  MemoryMap \in Seq(Int) /\ Len(MemoryMap) = NumDesc * DescSize
BY MapShape, CountStep DEF Shape

-----------------------------------------------------------------------------
(***************************************************************************)
(* The buffer for the map.                                                 *)
(***************************************************************************)

\* A page that changes its type splits at most two regions.
LEMMA MapGrows ==
    ASSUME NEW p \in Int, \A q \in Pages : q # p => types'[q] = types[q]
    PROVE  NumDesc' \in Nat /\ NumDesc' <= NumDesc + 2
<1> DEFINE A == Starts \cup {p}
           B == A \cup {p + 1}
<1>1. Starts' \subseteq B
  <2> SUFFICES ASSUME NEW q \in Starts', q # p, q # p + 1 PROVE q \in Starts
    OBVIOUS
  <2>1. q \in Pages /\ (q = 0 \/ types'[q] # types'[q - 1])
    BY DEF Starts
  <2>2. CASE q = 0
    BY <2>2, StartsFinite
  <2>3. CASE q # 0
    <3>1. q - 1 \in Pages /\ q - 1 # p
      BY <2>1, <2>3, Constants
    <3> QED
      BY <2>1, <2>3, <3>1 DEF Starts
  <2> QED
    BY <2>2, <2>3
<1>2. IsFiniteSet(Starts) /\ NumDesc \in Nat
  BY StartsFinite
<1>3. IsFiniteSet(A) /\ Cardinality(A) \in Nat /\ Cardinality(A) <= NumDesc + 1
  <2>1. IsFiniteSet(A) /\ (Cardinality(A) = Cardinality(Starts) \/ Cardinality(A) = Cardinality(Starts) + 1)
    BY <1>2, FS_AddElement
  <2> QED
    BY <1>2, <2>1 DEF NumDesc
<1> HIDE DEF A
<1>4. IsFiniteSet(B) /\ Cardinality(B) \in Nat /\ Cardinality(B) <= NumDesc + 2
  <2>1. IsFiniteSet(B) /\ (Cardinality(B) = Cardinality(A) \/ Cardinality(B) = Cardinality(A) + 1)
    BY <1>3, FS_AddElement
  <2> QED
    BY <1>2, <1>3, <2>1
<1> HIDE DEF B
<1>5. IsFiniteSet(Starts') /\ Cardinality(Starts') \in Nat /\ Cardinality(Starts') <= Cardinality(B)
  <2>1. IsFiniteSet(Starts') /\ Cardinality(Starts') <= Cardinality(B)
    BY <1>1, <1>4, FS_Subset
  <2> QED
    BY <2>1, FS_CardinalityType
<1> QED
  BY <1>2, <1>4, <1>5 DEF NumDesc

\* What the firmware keeps of the pages and the loader of its buffer.
BufferTypes ==
    /\ PageTypes /\ events \in 0..MaxEvents /\ size \in Nat /\ cap \in Nat
    /\ buf \in FirmwareMay \cup {None}

LEMMA SetTypesIs ==
    ASSUME PageTypes, NEW P, NEW t \in {LoaderData, Conventional}, SetTypes(P, t)
    PROVE  PageTypes' /\ events' = events /\ \A q \in Pages : q \notin P => types'[q] = types[q]
<1>1. t \in 0..12
  BY DEF LoaderData, Conventional
<1>2. types' = [p \in Pages |-> IF p \in P THEN t ELSE types[p]] /\ events' = events
  BY DEF SetTypes
<1> QED
  BY <1>1, <1>2 DEF PageTypes

LEMMA EventIs ==
    ASSUME PageTypes, NEW p \in FirmwareMay, NEW t \in {Conventional, BootData, RuntimeData},
           FirmwareEvent(p, t)
    PROVE  /\ PageTypes' /\ events' = events + 1 /\ events < MaxEvents /\ pc' = pc
           /\ \A q \in Pages : q # p => types'[q] = types[q]
           /\ UNCHANGED <<kernel, buf, cap, size, words, stores>>
<1>1. t \in 0..12 /\ p \in Pages
  BY Constants DEF BootData, RuntimeData, Conventional
<1>2. /\ types' = [types EXCEPT ![p] = t] /\ events' = events + 1 /\ events < MaxEvents /\ pc' = pc
      /\ UNCHANGED <<kernel, buf, cap, size, words, stores>>
  BY DEF FirmwareEvent, loader, machine
<1> QED
  BY <1>1, <1>2 DEF PageTypes

LEMMA NextBuffers ==
    ASSUME BufferTypes, [Next]_vars
    PROVE  BufferTypes'
<1> USE DEF vars, firmware, loader, machine
<1>0. /\ PageTypes /\ events \in 0..MaxEvents /\ size \in Nat /\ cap \in Nat
      /\ buf \in FirmwareMay \cup {None} /\ NumDesc \in Nat /\ MaxEvents \in Nat
      /\ NumDesc + Slack \in Nat /\ NumDesc + GatherSlack \in Nat
  BY StartsFinite, Constants, BootAssumption DEF BufferTypes
<1>1. ASSUME NEW p \in FirmwareMay, NEW t \in {Conventional, BootData, RuntimeData}, FirmwareEvent(p, t)
      PROVE  BufferTypes'
  <2>1. PageTypes' /\ events' = events + 1 /\ events < MaxEvents /\ UNCHANGED <<buf, cap, size>>
    BY <1>0, <1>1, EventIs
  <2>2. events' \in 0..MaxEvents
    BY <1>0, <2>1
  <2> QED
    BY <1>0, <2>1, <2>2 DEF BufferTypes
<1>2. CASE UNCHANGED <<types, events, buf, cap>> /\ size' \in Nat
  BY <1>0, <1>2 DEF BufferTypes, PageTypes
<1>3. CASE PrepareKernel
  <2>1. CASE UNCHANGED firmware
    BY <1>2, <1>3, <1>0, <2>1 DEF PrepareKernel
  <2>2. ASSUME NEW p, SetTypes({p}, LoaderData) PROVE BufferTypes'
    <3>1. PageTypes' /\ events' = events
      BY <1>0, <2>2, SetTypesIs
    <3>2. UNCHANGED <<buf, cap, size>>
      BY <1>3 DEF PrepareKernel
    <3> QED
      BY <1>0, <3>1, <3>2 DEF BufferTypes
  <2> QED
    BY <1>3, <2>1, <2>2 DEF PrepareKernel
<1>4. CASE AllocatePool
  <2>1. CASE UNCHANGED <<firmware, buf, cap>>
    BY <1>0, <1>2, <1>4, <2>1 DEF AllocatePool
  <2>2. ASSUME NEW p \in FirmwareMay, buf' = p, cap' = size, SetTypes({p}, LoaderData) PROVE BufferTypes'
    <3>1. PageTypes' /\ events' = events
      BY <1>0, <2>2, SetTypesIs
    <3>2. size' = size
      BY <1>4 DEF AllocatePool
    <3> QED
      BY <1>0, <2>2, <3>1, <3>2 DEF BufferTypes
  <2> QED
    BY <1>4, <2>1, <2>2 DEF AllocatePool
<1>5. CASE GetMap
  <2>1. CASE NumDesc <= size
    BY <1>0, <1>2, <1>5, <2>1 DEF GetMap, FillBuffer
  <2>2. CASE ~(NumDesc <= size)
    <3>1. SetTypes({buf}, Conventional) /\ buf' = None /\ UNCHANGED <<size, cap>>
      BY <1>5, <2>2 DEF GetMap
    <3>2. PageTypes' /\ events' = events
      BY <1>0, <3>1, SetTypesIs
    <3> QED
      BY <1>0, <3>1, <3>2 DEF BufferTypes
  <2> QED
    BY <2>1, <2>2
<1>6. CASE GetMapAgain
  BY <1>0, <1>2, <1>6 DEF GetMapAgain, FillBuffer
<1>7. CASE GatherSize \/ GetMapSize \/ GetMapSizeAgain
  BY <1>0, <1>2, <1>7 DEF GatherSize, GetMapSize, GetMapSizeAgain, SizeWanted
<1>8. CASE UNCHANGED <<types, events, buf, cap, size>>
  BY <1>0, <1>2, <1>8
<1>9. ASSUME NEW i, KernelPhase(i) PROVE BufferTypes'
  BY <1>8, <1>9 DEF KernelPhase
<1> QED
  BY <1>1, <1>3, <1>4, <1>5, <1>6, <1>7, <1>8, <1>9
  DEF Next, GatherMap, DrawFault, MenuMove, MenuChoose, MenuLeave, ExitBootServices, Start, Finished

LEMMA InitBuffers == Init => BufferTypes
<1> SUFFICES ASSUME Init PROVE BufferTypes
  OBVIOUS
<1>1. InitTypes \in [Pages -> 0..12] /\ MaxEvents \in Nat
  BY BootAssumption, Constants
<1>2. types = InitTypes /\ events = 0 /\ size = 0 /\ cap = 0 /\ buf = None
  BY DEF Init
<1> QED
  BY <1>1, <1>2 DEF BufferTypes, PageTypes

\* Until the second fetch the firmware's map has outgrown the size the buffer
\* was allocated for by at most two entries for each event, and two for the
\* buffer itself.
Held == {"map", "exit", "resize", "remap", "exitAgain"}

RoomInv ==
    /\ 2 * events + 2 <= Slack => Len(words) <= cap * DescSize
    /\ pc = "pool" => NumDesc + Slack <= size + 2 * events
    /\ pc \in Held => NumDesc + Slack <= cap + (2 * events + 2)
    /\ pc = "map" => size = cap

\* A step that keeps the map and the buffer.
LEMMA RoomKept ==
    ASSUME RoomInv, UNCHANGED <<types, events, cap, words>>,
           pc' # "pool" \/ (pc' = pc /\ size' = size), pc' \in Held => pc \in Held,
           pc' # "map" \/ (pc' = pc /\ size' = size)
    PROVE  RoomInv'
BY MapSame DEF RoomInv

\* A map that fits the buffer is written to it.
LEMMA RoomFilled ==
    ASSUME BufferTypes, RoomInv, FillBuffer, cap' = cap, pc \in Held, pc' \in {"exit", "exitAgain"},
           2 * events + 2 <= Slack => NumDesc <= cap
    PROVE  RoomInv'
<1>1. words' = MemoryMap /\ types' = types /\ events' = events
  BY DEF FillBuffer
<1>2. Len(MemoryMap) = NumDesc * DescSize /\ NumDesc' = NumDesc
  BY <1>1, MapLength, MapSame DEF BufferTypes
<1>3. NumDesc \in Nat /\ cap \in Nat /\ DescSize \in Nat /\ DescSize >= 3
  BY Constants, StartsFinite DEF BufferTypes
<1>4. NumDesc <= cap => NumDesc * DescSize <= cap * DescSize
  BY <1>3, Products
<1>5. NumDesc + Slack <= cap + (2 * events + 2)
  BY DEF RoomInv
<1> QED
  BY <1>1, <1>2, <1>4, <1>5 DEF RoomInv

LEMMA RoomArithmetic ==
    ASSUME NEW n \in Nat, NEW m \in Nat, NEW s \in Nat, NEW c \in Nat, NEW e \in Nat, m <= n + 2
    PROVE  /\ n + s <= c + 2 * e => m + s <= c + 2 * (e + 1) /\ m + s <= c + (2 * e + 2)
           /\ n + s <= c + (2 * e + 2) => m + s <= c + (2 * (e + 1) + 2)
OBVIOUS

LEMMA NextRoom ==
    ASSUME BufferTypes, RoomInv, [Next]_vars
    PROVE  RoomInv'
<1> USE DEF vars, firmware, loader, machine
<1>0. /\ PageTypes /\ events \in Nat /\ size \in Nat /\ cap \in Nat /\ NumDesc \in Nat /\ Slack \in Nat
      /\ DescSize \in Nat /\ DescSize >= 3
  BY StartsFinite, Constants DEF BufferTypes
<1>1. ASSUME NEW p \in FirmwareMay, NEW t \in {Conventional, BootData, RuntimeData}, FirmwareEvent(p, t)
      PROVE  RoomInv'
  <2>1. /\ events' = events + 1 /\ UNCHANGED <<pc, cap, size, words>>
        /\ \A q \in Pages : q # p => types'[q] = types[q]
    BY <1>0, <1>1, EventIs
  <2>2. NumDesc' \in Nat /\ NumDesc' <= NumDesc + 2
    <3>1. p \in Int
      BY Constants
    <3> QED
      BY <2>1, <3>1, MapGrows
  <2>3. 2 * events' + 2 <= Slack => 2 * events + 2 <= Slack
    BY <1>0, <2>1
  <2>4. pc = "pool" => NumDesc' + Slack <= size + 2 * events'
    <3>1. pc = "pool" => NumDesc + Slack <= size + 2 * events
      BY DEF RoomInv
    <3> QED
      BY <1>0, <2>1, <2>2, <3>1, RoomArithmetic
  <2>5. pc \in Held => NumDesc' + Slack <= cap + (2 * events' + 2)
    <3>1. pc \in Held => NumDesc + Slack <= cap + (2 * events + 2)
      BY DEF RoomInv
    <3> QED
      BY <1>0, <2>1, <2>2, <3>1, RoomArithmetic
  <2> QED
    BY <2>1, <2>3, <2>4, <2>5 DEF RoomInv
<1>2. CASE GatherSize \/ GatherMap \/ DrawFault \/ MenuMove(-1) \/ MenuMove(1)
           \/ MenuChoose \/ MenuLeave \/ GetMapSizeAgain \/ ExitBootServices \/ Start
  <2>1. UNCHANGED <<types, events, cap, words>>
    BY <1>2 DEF GatherSize, GatherMap, DrawFault, MenuMove, MenuChoose, MenuLeave,
                GetMapSizeAgain, ExitBootServices, Start
  <2>2. pc' # "pool" /\ pc' # "map" /\ (pc' \in Held => pc \in Held)
    BY <1>2 DEF GatherSize, GatherMap, DrawFault, MenuMove, MenuChoose, MenuLeave,
                GetMapSizeAgain, ExitBootServices, Start, Held
  <2> QED
    BY <2>1, <2>2, RoomKept
<1>3. CASE PrepareKernel
  <2>1. pc' \in {"menu", "size"} /\ UNCHANGED <<cap, words>> /\ events' = events
    BY <1>3 DEF PrepareKernel, SetTypes
  <2> QED
    BY <2>1 DEF RoomInv, Held
<1>4. CASE GetMapSize
  <2>1. size' = NumDesc + Slack /\ pc' = "pool" /\ UNCHANGED <<types, events, cap, words>>
    BY <1>4 DEF GetMapSize, SizeWanted
  <2>2. NumDesc' = NumDesc
    BY <2>1, MapSame
  <2>3. NumDesc' + Slack <= size' + 2 * events'
    BY <1>0, <2>1, <2>2
  <2> QED
    BY <2>1, <2>3 DEF RoomInv, Held
<1>5. CASE AllocatePool
  <2>1. CASE pc' = "menu" /\ UNCHANGED <<firmware, buf, cap, words>>
    BY <2>1, RoomKept DEF Held
  <2>2. ASSUME NEW p \in FirmwareMay, cap' = size, words' = <<>>, SetTypes({p}, LoaderData), pc' = "map"
        PROVE  RoomInv'
    <3>1. /\ events' = events /\ \A q \in Pages : q # p => types'[q] = types[q]
      BY <1>0, <2>2, SetTypesIs
    <3>2. NumDesc' \in Nat /\ NumDesc' <= NumDesc + 2
      <4>1. p \in Int
        BY Constants
      <4> QED
        BY <3>1, <4>1, MapGrows
    <3>3. NumDesc + Slack <= size + 2 * events /\ size' = size
      BY <1>5 DEF AllocatePool, RoomInv
    <3>4. NumDesc' + Slack <= cap' + (2 * events' + 2)
      BY <1>0, <2>2, <3>1, <3>2, <3>3, RoomArithmetic
    <3>5. Len(words') <= cap' * DescSize
      <4>1. size * DescSize \in Nat /\ Len(<<>>) = 0
        BY <1>0, Products
      <4> QED
        BY <2>2, <4>1
    <3> QED
      BY <2>2, <3>3, <3>4, <3>5 DEF RoomInv
  <2> QED
    BY <1>5, <2>1, <2>2 DEF AllocatePool
<1>6. CASE GetMap
  <2>1. CASE NumDesc <= size
    <3>1. FillBuffer /\ cap' = cap /\ pc = "map" /\ pc' = "exit"
      BY <1>6, <2>1 DEF GetMap
    <3>2. NumDesc <= cap /\ pc \in Held
      BY <2>1, <3>1 DEF RoomInv, Held
    <3> QED
      BY <3>1, <3>2, RoomFilled
  <2>2. CASE ~(NumDesc <= size)
    <3>1. pc' = "menu" /\ UNCHANGED <<cap, words>> /\ events' = events
      BY <1>6, <2>2 DEF GetMap, SetTypes
    <3> QED
      BY <3>1 DEF RoomInv, Held
  <2> QED
    BY <2>1, <2>2
<1>7. CASE GetMapAgain
  <2>1. CASE NumDesc <= size
    <3>1. FillBuffer /\ cap' = cap /\ pc = "remap" /\ pc' = "exitAgain"
      BY <1>7, <2>1 DEF GetMapAgain
    <3>2. pc \in Held /\ NumDesc + Slack <= cap + (2 * events + 2)
      BY <3>1 DEF RoomInv, Held
    <3>3. 2 * events + 2 <= Slack => NumDesc <= cap
      BY <1>0, <3>2
    <3> QED
      BY <3>1, <3>2, <3>3, RoomFilled
  <2>2. CASE ~(NumDesc <= size)
    <3>1. pc' = "menu" /\ UNCHANGED <<types, events, cap, words>>
      BY <1>7, <2>2 DEF GetMapAgain
    <3> QED
      BY <3>1, RoomKept DEF Held
  <2> QED
    BY <2>1, <2>2
<1>8. ASSUME NEW i \in 1..(Len(Startup) - 1), KernelPhase(i) PROVE RoomInv'
  <2>1. UNCHANGED <<types, events, cap, words>>
    BY <1>8 DEF KernelPhase
  <2>2. pc' # "pool" /\ pc' # "map" /\ pc' \notin Held
    BY <1>8, PhaseStep DEF PhaseFrom, Held
  <2> QED
    BY <2>1, <2>2, RoomKept
<1>9. CASE Finished \/ UNCHANGED vars
  BY <1>9, RoomKept DEF Finished
<1> QED
  BY <1>1, <1>2, <1>3, <1>4, <1>5, <1>6, <1>7, <1>8, <1>9 DEF Next

LEMMA InitRoom == Init => RoomInv
<1> SUFFICES ASSUME Init PROVE RoomInv
  OBVIOUS
<1>1. pc = "gather" /\ words = <<>> /\ cap = 0
  BY DEF Init
<1>2. 0 * DescSize = 0 /\ Len(<<>>) = 0
  BY Constants, Products
<1> QED
  BY <1>1, <1>2 DEF RoomInv, Held

\* The map written to the buffer fits it for as long as the firmware has had
\* so few events that the slack of boot_kernel's first request makes up for
\* two entries each, and for the buffer's own.
THEOREM RoomWhileFew == Spec => [](2 * events + 2 <= Slack => NoOverrun)
<1> DEFINE I == BufferTypes /\ RoomInv
<1>1. I => (2 * events + 2 <= Slack => NoOverrun)
  BY DEF RoomInv, NoOverrun
<1>2. I /\ [Next]_vars => I'
  BY NextBuffers, NextRoom
<1>3. Init => I
  BY InitBuffers, InitRoom
<1> QED
  BY <1>1, <1>2, <1>3, PTL DEF Spec

\* The firmware never writes a map past the end of the buffer, though the
\* retry of boot_kernel asks for the size anew and keeps the buffer, if the
\* slack has room for two entries for every event there can be and one more.
THEOREM BufferCorrect ==
    ASSUME Slack >= 2 * (MaxEvents + 1)
    PROVE  Spec => []NoOverrun
<1> DEFINE I == BufferTypes /\ RoomInv
<1>1. I => NoOverrun
  <2> SUFFICES ASSUME BufferTypes, RoomInv PROVE NoOverrun
    OBVIOUS
  <2>1. 2 * events + 2 <= Slack
    BY Constants DEF BufferTypes
  <2> QED
    BY <2>1 DEF RoomInv, NoOverrun
<1>2. I /\ [Next]_vars => I'
  BY NextBuffers, NextRoom
<1>3. Init => I
  BY InitBuffers, InitRoom
<1> QED
  BY <1>1, <1>2, <1>3, PTL DEF Spec

-----------------------------------------------------------------------------
(***************************************************************************)
(* The pages of the kernel and of the map.                                 *)
(***************************************************************************)

\* A page that the loader has allocated.
Own(p) == p \in Pages /\ types[p] = LoaderData

HasKernel == pc \in {"size", "pool"} \cup Held \/ InKernel
HasBuffer == pc \in Held \/ InKernel

\* From its allocation on, each of the two pages is the loader's.
HeldInv ==
    /\ HasKernel => Own(kernel)
    /\ HasBuffer => Own(buf) /\ buf # kernel

\* A step that keeps the two pages and gives back neither.
LEMMA HeldKept ==
    ASSUME HeldInv, UNCHANGED <<kernel, buf>>, HasKernel' => HasKernel, HasBuffer' => HasBuffer,
           \A p \in Pages : types[p] = LoaderData => types'[p] = LoaderData
    PROVE  HeldInv'
<1>1. \A p : Own(p) => Own(p)'
  BY DEF Own
<1> QED
  BY <1>1 DEF HeldInv

\* The firmware and the loader allocate only what is free.
LEMMA Allocated ==
    ASSUME PageTypes, NEW p \in Pages, types[p] = Conventional, SetTypes({p}, LoaderData)
    PROVE  Own(p)' /\ \A q : Own(q) => Own(q)' /\ q # p
<1>1. types' = [q \in Pages |-> IF q = p THEN LoaderData ELSE types[q]]
  BY DEF SetTypes
<1> QED
  BY <1>1 DEF Own, LoaderData, Conventional

LEMMA NextHeld ==
    ASSUME BufferTypes, HeldInv, [Next]_vars
    PROVE  HeldInv'
<1> USE DEF vars, firmware, loader, machine
<1>0. /\ ~InKernel <=> pc \notin {"start", "halt", "gdt", "pic", "idt", "pmm", "heap", "timer",
                                  "keyboard", "process", "sti", "shell"}
      /\ ~InKernel' <=> pc' \notin {"start", "halt", "gdt", "pic", "idt", "pmm", "heap", "timer",
                                    "keyboard", "process", "sti", "shell"}
      /\ PageTypes /\ FirmwareMay \subseteq Pages /\ LinkPage \in Pages
  BY Phases, Constants DEF InKernel, BufferTypes
<1>1. ASSUME NEW p \in FirmwareMay, NEW t \in {Conventional, BootData, RuntimeData}, FirmwareEvent(p, t)
      PROVE  HeldInv'
  <2>1. /\ UNCHANGED <<pc, kernel, buf>> /\ types[p] # LoaderData
        /\ \A q \in Pages : q # p => types'[q] = types[q]
    BY <1>0, <1>1, EventIs DEF FirmwareEvent, Conventional, BootData, LoaderData
  <2>2. (HasKernel' <=> HasKernel) /\ (HasBuffer' <=> HasBuffer)
    BY <2>1 DEF HasKernel, HasBuffer, InKernel, Held
  <2> QED
    BY <2>1, <2>2, HeldKept
<1>2. ASSUME types' = types, UNCHANGED <<kernel, buf>>, HasKernel' => HasKernel, HasBuffer' => HasBuffer
      PROVE  HeldInv'
  BY <1>2, HeldKept
<1>3. ASSUME pc' \in {"gatherMap", "menu", "fault", "prepare", "left"} PROVE HeldInv'
  BY <1>0, <1>3 DEF HeldInv, HasKernel, HasBuffer, Held
<1>4. CASE GatherSize \/ GatherMap \/ DrawFault \/ MenuMove(-1) \/ MenuMove(1) \/ MenuChoose \/ MenuLeave
  BY <1>3, <1>4 DEF GatherSize, GatherMap, DrawFault, MenuMove, MenuChoose, MenuLeave
<1>5. CASE PrepareKernel
  <2>1. CASE pc' = "menu"
    BY <1>3, <2>1
  <2>2. ASSUME NEW p \in Places, kernel' = p, SetTypes({p}, LoaderData), pc' = "size" PROVE HeldInv'
    <3>1. p \in Pages /\ types[p] = Conventional
      BY <1>0 DEF Places
    <3>2. Own(p)'
      BY <1>0, <2>2, <3>1, Allocated
    <3>3. ~HasBuffer'
      BY <1>0, <2>2 DEF HasBuffer, Held
    <3> QED
      BY <2>2, <3>2, <3>3 DEF HeldInv, Own
  <2> QED
    BY <1>5, <2>1, <2>2 DEF PrepareKernel
<1>6. CASE AllocatePool
  <2>1. CASE pc' = "menu"
    BY <1>3, <2>1
  <2>2. ASSUME NEW p \in FirmwareMay, types[p] = Conventional, buf' = p, SetTypes({p}, LoaderData)
        PROVE  HeldInv'
    <3>1. pc = "pool" /\ kernel' = kernel
      BY <1>6 DEF AllocatePool
    <3>2. Own(kernel)
      BY <3>1 DEF HeldInv, HasKernel
    <3>3. p \in Pages
      BY <1>0
    <3>4. Own(p)' /\ \A q : Own(q) => Own(q)' /\ q # p
      BY <1>0, <2>2, <3>3, Allocated
    <3>5. types'[p] = LoaderData /\ kernel \in Pages /\ types'[kernel] = LoaderData /\ kernel # p
      BY <3>2, <3>4 DEF Own
    <3> QED
      BY <2>2, <3>1, <3>3, <3>5 DEF HeldInv, Own
  <2> QED
    BY <1>6, <2>1, <2>2 DEF AllocatePool
<1>7. CASE GetMap
  <2>1. CASE pc' = "menu"
    BY <1>3, <2>1
  <2>2. CASE NumDesc <= size
    <3>1. pc = "map" /\ pc' = "exit" /\ UNCHANGED <<types, kernel, buf>>
      BY <1>7, <2>2 DEF GetMap, FillBuffer
    <3> QED
      BY <1>2, <3>1 DEF HasKernel, HasBuffer, Held
  <2> QED
    BY <1>7, <2>1, <2>2 DEF GetMap
<1>8. CASE GetMapAgain
  <2>1. CASE pc' = "menu"
    BY <1>3, <2>1
  <2>2. CASE NumDesc <= size
    <3>1. pc = "remap" /\ pc' = "exitAgain" /\ UNCHANGED <<types, kernel, buf>>
      BY <1>8, <2>2 DEF GetMapAgain, FillBuffer
    <3> QED
      BY <1>2, <3>1 DEF HasKernel, HasBuffer, Held
  <2> QED
    BY <1>8, <2>1, <2>2 DEF GetMapAgain
<1>9. CASE GetMapSize \/ GetMapSizeAgain \/ ExitBootServices
  <2>1. /\ UNCHANGED <<types, kernel, buf>>
        /\ \/ pc = "size" /\ pc' = "pool"
           \/ pc \in Held
    BY <1>9 DEF GetMapSize, GetMapSizeAgain, ExitBootServices, Held
  <2>2. (HasKernel' => HasKernel) /\ (HasBuffer' => HasBuffer)
    BY <1>0, <2>1 DEF HasKernel, HasBuffer, Held
  <2> QED
    BY <1>2, <2>1, <2>2
<1>10. CASE Start
  <2>1. UNCHANGED <<types, kernel, buf>> /\ InKernel
    BY <1>10 DEF Start, InKernel
  <2> QED
    BY <1>2, <2>1 DEF HasKernel, HasBuffer
<1>11. ASSUME NEW i \in 1..(Len(Startup) - 1), KernelPhase(i) PROVE HeldInv'
  <2>1. UNCHANGED <<types, kernel, buf>> /\ InKernel
    BY <1>11, PhaseStep, Phases DEF KernelPhase, PhaseFrom, InKernel
  <2> QED
    BY <1>2, <2>1 DEF HasKernel, HasBuffer
<1>12. CASE Finished \/ UNCHANGED vars
  <2>1. UNCHANGED <<types, kernel, buf, pc>>
    BY <1>12 DEF Finished
  <2>2. (HasKernel' <=> HasKernel) /\ (HasBuffer' <=> HasBuffer)
    BY <2>1 DEF HasKernel, HasBuffer, InKernel, Held
  <2> QED
    BY <1>2, <2>1, <2>2
<1> QED
  BY <1>1, <1>4, <1>5, <1>6, <1>7, <1>8, <1>9, <1>10, <1>11, <1>12 DEF Next

LEMMA InitHeld == Init => HeldInv
BY Phases DEF Init, HeldInv, HasKernel, HasBuffer, Held, InKernel

\* The kernel runs with its image and the memory map in two pages of the
\* loader's own, for every memory layout, every number of attempts that
\* boot_kernel gave up and whatever the firmware's events allocate and free
\* between any two of its calls.
THEOREM MapKept == Spec => []MapHeld
<1> DEFINE I == BufferTypes /\ HeldInv
<1>1. I => MapHeld
  BY DEF HeldInv, MapHeld, HasKernel, HasBuffer, Own
<1>2. I /\ [Next]_vars => I'
  BY NextBuffers, NextHeld
<1>3. Init => I
  BY InitBuffers, InitHeld
<1> QED
  BY <1>1, <1>2, <1>3, PTL DEF Spec
=============================================================================
