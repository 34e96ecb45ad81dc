-------------------------------- MODULE Boot -------------------------------
(***************************************************************************)
(* From the boot menu to the shell: the UEFI loader (boot/main.c), which   *)
(* loads the kernel, fetches the memory map and leaves the firmware; the   *)
(* entry code (kernel/entry.S); and the start-up of kernel_main            *)
(* (kernel/kernel.c) down to the instruction that turns interrupts on.     *)
(*                                                                         *)
(* The firmware is external: until ExitBootServices succeeds its timer     *)
(* events may allocate and free pages between any two calls, and each      *)
(* change of the memory map changes the map's key.  A call that hands the  *)
(* map out copies it, as a sequence of words, into the caller's buffer.    *)
(***************************************************************************)
EXTENDS Integers, Sequences, FiniteSets, FiniteSetsExt, Functions

CONSTANTS
    NPages,       \* pages of memory
    Reserved,     \* pages below 2MB
    LinkPage,     \* page the kernel is linked for (1MB)
    BssPages,     \* pages of BSS behind the image of one page
    HeapPages,    \* pages of the kernel heap
    LoaderPage,   \* page of the loader, with boot_info
    InitTypes,    \* types of the pages when the loader starts
    FirmwareMay,  \* pages the firmware allocates from
    Slack,        \* entries added to the size of the map (16)
    GatherSlack,  \* the same in gather_memory_info (4)
    DescSize,     \* words of a firmware descriptor
    EntrySize,    \* words of a memory_map_entry_t
    MaxEntries,   \* entries pmm_init accepts (256)
    MaxPages,     \* PMM_MAX_PAGES
    MayFail,      \* TRUE: AllocatePool may fail
    FirmwareIf,   \* interrupt flag when the firmware is left
    MaxEvents     \* bound on firmware events

Pages == 0..(NPages - 1)
None == -1

\* Memory types (bootinfo.h).
LoaderData == 2
BootData == 4
RuntimeData == 6
Conventional == 7
Usable == {3, BootData, Conventional}

ASSUME BootAssumption ==
    /\ NPages \in Nat /\ Reserved \in 1..NPages /\ LinkPage \in Pages /\ BssPages \in Nat
    /\ InitTypes \in [Pages -> 0..12] /\ FirmwareMay \subseteq Pages
    /\ HeapPages \subseteq Pages /\ LoaderPage \in Pages
    /\ {Slack, GatherSlack, MaxEvents, DescSize, MaxEntries, MaxPages} \subseteq Nat
    /\ EntrySize \in 3..DescSize
    /\ {MayFail, FirmwareIf} \subseteq BOOLEAN

VARIABLES
    types,     \* firmware: type of every page
    mapKey,    \* firmware: key of the current map
    events,    \* firmware: events so far
    pc,        \* where the loader, then the kernel, is
    selected,  \* menu item
    total,     \* total_memory_mb is known
    kernel,    \* page the kernel was loaded at
    buf,       \* page of the map buffer
    cap,       \* entries the buffer has room for
    size,      \* mmap_size, in entries
    key,       \* map_key
    words,     \* contents of the buffer
    entries,   \* boot_info.mmap_entries
    tried,     \* ExitBootServices has failed
    stores,    \* pages the kernel has overwritten
    cpu,       \* interrupt flag, GDT, IDT, and the PIC's first vector and IRQs let through
    pmmFree    \* pages whose bit is clear in the allocator's bitmap

firmware == <<types, mapKey, events>>
loader == <<selected, total, kernel, buf, cap, size, key, words, entries, tried>>
machine == <<stores, cpu, pmmFree>>
vars == <<firmware, pc, loader, machine>>

-----------------------------------------------------------------------------
(***************************************************************************)
(* Firmware.                                                               *)
(***************************************************************************)

Starts == {p \in Pages : p = 0 \/ types[p] # types[p - 1]}
Length(p) == CHOOSE n \in 1..(NPages - p) :
                /\ \A q \in p..(p + n - 1) : types[q] = types[p]
                /\ p + n \in Starts \cup {NPages}
NumDesc == Cardinality(Starts)

\* The memory map: type, start and length of each region, then padding.
MemoryMap ==
    LET upTo[p \in -1..(NPages - 1)] ==
          IF p = -1 THEN <<>>
          ELSE IF p \notin Starts THEN upTo[p - 1]
          ELSE upTo[p - 1] \o <<types[p], p, Length(p)>> \o [i \in 1..(DescSize - 3) |-> 0]
    IN upTo[NPages - 1]

SetTypes(P, t) == /\ types' = [p \in Pages |-> IF p \in P THEN t ELSE types[p]]
                  /\ mapKey' = mapKey + 1
                  /\ UNCHANGED events

Selectors == 0..7
Vectors == 0..47

\* The CPU as the firmware leaves it, with tables of the firmware's own.
FirmwareCpu ==
    [if |-> FirmwareIf, unmasked |-> {0}, offset |-> 24,
     gdt |-> [s \in Selectors |-> IF s = 7 THEN "code" ELSE "data"],
     idt |-> [v \in Vectors |-> [sel |-> 7, irq |-> v - 24]]]

InFirmware == pc \in {"gather", "gatherMap", "menu", "prepare", "size", "pool", "map",
                      "exit", "resize", "remap", "exitAgain"}

\* A driver or a timer event of the firmware allocates or frees a page.
FirmwareEvent(p, t) ==
    /\ InFirmware /\ events < MaxEvents
    /\ types[p] \in {Conventional, BootData} /\ t # types[p]
    /\ types' = [types EXCEPT ![p] = t]
    /\ mapKey' = mapKey + 1 /\ events' = events + 1
    /\ UNCHANGED <<pc, loader, machine>>

-----------------------------------------------------------------------------
(***************************************************************************)
(* The loader up to its menu.                                              *)
(***************************************************************************)

\* gather_memory_info: size of the map, with room for a few entries more.
GatherSize ==
    /\ pc = "gather"
    /\ size' = NumDesc + GatherSlack
    /\ pc' = "gatherMap"
    /\ UNCHANGED <<firmware, selected, total, kernel, buf, cap, key, words, entries, tried, machine>>

\* The map itself; when it cannot be had the totals stay 0.  (The pool buffer
\* is freed again.)
GatherMap ==
    /\ pc = "gatherMap"
    /\ \/ total' = (NumDesc <= size)
       \/ MayFail /\ total' = FALSE
    /\ pc' = "menu"
    /\ UNCHANGED <<firmware, selected, kernel, buf, cap, size, key, words, entries, tried, machine>>

\* draw_ui draws a bar of usable over total memory.
DrawFault ==
    /\ pc = "menu" /\ ~total
    /\ pc' = "fault"
    /\ UNCHANGED <<firmware, loader, machine>>

MenuMove(d) ==
    /\ pc = "menu" /\ total
    /\ selected' = Max({0, Min({3, selected + d})})
    /\ UNCHANGED <<firmware, pc, total, kernel, buf, cap, size, key, words, entries, tried, machine>>

\* Return or space: boot the kernel, leave to the shell, or reset.
MenuChoose ==
    /\ pc = "menu" /\ total
    /\ pc' = IF selected = 0 THEN "prepare" ELSE "left"
    /\ UNCHANGED <<firmware, loader, machine>>

\* Escape.
MenuLeave ==
    /\ pc = "menu" /\ total
    /\ pc' = "left"
    /\ UNCHANGED <<firmware, loader, machine>>

-----------------------------------------------------------------------------
(***************************************************************************)
(* prepare_kernel and boot_kernel.  Each call of the firmware is a step.   *)
(***************************************************************************)

\* Where the kernel may be put: at 1MB, or anywhere if that is taken.
Places ==
    IF types[LinkPage] = Conventional THEN {LinkPage}
    ELSE {p \in FirmwareMay : types[p] = Conventional}

PrepareKernel ==
    /\ pc = "prepare"
    /\ \/ /\ Places = {} /\ pc' = "menu" /\ UNCHANGED <<firmware, kernel>>
       \/ \E p \in Places : kernel' = p /\ SetTypes({p}, LoaderData) /\ pc' = "size"
    /\ UNCHANGED <<selected, total, buf, cap, size, key, words, entries, tried, machine>>

\* Fault: no room is added for entries to come.
SizeWithoutSlack == NumDesc

\* mmap_size after the call that asks for it.
SizeWanted == NumDesc + Slack

GetMapSize ==
    /\ pc = "size"
    /\ size' = SizeWanted
    /\ pc' = "pool"
    /\ UNCHANGED <<firmware, selected, total, kernel, buf, cap, key, words, entries, tried, machine>>

\* A new buffer holds no map yet.
AllocatePool ==
    /\ pc = "pool"
    /\ \/ /\ MayFail /\ pc' = "menu" /\ UNCHANGED <<firmware, buf, cap, words>>
       \/ \E p \in FirmwareMay :
             /\ types[p] = Conventional
             /\ buf' = p /\ cap' = size /\ words' = <<>>
             /\ SetTypes({p}, LoaderData) /\ pc' = "map"
    /\ UNCHANGED <<selected, total, kernel, size, key, entries, tried, machine>>

\* A GetMemoryMap that succeeds.
FillBuffer == /\ words' = MemoryMap /\ size' = NumDesc /\ key' = mapKey
              /\ UNCHANGED <<types, mapKey, events>>

\* The buffer is freed when the map has outgrown it.
GetMap ==
    /\ pc = "map"
    /\ IF NumDesc <= size
       THEN FillBuffer /\ entries' = NumDesc /\ pc' = "exit" /\ UNCHANGED buf
       ELSE /\ SetTypes({buf}, Conventional) /\ buf' = None /\ pc' = "menu"
            /\ UNCHANGED <<words, size, key, entries>>
    /\ UNCHANGED <<selected, total, kernel, cap, tried, machine>>

\* ExitBootServices: it fails if the map has changed since its key was
\* fetched.  The second failure leads back to the menu.
ExitBootServices ==
    /\ pc \in {"exit", "exitAgain"}
    /\ IF key = mapKey
       THEN pc' = "start" /\ tried' = tried
       ELSE pc' = (IF pc = "exit" THEN "resize" ELSE "menu") /\ tried' = TRUE
    /\ UNCHANGED <<firmware, selected, total, kernel, buf, cap, size, key, words, entries, machine>>

\* Fault: the buffer is given back, as if a new one were allocated.
GetMapSizeAgainFreed ==
    /\ pc = "resize"
    /\ size' = SizeWanted
    /\ SetTypes({buf}, Conventional) /\ pc' = "remap"
    /\ UNCHANGED <<selected, total, kernel, buf, cap, key, words, entries, tried, machine>>

\* The retry asks for the size again, but keeps the buffer.
GetMapSizeAgain ==
    /\ pc = "resize"
    /\ size' = SizeWanted
    /\ pc' = "remap"
    /\ UNCHANGED <<firmware, selected, total, kernel, buf, cap, key, words, entries, tried, machine>>

\* Fault: boot_info keeps the number of entries of the first map.
GetMapAgainOldCount ==
    /\ pc = "remap"
    /\ IF NumDesc <= size
       THEN FillBuffer /\ UNCHANGED entries /\ pc' = "exitAgain"
       ELSE pc' = "menu" /\ UNCHANGED <<firmware, words, size, key, entries>>
    /\ UNCHANGED <<selected, total, kernel, buf, cap, tried, machine>>

GetMapAgain ==
    /\ pc = "remap"
    /\ IF NumDesc <= size
       THEN FillBuffer /\ entries' = NumDesc /\ pc' = "exitAgain"
       ELSE pc' = "menu" /\ UNCHANGED <<firmware, words, size, key, entries>>
    /\ UNCHANGED <<selected, total, kernel, buf, cap, tried, machine>>

-----------------------------------------------------------------------------
(***************************************************************************)
(* The kernel.                                                             *)
(***************************************************************************)

Bss == (kernel + 1)..(kernel + BssPages)

\* _start: clears the BSS, the allocator's bitmap with it; kernel_main halts
\* unless it finds boot_info.
Start ==
    /\ pc = "start"
    /\ stores' = stores \cup Bss
    /\ pmmFree' = 0..(MaxPages - 1)
    /\ pc' = IF LoaderPage \in Bss THEN "halt" ELSE "gdt"
    /\ UNCHANGED <<firmware, loader, cpu>>

\* The phases of kernel_main, in order.
Startup == <<"gdt", "pic", "idt", "pmm", "heap", "timer", "keyboard", "process", "sti", "shell">>

\* gdt_init: null, kernel and user segments, and a TSS of two entries.
GdtInit(c) ==
    [c EXCEPT !.gdt = [s \in Selectors |->
       <<"null", "code", "data", "user code", "user data", "tss", "tss", "none">>[s + 1]]]

\* Fault: the vectors of the IRQs stay where the PIC has them after a reset.
PicNotRemapped(c) == [c EXCEPT !.offset = 8, !.unmasked = {}]

\* pic_init and pic_disable: IRQs from vector 32 on, all masked.
PicInit(c) == [c EXCEPT !.offset = 32, !.unmasked = {}]

\* idt_init: exceptions up to vector 20, except the reserved ones, and IRQs.
IdtInit(c) ==
    [c EXCEPT !.idt = [v \in Vectors |->
       [sel |-> IF v \in (0..20) \ {9, 15} \/ v >= 32 THEN 1 ELSE 0,
        irq |-> IF v >= 32 THEN v - 32 ELSE None]]]

\* pic_enable_irq.
Unmask(c, irq) == [c EXCEPT !.unmasked = @ \cup {irq}]

\* An entry of the map as pmm_init reads it, i counting from 0.
Entry(i) == LET at == i * EntrySize
                w == IF buf \in stores THEN [j \in DOMAIN words |-> 0] ELSE words
            IN [type |-> w[at + 1], start |-> w[at + 2], num |-> w[at + 3]]

\* The pages of a usable region that the bitmap covers.
Freeable(e) ==
    LET num == Min({e.num, MaxPages})
    IN IF e.type \in Usable
       THEN {p \in 0..(MaxPages - 1) : e.start <= p /\ p < e.start + num} ELSE {}

\* pmm_init: usable regions are free, except the first 2MB.  A map without
\* entries or with too many is refused, and the bitmap left as it is.
PmmInit ==
    IF buf = None \/ entries = 0 \/ entries > MaxEntries THEN pmmFree
    ELSE (UNION {Freeable(Entry(i)) : i \in 0..(entries - 1)}) \ (0..(Reserved - 1))

\* One phase of kernel_main.
KernelPhase(i) ==
    /\ pc = Startup[i]
    /\ pc' = Startup[i + 1]
    /\ cpu' = CASE pc = "gdt"      -> GdtInit(cpu)
                [] pc = "pic"      -> PicInit(cpu)
                [] pc = "idt"      -> IdtInit(cpu)
                [] pc = "timer"    -> Unmask(cpu, 0)
                [] pc = "keyboard" -> Unmask(cpu, 1)
                [] pc = "sti"      -> [cpu EXCEPT !.if = TRUE]
                [] OTHER           -> cpu
    /\ pmmFree' = IF pc = "pmm" THEN PmmInit ELSE pmmFree
    /\ stores' = IF pc = "heap" THEN stores \cup HeapPages ELSE stores
    /\ UNCHANGED <<firmware, loader>>

\* The shell runs, the menu was left, or the machine has stopped.
Finished == pc \in {"shell", "left", "halt", "fault"} /\ UNCHANGED vars

Init ==
    /\ types = InitTypes /\ mapKey = 0 /\ events = 0
    /\ pc = "gather" /\ selected = 0 /\ total = FALSE /\ kernel = None
    /\ buf = None /\ cap = 0 /\ size = 0 /\ key = None /\ words = <<>>
    /\ entries = 0 /\ tried = FALSE /\ stores = {} /\ pmmFree = {}
    /\ cpu = FirmwareCpu

Next ==
    \/ \E p \in FirmwareMay, t \in {Conventional, BootData, RuntimeData} : FirmwareEvent(p, t)
    \/ GatherSize \/ GatherMap \/ DrawFault
    \/ MenuMove(-1) \/ MenuMove(1) \/ MenuChoose \/ MenuLeave
    \/ PrepareKernel \/ GetMapSize \/ AllocatePool \/ GetMap
    \/ ExitBootServices \/ GetMapSizeAgain \/ GetMapAgain
    \/ Start
    \/ \E i \in 1..(Len(Startup) - 1) : KernelPhase(i)
    \/ Finished

Spec == Init /\ [][Next]_vars

-----------------------------------------------------------------------------
(***************************************************************************)
(* Properties.                                                             *)
(***************************************************************************)

InKernel == pc \in {"start", "halt"} \cup Range(Startup)

\* The kernel is entered only with the map as it was when the firmware was
\* left, all its entries counted, however often it changed on the way.
MapIsCurrent == InKernel => words = MemoryMap /\ entries = NumDesc

\* The kernel runs with its image and the memory map in two different pages
\* that are still the loader's: no failed attempt to leave the firmware, no
\* retry and no return to the menu has given back a page the kernel relies on
\* or handed one out twice, whatever the firmware allocated meanwhile.
MapHeld == InKernel => /\ kernel # buf
                       /\ \A p \in {kernel, buf} : p \in Pages /\ types[p] = LoaderData

\* What the allocator takes for free is exactly the memory above 2MB, as far
\* as the bitmap goes, that the firmware left unused: nothing of the kernel
\* image, of the map buffer, of the loader or of the firmware's runtime data.
\* It fails with descriptors longer than the kernel's entries, and with a map
\* that pmm_init refuses.
PmmMatchesFirmware ==
    kernel = LinkPage /\ pc \in {"heap", "timer", "keyboard", "process", "sti", "shell"} =>
       pmmFree = {p \in Pages : p >= Reserved /\ p < MaxPages /\ types[p] \in Usable}

\* The firmware never writes a map longer than the buffer allocated for it,
\* although the retry asks for the size anew and keeps the buffer.
NoOverrun == buf # None => Len(words) <= cap * DescSize

\* The BSS the kernel clears and the heap it lays out at a fixed address hold
\* neither firmware data nor the loader, the map or the kernel itself.
StoresOwn == \A p \in stores : types[p] \in Usable

\* An interrupt that can come finds its own handler: PIC, IDT and GDT agree
\* on the vector and on the code segment of its gate.
InterruptsServed ==
    InKernel /\ cpu.if =>
       \A irq \in cpu.unmasked :
          LET gate == cpu.idt[cpu.offset + irq]
          IN gate.irq = irq /\ cpu.gdt[gate.sel] = "code"

\* "(Running) at any address": the kernel, linked without -fpic for 1MB, is
\* entered where it is linked for.
KernelWhereLinked == InKernel => kernel = LinkPage

\* "Point of no return": once ExitBootServices has been called, the loader
\* does not come back to its menu, which needs the console services.
NoReturn == tried => pc # "menu"

\* The menu is drawn only with the total, by which draw_ui divides, known.
TotalKnown == pc # "fault"
=============================================================================
