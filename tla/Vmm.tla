-------------------------------- MODULE Vmm --------------------------------
(***************************************************************************)
(* The virtual memory manager (kernel/mm/vmm.c): four levels of page       *)
(* tables kept in page frames, which come from the physical memory manager *)
(* and go back to it, and the translations the CPU caches.                 *)
(*                                                                         *)
(* A page is the tuple of its four indices, an entry the frame it points   *)
(* to, negative if VMM_HUGE is set and 0 if VMM_PRESENT is clear.  The     *)
(* frames the manager does not own hold whatever their last user left.     *)
(***************************************************************************)
EXTENDS Integers, FiniteSets, FiniteSetsExt

CONSTANTS
    NFrames,    \* page frames, numbered from 1
    Fanout,     \* entries per table (512)
    Half,       \* first PML4 index of the upper half (256)
    Virts,      \* pages that callers map
    Phys,       \* frames that callers map them to
    Firmware,   \* what CR3 may be at vmm_init, with the tables it points to
    MaxSpaces,  \* bound on address spaces
    MaxClients  \* bound on frames in other use

Frames == 1..NFrames
Idx == 0..(Fanout - 1)

ASSUME VmmAssumption ==
    /\ NFrames \in Nat /\ Fanout \in Nat \ {0} /\ Half \in Idx /\ {MaxSpaces, MaxClients} \subseteq Nat
    /\ Virts \subseteq Idx \X Idx \X Idx \X Idx /\ Phys \subseteq Nat \ {0}
    /\ \A f \in Firmware : f.cr3 = 0 <=> DOMAIN f.tables = {}

VARIABLES
    mem,          \* contents of the frames, read as tables
    free,         \* frames pmm_alloc_page may hand out
    clients,      \* frames other parts of the kernel have allocated
    kernel_pml4,
    cr3,
    spaces,       \* PML4s that vmm_create_address_space has returned
    tlb           \* cached translations of the current address space

vars == <<mem, free, clients, kernel_pml4, cr3, spaces, tlb>>

Cleared == [i \in Idx |-> 0]
Junk == [i \in Idx |-> 1]

-----------------------------------------------------------------------------
(***************************************************************************)
(* Walks.  A walk carries the memory, the free frames and the table it has *)
(* reached, 0 once it has failed.                                          *)
(***************************************************************************)

\* entry & ~0xFFF: the code never looks at VMM_HUGE.
FrameOf(entry) == IF entry < 0 THEN -entry ELSE entry

\* Fault: the new table keeps what its frame held.
AllocUncleared(w) ==
    IF w.free = {} THEN [w EXCEPT !.table = 0]
    ELSE [w EXCEPT !.free = @ \ {Min(w.free)}, !.table = Min(w.free)]

\* vmm_alloc_page_table.
AllocPageTable(w) ==
    IF w.free = {} THEN [w EXCEPT !.table = 0]
    ELSE LET f == Min(w.free)
         IN [mem |-> [w.mem EXCEPT ![f] = Cleared], free |-> w.free \ {f}, table |-> f]

\* Fault: a table of the last level is not linked when no frame is left for
\* the next one.
DescendUnlinked(w, i) ==
    IF w.table = 0 THEN w
    ELSE IF w.mem[w.table][i] # 0 THEN [w EXCEPT !.table = FrameOf(w.mem[w.table][i])]
    ELSE LET new == AllocPageTable(w)
         IN IF new.table = 0 \/ new.free = {} THEN new
            ELSE [new EXCEPT !.mem[w.table][i] = new.table]

\* One level of vmm_get_or_create_entry: follow the entry, or link a table.
Descend(w, i) ==
    IF w.table = 0 THEN w
    ELSE IF w.mem[w.table][i] # 0 THEN [w EXCEPT !.table = FrameOf(w.mem[w.table][i])]
    ELSE LET new == AllocPageTable(w)
         IN IF new.table = 0 THEN new ELSE [new EXCEPT !.mem[w.table][i] = new.table]

\* vmm_get_or_create_entry: the walk as far as it gets.
GetOrCreateEntry(v) ==
    Descend(Descend(Descend([mem |-> mem, free |-> free, table |-> kernel_pml4],
                            v[1]), v[2]), v[3])

\* One level of vmm_get_physical; 0 stays 0.
Follow(table, i) == IF table = 0 THEN 0 ELSE FrameOf(mem[table][i])

\* vmm_get_physical.
GetPhysical(v) ==
    Follow(Follow(Follow(Follow(kernel_pml4, v[1]), v[2]), v[3]), v[4])

\* One level of the CPU's walk, which ends at a huge page.
CpuFollow(entry, i) == IF entry <= 0 THEN entry ELSE mem[entry][i]

Translate(pml4, v) ==
    FrameOf(CpuFollow(CpuFollow(CpuFollow(CpuFollow(pml4, v[1]), v[2]), v[3]), v[4]))

-----------------------------------------------------------------------------
(***************************************************************************)
(* The operations.                                                         *)
(***************************************************************************)

\* vmm_init with the firmware's page tables in place.
InitFromCr3 ==
    /\ kernel_pml4 = 0 /\ cr3 # 0
    /\ kernel_pml4' = cr3
    /\ UNCHANGED <<mem, free, clients, cr3, spaces, tlb>>

\* vmm_init without: an empty PML4 of its own.  With no frame left it halts.
InitNew ==
    /\ kernel_pml4 = 0 /\ cr3 = 0 /\ free # {}
    /\ LET f == Min(free)
       IN /\ mem' = [mem EXCEPT ![f] = Cleared]
          /\ free' = free \ {f}
          /\ kernel_pml4' = f /\ cr3' = f /\ tlb' = {}
    /\ UNCHANGED <<clients, spaces>>

\* Fault: the cached translation stays.
NotInvalidated(v) == tlb

\* invlpg.
InvalidateTlb(v) == {e \in tlb : e.virt # v}

\* Writes the entry of v, creating the tables on the way; when a table cannot
\* be had, those created so far stay linked and nothing else is done.
SetEntry(v, p) ==
    LET w == GetOrCreateEntry(v)
    IN /\ free' = w.free
       /\ IF w.table = 0 THEN mem' = w.mem /\ tlb' = tlb
          ELSE mem' = [w.mem EXCEPT ![w.table][v[4]] = p] /\ tlb' = InvalidateTlb(v)
       /\ UNCHANGED <<clients, kernel_pml4, cr3, spaces>>

MapPage(v, p) == kernel_pml4 # 0 /\ SetEntry(v, p)

\* vmm_unmap_page: it, too, creates the tables it does not find.
UnmapPage(v) == kernel_pml4 # 0 /\ SetEntry(v, 0)

\* Fault: the lower half is copied as well.
CopyAll(pml4) == IF pml4 = 0 THEN Cleared ELSE mem[pml4]

\* The entries of a new address space.
CopyUpperHalf(pml4) ==
    [i \in Idx |-> IF pml4 # 0 /\ i >= Half THEN mem[pml4][i] ELSE 0]

\* vmm_create_address_space; it may run before vmm_init.
CreateAddressSpace ==
    /\ free # {} /\ Cardinality(spaces) < MaxSpaces
    /\ LET f == Min(free)
       IN /\ mem' = [mem EXCEPT ![f] = CopyUpperHalf(kernel_pml4)]
          /\ free' = free \ {f}
          /\ spaces' = spaces \cup {f}
    /\ UNCHANGED <<clients, kernel_pml4, cr3, tlb>>

\* vmm_switch_address_space: loading CR3 empties the TLB.
SwitchAddressSpace(s) ==
    /\ kernel_pml4 # 0
    /\ cr3' = s /\ tlb' = {}
    /\ UNCHANGED <<mem, free, clients, kernel_pml4, spaces>>

\* vmm_destroy_address_space, for a space the CPU does not run in.
DestroyAddressSpace(s) ==
    /\ s # cr3
    /\ mem' = [mem EXCEPT ![s] = [i \in Idx |-> IF i < Half THEN 0 ELSE @[i]]]
    /\ free' = free \cup {s}
    /\ spaces' = spaces \ {s}
    /\ UNCHANGED <<clients, kernel_pml4, cr3, tlb>>

\* Other users of pmm_alloc_page and pmm_free_page.
ClientAlloc ==
    /\ free # {} /\ Cardinality(clients) < MaxClients
    /\ clients' = clients \cup {Min(free)} /\ free' = free \ {Min(free)}
    /\ mem' = [mem EXCEPT ![Min(free)] = Junk]
    /\ UNCHANGED <<kernel_pml4, cr3, spaces, tlb>>

ClientFree(f) ==
    /\ clients' = clients \ {f} /\ free' = free \cup {f}
    /\ UNCHANGED <<mem, kernel_pml4, cr3, spaces, tlb>>

\* The CPU uses a page and caches its translation.
TlbFill(v) ==
    /\ kernel_pml4 # 0 /\ Translate(cr3, v) # 0
    /\ tlb' = InvalidateTlb(v) \cup {[virt |-> v, phys |-> Translate(cr3, v)]}
    /\ UNCHANGED <<mem, free, clients, kernel_pml4, cr3, spaces>>

Init ==
    \E f \in Firmware :
       /\ mem = [p \in Frames |-> IF p \in DOMAIN f.tables THEN f.tables[p] ELSE Junk]
       /\ free = Frames \ DOMAIN f.tables
       /\ cr3 = f.cr3
       /\ clients = {} /\ kernel_pml4 = 0 /\ spaces = {} /\ tlb = {}

Next ==
    \/ InitFromCr3
    \/ InitNew
    \/ \E v \in Virts, p \in Phys : MapPage(v, p)
    \/ \E v \in Virts : UnmapPage(v)
    \/ CreateAddressSpace
    \/ \E s \in spaces \cup {kernel_pml4} : SwitchAddressSpace(s)
    \/ \E s \in spaces : DestroyAddressSpace(s)
    \/ ClientAlloc
    \/ \E f \in clients : ClientFree(f)
    \/ \E v \in Virts : TlbFill(v)

Spec == Init /\ [][Next]_vars

-----------------------------------------------------------------------------
(***************************************************************************)
(* Properties.                                                             *)
(***************************************************************************)

\* The tables one level below those of T.
Below(T) == {FrameOf(mem[t][i]) : t \in T, i \in Idx} \ {0}

Upper(n) == LET level[l \in 1..4] == IF l = 1 THEN {kernel_pml4} ELSE Below(level[l - 1])
            IN UNION {level[l] : l \in 1..n}

Links == {e \in Upper(3) \X Idx : mem[e[1]][e[2]] # 0}

\* No frame leaks and none has two uses: every frame is free, or with one
\* client, or an address space, or one table of the kernel's tree, in which
\* every table hangs on exactly one entry.  It holds after a mapping that ran
\* out of frames half way, too.
FramesAccounted ==
    kernel_pml4 # 0 =>
      LET parts == <<free, clients, spaces, Upper(4)>>
      IN /\ UNION {parts[i] : i \in 1..4} = Frames
         /\ \A i, j \in 1..4 : i # j => parts[i] \cap parts[j] = {}
         /\ Cardinality(Links) + 1 = Cardinality(Upper(4))

\* A step changes the kernel's translation of a page only if it maps or
\* unmaps that very page, and to the frame given; a mapping that fails, a new
\* table or an address space that comes or goes moves no page.
OnlyTargetMoves ==
    [][kernel_pml4 # 0 =>
         \A v \in Virts : GetPhysical(v)' # GetPhysical(v) =>
            \E p \in Phys \cup {0} : SetEntry(v, p) /\ GetPhysical(v)' = p]_vars

\* An address space shares the kernel's upper half as far as it had tables
\* when the space was created, later mappings and unmappings below those
\* tables included, and has no page of its own.
SpacesSeeKernel ==
    \A s \in spaces, v \in Virts :
       Translate(s, v) = IF v[1] >= Half /\ mem[s][v[1]] # 0 THEN GetPhysical(v) ELSE 0

\* The CPU never uses a translation that the current tables do not hold.
TlbCoherent == \A e \in tlb : Translate(cr3, e.virt) = e.phys

\* "Copy kernel mappings (upper half)": in every address space the kernel's
\* upper half is mapped as in the kernel's own tables.
UpperHalfShared ==
    \A s \in spaces, v \in Virts : v[1] >= Half => Translate(s, v) = GetPhysical(v)

\* "Get physical address from virtual address": vmm_get_physical returns the
\* CPU's translation.
GetPhysicalExact ==
    \A v \in Virts : kernel_pml4 # 0 => GetPhysical(v) = Translate(kernel_pml4, v)

\* The page the kernel runs in, identity-mapped in the lower half by the
\* firmware, stays mapped in whatever address space is current.
KernelStaysMapped ==
    \A v \in Virts : v[1] < Half /\ kernel_pml4 # 0 /\ GetPhysical(v) # 0 => Translate(cr3, v) # 0
=============================================================================
