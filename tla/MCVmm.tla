------------------------------- MODULE MCVmm -------------------------------
(***************************************************************************)
(* Small instances of Vmm.                                                 *)
(***************************************************************************)
EXTENDS VmmProofs, TLC

\* Two pages of the upper half that share a PML4 entry and one of the lower.
ThreePages == {<<1, 0, 0, 0>>, <<1, 1, 0, 0>>, <<0, 0, 0, 1>>}

NoTables == [cr3 |-> 0, tables |-> <<>>]

\* The firmware maps one page of the lower half.
OnePage == [cr3 |-> 2,
            tables |-> (2 :> <<3, 0>> @@ 3 :> <<4, 0>> @@ 4 :> <<5, 0>> @@ 5 :> <<0, 9>>)]

\* The firmware maps the page with a huge entry; frame 5 is data.
HugePage == [cr3 |-> 2,
             tables |-> (2 :> <<3, 0>> @@ 3 :> <<4, 0>> @@ 4 :> <<-5, 0>> @@ 5 :> <<1, 1>>)]

WithTables(f) ==
    [f EXCEPT !.tables = [p \in DOMAIN @ |-> [i \in Idx |-> @[p][i + 1]]]]

SmallFirmware == {WithTables(NoTables), WithTables(OnePage)}
AnyFirmware == {WithTables(OnePage), WithTables(HugePage)}

\* The theorems assume SoundFirmware: the tables of OnePage are such a tree.
OnePageLevel == [x \in Frames |-> IF x \in 2..5 THEN x - 1 ELSE 0]

ASSUME OnePageSound ==
    LET f == WithTables(OnePage)
    IN /\ DOMAIN f.tables \subseteq Frames /\ OnePageLevel \in Levels
       /\ Tree(FirmwareMem(f), f.cr3, OnePageLevel)
       /\ \A x \in Frames : OnePageLevel[x] # 0 <=> x \in DOMAIN f.tables
=============================================================================
