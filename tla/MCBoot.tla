------------------------------- MODULE MCBoot ------------------------------
(***************************************************************************)
(* Small instances of Boot.                                                *)
(***************************************************************************)
EXTENDS Boot

\* Firmware data, the kernel's place with its BSS, and above 2MB free memory,
\* the heap's page, boot services data and the loader.
NinePages == [p \in 0..8 |-> IF p = 0 THEN 6 ELSE IF p = 6 THEN 4 ELSE IF p = 8 THEN 2 ELSE 7]
=============================================================================
