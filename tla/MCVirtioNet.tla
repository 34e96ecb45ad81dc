---------------------------- MODULE MCVirtioNet ----------------------------
(***************************************************************************)
(* Small instances of VirtioNet.                                           *)
(***************************************************************************)
EXTENDS VirtioNet, TLC

K(type, dest, fits) == [type |-> type, request |-> TRUE, dest |-> dest, fits |-> fits]

\* A frame that is answered, one whose answer is too long, and one for another
\* machine.
SmallKinds == {K("arp", "us", TRUE), K("ping", "all", FALSE), K("arp", "other", TRUE)}

F(card, io, base) == [card |-> card, io |-> io, base |-> base]

\* No card; a card behind a function that is not scanned; cards without a
\* usable BAR; and the card as second function of a slot.
Bus(fns, multi) == [functions |-> fns, multi |-> multi]
OneCard == Bus(<<0, 0>> :> F(FALSE, FALSE, 0) @@ <<1, 0>> :> F(FALSE, FALSE, 0) @@
               <<1, 1>> :> F(TRUE, TRUE, 1), {1})
SmallBuses == { Bus(<<0, 0>> :> F(FALSE, TRUE, 1), {}),
                Bus(<<0, 1>> :> F(TRUE, TRUE, 1), {0}),
                [OneCard EXCEPT !.multi = {}],
                [OneCard EXCEPT !.functions[<<1, 1>>].io = FALSE],
                [OneCard EXCEPT !.functions[<<1, 1>>].base = 0],
                OneCard }
GoodBus == {OneCard}
=============================================================================
