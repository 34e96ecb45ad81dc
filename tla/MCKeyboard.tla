---------------------------- MODULE MCKeyboard -----------------------------
(***************************************************************************)
(* Small instances of Keyboard.                                            *)
(***************************************************************************)
EXTENDS Keyboard

\* One Shift key, Ctrl and the extended key that sends Ctrl's code, an arrow
\* key and a key whose two characters tell loss, order and repetition apart.
OneShift == {"1", "LSHIFT", "LCTRL", "RCTRL", "UP"}
=============================================================================
