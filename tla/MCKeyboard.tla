------------------------------ MODULE MCKeyboard ------------------------------
(***************************************************************************)
(* Two keyboards with two events under way: one with a single key for each *)
(* modifier, one with a pair of each.                                      *)
(***************************************************************************)
EXTENDS Keyboard

OneEach == {"lshift", "rctrl", "lalt", "caps", "a", "1", "delete"}
Pairs   == {"lshift", "rshift", "lctrl", "rctrl", "lalt", "ralt", "a", "delete"}

MCKeyboards == {OneEach, Pairs}
===============================================================================
