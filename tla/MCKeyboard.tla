----------------------------- MODULE MCKeyboard -----------------------------
(* One key of each kind, and a ring that a few of them fill.                *)
EXTENDS Keyboard
=============================================================================
