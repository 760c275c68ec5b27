----------------------------- MODULE MCDosKeyboard -----------------------------
(* Small instances of DosKeyboard for TLC. *)
EXTENDS DosKeyboard

TypingKeys == {"LEFT_CONTROL", "RIGHT_CONTROL", "F13", "CAPS_LOCK", "HOME", "PAUSE"}
MediaKeys == {"SLEEP", "LEFT_CONTROL"}
KeypadKeys == {"NUM_LOCK", "KP_7"}
CapsKey == {"CAPS_LOCK"}
================================================================================
