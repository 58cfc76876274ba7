----------------------------- MODULE MCKeyboard -----------------------------
(* Two keys of these; the text that is pasted holds the byte of Ctrl+Q.       *)
EXTENDS Keyboard

Typeable ==
  {"d", "space", "leader", "CtrlQ", "Enter", "Escape", "Up", "CtrlUp",
   "F1", "Press", "Alt", "accent", "Paste", "Backspace", "LineFeed", "CtrlH",
   "CtrlBar", "HomeTilde"}

Text == <<"x", "^q">>
=============================================================================
