---------------------------- MODULE InputParser ----------------------------
(***************************************************************************)
(* input/parser.{hpp,cpp}: what the user's terminal sends, cut anywhere,   *)
(* made into events.  A byte is written [b, k, i]: its value, and which    *)
(* byte of which key it was, which the parser never looks at.  A run of    *)
(* parameter characters is one value: "1:5" for 1;5, "200".                *)
(***************************************************************************)
EXTENDS Integers, Sequences, FiniteSets, SequencesExt

CONSTANTS
  PasteText,      (* the bytes of the one text that is pasted              *)
  MaxPasteChunk,  (* kMaxPasteChunk, in values                             *)
  MaxCsiParams    (* kMaxCsiParamsLen, in values                           *)

(* A sequence a terminal sends has one value between CSI and its end at    *)
(* most; a terminal takes the escapes out of what it pastes.               *)
ASSUME InputParserAssumption ==
  /\ MaxPasteChunk \in Nat /\ MaxPasteChunk > 3
  /\ MaxCsiParams \in Nat /\ MaxCsiParams > 1
  /\ PasteText \in Seq(STRING) /\ ToSet(PasteText) \cap {"esc", "header"} = {}

(* What a terminal sends for each key. *)
PasteStart == <<"esc", "[", "200", "~">>
PasteEnd   == <<"esc", "[", "201", "~">>

Sends ==
  [Escape |-> <<"esc">>, Enter |-> <<"cr">>, LineFeed |-> <<"lf">>, CtrlH |-> <<"bs">>,
   Up |-> <<"esc", "[", "A">>, CtrlUp |-> <<"esc", "[", "1:5", "A">>,
   F1 |-> <<"esc", "O", "P">>, F5 |-> <<"esc", "[", "15", "~">>,
   HomeTilde |-> <<"esc", "[", "1", "~">>,
   Focus |-> <<"esc", "[", "O">>, Press |-> <<"esc", "[", "<0:1:1", "M">>,
   Paste |-> PasteStart \o PasteText \o PasteEnd]

(* The keys of one byte, under the name of the event they cause: Ctrl+\ is  *)
(* 0x1c, which the parser takes for Ctrl and the character 'a' + 0x1b.     *)
Control == [leader |-> "^a", CtrlQ |-> "^q", Backspace |-> "del", CtrlBar |-> "fs"]

Bytes(k) ==
  IF k \in DOMAIN Sends THEN Sends[k]
  ELSE IF k \in DOMAIN Control THEN <<Control[k]>>
  ELSE IF k = "Alt" THEN <<"esc", "x">>
  ELSE IF k = "accent" THEN <<"C3", "A9">>
  ELSE <<k>>

Tagged(k) == [i \in 1..Len(Bytes(k)) |-> [b |-> Bytes(k)[i], k |-> k, i |-> i]]

-----------------------------------------------------------------------------
(* Events. *)
Event(key) == [key |-> key, alt |-> FALSE, text |-> <<>>, complete |-> TRUE]

Pasted(text, complete) == [key |-> "Paste", alt |-> FALSE, text |-> text, complete |-> complete]

AltChar(b) == [Event(b) EXCEPT !.alt = TRUE]

(* A byte that is a key by itself; a stray continuation byte is U+FFFD. *)
CharEvent(b) ==
  Event(CASE b \in {"cr", "lf"} -> "Enter"
          [] b = "bs" -> "Backspace"
          [] b \in {Control[k] : k \in DOMAIN Control} ->
               CHOOSE k \in DOMAIN Control : Control[k] = b
          [] b \in {"C3", "A9"} -> "U+FFFD"
          [] OTHER -> b)

(* 0x20..0x7E.  Every other character is one of these. *)
Printable(b) == b \notin {"esc", "cr", "lf", "bs", "del", "fs", "^a", "^q", "C3", "A9"}

Params == {"1", "1:5", "15", "200", "201", "<0:1:1"}

(* 0x40..0x7E, which ends a CSI sequence: the letters and a few signs. *)
Final(b) == Printable(b) /\ b \notin Params \cup {"space", "question"}

(* key_from_final() and mods_from_param(); key_from_tilde(). *)
KeyFromFinal(params, b) ==
  CASE b = "A" /\ params = <<"1:5">> -> "CtrlUp"
    [] b = "A" /\ params = <<>>      -> "Up"
    [] b = "P"                       -> "F1"
    [] OTHER                         -> "Unknown"

KeyFromTilde(params) ==
  CASE params = <<"15">> -> "F5"
    [] params = <<"1">>  -> "Home"
    [] OTHER             -> "Unknown"

-----------------------------------------------------------------------------
(* An InputParser, without ready_: its events are handled as they come. *)
NewParser == [buf |-> <<>>, in_paste |-> FALSE, esc_pending |-> FALSE, paste_scanned |-> 0]

Values(bytes) == [i \in DOMAIN bytes |-> bytes[i].b]

(* A mutant: the search resumes where it stopped, not a marker's length before. *)
RescanFrom_WhereItStopped(p) == Len(p.buf) - 1

(* Where the search for the end of a paste resumes. *)
RescanFrom(p) ==
  IF p.paste_scanned > Len(PasteEnd) - 1 THEN p.paste_scanned - (Len(PasteEnd) - 1) ELSE 0

(* One step(): how many bytes it takes, the events, and the parser. *)
Took(p, used, events) ==
  [used |-> used, events |-> events,
   parser |-> [p EXCEPT !.buf = SubSeq(@, used + 1, Len(@)), !.esc_pending = FALSE]]

Waits(p) == Took(p, 0, <<>>)

StepInPaste(p) ==
  LET s     == Values(p.buf)
      keep  == Len(PasteEnd) - 1
      ends  == {i \in (RescanFrom(p) + 1)..(Len(s) - keep) : SubSeq(s, i, i + keep) = PasteEnd}
      end   == CHOOSE i \in ends : \A j \in ends : i <= j
      flush == Len(s) - keep
      reset == [p EXCEPT !.paste_scanned = 0]
  IN  IF ends # {}
      THEN Took([reset EXCEPT !.in_paste = FALSE], end + keep, <<Pasted(SubSeq(s, 1, end - 1), TRUE)>>)
      ELSE IF Len(s) >= MaxPasteChunk
      THEN Took(reset, flush, <<Pasted(SubSeq(s, 1, flush), FALSE)>>)
      ELSE Waits([p EXCEPT !.paste_scanned = IF Len(s) >= keep THEN Len(s) - keep ELSE 0])

(* CSI: parameters, then a final byte. *)
StepCsi(p) ==
  LET s      == Values(p.buf)
      finals == {i \in 3..Len(s) : Final(s[i])}
      f      == CHOOSE i \in finals : \A j \in finals : i <= j
      params == SubSeq(s, 3, f - 1)
  IN  IF /\ Len(s) > 2 + MaxCsiParams
         /\ \A i \in finals : i > 2 + MaxCsiParams
      THEN Took(p, 2 + MaxCsiParams, <<>>)
      ELSE IF finals = {} THEN Waits(p)
      ELSE IF params = <<"<0:1:1">> THEN Took(p, f, <<Event("Press")>>)
      ELSE IF s[f] = "O" THEN Took(p, f, <<Event("Focus")>>)
      ELSE IF s[f] = "~"
      THEN IF params = <<"200">>
           THEN Took([p EXCEPT !.in_paste = TRUE, !.paste_scanned = 0], f, <<>>)
           ELSE Took(p, f, <<Event(KeyFromTilde(params))>>)
      ELSE Took(p, f, <<Event(KeyFromFinal(params, s[f]))>>)

Step(p) ==
  LET s == Values(p.buf)
  IN  IF p.in_paste THEN StepInPaste(p)
      ELSE IF s[1] = "C3"
      THEN IF Len(s) < 2 THEN Waits(p)
           ELSE IF s[2] = "A9" THEN Took(p, 2, <<Event("accent")>>)
           ELSE Took(p, 1, <<CharEvent("C3")>>)
      ELSE IF s[1] # "esc" THEN Took(p, 1, <<CharEvent(s[1])>>)
      ELSE IF Len(s) = 1
      THEN [Waits(p) EXCEPT !.parser.esc_pending = TRUE]
      ELSE IF s[2] = "O"
      THEN IF Len(s) < 3 THEN Waits(p) ELSE Took(p, 3, <<Event(KeyFromFinal(<<>>, s[3]))>>)
      ELSE IF s[2] # "[" THEN Took(p, 2, IF Printable(s[2]) THEN <<AltChar(s[2])>> ELSE <<>>)
      ELSE StepCsi(p)

(* timeout(): the undecided bytes become keys of their own. *)
Timeout(p) ==
  LET s == Values(p.buf)
  IN  IF p.in_paste \/ s = <<>> THEN Took(p, 0, <<>>)
      ELSE IF s[1] # "esc" THEN Took(p, 1, <<CharEvent(s[1])>>)
      ELSE Took(p, Len(s), <<Event("Escape")>> \o [i \in 1..(Len(s) - 1) |-> Event(s[i + 1])])
=============================================================================
