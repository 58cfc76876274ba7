------------------------------ MODULE Keyboard ------------------------------
(***************************************************************************)
(* From the user's fingers to the session: the client reads the terminal   *)
(* and frames what it got (client.cpp), the socket cuts the frames, the    *)
(* Decoder puts them together again (proto.cpp), the InputParser makes     *)
(* events, a timer of the event loop decides what a lone escape was        *)
(* (daemon.cpp), and Session::on_input() gives the event to the menu, to   *)
(* the leader key or to the focused window (session.cpp, shortcuts.cpp).   *)
(*                                                                         *)
(* The dialog box and the gestures of the mouse are in Session and in      *)
(* Desktop.                                                                *)
(***************************************************************************)
EXTENDS InputParser

CONSTANTS
  Keys,        (* what the user may type                                   *)
  MaxKeys,     (* how many keys are typed                                  *)
  MaxBytes,    (* and how many bytes that makes, at most                   *)
  MaxFrames,   (* how much of it the socket holds, in frames               *)
  MaxLosses,   (* how often the connection is lost                         *)
  HeaderSize,  (* kHeaderSize, in values                                   *)
  MaxBuffer    (* kMaxBufferBytes, in values                               *)

(* A key is one of those InputParser names, or a character of 0x20..0x7E;   *)
(* no other name of a byte or of an event is one.                          *)
ASSUME KeyboardAssumption ==
  /\ Keys \cap {"esc", "cr", "lf", "bs", "del", "fs", "^a", "^q", "C3", "A9", "header",
                "Unknown", "Home"} = {}
  /\ {MaxKeys, MaxBytes, MaxFrames, MaxLosses} \subseteq Nat
  /\ {HeaderSize, MaxBuffer} \subseteq Nat \ {0}

VARIABLES
  tty,       (* typed, not read by the client                              *)
  wire,      (* framed, not read by the daemon                             *)
  dec,       (* the Decoder: what it has buffered                          *)
  input,     (* the InputParser                                            *)
  at,        (* where the event loop is                                    *)
  esc,       (* esc_armed and esc_deadline                                 *)
  session,   (* leader_, help_, menu_, detach_                             *)
  typed,     (* history: the keys typed                                    *)
  seen,      (* history: the events handled                                *)
  waited,    (* history: how often timeout() was called                    *)
  kept,      (* history: the connection has been kept all the time         *)
  losses     (* how often the connection may still be lost                 *)

vars == <<tty, wire, dec, input, at, esc, session, typed, seen, waited, kept, losses>>

-----------------------------------------------------------------------------
(* The wire.  Every value of a header carries the length of the body. *)
Frame(body) ==
  [i \in 1..HeaderSize |-> [b |-> "header", k |-> "Input", i |-> Len(body)]] \o body

Declared(buf) == HeaderSize + buf[1].i

(* next() has a message to give. *)
HasMessage(buf) == Len(buf) >= HeaderSize /\ Len(buf) >= Declared(buf)

(* feed() refuses what would not fit, and the connection is closed. *)
Overfed(buf, bytes) == Len(buf) + Len(bytes) > MaxBuffer

-----------------------------------------------------------------------------
(* The leader key: LeaderDispatch. *)

Bindings ==
  [h |-> "MoveLeft", Up |-> "MoveUp", d |-> "Detach", space |-> "OpenMenu", question |-> "ShowHelp"]

Lookup(key) == IF key \in DOMAIN Bindings THEN Bindings[key] ELSE "none"

IsRepeatable(action) == action \in {"MoveLeft", "MoveUp"}

LeaderFeed(phase, key) ==
  LET a == Lookup(key)
  IN  CASE phase = "Idle" ->
             [phase |-> IF key = "leader" THEN "Armed" ELSE "Idle",
              consumed |-> key = "leader", action |-> "none"]
        [] phase = "Armed" /\ key = "leader" ->
             [phase |-> "Idle", consumed |-> TRUE, action |-> "LiteralLeader"]
        [] phase = "Repeating" /\ key = "leader" ->
             [phase |-> "Armed", consumed |-> TRUE, action |-> "none"]
        [] phase = "Repeating" /\ key # "leader" ->
             IF IsRepeatable(a)
             THEN [phase |-> "Repeating", consumed |-> TRUE, action |-> a]
             ELSE [phase |-> "Idle", consumed |-> FALSE, action |-> "none"]
        [] OTHER ->
             [phase |-> IF IsRepeatable(a) THEN "Repeating" ELSE "Idle",
              consumed |-> TRUE, action |-> a]

NewSession ==
  [leader |-> "Idle", lapsed |-> FALSE, help |-> FALSE, menu |-> FALSE,
   detach |-> FALSE]

(* menu_key(). *)
MenuKey(s, e) ==
  [s EXCEPT !.menu = e.key \notin {"Escape", "Enter", "leader"}]

DoAction(s, a) ==
  CASE a = "Detach"   -> [s EXCEPT !.detach = TRUE]
    [] a = "OpenMenu" -> [s EXCEPT !.menu = TRUE]
    [] a = "ShowHelp" -> [s EXCEPT !.help = TRUE]
    [] OTHER          -> s

(* on_key(). A character typed with Alt has the bindings of the character.  *)
OnKey(s, e) ==
  LET rested == IF s.leader = "Repeating" /\ s.lapsed
                THEN [s EXCEPT !.leader = "Idle"] ELSE s
      alone  == [rested EXCEPT !.help = FALSE]
      fed    == LeaderFeed(alone.leader, e.key)
  IN  IF e.key = "CtrlQ" THEN [s EXCEPT !.detach = TRUE]
      ELSE IF s.menu THEN MenuKey(s, e)
      ELSE IF e.key = "CtrlUp" THEN [alone EXCEPT !.leader = "Idle"]
      ELSE DoAction([alone EXCEPT !.leader = fed.phase,
                                  !.lapsed = @ /\ fed.action = "none"], fed.action)

(* on_mouse(), a press outside of the menu. *)
OnPress(s) ==
  IF s.help THEN [s EXCEPT !.help = FALSE] ELSE [s EXCEPT !.menu = FALSE]

(* on_paste(): to the focused window, unless the menu is open; this state   *)
(* is left alone.                                                          *)
OnPaste(s, e) == s

(* on_input(), and on_focus(), which ends a gesture of the mouse. *)
OnInput(s, e) ==
  CASE e.key = "Paste" -> OnPaste(s, e)
    [] e.key = "Focus" -> s
    [] e.key = "Press" -> OnPress(s)
    [] OTHER           -> OnKey(s, e)

-----------------------------------------------------------------------------
(* input/encode.cpp: what a terminal window writes to its shell for a key, *)
(* in the default mode of the cursor keys.                                 *)
Encodings ==
  [Escape |-> <<"esc">>, Enter |-> <<"cr">>, accent |-> <<"C3", "A9">>,
   leader |-> <<"^a">>, CtrlQ |-> <<"^q">>, Backspace |-> <<"del">>, CtrlBar |-> <<"|">>,
   Home |-> <<"esc", "[", "H">>,
   Up |-> <<"esc", "[", "A">>, CtrlUp |-> <<"esc", "[", "1:5", "A">>,
   F1 |-> <<"esc", "O", "P">>, F5 |-> <<"esc", "[", "15", "~">>, Unknown |-> <<>>]

(* A mutant: Alt is forgotten. *)
EncodeKey_NoAlt(e) == IF e.key \in DOMAIN Encodings THEN Encodings[e.key] ELSE <<e.key>>

EncodeKey(e) ==
  IF e.key \in DOMAIN Encodings THEN Encodings[e.key]
  ELSE IF e.alt THEN <<"esc", e.key>> ELSE <<e.key>>

-----------------------------------------------------------------------------
(* The mutant: the deadline of a lone escape is never set. *)
EscArmed_Never == "off"

(* esc_armed = true, with a deadline that has not come. *)
EscArmed == "armed"

-----------------------------------------------------------------------------
(* The client reads what there is, or as much as its buffer holds. *)
ClientSend(n) ==
  /\ n \in 1..Len(tty)
  /\ Cardinality({i \in DOMAIN wire : wire[i].b = "header"}) < HeaderSize * MaxFrames
  /\ wire' = wire \o Frame(SubSeq(tty, 1, n))
  /\ tty' = SubSeq(tty, n + 1, Len(tty))
  /\ UNCHANGED <<dec, input, at, esc, session, typed, seen, waited, kept, losses>>

(* drop_client(), and another client that attaches later: everything that  *)
(* belongs to the connection is new, the session is not.                   *)
Dropped ==
  /\ kept' = FALSE
  /\ tty' = <<>> /\ wire' = <<>> /\ dec' = <<>> /\ input' = NewParser
  /\ at' = "top"

(* The top of the loop: esc_pending() and its deadline. *)
EscTurn ==
  /\ at = "top"
  /\ at' = "wait"
  /\ IF input.esc_pending /\ esc = "due"
     THEN LET t == Timeout(input)
          IN  /\ input' = t.parser
              /\ session' = FoldLeft(OnInput, session, t.events)
              /\ seen' = seen \o t.events
              /\ waited' = waited + 1
              /\ esc' = "off"
     ELSE /\ esc' = IF ~input.esc_pending THEN "off"
                    ELSE IF esc = "off" THEN EscArmed ELSE esc
          /\ UNCHANGED <<input, session, seen, waited>>
  /\ UNCHANGED <<tty, wire, dec, typed, kept, losses>>

(* The deadline comes. *)
Elapse ==
  /\ esc = "armed"
  /\ esc' = "due"
  /\ UNCHANGED <<tty, wire, dec, input, at, session, typed, seen, waited, kept, losses>>

(* epoll_wait() returns although nobody wrote: the deadline has come, or    *)
(* something else has happened.                                            *)
Wake ==
  /\ at = "wait"
  /\ esc # "off" \/ session.leader = "Armed"
  /\ at' = "top"
  /\ UNCHANGED <<tty, wire, dec, input, esc, session, typed, seen, waited, kept, losses>>

(* drain_socket(): everything that has been written so far, cut anywhere.  *)
Drain(n) ==
  /\ at = "wait"
  /\ n \in 1..Len(wire)
  /\ IF Overfed(dec, SubSeq(wire, 1, n))
     THEN /\ Dropped
          /\ UNCHANGED <<esc, session, typed, seen, waited, losses>>
     ELSE /\ dec' = dec \o SubSeq(wire, 1, n)
          /\ wire' = SubSeq(wire, n + 1, Len(wire))
          /\ at' = "decode"
          /\ UNCHANGED <<tty, input, esc, session, typed, seen, waited, kept, losses>>

(* Decoder::next(), until it has nothing more. *)
Decode ==
  /\ at = "decode"
  /\ IF HasMessage(dec)
     THEN /\ input' = [input EXCEPT !.buf = @ \o SubSeq(dec, HeaderSize + 1, Declared(dec))]
          /\ dec' = SubSeq(dec, Declared(dec) + 1, Len(dec))
          /\ at' = "pump"
     ELSE /\ at' = "top"
          /\ UNCHANGED <<input, dec>>
  /\ UNCHANGED <<tty, wire, esc, session, typed, seen, waited, kept, losses>>

(* InputParser::pump(), one step() at a time, and on_input() for what it   *)
(* yields.                                                                 *)
Pump ==
  /\ at = "pump"
  /\ IF input.buf = <<>>
     THEN /\ at' = "decode"
          /\ UNCHANGED <<input, session, seen>>
     ELSE LET t == Step(input)
          IN  /\ input' = t.parser
              /\ session' = FoldLeft(OnInput, session, t.events)
              /\ seen' = seen \o t.events
              /\ at' = IF t.used = 0 THEN "decode" ELSE "pump"
  /\ UNCHANGED <<tty, wire, dec, esc, typed, waited, kept, losses>>

(* take_detach(), after the batch. *)
Detach ==
  /\ at = "top" /\ session.detach
  /\ session' = [session EXCEPT !.detach = FALSE]
  /\ Dropped
  /\ UNCHANGED <<esc, typed, seen, waited, losses>>

(* The connection breaks, or another client takes the session over. *)
Lose ==
  /\ at = "wait" /\ losses > 0
  /\ losses' = losses - 1
  /\ Dropped
  /\ UNCHANGED <<esc, session, typed, seen, waited>>

(* The time since the last gesture of a series, and since the leader key,  *)
(* which take_dirty() looks at.                                            *)
SeriesLapses ==
  /\ session.leader = "Repeating" /\ ~session.lapsed
  /\ session' = [session EXCEPT !.lapsed = TRUE]
  /\ UNCHANGED <<tty, wire, dec, input, at, esc, typed, seen, waited, kept, losses>>

HelpComes ==
  /\ at = "top" /\ session.leader = "Armed" /\ ~session.help
  /\ session' = [session EXCEPT !.help = TRUE]
  /\ UNCHANGED <<tty, wire, dec, input, at, esc, typed, seen, waited, kept, losses>>

(* A key that the client has not read is as good as not typed. *)
Init ==
  /\ \E n \in 0..MaxKeys : typed \in [1..n -> Keys]
  /\ tty = FlattenSeq([j \in DOMAIN typed |-> Tagged(typed[j])])
  /\ Len(tty) <= MaxBytes
  /\ wire = <<>> /\ dec = <<>> /\ input = NewParser
  /\ at = "top" /\ esc = "off" /\ session = NewSession
  /\ seen = <<>> /\ waited = 0 /\ kept = TRUE /\ losses = MaxLosses

Next ==
  \/ \E n \in 1..Len(tty) : ClientSend(n)
  \/ \E n \in 1..Len(wire) : Drain(n)
  \/ EscTurn \/ Elapse \/ Wake \/ Decode \/ Pump \/ Detach \/ Lose
  \/ SeriesLapses \/ HelpComes

(* The loop turns, time passes, and with a client attached epoll_wait()    *)
(* sleeps for a second at most.                                            *)
Spec ==
  /\ Init /\ [][Next]_vars
  /\ WF_vars(EscTurn) /\ WF_vars(Elapse) /\ WF_vars(Wake) /\ WF_vars(Decode) /\ WF_vars(Pump)

-----------------------------------------------------------------------------
(* Properties *)

Body(bytes) ==
  FlattenSeq([i \in DOMAIN bytes |-> IF bytes[i].b = "header" THEN <<>> ELSE <<bytes[i]>>])

(* Everything typed that no event has used yet. *)
Flight == input.buf \o Body(dec) \o Body(wire) \o tty

Promise ==
  INSTANCE KeyStream WITH todo <- Flight, inside <- input.in_paste

(* The reads of the client, the frames, the cuts of the socket and the     *)
(* slices of a paste are invisible: what the session handles is what       *)
(* KeyStream allows.                                                       *)
KeysArrive == Promise!Spec

(* Nothing opens a sequence but a terminal: Escape and then one of these,  *)
(* typed in the same breath, is what a terminal sends for Alt with it, and *)
(* nothing tells it from the beginning of a sequence.                      *)
NoOpener == Keys \cap {"[", "O"} = {}

(* Keys, and Escape before nothing that it would take along. *)
PlainlyTyped ==
  /\ kept
  /\ Range(typed) \cap {"Paste", "Press", "Focus"} = {}
  /\ \A j \in 1..(Len(typed) - 1) : typed[j] = "Escape" => Printable(Bytes(typed[j + 1])[1])

(* What a window that gets every key would have written to its shell. *)
Written == FlattenSeq([j \in DOMAIN seen |-> EncodeKey(seen[j])])

(* What the desktop makes of a byte: the line feed of Ctrl+J comes out as  *)
(* Enter, Ctrl+H as Backspace and Ctrl+\ as a bar.                         *)
Rewritten(b) == CASE b = "lf" -> "cr" [] b = "bs" -> "del" [] b = "fs" -> "|" [] OTHER -> b
Rewrite(s) == [i \in DOMAIN s |-> Rewritten(s[i])]

(* A window that gets every key is as good as no desktop in between: the   *)
(* bytes it would write to its shell, and those still on their way, are    *)
(* the bytes that were typed, but for the three that are rewritten,        *)
(* wherever they were cut and whenever the deadline came.  Escape takes    *)
(* the next byte with it unless it is printable; Home has two encodings,   *)
(* and comes out in the other one; a paste, the mouse and the focus are    *)
(* not keys.                                                               *)
Transparent ==
  PlainlyTyped /\ "HomeTilde" \notin Range(typed)
  => Written \o Rewrite(Values(Flight))
       = FlattenSeq([j \in DOMAIN typed |-> Rewrite(Bytes(typed[j]))])

(* A lone escape is decided even if nothing is typed after it: "dans vim,  *)
(* l'echappement ne quittait JAMAIS le mode insertion".                    *)
EscapeDecided == input.esc_pending ~> ~input.esc_pending
=============================================================================
