------------------------------- MODULE Daemon -------------------------------
(***************************************************************************)
(* daemon/daemon.cpp, run_daemon(): one thread, one epoll, at most one     *)
(* attached client and one connection that has not said Hello yet, and the *)
(* peers at the other end of the sockets (client/client.cpp, run_client(), *)
(* and the mute probes of main.cpp).                                       *)
(*                                                                         *)
(* A turn of the loop is Wake (epoll_wait), one step per reported event,   *)
(* EndBatch, Compose and CloseOrContinue.  Peers run between any two of    *)
(* these steps: an event is handled in a state later than the one that     *)
(* epoll_wait reported.                                                    *)
(***************************************************************************)
EXTENDS MessageQueue, FiniteSets

CONSTANTS
  Peer,       (* processes that connect, each at most once                 *)
  None,       (* no peer, no message                                       *)
  Sizes,      (* terminal sizes, as naturals                               *)
  Inputs,     (* what users do: subset of AllInputs                        *)
  Builds,     (* build ids in use: "same" as the daemon's, or "other"      *)
  MaxInput,   (* bound: inputs per peer                                    *)
  MaxApp,     (* bound: wake-ups of applications                           *)
  Signals     (* whether SIGTERM may be sent                               *)

AllInputs == {"key", "press", "release", "repaint", "detach", "update", "quit", "bad"}

ASSUME DaemonAssumption ==
  /\ None \notin Peer
  /\ Sizes \subseteq Nat /\ Sizes # {}
  /\ Inputs \subseteq AllInputs
  /\ Builds \subseteq {"same", "other"}
  /\ MaxInput \in Nat /\ MaxApp \in Nat
  /\ Signals \in BOOLEAN

VARIABLES
  (* the peers *)
  stage,      (* "idle", "mute" (connected), "said" (Hello sent), "over"   *)
  term,       (* size of the peer's terminal                               *)
  winch,      (* g_winch                                                   *)
  typing,     (* message a blocking write_all() is sending, or None        *)
  typed,      (* inputs so far                                             *)
  shown,      (* the screen the peer displays                              *)
  rc,         (* exit status: "none", "ok", "fail", "restart"              *)
  (* the sockets *)
  up, down,   (* bytes in the kernel, as whole messages                    *)
  dropped,    (* the daemon closed its end                                 *)
  backlog,    (* connections not accepted yet                              *)
  listening,  (* the listening socket is open                              *)
  (* the daemon *)
  gen,        (* generation of the connection's epoll key, 0 before accept *)
  nextGen,    (* next_gen                                                  *)
  client, pending,
  late,       (* pending_deadline has passed                               *)
  out,        (* client->out                                               *)
  armed,      (* EPOLLOUT is in the client's epoll mask                    *)
  known,      (* what client->differ believes the peer displays            *)
  dirty,      (* FrameClock::dirty_                                        *)
  paced,      (* the last frame is less than kFrameIntervalMs old          *)
  phase, batch, closedNow, running,
  (* the session *)
  ver, size, drag, wish, sdirty, apps

peerVars == <<stage, term, winch, typing, typed, shown, rc>>
sockVars == <<up, down, dropped, backlog, listening>>
seatVars == <<client, out, armed, known, dirty, paced>>
loopVars == <<phase, batch, closedNow, running>>
sessVars == <<ver, size, drag, wish, sdirty, apps>>
vars == <<peerVars, sockVars, seatVars, loopVars, sessVars, gen, nextGen, pending, late>>

KeyListener == 1
KeySignal == 3
KeyApp == 4
GenFirstDynamic == 16

Screen(v, s) == [type |-> "screen", ver |-> v, size |-> s]
Cur == Screen(ver, size)
Garbled == [type |-> "garbled"]

Hello(s, b) == [type |-> "Hello", size |-> s, build |-> b]
Input(i) == [type |-> IF i = "bad" THEN "Bad" ELSE "Input", what |-> i]
Resize(s) == [type |-> "Resize", size |-> s]
Welcome == [type |-> "Welcome"]
Incompatible == [type |-> "Incompatible"]
Frame(b, s) == [type |-> "Frame", base |-> b, to |-> s]
Detached(r) == [type |-> "Detached", reason |-> r]

(* The peer's end is closed: its process has ended. *)
Hung(p) == stage[p] = "over"

Init ==
  /\ stage = [p \in Peer |-> "idle"]
  /\ term \in [Peer -> Sizes]
  /\ winch = [p \in Peer |-> FALSE]
  /\ typing = [p \in Peer |-> None]
  /\ typed = [p \in Peer |-> 0]
  /\ shown = [p \in Peer |-> Repaint]
  /\ rc = [p \in Peer |-> "none"]
  /\ up = [p \in Peer |-> <<>>] /\ down = [p \in Peer |-> <<>>]
  /\ dropped = [p \in Peer |-> FALSE]
  /\ backlog = <<>> /\ listening = TRUE
  /\ gen = [p \in Peer |-> 0] /\ nextGen = GenFirstDynamic
  /\ client = None /\ pending = None /\ late = FALSE
  /\ out = EmptyQueue /\ armed = FALSE /\ known = Repaint
  /\ dirty = FALSE /\ paced = FALSE
  /\ phase = "wait" /\ batch = <<>> /\ closedNow = {} /\ running = TRUE
  /\ ver = 0 /\ size \in Sizes /\ drag = FALSE /\ wish = {} /\ sdirty = FALSE
  /\ apps = 0

-----------------------------------------------------------------------------
(* The peers. *)

(* connect_abstract() or connect_with_timeout(). *)
Connect(p) ==
  /\ stage[p] = "idle" /\ listening
  /\ stage' = [stage EXCEPT ![p] = "mute"]
  /\ backlog' = Append(backlog, p)
  /\ UNCHANGED <<term, winch, typing, typed, shown, rc, up, down, dropped,
                 listening, seatVars, loopVars, sessVars, gen, nextGen, pending, late>>

Exit(p, status) ==
  /\ stage' = [stage EXCEPT ![p] = "over"]
  /\ rc' = [rc EXCEPT ![p] = status]

(* A probe closes without a word: --status, --kill, main()'s first connect. *)
ProbeCloses(p) ==
  /\ stage[p] = "mute"
  /\ Exit(p, "ok")
  /\ UNCHANGED <<term, winch, typing, typed, shown, sockVars, seatVars,
                 loopVars, sessVars, gen, nextGen, pending, late>>

(* run_client() up to its loop: TtyGuard, term_size(), Hello. *)
SayHello(p) ==
  /\ stage[p] = "mute"
  /\ \/ /\ dropped[p]
        /\ Exit(p, "fail")
        /\ UNCHANGED up
     \/ /\ ~dropped[p]
        /\ \E b \in Builds : up' = [up EXCEPT ![p] = Append(@, Hello(term[p], b))]
        /\ stage' = [stage EXCEPT ![p] = "said"]
        /\ UNCHANGED rc
  /\ UNCHANGED <<term, winch, typing, typed, shown, down, dropped, backlog,
                 listening, seatVars, loopVars, sessVars, gen, nextGen, pending, late>>

(* The user resizes the terminal, SIGWINCH sets g_winch. Bound: it grows.   *)
Winch(p) ==
  /\ stage[p] = "said"
  /\ \E s \in Sizes : s > term[p] /\ term' = [term EXCEPT ![p] = s]
  /\ winch' = [winch EXCEPT ![p] = TRUE]
  /\ UNCHANGED <<stage, typing, typed, shown, rc, sockVars, seatVars,
                 loopVars, sessVars, gen, nextGen, pending, late>>

(* The loop starts a write: a Resize if g_winch is set, else what was typed. *)
StartWrite(p) ==
  /\ stage[p] = "said" /\ typing[p] = None
  /\ \/ /\ winch[p]
        /\ winch' = [winch EXCEPT ![p] = FALSE]
        /\ typing' = [typing EXCEPT ![p] = Resize(term[p])]
        /\ UNCHANGED typed
     \/ /\ typed[p] < MaxInput
        /\ typed' = [typed EXCEPT ![p] = @ + 1]
        /\ \E i \in Inputs : typing' = [typing EXCEPT ![p] = Input(i)]
        /\ UNCHANGED winch
  /\ UNCHANGED <<stage, term, shown, rc, sockVars, seatVars, loopVars, sessVars,
                 gen, nextGen, pending, late>>

(* write_all(): blocks while the socket is full, fails on a closed one. *)
FinishWrite(p) ==
  /\ stage[p] = "said" /\ typing[p] # None
  /\ \/ /\ dropped[p]
        /\ Exit(p, "fail")
        /\ UNCHANGED up
     \/ /\ ~dropped[p] /\ Len(up[p]) < SockRoom
        /\ up' = [up EXCEPT ![p] = Append(@, typing[p])]
        /\ UNCHANGED <<stage, rc>>
  /\ typing' = [typing EXCEPT ![p] = None]
  /\ UNCHANGED <<term, winch, typed, shown, down, dropped, backlog, listening,
                 seatVars, loopVars, sessVars, gen, nextGen, pending, late>>

Display(p, m) ==
  shown' = [shown EXCEPT ![p] =
    IF m.base = Repaint \/ m.base = @ THEN m.to ELSE Garbled]

(* read() on the socket, and the message it completes. After a torn message *)
(* the Decoder either swallows what it gets or fails.                       *)
ReadSocket(p) ==
  /\ stage[p] = "said" /\ typing[p] = None
  /\ \/ /\ down[p] # <<>>
        /\ down' = [down EXCEPT ![p] = Tail(@)]
        /\ LET m == Head(down[p]) IN
           \/ /\ m.type = "Frame" /\ Display(p, m)
              /\ UNCHANGED <<stage, rc>>
           \/ /\ m.type \in {"Welcome", "Garbage"}
              /\ UNCHANGED <<stage, rc, shown>>
           \/ /\ m.type = "Detached"
              /\ Exit(p, IF m.reason = "update" THEN "restart" ELSE "ok")
              /\ UNCHANGED shown
           \/ /\ m.type \in {"Incompatible", "Garbage"}
              /\ Exit(p, "fail") /\ UNCHANGED shown
     \/ /\ down[p] = <<>> /\ dropped[p]
        /\ Exit(p, "fail") /\ UNCHANGED <<down, shown>>
  /\ UNCHANGED <<term, winch, typing, typed, up, dropped, backlog, listening,
                 seatVars, loopVars, sessVars, gen, nextGen, pending, late>>

(* The user's terminal goes away: read() on stdin returns 0, the loop ends. *)
Leave(p) ==
  /\ stage[p] = "said" /\ typing[p] = None
  /\ Exit(p, "ok")
  /\ UNCHANGED <<term, winch, typing, typed, shown, sockVars, seatVars,
                 loopVars, sessVars, gen, nextGen, pending, late>>

PeerStep(p) ==
  \/ Connect(p) \/ ProbeCloses(p) \/ SayHello(p) \/ Winch(p) \/ StartWrite(p)
  \/ FinishWrite(p) \/ ReadSocket(p) \/ Leave(p)

-----------------------------------------------------------------------------
(* The mutants of the daemon's definitions: slips that would compile. *)

Repair_NoInvalidate(verdict) ==
  /\ known' = Cur
  /\ dirty' = (verdict = "Clean")

Repair_NotDirty(verdict) ==
  /\ known' = IF verdict = "Clean" THEN Repaint ELSE Cur
  /\ dirty' = FALSE

PendingTimeout_NotFolded == FALSE

ClientMask_OutOnly == [in |-> ~armed, out |-> armed]

RestartListener_AnnouncesFirst == UNCHANGED <<listening, backlog, dropped>>

-----------------------------------------------------------------------------
(* Closing connections. *)

(* drop_client()'s last words: push Detached, flush once, whatever happens. *)
LastWords(p, q, sent, reason) ==
  IF reason = None \/ Hung(p) THEN {sent}
  ELSE {f.sent : f \in Flush(Push(q, Detached(reason)), sent)}

(* Both drop_client() and drop_pending() close the descriptor and remember  *)
(* its key for the rest of the batch.                                       *)
CloseAll(S) ==
  /\ dropped' = [p \in Peer |-> dropped[p] \/ p \in S]
  /\ closedNow' = closedNow \cup {gen[p] : p \in S}

(* What drop_client() leaves behind: clock.reset(), session.cancel_drag().  *)
SeatAfterDrop ==
  /\ client' = None /\ out' = EmptyQueue /\ armed' = FALSE /\ known' = Repaint
  /\ dirty' = FALSE /\ paced' = FALSE /\ drag' = FALSE

(* drop_client(reason) with the queue and the socket as they are. *)
DropClient(q, sent, reason) ==
  /\ \E d \in LastWords(client, q, sent, reason) : down' = [down EXCEPT ![client] = d]
  /\ SeatAfterDrop

-----------------------------------------------------------------------------
(* epoll_wait(). *)

Event(key, i, o, h) == [key |-> key, in |-> i, out |-> o, hup |-> h]

(* What a connection has for a given epoll mask; EPOLLHUP needs no mask. *)
ConnectionEvent(p, mask) ==
  Event(gen[p],
        mask.in /\ (up[p] # <<>> \/ Hung(p)),
        mask.out /\ (Len(down[p]) < SockRoom \/ Hung(p)),
        Hung(p))

(* EPOLLIN, with EPOLLOUT when it is armed. *)
ClientMask == [in |-> TRUE, out |-> armed]

Ready ==
  LET conn == (IF client = None THEN {} ELSE {ConnectionEvent(client, ClientMask)})
              \cup (IF pending = None THEN {}
                    ELSE {ConnectionEvent(pending, [in |-> TRUE, out |-> FALSE])})
  IN  (IF listening /\ backlog # <<>> THEN {Event(KeyListener, TRUE, FALSE, FALSE)} ELSE {})
      \cup {e \in conn : e.in \/ e.out \/ e.hup}

(* Events the outside adds: an application's descriptor, SIGTERM. *)
Outside ==
  (IF apps < MaxApp THEN {Event(KeyApp, TRUE, FALSE, FALSE)} ELSE {})
  \cup (IF Signals /\ running THEN {Event(KeySignal, TRUE, FALSE, FALSE)} ELSE {})

(* pending_deadline is folded into the timeout of epoll_wait(). *)
PendingTimeout == pending # None /\ late

(* With a client the loop never sleeps more than a second; with a pending   *)
(* connection it wakes at the deadline; otherwise only events wake it.      *)
TimeoutDue == client # None \/ PendingTimeout

Wake ==
  /\ phase = "wait"
  /\ \E extra \in SUBSET Outside :
       LET R == Ready \cup extra IN
       /\ R # {} \/ TimeoutDue
       /\ batch' \in SetToSeqs(R)
  /\ phase' = "batch" /\ closedNow' = {}
  /\ UNCHANGED <<peerVars, sockVars, seatVars, sessVars, running, gen, nextGen, pending, late>>

(* The event at the head of the batch, in the order of the code's tests. *)
Current(key) ==
  /\ phase = "batch" /\ batch # <<>> /\ Head(batch).key = key
  /\ batch' = Tail(batch) /\ phase' = phase

(* SIGTERM or SIGINT: the turn is finished, then the loop ends. *)
OnSignal ==
  /\ Current(KeySignal)
  /\ running' = FALSE
  /\ UNCHANGED <<peerVars, sockVars, seatVars, sessVars, closedNow, gen, nextGen, pending, late>>

(* accept_peer(): one connection per turn; it becomes the pending one, and  *)
(* the one that was pending is closed.                                      *)
OnListener ==
  /\ Current(KeyListener)
  /\ LET p == Head(backlog) IN
     /\ backlog' = Tail(backlog)
     /\ CloseAll({pending} \ {None})
     /\ pending' = p
     /\ gen' = [gen EXCEPT ![p] = nextGen]
     /\ nextGen' = nextGen + 1
     /\ late' = FALSE
  /\ UNCHANGED <<peerVars, up, down, listening, seatVars, sessVars, running>>

(* An application reads its descriptor and calls Host::invalidate(). *)
OnApp ==
  /\ Current(KeyApp)
  /\ ver' = ver + 1 /\ apps' = apps + 1 /\ sdirty' = TRUE
  /\ UNCHANGED <<peerVars, sockVars, seatVars, size, drag, wish, closedNow,
                 running, gen, nextGen, pending, late>>

(* A connection closed earlier in this batch: the event is skipped. *)
OnClosed ==
  /\ \E key \in closedNow : Current(key)
  /\ UNCHANGED <<peerVars, sockVars, seatVars, sessVars, closedNow, running,
                 gen, nextGen, pending, late>>

-----------------------------------------------------------------------------
(* An event of the attached client. *)

(* One message from the client: session.on_input(), session.resize(). *)
Apply(s, m) ==
  IF m.type = "Resize"
  THEN [s EXCEPT !.size = m.size, !.stale = TRUE, !.dirty = TRUE]
  ELSE IF m.type # "Input" THEN s
  ELSE [s EXCEPT !.dirty = TRUE,
                 !.ver  = IF m.what = "key" THEN @ + 1 ELSE @,
                 !.drag = CASE m.what = "press" -> TRUE
                            [] m.what = "release" -> FALSE
                            [] OTHER -> @,
                 !.wish = @ \cup ({m.what} \cap {"repaint", "detach", "update", "quit"})]

(* Decoder::next() until it fails: what follows an invalid message is lost. *)
IsBad(m) == m.type = "Bad"
Failed(ms) == \E i \in DOMAIN ms : IsBad(ms[i])
Valid(ms) == IF Failed(ms) THEN SubSeq(ms, 1, SelectInSeq(ms, IsBad) - 1) ELSE ms

(* EPOLLOUT on a dead peer: flush() fails, nothing is read. *)
OnClientWriteError ==
  /\ client # None /\ Current(gen[client])
  /\ gen[client] \notin closedNow
  /\ Head(batch).out /\ Hung(client) /\ WantsWrite(out)
  /\ CloseAll({client})
  /\ DropClient(out, down[client], None)
  /\ UNCHANGED <<peerVars, up, backlog, listening, ver, size, wish, sdirty, apps, running, gen, nextGen, pending, late>>

(* EPOLLOUT is disarmed once the queue is empty. *)
DisarmIfDrained(e, q) == armed' = (armed /\ ~(e.out /\ ~WantsWrite(q)))

(* Flush, disarm, drain and decode, then close if the peer is invalid or gone. *)
OnClient ==
  /\ client # None /\ Current(gen[client])
  /\ gen[client] \notin closedNow
  /\ LET e   == Head(batch)
         ms  == IF e.in THEN up[client] ELSE <<>>
         s   == FoldLeft(Apply, [ver |-> ver, size |-> size, drag |-> drag,
                                 wish |-> wish, stale |-> FALSE, dirty |-> dirty], Valid(ms))
         bye == IF Failed(ms) THEN "invalid" ELSE None
     IN
     /\ ~(e.out /\ Hung(client) /\ WantsWrite(out))
     /\ up' = [up EXCEPT ![client] = IF e.in THEN <<>> ELSE @]
     /\ ver' = s.ver /\ size' = s.size /\ wish' = s.wish
     /\ \E f \in IF e.out THEN Flush(out, down[client])
                 ELSE {[queue |-> out, sent |-> down[client]]} :
          \/ /\ Failed(ms) \/ (Hung(client) /\ e.in) \/ e.hup
             /\ CloseAll({client})
             /\ DropClient(f.queue, f.sent, bye)
          \/ /\ ~Failed(ms) /\ ~(Hung(client) /\ e.in) /\ ~e.hup
             /\ out' = f.queue
             /\ down' = [down EXCEPT ![client] = f.sent]
             /\ DisarmIfDrained(e, f.queue)
             /\ known' = IF s.stale THEN Repaint ELSE known
             /\ dirty' = s.dirty /\ drag' = s.drag
             /\ UNCHANGED <<client, paced, dropped, closedNow>>
  /\ UNCHANGED <<peerVars, backlog, listening, sdirty, apps, running, gen,
                 nextGen, pending, late>>

-----------------------------------------------------------------------------
(* An event of the pending connection. *)

OnPendingKey ==
  /\ pending # None /\ Current(gen[pending])
  /\ gen[pending] \notin closedNow

(* run_client() writes its Hello whole: bytes that hold no Hello, which the  *)
(* code decodes and keeps waiting, come from none of the peers.              *)
Received == IF Head(batch).in THEN up[pending] ELSE <<>>
Hellos == SelectSeq(Valid(Received), LAMBDA m : m.type = "Hello")

(* drop_pending(), after last words that only a mismatched build gets. *)
DropPending(words) ==
  /\ CloseAll({pending})
  /\ pending' = None
  /\ up' = [up EXCEPT ![pending] = IF Head(batch).in THEN <<>> ELSE @]
  /\ down' = [down EXCEPT ![pending] = @ \o words]
  /\ UNCHANGED <<peerVars, backlog, listening, seatVars, sessVars, running, gen, nextGen, late>>

(* A protocol violation, or a connection closed without a Hello. *)
OnPendingGone ==
  /\ OnPendingKey
  /\ \/ Failed(Received)
     \/ Hellos = <<>> /\ ((Hung(pending) /\ Head(batch).in) \/ Head(batch).hup)
  /\ DropPending(<<>>)

OnPendingMismatch ==
  /\ OnPendingKey
  /\ ~Failed(Received) /\ Hellos # <<>> /\ Head(Hellos).build # "same"
  /\ DropPending(<<Incompatible>>)

(* A compatible Hello: the client in place is dismissed, the pending        *)
(* connection takes the seat, and whatever came with the Hello is dropped.  *)
OnPendingHello ==
  /\ OnPendingKey
  /\ ~Failed(Received) /\ Hellos # <<>> /\ Head(Hellos).build = "same"
  /\ IF client = None
     THEN UNCHANGED <<down, dropped, closedNow, paced>>
     ELSE /\ \E d \in LastWords(client, out, down[client], "taken") :
               down' = [down EXCEPT ![client] = d]
          /\ CloseAll({client})
          /\ paced' = FALSE
  /\ client' = pending /\ pending' = None
  /\ up' = [up EXCEPT ![pending] = <<>>]
  /\ out' = Push(EmptyQueue, Welcome)
  /\ armed' = FALSE /\ known' = Repaint /\ dirty' = TRUE
  /\ size' = Head(Hellos).size /\ drag' = FALSE
  /\ UNCHANGED <<peerVars, backlog, listening, ver, wish, sdirty, apps,
                 running, gen, nextGen, late>>

-----------------------------------------------------------------------------
(* The end of a turn. *)

(* The pending deadline, Session::take_dirty(), Session::take_detach(). *)
EndBatch ==
  /\ phase = "batch" /\ batch = <<>>
  /\ phase' = "compose"
  /\ LET expired == IF pending # None /\ late THEN {pending} ELSE {}
         leaves  == "detach" \in wish /\ client # None
     IN
     /\ CloseAll(expired \cup IF leaves THEN {client} ELSE {})
     /\ pending' = IF expired = {} THEN pending ELSE None
     /\ IF leaves
        THEN DropClient(out, down[client], "detached")
        ELSE /\ dirty' = (dirty \/ sdirty)
             /\ UNCHANGED <<client, out, armed, known, paced, drag, down>>
  /\ sdirty' = FALSE
  /\ wish' = wish \ {"detach"}
  /\ UNCHANGED <<peerVars, up, backlog, listening, batch, running, ver, size, apps,
                 gen, nextGen, late>>

(* FrameClock::delay_ms() = 0, with someone to draw for. *)
FrameDue == client # None /\ dirty /\ ~paced

(* Differ::frame() against what the peer is believed to display. *)
Base == IF "repaint" \in wish \/ known.type # "screen" \/ known.size # size
        THEN Repaint ELSE known

QueueWithFrame == IF Base = Cur THEN out ELSE Push(out, Frame(Base, Cur))

(* A clean overflow invalidates the differ and asks for another frame. *)
Repair(verdict) ==
  /\ known' = IF verdict = "Clean" THEN Repaint ELSE Cur
  /\ dirty' = (verdict = "Clean")

(* EPOLLOUT is armed when bytes remain. *)
ArmIfNeeded(q) == armed' = (armed \/ WantsWrite(q))

(* Composition: at most one frame per interval, after everything is read. *)
Compose ==
  /\ phase = "compose" /\ phase' = "stop"
  /\ \/ ~FrameDue /\ UNCHANGED <<seatVars, down, dropped, closedNow, drag, wish>>
     \/ /\ FrameDue
        /\ wish' = wish \ {"repaint"}
        /\ LET v == QueueWithFrame.overflow
               q == [QueueWithFrame EXCEPT !.overflow = "None"]
           IN
           \/ /\ v = "Dirty" \/ (Hung(client) /\ WantsWrite(q))
              /\ CloseAll({client})
              /\ DropClient(q, down[client], None)
           \/ /\ v # "Dirty" /\ ~(Hung(client) /\ WantsWrite(q))
              /\ \E f \in Flush(q, down[client]) :
                   /\ out' = f.queue
                   /\ down' = [down EXCEPT ![client] = f.sent]
                   /\ ArmIfNeeded(f.queue)
              /\ Repair(v)
              /\ paced' = TRUE
              /\ UNCHANGED <<client, drag, dropped, closedNow>>
  /\ UNCHANGED <<peerVars, up, backlog, listening, batch, running, ver, size,
                 sdirty, apps, gen, nextGen, pending, late>>

(* The listening socket goes, and with it the connections never accepted. *)
CloseListener ==
  /\ listening' = FALSE
  /\ backlog' = <<>>
  /\ dropped' = [p \in Peer |-> dropped[p] \/ p \in ToSet(backlog)]

(* wants_update_restart(): the listener is closed BEFORE the announcement.  *)
RestartListener == CloseListener

CloseOrContinue ==
  /\ phase = "stop"
  /\ \/ /\ "update" \in wish
        /\ RestartListener
        /\ running' = FALSE /\ phase' = "farewell"
     \/ /\ "update" \notin wish
        /\ running' = (running /\ "quit" \notin wish)
        /\ phase' = IF running' THEN "wait" ELSE "farewell"
        /\ UNCHANGED <<listening, backlog, dropped>>
  /\ UNCHANGED <<peerVars, up, down, seatVars, sessVars, batch, closedNow, gen,
                 nextGen, pending, late>>

(* drop_client(kDetachReasonUpdate), or the one after the loop. *)
Farewell ==
  /\ phase = "farewell" /\ phase' = "exit"
  /\ IF client = None
     THEN UNCHANGED <<seatVars, drag, down, dropped, closedNow>>
     ELSE /\ CloseAll({client})
          /\ DropClient(out, down[client], IF "update" \in wish THEN "update" ELSE "stop")
  /\ UNCHANGED <<peerVars, up, backlog, listening, batch, running, ver, size, wish,
                 sdirty, apps, gen, nextGen, pending, late>>

(* run_daemon() returns: the kernel closes what is still open. *)
ProcessExit ==
  /\ phase = "exit" /\ phase' = "off"
  /\ listening' = FALSE /\ backlog' = <<>>
  /\ dropped' = [p \in Peer |-> dropped[p] \/ p = pending \/ p \in ToSet(backlog)]
  /\ pending' = None
  /\ UNCHANGED <<peerVars, up, down, seatVars, sessVars, batch, closedNow, running,
                 gen, nextGen, late>>

DaemonStep ==
  \/ Wake \/ OnSignal \/ OnListener \/ OnApp \/ OnClosed
  \/ OnClientWriteError \/ OnClient
  \/ OnPendingGone \/ OnPendingMismatch \/ OnPendingHello
  \/ EndBatch \/ Compose \/ CloseOrContinue \/ Farewell \/ ProcessExit

-----------------------------------------------------------------------------
(* Time. *)

IntervalElapses ==
  /\ paced /\ paced' = FALSE
  /\ UNCHANGED <<peerVars, sockVars, client, out, armed, known, dirty, loopVars,
                 sessVars, gen, nextGen, pending, late>>

DeadlinePasses ==
  /\ pending # None /\ ~late /\ late' = TRUE
  /\ UNCHANGED <<peerVars, sockVars, seatVars, loopVars, sessVars, gen, nextGen, pending>>

Next ==
  \/ \E p \in Peer : PeerStep(p)
  \/ DaemonStep
  \/ IntervalElapses \/ DeadlinePasses

Spec == Init /\ [][Next]_vars

(* Scheduling: the daemon's loop runs, time passes, and a peer that has     *)
(* something to read or to finish writing gets the processor. Nobody is     *)
(* obliged to connect, to speak, to type or to leave.                       *)
Fairness ==
  /\ WF_vars(DaemonStep)
  /\ WF_vars(IntervalElapses)
  /\ WF_vars(DeadlinePasses)
  /\ \A p \in Peer : WF_vars(FinishWrite(p)) /\ WF_vars(ReadSocket(p))

FairSpec == Spec /\ Fairness

-----------------------------------------------------------------------------
Messages ==
  [type : {"Hello"}, size : Sizes, build : Builds]
  \cup {Input(i) : i \in Inputs} \cup [type : {"Resize"}, size : Sizes]

Keys == {KeyListener, KeySignal, KeyApp} \cup (GenFirstDynamic..(nextGen - 1))

(* Type invariant. *)
TypeOK ==
  /\ stage \in [Peer -> {"idle", "mute", "said", "over"}]
  /\ term \in [Peer -> Sizes] /\ winch \in [Peer -> BOOLEAN]
  /\ typing \in [Peer -> Messages \cup {None}] /\ typed \in [Peer -> 0..MaxInput]
  /\ rc \in [Peer -> {"none", "ok", "fail", "restart"}]
  /\ up \in [Peer -> Seq(Messages)]
  /\ dropped \in [Peer -> BOOLEAN]
  /\ backlog \in Seq(Peer) /\ listening \in BOOLEAN
  /\ gen \in [Peer -> Nat] /\ nextGen \in Nat
  /\ client \in Peer \cup {None} /\ pending \in Peer \cup {None}
  /\ late \in BOOLEAN /\ armed \in BOOLEAN /\ dirty \in BOOLEAN /\ paced \in BOOLEAN
  /\ phase \in {"wait", "batch", "compose", "stop", "farewell", "exit", "off"}
  /\ closedNow \subseteq Keys
  /\ running \in BOOLEAN
  /\ ver \in Nat /\ size \in Sizes /\ drag \in BOOLEAN
  /\ wish \subseteq {"repaint", "detach", "update", "quit"}
  /\ sdirty \in BOOLEAN /\ apps \in 0..MaxApp

(* A frame is a difference: it is only ever displayed over the screen it    *)
(* was computed against, whatever was thrown away, resized or taken over    *)
(* in between.                                                              *)
NoGarbledScreen == \A p \in Peer : shown[p] # Garbled

(* A client told to restart for an update never finds the dying daemon's    *)
(* socket still open: its next connect() fails and it starts a new daemon.  *)
RestartFindsNoListener == \A p \in Peer : rc[p] = "restart" => ~listening

(* A client that stays attached ends up displaying the desktop. *)
ScreenConverges ==
  \A p \in Peer : <>[](client = p /\ stage[p] = "said") => <>[](shown[p] = Cur)

(* client.cpp fears a mutual blocking of a writing client and a writing     *)
(* daemon: a blocking write_all() to the daemon always ends.                *)
WriteEnds == \A p \in Peer : typing[p] # None ~> typing[p] = None

(* A connection that never says Hello does not keep the pending place. *)
PendingSettles == \A p \in Peer : pending = p ~> pending # p
=============================================================================
