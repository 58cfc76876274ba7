---------------------------- MODULE DaemonProofs ----------------------------
(***************************************************************************)
(* Proofs about the event loop, for every number of peers, every ceiling   *)
(* of the output queue, every size of the kernel's buffers and every       *)
(* behaviour of the peers: no connection is lost or closed twice, a client *)
(* told to restart finds no listener, and no client ever displays a        *)
(* difference over the wrong screen.                                       *)
(***************************************************************************)
EXTENDS Daemon, SequenceTheorems, FiniteSetTheorems, TLAPS

-----------------------------------------------------------------------------
(* The connections: the inductive invariant. *)

EventSet == [key : Nat, in : BOOLEAN, out : BOOLEAN, hup : BOOLEAN]

ConnTypes ==
  /\ stage \in [Peer -> {"idle", "mute", "said", "over"}]
  /\ dropped \in [Peer -> BOOLEAN]
  /\ gen \in [Peer -> Nat] /\ nextGen \in Nat
  /\ client \in Peer \cup {None} /\ pending \in Peer \cup {None}
  /\ backlog \in Seq(Peer)
  /\ batch \in Seq(EventSet)

(* A key is given once, and never one of the fixed ones. *)
KeysAreUnique ==
  /\ nextGen >= GenFirstDynamic
  /\ \A p \in Peer : gen[p] = 0 \/ gen[p] \in GenFirstDynamic..(nextGen - 1)
  /\ \A p, q \in Peer : gen[p] # 0 /\ gen[p] = gen[q] => p = q

(* Who has not connected has no connection. *)
IdleIsOut ==
  \A p \in Peer : stage[p] = "idle" =>
    gen[p] = 0 /\ ~dropped[p] /\ \A i \in 1..Len(backlog) : backlog[i] # p

(* The connections that wait to be accepted wait once, and are open. *)
BacklogWaits ==
  /\ \A i \in 1..Len(backlog) : gen[backlog[i]] = 0 /\ ~dropped[backlog[i]]
  /\ \A i, j \in 1..Len(backlog) : backlog[i] = backlog[j] => i = j

(* The client and the pending connection are two open connections. *)
SeatsAreOpen ==
  /\ client # None => gen[client] # 0 /\ ~dropped[client]
  /\ pending # None => gen[pending] # 0 /\ ~dropped[pending]
  /\ client # None => client # pending

(* The keys closed in this batch are keys of closed connections. *)
ClosedAreDropped ==
  \A k \in closedNow : \E p \in Peer : gen[p] = k /\ k # 0 /\ dropped[p]

(* The listener is reported once a batch, and then there is someone to      *)
(* accept; outside of a batch nothing is left of it.                        *)
ListenerHasGuest ==
  /\ phase # "batch" => batch = <<>>
  /\ \A i \in 1..Len(batch) : batch[i].key = KeyListener => backlog # <<>>
  /\ \A i, j \in 1..Len(batch) :
       batch[i].key = KeyListener /\ batch[j].key = KeyListener => i = j

(* Who was accepted and is not closed has one of the two seats.             *)
OwnedOrClosed ==
  \A p \in Peer : gen[p] # 0 /\ ~dropped[p] => p \in {client, pending}

ConnInv ==
  /\ ConnTypes
  /\ KeysAreUnique
  /\ IdleIsOut
  /\ BacklogWaits
  /\ SeatsAreOpen
  /\ ClosedAreDropped
  /\ ListenerHasGuest
  /\ OwnedOrClosed

(* What the invariant is for: a live connection is never taken for one that *)
(* was closed earlier in the batch, whose events are skipped.               *)
LiveIsNotSkipped ==
  /\ client # None => gen[client] \notin closedNow
  /\ pending # None => gen[pending] \notin closedNow
  /\ client # None /\ pending # None => gen[client] # gen[pending]

(* At the start nobody is connected. *)
LEMMA InitConnInv == Init => ConnInv
<1> SUFFICES ASSUME Init PROVE ConnInv
  OBVIOUS
<1> USE DaemonAssumption DEF Init
<1>1. ConnTypes
  BY DEF ConnTypes, GenFirstDynamic
<1>2. KeysAreUnique /\ IdleIsOut /\ BacklogWaits /\ SeatsAreOpen /\ ClosedAreDropped
  BY DEF KeysAreUnique, IdleIsOut, BacklogWaits, SeatsAreOpen, ClosedAreDropped, GenFirstDynamic
<1>3. ListenerHasGuest /\ OwnedOrClosed
  BY DEF ListenerHasGuest, OwnedOrClosed
<1> QED
  BY <1>1, <1>2, <1>3 DEF ConnInv

(* The variables the invariant speaks of, but for the stages. *)
connVars == <<dropped, gen, nextGen, client, pending, backlog, batch, phase, closedNow>>

(* A step of a peer after its connection: a peer that has connected never   *)
(* becomes idle again.                                                      *)
LEMMA StillConnInv ==
  ASSUME ConnInv, UNCHANGED connVars,
         stage' \in [Peer -> {"idle", "mute", "said", "over"}],
         \A p \in Peer : stage'[p] = "idle" => stage[p] = "idle"
  PROVE  ConnInv'
<1> USE DEF ConnInv, connVars
<1>1. ConnTypes'
  BY DEF ConnTypes
<1>2. KeysAreUnique' /\ BacklogWaits' /\ SeatsAreOpen' /\ OwnedOrClosed'
  BY DEF KeysAreUnique, BacklogWaits, SeatsAreOpen, OwnedOrClosed
<1>3. IdleIsOut'
  BY DEF IdleIsOut
<1>4. ClosedAreDropped' /\ ListenerHasGuest'
  BY DEF ClosedAreDropped, ListenerHasGuest
<1> QED
  BY <1>1, <1>2, <1>3, <1>4

(* connect(): a new connection joins the end of the backlog. *)
LEMMA ConnectConnInv ==
  ASSUME ConnInv, NEW p \in Peer, Connect(p)
  PROVE  ConnInv'
<1> USE DEF ConnInv
<1>1. /\ stage[p] = "idle"
      /\ stage' = [stage EXCEPT ![p] = "mute"] /\ backlog' = Append(backlog, p)
      /\ UNCHANGED <<dropped, gen, nextGen, client, pending, batch, phase, closedNow>>
  BY DEF Connect, seatVars, loopVars
<1>2. /\ backlog' \in Seq(Peer) /\ Len(backlog') = Len(backlog) + 1 /\ Len(backlog) \in Nat
      /\ \A i \in 1..Len(backlog) : backlog'[i] = backlog[i]
      /\ backlog'[Len(backlog) + 1] = p
      /\ backlog' # <<>>
  BY <1>1, AppendProperties, LenProperties DEF ConnTypes
<1>3. gen[p] = 0 /\ ~dropped[p] /\ \A i \in 1..Len(backlog) : backlog[i] # p
  BY <1>1 DEF IdleIsOut
<1>4. ConnTypes'
  BY <1>1, <1>2 DEF ConnTypes
<1>5. KeysAreUnique' /\ SeatsAreOpen' /\ OwnedOrClosed' /\ ClosedAreDropped'
  BY <1>1 DEF KeysAreUnique, SeatsAreOpen, OwnedOrClosed, ClosedAreDropped
<1>6. IdleIsOut'
  BY <1>1, <1>2, <1>3 DEF IdleIsOut, ConnTypes
<1>7. BacklogWaits'
  BY <1>1, <1>2, <1>3 DEF BacklogWaits, ConnTypes
<1>8. ListenerHasGuest'
  BY <1>1, <1>2 DEF ListenerHasGuest
<1> QED
  BY <1>4, <1>5, <1>6, <1>7, <1>8

(* Every step of a peer. *)
LEMMA PeerConnInv ==
  ASSUME ConnInv, NEW p \in Peer, PeerStep(p)
  PROVE  ConnInv'
<1>1. CASE Connect(p)
  BY <1>1, ConnectConnInv
<1>2. CASE ProbeCloses(p) \/ SayHello(p) \/ FinishWrite(p) \/ ReadSocket(p) \/ Leave(p)
  <2>1. UNCHANGED connVars
    BY <1>2 DEF ProbeCloses, SayHello, FinishWrite, ReadSocket, Leave, sockVars, seatVars,
                loopVars, connVars
  <2>2. \/ UNCHANGED stage
        \/ stage' = [stage EXCEPT ![p] = "over"]
        \/ stage' = [stage EXCEPT ![p] = "said"]
    BY <1>2 DEF ProbeCloses, SayHello, FinishWrite, ReadSocket, Leave, Exit
  <2>3. stage' \in [Peer -> {"idle", "mute", "said", "over"}]
        /\ \A q \in Peer : stage'[q] = "idle" => stage[q] = "idle"
    BY <2>2 DEF ConnInv, ConnTypes
  <2> QED
    BY <2>1, <2>3, StillConnInv
<1>3. CASE Winch(p) \/ StartWrite(p)
  <2>1. UNCHANGED connVars /\ UNCHANGED stage
    BY <1>3 DEF Winch, StartWrite, sockVars, seatVars, loopVars, connVars
  <2> QED
    BY <2>1, StillConnInv DEF ConnInv, ConnTypes
<1> QED
  BY <1>1, <1>2, <1>3 DEF PeerStep

-----------------------------------------------------------------------------
(* What is left of a batch once its first event is handled. *)
LEMMA TailOfBatch ==
  ASSUME ConnInv, NEW key, Current(key)
  PROVE  /\ phase = "batch" /\ phase' = "batch"
         /\ batch # <<>> /\ Head(batch) = batch[1] /\ batch[1] \in EventSet
         /\ batch[1].key = key /\ Len(batch) >= 1
         /\ batch' \in Seq(EventSet) /\ Len(batch') = Len(batch) - 1
         /\ \A i \in 1..Len(batch') : batch'[i] = batch[i + 1]
<1>1. /\ phase = "batch" /\ batch # <<>> /\ Head(batch).key = key
      /\ batch' = Tail(batch) /\ phase' = phase
  BY DEF Current
<1>2. batch \in Seq(EventSet)
  BY DEF ConnInv, ConnTypes
<1>3. Len(batch) \in Nat /\ Len(batch) >= 1 /\ batch[1] \in EventSet /\ Head(batch) = batch[1]
  BY <1>1, <1>2
<1>4. /\ Tail(batch) \in Seq(EventSet) /\ Len(Tail(batch)) = Len(batch) - 1
      /\ \A i \in 1..Len(Tail(batch)) : Tail(batch)[i] = batch[i + 1]
  BY <1>1, <1>2, HeadTailProperties
<1> QED
  BY <1>1, <1>3, <1>4

(* An event that is not the listener's leaves the listener's where it is. *)
LEMMA TailKeepsListener ==
  ASSUME ConnInv, NEW key, Current(key), UNCHANGED backlog
  PROVE  batch' \in Seq(EventSet) /\ ListenerHasGuest'
<1>1. /\ phase' = "batch" /\ batch' \in Seq(EventSet) /\ Len(batch') = Len(batch) - 1
      /\ \A i \in 1..Len(batch') : batch'[i] = batch[i + 1]
  BY TailOfBatch
<1>2. Len(batch) \in Nat /\ Len(batch') \in Nat
  BY <1>1 DEF ConnInv, ConnTypes
<1>3. \A i \in 1..Len(batch') : i + 1 \in 1..Len(batch)
  BY <1>1, <1>2
<1>4. /\ \A i \in 1..Len(batch) : batch[i].key = KeyListener => backlog # <<>>
      /\ \A i, j \in 1..Len(batch) :
           batch[i].key = KeyListener /\ batch[j].key = KeyListener => i = j
  BY DEF ConnInv, ListenerHasGuest
<1>5. \A i \in 1..Len(batch') : batch'[i].key = KeyListener => backlog' # <<>>
  BY <1>1, <1>3, <1>4
<1>6. ASSUME NEW i \in 1..Len(batch'), NEW j \in 1..Len(batch'),
             batch'[i].key = KeyListener, batch'[j].key = KeyListener
      PROVE  i = j
  <2>1. i + 1 = j + 1
    BY <1>1, <1>3, <1>4, <1>6
  <2> QED
    BY <1>2, <2>1
<1> QED
  BY <1>1, <1>5, <1>6 DEF ListenerHasGuest

(* The seats after the connections of S are closed: the ones that were      *)
(* there and are not in S, each in one place.                               *)
Reseated(S) ==
  /\ {client', pending'} \subseteq ({client, pending} \ S) \cup {None}
  /\ ({client, pending} \ S) \subseteq {client', pending', None}
  /\ client' # None => client' # pending'

(* A step that closes seated connections and gives up their seats.          *)
LEMMA CloseConnInv ==
  ASSUME ConnInv, NEW S \in SUBSET Peer, S \subseteq {client, pending},
         dropped' = [p \in Peer |-> dropped[p] \/ p \in S],
         closedNow' = closedNow \cup {gen[p] : p \in S},
         Reseated(S),
         UNCHANGED <<stage, gen, nextGen, backlog>>,
         batch' \in Seq(EventSet), ListenerHasGuest'
  PROVE  ConnInv'
<1> USE DaemonAssumption
<1>1. ConnTypes'
  BY DEF ConnInv, ConnTypes, Reseated
<1>2. \A p \in S : gen[p] # 0
  BY DEF ConnInv, SeatsAreOpen
<1>3. KeysAreUnique'
  BY DEF ConnInv, KeysAreUnique
<1>4. IdleIsOut'
  BY <1>2 DEF ConnInv, IdleIsOut
<1>5. BacklogWaits'
  BY <1>2 DEF ConnInv, ConnTypes, BacklogWaits
<1>6. SeatsAreOpen'
  BY DEF ConnInv, ConnTypes, SeatsAreOpen, Reseated
<1>7. ClosedAreDropped'
  <2> SUFFICES ASSUME NEW k \in closedNow'
               PROVE  \E p \in Peer : gen[p] = k /\ k # 0 /\ dropped'[p]
    BY DEF ClosedAreDropped
  <2>1. CASE k \in closedNow
    <3>1. PICK p \in Peer : gen[p] = k /\ k # 0 /\ dropped[p]
      BY <2>1 DEF ConnInv, ClosedAreDropped
    <3> QED
      BY <3>1
  <2>2. CASE k \notin closedNow
    <3>1. PICK p \in S : k = gen[p]
      BY <2>2
    <3> QED
      BY <3>1, <1>2
  <2> QED
    BY <2>1, <2>2
<1>8. OwnedOrClosed'
  <2> SUFFICES ASSUME NEW p \in Peer, gen[p] # 0, ~dropped'[p]
               PROVE  p \in {client', pending'}
    BY DEF OwnedOrClosed
  <2>1. ~dropped[p] /\ p \notin S /\ p # None
    OBVIOUS
  <2>2. p \in {client, pending}
    BY <2>1 DEF ConnInv, OwnedOrClosed
  <2> QED
    BY <2>1, <2>2 DEF Reseated
<1> QED
  BY <1>1, <1>3, <1>4, <1>5, <1>6, <1>7, <1>8 DEF ConnInv

(* The same for a step that closes nothing. *)
LEMMA SameConnInv ==
  ASSUME ConnInv, UNCHANGED <<stage, gen, nextGen, backlog, dropped, closedNow, client, pending>>,
         batch' \in Seq(EventSet), ListenerHasGuest'
  PROVE  ConnInv'
<1>1. ConnTypes'
  BY DEF ConnInv, ConnTypes
<1>2. KeysAreUnique' /\ IdleIsOut' /\ BacklogWaits' /\ SeatsAreOpen'
  BY DEF ConnInv, KeysAreUnique, IdleIsOut, BacklogWaits, SeatsAreOpen
<1>3. ClosedAreDropped' /\ OwnedOrClosed'
  BY DEF ConnInv, ClosedAreDropped, OwnedOrClosed
<1> QED
  BY <1>1, <1>2, <1>3 DEF ConnInv

-----------------------------------------------------------------------------
(* epoll_wait(): a set of events with one event of the listener at most, in *)
(* any order.                                                               *)
LEMMA WakeConnInv ==
  ASSUME ConnInv, Wake
  PROVE  ConnInv'
<1>1. /\ phase' = "batch" /\ closedNow' = {}
      /\ UNCHANGED <<stage, gen, nextGen, backlog, dropped, client, pending>>
  BY DEF Wake, peerVars, sockVars, seatVars
<1>2. PICK extra \in SUBSET Outside : batch' \in SetToSeqs(Ready \cup extra)
  BY DEF Wake
<1> DEFINE R == Ready \cup extra
<1>3. \A e \in R : /\ e \in EventSet
                   /\ e.key = KeyListener => e = Event(KeyListener, TRUE, FALSE, FALSE)
                                             /\ backlog # <<>>
  <2>1. \A e \in extra : e \in EventSet /\ e.key # KeyListener
    <3>1. \A e \in extra : e \in {Event(KeyApp, TRUE, FALSE, FALSE), Event(KeySignal, TRUE, FALSE, FALSE)}
      BY <1>2 DEF Outside
    <3>2. \A k \in {KeyApp, KeySignal} :
            /\ Event(k, TRUE, FALSE, FALSE) \in EventSet
            /\ Event(k, TRUE, FALSE, FALSE).key # KeyListener
      BY DEF Event, EventSet, KeyApp, KeySignal, KeyListener
    <3> QED
      BY <3>1, <3>2
  <2>2. \A p \in {client, pending} : p # None =>
          gen[p] \in Nat /\ gen[p] # KeyListener
    BY DEF ConnInv, ConnTypes, SeatsAreOpen, KeysAreUnique, KeyListener, GenFirstDynamic
  <2>3. \A p, mask : gen[p] \in Nat /\ gen[p] # KeyListener =>
          ConnectionEvent(p, mask) \in EventSet /\ ConnectionEvent(p, mask).key # KeyListener
    BY DEF ConnectionEvent, Event, EventSet, Hung
  <2>4. \A e \in Ready : \/ e = Event(KeyListener, TRUE, FALSE, FALSE) /\ backlog # <<>>
                         \/ client # None /\ e = ConnectionEvent(client, ClientMask)
                         \/ pending # None /\ e = ConnectionEvent(pending, [in |-> TRUE, out |-> FALSE])
    BY DEF Ready
  <2>5. Event(KeyListener, TRUE, FALSE, FALSE) \in EventSet
    BY DEF Event, EventSet, KeyListener
  <2>6. \A e \in Ready : /\ e \in EventSet
                         /\ e.key = KeyListener => e = Event(KeyListener, TRUE, FALSE, FALSE)
                                                   /\ backlog # <<>>
    <3>1. client # None => /\ ConnectionEvent(client, ClientMask) \in EventSet
                           /\ ConnectionEvent(client, ClientMask).key # KeyListener
      BY <2>2, <2>3
    <3>2. pending # None =>
            /\ ConnectionEvent(pending, [in |-> TRUE, out |-> FALSE]) \in EventSet
            /\ ConnectionEvent(pending, [in |-> TRUE, out |-> FALSE]).key # KeyListener
      BY <2>2, <2>3
    <3> QED
      BY <2>4, <2>5, <3>1, <3>2
  <2> QED
    BY <2>1, <2>6
<1>4. IsFiniteSet(R)
  <2> DEFINE A == {Event(KeyListener, TRUE, FALSE, FALSE)}
             B == {ConnectionEvent(client, ClientMask)}
             C == {ConnectionEvent(pending, [in |-> TRUE, out |-> FALSE])}
             D == {Event(KeyApp, TRUE, FALSE, FALSE)}
             E == {Event(KeySignal, TRUE, FALSE, FALSE)}
  <2>1. IsFiniteSet(A) /\ IsFiniteSet(B) /\ IsFiniteSet(C) /\ IsFiniteSet(D) /\ IsFiniteSet(E)
    BY FS_Singleton
  <2>2. R \in SUBSET (A \cup (B \cup (C \cup (D \cup E))))
    BY <1>2 DEF Ready, Outside
  <2> HIDE DEF A, B, C, D, E, R
  <2>3. IsFiniteSet(D \cup E)
    BY <2>1, FS_Union
  <2>4. IsFiniteSet(C \cup (D \cup E))
    BY <2>1, <2>3, FS_Union
  <2>5. IsFiniteSet(B \cup (C \cup (D \cup E)))
    BY <2>1, <2>4, FS_Union
  <2>6. IsFiniteSet(A \cup (B \cup (C \cup (D \cup E))))
    BY <2>1, <2>5, FS_Union
  <2> QED
    BY <2>2, <2>6, FS_Subset
<1>5. Cardinality(R) \in Nat
  BY <1>4, FS_CardinalityType
<1>6. /\ batch' \in [1..Cardinality(R) -> R]
      /\ \A i, j \in 1..Cardinality(R) : i # j => batch'[i] # batch'[j]
  BY <1>2 DEF SetToSeqs
<1> HIDE DEF R
<1>7. batch' \in Seq(R) /\ Len(batch') = Cardinality(R)
  BY <1>5, <1>6
<1>8. batch' \in Seq(EventSet)
  BY <1>3, <1>7, SeqMonotonic
<1>9. ListenerHasGuest'
  <2>1. \A i \in 1..Len(batch') : batch'[i] \in R
    BY <1>6, <1>7
  <2>2. \A i \in 1..Len(batch') : batch'[i].key = KeyListener => backlog # <<>>
    BY <1>3, <2>1
  <2>3. ASSUME NEW i \in 1..Len(batch'), NEW j \in 1..Len(batch'),
               batch'[i].key = KeyListener, batch'[j].key = KeyListener
        PROVE  i = j
    <3>1. batch'[i] = batch'[j]
      BY <1>3, <2>1, <2>3
    <3> QED
      BY <1>6, <1>7, <3>1
  <2> QED
    BY <1>1, <2>2, <2>3 DEF ListenerHasGuest
<1>10. ConnTypes'
  BY <1>1, <1>8 DEF ConnInv, ConnTypes
<1>11. KeysAreUnique' /\ IdleIsOut' /\ BacklogWaits' /\ SeatsAreOpen'
  BY <1>1 DEF ConnInv, KeysAreUnique, IdleIsOut, BacklogWaits, SeatsAreOpen
<1>12. ClosedAreDropped' /\ OwnedOrClosed'
  BY <1>1 DEF ConnInv, ClosedAreDropped, OwnedOrClosed
<1> QED
  BY <1>9, <1>10, <1>11, <1>12 DEF ConnInv

(* accept_peer(): the connection at the head of the backlog gets a new key  *)
(* and the pending place; the connection it pushes out is closed.           *)
LEMMA ListenerConnInv ==
  ASSUME ConnInv, OnListener
  PROVE  ConnInv'
<1> DEFINE p == Head(backlog)
<1> USE DaemonAssumption
<1>1. /\ Current(KeyListener)
      /\ backlog' = Tail(backlog) /\ CloseAll({pending} \ {None})
      /\ pending' = p /\ gen' = [gen EXCEPT ![p] = nextGen] /\ nextGen' = nextGen + 1
      /\ UNCHANGED <<stage, client>>
  BY DEF OnListener, peerVars, seatVars
<1>2. /\ phase' = "batch" /\ batch[1].key = KeyListener /\ Len(batch) >= 1
      /\ batch' \in Seq(EventSet) /\ Len(batch') = Len(batch) - 1
      /\ \A i \in 1..Len(batch') : batch'[i] = batch[i + 1]
  BY <1>1, TailOfBatch
<1>3. Len(batch) \in Nat /\ backlog \in Seq(Peer)
  BY DEF ConnInv, ConnTypes
<1>4. backlog # <<>>
  BY <1>2, <1>3 DEF ConnInv, ListenerHasGuest
<1>5. /\ p = backlog[1] /\ p \in Peer /\ Len(backlog) \in Nat /\ Len(backlog) >= 1
      /\ backlog' \in Seq(Peer) /\ Len(backlog') = Len(backlog) - 1
      /\ \A i \in 1..Len(backlog') : backlog'[i] = backlog[i + 1]
  BY <1>1, <1>3, <1>4, HeadTailProperties
<1>6. gen[p] = 0 /\ ~dropped[p]
  BY <1>5 DEF ConnInv, BacklogWaits
<1>7. \A i \in 1..Len(backlog') : backlog'[i] # p /\ i + 1 \in 1..Len(backlog)
  BY <1>5 DEF ConnInv, BacklogWaits
<1>8. /\ dropped' = [q \in Peer |-> dropped[q] \/ q \in {pending} \ {None}]
      /\ closedNow' = closedNow \cup {gen[q] : q \in {pending} \ {None}}
  BY <1>1 DEF CloseAll
<1> HIDE DEF p
<1>9. p # pending /\ p # client
  BY <1>5, <1>6 DEF ConnInv, ConnTypes, SeatsAreOpen
<1>10. stage[p] # "idle"
  BY <1>5 DEF ConnInv, IdleIsOut
<1>11. /\ gen' \in [Peer -> Nat] /\ nextGen' \in Nat
       /\ gen'[p] = nextGen /\ \A q \in Peer : q # p => gen'[q] = gen[q]
  BY <1>1, <1>5 DEF ConnInv, ConnTypes
<1>12. ConnTypes'
  BY <1>1, <1>2, <1>5, <1>8, <1>11 DEF ConnInv, ConnTypes
<1>13. KeysAreUnique'
  <2>1. /\ nextGen \in Nat /\ nextGen >= 16 /\ gen \in [Peer -> Nat]
        /\ \A q \in Peer : gen[q] = 0 \/ gen[q] \in 16..(nextGen - 1)
        /\ \A q, r \in Peer : gen[q] # 0 /\ gen[q] = gen[r] => q = r
    BY DEF ConnInv, ConnTypes, KeysAreUnique, GenFirstDynamic
  <2>2. \A q \in Peer : gen'[q] = 0 \/ gen'[q] \in 16..(nextGen' - 1)
    BY <1>1, <1>11, <2>1
  <2>3. \A q \in Peer : gen[q] # nextGen
    BY <2>1
  <2>4. \A q, r \in Peer : gen'[q] # 0 /\ gen'[q] = gen'[r] => q = r
    BY <1>11, <2>1, <2>3
  <2> QED
    BY <1>1, <2>1, <2>2, <2>4 DEF KeysAreUnique, GenFirstDynamic
<1>14. IdleIsOut'
  <2> SUFFICES ASSUME NEW q \in Peer, stage'[q] = "idle"
               PROVE  gen'[q] = 0 /\ ~dropped'[q] /\ \A i \in 1..Len(backlog') : backlog'[i] # q
    BY DEF IdleIsOut
  <2>1. q # p /\ gen[q] = 0 /\ ~dropped[q] /\ \A i \in 1..Len(backlog) : backlog[i] # q
    BY <1>1, <1>10 DEF ConnInv, IdleIsOut
  <2>2. q # pending
    BY <2>1 DEF ConnInv, SeatsAreOpen
  <2>3. gen'[q] = 0 /\ ~dropped'[q]
    BY <1>8, <1>11, <2>1, <2>2
  <2>4. \A i \in 1..Len(backlog') : backlog'[i] # q
    BY <1>5, <1>7, <2>1
  <2> QED
    BY <2>3, <2>4
<1>15. BacklogWaits'
  <2>1. ASSUME NEW i \in 1..Len(backlog')
        PROVE  gen'[backlog'[i]] = 0 /\ ~dropped'[backlog'[i]]
    <3>1. i + 1 \in 1..Len(backlog) /\ backlog'[i] = backlog[i + 1] /\ backlog'[i] # p
          /\ backlog'[i] \in Peer
      BY <1>5, <1>7
    <3>2. gen[backlog'[i]] = 0 /\ ~dropped[backlog'[i]]
      BY <3>1 DEF ConnInv, BacklogWaits
    <3>3. backlog'[i] # pending
      BY <3>1, <3>2 DEF ConnInv, SeatsAreOpen
    <3> QED
      BY <1>8, <1>11, <3>1, <3>2, <3>3
  <2>2. ASSUME NEW i \in 1..Len(backlog'), NEW j \in 1..Len(backlog'), backlog'[i] = backlog'[j]
        PROVE  i = j
    <3>1. i + 1 = j + 1
      BY <1>5, <1>7, <2>2 DEF ConnInv, BacklogWaits
    <3> QED
      BY <3>1
  <2> QED
    BY <2>1, <2>2 DEF BacklogWaits
<1>16. SeatsAreOpen'
  BY <1>1, <1>5, <1>6, <1>8, <1>9, <1>11 DEF ConnInv, ConnTypes, SeatsAreOpen, KeysAreUnique, GenFirstDynamic
<1>17. ClosedAreDropped'
  <2> SUFFICES ASSUME NEW k \in closedNow'
               PROVE  \E q \in Peer : gen'[q] = k /\ k # 0 /\ dropped'[q]
    BY DEF ClosedAreDropped
  <2>1. CASE k \in closedNow
    <3>1. PICK q \in Peer : gen[q] = k /\ k # 0 /\ dropped[q]
      BY <2>1 DEF ConnInv, ClosedAreDropped
    <3> QED
      BY <1>6, <1>8, <1>11, <3>1
  <2>2. CASE k \notin closedNow
    <3>1. pending # None /\ k = gen[pending]
      BY <1>8, <2>2
    <3>2. pending \in Peer /\ gen[pending] # 0
      BY <3>1 DEF ConnInv, ConnTypes, SeatsAreOpen
    <3> QED
      BY <1>8, <1>9, <1>11, <3>1, <3>2
  <2> QED
    BY <2>1, <2>2
<1>18. ListenerHasGuest'
  <2>1. \A i \in 1..Len(batch') : batch'[i].key # KeyListener
    <3> SUFFICES ASSUME NEW i \in 1..Len(batch'), batch'[i].key = KeyListener PROVE FALSE
      OBVIOUS
    <3>1. i + 1 \in 1..Len(batch) /\ 1 \in 1..Len(batch) /\ batch[i + 1].key = KeyListener
      BY <1>2, <1>3
    <3>2. i + 1 = 1
      BY <1>2, <3>1 DEF ConnInv, ListenerHasGuest
    <3> QED
      BY <1>2, <1>3, <3>2
  <2> QED
    BY <1>2, <2>1 DEF ListenerHasGuest
<1>19. OwnedOrClosed'
  BY <1>1, <1>8, <1>11 DEF ConnInv, ConnTypes, OwnedOrClosed
<1> QED
  BY <1>12, <1>13, <1>14, <1>15, <1>16, <1>17, <1>18, <1>19 DEF ConnInv

(* A signal, an application, an event of a connection closed just before.   *)
LEMMA SkippedConnInv ==
  ASSUME ConnInv, OnSignal \/ OnApp \/ OnClosed
  PROVE  ConnInv'
<1>1. UNCHANGED <<stage, gen, nextGen, backlog, dropped, closedNow, client, pending>>
  BY DEF OnSignal, OnApp, OnClosed, peerVars, sockVars, seatVars
<1>2. \E key : Current(key)
  BY DEF OnSignal, OnApp, OnClosed
<1> QED
  BY <1>1, <1>2, TailKeepsListener, SameConnInv

(* An event of the client: it is dropped, or nothing changes hands. *)
LEMMA ClientConnInv ==
  ASSUME ConnInv, OnClient \/ OnClientWriteError
  PROVE  ConnInv'
<1> USE DaemonAssumption
<1>1. /\ client # None /\ Current(gen[client])
      /\ UNCHANGED <<stage, gen, nextGen, backlog, pending>>
  BY DEF OnClient, OnClientWriteError, peerVars
<1>2. client \in Peer /\ client # pending
  BY <1>1 DEF ConnInv, ConnTypes, SeatsAreOpen
<1>3. \/ CloseAll({client}) /\ client' = None
      \/ UNCHANGED <<client, dropped, closedNow>>
  BY DEF OnClient, OnClientWriteError, DropClient, SeatAfterDrop
<1>4. batch' \in Seq(EventSet) /\ ListenerHasGuest'
  BY <1>1, TailKeepsListener
<1>5. CASE CloseAll({client}) /\ client' = None
  <2>1. Reseated({client})
    BY <1>1, <1>2, <1>5 DEF Reseated
  <2> QED
    BY <1>1, <1>2, <1>4, <1>5, <2>1, CloseConnInv DEF CloseAll
<1>6. CASE UNCHANGED <<client, dropped, closedNow>>
  BY <1>1, <1>4, <1>6, SameConnInv
<1> QED
  BY <1>3, <1>5, <1>6

(* An event of the pending connection: it is dropped, or takes the seat of  *)
(* the client, which is closed.                                             *)
LEMMA PendingConnInv ==
  ASSUME ConnInv, OnPendingGone \/ OnPendingMismatch \/ OnPendingHello
  PROVE  ConnInv'
<1> USE DaemonAssumption
<1>1. /\ pending # None /\ Current(gen[pending]) /\ pending' = None
      /\ UNCHANGED <<stage, gen, nextGen, backlog>>
  BY DEF OnPendingGone, OnPendingMismatch, OnPendingHello, OnPendingKey, DropPending, peerVars
<1>2. pending \in Peer /\ client \in Peer \cup {None} /\ client # pending
  BY <1>1 DEF ConnInv, ConnTypes, SeatsAreOpen
<1>3. batch' \in Seq(EventSet) /\ ListenerHasGuest'
  BY <1>1, TailKeepsListener
<1>4. CASE OnPendingGone \/ OnPendingMismatch
  <2>1. CloseAll({pending}) /\ UNCHANGED client
    BY <1>4 DEF OnPendingGone, OnPendingMismatch, DropPending, seatVars
  <2>2. Reseated({pending})
    BY <1>1, <1>2, <2>1 DEF Reseated
  <2> QED
    BY <1>1, <1>2, <1>3, <2>1, <2>2, CloseConnInv DEF CloseAll
<1>5. CASE OnPendingHello
  <2> DEFINE S == {client} \ {None}
  <2>1. client' = pending
    BY <1>5 DEF OnPendingHello
  <2>2. CASE client = None
    <3>1. UNCHANGED <<dropped, closedNow>>
      BY <1>5, <2>2 DEF OnPendingHello
    <3>2. /\ dropped' = [p \in Peer |-> dropped[p] \/ p \in {}]
          /\ closedNow' = closedNow \cup {gen[p] : p \in {}}
      BY <3>1 DEF ConnInv, ConnTypes
    <3>3. Reseated({})
      BY <1>1, <1>2, <2>1, <2>2 DEF Reseated
    <3> QED
      BY <1>1, <1>3, <3>2, <3>3, CloseConnInv
  <2>3. CASE client # None
    <3>1. CloseAll({client})
      BY <1>5, <2>3 DEF OnPendingHello
    <3>2. Reseated({client})
      BY <1>1, <1>2, <2>1, <2>3 DEF Reseated
    <3> QED
      BY <1>1, <1>2, <1>3, <2>3, <3>1, <3>2, CloseConnInv DEF CloseAll
  <2> QED
    BY <2>2, <2>3
<1> QED
  BY <1>4, <1>5

(* The end of a batch: an expired pending connection and a client that      *)
(* detaches are closed.                                                     *)
LEMMA EndBatchConnInv ==
  ASSUME ConnInv, EndBatch
  PROVE  ConnInv'
<1> USE DaemonAssumption
<1> DEFINE expired == IF pending # None /\ late THEN {pending} ELSE {}
           leaves == "detach" \in wish /\ client # None
           S == expired \cup IF leaves THEN {client} ELSE {}
<1>1. /\ phase = "batch" /\ batch = <<>> /\ phase' = "compose"
      /\ CloseAll(S)
      /\ pending' = IF expired = {} THEN pending ELSE None
      /\ client' = IF leaves THEN None ELSE client
      /\ UNCHANGED <<stage, gen, nextGen, backlog, batch>>
  BY DEF EndBatch, DropClient, SeatAfterDrop, peerVars
<1>2. S \in SUBSET Peer /\ S \subseteq {client, pending}
  BY DEF ConnInv, ConnTypes
<1>3. Reseated(S)
  BY <1>1 DEF ConnInv, ConnTypes, SeatsAreOpen, Reseated
<1>4. batch' \in Seq(EventSet) /\ ListenerHasGuest'
  BY <1>1 DEF ConnInv, ConnTypes, ListenerHasGuest
<1> HIDE DEF S
<1> QED
  BY <1>1, <1>2, <1>3, <1>4, CloseConnInv DEF CloseAll

(* Composition and the last words after the loop: the client is dropped, or *)
(* nothing changes hands.                                                   *)
LEMMA DrawConnInv ==
  ASSUME ConnInv, Compose \/ Farewell
  PROVE  ConnInv'
<1> USE DaemonAssumption
<1>1. UNCHANGED <<stage, gen, nextGen, backlog, pending, batch>>
  BY DEF Compose, Farewell, peerVars
<1>2. phase # "batch"
  BY DEF Compose, Farewell
<1>3. batch' \in Seq(EventSet) /\ ListenerHasGuest'
  BY <1>1, <1>2 DEF ConnInv, ConnTypes, ListenerHasGuest
<1>4. \/ client # None /\ CloseAll({client}) /\ client' = None
      \/ UNCHANGED <<client, dropped, closedNow>>
  BY DEF Compose, Farewell, FrameDue, DropClient, SeatAfterDrop, seatVars
<1>5. CASE client # None /\ CloseAll({client}) /\ client' = None
  <2>1. client \in Peer /\ client # pending
    BY <1>5 DEF ConnInv, ConnTypes, SeatsAreOpen
  <2>2. Reseated({client})
    BY <1>1, <1>5, <2>1 DEF Reseated
  <2> QED
    BY <1>1, <1>3, <1>5, <2>1, <2>2, CloseConnInv DEF CloseAll
<1>6. CASE UNCHANGED <<client, dropped, closedNow>>
  BY <1>1, <1>3, <1>6, SameConnInv
<1> QED
  BY <1>4, <1>5, <1>6

(* The listener goes, and with it the connections nobody has accepted; when *)
(* the process ends the pending one goes too.                               *)
LEMMA BacklogGone ==
  ASSUME ConnInv, NEW S \in SUBSET {pending},
         phase # "batch",
         dropped' = [p \in Peer |-> dropped[p] \/ p \in S \/ p \in ToSet(backlog)],
         backlog' = <<>>,
         pending' = IF pending \in S THEN None ELSE pending,
         UNCHANGED <<stage, gen, nextGen, batch, client, closedNow>>
  PROVE  ConnInv'
<1> USE DaemonAssumption
<1>1. ConnTypes'
  BY DEF ConnInv, ConnTypes
<1>2. \A p \in ToSet(backlog) : gen[p] = 0 /\ p \in Peer /\ stage[p] # "idle"
  <2> SUFFICES ASSUME NEW p \in ToSet(backlog) PROVE gen[p] = 0 /\ p \in Peer /\ stage[p] # "idle"
    OBVIOUS
  <2>1. PICK i \in 1..Len(backlog) : p = backlog[i]
    BY DEF ToSet, ConnInv, ConnTypes
  <2> QED
    BY <2>1 DEF ConnInv, ConnTypes, BacklogWaits, IdleIsOut
<1>3. KeysAreUnique' /\ BacklogWaits'
  BY DEF ConnInv, KeysAreUnique, BacklogWaits
<1>4. IdleIsOut'
  BY <1>2 DEF ConnInv, ConnTypes, IdleIsOut, SeatsAreOpen
<1>5. SeatsAreOpen'
  BY <1>2 DEF ConnInv, ConnTypes, SeatsAreOpen
<1>6. ClosedAreDropped'
  BY DEF ConnInv, ConnTypes, ClosedAreDropped
<1>7. ListenerHasGuest'
  BY DEF ConnInv, ListenerHasGuest
<1>8. OwnedOrClosed'
  BY DEF ConnInv, OwnedOrClosed
<1> QED
  BY <1>1, <1>3, <1>4, <1>5, <1>6, <1>7, <1>8 DEF ConnInv

(* Only the invariant's own variables matter to the phases after a batch.   *)
LEMMA CloseOrContinueConnInv ==
  ASSUME ConnInv, CloseOrContinue \/ ProcessExit
  PROVE  ConnInv'
<1>1. /\ phase # "batch" /\ phase' # "batch"
      /\ UNCHANGED <<stage, gen, nextGen, batch, client, closedNow>>
  BY DEF CloseOrContinue, ProcessExit, peerVars, seatVars
<1>2. CASE ProcessExit
  <2>1. /\ dropped' = [p \in Peer |-> dropped[p] \/ p \in {pending} \/ p \in ToSet(backlog)]
        /\ backlog' = <<>> /\ pending' = None
    BY <1>2 DEF ProcessExit
  <2> QED
    BY <1>1, <2>1, BacklogGone
<1>3. CASE CloseOrContinue /\ UNCHANGED <<backlog, dropped>>
  <2>1. UNCHANGED pending
    BY <1>3 DEF CloseOrContinue
  <2>2. batch' \in Seq(EventSet) /\ ListenerHasGuest'
    BY <1>1, <1>3 DEF ConnInv, ConnTypes, ListenerHasGuest
  <2> QED
    BY <1>1, <1>3, <2>1, <2>2, SameConnInv
<1>4. CASE CloseOrContinue /\ RestartListener
  <2>1. /\ dropped' = [p \in Peer |-> dropped[p] \/ p \in {} \/ p \in ToSet(backlog)]
        /\ backlog' = <<>> /\ pending' = IF pending \in {} THEN None ELSE pending
    BY <1>4 DEF CloseOrContinue, RestartListener, CloseListener
  <2>2. {} \in SUBSET {pending}
    OBVIOUS
  <2> QED
    BY <1>1, <2>1, <2>2, BacklogGone
<1> QED
  BY <1>2, <1>3, <1>4 DEF CloseOrContinue

(* Every step preserves the invariant of the connections. *)
LEMMA NextConnInv ==
  ASSUME ConnInv, [Next]_vars
  PROVE  ConnInv'
<1>1. CASE UNCHANGED vars
  <2>1. UNCHANGED connVars /\ UNCHANGED stage
    BY <1>1 DEF vars, peerVars, sockVars, seatVars, loopVars, connVars
  <2> QED
    BY <2>1, StillConnInv DEF ConnInv, ConnTypes
<1>2. CASE \E p \in Peer : PeerStep(p)
  BY <1>2, PeerConnInv
<1>3. CASE IntervalElapses \/ DeadlinePasses
  <2>1. UNCHANGED connVars /\ UNCHANGED stage
    BY <1>3 DEF IntervalElapses, DeadlinePasses, peerVars, sockVars, seatVars, loopVars, connVars
  <2> QED
    BY <2>1, StillConnInv DEF ConnInv, ConnTypes
<1>4. CASE DaemonStep
  BY <1>4, WakeConnInv, ListenerConnInv, SkippedConnInv, ClientConnInv, PendingConnInv,
     EndBatchConnInv, DrawConnInv, CloseOrContinueConnInv DEF DaemonStep
<1> QED
  BY <1>1, <1>2, <1>3, <1>4 DEF Next

(* The invariant of the connections holds in every state of the daemon.     *)
THEOREM ConnInvariant == Spec => []ConnInv
<1>1. Init => ConnInv
  BY InitConnInv
<1>2. ConnInv /\ [Next]_vars => ConnInv'
  BY NextConnInv
<1> QED
  BY <1>1, <1>2, PTL DEF Spec

(* closed_now, and the generation in an epoll key, never make the loop skip *)
(* the events of a connection that is still open.                           *)
THEOREM OnlyTheClosedAreSkipped == Spec => []LiveIsNotSkipped
<1>1. ConnInv => LiveIsNotSkipped
  <2> SUFFICES ASSUME ConnInv PROVE LiveIsNotSkipped
    OBVIOUS
  <2>1. \A p \in Peer : gen[p] # 0 /\ ~dropped[p] => gen[p] \notin closedNow
    BY DEF ConnInv, ClosedAreDropped, KeysAreUnique
  <2>2. client # None => client \in Peer /\ gen[client] \notin closedNow
    BY <2>1 DEF ConnInv, ConnTypes, SeatsAreOpen
  <2>3. pending # None => pending \in Peer /\ gen[pending] \notin closedNow
    BY <2>1 DEF ConnInv, ConnTypes, SeatsAreOpen
  <2>4. client # None /\ pending # None => gen[client] # gen[pending]
    BY <2>2, <2>3 DEF ConnInv, SeatsAreOpen, KeysAreUnique
  <2> QED
    BY <2>2, <2>3, <2>4 DEF LiveIsNotSkipped
<1> QED
  BY <1>1, ConnInvariant, PTL

-----------------------------------------------------------------------------
(* Frames are differences.  A peer that displays x and reads the messages   *)
(* of s displays b when it comes to message k: nothing was drawn, or b is   *)
(* where the last frame leads.                                              *)
IsFrame(m) == m.type = "Frame"

Displays(x, s, k, b) ==
  \/ x = b /\ \A j \in 1..(k - 1) : ~IsFrame(s[j])
  \/ \E i \in 1..(k - 1) :
       IsFrame(s[i]) /\ s[i].to = b /\ \A j \in (i + 1)..(k - 1) : ~IsFrame(s[j])

(* Every difference in s is computed against what the peer displays then.   *)
Chain(x, s) ==
  \A k \in 1..Len(s) :
    IsFrame(s[k]) /\ s[k].base # Repaint => Displays(x, s, k, s[k].base)

(* What the peer displays once it has read s. *)
Ends(x, s, b) == Displays(x, s, Len(s) + 1, b)

(* Only the messages before k decide what is displayed at k. *)
LEMMA DisplaysAgrees ==
  ASSUME NEW x, NEW s, NEW t, NEW k \in Nat, NEW b,
         \A j \in 1..(k - 1) : t[j] = s[j],
         Displays(x, s, k, b)
  PROVE  Displays(x, t, k, b)
  BY DEF Displays

(* Messages that are not frames change nothing. *)
LEMMA DisplaysOn ==
  ASSUME NEW x, NEW s, NEW k \in Nat \ {0}, NEW l \in Nat, k <= l, NEW b,
         \A j \in k..(l - 1) : ~IsFrame(s[j]),
         Displays(x, s, k, b)
  PROVE  Displays(x, s, l, b)
<1>1. CASE x = b /\ \A j \in 1..(k - 1) : ~IsFrame(s[j])
  <2>1. \A j \in 1..(l - 1) : ~IsFrame(s[j])
    BY <1>1
  <2> QED
    BY <1>1, <2>1 DEF Displays
<1>2. ASSUME NEW i \in 1..(k - 1), IsFrame(s[i]), s[i].to = b,
             \A j \in (i + 1)..(k - 1) : ~IsFrame(s[j])
      PROVE  Displays(x, s, l, b)
  <2>1. i \in 1..(l - 1) /\ \A j \in (i + 1)..(l - 1) : ~IsFrame(s[j])
    BY <1>2
  <2> QED
    BY <1>2, <2>1 DEF Displays
<1> QED
  BY <1>1, <1>2 DEF Displays

(* A prefix of a chain is a chain. *)
LEMMA ChainPrefix ==
  ASSUME NEW x, NEW S, NEW s \in Seq(S), NEW t \in Seq(S), Len(s) <= Len(t),
         \A j \in 1..Len(s) : t[j] = s[j],
         Chain(x, t)
  PROVE  Chain(x, s)
<1> SUFFICES ASSUME NEW k \in 1..Len(s), IsFrame(s[k]), s[k].base # Repaint
             PROVE  Displays(x, s, k, s[k].base)
  BY DEF Chain
<1>1. Len(s) \in Nat /\ Len(t) \in Nat /\ k \in Nat /\ k \in 1..Len(t) /\ t[k] = s[k]
  OBVIOUS
<1>2. Displays(x, t, k, s[k].base)
  BY <1>1 DEF Chain
<1>3. \A j \in 1..(k - 1) : s[j] = t[j]
  BY <1>1
<1> QED
  BY <1>1, <1>2, <1>3, DisplaysAgrees

(* So is a chain followed by messages that are not frames. *)
LEMMA ChainGoesOn ==
  ASSUME NEW x, NEW S, NEW s \in Seq(S), NEW t \in Seq(S), Len(s) <= Len(t),
         \A j \in 1..Len(s) : t[j] = s[j],
         \A j \in (Len(s) + 1)..Len(t) : ~IsFrame(t[j])
  PROVE  /\ Chain(x, s) => Chain(x, t)
         /\ \A b : Ends(x, s, b) => Ends(x, t, b)
<1>1. Len(s) \in Nat /\ Len(t) \in Nat
  OBVIOUS
<1>2. ASSUME Chain(x, s), NEW k \in 1..Len(t), IsFrame(t[k]), t[k].base # Repaint
      PROVE  Displays(x, t, k, t[k].base)
  <2>0. ~(k \in (Len(s) + 1)..Len(t))
    BY <1>2
  <2>1. k \in 1..Len(s) /\ k \in Nat /\ t[k] = s[k] /\ \A j \in 1..(k - 1) : t[j] = s[j]
    BY <1>1, <2>0
  <2>2. Displays(x, s, k, t[k].base)
    BY <1>2, <2>1 DEF Chain
  <2> QED
    BY <2>1, <2>2, DisplaysAgrees
<1>3. ASSUME NEW b, Ends(x, s, b)
      PROVE  Ends(x, t, b)
  <2>1. /\ Len(s) + 1 \in Nat \ {0} /\ Len(t) + 1 \in Nat /\ Len(s) + 1 <= Len(t) + 1
        /\ \A j \in 1..((Len(s) + 1) - 1) : t[j] = s[j]
        /\ \A j \in (Len(s) + 1)..((Len(t) + 1) - 1) : ~IsFrame(t[j])
    BY <1>1
  <2>2. Displays(x, s, Len(s) + 1, b)
    BY <1>3 DEF Ends
  <2>3. Displays(x, t, Len(s) + 1, b)
    BY <2>1, <2>2, DisplaysAgrees
  <2>4. Displays(x, t, Len(t) + 1, b)
    BY <2>1, <2>3, DisplaysOn
  <2> QED
    BY <2>4 DEF Ends
<1> QED
  BY <1>2, <1>3 DEF Chain

(* A chain may be followed by a repaint, or by a difference from where it   *)
(* ends.                                                                    *)
LEMMA ChainAppend ==
  ASSUME NEW x, NEW S, NEW s \in Seq(S), NEW m \in S, Chain(x, s),
         IsFrame(m), m.base = Repaint \/ Ends(x, s, m.base)
  PROVE  Chain(x, Append(s, m)) /\ Ends(x, Append(s, m), m.to)
<1> DEFINE t == Append(s, m)
           n == Len(s) + 1
<1>1. /\ t \in Seq(S) /\ Len(s) \in Nat /\ Len(t) = n /\ n \in Nat
      /\ \A i \in 1..Len(s) : t[i] = s[i]
      /\ t[n] = m
  BY AppendProperties
<1> HIDE DEF t
<1>2. ASSUME NEW k \in 1..Len(t), IsFrame(t[k]), t[k].base # Repaint
      PROVE  Displays(x, t, k, t[k].base)
  <2>1. k \in Nat /\ \A j \in 1..(k - 1) : t[j] = s[j]
    BY <1>1
  <2>2. CASE k = n
    <3>1. Displays(x, s, k, m.base)
      BY <1>1, <1>2, <2>2 DEF Ends
    <3> QED
      BY <1>1, <2>1, <2>2, <3>1, DisplaysAgrees
  <2>3. CASE k # n
    <3>1. k \in 1..Len(s) /\ t[k] = s[k]
      BY <1>1, <2>3
    <3>2. Displays(x, s, k, t[k].base)
      BY <1>2, <3>1 DEF Chain
    <3> QED
      BY <2>1, <3>2, DisplaysAgrees
  <2> QED
    BY <2>2, <2>3
<1>3. Displays(x, t, n + 1, m.to)
  BY <1>1 DEF Displays
<1> QED
  BY <1>1, <1>2, <1>3 DEF Chain, Ends, t

(* What is displayed once a message has been read. *)
After(x, m) == IF IsFrame(m) THEN m.to ELSE x

(* Reading a message: the rest is a chain for what is displayed then. *)
LEMMA ChainRead ==
  ASSUME NEW x, NEW S, NEW s \in Seq(S), s # <<>>
  PROVE  /\ Chain(x, s) => Chain(After(x, s[1]), Tail(s))
         /\ \A b : Ends(x, s, b) => Ends(After(x, s[1]), Tail(s), b)
         /\ Chain(x, s) /\ IsFrame(s[1]) /\ s[1].base # Repaint => s[1].base = x
<1> DEFINE t == Tail(s)
           y == After(x, s[1])
<1>1. /\ t \in Seq(S) /\ Len(s) \in Nat /\ Len(s) >= 1 /\ Len(t) = Len(s) - 1
      /\ \A i \in 1..Len(t) : t[i] = s[i + 1]
  BY HeadTailProperties
<1> HIDE DEF t
<1>2. ASSUME NEW k \in 2..(Len(s) + 1), NEW b, Displays(x, s, k, b)
      PROVE  Displays(y, t, k - 1, b)
  <2>0. \A j \in 1..((k - 1) - 1) : t[j] = s[j + 1] /\ j + 1 \in 2..(k - 1)
    BY <1>1
  <2>1. CASE x = b /\ \A j \in 1..(k - 1) : ~IsFrame(s[j])
    <3>1. y = b /\ \A j \in 1..((k - 1) - 1) : ~IsFrame(t[j])
      BY <2>0, <2>1 DEF After
    <3> QED
      BY <3>1 DEF Displays
  <2>2. ASSUME NEW i \in 1..(k - 1), IsFrame(s[i]), s[i].to = b,
               \A j \in (i + 1)..(k - 1) : ~IsFrame(s[j])
        PROVE  Displays(y, t, k - 1, b)
    <3>1. CASE i = 1
      <4>1. y = b
        BY <2>2, <3>1 DEF After
      <4>2. \A j \in 1..((k - 1) - 1) : ~IsFrame(t[j])
        BY <2>0, <2>2, <3>1
      <4> QED
        BY <4>1, <4>2 DEF Displays
    <3>2. CASE i # 1
      <4>1. i - 1 \in 1..((k - 1) - 1) /\ t[i - 1] = s[i]
        BY <2>0, <3>2
      <4>2. \A j \in ((i - 1) + 1)..((k - 1) - 1) : ~IsFrame(t[j])
        BY <2>0, <2>2
      <4> QED
        BY <2>2, <4>1, <4>2 DEF Displays
    <3> QED
      BY <3>1, <3>2
  <2> QED
    BY <1>2, <2>1, <2>2 DEF Displays
<1>3. ASSUME Chain(x, s), NEW k \in 1..Len(t), IsFrame(t[k]), t[k].base # Repaint
      PROVE  Displays(y, t, k, t[k].base)
  <2>1. k + 1 \in 1..Len(s) /\ k + 1 \in 2..(Len(s) + 1) /\ t[k] = s[k + 1] /\ (k + 1) - 1 = k
    BY <1>1
  <2>2. Displays(x, s, k + 1, t[k].base)
    BY <1>3, <2>1 DEF Chain
  <2>3. Displays(y, t, (k + 1) - 1, t[k].base)
    BY <1>2, <2>1, <2>2
  <2> QED
    BY <2>1, <2>3
<1>4. ASSUME NEW b, Ends(x, s, b)
      PROVE  Ends(y, t, b)
  <2>1. Len(s) + 1 \in 2..(Len(s) + 1) /\ (Len(s) + 1) - 1 = Len(t) + 1
    BY <1>1
  <2>2. Displays(y, t, (Len(s) + 1) - 1, b)
    BY <1>2, <1>4, <2>1 DEF Ends
  <2> QED
    BY <2>1, <2>2 DEF Ends
<1>5. Chain(x, s) /\ IsFrame(s[1]) /\ s[1].base # Repaint => s[1].base = x
  BY <1>1 DEF Chain, Displays
<1> QED
  BY <1>3, <1>4, <1>5 DEF Chain, t

-----------------------------------------------------------------------------
(* The output queue, over whole messages. *)
Queue(S) ==
  [msgs : Seq(S), begun : BOOLEAN, entered : BOOLEAN,
   overflow : {"None", "Clean", "Dirty"}, torn : BOOLEAN]

(* What of the queue the peer will still understand. *)
Todo(q) == IF q.torn THEN <<>> ELSE q.msgs

(* Neither torn nor rejected, or both. *)
SameFlags(p, q) == p.torn = q.torn /\ p.overflow = q.overflow

(* Two sequences end to end, message by message. *)
LEMMA ConcatFacts ==
  ASSUME NEW S, NEW s \in Seq(S), NEW t \in Seq(S)
  PROVE  /\ s \o t \in Seq(S) /\ Len(s \o t) = Len(s) + Len(t)
         /\ Len(s) \in Nat /\ Len(t) \in Nat
         /\ \A i \in 1..Len(s) : (s \o t)[i] = s[i]
         /\ \A i \in 1..Len(t) : (s \o t)[Len(s) + i] = t[i]
<1>1. Len(s) \in Nat /\ Len(t) \in Nat
  OBVIOUS
<1>2. /\ s \o t \in Seq(S) /\ Len(s \o t) = Len(s) + Len(t)
      /\ \A i \in 1..(Len(s) + Len(t)) :
           (s \o t)[i] = IF i <= Len(s) THEN s[i] ELSE t[i - Len(s)]
  BY ConcatProperties, ZenonT(30)
<1>3. \A i \in 1..Len(s) : i \in 1..(Len(s) + Len(t)) /\ i <= Len(s)
  BY <1>1
<1>4. \A i \in 1..Len(t) : /\ Len(s) + i \in 1..(Len(s) + Len(t)) /\ ~(Len(s) + i <= Len(s))
                           /\ (Len(s) + i) - Len(s) = i
  BY <1>1
<1>5. \A i \in 1..Len(s) : (s \o t)[i] = s[i]
  BY <1>2, <1>3
<1>6. \A i \in 1..Len(t) : (s \o t)[Len(s) + i] = t[i]
  BY <1>2, <1>4
<1> QED
  BY <1>1, <1>2, <1>5, <1>6

(* The sequences flush() makes. *)
FlushCount(q, sent) ==
  IF Len(q.msgs) <= SockRoom - Len(sent) THEN Len(q.msgs) ELSE SockRoom - Len(sent)
FlushWire(q, n) == [i \in 1..n |-> IF q.torn THEN Garbage ELSE SubSeq(q.msgs, 1, n)[i]]
FlushRest(q, n) == SubSeq(q.msgs, n + 1, Len(q.msgs))
FlushPart(q, n) ==
  IF FlushRest(q, n) = <<>> THEN {FALSE} ELSE IF n = 0 /\ q.begun THEN {TRUE} ELSE BOOLEAN
FlushOffs(q, n, b) ==
  LET moved == q.entered \/ n > 0 \/ b
  IN  IF FlushRest(q, n) = <<>> THEN {FALSE}
      ELSE IF moved /\ MayCompact THEN BOOLEAN ELSE {moved}

(* flush() moves whole messages, in order, from the queue to the socket,    *)
(* within the socket's room.                                                *)
LEMMA FlushMoves ==
  ASSUME NEW S, NEW q \in Queue(S), NEW sent \in Seq(S), Len(sent) <= SockRoom,
         NEW f \in Flush(q, sent)
  PROVE  LET n == FlushCount(q, sent) IN
         /\ n \in 0..Len(q.msgs) /\ Len(sent) + n <= SockRoom
         /\ f.queue \in Queue(S) /\ f.queue.msgs = FlushRest(q, n)
         /\ SameFlags(f.queue, q)
         /\ f.sent = sent \o FlushWire(q, n)
<1> DEFINE n == FlushCount(q, sent)
<1>1. n \in 0..Len(q.msgs) /\ Len(sent) + n <= SockRoom /\ Len(q.msgs) \in Nat
  BY MessageQueueAssumption DEF Queue, FlushCount
<1>2. \A i \in (n + 1)..Len(q.msgs) : q.msgs[i] \in S
  BY <1>1 DEF Queue
<1>3. FlushRest(q, n) \in Seq(S)
  BY <1>1, <1>2, SubSeqProperties DEF FlushRest
<1> DEFINE F(b, e) == [queue |-> [q EXCEPT !.msgs = FlushRest(q, n), !.begun = b, !.entered = e],
                       sent |-> sent \o FlushWire(q, n)]
<1>4. Flush(q, sent) = UNION {{F(b, e) : e \in FlushOffs(q, n, b)} : b \in FlushPart(q, n)}
  BY DEF Flush, FlushCount, FlushRest, FlushWire, FlushPart, FlushOffs
<1> HIDE DEF n, F
<1>5. PICK b \in FlushPart(q, n) : f \in {F(b, e) : e \in FlushOffs(q, n, b)}
  BY <1>4
<1>6. PICK e \in FlushOffs(q, n, b) : f = F(b, e)
  BY <1>5
<1>7. b \in BOOLEAN /\ e \in BOOLEAN
  <2>1. b \in BOOLEAN
    BY <1>5 DEF FlushPart
  <2> QED
    BY <1>6, <2>1 DEF FlushOffs
<1>8. f.queue = [q EXCEPT !.msgs = FlushRest(q, n), !.begun = b, !.entered = e]
      /\ f.sent = sent \o FlushWire(q, n)
  BY <1>6 DEF F
<1>9. f.queue \in Queue(S) /\ f.queue.msgs = FlushRest(q, n)
      /\ f.queue.torn = q.torn /\ f.queue.overflow = q.overflow
  BY <1>3, <1>7, <1>8 DEF Queue
<1> QED
  BY <1>1, <1>8, <1>9 DEF n, SameFlags

(* flush() changes nothing to what the peer will display in the end, torn   *)
(* queue or not: what follows a torn message is never taken for a frame.    *)
LEMMA FlushChain ==
  ASSUME NEW S, NEW q \in Queue(S), NEW sent \in Seq(S), Len(sent) <= SockRoom,
         NEW f \in Flush(q, sent)
  PROVE  /\ f.queue \in Queue(S)
         /\ SameFlags(f.queue, q)
         /\ f.sent \in Seq(S \cup {Garbage}) /\ Len(f.sent) <= SockRoom
         /\ \A x : Chain(x, sent \o Todo(q)) => Chain(x, f.sent \o Todo(f.queue))
         /\ \A x, b : Ends(x, sent \o Todo(q), b) => Ends(x, f.sent \o Todo(f.queue), b)
<1> DEFINE n == FlushCount(q, sent)
           w == FlushWire(q, n)
           r == FlushRest(q, n)
           T == S \cup {Garbage}
<1>1. /\ n \in 0..Len(q.msgs) /\ Len(sent) + n <= SockRoom
      /\ f.queue \in Queue(S) /\ f.queue.msgs = r
      /\ SameFlags(f.queue, q)
      /\ f.sent = sent \o w
  BY FlushMoves
<1> HIDE DEF n
<1>2. q.msgs \in Seq(S) /\ Len(q.msgs) \in Nat /\ n \in Nat /\ q.torn \in BOOLEAN
  BY <1>1 DEF Queue
<1>3. \A i \in 1..n : q.msgs[i] \in S /\ SubSeq(q.msgs, 1, n)[i] = q.msgs[i]
  <2>1. \A i \in 1..n : q.msgs[i] \in S
    BY <1>1, <1>2
  <2>2. \A i \in 1..(n - 1 + 1) : SubSeq(q.msgs, 1, n)[i] = q.msgs[1 + i - 1]
    BY <1>2, <2>1, SubSeqProperties
  <2>3. \A i \in 1..n : i \in 1..(n - 1 + 1) /\ 1 + i - 1 = i
    BY <1>2
  <2> QED
    BY <2>1, <2>2, <2>3
<1>4. /\ w \in Seq(T) /\ Len(w) = n
      /\ \A i \in 1..n : w[i] = IF q.torn THEN Garbage ELSE q.msgs[i]
  <2>1. \A i \in 1..n : w[i] = IF q.torn THEN Garbage ELSE q.msgs[i]
    BY <1>3 DEF FlushWire
  <2>2. w \in [1..n -> T]
    BY <1>3 DEF FlushWire
  <2>3. w \in Seq(T) /\ Len(w) = n
    BY <1>2, <2>2
  <2> QED
    BY <2>1, <2>3
<1>5. sent \in Seq(T) /\ q.msgs \in Seq(T)
  BY <1>2, SeqMonotonic
<1>6. /\ r \in Seq(T) /\ Len(r) = Len(q.msgs) - n
      /\ \A i \in 1..Len(r) : r[i] = q.msgs[n + i]
  <2>1. \A i \in (n + 1)..Len(q.msgs) : q.msgs[i] \in T
    BY <1>2, <1>5
  <2>2. /\ r \in Seq(T)
        /\ Len(r) = IF n + 1 <= Len(q.msgs) THEN Len(q.msgs) - (n + 1) + 1 ELSE 0
        /\ \A i \in 1..(Len(q.msgs) - (n + 1) + 1) : r[i] = q.msgs[(n + 1) + i - 1]
    BY <1>2, <2>1, SubSeqProperties DEF FlushRest
  <2>3. Len(r) = Len(q.msgs) - n
    BY <1>1, <1>2, <2>2
  <2>4. \A i \in 1..Len(r) : i \in 1..(Len(q.msgs) - (n + 1) + 1) /\ (n + 1) + i - 1 = n + i
    BY <1>1, <1>2, <2>3
  <2> QED
    BY <2>2, <2>3, <2>4
<1> HIDE DEF w, r, T
<1>7. /\ f.sent \in Seq(T) /\ Len(f.sent) = Len(sent) + n /\ Len(sent) \in Nat
      /\ \A i \in 1..Len(sent) : f.sent[i] = sent[i]
      /\ \A i \in 1..n : f.sent[Len(sent) + i] = w[i]
  <2>1. sent \in Seq(T) /\ w \in Seq(T)
    BY <1>4, <1>5
  <2>2. /\ sent \o w \in Seq(T) /\ Len(sent \o w) = Len(sent) + Len(w) /\ Len(sent) \in Nat
        /\ \A i \in 1..Len(sent) : (sent \o w)[i] = sent[i]
        /\ \A i \in 1..Len(w) : (sent \o w)[Len(sent) + i] = w[i]
    BY <2>1, ConcatFacts
  <2>3. Len(w) = n /\ f.sent = sent \o w
    BY <1>1, <1>4
  <2> QED
    BY <2>2, <2>3
<1>8. CASE q.torn
  <2>1. Todo(q) = <<>> /\ Todo(f.queue) = <<>>
    BY <1>1, <1>8 DEF Todo, SameFlags
  <2>2. sent \o <<>> = sent /\ f.sent \o <<>> = f.sent
    BY <1>5, <1>7, ConcatEmptySeq
  <2>3. \A j \in (Len(sent) + 1)..Len(f.sent) : ~IsFrame(f.sent[j])
    <3> SUFFICES ASSUME NEW j \in (Len(sent) + 1)..Len(f.sent) PROVE ~IsFrame(f.sent[j])
      OBVIOUS
    <3>1. j - Len(sent) \in 1..n /\ Len(sent) + (j - Len(sent)) = j
      BY <1>2, <1>7
    <3>2. f.sent[j] = Garbage
      BY <1>4, <1>7, <1>8, <3>1
    <3> QED
      BY <3>2 DEF Garbage, IsFrame
  <2>4. Len(sent) <= Len(f.sent)
    BY <1>2, <1>7
  <2>5. \A x : /\ Chain(x, sent) => Chain(x, f.sent)
              /\ \A b : Ends(x, sent, b) => Ends(x, f.sent, b)
    BY <1>5, <1>7, <2>3, <2>4, ChainGoesOn
  <2> QED
    BY <1>1, <1>7, <2>1, <2>2, <2>5 DEF T
<1>9. CASE ~q.torn
  <2>1. Todo(q) = q.msgs /\ Todo(f.queue) = r
    BY <1>1, <1>9 DEF Todo, SameFlags
  <2>2. f.sent \o r = sent \o q.msgs
    <3> DEFINE u == f.sent
               a == u \o r
               z == sent \o q.msgs
    <3>0. /\ u \in Seq(T) /\ Len(u) = Len(sent) + n /\ Len(sent) \in Nat
          /\ \A i \in 1..Len(sent) : u[i] = sent[i]
          /\ \A i \in 1..n : u[Len(sent) + i] = w[i]
      BY <1>7
    <3> HIDE DEF u
    <3>1. /\ a \in Seq(T) /\ Len(a) = Len(u) + Len(r)
          /\ \A i \in 1..Len(u) : a[i] = u[i]
          /\ \A i \in 1..Len(r) : a[Len(u) + i] = r[i]
      <4>1. u \in Seq(T) /\ r \in Seq(T)
        BY <1>6, <3>0
      <4> QED
        BY <4>1, ConcatFacts
    <3>2. /\ z \in Seq(T) /\ Len(z) = Len(sent) + Len(q.msgs)
          /\ \A i \in 1..Len(sent) : z[i] = sent[i]
          /\ \A i \in 1..Len(q.msgs) : z[Len(sent) + i] = q.msgs[i]
      BY <1>5, ConcatFacts
    <3> HIDE DEF a, z
    <3>3. Len(a) = Len(z)
      <4>1. /\ Len(a) = Len(u) + Len(r) /\ Len(z) = Len(sent) + Len(q.msgs)
            /\ Len(u) = Len(sent) + n /\ Len(r) = Len(q.msgs) - n
        BY <1>6, <3>0, <3>1, <3>2
      <4>2. Len(sent) \in Nat /\ n \in Nat /\ Len(q.msgs) \in Nat
        BY <1>2, <3>0
      <4>3. \A i, j, k \in Nat : (i + k) + (j - k) = i + j
        OBVIOUS
      <4>4. Len(a) = (Len(sent) + n) + (Len(q.msgs) - n)
        BY <4>1
      <4>5. (Len(sent) + n) + (Len(q.msgs) - n) = Len(sent) + Len(q.msgs)
        BY <4>2, <4>3
      <4>6. Len(z) = Len(sent) + Len(q.msgs)
        BY <4>1
      <4> QED
        BY <4>4, <4>5, <4>6
    <3>4. ASSUME NEW i \in 1..Len(a)
          PROVE  a[i] = z[i]
      <4>0. i \in Nat /\ i >= 1 /\ i <= Len(sent) + Len(q.msgs)
        BY <1>2, <3>0, <3>2, <3>3
      <4>1. CASE i <= Len(sent)
        <5>1. i \in 1..Len(sent) /\ i \in 1..Len(u)
          BY <1>2, <3>0, <4>0, <4>1
        <5> QED
          BY <3>0, <3>1, <3>2, <5>1
      <4>2. CASE i > Len(sent) /\ i <= Len(sent) + n
        <5> DEFINE k == i - Len(sent)
        <5>1. k \in 1..n /\ k \in 1..Len(q.msgs) /\ i \in 1..Len(u) /\ Len(sent) + k = i
          BY <1>1, <1>2, <3>0, <4>0, <4>2
        <5> HIDE DEF k
        <5>2. a[i] = w[k]
          BY <3>0, <3>1, <5>1
        <5>3. z[i] = q.msgs[k]
          BY <3>2, <5>1
        <5> QED
          BY <1>4, <1>9, <5>1, <5>2, <5>3
      <4>3. CASE i > Len(sent) + n
        <5> DEFINE k == i - (Len(sent) + n)
        <5>1. /\ k \in 1..Len(r) /\ n + k \in 1..Len(q.msgs)
              /\ Len(u) + k = i /\ Len(sent) + (n + k) = i
          BY <1>1, <1>2, <1>6, <3>0, <4>0, <4>3
        <5> HIDE DEF k
        <5>2. a[i] = r[k] /\ r[k] = q.msgs[n + k]
          BY <1>6, <3>1, <5>1
        <5>3. z[i] = q.msgs[n + k]
          BY <3>2, <5>1
        <5> QED
          BY <5>2, <5>3
      <4> QED
        BY <1>2, <3>0, <4>0, <4>1, <4>2, <4>3
    <3>5. a = z
      BY <3>1, <3>2, <3>3, <3>4, SeqEqual
    <3> QED
      BY <3>5 DEF a, z, u
  <2> QED
    BY <1>1, <1>7, <2>1, <2>2 DEF T
<1> QED
  BY <1>2, <1>8, <1>9

(* The types alone. *)
LEMMA FlushTypes ==
  ASSUME NEW S, NEW q \in Queue(S), NEW sent \in Seq(S), Len(sent) <= SockRoom,
         NEW f \in Flush(q, sent)
  PROVE  /\ f.queue \in Queue(S) /\ SameFlags(f.queue, q)
         /\ f.sent \in Seq(S \cup {Garbage}) /\ Len(f.sent) <= SockRoom
  BY FlushChain

(* The chain, for one screen. *)
LEMMA FlushEnds ==
  ASSUME NEW S, NEW q \in Queue(S), NEW sent \in Seq(S), Len(sent) <= SockRoom,
         NEW f \in Flush(q, sent), NEW x, NEW b
  PROVE  /\ Chain(x, sent \o Todo(q)) => Chain(x, f.sent \o Todo(f.queue))
         /\ Ends(x, sent \o Todo(q), b) => Ends(x, f.sent \o Todo(f.queue), b)
<1>1. /\ \A y : Chain(y, sent \o Todo(q)) => Chain(y, f.sent \o Todo(f.queue))
      /\ \A y, c : Ends(y, sent \o Todo(q), c) => Ends(y, f.sent \o Todo(f.queue), c)
  BY FlushChain, Zenon
<1> QED
  BY <1>1, Zenon

(* push(), accepted or not: the queue stays a chain that continues what the *)
(* socket holds, and an accepted frame is where it leads.                   *)
LEMMA PushChain ==
  ASSUME NEW S, NEW q \in Queue(S), NEW sent \in Seq(S), NEW m \in S, NEW x,
         Chain(x, sent \o Todo(q)),
         IsFrame(m) => m.base = Repaint \/ q.torn \/ Ends(x, sent \o Todo(q), m.base)
  PROVE  /\ Push(q, m) \in Queue(S)
         /\ Chain(x, sent \o Todo(Push(q, m)))
         /\ IsFrame(m) /\ ~Push(q, m).torn /\ Push(q, m).overflow = "None"
              => Ends(x, sent \o Todo(Push(q, m)), m.to)
<1> DEFINE p == Push(q, m)
<1>1. q.msgs \in Seq(S) /\ q.torn \in BOOLEAN /\ Todo(q) \in Seq(S)
  BY DEF Queue, Todo
<1>2. /\ sent \o Todo(q) \in Seq(S) /\ Len(sent) \in Nat /\ Len(Todo(q)) \in Nat
      /\ Len(sent \o Todo(q)) = Len(sent) + Len(Todo(q))
      /\ \A i \in 1..Len(sent) : (sent \o Todo(q))[i] = sent[i]
  BY <1>1, ConcatFacts
<1>3. sent \o <<>> = sent
  BY ConcatEmptySeq
<1>4. Chain(x, sent)
  <2>1. Len(sent) <= Len(sent \o Todo(q))
    BY <1>2
  <2> QED
    BY <1>2, <2>1, ChainPrefix
<1>5. CASE Weight(m) > Ceiling - Load(q)
  <2> DEFINE v == IF q.entered \/ q.overflow = "Dirty" THEN "Dirty" ELSE "Clean"
             t == q.torn \/ q.begun
  <2>0. v \in {"Dirty", "Clean"} /\ t \in BOOLEAN /\ <<>> \in Seq(S)
    BY EmptySeq
  <2>a. p = [EmptyQueue EXCEPT !.overflow = v, !.torn = t]
    BY <1>5 DEF Push
  <2> HIDE DEF p, v, t
  <2>b. p = [msgs |-> <<>>, begun |-> FALSE, entered |-> FALSE, overflow |-> v, torn |-> t]
    BY <2>a DEF EmptyQueue
  <2>1. /\ p.msgs = <<>> /\ p.overflow # "None" /\ p \in Queue(S)
    BY <2>0, <2>b DEF Queue
  <2>2. Todo(p) = <<>>
    BY <2>1 DEF Todo
  <2> QED
    BY <1>3, <1>4, <2>1, <2>2 DEF p
<1>6. CASE ~(Weight(m) > Ceiling - Load(q))
  <2>1. p = [q EXCEPT !.msgs = Append(q.msgs, m)]
    BY <1>6 DEF Push
  <2>2. Append(q.msgs, m) \in Seq(S)
    BY <1>1, AppendProperties
  <2>3. p \in Queue(S) /\ p.msgs = Append(q.msgs, m) /\ p.torn = q.torn
    BY <2>1, <2>2 DEF Queue
  <2>4. CASE q.torn
    BY <2>3, <2>4 DEF Todo
  <2>5. CASE ~q.torn
    <3>1. Todo(q) = q.msgs /\ Todo(p) = Append(q.msgs, m)
      BY <2>3, <2>5 DEF Todo
    <3>2. sent \o Append(q.msgs, m) = Append(sent \o q.msgs, m)
      BY <1>1, SMTT(30)
    <3>3. sent \o q.msgs \in Seq(S) /\ Chain(x, sent \o q.msgs)
      BY <1>2, <3>1
    <3>4. CASE IsFrame(m)
      <4>1. m.base = Repaint \/ Ends(x, sent \o q.msgs, m.base)
        BY <2>5, <3>1, <3>4
      <4>2. Chain(x, Append(sent \o q.msgs, m)) /\ Ends(x, Append(sent \o q.msgs, m), m.to)
        BY <3>3, <3>4, <4>1, ChainAppend
      <4> QED
        BY <2>3, <3>1, <3>2, <4>2
    <3>5. CASE ~IsFrame(m)
      <4> DEFINE s == sent \o q.msgs
                 t == Append(s, m)
      <4>0. s \in Seq(S) /\ Chain(x, s)
        BY <3>3
      <4> HIDE DEF s
      <4>1. /\ t \in Seq(S) /\ Len(t) = Len(s) + 1 /\ Len(s) \in Nat
            /\ \A i \in 1..Len(s) : t[i] = s[i]
            /\ t[Len(s) + 1] = m
        BY <4>0, AppendProperties
      <4> HIDE DEF t
      <4>2. Len(s) <= Len(t) /\ \A j \in (Len(s) + 1)..Len(t) : ~IsFrame(t[j])
        BY <3>5, <4>1
      <4>3. Chain(x, t)
        BY <4>0, <4>1, <4>2, ChainGoesOn
      <4> QED
        BY <2>3, <3>1, <3>2, <3>5, <4>3 DEF s, t
    <3> QED
      BY <3>4, <3>5
  <2> QED
    BY <1>1, <2>4, <2>5
<1> QED
  BY <1>5, <1>6

(* What drop_client() may add to the connection. *)
Words(reason) == IF reason = None THEN {} ELSE {Detached(reason)}

(* drop_client(): the last words, pushed or not and flushed or not, never   *)
(* break the chain.                                                         *)
LEMMA LastWordsChain ==
  ASSUME NEW S, NEW q \in Queue(S), NEW sent \in Seq(S), Len(sent) <= SockRoom,
         NEW c, NEW reason, NEW d \in LastWords(c, q, sent, reason),
         NEW x, Chain(x, sent \o Todo(q))
  PROVE  d \in Seq(S \cup {Garbage} \cup Words(reason)) /\ Chain(x, d)
<1> DEFINE T == S \cup Words(reason)
           U == S \cup {Garbage} \cup Words(reason)
<1>1. CASE reason = None \/ Hung(c)
  <2>1. d = sent
    BY <1>1 DEF LastWords
  <2>2. sent \in Seq(U)
    BY SeqMonotonic
  <2>3. Todo(q) \in Seq(S)
    BY DEF Todo, Queue
  <2>4. /\ sent \o Todo(q) \in Seq(S) /\ Len(sent) <= Len(sent \o Todo(q))
        /\ \A i \in 1..Len(sent) : (sent \o Todo(q))[i] = sent[i]
    BY <2>3, ConcatFacts
  <2>5. Chain(x, sent)
    BY <2>4, ChainPrefix
  <2> QED
    BY <2>1, <2>2, <2>5
<1>2. CASE ~(reason = None \/ Hung(c))
  <2> DEFINE m == Detached(reason)
             p == Push(q, m)
  <2>1. PICK f \in Flush(p, sent) : d = f.sent
    BY <1>2 DEF LastWords
  <2>2. m \in T /\ ~IsFrame(m)
    BY <1>2 DEF Words, Detached, IsFrame
  <2>3. q \in Queue(T) /\ sent \in Seq(T)
    <3>1. q.msgs \in Seq(S)
      BY DEF Queue
    <3>2. q.msgs \in Seq(T) /\ sent \in Seq(T)
      BY <3>1, SeqMonotonic
    <3> QED
      BY <3>2 DEF Queue
  <2> HIDE DEF m, T
  <2>4. p \in Queue(T) /\ Chain(x, sent \o Todo(p))
    BY <2>2, <2>3, PushChain
  <2> HIDE DEF p
  <2>5. /\ f.queue \in Queue(T) /\ f.sent \in Seq(T \cup {Garbage})
        /\ Chain(x, f.sent \o Todo(f.queue))
    BY <2>1, <2>3, <2>4, FlushChain
  <2>6. Todo(f.queue) \in Seq(T \cup {Garbage})
    <3>1. f.queue.msgs \in Seq(T)
      BY <2>5 DEF Queue
    <3>2. f.queue.msgs \in Seq(T \cup {Garbage})
      BY <3>1, SeqMonotonic
    <3> QED
      BY <3>2 DEF Todo
  <2> DEFINE V == T \cup {Garbage}
             g == f.sent
             h == Todo(f.queue)
  <2>a. g \in Seq(V) /\ h \in Seq(V) /\ Chain(x, g \o h)
    BY <2>5, <2>6
  <2> HIDE DEF V, g, h
  <2>7. /\ g \o h \in Seq(V) /\ Len(g) <= Len(g \o h)
        /\ \A i \in 1..Len(g) : (g \o h)[i] = g[i]
    BY <2>a, ConcatFacts
  <2>8. Chain(x, g)
    BY <2>a, <2>7, ChainPrefix
  <2>9. V = U
    BY DEF V, T
  <2> QED
    BY <2>1, <2>8, <2>9, <2>a DEF g
<1> QED
  BY <1>1, <1>2

-----------------------------------------------------------------------------
(* The messages: the inductive invariant. *)
Announces(m) == m.type = "Detached" /\ m.reason = "update"

(* What p has still to read of what was sent or will be. *)
Stream(p) == down[p] \o (IF p = client THEN Todo(out) ELSE <<>>)

PeerTypes ==
  /\ shown = [p \in Peer |-> shown[p]]
  /\ rc \in [Peer -> {"none", "ok", "fail", "restart"}]

WireTypes(S) == down \in [Peer -> Seq(S)] /\ out \in Queue(S)

(* A frame leads to a screen, and as long as the daemon listens nobody is   *)
(* told to restart.                                                         *)
Heard(S) ==
  /\ \A m \in S : IsFrame(m) => m.to # Garbled
  /\ listening => \A m \in S : ~Announces(m)

SocketRoom ==
  \A p \in Peer : ~dropped[p] =>
    /\ Len(down[p]) <= SockRoom
    /\ p # client => down[p] = <<>>

UpdateSilence ==
  /\ phase = "farewell" /\ "update" \in wish => ~listening
  /\ RestartFindsNoListener

(* Every difference on its way to a peer fits what that peer will display   *)
(* when it reads it, and what the differ knows of the client is where all   *)
(* that was sent to it leads.                                               *)
KnownFits ==
  client # None /\ ~out.torn =>
    known = Repaint \/ Ends(shown[client], Stream(client), known)

Coherent == (\A p \in Peer : Chain(shown[p], Stream(p))) /\ KnownFits

StreamInv ==
  /\ PeerTypes
  /\ \E S : WireTypes(S) /\ Heard(S)
  /\ SocketRoom
  /\ UpdateSilence
  /\ Coherent
  /\ NoGarbledScreen

(* The empty queue. *)
LEMMA EmptyQueueFacts ==
  \A S : EmptyQueue \in Queue(S) /\ Todo(EmptyQueue) = <<>> /\ ~EmptyQueue.torn
  BY EmptySeq DEF EmptyQueue, Queue, Todo

(* At the start nothing is on its way. *)
LEMMA InitStreamInv == Init => StreamInv
<1> SUFFICES ASSUME Init PROVE StreamInv
  OBVIOUS
<1>1. PeerTypes /\ SocketRoom /\ NoGarbledScreen
  BY MessageQueueAssumption DEF Init, PeerTypes, SocketRoom, NoGarbledScreen, Garbled, Repaint
<1>2. WireTypes({}) /\ Heard({})
  BY EmptyQueueFacts, EmptySeq DEF Init, WireTypes, Heard
<1>3. UpdateSilence
  BY DEF Init, UpdateSilence, RestartFindsNoListener
<1>4. Coherent
  <2>1. \A p \in Peer : Stream(p) = <<>>
    <3>1. \A p \in Peer : p # client /\ down[p] = <<>>
      BY DaemonAssumption DEF Init
    <3>2. <<>> \o <<>> = <<>>
      BY EmptySeq, ConcatEmptySeq
    <3> QED
      BY <3>1, <3>2 DEF Stream
  <2>2. \A x : Chain(x, <<>>)
    BY DEF Chain
  <2> QED
    BY <2>1, <2>2 DEF Init, Coherent, KnownFits
<1> QED
  BY <1>1, <1>2, <1>3, <1>4 DEF StreamInv

(* A step that sends nothing, draws nothing and seats nobody. *)
LEMMA StillStreamInv ==
  ASSUME StreamInv, UNCHANGED <<shown, down, out, client, known>>,
         listening' => listening,
         \A p \in Peer : dropped[p] => dropped'[p],
         rc' \in [Peer -> {"none", "ok", "fail", "restart"}],
         \A p \in Peer : rc'[p] = "restart" => rc[p] = "restart",
         phase' = "farewell" /\ "update" \in wish' => ~listening'
  PROVE  StreamInv'
<1>1. PeerTypes' /\ NoGarbledScreen'
  BY DEF StreamInv, PeerTypes, NoGarbledScreen
<1>2. PICK S : WireTypes(S) /\ Heard(S)
  BY DEF StreamInv
<1>3. (WireTypes(S) /\ Heard(S))'
  BY <1>2 DEF WireTypes, Heard
<1>4. SocketRoom'
  BY DEF StreamInv, SocketRoom
<1>5. UpdateSilence'
  BY DEF StreamInv, UpdateSilence, RestartFindsNoListener
<1>6. Coherent'
  <2>1. \A p \in Peer : Stream(p)' = Stream(p)
    BY DEF Stream
  <2>2. Stream(client)' = Stream(client)
    BY DEF Stream
  <2> QED
    BY <2>1, <2>2 DEF StreamInv, Coherent, KnownFits
<1>7. \E V : (WireTypes(V) /\ Heard(V))'
  BY <1>3
<1> QED
  BY <1>1, <1>4, <1>5, <1>6, <1>7 DEF StreamInv

(* A step that sends something to one connection. *)
LEMMA SendStreamInv ==
  ASSUME StreamInv, NEW S, WireTypes(S), NEW T, S \subseteq T,
         Heard(T)', UNCHANGED <<shown, rc, listening>>,
         NEW c \in Peer, NEW d \in Seq(T),
         down' = [down EXCEPT ![c] = d], out' \in Queue(T),
         \A p \in Peer : dropped[p] => dropped'[p],
         ~dropped'[c] => Len(d) <= SockRoom /\ (c # client' => d = <<>>),
         client' \in {client, None},
         c = client \/ UNCHANGED <<client, out>>,
         Chain(shown[c], d \o (IF c = client' THEN Todo(out') ELSE <<>>)),
         KnownFits',
         phase' = "farewell" /\ "update" \in wish' => ~listening'
  PROVE  StreamInv'
<1> USE DaemonAssumption
<1>1. PeerTypes' /\ NoGarbledScreen' /\ UpdateSilence'
  BY DEF StreamInv, PeerTypes, NoGarbledScreen, UpdateSilence, RestartFindsNoListener
<1>2. down \in [Peer -> Seq(S)] /\ down'[c] = d /\ \A p \in Peer : p # c => down'[p] = down[p]
  BY DEF WireTypes
<1>3. (WireTypes(T) /\ Heard(T))'
  <2>1. \A p \in Peer : down[p] \in Seq(T)
    BY <1>2, SeqMonotonic
  <2>2. down' \in [Peer -> Seq(T)]
    BY <1>2, <2>1
  <2> QED
    BY <2>2 DEF WireTypes
<1>4. SocketRoom'
  BY <1>2 DEF StreamInv, SocketRoom
<1>5. ASSUME NEW p \in Peer PROVE Chain(shown'[p], Stream(p)')
  <2>1. CASE p = c
    BY <1>2, <2>1 DEF Stream
  <2>2. CASE p # c
    <3>1. Stream(p)' = Stream(p)
      BY <1>2, <2>2 DEF Stream
    <3> QED
      BY <3>1 DEF StreamInv, Coherent
  <2> QED
    BY <2>1, <2>2
<1>6. Coherent'
  BY <1>5 DEF Coherent
<1>7. \E V : (WireTypes(V) /\ Heard(V))'
  BY <1>3
<1> QED
  BY <1>1, <1>4, <1>6, <1>7 DEF StreamInv

(* drop_client(): the seat is free, its connection closed after its last    *)
(* words.                                                                   *)
LEMMA DropStreamInv ==
  ASSUME ConnInv, StreamInv, client # None, NEW S, WireTypes(S), Heard(S),
         NEW q \in Queue(S), NEW sent \in Seq(S), Len(sent) <= SockRoom,
         Chain(shown[client], sent \o Todo(q)),
         NEW reason, reason = "update" => reason = None \/ ~listening,
         DropClient(q, sent, reason),
         dropped'[client], \A p \in Peer : dropped[p] => dropped'[p],
         UNCHANGED <<shown, rc, listening>>,
         phase' = "farewell" /\ "update" \in wish' => ~listening'
  PROVE  StreamInv'
<1> USE DaemonAssumption
<1> DEFINE T == S \cup {Garbage} \cup Words(reason)
<1>1. client \in Peer
  BY DEF ConnInv, ConnTypes
<1>2. PICK d \in LastWords(client, q, sent, reason) : down' = [down EXCEPT ![client] = d]
  BY DEF DropClient
<1>3. client' = None /\ out' = EmptyQueue
  BY DEF DropClient, SeatAfterDrop
<1>4. d \in Seq(T) /\ Chain(shown[client], d)
  BY <1>2, LastWordsChain
<1>5. S \subseteq T
  OBVIOUS
<1>6. Heard(T)'
  BY DEF Heard, Words, Detached, Garbage, IsFrame, Announces
<1> HIDE DEF T
<1>9. d \o <<>> = d
  BY <1>4, ConcatEmptySeq
<1>10. out' \in Queue(T)
  BY <1>3, EmptyQueueFacts
<1>12. KnownFits'
  BY <1>3 DEF KnownFits
<1>11. Chain(shown[client], d \o (IF client = client' THEN Todo(out') ELSE <<>>))
  BY <1>3, <1>4, <1>9
<1> QED
  BY <1>1, <1>2, <1>3, <1>4, <1>5, <1>6, <1>10, <1>11, <1>12, SendStreamInv

(* What is known of the client's own stream. *)
LEMMA ClientStream ==
  ASSUME ConnInv, StreamInv, client # None, NEW S, WireTypes(S)
  PROVE  /\ client \in Peer /\ ~dropped[client]
         /\ out \in Queue(S) /\ down[client] \in Seq(S) /\ Len(down[client]) <= SockRoom
         /\ Chain(shown[client], down[client] \o Todo(out))
         /\ ~out.torn => known = Repaint \/ Ends(shown[client], down[client] \o Todo(out), known)
<1>1. client \in Peer /\ ~dropped[client]
  BY DEF ConnInv, ConnTypes, SeatsAreOpen
<1>2. out \in Queue(S) /\ down[client] \in Seq(S) /\ Len(down[client]) <= SockRoom
  BY <1>1 DEF WireTypes, StreamInv, SocketRoom
<1>3. Stream(client) = down[client] \o Todo(out)
  BY DEF Stream
<1> QED
  BY <1>1, <1>2, <1>3 DEF StreamInv, Coherent, KnownFits

-----------------------------------------------------------------------------
(* A peer reads, or not. *)

(* Reading the first message of a stream. *)
LEMMA TailConcat ==
  ASSUME NEW S, NEW s \in Seq(S), s # <<>>, NEW t \in Seq(S)
  PROVE  /\ s \o t \in Seq(S) /\ s \o t # <<>> /\ (s \o t)[1] = s[1]
         /\ Tail(s \o t) = Tail(s) \o t
<1> DEFINE a == s \o t
           u == Tail(s)
           b == u \o t
<1>1. /\ a \in Seq(S) /\ Len(a) = Len(s) + Len(t)
      /\ Len(s) \in Nat /\ Len(t) \in Nat /\ Len(s) >= 1
      /\ \A i \in 1..Len(s) : a[i] = s[i]
      /\ \A i \in 1..Len(t) : a[Len(s) + i] = t[i]
  BY ConcatFacts
<1>2. /\ u \in Seq(S) /\ Len(u) = Len(s) - 1
      /\ \A i \in 1..Len(u) : u[i] = s[i + 1]
  BY HeadTailProperties
<1> HIDE DEF a, u
<1>3. /\ b \in Seq(S) /\ Len(b) = Len(u) + Len(t)
      /\ \A i \in 1..Len(u) : b[i] = u[i]
      /\ \A i \in 1..Len(t) : b[Len(u) + i] = t[i]
  <2>1. u \in Seq(S)
    BY <1>2
  <2> QED
    BY <2>1, ConcatFacts
<1> HIDE DEF b
<1>4. a # <<>> /\ a[1] = s[1]
  BY <1>1
<1>5. /\ Tail(a) \in Seq(S) /\ Len(Tail(a)) = Len(a) - 1
      /\ \A i \in 1..Len(Tail(a)) : Tail(a)[i] = a[i + 1]
  BY <1>1, <1>4, HeadTailProperties
<1>6. Len(Tail(a)) = Len(b) /\ Len(b) = Len(s) + Len(t) - 1
  <2>1. /\ Len(Tail(a)) = Len(a) - 1 /\ Len(a) = Len(s) + Len(t)
        /\ Len(b) = Len(u) + Len(t) /\ Len(u) = Len(s) - 1
    BY <1>1, <1>2, <1>3, <1>5
  <2>2. \A i, j \in Nat : (i - 1) + j = i + j - 1
    OBVIOUS
  <2> QED
    BY <1>1, <2>1, <2>2
<1>7. ASSUME NEW i \in 1..Len(b) PROVE Tail(a)[i] = b[i]
  <2>1. CASE i <= Len(u)
    <3>1. i \in 1..Len(u) /\ i + 1 \in 1..Len(s)
      BY <1>1, <1>2, <1>6, <2>1
    <3> QED
      BY <1>1, <1>2, <1>3, <1>5, <1>6, <3>1
  <2>2. CASE i > Len(u)
    <3> DEFINE k == i - Len(u)
    <3>1. k \in 1..Len(t) /\ Len(u) + k = i /\ Len(s) + k = i + 1
      BY <1>1, <1>2, <1>6, <2>2
    <3> HIDE DEF k
    <3>2. a[i + 1] = t[k] /\ b[i] = t[k]
      <4>1. a[Len(s) + k] = t[k]
        BY <1>1, <3>1, Zenon
      <4>2. b[Len(u) + k] = t[k]
        BY <1>3, <3>1, Zenon
      <4> QED
        BY <3>1, <4>1, <4>2
    <3> QED
      BY <1>5, <1>6, <3>2
  <2> QED
    BY <1>1, <1>2, <1>6, <2>1, <2>2
<1>8. Tail(a) = b
  BY <1>3, <1>5, <1>6, <1>7, SeqEqual
<1> QED
  BY <1>1, <1>4, <1>8 DEF a, b, u

(* read(): what is displayed next is a screen, and the rest still fits it.  *)
LEMMA ReadStreamInv ==
  ASSUME ConnInv, StreamInv, NEW p \in Peer, ReadSocket(p)
  PROVE  StreamInv'
<1> USE DaemonAssumption
<1>0. UNCHANGED <<dropped, out, client, known, listening, phase, wish>>
  BY DEF ReadSocket, seatVars, loopVars, sessVars
<1>1. CASE UNCHANGED <<down, shown, stage, rc>> \/ (down[p] = <<>> /\ Exit(p, "fail") /\ UNCHANGED <<down, shown>>)
  <2>1. rc' \in [Peer -> {"none", "ok", "fail", "restart"}]
        /\ \A q \in Peer : rc'[q] = "restart" => rc[q] = "restart"
    BY <1>1 DEF Exit, StreamInv, PeerTypes
  <2>2. UNCHANGED <<down, shown>> /\ (phase' = "farewell" /\ "update" \in wish' => ~listening')
    BY <1>0, <1>1 DEF StreamInv, UpdateSilence
  <2> QED
    BY <1>0, <2>1, <2>2, StillStreamInv
<1>2. CASE down[p] # <<>>
  <2> DEFINE m == Head(down[p])
             y == After(shown[p], m)
             rest(q) == IF q = client THEN Todo(out) ELSE <<>>
  <2>1. PICK S : WireTypes(S) /\ Heard(S)
    BY DEF StreamInv
  <2>2. down[p] \in Seq(S) /\ down \in [Peer -> Seq(S)] /\ out \in Queue(S)
    BY <2>1 DEF WireTypes
  <2>3. /\ m = down[p][1] /\ m \in S /\ Tail(down[p]) \in Seq(S)
        /\ Len(Tail(down[p])) = Len(down[p]) - 1
    BY <1>2, <2>2, HeadTailProperties
  <2>4. rest(p) \in Seq(S)
    BY <2>2, EmptySeq DEF Todo, Queue
  <2>5. down' = [down EXCEPT ![p] = Tail(down[p])]
    BY <1>2 DEF ReadSocket
  <2> HIDE DEF rest
  <2>6. /\ Stream(p) = down[p] \o rest(p) /\ Stream(p) \in Seq(S) /\ Stream(p) # <<>>
        /\ Stream(p)[1] = m
        /\ Tail(Stream(p)) = Tail(down[p]) \o rest(p)
    <3>1. Stream(p) = down[p] \o rest(p)
      BY DEF Stream, rest
    <3> QED
      BY <1>2, <2>2, <2>3, <2>4, <3>1, TailConcat
  <2>7. Stream(p)' = Tail(Stream(p))
    BY <1>0, <2>2, <2>5, <2>6 DEF Stream, rest
  <2>8. \A q \in Peer : q # p => Stream(q)' = Stream(q)
    BY <1>0, <2>2, <2>5 DEF Stream
  <2>9. Chain(shown[p], Stream(p))
    BY DEF StreamInv, Coherent
  <2>10. /\ Chain(y, Tail(Stream(p)))
         /\ \A b : Ends(shown[p], Stream(p), b) => Ends(y, Tail(Stream(p)), b)
         /\ IsFrame(m) /\ m.base # Repaint => m.base = shown[p]
    BY <2>6, <2>9, ChainRead
  <2>11. shown' = [shown EXCEPT ![p] = y]
    <3>1. CASE m.type = "Frame" /\ Display(p, m)
      BY <2>10, <3>1 DEF Display, IsFrame, After
    <3>2. CASE m.type # "Frame" /\ UNCHANGED shown
      BY <3>2 DEF IsFrame, After, StreamInv, PeerTypes
    <3> QED
      BY <1>2, <3>1, <3>2 DEF ReadSocket
  <2>12. y # Garbled
    BY <2>1, <2>3 DEF After, Heard, StreamInv, NoGarbledScreen
  <2> HIDE DEF y
  <2>13. shown'[p] = y /\ \A q \in Peer : q # p => shown'[q] = shown[q]
    BY <2>11 DEF StreamInv, PeerTypes
  <2>14. NoGarbledScreen'
    BY <2>12, <2>13 DEF StreamInv, NoGarbledScreen
  <2>15. rc' \in [Peer -> {"none", "ok", "fail", "restart"}]
         /\ \A q \in Peer : rc'[q] = "restart" => rc[q] = "restart" \/ ~listening
    <3>1. \/ UNCHANGED rc
          \/ m.type = "Detached" /\ Exit(p, IF m.reason = "update" THEN "restart" ELSE "ok")
          \/ Exit(p, "fail")
      BY <1>2 DEF ReadSocket
    <3>2. m.type = "Detached" /\ m.reason = "update" => ~listening
      BY <2>1, <2>3 DEF Heard, Announces
    <3> HIDE DEF m
    <3> QED
      BY <3>1, <3>2 DEF Exit, StreamInv, PeerTypes
  <2>16. PeerTypes'
    BY <2>11, <2>15 DEF StreamInv, PeerTypes
  <2>17. UpdateSilence'
    BY <1>0, <2>15 DEF StreamInv, UpdateSilence, RestartFindsNoListener
  <2>18. down' \in [Peer -> Seq(S)]
    BY <2>2, <2>3, <2>5
  <2>19. (WireTypes(S) /\ Heard(S))'
    BY <1>0, <2>1, <2>18 DEF WireTypes, Heard
  <2>20. SocketRoom'
    <3>1. \A q \in Peer : q # p => down'[q] = down[q]
      BY <2>2, <2>5
    <3>2. down'[p] = Tail(down[p]) /\ Len(down[p]) \in Nat
      BY <2>2, <2>5
    <3>3. ~dropped[p] => p = client /\ Len(down[p]) <= SockRoom
      BY <1>2 DEF StreamInv, SocketRoom
    <3>4. ~dropped[p] => Len(Tail(down[p])) <= SockRoom
      BY <2>3, <3>2, <3>3, MessageQueueAssumption
    <3> QED
      BY <1>0, <3>1, <3>2, <3>3, <3>4 DEF StreamInv, SocketRoom
  <2>21. KnownFits'
    <3>1. CASE client = p
      BY <1>0, <2>7, <2>10, <2>13, <3>1 DEF StreamInv, Coherent, KnownFits
    <3>2. CASE client # p
      BY <1>0, <2>8, <2>13, <3>2 DEF ConnInv, ConnTypes, StreamInv, Coherent, KnownFits
    <3> QED
      BY <3>1, <3>2
  <2>22. Coherent'
    BY <2>7, <2>8, <2>10, <2>13, <2>21 DEF StreamInv, Coherent
  <2>23. \E V : (WireTypes(V) /\ Heard(V))'
    BY <2>19
  <2> QED
    BY <2>14, <2>16, <2>17, <2>20, <2>22, <2>23 DEF StreamInv
<1> QED
  BY <1>1, <1>2 DEF ReadSocket

(* Every step of a peer. *)
LEMMA PeerStreamInv ==
  ASSUME ConnInv, StreamInv, NEW p \in Peer, PeerStep(p)
  PROVE  StreamInv'
<1>1. CASE ReadSocket(p)
  BY <1>1, ReadStreamInv
<1>2. CASE ~ReadSocket(p)
  <2>1. UNCHANGED <<shown, down, out, client, known, listening, dropped, phase, wish>>
    BY <1>2 DEF PeerStep, Connect, ProbeCloses, SayHello, Winch, StartWrite, FinishWrite, Leave,
                sockVars, seatVars, loopVars, sessVars
  <2>2. UNCHANGED rc \/ rc' = [rc EXCEPT ![p] = "ok"] \/ rc' = [rc EXCEPT ![p] = "fail"]
    BY <1>2 DEF PeerStep, Connect, ProbeCloses, SayHello, Winch, StartWrite, FinishWrite, Leave, Exit
  <2>3. rc' \in [Peer -> {"none", "ok", "fail", "restart"}]
        /\ \A q \in Peer : rc'[q] = "restart" => rc[q] = "restart"
    BY <2>2 DEF StreamInv, PeerTypes
  <2>4. phase' = "farewell" /\ "update" \in wish' => ~listening'
    BY <2>1 DEF StreamInv, UpdateSilence
  <2> QED
    BY <2>1, <2>3, <2>4, StillStreamInv
<1> QED
  BY <1>1, <1>2

-----------------------------------------------------------------------------
(* The daemon sends. *)

(* A wider set of messages. *)
LEMMA WiderWire ==
  ASSUME NEW S, WireTypes(S), NEW T, S \subseteq T
  PROVE  WireTypes(T)
<1>1. down \in [Peer -> Seq(S)] /\ out.msgs \in Seq(S) /\ out \in Queue(S)
  BY DEF WireTypes, Queue
<1>2. (\A p \in Peer : down[p] \in Seq(T)) /\ out.msgs \in Seq(T)
  BY <1>1, SeqMonotonic
<1>3. down \in [Peer -> Seq(T)]
  BY <1>1, <1>2
<1>4. out \in Queue(T)
  BY <1>1, <1>2 DEF Queue
<1> QED
  BY <1>3, <1>4 DEF WireTypes

(* Steps of the daemon that send nothing. *)
LEMMA QuietStreamInv ==
  ASSUME ConnInv, StreamInv,
         \/ Wake \/ OnSignal \/ OnListener \/ OnApp \/ OnClosed \/ OnPendingGone
         \/ CloseOrContinue \/ ProcessExit
  PROVE  StreamInv'
<1>1. UNCHANGED <<shown, rc, out, client, known>>
  BY DEF Wake, OnSignal, OnListener, OnApp, OnClosed, OnPendingGone, DropPending, CloseOrContinue,
         ProcessExit, peerVars, seatVars
<1>2. (listening' => listening) /\ \A p \in Peer : dropped[p] => dropped'[p]
  <2>1. CASE Wake \/ OnSignal \/ OnApp \/ OnClosed
    BY <2>1 DEF Wake, OnSignal, OnApp, OnClosed, sockVars
  <2>2. CASE OnListener \/ OnPendingGone
    <3>1. UNCHANGED listening /\ \E D : CloseAll(D)
      BY <2>2 DEF OnListener, OnPendingGone, DropPending
    <3> QED
      BY <3>1 DEF CloseAll
  <2>3. CASE CloseOrContinue
    <3>1. UNCHANGED <<listening, dropped>> \/ CloseListener
      BY <2>3 DEF CloseOrContinue, RestartListener
    <3>2. CASE CloseListener
      BY <3>2 DEF CloseListener
    <3>3. CASE UNCHANGED <<listening, dropped>>
      BY <3>3
    <3> QED
      BY <3>1, <3>2, <3>3
  <2>4. CASE ProcessExit
    BY <2>4 DEF ProcessExit
  <2> QED
    BY <2>1, <2>2, <2>3, <2>4
<1>3. UNCHANGED down
  <2>1. CASE OnPendingGone
    <3>1. PICK S : WireTypes(S)
      BY DEF StreamInv
    <3>2. pending \in Peer /\ down' = [down EXCEPT ![pending] = down[pending] \o <<>>]
      BY <2>1 DEF OnPendingGone, OnPendingKey, DropPending, ConnInv, ConnTypes
    <3>3. down \in [Peer -> Seq(S)]
      BY <3>1 DEF WireTypes
    <3>4. down[pending] \o <<>> = down[pending]
      BY <3>2, <3>3, ConcatEmptySeq
    <3> QED
      BY <3>2, <3>3, <3>4
  <2>2. CASE ~OnPendingGone
    BY <2>2 DEF Wake, OnSignal, OnListener, OnApp, OnClosed, CloseOrContinue, ProcessExit, sockVars
  <2> QED
    BY <2>1, <2>2
<1>4. phase' = "farewell" /\ "update" \in wish' => ~listening'
  <2>1. CASE CloseOrContinue
    BY <2>1 DEF CloseOrContinue, RestartListener, CloseListener, sessVars
  <2>2. CASE ~CloseOrContinue
    BY <2>2 DEF Wake, OnSignal, OnListener, OnApp, OnClosed, OnPendingGone, OnPendingKey,
                ProcessExit, Current
  <2> QED
    BY <2>1, <2>2
<1> QED
  BY <1>1, <1>2, <1>3, <1>4, StillStreamInv DEF StreamInv, PeerTypes

(* A message of another build: it hears Incompatible and is closed. *)
LEMMA MismatchStreamInv ==
  ASSUME ConnInv, StreamInv, OnPendingMismatch
  PROVE  StreamInv'
<1> USE DaemonAssumption
<1>1. PICK S : WireTypes(S) /\ Heard(S)
  BY DEF StreamInv
<1> DEFINE T == S \cup {Incompatible}
           d == down[pending] \o <<Incompatible>>
<1>2. /\ pending # None /\ CloseAll({pending}) /\ phase' # "farewell"
      /\ down' = [down EXCEPT ![pending] = d]
      /\ UNCHANGED <<shown, rc, listening, out, client, known>>
  BY DEF OnPendingMismatch, OnPendingKey, Current, DropPending, peerVars, seatVars
<1>3. pending \in Peer /\ pending # client /\ ~dropped[pending]
  BY <1>2 DEF ConnInv, ConnTypes, SeatsAreOpen
<1>4. down[pending] = <<>>
  BY <1>3 DEF StreamInv, SocketRoom
<1>5. WireTypes(T)
  BY <1>1, WiderWire
<1>6. Heard(T)'
  BY <1>1, <1>2 DEF Heard, Incompatible, IsFrame, Announces
<1>7. d = <<Incompatible>> /\ d \in Seq(T)
  BY <1>4
<1> HIDE DEF T
<1>8. Chain(shown[pending], d \o (IF pending = client' THEN Todo(out') ELSE <<>>))
  <2>1. d \o (IF pending = client' THEN Todo(out') ELSE <<>>) = d
    BY <1>2, <1>3, <1>7, ConcatEmptySeq
  <2>2. Chain(shown[pending], <<Incompatible>>)
    BY DEF Chain, Incompatible, IsFrame
  <2> QED
    BY <1>7, <2>1, <2>2
<1> HIDE DEF d
<1>9. KnownFits'
  <2>1. client # None => Stream(client)' = Stream(client)
    <3>1. client # None => client \in Peer
      BY DEF ConnInv, ConnTypes
    <3> QED
      BY <1>2, <1>3, <1>5, <3>1 DEF Stream, WireTypes
  <2> QED
    BY <1>2, <2>1 DEF StreamInv, Coherent, KnownFits
<1>10. dropped'[pending] /\ \A p \in Peer : dropped[p] => dropped'[p]
  BY <1>2, <1>3 DEF CloseAll
<1>11. out' \in Queue(T)
  BY <1>2, <1>5 DEF WireTypes
<1> QED
  BY <1>2, <1>3, <1>5, <1>6, <1>7, <1>8, <1>9, <1>10, <1>11, SendStreamInv

(* An event of the client: what is flushed goes on, and the differ keeps or *)
(* forgets what it knows.                                                   *)
LEMMA ClientStreamInv ==
  ASSUME ConnInv, StreamInv, OnClient
  PROVE  StreamInv'
<1> USE DaemonAssumption
<1>1. PICK S : WireTypes(S) /\ Heard(S)
  BY DEF StreamInv
<1> DEFINE T == S \cup {Garbage}
           e == Head(batch)
           ms == IF e.in THEN up[client] ELSE <<>>
           bye == IF Failed(ms) THEN "invalid" ELSE None
<1>2. /\ client # None /\ phase' # "farewell" /\ UNCHANGED <<shown, rc, listening>>
  BY DEF OnClient, Current, peerVars
<1>3. PICK f \in (IF e.out THEN Flush(out, down[client])
                   ELSE {[queue |-> out, sent |-> down[client]]}) :
        \/ CloseAll({client}) /\ DropClient(f.queue, f.sent, bye)
        \/ /\ out' = f.queue /\ down' = [down EXCEPT ![client] = f.sent]
           /\ known' = Repaint \/ known' = known
           /\ UNCHANGED <<client, dropped>>
  BY DEF OnClient
<1> HIDE DEF e, ms
<1>4. /\ client \in Peer /\ ~dropped[client]
      /\ out \in Queue(S) /\ down[client] \in Seq(S) /\ Len(down[client]) <= SockRoom
      /\ Chain(shown[client], down[client] \o Todo(out))
      /\ ~out.torn => known = Repaint \/ Ends(shown[client], down[client] \o Todo(out), known)
  BY <1>1, <1>2, ClientStream
<1>5. WireTypes(T) /\ Heard(T) /\ Heard(T)'
  <2>1. WireTypes(T)
    BY <1>1, WiderWire
  <2>2. Heard(T) /\ Heard(T)'
    BY <1>1, <1>2 DEF Heard, Garbage, IsFrame, Announces
  <2> QED
    BY <2>1, <2>2
<1>6. /\ f.queue \in Queue(T) /\ f.sent \in Seq(T) /\ Len(f.sent) <= SockRoom
      /\ f.queue.torn = out.torn
      /\ Chain(shown[client], f.sent \o Todo(f.queue))
      /\ ~out.torn => known = Repaint \/ Ends(shown[client], f.sent \o Todo(f.queue), known)
  <2>1. CASE e.out
    <3>1. f \in Flush(out, down[client])
      BY <1>3, <2>1
    <3>2. /\ f.queue \in Queue(S) /\ f.queue.torn = out.torn
          /\ f.sent \in Seq(T) /\ Len(f.sent) <= SockRoom
          /\ Chain(shown[client], f.sent \o Todo(f.queue))
          /\ \A b : Ends(shown[client], down[client] \o Todo(out), b)
                     => Ends(shown[client], f.sent \o Todo(f.queue), b)
      <4> DEFINE s == down[client]
                 z == shown[client]
      <4>1. out \in Queue(S) /\ s \in Seq(S) /\ Len(s) <= SockRoom /\ f \in Flush(out, s)
        BY <1>4, <3>1
      <4>2. Chain(z, s \o Todo(out))
        BY <1>4
      <4> HIDE DEF s, z
      <4>3. /\ f.queue \in Queue(S) /\ SameFlags(f.queue, out)
            /\ f.sent \in Seq(S \cup {Garbage}) /\ Len(f.sent) <= SockRoom
        BY <4>1, FlushTypes
      <4>4. Chain(z, f.sent \o Todo(f.queue))
        BY <4>1, <4>2, FlushEnds
      <4>5. \A b : Ends(z, s \o Todo(out), b) => Ends(z, f.sent \o Todo(f.queue), b)
        BY <4>1, FlushEnds
      <4> QED
        BY <4>3, <4>4, <4>5 DEF s, z, SameFlags
    <3>3. f.queue \in Queue(T)
      <4>1. f.queue.msgs \in Seq(S)
        BY <3>2 DEF Queue
      <4>2. f.queue.msgs \in Seq(T)
        BY <4>1, SeqMonotonic
      <4> QED
        BY <3>2, <4>2 DEF Queue
    <3> QED
      BY <1>4, <3>2, <3>3
  <2>2. CASE ~e.out
    <3>1. f.queue = out /\ f.sent = down[client]
      BY <1>3, <2>2
    <3>2. out \in Queue(T) /\ down[client] \in Seq(T)
      BY <1>4, <1>5 DEF WireTypes
    <3> QED
      BY <1>4, <3>1, <3>2
  <2> QED
    BY <2>1, <2>2
<1> HIDE DEF T
<1>7. CASE CloseAll({client}) /\ DropClient(f.queue, f.sent, bye)
  <2>1. dropped'[client] /\ \A p \in Peer : dropped[p] => dropped'[p]
    BY <1>4, <1>7 DEF CloseAll
  <2>2. bye = "update" => bye = None \/ ~listening
    OBVIOUS
  <2> HIDE DEF bye
  <2> QED
    BY <1>2, <1>5, <1>6, <1>7, <2>1, <2>2, DropStreamInv
<1>8. CASE /\ out' = f.queue /\ down' = [down EXCEPT ![client] = f.sent]
           /\ known' = Repaint \/ known' = known
           /\ UNCHANGED <<client, dropped>>
  <2>1. down'[client] = f.sent
    BY <1>4, <1>5, <1>8 DEF WireTypes
  <2>2. KnownFits'
    <3>1. Stream(client)' = f.sent \o Todo(f.queue)
      BY <1>8, <2>1 DEF Stream
    <3> QED
      BY <1>2, <1>6, <1>8, <3>1 DEF KnownFits
  <2>3. Chain(shown[client], f.sent \o (IF client = client' THEN Todo(out') ELSE <<>>))
    BY <1>6, <1>8
  <2>4. out' \in Queue(T) /\ T \subseteq T /\ \A p \in Peer : dropped[p] => dropped'[p]
    BY <1>6, <1>8
  <2> QED
    BY <1>2, <1>4, <1>5, <1>6, <1>8, <2>2, <2>3, <2>4, SendStreamInv
<1> QED
  BY <1>3, <1>7, <1>8

(* The client is dropped with its queue as it is: a write error, a detach,  *)
(* the end of the loop.                                                     *)
LEMMA DismissStreamInv ==
  ASSUME ConnInv, StreamInv, client # None,
         NEW reason, reason = "update" => reason = None \/ ~listening,
         DropClient(out, down[client], reason),
         dropped'[client], \A p \in Peer : dropped[p] => dropped'[p],
         UNCHANGED <<shown, rc, listening>>, phase' # "farewell"
  PROVE  StreamInv'
<1>1. PICK S : WireTypes(S) /\ Heard(S)
  BY DEF StreamInv
<1>2. /\ out \in Queue(S) /\ down[client] \in Seq(S) /\ Len(down[client]) <= SockRoom
      /\ Chain(shown[client], down[client] \o Todo(out))
  BY <1>1, ClientStream
<1> QED
  BY <1>1, <1>2, DropStreamInv

(* EPOLLOUT on a dead peer. *)
LEMMA WriteErrorStreamInv ==
  ASSUME ConnInv, StreamInv, OnClientWriteError
  PROVE  StreamInv'
<1>1. /\ client # None /\ CloseAll({client}) /\ DropClient(out, down[client], None)
      /\ phase' # "farewell" /\ UNCHANGED <<shown, rc, listening>>
  BY DEF OnClientWriteError, Current, peerVars
<1>2. client \in Peer
  BY <1>1 DEF ConnInv, ConnTypes
<1>3. dropped'[client] /\ \A p \in Peer : dropped[p] => dropped'[p]
  BY <1>1, <1>2 DEF CloseAll
<1> QED
  BY <1>1, <1>3, DismissStreamInv

(* The end of a batch. *)
LEMMA EndBatchStreamInv ==
  ASSUME ConnInv, StreamInv, EndBatch
  PROVE  StreamInv'
<1>1. phase' = "compose" /\ UNCHANGED <<shown, rc, listening>>
  BY DEF EndBatch, peerVars
<1>2. CASE "detach" \in wish /\ client # None
  <2>1. DropClient(out, down[client], "detached")
    BY <1>2 DEF EndBatch
  <2>2. PICK D : CloseAll(D) /\ client \in D
    BY <1>2 DEF EndBatch
  <2>3. client \in Peer
    BY <1>2 DEF ConnInv, ConnTypes
  <2>4. dropped'[client] /\ \A p \in Peer : dropped[p] => dropped'[p]
    BY <2>2, <2>3 DEF CloseAll
  <2> QED
    BY <1>1, <1>2, <2>1, <2>4, DismissStreamInv
<1>3. CASE ~("detach" \in wish /\ client # None)
  <2>1. UNCHANGED <<client, out, known, down>>
    BY <1>3 DEF EndBatch
  <2>2. \E D : CloseAll(D)
    BY DEF EndBatch
  <2>3. \A p \in Peer : dropped[p] => dropped'[p]
    BY <2>2 DEF CloseAll
  <2> QED
    BY <1>1, <2>1, <2>3, StillStreamInv DEF StreamInv, PeerTypes
<1> QED
  BY <1>2, <1>3

(* The last words of the loop: "update" only once the listener is closed.   *)
LEMMA FarewellStreamInv ==
  ASSUME ConnInv, StreamInv, Farewell
  PROVE  StreamInv'
<1>1. phase = "farewell" /\ phase' = "exit" /\ UNCHANGED <<shown, rc, listening>>
  BY DEF Farewell, peerVars
<1>2. CASE client = None
  <2>1. UNCHANGED <<client, out, known, down, dropped>>
    BY <1>2 DEF Farewell, seatVars
  <2> QED
    BY <1>1, <2>1, StillStreamInv DEF StreamInv, PeerTypes
<1>3. CASE client # None
  <2> DEFINE reason == IF "update" \in wish THEN "update" ELSE "stop"
  <2>1. CloseAll({client}) /\ DropClient(out, down[client], reason)
    BY <1>3 DEF Farewell
  <2>2. reason = "update" => ~listening
    BY <1>1 DEF StreamInv, UpdateSilence
  <2>3. client \in Peer
    BY <1>3 DEF ConnInv, ConnTypes
  <2>4. dropped'[client] /\ \A p \in Peer : dropped[p] => dropped'[p]
    BY <2>1, <2>3 DEF CloseAll
  <2> HIDE DEF reason
  <2> QED
    BY <1>1, <1>3, <2>1, <2>2, <2>4, DismissStreamInv
<1> QED
  BY <1>2, <1>3

(* The frame to send: a repaint, or a difference from where everything sent *)
(* before leads.                                                            *)
LEMMA FrameFits ==
  ASSUME ConnInv, StreamInv, client # None, NEW S, WireTypes(S)
  PROVE  LET m == Frame(Base, Cur) IN
         /\ IsFrame(m) /\ m.base = Base /\ m.to = Cur
         /\ Cur # Garbled /\ Cur # Repaint
         /\ Base = Repaint \/ (Base = known /\ known # Repaint)
         /\ Base = Repaint \/ out.torn \/ Ends(shown[client], down[client] \o Todo(out), Base)
<1>1. IsFrame(Frame(Base, Cur)) /\ Frame(Base, Cur).base = Base /\ Frame(Base, Cur).to = Cur
  BY DEF IsFrame, Frame
<1>2. Cur.type = "screen" /\ Garbled.type = "garbled" /\ Repaint.type = "none"
  BY DEF Cur, Screen, Garbled, Repaint
<1>3. Base = Repaint \/ (Base = known /\ known.type = "screen")
  BY DEF Base
<1>4. Base = Repaint \/ (Base = known /\ known # Repaint)
  BY <1>2, <1>3
<1>5. ~out.torn => known = Repaint \/ Ends(shown[client], down[client] \o Todo(out), known)
  BY ClientStream
<1> QED
  BY <1>1, <1>2, <1>4, <1>5

(* Composition. *)
LEMMA ComposeStreamInv ==
  ASSUME ConnInv, StreamInv, Compose
  PROVE  StreamInv'
<1> USE DaemonAssumption
<1>1. phase' = "stop" /\ UNCHANGED <<shown, rc, listening>>
  BY DEF Compose, peerVars
<1>2. CASE ~FrameDue
  <2>1. UNCHANGED <<client, out, known, down, dropped>>
    BY <1>2 DEF Compose, seatVars
  <2> QED
    BY <1>1, <2>1, StillStreamInv DEF StreamInv, PeerTypes
<1>3. CASE FrameDue
  <2> DEFINE m == Frame(Base, Cur)
             Q == QueueWithFrame
             q == [Q EXCEPT !.overflow = "None"]
             z == shown[client]
             s == down[client]
  <2>1. PICK S : WireTypes(S) /\ Heard(S)
    BY DEF StreamInv
  <2> DEFINE T == S \cup {m}
             V == T \cup {Garbage}
  <2>2. client # None
    BY <1>3 DEF FrameDue
  <2>3. /\ client \in Peer /\ out \in Queue(S) /\ s \in Seq(S) /\ Len(s) <= SockRoom
        /\ Chain(z, s \o Todo(out))
        /\ ~out.torn => known = Repaint \/ Ends(z, s \o Todo(out), known)
    BY <2>1, <2>2, ClientStream
  <2>4. /\ IsFrame(m) /\ m.base = Base /\ m.to = Cur /\ Cur # Garbled /\ Cur # Repaint
        /\ Base = Repaint \/ (Base = known /\ known # Repaint)
        /\ Base = Repaint \/ out.torn \/ Ends(z, s \o Todo(out), Base)
    BY <2>1, <2>2, FrameFits
  <2>5. WireTypes(T) /\ Heard(T)
    <3>1. ~Announces(m)
      BY <2>4 DEF Announces, IsFrame
    <3>2. Heard(T)
      BY <2>1, <2>4, <3>1 DEF Heard
    <3> QED
      BY <2>1, <3>2, WiderWire
  <2>6. WireTypes(V) /\ Heard(V)
    <3>1. ~IsFrame(Garbage) /\ ~Announces(Garbage)
      BY DEF Garbage, IsFrame, Announces
    <3>2. Heard(V)
      BY <2>5, <3>1 DEF Heard
    <3> QED
      BY <2>5, <3>2, WiderWire
  <2>7. out \in Queue(T) /\ s \in Seq(T) /\ m \in T
    BY <2>3, <2>5 DEF WireTypes
  <2> HIDE DEF m, T, V, z, s
  <2>8. /\ Q \in Queue(T) /\ Chain(z, s \o Todo(Q))
        /\ ~Q.torn /\ Q.overflow = "None" => Ends(z, s \o Todo(Q), Cur)
    <3>1. CASE Base = Cur
      <4>1. Q = out
        BY <3>1 DEF QueueWithFrame
      <4> QED
        BY <2>3, <2>4, <2>7, <3>1, <4>1
    <3>2. CASE Base # Cur
      <4>1. Q = Push(out, m)
        BY <3>2 DEF QueueWithFrame, m
      <4>2. /\ Push(out, m) \in Queue(T)
            /\ Chain(z, s \o Todo(Push(out, m)))
            /\ IsFrame(m) /\ ~Push(out, m).torn /\ Push(out, m).overflow = "None"
                 => Ends(z, s \o Todo(Push(out, m)), m.to)
        BY <2>3, <2>4, <2>7, PushChain
      <4> QED
        BY <2>4, <4>1, <4>2
    <3> QED
      BY <3>1, <3>2
  <2> HIDE DEF Q
  <2>9. q \in Queue(T) /\ q.torn = Q.torn /\ Todo(q) = Todo(Q)
    BY <2>8 DEF Queue, Todo
  <2>10. \/ CloseAll({client}) /\ DropClient(q, down[client], None)
         \/ \E f \in Flush(q, down[client]) :
              /\ out' = f.queue /\ down' = [down EXCEPT ![client] = f.sent]
              /\ Repair(Q.overflow) /\ Q.overflow # "Dirty" /\ UNCHANGED <<client, dropped>>
    BY <1>3 DEF Compose, Q
  <2> HIDE DEF q
  <2>11. CASE CloseAll({client}) /\ DropClient(q, down[client], None)
    <3>1. dropped'[client] /\ \A p \in Peer : dropped[p] => dropped'[p]
      BY <2>3, <2>11 DEF CloseAll
    <3>2. Chain(shown[client], down[client] \o Todo(q))
      BY <2>8, <2>9 DEF z, s
    <3>3. down[client] \in Seq(T) /\ Len(down[client]) <= SockRoom
      BY <2>3, <2>7 DEF s
    <3> QED
      BY <1>1, <2>2, <2>5, <2>9, <2>11, <3>1, <3>2, <3>3, DropStreamInv
  <2>12. ASSUME NEW f \in Flush(q, down[client]),
                out' = f.queue, down' = [down EXCEPT ![client] = f.sent],
                Repair(Q.overflow), Q.overflow # "Dirty", UNCHANGED <<client, dropped>>
         PROVE  StreamInv'
    <3>1. f \in Flush(q, s) /\ Len(s) <= SockRoom
      BY <2>3, <2>12 DEF s
    <3>2. /\ f.queue \in Queue(T) /\ SameFlags(f.queue, q)
          /\ f.sent \in Seq(V) /\ Len(f.sent) <= SockRoom
      BY <2>7, <2>9, <3>1, FlushTypes DEF V
    <3>3. Chain(z, f.sent \o Todo(f.queue))
      BY <2>7, <2>8, <2>9, <3>1, FlushEnds
    <3>4. ~Q.torn /\ Q.overflow = "None" => Ends(z, f.sent \o Todo(f.queue), Cur)
      BY <2>7, <2>8, <2>9, <3>1, FlushEnds
    <3>5. f.queue \in Queue(V)
      <4>1. f.queue.msgs \in Seq(T)
        BY <3>2 DEF Queue
      <4>2. f.queue.msgs \in Seq(V)
        BY <4>1, SeqMonotonic DEF V
      <4> QED
        BY <3>2, <4>2 DEF Queue
    <3>6. down'[client] = f.sent
      BY <2>3, <2>5, <2>12 DEF WireTypes
    <3>7. known' = Repaint \/ (Q.overflow = "None" /\ known' = Cur)
      BY <2>8, <2>12 DEF Repair, Queue
    <3>8. KnownFits'
      <4>1. Stream(client)' = f.sent \o Todo(f.queue)
        BY <2>12, <3>6 DEF Stream
      <4>2. out'.torn = Q.torn /\ shown'[client'] = z
        BY <1>1, <2>9, <2>12, <3>2 DEF SameFlags, z
      <4>3. ~out'.torn => known' = Repaint \/ Ends(z, f.sent \o Todo(f.queue), known')
        BY <3>4, <3>7, <4>2
      <4> QED
        BY <4>1, <4>2, <4>3 DEF KnownFits
    <3>9. Chain(shown[client], f.sent \o (IF client = client' THEN Todo(out') ELSE <<>>))
      BY <2>12, <3>3 DEF z
    <3>10. PICK W : W = V
      OBVIOUS
    <3>11. Heard(W)' /\ WireTypes(W) /\ out' \in Queue(W) /\ f.sent \in Seq(W)
      <4>1. Heard(W) /\ listening' = listening
        BY <1>1, <2>6, <3>10
      <4>2. Heard(W)'
        BY <4>1 DEF Heard
      <4> QED
        BY <2>6, <2>12, <3>2, <3>5, <3>10, <4>2
    <3>12. \A p \in Peer : dropped[p] => dropped'[p]
      BY <2>12
    <3> QED
      BY <1>1, <2>3, <2>12, <3>2, <3>8, <3>9, <3>11, <3>12, SendStreamInv
  <2> QED
    BY <2>10, <2>11, <2>12
<1> QED
  BY <1>2, <1>3

(* A takeover: the client in place hears "taken" and is closed, the new one *)
(* starts from nothing.                                                     *)
LEMMA TakeoverStreamInv ==
  ASSUME ConnInv, StreamInv, OnPendingHello
  PROVE  StreamInv'
<1> USE DaemonAssumption
<1>1. PICK S : WireTypes(S) /\ Heard(S)
  BY DEF StreamInv
<1> DEFINE T == S \cup {Garbage, Detached("taken"), Welcome}
<1>2. /\ pending # None /\ phase' # "farewell" /\ UNCHANGED <<shown, rc, listening>>
      /\ client' = pending /\ out' = Push(EmptyQueue, Welcome) /\ known' = Repaint
  BY DEF OnPendingHello, OnPendingKey, Current, peerVars
<1>3. pending \in Peer /\ pending # client /\ ~dropped[pending] /\ client \in Peer \cup {None}
  BY <1>2 DEF ConnInv, ConnTypes, SeatsAreOpen
<1>4. down \in [Peer -> Seq(S)] /\ down[pending] = <<>>
  BY <1>1, <1>3 DEF WireTypes, StreamInv, SocketRoom
<1>5. WireTypes(T) /\ Heard(T)'
  <2>1. \A m \in {Garbage, Detached("taken"), Welcome} : ~IsFrame(m) /\ ~Announces(m)
    BY DEF Garbage, Detached, Welcome, IsFrame, Announces
  <2>2. Heard(T)'
    BY <1>1, <1>2, <2>1 DEF Heard
  <2> QED
    BY <1>1, <2>2, WiderWire
<1>6. /\ down' \in [Peer -> Seq(T)]
      /\ \A p \in Peer : p # client => down'[p] = down[p]
      /\ client # None => Chain(shown[client], down'[client]) /\ dropped'[client]
      /\ \A p \in Peer : dropped[p] => dropped'[p]
  <2>1. CASE client = None
    <3>1. UNCHANGED <<down, dropped>>
      BY <2>1 DEF OnPendingHello
    <3> QED
      BY <1>5, <2>1, <3>1 DEF WireTypes
  <2>2. CASE client # None
    <3>1. PICK d \in LastWords(client, out, down[client], "taken") : down' = [down EXCEPT ![client] = d]
      BY <2>2 DEF OnPendingHello
    <3>2. /\ client \in Peer /\ out \in Queue(S) /\ down[client] \in Seq(S)
          /\ Len(down[client]) <= SockRoom
          /\ Chain(shown[client], down[client] \o Todo(out))
      BY <1>1, <2>2, ClientStream
    <3>3. d \in Seq(S \cup {Garbage} \cup Words("taken")) /\ Chain(shown[client], d)
      BY <3>1, <3>2, LastWordsChain
    <3>4. S \cup {Garbage} \cup Words("taken") \subseteq T
      BY DEF Words
    <3>5. d \in Seq(T)
      BY <3>3, <3>4, SeqMonotonic
    <3>6. down \in [Peer -> Seq(T)]
      BY <1>5 DEF WireTypes
    <3> HIDE DEF T
    <3>7. CloseAll({client})
      BY <2>2 DEF OnPendingHello
    <3> QED
      BY <3>1, <3>2, <3>3, <3>5, <3>6, <3>7 DEF CloseAll
  <2> QED
    BY <2>1, <2>2
<1>7. Push(EmptyQueue, Welcome) \in Queue(T) /\ Chain(shown[pending], <<>> \o Todo(Push(EmptyQueue, Welcome)))
  <2>1. EmptyQueue \in Queue(T) /\ <<>> \in Seq(T) /\ Welcome \in T /\ ~IsFrame(Welcome)
    BY EmptyQueueFacts, EmptySeq DEF Welcome, IsFrame
  <2>2. <<>> \o Todo(EmptyQueue) = <<>>
    BY <2>1, EmptyQueueFacts, ConcatEmptySeq
  <2>3. Chain(shown[pending], <<>> \o Todo(EmptyQueue))
    BY <2>2 DEF Chain
  <2> HIDE DEF T
  <2> QED
    BY <2>1, <2>3, PushChain
<1> HIDE DEF T
<1>8. \E V : (WireTypes(V) /\ Heard(V))'
  BY <1>2, <1>5, <1>6, <1>7 DEF WireTypes
<1>9. PeerTypes' /\ NoGarbledScreen' /\ UpdateSilence'
  BY <1>2 DEF StreamInv, PeerTypes, NoGarbledScreen, UpdateSilence, RestartFindsNoListener
<1>10. SocketRoom'
  <2> SUFFICES ASSUME NEW p \in Peer, ~dropped'[p]
               PROVE  Len(down'[p]) <= SockRoom /\ (p # pending => down'[p] = <<>>)
    BY <1>2 DEF SocketRoom
  <2>1. ~dropped[p] /\ p # client
    BY <1>6
  <2>2. down'[p] = <<>>
    BY <1>6, <2>1 DEF StreamInv, SocketRoom
  <2> QED
    BY <2>2, MessageQueueAssumption
<1>11. ASSUME NEW p \in Peer PROVE Chain(shown'[p], Stream(p)')
  <2>1. CASE p = pending
    <3>1. Stream(p)' = <<>> \o Todo(Push(EmptyQueue, Welcome))
      BY <1>2, <1>3, <1>4, <1>6, <2>1 DEF Stream
    <3> QED
      BY <1>2, <1>7, <2>1, <3>1
  <2>2. CASE p # pending
    <3>1. Stream(p)' = down'[p] \o <<>>
      BY <1>2, <2>2 DEF Stream
    <3>2. down'[p] \o <<>> = down'[p]
      BY <1>6, ConcatEmptySeq
    <3>3. CASE p = client
      BY <1>2, <1>3, <1>6, <3>1, <3>2, <3>3
    <3>4. CASE p # client
      <4>1. Stream(p) = down[p] \o <<>> /\ down'[p] = down[p]
        BY <1>6, <3>4 DEF Stream
      <4>2. Stream(p)' = Stream(p)
        BY <3>1, <4>1
      <4> QED
        BY <1>2, <4>2 DEF StreamInv, Coherent
    <3> QED
      BY <3>3, <3>4
  <2> QED
    BY <2>1, <2>2
<1>12. Coherent'
  BY <1>2, <1>11 DEF Coherent, KnownFits
<1> QED
  BY <1>8, <1>9, <1>10, <1>12 DEF StreamInv

(* Every step preserves the invariant of the messages. *)
LEMMA NextStreamInv ==
  ASSUME ConnInv, StreamInv, [Next]_vars
  PROVE  StreamInv'
<1>1. CASE UNCHANGED vars \/ IntervalElapses \/ DeadlinePasses
  <2>1. UNCHANGED <<shown, rc, down, out, client, known, listening, dropped, phase, wish>>
    BY <1>1 DEF vars, IntervalElapses, DeadlinePasses, peerVars, sockVars, seatVars, loopVars, sessVars
  <2>2. phase' = "farewell" /\ "update" \in wish' => ~listening'
    BY <2>1 DEF StreamInv, UpdateSilence
  <2> QED
    BY <2>1, <2>2, StillStreamInv DEF StreamInv, PeerTypes
<1>2. CASE \E p \in Peer : PeerStep(p)
  BY <1>2, PeerStreamInv
<1>3. CASE DaemonStep
  BY <1>3, QuietStreamInv, MismatchStreamInv, ClientStreamInv, WriteErrorStreamInv,
     TakeoverStreamInv, EndBatchStreamInv, FarewellStreamInv, ComposeStreamInv DEF DaemonStep
<1> QED
  BY <1>1, <1>2, <1>3 DEF Next

(* The invariant of the messages holds in every state of the daemon and its *)
(* peers.                                                                   *)
THEOREM StreamInvariant == Spec => []StreamInv
<1>1. Init => StreamInv
  BY InitStreamInv
<1>2. ConnInv /\ StreamInv /\ [Next]_vars => StreamInv'
  BY NextStreamInv
<1> QED
  BY <1>1, <1>2, ConnInvariant, PTL DEF Spec

(* A client that run_daemon() told to restart never finds the old listener: *)
(* it is closed before the announcement is queued.                          *)
THEOREM RestartMeetsNobody == Spec => []RestartFindsNoListener
<1>1. StreamInv => RestartFindsNoListener
  BY DEF StreamInv, UpdateSilence
<1> QED
  BY <1>1, StreamInvariant, PTL

(* Whatever is rejected, torn, resized or taken over, run_client() applies  *)
(* a difference only to the screen the Differ computed it against.          *)
THEOREM NeverGarbled == Spec => []NoGarbledScreen
<1>1. StreamInv => NoGarbledScreen
  BY DEF StreamInv
<1> QED
  BY <1>1, StreamInvariant, PTL
=============================================================================
