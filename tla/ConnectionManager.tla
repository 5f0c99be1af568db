-------------------------- MODULE ConnectionManager --------------------------
(***************************************************************************)
(* The WebSocket hub (app/core/events.py) and the endpoint that keeps one  *)
(* connection open (app/api/endpoints/websocket.py).                       *)
(*                                                                         *)
(* Broadcasts run in the coroutines of the monitor, several at a time      *)
(* during the checks.  Each walks the one list active_connections with a   *)
(* Python list iterator, a position in the live list, and awaits the send  *)
(* to every client, so that connects, disconnects and the clean-up of      *)
(* other broadcasts change the list under it.                              *)
(***************************************************************************)
EXTENDS Integers, SequencesExt

CONSTANTS
  Clients,   \* the WebSocket objects
  Senders    \* the coroutines that broadcast

\* A process has only ever accepted so many connections.
ASSUME ClientsAreFinite == IsFiniteSet(Clients)

VARIABLES
  active,    \* active_connections
  peer,      \* what has become of each client
  cursor,    \* position of each broadcast's iterator, 0 when there is none
  failed,    \* `disconnected' of each broadcast
  sent,      \* history: messages each broadcast has sent to each client
  audience,  \* history: clients connected since the broadcast began
  removals   \* history: entries others removed since the broadcast began

hub  == <<active, peer>>
vars == <<hub, cursor, failed, sent, audience, removals>>

\* Not connected yet; connected; gone, but its endpoint does not know;
\* its endpoint has ended.
PeerState == {"new", "open", "lost", "closed"}

NothingSent == [c \in Clients |-> 0]

Init ==
  /\ active = <<>>
  /\ peer = [c \in Clients |-> "new"]
  /\ cursor = [s \in Senders |-> 0]
  /\ failed = [s \in Senders |-> <<>>]
  /\ sent = [s \in Senders |-> NothingSent]
  /\ audience = [s \in Senders |-> {}]
  /\ removals = [s \in Senders |-> 0]

Broadcasting(s) == cursor[s] > 0

\* The list after list.remove of each client in gone: those that stay keep
\* their order.  A client is put in the list once, so it has one position.
Without(list, gone) ==
  LET kept == {i \in DOMAIN list : list[i] \notin gone}
      Rank(i) == Cardinality({j \in kept : j <= i})
  IN  [k \in 1 .. Cardinality(kept) |-> list[CHOOSE i \in kept : Rank(i) = k]]

\* A broadcast that is under way loses n entries of the list it walks.
RemovalsSeenBy(s, n) == IF Broadcasting(s) THEN n ELSE 0

\* A client that connects is put before the others.
PrependClient(c) == active' = <<c>> \o active

AddClient(c) == active' = Append(active, c)

Connect(c) ==
  /\ peer[c] = "new"
  /\ peer' = [peer EXCEPT ![c] = "open"]
  /\ AddClient(c)
  /\ UNCHANGED <<cursor, failed, sent, audience, removals>>

\* The client goes away; nobody has noticed yet.
Lose(c) ==
  /\ peer[c] = "open"
  /\ peer' = [peer EXCEPT ![c] = "lost"]
  /\ audience' = [s \in Senders |-> audience[s] \ {c}]
  /\ UNCHANGED <<active, cursor, failed, sent, removals>>

\* receive_text raises WebSocketDisconnect.  If a broadcast was faster,
\* list.remove raises ValueError, which ends the endpoint just as well.
Disconnect(c) ==
  /\ peer[c] = "lost"
  /\ peer' = [peer EXCEPT ![c] = "closed"]
  /\ active' = Without(active, {c})
  /\ removals' = [s \in Senders |->
                    removals[s] + RemovalsSeenBy(s, Len(active) - Len(active'))]
  /\ UNCHANGED <<cursor, failed, sent, audience>>

\* Another exception ends the endpoint, without disconnect().
EndpointFails(c) ==
  /\ peer[c] = "lost"
  /\ peer' = [peer EXCEPT ![c] = "closed"]
  /\ UNCHANGED <<active, cursor, failed, sent, audience, removals>>

StartBroadcast(s) ==
  /\ ~ Broadcasting(s)
  /\ cursor' = [cursor EXCEPT ![s] = 1]
  /\ audience' = [audience EXCEPT ![s] = {c \in ToSet(active) : peer[c] = "open"}]
  /\ UNCHANGED <<hub, failed, sent, removals>>

\* An iterator that skips an element at every step.
SkipAhead(i) == i + 2

Advance(i) == i + 1

\* One turn of the loop.  A send to a lost client may still be buffered, or
\* raise; a send to a closed one raises.
Send(s) ==
  /\ Broadcasting(s) /\ cursor[s] <= Len(active)
  /\ LET c == active[cursor[s]] IN
       \/ /\ peer[c] # "closed"
          /\ sent' = [sent EXCEPT ![s][c] = @ + 1]
          /\ UNCHANGED failed
       \/ /\ peer[c] # "open"
          /\ failed' = [failed EXCEPT ![s] = Append(@, c)]
          /\ UNCHANGED sent
  /\ cursor' = [cursor EXCEPT ![s] = Advance(@)]
  /\ UNCHANGED <<hub, audience, removals>>

\* A clean-up that removes whatever stands at the end of the list.
PopTheLast(s) ==
  SubSeq(active, 1, Len(active) - Len(failed[s]))

\* No clean-up at all.
KeepFailed(s) == active

\* list.remove of each failed client in turn, up to the first that is no
\* longer in the list: there it raises ValueError.
CleanUp(s) ==
  LET found == {i \in DOMAIN failed[s] :
                  \A j \in 1 .. i : failed[s][j] \in ToSet(active)}
      gone  == {failed[s][i] : i \in found}
  IN  Without(active, gone)

\* The list is exhausted; the clean-up runs without an await.
Finish(s) ==
  /\ Broadcasting(s) /\ cursor[s] > Len(active)
  /\ active' = CleanUp(s)
  /\ cursor' = [cursor EXCEPT ![s] = 0]
  /\ failed' = [failed EXCEPT ![s] = <<>>]
  /\ sent' = [sent EXCEPT ![s] = NothingSent]
  /\ audience' = [audience EXCEPT ![s] = {}]
  /\ removals' = [t \in Senders |->
                    IF t = s THEN 0
                    ELSE removals[t] + RemovalsSeenBy(t, Len(active) - Len(active'))]
  /\ UNCHANGED peer

Next ==
  \/ \E c \in Clients : Connect(c) \/ Lose(c) \/ Disconnect(c) \/ EndpointFails(c)
  \/ \E s \in Senders : StartBroadcast(s) \/ Send(s) \/ Finish(s)

Spec == Init /\ [][Next]_vars

\* A send that has begun ends, and an endpoint hears of a lost client.
Fairness ==
  /\ \A s \in Senders : WF_vars(Send(s) \/ Finish(s))
  /\ \A c \in Clients : WF_vars(Disconnect(c) \/ EndpointFails(c))

FairSpec == Spec /\ Fairness

-----------------------------------------------------------------------------
(***************************************************************************)
(* Properties.                                                             *)
(***************************************************************************)

\* Type correctness.
TypeOK ==
  /\ active \in BoundedSeq(Clients, Cardinality(Clients))
  /\ peer \in [Clients -> PeerState]
  /\ cursor \in [Senders -> 0 .. Cardinality(Clients) + 1]
  /\ failed \in [Senders -> BoundedSeq(Clients, Cardinality(Clients))]
  /\ sent \in [Senders -> [Clients -> Nat]]
  /\ audience \in [Senders -> SUBSET Clients]
  /\ removals \in [Senders -> 0 .. Cardinality(Clients)]

\* disconnect and the clean-up of broadcasts take out only clients that are
\* gone: a connected client is in the list, and only once.
OpenIsListed ==
  \A c \in Clients :
    peer[c] = "open" => Cardinality({i \in DOMAIN active : active[i] = c}) = 1

\* However the list moves under a broadcast, no client gets its message twice.
AtMostOnce == \A s \in Senders, c \in Clients : sent[s][c] < 2

\* A connected client can miss a broadcast, but only because entries were
\* removed in front of it: as many clients are missed as were removed.
MissesAreBounded ==
  \A s \in Senders :
    Broadcasting(s) /\ cursor[s] > Len(active) =>
      Cardinality({c \in audience[s] : sent[s][c] = 0}) <= removals[s]

\* As long as there are broadcasts, a client that is gone leaves the list,
\* even if its endpoint failed and whatever clean-ups ended in ValueError.
GoneIsForgotten ==
  []<><<\E s \in Senders : StartBroadcast(s)>>_vars
  => \A c \in Clients : (peer[c] = "closed") ~> (c \notin ToSet(active))

\* Docstring of broadcast: "Send an event to all connected clients."
EveryoneIsServed ==
  \A s \in Senders :
    Broadcasting(s) /\ cursor[s] > Len(active) =>
      \A c \in audience[s] : sent[s][c] > 0
=============================================================================
