---------------------------- MODULE WebSocket ----------------------------
(***************************************************************************)
(* A WebSocket connection of the dashboard (nexus-web/src/websocket.rs):   *)
(* one task reads the client's messages and queues a pong for each ping,   *)
(* another sends the pongs and the events broadcast by the server.  Events *)
(* come at any rate; a receiver that is too slow loses the oldest.         *)
(***************************************************************************)
EXTENDS Naturals

CONSTANTS
  DirectSize,    \* capacity of the channel of pongs, 16
  EventSize,     \* capacity of the broadcast channel
  MaxPings       \* bound: pings the client sends

VARIABLES
  pinged,        \* pings the client has sent
  read,          \* pings the reading task has read
  direct,        \* pongs in the channel
  events,        \* events in the channel, EventSize + 1 when some were lost
  answered,      \* pongs sent
  sender,        \* does the sending task run?
  open           \* is the connection handled?

vars == <<pinged, read, direct, events, answered, sender, open>>

TypeOK ==
  /\ pinged \in 0 .. MaxPings /\ read \in 0 .. pinged
  /\ direct \in 0 .. DirectSize /\ events \in 0 .. EventSize + 1
  /\ answered \in 0 .. MaxPings
  /\ sender \in BOOLEAN /\ open \in BOOLEAN

Init ==
  /\ pinged = 0 /\ read = 0 /\ direct = 0 /\ events = 0 /\ answered = 0
  /\ sender = TRUE /\ open = TRUE

Ping ==
  /\ open /\ pinged < MaxPings
  /\ pinged' = pinged + 1
  /\ UNCHANGED <<read, direct, events, answered, sender, open>>

Publish ==
  /\ open
  /\ events' = IF events > EventSize THEN events ELSE events + 1
  /\ UNCHANGED <<pinged, read, direct, answered, sender, open>>

\* The reading task waits for room in the channel.
ReadPing ==
  /\ open /\ sender /\ read < pinged /\ direct < DirectSize
  /\ read' = read + 1
  /\ direct' = direct + 1
  /\ UNCHANGED <<pinged, events, answered, sender, open>>

\* The channel is closed: the connection ends with the next ping.
ReadPingFails ==
  /\ open /\ ~sender /\ read < pinged
  /\ open' = FALSE
  /\ UNCHANGED <<pinged, read, direct, events, answered, sender>>

\* (bug) events go first.
BugPongFirst == events = 0

\* The select is biased: pongs go first.
PongFirst == TRUE

SendPong ==
  /\ open /\ sender /\ direct > 0 /\ PongFirst
  /\ direct' = direct - 1
  /\ answered' = answered + 1
  /\ UNCHANGED <<pinged, read, events, sender, open>>

EventFirst == direct = 0 \/ ~PongFirst

SendEvent ==
  /\ open /\ sender /\ events \in 1 .. EventSize /\ EventFirst
  /\ events' = events - 1
  /\ UNCHANGED <<pinged, read, direct, answered, sender, open>>

\* RecvError::Lagged is logged, and the rest is sent.
Lag ==
  /\ open /\ sender /\ events > EventSize /\ EventFirst
  /\ events' = EventSize
  /\ UNCHANGED <<pinged, read, direct, answered, sender, open>>

\* A message cannot be sent.
SendFails ==
  /\ open /\ sender /\ direct + events > 0
  /\ sender' = FALSE
  /\ UNCHANGED <<pinged, read, direct, events, answered, open>>

\* The client closes the connection, or it breaks.
Close ==
  /\ open
  /\ open' = FALSE /\ sender' = FALSE
  /\ UNCHANGED <<pinged, read, direct, events, answered>>

Receive == ReadPing \/ ReadPingFails
Send == SendPong \/ SendEvent \/ Lag

Next == Ping \/ Publish \/ Receive \/ Send \/ SendFails \/ Close

\* The runtime runs both tasks.
Fairness == WF_vars(Receive) /\ WF_vars(Send)

Spec == Init /\ [][Next]_vars /\ Fairness

-----------------------------------------------------------------------------
(* Properties *)

\* Every ping is answered, unless the connection ends: neither a flood of events
\* nor a full channel of pongs keeps a pong back for ever (websocket.rs:72).
PingsAnswered == \A k \in 1 .. MaxPings : pinged >= k ~> answered >= k \/ ~open \/ ~sender
=============================================================================
