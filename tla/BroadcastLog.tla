---------------------------- MODULE BroadcastLog ----------------------------
(***************************************************************************)
(* What the websocket hub promises, without channels and pumps: one order  *)
(* of all messages, and for every subscriber a stream that follows this    *)
(* order without a gap from the moment it subscribes.                      *)
(***************************************************************************)
EXTENDS Integers, Sequences

CONSTANT Clients

VARIABLES log,    \* the sender of every message, in the common order
          subs,   \* the clients that subscribed at some time
          start,  \* length of log when the client subscribed
          recv    \* positions of the messages delivered to each client

bvars == <<log, subs, start, recv>>

BInit ==
  /\ log = <<>>
  /\ subs = {}
  /\ start = [c \in Clients |-> 0]
  /\ recv = [c \in Clients |-> <<>>]

\* A subscriber publishes a message.
Publish(c) ==
  /\ c \in subs
  /\ log' = Append(log, c)
  /\ UNCHANGED <<subs, start, recv>>

\* A client subscribes, once, from the current end of the order.
Subscribe(c) ==
  /\ c \notin subs
  /\ subs' = subs \cup {c}
  /\ start' = [start EXCEPT ![c] = Len(log)]
  /\ UNCHANGED <<log, recv>>

\* A frame with the next k messages of the order is delivered.
Deliver(c, k) ==
  /\ c \in subs
  /\ start[c] + Len(recv[c]) + k <= Len(log)
  /\ recv' = [recv EXCEPT
       ![c] = @ \o [i \in 1..k |-> start[c] + Len(@) + i]]
  /\ UNCHANGED <<log, subs, start>>

BNext ==
  \E c \in Clients : Publish(c) \/ Subscribe(c) \/ \E k \in 1..Len(log) : Deliver(c, k)

BSpec == BInit /\ [][BNext]_bvars

=============================================================================
