-------------------------------- MODULE Hub --------------------------------
(***************************************************************************)
(* The websocket broadcast hub: websocketx/hub.go and websocketx/client.go *)
(*                                                                         *)
(* One goroutine runs Hub.Run and owns the set hub.clients.  ServeWs       *)
(* upgrades a connection, hands the new client to the hub over the         *)
(* unbuffered channel "register" and starts the two pumps of the client.   *)
(* readPump sends what the peer wrote to the unbuffered channel            *)
(* "broadcast"; writePump empties the buffered channel client.send into    *)
(* the connection.                                                         *)
(*                                                                         *)
(* A message is identified by its position in the order in which the hub   *)
(* received it, so log, the history of that order, only keeps who sent it. *)
(*                                                                         *)
(* The "unregister" case of Hub.Run has no action: no code sends on that   *)
(* channel (the deferred send in readPump is commented out).               *)
(***************************************************************************)
EXTENDS Integers, Sequences, FiniteSets

CONSTANTS Clients,   \* the connections that may be served
          BufSize,   \* capacity of client.send (bufSize = 256 in the code)
          MaxMsgs    \* bound: messages that the peers send altogether

ASSUME BufSizeAssumption == BufSize \in Nat \ {0}
ASSUME MaxMsgsAssumption == MaxMsgs \in Nat

VARIABLES
  clients,    \* hub.clients
  pending,    \* clients the range loop of the current broadcast still visits;
              \* empty when the hub waits in its outer select
  crashed,    \* the hub sent on, or closed, a closed channel (a Go panic)
  log,        \* history: the sender of every message the hub received
  serve,      \* progress of ServeWs for each connection
  reader,     \* state of readPump
  writer,     \* state of writePump
  send,       \* contents of the buffered channel client.send
  closed,     \* client.send is closed
  n,          \* writePump's local n: queued messages still to append
  frame,      \* messages in the text frame under construction
  wrote,      \* history: messages of the frames the connection accepted
  closeSent,  \* writePump sent the close frame
  join        \* history: length of log when the hub registered the client

hubVars == <<clients, pending, crashed, log, join>>
pumpVars == <<reader, writer, n, frame, wrote, closeSent>>
vars == <<clients, pending, crashed, log, join, serve, reader, writer, send,
          closed, n, frame, wrote, closeSent>>

TypeOK ==
  /\ clients \in SUBSET Clients
  /\ pending \in SUBSET clients
  /\ crashed \in BOOLEAN
  /\ log \in Seq(Clients)
  /\ serve \in [Clients -> {"new", "upgraded", "registered", "served", "failed"}]
  /\ reader \in [Clients -> {"none", "reading", "sending", "done"}]
  /\ writer \in [Clients -> {"none", "select", "taken", "draining", "done"}]
  /\ send \in [Clients -> Seq(Nat)]
  /\ closed \in [Clients -> BOOLEAN]
  /\ n \in [Clients -> Nat]
  /\ frame \in [Clients -> Seq(Nat)]
  /\ wrote \in [Clients -> Seq(Nat)]
  /\ closeSent \in [Clients -> BOOLEAN]
  /\ join \in [Clients -> Nat]

Init ==
  /\ clients = {}
  /\ pending = {}
  /\ crashed = FALSE
  /\ log = <<>>
  /\ serve = [c \in Clients |-> "new"]
  /\ reader = [c \in Clients |-> "none"]
  /\ writer = [c \in Clients |-> "none"]
  /\ send = [c \in Clients |-> <<>>]
  /\ closed = [c \in Clients |-> FALSE]
  /\ n = [c \in Clients |-> 0]
  /\ frame = [c \in Clients |-> <<>>]
  /\ wrote = [c \in Clients |-> <<>>]
  /\ closeSent = [c \in Clients |-> FALSE]
  /\ join = [c \in Clients |-> 0]

-----------------------------------------------------------------------------
(* ServeWs *)

\* upgrader.Upgrade fails and ServeWs returns, or succeeds and ServeWs blocks
\* sending the client to the hub.
Upgrade(c) ==
  /\ serve[c] = "new"
  /\ \E result \in {"upgraded", "failed"} : serve' = [serve EXCEPT ![c] = result]
  /\ UNCHANGED <<hubVars, pumpVars, send, closed>>

\* ServeWs, released by the hub, starts both pumps.
StartPumps(c) ==
  /\ serve[c] = "registered"
  /\ serve' = [serve EXCEPT ![c] = "served"]
  /\ reader' = [reader EXCEPT ![c] = "reading"]
  /\ writer' = [writer EXCEPT ![c] = "select"]
  /\ UNCHANGED <<hubVars, send, closed, n, frame, wrote, closeSent>>

-----------------------------------------------------------------------------
(* Hub.Run *)

\* case client := <-h.register: the rendezvous with a blocked ServeWs.
HubRegister(c) ==
  /\ pending = {}
  /\ serve[c] = "upgraded"
  /\ serve' = [serve EXCEPT ![c] = "registered"]
  /\ clients' = clients \cup {c}
  /\ join' = [join EXCEPT ![c] = Len(log)]
  /\ UNCHANGED <<pending, crashed, log, pumpVars, send, closed>>

\* case message := <-h.broadcast: the rendezvous with a blocked readPump,
\* which goes back to ReadMessage; the range over the clients begins.
HubBroadcast(c) ==
  /\ pending = {}
  /\ reader[c] = "sending"
  /\ reader' = [reader EXCEPT ![c] = "reading"]
  /\ log' = Append(log, c)
  /\ pending' = clients
  /\ UNCHANGED <<clients, crashed, join, serve, writer, send, closed, n,
                 frame, wrote, closeSent>>

\* One iteration of the range loop: case client.send <- message.  A send on a
\* closed channel is always ready, and is a panic that ends the program.
HubSend(c) ==
  /\ c \in pending
  /\ closed[c] \/ Len(send[c]) < BufSize
  /\ pending' = pending \ {c}
  /\ crashed' = closed[c]
  /\ send' = [send EXCEPT ![c] = Append(@, Len(log))]
  /\ UNCHANGED <<clients, log, join, serve, pumpVars, closed>>

\* Mutant of HubEvict: the client is deleted and its channel left open.
HubEvict_NoClose(c) ==
  /\ c \in pending
  /\ ~closed[c]
  /\ Len(send[c]) >= BufSize
  /\ pending' = pending \ {c}
  /\ clients' = clients \ {c}
  /\ UNCHANGED <<crashed, log, join, serve, pumpVars, send, closed>>

\* Mutant of HubEvict: the message is skipped and the slow client kept.
HubEvict_Skip(c) ==
  /\ c \in pending
  /\ ~closed[c]
  /\ Len(send[c]) >= BufSize
  /\ pending' = pending \ {c}
  /\ UNCHANGED <<clients, crashed, log, join, serve, pumpVars, send, closed>>

\* Mutant of HubEvict: the hub waits for room instead of evicting.
HubEvict_Wait(c) ==
  /\ c \in pending
  /\ ~closed[c]
  /\ Len(send[c]) >= BufSize
  /\ UNCHANGED vars

\* One iteration of the range loop: default, the buffer is full.
HubEvict(c) ==
  /\ c \in pending
  /\ ~closed[c]
  /\ Len(send[c]) >= BufSize
  /\ pending' = pending \ {c}
  /\ closed' = [closed EXCEPT ![c] = TRUE]
  /\ clients' = clients \ {c}
  /\ UNCHANGED <<crashed, log, join, serve, pumpVars, send>>

-----------------------------------------------------------------------------
(* readPump *)

\* Messages that left a peer: received by the hub, or held by a blocked pump.
MsgsRead == Len(log) + Cardinality({c \in Clients : reader[c] = "sending"})

\* ReadMessage returns a message and readPump blocks sending it to the hub.
ReadMessage(c) ==
  /\ reader[c] = "reading"
  /\ MsgsRead < MaxMsgs
  /\ reader' = [reader EXCEPT ![c] = "sending"]
  /\ UNCHANGED <<hubVars, serve, writer, send, closed, n, frame, wrote, closeSent>>

\* ReadMessage fails (peer gone, or no pong within pongWait): readPump returns
\* and tells nobody, the deferred unregistration being commented out.
ReadFail(c) ==
  /\ reader[c] = "reading"
  /\ reader' = [reader EXCEPT ![c] = "done"]
  /\ UNCHANGED <<hubVars, serve, writer, send, closed, n, frame, wrote, closeSent>>

-----------------------------------------------------------------------------
(* writePump *)

\* case message, ok := <-c.send with a message; it is held in frame.
WriterTake(c) ==
  /\ writer[c] = "select"
  /\ send[c] # <<>>
  /\ frame' = [frame EXCEPT ![c] = <<Head(send[c])>>]
  /\ send' = [send EXCEPT ![c] = Tail(@)]
  /\ writer' = [writer EXCEPT ![c] = "taken"]
  /\ UNCHANGED <<hubVars, serve, reader, closed, n, wrote, closeSent>>

\* Mutant of NextWriter: the message just taken is counted as still queued.
NextWriter_CountTaken(c) ==
  /\ writer[c] = "taken"
  /\ \/ /\ writer' = [writer EXCEPT ![c] = "done"]
        /\ UNCHANGED n
     \/ /\ writer' = [writer EXCEPT ![c] = "draining"]
        /\ n' = [n EXCEPT ![c] = Len(send[c]) + 1]
  /\ UNCHANGED <<hubVars, serve, reader, send, closed, frame, wrote, closeSent>>

\* NextWriter fails and writePump returns, or the message is written and the
\* messages queued now are counted: n := len(c.send).
NextWriter(c) ==
  /\ writer[c] = "taken"
  /\ \/ /\ writer' = [writer EXCEPT ![c] = "done"]
        /\ UNCHANGED n
     \/ /\ writer' = [writer EXCEPT ![c] = "draining"]
        /\ n' = [n EXCEPT ![c] = Len(send[c])]
  /\ UNCHANGED <<hubVars, serve, reader, send, closed, frame, wrote, closeSent>>

\* Mutant of WriterDrain: a queued message goes in front of the frame.
WriterDrain_Front(c) ==
  /\ writer[c] = "draining"
  /\ n[c] > 0
  /\ send[c] # <<>> \/ closed[c]
  /\ n' = [n EXCEPT ![c] = @ - 1]
  /\ frame' = [frame EXCEPT
       ![c] = <<IF send[c] # <<>> THEN Head(send[c]) ELSE 0>> \o @]
  /\ send' = [send EXCEPT ![c] = IF @ # <<>> THEN Tail(@) ELSE @]
  /\ UNCHANGED <<hubVars, serve, reader, writer, closed, wrote, closeSent>>

\* One iteration of the loop that appends the queued messages to the frame.
\* A receive from an empty open channel blocks; from an empty closed one it
\* yields the zero value (message 0).
WriterDrain(c) ==
  /\ writer[c] = "draining"
  /\ n[c] > 0
  /\ send[c] # <<>> \/ closed[c]
  /\ n' = [n EXCEPT ![c] = @ - 1]
  /\ frame' = [frame EXCEPT
       ![c] = Append(@, IF send[c] # <<>> THEN Head(send[c]) ELSE 0)]
  /\ send' = [send EXCEPT ![c] = IF @ # <<>> THEN Tail(@) ELSE @]
  /\ UNCHANGED <<hubVars, serve, reader, writer, closed, wrote, closeSent>>

\* w.Close(): the frame reaches the connection, or the write fails and
\* writePump returns with the frame lost.
CloseFrame(c) ==
  /\ writer[c] = "draining"
  /\ n[c] = 0
  /\ \/ /\ writer' = [writer EXCEPT ![c] = "select"]
        /\ wrote' = [wrote EXCEPT ![c] = @ \o frame[c]]
        /\ frame' = [frame EXCEPT ![c] = <<>>]
     \/ /\ writer' = [writer EXCEPT ![c] = "done"]
        /\ UNCHANGED <<wrote, frame>>
  /\ UNCHANGED <<hubVars, serve, reader, send, closed, n, closeSent>>

\* Mutant of WriterClosed: the close frame does not wait for the backlog.
WriterClosed_Early(c) ==
  /\ writer[c] = "select"
  /\ closed[c]
  /\ \E ok \in BOOLEAN : closeSent' = [closeSent EXCEPT ![c] = ok]
  /\ writer' = [writer EXCEPT ![c] = "done"]
  /\ UNCHANGED <<hubVars, serve, reader, send, closed, n, frame, wrote>>

\* case message, ok := <-c.send with !ok: the hub closed the channel and its
\* buffer is empty.  The close frame is written (an error is ignored).
WriterClosed(c) ==
  /\ writer[c] = "select"
  /\ closed[c]
  /\ send[c] = <<>>
  /\ \E ok \in BOOLEAN : closeSent' = [closeSent EXCEPT ![c] = ok]
  /\ writer' = [writer EXCEPT ![c] = "done"]
  /\ UNCHANGED <<hubVars, serve, reader, send, closed, n, frame, wrote>>

\* case <-ticker.C with a ping that fails.  A ping that succeeds changes
\* nothing and needs no action.
PingFail(c) ==
  /\ writer[c] = "select"
  /\ writer' = [writer EXCEPT ![c] = "done"]
  /\ UNCHANGED <<hubVars, serve, reader, send, closed, n, frame, wrote, closeSent>>

-----------------------------------------------------------------------------
HubStep(c) ==
  HubRegister(c) \/ HubBroadcast(c) \/ HubSend(c) \/ HubEvict(c)

WriterStep(c) ==
  \/ WriterTake(c) \/ NextWriter(c) \/ WriterDrain(c)
  \/ CloseFrame(c) \/ WriterClosed(c)

\* What only the network and the peers decide.
EnvStep(c) == Upgrade(c) \/ ReadMessage(c) \/ ReadFail(c) \/ PingFail(c)

Next ==
  /\ ~crashed
  /\ \E c \in Clients :
       StartPumps(c) \/ HubStep(c) \/ WriterStep(c) \/ EnvStep(c)

\* The hub goroutine keeps running.  Blocked senders of a Go channel are
\* served in order and select picks at random among the ready cases, so a
\* sender that is ready again and again is received from.
HubFairness ==
  \A c \in Clients :
    /\ WF_vars(~crashed /\ StartPumps(c))
    /\ WF_vars(~crashed /\ (HubSend(c) \/ HubEvict(c)))
    /\ SF_vars(~crashed /\ HubRegister(c))
    /\ SF_vars(~crashed /\ HubBroadcast(c))

\* Every write of writePump has a deadline (writeWait), so it returns.
WriterFairness == \A c \in Clients : WF_vars(~crashed /\ WriterStep(c))

Safety == Init /\ [][Next]_vars
SpecHub == Safety /\ HubFairness
Spec == Safety /\ HubFairness /\ WriterFairness

-----------------------------------------------------------------------------
(* Properties *)

\* The hub never sends on or closes a channel that it closed before: a slow
\* client leaves hub.clients in the step that closes its channel (Hub.Run).
NoPanic == ~crashed /\ \A c \in clients : ~closed[c]

\* Number of messages the hub put into client.send, wherever they are now.
Given(c) == Len(wrote[c]) + Len(frame[c]) + Len(send[c])

\* Position in log of the last of them.
LastQueued(c) == join[c] + Given(c)

\* The sequences w, f and s of positions, one after the other, count up by one
\* from start + 1.
Stream(start, w, f, s) ==
  /\ \A i \in 1..Len(w) : w[i] = start + i
  /\ \A i \in 1..Len(f) : f[i] = start + Len(w) + i
  /\ \A i \in 1..Len(s) : s[i] = start + (Len(w) + Len(f)) + i

\* What a peer is sent is a contiguous run of the hub's message order that
\* starts right after its registration: the frames written, the frame under
\* construction and the queue continue one another without a gap, duplicate or
\* reordering, however the pumps interleave with the broadcast loop.
Contiguous ==
  \A c \in Clients : Stream(join[c], wrote[c], frame[c], send[c])

\* A registered client misses nothing: it was given every message received
\* since its registration, up to the one the loop is still distributing.
UpToDate ==
  \A c \in clients :
    LastQueued(c) = Len(log) - (IF c \in pending THEN 1 ELSE 0)

\* The inner loop of writePump, bounded by a len(c.send) read earlier, never
\* blocks and never reads past a close: the counted messages are still there,
\* although the hub keeps sending and may close the channel meanwhile.
DrainNeverBlocks ==
  \A c \in Clients : writer[c] = "draining" => n[c] <= Len(send[c])

\* A peer that the hub evicted receives the close frame only after its whole
\* backlog, which is at least a full buffer (writePump's !ok branch).
CloseAfterBacklog ==
  \A c \in Clients : closeSent[c] =>
    /\ closed[c]
    /\ send[c] = <<>> /\ frame[c] = <<>>
    /\ Len(wrote[c]) >= BufSize

\* The strengthening that makes the safety properties inductive: a connection
\* the hub has not registered is untouched, a frame exists exactly while
\* writePump builds or loses it, nobody is ahead of the log, and eviction
\* leaves a full buffer behind.
Untouched(c) ==
  /\ c \notin clients
  /\ ~closed[c]
  /\ wrote[c] = <<>> /\ frame[c] = <<>> /\ send[c] = <<>>

Lifecycle ==
  \A c \in Clients :
    /\ serve[c] \in {"new", "upgraded", "failed"} => Untouched(c)
    /\ serve[c] # "served" => reader[c] = "none" /\ writer[c] = "none"
    /\ writer[c] \in {"none", "select"} => frame[c] = <<>>
    /\ writer[c] \in {"taken", "draining"} => frame[c] # <<>>
    /\ LastQueued(c) <= Len(log)
    /\ closed[c] => Given(c) >= BufSize
    /\ closeSent[c] => writer[c] = "done"

HubInv ==
  /\ TypeOK /\ NoPanic /\ Contiguous /\ UpToDate /\ DrainNeverBlocks
  /\ CloseAfterBacklog /\ Lifecycle

\* A pump blocked in "c.hub.broadcast <- message", or a ServeWs blocked in
\* "register <- client", is released even if no writePump ever runs again:
\* a stuck peer never blocks the hub.
SendersReleased ==
  \A c \in Clients :
    /\ reader[c] = "sending" ~> reader[c] # "sending"
    /\ serve[c] = "upgraded" ~> serve[c] = "served"

\* When the writers run, a registered client catches up with the hub's message
\* order whenever no more messages come, or its writePump returns (a failed
\* write, or the close frame).
Delivered ==
  WriterFairness => \A c \in Clients :
    []<>(\/ serve[c] \in {"new", "upgraded", "failed"}
         \/ join[c] + Len(wrote[c]) = Len(log)
         \/ writer[c] = "done")

\* The hub implements the ordered broadcast of BroadcastLog: a subscriber is a
\* client that the hub registered, and its stream is what writePump wrote.
Broadcast == INSTANCE BroadcastLog WITH
  subs <- {c \in Clients : serve[c] \in {"registered", "served"}},
  start <- join,
  recv <- wrote

\* Every step of the hub and the pumps is a step of the ordered broadcast.
ImplementsBroadcast == Broadcast!BSpec

=============================================================================
