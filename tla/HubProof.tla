------------------------------ MODULE HubProof ------------------------------
(***************************************************************************)
(* Proofs about the websocket hub, for every set of clients, every buffer  *)
(* size and every number of messages.                                      *)
(***************************************************************************)
EXTENDS Hub, SequenceTheorems, TLAPS

\* The head and the tail of a non-empty channel buffer, position by position.
LEMMA HeadTail ==
  ASSUME NEW s \in Seq(Nat), s # <<>>
  PROVE  /\ Len(s) \in Nat \ {0}
         /\ Head(s) \in Nat /\ Head(s) = s[1]
         /\ Tail(s) \in Seq(Nat) /\ Len(Tail(s)) = Len(s) - 1
         /\ \A i \in 1..(Len(s) - 1) : Tail(s)[i] = s[i + 1]
<1>1. Len(s) \in Nat \ {0}
  OBVIOUS
<1>2. Head(s) = s[1] /\ s[1] \in Nat
  BY <1>1
<1>. QED BY <1>1, <1>2

\* Every step of the hub, the pumps and ServeWs preserves the types.
LEMMA TypeStep == TypeOK /\ [Next]_vars => TypeOK'
<1> SUFFICES ASSUME TypeOK, [Next]_vars PROVE TypeOK'
  OBVIOUS
<1> USE DEF TypeOK, hubVars, pumpVars
<1>1. CASE UNCHANGED vars
  BY <1>1 DEF vars
<1>2. ASSUME NEW c \in Clients, StartPumps(c) PROVE TypeOK'
  BY <1>2 DEF StartPumps
<1>3. ASSUME NEW c \in Clients, HubStep(c) PROVE TypeOK'
  <2>1. CASE HubRegister(c)
    BY <2>1 DEF HubRegister
  <2>2. CASE HubBroadcast(c)
    BY <2>2 DEF HubBroadcast
  <2>3. CASE HubSend(c)
    BY <2>3 DEF HubSend
  <2>4. CASE HubEvict(c)
    BY <2>4 DEF HubEvict
  <2>. QED BY <1>3, <2>1, <2>2, <2>3, <2>4 DEF HubStep
<1>4. ASSUME NEW c \in Clients, WriterStep(c) PROVE TypeOK'
  <2>1. CASE WriterTake(c)
    BY <2>1 DEF WriterTake
  <2>2. CASE NextWriter(c)
    <3>1. n' \in [Clients -> Nat]
      <4>1. CASE UNCHANGED n
        BY <4>1
      <4>2. CASE n' = [n EXCEPT ![c] = Len(send[c])]
        BY <4>2
      <4>. QED BY <2>2, <4>1, <4>2 DEF NextWriter
    <3>2. writer' \in [Clients -> {"none", "select", "taken", "draining", "done"}]
      BY <2>2 DEF NextWriter
    <3>. QED BY <2>2, <3>1, <3>2 DEF NextWriter
  <2>3. CASE WriterDrain(c)
    <3>1. send[c] # <<>> => Head(send[c]) \in Nat /\ Tail(send[c]) \in Seq(Nat)
      BY HeadTail
    <3>. QED BY <2>3, <3>1 DEF WriterDrain
  <2>4. CASE CloseFrame(c)
    <3>1. wrote' \in [Clients -> Seq(Nat)] /\ frame' \in [Clients -> Seq(Nat)]
      <4>1. CASE UNCHANGED <<wrote, frame>>
        BY <4>1
      <4>2. CASE /\ wrote' = [wrote EXCEPT ![c] = @ \o frame[c]]
                 /\ frame' = [frame EXCEPT ![c] = <<>>]
        BY <4>2
      <4>. QED BY <2>4, <4>1, <4>2 DEF CloseFrame
    <3>2. writer' \in [Clients -> {"none", "select", "taken", "draining", "done"}]
      BY <2>4 DEF CloseFrame
    <3>. QED BY <2>4, <3>1, <3>2 DEF CloseFrame
  <2>5. CASE WriterClosed(c)
    BY <2>5 DEF WriterClosed
  <2>. QED BY <1>4, <2>1, <2>2, <2>3, <2>4, <2>5 DEF WriterStep
<1>5. ASSUME NEW c \in Clients, EnvStep(c) PROVE TypeOK'
  <2>1. CASE Upgrade(c)
    BY <2>1 DEF Upgrade
  <2>2. CASE ReadMessage(c)
    BY <2>2 DEF ReadMessage
  <2>3. CASE ReadFail(c)
    BY <2>3 DEF ReadFail
  <2>4. CASE PingFail(c)
    BY <2>4 DEF PingFail
  <2>. QED BY <1>5, <2>1, <2>2, <2>3, <2>4 DEF EnvStep
<1>. QED BY <1>1, <1>2, <1>3, <1>4, <1>5 DEF Next

\* The initial state is well typed.
LEMMA TypeInit == Init => TypeOK
<1> SUFFICES ASSUME Init PROVE TypeOK
  OBVIOUS
<1>1. crashed \in BOOLEAN /\ closed \in [Clients -> BOOLEAN] /\ closeSent \in [Clients -> BOOLEAN]
  BY Zenon DEF Init
<1>. QED BY <1>1 DEF Init, TypeOK

\* The type invariant holds throughout every execution of the hub.
THEOREM TypeCorrect == Safety => []TypeOK
BY TypeInit, TypeStep, PTL DEF Safety

-----------------------------------------------------------------------------
(* The four ways in which the pumps and the hub move messages. *)

\* The hub appends the next message of the order to the queue.
LEMMA StreamQueue ==
  ASSUME NEW j \in Nat, NEW w \in Seq(Nat), NEW f \in Seq(Nat), NEW s \in Seq(Nat),
         NEW m \in Nat, Stream(j, w, f, s), m = j + (Len(w) + Len(f)) + Len(s) + 1
  PROVE  Stream(j, w, f, Append(s, m)) /\ Len(Append(s, m)) = Len(s) + 1
<1>1. /\ Len(Append(s, m)) = Len(s) + 1
      /\ \A i \in 1..Len(s) : Append(s, m)[i] = s[i]
      /\ Append(s, m)[Len(s) + 1] = m
  BY AppendProperties
<1>2. ASSUME NEW i \in 1..(Len(s) + 1)
      PROVE  Append(s, m)[i] = j + (Len(w) + Len(f)) + i
  <2>1. CASE i = Len(s) + 1
    BY <2>1, <1>1
  <2>2. CASE i # Len(s) + 1
    <3>1. i \in 1..Len(s) /\ Append(s, m)[i] = s[i]
      BY <2>2, <1>1
    <3>. QED BY <3>1 DEF Stream
  <2>. QED BY <2>1, <2>2
<1>. QED BY <1>1, <1>2 DEF Stream

\* The oldest queued message is moved to the end of the frame.
LEMMA StreamDrain ==
  ASSUME NEW j \in Nat, NEW w \in Seq(Nat), NEW f \in Seq(Nat), NEW s \in Seq(Nat),
         Stream(j, w, f, s), s # <<>>
  PROVE  /\ Stream(j, w, Append(f, Head(s)), Tail(s))
         /\ Append(f, Head(s)) # <<>>
         /\ Len(Append(f, Head(s))) = Len(f) + 1
         /\ Len(Tail(s)) = Len(s) - 1
<1>1. /\ Len(s) \in Nat \ {0} /\ Head(s) \in Nat /\ Head(s) = s[1]
      /\ Tail(s) \in Seq(Nat) /\ Len(Tail(s)) = Len(s) - 1
      /\ \A i \in 1..(Len(s) - 1) : Tail(s)[i] = s[i + 1]
  BY HeadTail
<1>2. /\ Len(Append(f, Head(s))) = Len(f) + 1
      /\ Append(f, Head(s)) # <<>>
      /\ \A i \in 1..Len(f) : Append(f, Head(s))[i] = f[i]
      /\ Append(f, Head(s))[Len(f) + 1] = Head(s)
  BY <1>1, AppendProperties
<1>3. s[1] = j + (Len(w) + Len(f)) + 1
  BY <1>1 DEF Stream
<1>4. ASSUME NEW i \in 1..(Len(f) + 1)
      PROVE  Append(f, Head(s))[i] = j + Len(w) + i
  <2>1. CASE i = Len(f) + 1
    BY <2>1, <1>1, <1>2, <1>3
  <2>2. CASE i # Len(f) + 1
    <3>1. i \in 1..Len(f) /\ Append(f, Head(s))[i] = f[i]
      BY <2>2, <1>2
    <3>. QED BY <3>1 DEF Stream
  <2>. QED BY <2>1, <2>2
<1>5. ASSUME NEW i \in 1..(Len(s) - 1)
      PROVE  Tail(s)[i] = j + Len(w) + (Len(f) + 1) + i
  <2>1. i + 1 \in 1..Len(s) /\ Tail(s)[i] = s[i + 1]
    BY <1>1
  <2>. QED BY <2>1 DEF Stream
<1>6. \A i \in 1..Len(w) : w[i] = j + i
  BY DEF Stream
<1>. QED BY <1>1, <1>2, <1>4, <1>5, <1>6 DEF Stream

\* The oldest queued message starts a frame.
LEMMA StreamTake ==
  ASSUME NEW j \in Nat, NEW w \in Seq(Nat), NEW s \in Seq(Nat),
         Stream(j, w, <<>>, s), s # <<>>
  PROVE  /\ Stream(j, w, <<Head(s)>>, Tail(s))
         /\ <<Head(s)>> # <<>> /\ Len(<<Head(s)>>) = 1
         /\ Len(Tail(s)) = Len(s) - 1
<1>1. Head(s) \in Nat /\ Append(<<>>, Head(s)) = <<Head(s)>>
  BY HeadTail
<1>2. <<>> \in Seq(Nat) /\ Len(<<>>) = 0
  OBVIOUS
<1>3. Stream(j, w, Append(<<>>, Head(s)), Tail(s)) /\ Len(Tail(s)) = Len(s) - 1
  BY <1>2, StreamDrain
<1>. QED BY <1>1, <1>3

\* The frame is written to the connection.
LEMMA StreamFlush ==
  ASSUME NEW j \in Nat, NEW w \in Seq(Nat), NEW f \in Seq(Nat), NEW s \in Seq(Nat),
         Stream(j, w, f, s)
  PROVE  Stream(j, w \o f, <<>>, s) /\ Len(w \o f) = Len(w) + Len(f)
<1>1. w \o f \in Seq(Nat) /\ Len(w \o f) = Len(w) + Len(f)
  OBVIOUS
<1>2. ASSUME NEW i \in 1..(Len(w) + Len(f)) PROVE (w \o f)[i] = j + i
  <2>1. CASE i <= Len(w)
    BY <2>1 DEF Stream
  <2>2. CASE i > Len(w)
    <3>1. i - Len(w) \in 1..Len(f) /\ (w \o f)[i] = f[i - Len(w)]
      BY <2>2
    <3>. QED BY <3>1 DEF Stream
  <2>. QED BY <2>1, <2>2
<1>3. ASSUME NEW i \in 1..Len(s) PROVE s[i] = j + (Len(w) + Len(f)) + 0 + i
  BY DEF Stream
<1>. QED BY <1>1, <1>2, <1>3 DEF Stream

-----------------------------------------------------------------------------

\* The inductive invariant holds initially.
LEMMA InvInit == Init => HubInv
<1> SUFFICES ASSUME Init PROVE HubInv
  OBVIOUS
<1>1. NoPanic
  BY Zenon DEF Init, NoPanic
<1>2. \A c \in Clients : ~closed[c] /\ ~closeSent[c]
  BY Zenon DEF Init
<1>3. Contiguous /\ UpToDate /\ DrainNeverBlocks /\ CloseAfterBacklog
  BY <1>2 DEF Init, Contiguous, Stream, UpToDate, DrainNeverBlocks, CloseAfterBacklog
<1>4. Lifecycle
  BY <1>2 DEF Init, Lifecycle, Untouched, LastQueued, Given
<1>. QED BY <1>1, <1>3, <1>4, TypeInit DEF HubInv

\* An upgrade, failed or not, touches no channel.
LEMMA UpgradeInv ==
  ASSUME HubInv, TypeOK', NEW c \in Clients, Upgrade(c) PROVE HubInv'
<1> USE DEF HubInv, TypeOK, hubVars, pumpVars, Upgrade
<1>1. NoPanic'
  BY DEF NoPanic
<1>2. Contiguous'
  BY DEF Contiguous, Stream
<1>3. UpToDate'
  BY DEF UpToDate, LastQueued, Given, NoPanic, Lifecycle, Untouched
<1>4. DrainNeverBlocks'
  BY DEF DrainNeverBlocks
<1>5. CloseAfterBacklog'
  BY DEF CloseAfterBacklog, Given, Lifecycle, NoPanic, Untouched
<1>6. Lifecycle'
  BY DEF Lifecycle, Untouched, LastQueued, Given, NoPanic, UpToDate
<1>. QED BY <1>1, <1>2, <1>3, <1>4, <1>5, <1>6

\* The pumps start with an empty frame.
LEMMA StartPumpsInv ==
  ASSUME HubInv, TypeOK', NEW c \in Clients, StartPumps(c) PROVE HubInv'
<1> USE DEF HubInv, TypeOK, hubVars, pumpVars, StartPumps
<1>1. NoPanic'
  BY DEF NoPanic
<1>2. Contiguous'
  BY DEF Contiguous, Stream
<1>3. UpToDate'
  BY DEF UpToDate, LastQueued, Given, NoPanic, Lifecycle, Untouched
<1>4. DrainNeverBlocks'
  BY DEF DrainNeverBlocks
<1>5. CloseAfterBacklog'
  BY DEF CloseAfterBacklog, Given, Lifecycle, NoPanic, Untouched
<1>6. Lifecycle'
  BY DEF Lifecycle, Untouched, LastQueued, Given, NoPanic, UpToDate
<1>. QED BY <1>1, <1>2, <1>3, <1>4, <1>5, <1>6

\* A read touches no channel.
LEMMA ReadMessageInv ==
  ASSUME HubInv, TypeOK', NEW c \in Clients, ReadMessage(c) PROVE HubInv'
<1> USE DEF HubInv, TypeOK, hubVars, pumpVars, ReadMessage
<1>1. NoPanic'
  BY DEF NoPanic
<1>2. Contiguous'
  BY DEF Contiguous, Stream
<1>3. UpToDate'
  BY DEF UpToDate, LastQueued, Given, NoPanic, Lifecycle, Untouched
<1>4. DrainNeverBlocks'
  BY DEF DrainNeverBlocks
<1>5. CloseAfterBacklog'
  BY DEF CloseAfterBacklog, Given, Lifecycle, NoPanic, Untouched
<1>6. Lifecycle'
  BY DEF Lifecycle, Untouched, LastQueued, Given, NoPanic, UpToDate
<1>. QED BY <1>1, <1>2, <1>3, <1>4, <1>5, <1>6

\* A failed read touches no channel.
LEMMA ReadFailInv ==
  ASSUME HubInv, TypeOK', NEW c \in Clients, ReadFail(c) PROVE HubInv'
<1> USE DEF HubInv, TypeOK, hubVars, pumpVars, ReadFail
<1>1. NoPanic'
  BY DEF NoPanic
<1>2. Contiguous'
  BY DEF Contiguous, Stream
<1>3. UpToDate'
  BY DEF UpToDate, LastQueued, Given, NoPanic, Lifecycle, Untouched
<1>4. DrainNeverBlocks'
  BY DEF DrainNeverBlocks
<1>5. CloseAfterBacklog'
  BY DEF CloseAfterBacklog, Given, Lifecycle, NoPanic, Untouched
<1>6. Lifecycle'
  BY DEF Lifecycle, Untouched, LastQueued, Given, NoPanic, UpToDate
<1>. QED BY <1>1, <1>2, <1>3, <1>4, <1>5, <1>6

\* A failed ping ends writePump between two frames.
LEMMA PingFailInv ==
  ASSUME HubInv, TypeOK', NEW c \in Clients, PingFail(c) PROVE HubInv'
<1> USE DEF HubInv, TypeOK, hubVars, pumpVars, PingFail
<1>1. NoPanic'
  BY DEF NoPanic
<1>2. Contiguous'
  BY DEF Contiguous, Stream
<1>3. UpToDate'
  BY DEF UpToDate, LastQueued, Given, NoPanic, Lifecycle, Untouched
<1>4. DrainNeverBlocks'
  BY DEF DrainNeverBlocks
<1>5. CloseAfterBacklog'
  BY DEF CloseAfterBacklog, Given, Lifecycle, NoPanic, Untouched
<1>6. Lifecycle'
  BY DEF Lifecycle, Untouched, LastQueued, Given, NoPanic, UpToDate
<1>. QED BY <1>1, <1>2, <1>3, <1>4, <1>5, <1>6

\* A registered client starts at the end of the order, with nothing queued.
LEMMA HubRegisterInv ==
  ASSUME HubInv, TypeOK', NEW c \in Clients, HubRegister(c) PROVE HubInv'
<1> USE DEF HubInv, TypeOK, hubVars, pumpVars, HubRegister
<1>1. NoPanic'
  BY DEF NoPanic, Lifecycle, Untouched
<1>2. Contiguous'
  <2>1. wrote[c] = <<>> /\ frame[c] = <<>> /\ send[c] = <<>>
    BY DEF Lifecycle, Untouched
  <2>2. Stream(join'[c], <<>>, <<>>, <<>>)
    BY DEF Stream
  <2>3. \A d \in Clients \ {c} : join'[d] = join[d]
    OBVIOUS
  <2>. QED BY <2>1, <2>2, <2>3 DEF Contiguous
<1>3. UpToDate'
  BY DEF UpToDate, LastQueued, Given, NoPanic, Lifecycle, Untouched
<1>4. DrainNeverBlocks'
  BY DEF DrainNeverBlocks
<1>5. CloseAfterBacklog'
  BY DEF CloseAfterBacklog, Given, Lifecycle, NoPanic, Untouched
<1>6. Lifecycle'
  BY DEF Lifecycle, Untouched, LastQueued, Given, NoPanic, UpToDate
<1>. QED BY <1>1, <1>2, <1>3, <1>4, <1>5, <1>6

\* A new message puts every registered client one message behind.
LEMMA HubBroadcastInv ==
  ASSUME HubInv, TypeOK', NEW c \in Clients, HubBroadcast(c) PROVE HubInv'
<1> USE DEF HubInv, TypeOK, hubVars, pumpVars, HubBroadcast
<1>1. NoPanic'
  BY DEF NoPanic
<1>2. Contiguous'
  BY DEF Contiguous, Stream
<1>3. UpToDate'
  BY DEF UpToDate, LastQueued, Given, NoPanic, Lifecycle, Untouched
<1>4. DrainNeverBlocks'
  BY DEF DrainNeverBlocks
<1>5. CloseAfterBacklog'
  BY DEF CloseAfterBacklog, Given, Lifecycle, NoPanic, Untouched
<1>6. Lifecycle'
  BY DEF Lifecycle, Untouched, LastQueued, Given, NoPanic, UpToDate
<1>. QED BY <1>1, <1>2, <1>3, <1>4, <1>5, <1>6

\* An evicted client leaves with a full buffer.
LEMMA HubEvictInv ==
  ASSUME HubInv, TypeOK', NEW c \in Clients, HubEvict(c) PROVE HubInv'
<1> USE DEF HubInv, TypeOK, hubVars, pumpVars, HubEvict
<1>1. NoPanic'
  BY DEF NoPanic
<1>2. Contiguous'
  BY DEF Contiguous, Stream
<1>3. UpToDate'
  BY DEF UpToDate, LastQueued, Given, NoPanic, Lifecycle, Untouched
<1>4. DrainNeverBlocks'
  BY DEF DrainNeverBlocks
<1>5. CloseAfterBacklog'
  BY DEF CloseAfterBacklog, Given, Lifecycle, NoPanic, Untouched
<1>6. Lifecycle'
  <2>1. ASSUME NEW d \in Clients
        PROVE  closed'[d] => Given(d) >= BufSize
    BY BufSizeAssumption DEF Lifecycle, Given
  <2>. QED BY <2>1 DEF Lifecycle, Untouched, LastQueued, Given, NoPanic
<1>. QED BY <1>1, <1>2, <1>3, <1>4, <1>5, <1>6

\* The queued messages are counted, or the pump ends with its frame.
LEMMA NextWriterInv ==
  ASSUME HubInv, TypeOK', NEW c \in Clients, NextWriter(c) PROVE HubInv'
<1> USE DEF HubInv, TypeOK, hubVars, pumpVars, NextWriter
<1>1. NoPanic'
  BY DEF NoPanic
<1>2. Contiguous'
  BY DEF Contiguous, Stream
<1>3. UpToDate'
  BY DEF UpToDate, LastQueued, Given, NoPanic, Lifecycle, Untouched
<1>4. DrainNeverBlocks'
  BY DEF DrainNeverBlocks
<1>5. CloseAfterBacklog'
  BY DEF CloseAfterBacklog, Given, Lifecycle, NoPanic, Untouched
<1>6. Lifecycle'
  <2>1. writer'[c] \in {"done", "draining"} /\ writer[c] = "taken"
    OBVIOUS
  <2>2. \A d \in Clients \ {c} : writer'[d] = writer[d]
    OBVIOUS
  <2>3. LastQueued(c)' = LastQueued(c)
    BY DEF LastQueued, Given
  <2>. QED BY <2>1, <2>2 DEF Lifecycle, Untouched, LastQueued, Given
<1>. QED BY <1>1, <1>2, <1>3, <1>4, <1>5, <1>6

\* The close frame follows the last frame.
LEMMA WriterClosedInv ==
  ASSUME HubInv, TypeOK', NEW c \in Clients, WriterClosed(c) PROVE HubInv'
<1> USE DEF HubInv, TypeOK, hubVars, pumpVars, WriterClosed
<1>1. NoPanic'
  BY DEF NoPanic
<1>2. Contiguous'
  BY DEF Contiguous, Stream
<1>3. UpToDate'
  BY DEF UpToDate, LastQueued, Given, NoPanic, Lifecycle, Untouched
<1>4. DrainNeverBlocks'
  BY DEF DrainNeverBlocks
<1>5. CloseAfterBacklog'
  BY DEF CloseAfterBacklog, Given, Lifecycle, NoPanic, Untouched
<1>6. Lifecycle'
  BY DEF Lifecycle, Untouched, LastQueued, Given, NoPanic, UpToDate
<1>. QED BY <1>1, <1>2, <1>3, <1>4, <1>5, <1>6

\* The hub queues the message for one client.
LEMMA HubSendInv ==
  ASSUME HubInv, TypeOK', NEW c \in Clients, HubSend(c) PROVE HubInv'
<1>h. /\ NoPanic /\ Contiguous /\ UpToDate /\ DrainNeverBlocks
      /\ CloseAfterBacklog /\ Lifecycle
  BY DEF HubInv
<1>y. /\ send \in [Clients -> Seq(Nat)] /\ frame \in [Clients -> Seq(Nat)]
      /\ wrote \in [Clients -> Seq(Nat)] /\ join \in [Clients -> Nat]
      /\ writer \in [Clients -> {"none", "select", "taken", "draining", "done"}]
      /\ n \in [Clients -> Nat] /\ clients \subseteq Clients
      /\ pending \subseteq clients /\ Len(log) \in Nat
  BY DEF HubInv, TypeOK
<1>t. /\ join[c] \in Nat /\ wrote[c] \in Seq(Nat) /\ frame[c] \in Seq(Nat)
      /\ send[c] \in Seq(Nat) /\ Stream(join[c], wrote[c], frame[c], send[c])
  BY <1>h, <1>y DEF Contiguous
<1>l. /\ Len(wrote[c]) \in Nat /\ Len(frame[c]) \in Nat /\ Len(send[c]) \in Nat
      /\ join[c] \in Nat /\ Given(c) \in Nat /\ LastQueued(c) \in Nat
  BY <1>t, <1>y DEF LastQueued, Given
<1>a. c \in clients /\ ~closed[c] /\ Len(log) = LastQueued(c) + 1
  BY <1>h, <1>y, <1>l DEF NoPanic, UpToDate, HubSend
<1>s. /\ send'[c] = Append(send[c], Len(log)) /\ Len(send'[c]) = Len(send[c]) + 1
      /\ Stream(join[c], wrote[c], frame[c], send'[c])
  <2>1. Len(log) \in Nat /\ send'[c] = Append(send[c], Len(log))
    BY <1>h, <1>y DEF HubSend
  <2>2. Len(log) = join[c] + (Len(wrote[c]) + Len(frame[c])) + Len(send[c]) + 1
    BY <1>a, <1>y DEF LastQueued, Given
  <2>3. /\ Stream(join[c], wrote[c], frame[c], Append(send[c], Len(log)))
        /\ Len(Append(send[c], Len(log))) = Len(send[c]) + 1
    BY <1>t, <1>y, <2>2, StreamQueue
  <2>. QED BY <2>1, <2>3
<1>o. /\ \A d \in Clients \ {c} : send'[d] = send[d]
      /\ pending' = pending \ {c} /\ crashed' = FALSE
      /\ UNCHANGED <<clients, log, join, serve, reader, writer, n, frame, wrote,
                     closeSent, closed>>
  BY <1>a, <1>h, <1>y DEF HubSend, pumpVars
<1>q. Len(send'[c]) = Len(send[c]) + 1 /\ wrote' = wrote /\ frame' = frame /\ join' = join
  BY <1>s, <1>o
<1>k. LastQueued(c)' = Len(log)
  <2>1. Given(c)' = Given(c) + 1
    <3>1. Given(c)' = Len(wrote[c]) + Len(frame[c]) + (Len(send[c]) + 1)
      BY <1>q, Zenon DEF Given
    <3>2. Len(wrote[c]) + Len(frame[c]) + (Len(send[c]) + 1) = Given(c) + 1
      BY <1>y DEF Given
    <3>. QED BY <3>1, <3>2
  <2>2. LastQueued(c)' = LastQueued(c) + 1
    BY <2>1, <1>l, <1>q, SMTT(30) DEF LastQueued
  <2>. QED BY <2>2, <1>a
<1>m. \A d \in Clients \ {c} : LastQueued(d)' = LastQueued(d) /\ Given(d)' = Given(d)
  BY <1>o DEF LastQueued, Given
<1>1. NoPanic'
  BY <1>o, <1>h DEF NoPanic
<1>2. Contiguous'
  BY <1>s, <1>o, <1>h DEF Contiguous
<1>3. UpToDate'
  BY <1>a, <1>k, <1>m, <1>o, <1>h, <1>y, SMTT(30) DEF UpToDate
<1>4. DrainNeverBlocks'
  <2>1. n[c] \in Nat /\ (n[c] <= Len(send[c]) => n[c] <= Len(send'[c]))
    BY <1>l, <1>y, <1>q
  <2>. QED BY <2>1, <1>o, <1>h DEF DrainNeverBlocks
<1>5. CloseAfterBacklog'
  BY <1>a, <1>o, <1>h DEF CloseAfterBacklog
<1>6. Lifecycle'
  <2>1. serve[c] \in {"registered", "served"} /\ LastQueued(c)' <= Len(log)'
    BY <1>a, <1>k, <1>o, <1>h, <1>y DEF Lifecycle, Untouched, TypeOK
  <2>. QED BY <2>1, <1>a, <1>m, <1>o, <1>h DEF Lifecycle, Untouched
<1>. QED BY <1>1, <1>2, <1>3, <1>4, <1>5, <1>6 DEF HubInv

\* writePump takes the message that starts a frame.
LEMMA WriterTakeInv ==
  ASSUME HubInv, TypeOK', NEW c \in Clients, WriterTake(c) PROVE HubInv'
<1>h. /\ NoPanic /\ Contiguous /\ UpToDate /\ DrainNeverBlocks
      /\ CloseAfterBacklog /\ Lifecycle
  BY DEF HubInv
<1>y. /\ send \in [Clients -> Seq(Nat)] /\ frame \in [Clients -> Seq(Nat)]
      /\ wrote \in [Clients -> Seq(Nat)] /\ join \in [Clients -> Nat]
      /\ writer \in [Clients -> {"none", "select", "taken", "draining", "done"}]
      /\ n \in [Clients -> Nat] /\ clients \subseteq Clients
      /\ pending \subseteq clients /\ Len(log) \in Nat
  BY DEF HubInv, TypeOK
<1>t. /\ join[c] \in Nat /\ wrote[c] \in Seq(Nat) /\ frame[c] \in Seq(Nat)
      /\ send[c] \in Seq(Nat) /\ Stream(join[c], wrote[c], frame[c], send[c])
  BY <1>h, <1>y DEF Contiguous
<1>l. /\ Len(wrote[c]) \in Nat /\ Len(frame[c]) \in Nat /\ Len(send[c]) \in Nat
      /\ join[c] \in Nat /\ Given(c) \in Nat /\ LastQueued(c) \in Nat
  BY <1>t, <1>y DEF LastQueued, Given
<1>a. frame[c] = <<>> /\ Len(frame[c]) = 0 /\ serve[c] = "served" /\ ~closeSent[c]
  BY <1>h DEF Lifecycle, WriterTake
<1>s. /\ Stream(join[c], wrote[c], frame'[c], send'[c])
      /\ frame'[c] # <<>> /\ Len(frame'[c]) = 1 /\ Len(send'[c]) = Len(send[c]) - 1
  <2>1. frame'[c] = <<Head(send[c])>> /\ send'[c] = Tail(send[c]) /\ send[c] # <<>>
    BY <1>h, <1>y DEF WriterTake
  <2>2. Stream(join[c], wrote[c], <<>>, send[c])
    BY <1>t, <1>a
  <2>3. /\ Stream(join[c], wrote[c], <<Head(send[c])>>, Tail(send[c]))
        /\ <<Head(send[c])>> # <<>> /\ Len(<<Head(send[c])>>) = 1
        /\ Len(Tail(send[c])) = Len(send[c]) - 1
    BY <1>t, <2>1, <2>2, StreamTake
  <2>. QED BY <2>1, <2>3
<1>n. wrote' = wrote /\ join' = join /\ Len(frame'[c]) = Len(frame[c]) + 1
  BY <1>a, <1>s DEF WriterTake, hubVars
<1>o. /\ \A d \in Clients \ {c} :
           send'[d] = send[d] /\ frame'[d] = frame[d] /\ writer'[d] = writer[d]
      /\ writer'[c] = "taken"
      /\ UNCHANGED <<hubVars, serve, reader, closed, n, wrote, closeSent>>
  BY <1>h, <1>y DEF WriterTake
<1>q. /\ Len(send'[c]) = Len(send[c]) - 1 /\ Len(frame'[c]) = Len(frame[c]) + 1
      /\ wrote' = wrote /\ join' = join
  BY <1>s, <1>n
<1>k. Given(c)' = Given(c)
  <2>1. Given(c)' = Len(wrote[c]) + (Len(frame[c]) + 1) + (Len(send[c]) - 1)
    BY <1>q, Zenon DEF Given
  <2>2. Len(wrote[c]) + (Len(frame[c]) + 1) + (Len(send[c]) - 1) = Given(c)
    BY <1>y DEF Given
  <2>. QED BY <2>1, <2>2
<1>m. \A d \in Clients : Given(d)' = Given(d) /\ LastQueued(d)' = LastQueued(d)
  BY <1>k, <1>q, <1>o DEF Given, LastQueued
<1>1. NoPanic'
  BY <1>n, <1>o, <1>h DEF hubVars, NoPanic
<1>2. Contiguous'
  BY <1>s, <1>n, <1>o, <1>h DEF hubVars, Contiguous
<1>3. UpToDate'
  BY <1>m, <1>n, <1>o, <1>h, <1>y DEF hubVars, UpToDate
<1>4. DrainNeverBlocks'
  BY <1>o, <1>h DEF DrainNeverBlocks
<1>5. CloseAfterBacklog'
  BY <1>a, <1>o, <1>h DEF CloseAfterBacklog
<1>6. Lifecycle'
  BY <1>a, <1>s, <1>k, <1>m, <1>o, <1>h DEF Lifecycle, Untouched, hubVars
<1>. QED BY <1>1, <1>2, <1>3, <1>4, <1>5, <1>6 DEF HubInv

\* writePump appends one of the counted messages to the frame.
LEMMA WriterDrainInv ==
  ASSUME HubInv, TypeOK', NEW c \in Clients, WriterDrain(c) PROVE HubInv'
<1>h. /\ NoPanic /\ Contiguous /\ UpToDate /\ DrainNeverBlocks
      /\ CloseAfterBacklog /\ Lifecycle
  BY DEF HubInv
<1>y. /\ send \in [Clients -> Seq(Nat)] /\ frame \in [Clients -> Seq(Nat)]
      /\ wrote \in [Clients -> Seq(Nat)] /\ join \in [Clients -> Nat]
      /\ writer \in [Clients -> {"none", "select", "taken", "draining", "done"}]
      /\ n \in [Clients -> Nat] /\ clients \subseteq Clients
      /\ pending \subseteq clients /\ Len(log) \in Nat
  BY DEF HubInv, TypeOK
<1>t. /\ join[c] \in Nat /\ wrote[c] \in Seq(Nat) /\ frame[c] \in Seq(Nat)
      /\ send[c] \in Seq(Nat) /\ Stream(join[c], wrote[c], frame[c], send[c])
  BY <1>h, <1>y DEF Contiguous
<1>l. /\ Len(wrote[c]) \in Nat /\ Len(frame[c]) \in Nat /\ Len(send[c]) \in Nat
      /\ join[c] \in Nat /\ Given(c) \in Nat /\ LastQueued(c) \in Nat
  BY <1>t, <1>y DEF LastQueued, Given
<1>a. serve[c] = "served" /\ ~closeSent[c] /\ writer[c] = "draining"
  BY <1>h DEF Lifecycle, WriterDrain
<1>s. /\ Stream(join[c], wrote[c], frame'[c], send'[c])
      /\ frame'[c] # <<>> /\ Len(frame'[c]) = Len(frame[c]) + 1
      /\ Len(send'[c]) = Len(send[c]) - 1
  <2>1. send[c] # <<>>
    BY <1>h, <1>y DEF DrainNeverBlocks, WriterDrain
  <2>2. frame'[c] = Append(frame[c], Head(send[c])) /\ send'[c] = Tail(send[c])
    BY <2>1, <1>h, <1>y DEF WriterDrain
  <2>3. /\ Stream(join[c], wrote[c], Append(frame[c], Head(send[c])), Tail(send[c]))
        /\ Append(frame[c], Head(send[c])) # <<>>
        /\ Len(Append(frame[c], Head(send[c]))) = Len(frame[c]) + 1
        /\ Len(Tail(send[c])) = Len(send[c]) - 1
    BY <1>t, <2>1, StreamDrain
  <2>. QED BY <2>2, <2>3
<1>n. wrote' = wrote /\ join' = join /\ n'[c] = n[c] - 1 /\ n[c] <= Len(send[c])
  BY <1>h, <1>y DEF WriterDrain, hubVars, DrainNeverBlocks
<1>o. /\ \A d \in Clients \ {c} :
           send'[d] = send[d] /\ frame'[d] = frame[d] /\ n'[d] = n[d]
      /\ UNCHANGED <<hubVars, serve, reader, writer, closed, wrote, closeSent>>
  BY <1>h, <1>y DEF WriterDrain
<1>q. /\ Len(send'[c]) = Len(send[c]) - 1 /\ Len(frame'[c]) = Len(frame[c]) + 1
      /\ wrote' = wrote /\ join' = join
  BY <1>s, <1>n
<1>k. Given(c)' = Given(c)
  <2>1. Given(c)' = Len(wrote[c]) + (Len(frame[c]) + 1) + (Len(send[c]) - 1)
    BY <1>q, Zenon DEF Given
  <2>2. Len(wrote[c]) + (Len(frame[c]) + 1) + (Len(send[c]) - 1) = Given(c)
    BY <1>y DEF Given
  <2>. QED BY <2>1, <2>2
<1>m. \A d \in Clients : Given(d)' = Given(d) /\ LastQueued(d)' = LastQueued(d)
  BY <1>k, <1>q, <1>o DEF Given, LastQueued
<1>1. NoPanic'
  BY <1>n, <1>o, <1>h DEF hubVars, NoPanic
<1>2. Contiguous'
  BY <1>s, <1>n, <1>o, <1>h DEF hubVars, Contiguous
<1>3. UpToDate'
  BY <1>m, <1>n, <1>o, <1>h, <1>y DEF hubVars, UpToDate
<1>4. DrainNeverBlocks'
  <2>1. n[c] \in Nat
    BY <1>h, <1>y
  <2>2. n'[c] <= Len(send'[c])
    BY <2>1, <1>l, <1>n, <1>s
  <2>. QED BY <2>2, <1>o DEF DrainNeverBlocks, HubInv
<1>5. CloseAfterBacklog'
  BY <1>a, <1>o, <1>h DEF CloseAfterBacklog
<1>6. Lifecycle'
  BY <1>a, <1>s, <1>k, <1>m, <1>o, <1>h DEF Lifecycle, Untouched, hubVars
<1>. QED BY <1>1, <1>2, <1>3, <1>4, <1>5, <1>6 DEF HubInv

\* The frame reaches the connection or is lost with its pump.
LEMMA CloseFrameInv ==
  ASSUME HubInv, TypeOK', NEW c \in Clients, CloseFrame(c) PROVE HubInv'
<1>h. /\ NoPanic /\ Contiguous /\ UpToDate /\ DrainNeverBlocks
      /\ CloseAfterBacklog /\ Lifecycle
  BY DEF HubInv
<1>y. /\ send \in [Clients -> Seq(Nat)] /\ frame \in [Clients -> Seq(Nat)]
      /\ wrote \in [Clients -> Seq(Nat)] /\ join \in [Clients -> Nat]
      /\ writer \in [Clients -> {"none", "select", "taken", "draining", "done"}]
      /\ n \in [Clients -> Nat] /\ clients \subseteq Clients
      /\ pending \subseteq clients /\ Len(log) \in Nat
  BY DEF HubInv, TypeOK
<1>t. /\ join[c] \in Nat /\ wrote[c] \in Seq(Nat) /\ frame[c] \in Seq(Nat)
      /\ send[c] \in Seq(Nat) /\ Stream(join[c], wrote[c], frame[c], send[c])
  BY <1>h, <1>y DEF Contiguous
<1>l. /\ Len(wrote[c]) \in Nat /\ Len(frame[c]) \in Nat /\ Len(send[c]) \in Nat
      /\ join[c] \in Nat /\ Given(c) \in Nat /\ LastQueued(c) \in Nat
  BY <1>t, <1>y DEF LastQueued, Given
<1>a. serve[c] = "served" /\ ~closeSent[c]
  BY <1>h DEF Lifecycle, CloseFrame
<1>s. /\ Stream(join[c], wrote'[c], frame'[c], send[c])
      /\ Len(wrote'[c]) + Len(frame'[c]) = Len(wrote[c]) + Len(frame[c])
      /\ Len(wrote'[c]) \in Nat /\ Len(frame'[c]) \in Nat
      /\ writer'[c] = "select" => frame'[c] = <<>>
  <2>1. CASE UNCHANGED <<wrote, frame>> /\ writer' = [writer EXCEPT ![c] = "done"]
    <3>1. wrote'[c] = wrote[c] /\ frame'[c] = frame[c] /\ writer'[c] = "done"
      BY <2>1, <1>h, <1>y
    <3>. QED BY <3>1, <1>t, <1>l
  <2>2. CASE /\ wrote' = [wrote EXCEPT ![c] = @ \o frame[c]]
             /\ frame' = [frame EXCEPT ![c] = <<>>]
    <3>1. wrote'[c] = wrote[c] \o frame[c] /\ frame'[c] = <<>>
      BY <2>2, <1>h, <1>y
    <3>2. Len(frame'[c]) = 0
      BY <3>1
    <3>3. /\ Stream(join[c], wrote[c] \o frame[c], <<>>, send[c])
          /\ Len(wrote[c] \o frame[c]) = Len(wrote[c]) + Len(frame[c])
      BY <1>t, StreamFlush
    <3>4. Stream(join[c], wrote'[c], frame'[c], send[c])
      BY <3>1, <3>3
    <3>5. Len(wrote'[c]) = Len(wrote[c]) + Len(frame[c]) /\ Len(frame'[c]) = 0
      BY <3>1, <3>2, <3>3
    <3>6. /\ (Len(wrote[c]) + Len(frame[c])) + 0 = Len(wrote[c]) + Len(frame[c])
          /\ Len(wrote[c]) + Len(frame[c]) \in Nat
      BY <1>y
    <3>. QED BY <3>1, <3>4, <3>5, <3>6
  <2>. QED BY <2>1, <2>2 DEF CloseFrame
<1>n. send' = send /\ join' = join
  BY DEF CloseFrame, hubVars
<1>o. /\ \A d \in Clients \ {c} : 
           wrote'[d] = wrote[d] /\ frame'[d] = frame[d] /\ writer'[d] = writer[d]
      /\ writer'[c] \in {"select", "done"}
      /\ UNCHANGED <<hubVars, serve, reader, send, closed, n, closeSent>>
  BY <1>h, <1>y DEF CloseFrame
<1>q. /\ Len(wrote'[c]) + Len(frame'[c]) = Len(wrote[c]) + Len(frame[c])
      /\ Len(wrote'[c]) \in Nat /\ Len(frame'[c]) \in Nat
      /\ send' = send /\ join' = join
  BY <1>s, <1>n
<1>k. Given(c)' = Given(c)
  <2>1. Given(c)' = (Len(wrote[c]) + Len(frame[c])) + Len(send[c])
    BY <1>q, Zenon DEF Given
  <2>2. (Len(wrote[c]) + Len(frame[c])) + Len(send[c]) = Given(c)
    BY <1>y DEF Given
  <2>. QED BY <2>1, <2>2
<1>m. \A d \in Clients : Given(d)' = Given(d) /\ LastQueued(d)' = LastQueued(d)
  BY <1>k, <1>q, <1>o DEF Given, LastQueued
<1>1. NoPanic'
  BY <1>n, <1>o, <1>h DEF hubVars, NoPanic
<1>2. Contiguous'
  BY <1>s, <1>n, <1>o, <1>h DEF hubVars, Contiguous
<1>3. UpToDate'
  BY <1>m, <1>n, <1>o, <1>h, <1>y DEF hubVars, UpToDate
<1>4. DrainNeverBlocks'
  BY <1>o, <1>h DEF DrainNeverBlocks
<1>5. CloseAfterBacklog'
  BY <1>a, <1>o, <1>h DEF CloseAfterBacklog
<1>6. Lifecycle'
  BY <1>a, <1>s, <1>k, <1>m, <1>o, <1>h DEF Lifecycle, Untouched, hubVars
<1>. QED BY <1>1, <1>2, <1>3, <1>4, <1>5, <1>6 DEF HubInv

-----------------------------------------------------------------------------

\* Every step preserves the inductive invariant.
LEMMA InvStep == HubInv /\ [Next]_vars => HubInv'
<1> SUFFICES ASSUME HubInv, [Next]_vars PROVE HubInv'
  OBVIOUS
<1>1. TypeOK'
  BY TypeStep DEF HubInv
<1>2. CASE UNCHANGED vars
  BY <1>2 DEF vars, HubInv, TypeOK, NoPanic, Contiguous, UpToDate, LastQueued,
    Given, DrainNeverBlocks, CloseAfterBacklog, Lifecycle, Untouched
<1>3. ASSUME NEW c \in Clients, StartPumps(c) PROVE HubInv'
  BY <1>1, <1>3, StartPumpsInv
<1>4. ASSUME NEW c \in Clients, HubStep(c) PROVE HubInv'
  BY <1>1, <1>4, HubRegisterInv, HubBroadcastInv, HubSendInv, HubEvictInv DEF HubStep
<1>5. ASSUME NEW c \in Clients, WriterStep(c) PROVE HubInv'
  BY <1>1, <1>5, WriterTakeInv, NextWriterInv, WriterDrainInv, CloseFrameInv,
    WriterClosedInv DEF WriterStep
<1>6. ASSUME NEW c \in Clients, EnvStep(c) PROVE HubInv'
  BY <1>1, <1>6, UpgradeInv, ReadMessageInv, ReadFailInv, PingFailInv DEF EnvStep
<1>. QED BY <1>2, <1>3, <1>4, <1>5, <1>6 DEF Next

\* The inductive invariant holds throughout every execution of the hub: the
\* streams are contiguous, nobody registered misses a message, the hub does
\* not panic, the drain loop never blocks, and an evicted peer gets its backlog.
THEOREM HubCorrect == Safety => []HubInv
BY InvInit, InvStep, PTL DEF Safety

\* Every peer is sent a contiguous run of the hub's message order.
THEOREM ContiguousCorrect == Safety => []Contiguous
<1>1. HubInv => Contiguous
  BY DEF HubInv
<1>. QED BY <1>1, HubCorrect, PTL

\* A registered client was given every message since its registration.
THEOREM UpToDateCorrect == Safety => []UpToDate
<1>1. HubInv => UpToDate
  BY DEF HubInv
<1>. QED BY <1>1, HubCorrect, PTL

\* The hub never uses a channel that it closed.
THEOREM NoPanicCorrect == Safety => []NoPanic
<1>1. HubInv => NoPanic
  BY DEF HubInv
<1>. QED BY <1>1, HubCorrect, PTL

\* The inner loop of writePump never blocks and never reads past a close.
THEOREM DrainCorrect == Safety => []DrainNeverBlocks
<1>1. HubInv => DrainNeverBlocks
  BY DEF HubInv
<1>. QED BY <1>1, HubCorrect, PTL

\* The close frame follows the whole backlog of the evicted peer.
THEOREM CloseCorrect == Safety => []CloseAfterBacklog
<1>1. HubInv => CloseAfterBacklog
  BY DEF HubInv
<1>. QED BY <1>1, HubCorrect, PTL

-----------------------------------------------------------------------------

\* The hub implements the ordered broadcast: a rendezvous on "register" is a
\* subscription, a rendezvous on "broadcast" publishes, a frame the connection
\* accepts delivers the next messages of the order, the rest is invisible.
THEOREM HubRefinesBroadcast == Safety => ImplementsBroadcast
<1> DEFINE Subs == {c \in Clients : serve[c] \in {"registered", "served"}}
<1>1. Init => Broadcast!BInit
  BY DEF Init, Broadcast!BInit
<1>2. HubInv /\ [Next]_vars => [Broadcast!BNext]_(Broadcast!bvars)
  <2> SUFFICES ASSUME HubInv, [Next]_vars
               PROVE  [Broadcast!BNext]_(Broadcast!bvars)
    OBVIOUS
  <2>t. TypeOK
    BY DEF HubInv
  <2>1. CASE UNCHANGED vars
    BY <2>1 DEF vars, Broadcast!bvars
  <2>2. ASSUME NEW c \in Clients, HubRegister(c)
        PROVE  Broadcast!Subscribe(c)
    BY <2>2, <2>t DEF HubRegister, pumpVars, TypeOK, Broadcast!Subscribe
  <2>3. ASSUME NEW c \in Clients, HubBroadcast(c)
        PROVE  Broadcast!Publish(c)
    <3>1. serve[c] = "served"
      BY <2>3 DEF HubBroadcast, HubInv, Lifecycle
    <3>. QED BY <2>3, <3>1 DEF HubBroadcast, Broadcast!Publish
  <2>4. ASSUME NEW c \in Clients, CloseFrame(c), wrote' # wrote
        PROVE  \E k \in 1..Len(log) : Broadcast!Deliver(c, k)
    <3>1. /\ serve[c] = "served" /\ frame[c] # <<>>
          /\ wrote' = [wrote EXCEPT ![c] = @ \o frame[c]]
          /\ log' = log /\ join' = join /\ serve' = serve
      BY <2>4 DEF CloseFrame, HubInv, Lifecycle, hubVars
    <3>2. /\ wrote[c] \in Seq(Nat) /\ frame[c] \in Seq(Nat) /\ send[c] \in Seq(Nat)
          /\ join[c] \in Nat /\ Len(log) \in Nat
      BY <2>t DEF TypeOK
    <3>3. /\ Len(frame[c]) \in 1..Len(log)
          /\ join[c] + Len(wrote[c]) + Len(frame[c]) <= Len(log)
      <4>1. LastQueued(c) <= Len(log)
        BY DEF HubInv, Lifecycle
      <4>2. Len(frame[c]) \in Nat \ {0} /\ Len(wrote[c]) \in Nat /\ Len(send[c]) \in Nat
        BY <3>1, <3>2
      <4>3. ASSUME NEW w \in Nat, NEW f \in Nat \ {0}, NEW s \in Nat,
                   join[c] + (w + f + s) <= Len(log)
            PROVE  f \in 1..Len(log) /\ join[c] + w + f <= Len(log)
        BY <4>3, <3>2
      <4>4. join[c] + (Len(wrote[c]) + Len(frame[c]) + Len(send[c])) <= Len(log)
        BY <4>1 DEF LastQueued, Given
      <4>. QED BY <4>2, <4>3, <4>4
    <3>4. frame[c] = [i \in 1..Len(frame[c]) |-> join[c] + Len(wrote[c]) + i]
      <4>1. \A i \in 1..Len(frame[c]) : frame[c][i] = join[c] + Len(wrote[c]) + i
        BY DEF HubInv, Contiguous, Stream
      <4>2. frame[c] = [i \in 1..Len(frame[c]) |-> frame[c][i]]
        BY <3>2
      <4>. QED BY <4>1, <4>2
    <3>5. Broadcast!Deliver(c, Len(frame[c]))
      <4>1. wrote' = [wrote EXCEPT ![c] = wrote[c] \o
                        [i \in 1..Len(frame[c]) |-> join[c] + Len(wrote[c]) + i]]
        BY <3>1, <3>4
      <4>. QED BY <3>1, <3>3, <4>1 DEF Broadcast!Deliver
    <3>. QED BY <3>3, <3>5
  <2>5. ASSUME NEW c \in Clients, StartPumps(c) PROVE UNCHANGED <<log, Subs, join, wrote>>
    BY <2>5, <2>t DEF StartPumps, hubVars, TypeOK
  <2>6. ASSUME NEW c \in Clients, EnvStep(c) PROVE UNCHANGED <<log, Subs, join, wrote>>
    <3>1. log' = log /\ join' = join /\ wrote' = wrote
      BY <2>6 DEF EnvStep, Upgrade, ReadMessage, ReadFail, PingFail, hubVars, pumpVars
    <3>2. Subs' = Subs
      <4>1. CASE Upgrade(c)
        BY <4>1, <2>t DEF Upgrade, TypeOK
      <4>2. CASE serve' = serve
        BY <4>2
      <4>. QED BY <2>6, <4>1, <4>2 DEF EnvStep, ReadMessage, ReadFail, PingFail
    <3>. QED BY <3>1, <3>2
  <2>7. ASSUME NEW c \in Clients, HubSend(c) \/ HubEvict(c)
        PROVE  UNCHANGED <<log, Subs, join, wrote>>
    BY <2>7 DEF HubSend, HubEvict, pumpVars
  <2>8. ASSUME NEW c \in Clients, WriterStep(c), wrote' = wrote \/ ~CloseFrame(c)
        PROVE  UNCHANGED <<log, Subs, join, wrote>>
    BY <2>8 DEF WriterStep, WriterTake, NextWriter, WriterDrain, CloseFrame,
      WriterClosed, hubVars
  <2>9. UNCHANGED <<log, Subs, join, wrote>> => UNCHANGED Broadcast!bvars
    BY DEF Broadcast!bvars
  <2>10. ASSUME NEW c \in Clients,
                StartPumps(c) \/ HubStep(c) \/ WriterStep(c) \/ EnvStep(c)
         PROVE  [Broadcast!BNext]_(Broadcast!bvars)
    BY <2>2, <2>3, <2>4, <2>5, <2>6, <2>7, <2>8, <2>9, <2>10 DEF HubStep, Broadcast!BNext
  <2>. QED BY <2>1, <2>10 DEF Next
<1>. QED BY <1>1, <1>2, HubCorrect, PTL DEF Safety, ImplementsBroadcast, Broadcast!BSpec

=============================================================================
