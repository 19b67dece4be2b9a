------------------------ MODULE AgentSessionProofs ------------------------
(***************************************************************************)
(* Proofs about AgentSession for every capacity, chunk size, interval and  *)
(* clock skew: the buffer is the run of the newest samples, nothing is     *)
(* lost on a link that holds, and the session implements SampleLog.  The   *)
(* last two need to know what may be on a wire: nothing that the agent     *)
(* still keeps, and nothing twice.                                         *)
(***************************************************************************)
EXTENDS AgentSession, SequenceTheorems, FiniteSetTheorems, NaturalsInduction,
        WellFoundedInduction, TLAPS

Agent == [pc : AgentPc, conn : Conns \cup {None}, tick : Nat, deadline : Nat,
          backoff : 1..MaxBackoff]

AgentTypeOK ==
    /\ now \in Nat
    /\ samples \in Seq(Int)
    /\ buffer \in Seq(Nat)
    /\ agent \in Agent

\* The buffer is the run of the newest samples when n have been taken.
IsNewest(buf, n) ==
    /\ Len(buf) =< Capacity
    /\ \A i \in 1..Len(buf) : buf[i] = n - Len(buf) + i

BufferInv == AgentTypeOK /\ BufferIsNewest

-----------------------------------------------------------------------------
\* What the proofs use of the constants.
LEMMA ConstantTypes ==
    /\ Capacity \in Nat \ {0} /\ Interval \in Nat /\ Skew \in Int
    /\ MaxBackoff \in Nat \ {0} /\ 1 \in 1..MaxBackoff
BY SessionAssumption DEF SessionAssumption

\* Pushing the next sample keeps the run of the newest (push_buffered).
LEMMA BufferedIsNewest ==
    ASSUME NEW buf \in Seq(Nat), NEW n \in Nat, IsNewest(buf, n)
    PROVE  Buffered(buf, n + 1) \in Seq(Nat) /\ IsNewest(Buffered(buf, n + 1), n + 1)
<1> DEFINE res == Buffered(buf, n + 1)
<1>1. Capacity \in Nat \ {0} /\ Len(buf) \in Nat /\ Len(buf) =< Capacity
  BY ConstantTypes DEF IsNewest
<1>2. \A i \in 1..Len(buf) : buf[i] = n - Len(buf) + i
  BY DEF IsNewest
<1>3. CASE Len(buf) >= Capacity
  <2>1. Len(buf) = Capacity /\ buf # <<>>
    BY <1>1, <1>3
  <2>2. /\ Tail(buf) \in Seq(Nat)
        /\ Len(Tail(buf)) = Len(buf) - 1
        /\ \A i \in 1..Len(Tail(buf)) : Tail(buf)[i] = buf[i + 1]
    BY <2>1
  <2>3. res = Append(Tail(buf), n + 1)
    BY <1>3 DEF Buffered
  <2>4. /\ res \in Seq(Nat)
        /\ Len(res) = Len(buf)
        /\ \A i \in 1..Len(buf) : res[i] = IF i = Len(buf) THEN n + 1 ELSE buf[i + 1]
    <3>1. /\ Append(Tail(buf), n + 1) \in Seq(Nat)
          /\ Len(Append(Tail(buf), n + 1)) = Len(buf)
          /\ \A i \in 1..Len(buf) :
                Append(Tail(buf), n + 1)[i] = IF i = Len(buf) THEN n + 1 ELSE buf[i + 1]
      BY <2>1, <2>2
    <3> HIDE DEF res
    <3> QED
      BY <2>3, <3>1, Zenon
  <2> HIDE DEF res
  <2>5. ASSUME NEW i \in 1..Len(buf)
        PROVE  res[i] = n + 1 - Len(buf) + i
    <3>1. CASE i = Len(buf)
      BY <2>4, <3>1, <1>1
    <3>2. CASE i # Len(buf)
      <4>1. i + 1 \in 1..Len(buf)
        BY <1>1, <3>2
      <4>2. buf[i + 1] = n - Len(buf) + (i + 1)
        BY <1>2, <4>1
      <4> QED
        BY <2>4, <3>2, <4>2, <1>1
    <3> QED
      BY <3>1, <3>2
  <2>6. IsNewest(res, n + 1)
    BY <1>1, <2>4, <2>5 DEF IsNewest
  <2> QED
    BY <2>4, <2>6 DEF res
<1>4. CASE ~(Len(buf) >= Capacity)
  <2>1. res = Append(buf, n + 1)
    BY <1>4 DEF Buffered
  <2>2. /\ res \in Seq(Nat)
        /\ Len(res) = Len(buf) + 1
        /\ \A i \in 1..(Len(buf) + 1) : res[i] = IF i = Len(buf) + 1 THEN n + 1 ELSE buf[i]
    <3>1. /\ Append(buf, n + 1) \in Seq(Nat)
          /\ Len(Append(buf, n + 1)) = Len(buf) + 1
          /\ \A i \in 1..(Len(buf) + 1) :
                Append(buf, n + 1)[i] = IF i = Len(buf) + 1 THEN n + 1 ELSE buf[i]
      OBVIOUS
    <3> HIDE DEF res
    <3> QED
      BY <2>1, <3>1, Zenon
  <2> HIDE DEF res
  <2>3. ASSUME NEW i \in 1..(Len(buf) + 1)
        PROVE  res[i] = n + 1 - (Len(buf) + 1) + i
    <3>1. CASE i = Len(buf) + 1
      BY <2>2, <3>1, <1>1
    <3>2. CASE i # Len(buf) + 1
      <4>1. i \in 1..Len(buf)
        BY <1>1, <3>2
      <4>2. buf[i] = n - Len(buf) + i
        BY <1>2, <4>1
      <4> QED
        BY <2>2, <3>2, <4>2, <1>1
    <3> QED
      BY <3>1, <3>2
  <2>4. Len(res) =< Capacity
    BY <1>1, <1>4, <2>2
  <2>5. IsNewest(res, n + 1)
    BY <2>2, <2>3, <2>4 DEF IsNewest
  <2> QED
    BY <2>2, <2>5 DEF res
<1> QED
  BY <1>3, <1>4

\* Sending the oldest part leaves the run of the newest (flush_backfill).
LEMMA RestIsNewest ==
    ASSUME NEW buf \in Seq(Nat), NEW n \in Nat, IsNewest(buf, n), NEW k \in 1..Len(buf)
    PROVE  SubSeq(buf, k + 1, Len(buf)) \in Seq(Nat)
           /\ IsNewest(SubSeq(buf, k + 1, Len(buf)), n)
<1> DEFINE rest == SubSeq(buf, k + 1, Len(buf))
<1>1. Capacity \in Nat /\ Len(buf) \in Nat /\ k \in Nat /\ Len(buf) =< Capacity
  BY ConstantTypes DEF IsNewest
<1>2. \A i \in 1..Len(buf) : buf[i] = n - Len(buf) + i
  BY DEF IsNewest
<1>3. /\ rest \in Seq(Nat)
      /\ Len(rest) = Len(buf) - k
      /\ \A i \in 1..(Len(buf) - k) : rest[i] = buf[k + i]
  BY <1>1
<1> HIDE DEF rest
<1>4. ASSUME NEW i \in 1..(Len(buf) - k)
      PROVE  rest[i] = n - (Len(buf) - k) + i
  <2>1. k + i \in 1..Len(buf)
    BY <1>1
  <2>2. buf[k + i] = n - Len(buf) + (k + i)
    BY <1>2, <2>1
  <2> QED
    BY <1>1, <1>3, <2>2
<1>5. IsNewest(rest, n)
  BY <1>1, <1>3, <1>4 DEF IsNewest
<1> QED
  BY <1>3, <1>5 DEF rest

\* A session that ends leaves an agent that waits.
LEMMA WaitIsTyped ==
    ASSUME now \in Nat, NEW b \in 1..MaxBackoff, EnterWait(b)
    PROVE  agent' \in Agent /\ agent'.pc = "wait"
BY ConstantTypes DEF EnterWait, Agent, AgentPc

\* Whatever the network and the server do, the agent's buffer and samples stay.
LEMMA ServerKeepsAgent ==
    ASSUME BufferInv, NEW c \in Conns, Break(c) \/ Serve(c)
    PROVE  BufferInv'
<1>1. UNCHANGED <<now, samples, buffer, agent>>
  BY DEF Break, Serve, Receive, PeerGone, agentVars
<1> QED
  BY <1>1 DEF BufferInv, AgentTypeOK, BufferIsNewest

\* The agent starts with nothing taken and nothing kept.
LEMMA BufferInvInit == Init => BufferInv
BY ConstantTypes
DEF Init, BufferInv, AgentTypeOK, BufferIsNewest, FirstDial, Agent, AgentPc

\* Every step keeps the buffer's run: one case for each action of the agent.
LEMMA BufferInvStep == BufferInv /\ [Next]_vars => BufferInv'
<1> SUFFICES ASSUME BufferInv, [Next]_vars
             PROVE  BufferInv'
  OBVIOUS
<1> USE DEF BufferInv, AgentTypeOK
<1>types. agent.backoff \in 1..MaxBackoff /\ Len(samples) \in Nat
  BY DEF Agent
<1>newest. IsNewest(buffer, Len(samples))
  BY DEF BufferIsNewest, IsNewest
<1>due. now + Interval \in Nat
  BY ConstantTypes
<1>1. ASSUME NEW c \in Conns, Connect(c)
      PROVE  BufferInv'
  BY <1>1 DEF Connect, BufferIsNewest, Agent, AgentPc
<1>2. ASSUME FlushChunk
      PROVE  BufferInv'
  <2>1. UNCHANGED <<now, samples>> /\ agent.pc = "flush"
    BY <1>2 DEF FlushChunk
  <2>2. (agent' = agent \/ (agent' \in Agent /\ agent'.pc = "wait"))
    <3>1. UNCHANGED agent \/ EnterWait(agent.backoff)
      BY <1>2 DEF FlushChunk, SendFails
    <3> QED
      BY ConstantTypes, <1>types, <1>newest, <3>1, WaitIsTyped
  <2>3. \/ UNCHANGED buffer
        \/ \E n \in 1..Len(buffer) : buffer' = SubSeq(buffer, n + 1, Len(buffer))
    BY <1>2 DEF FlushChunk
  <2>4. buffer' \in Seq(Nat) /\ IsNewest(buffer', Len(samples))
    BY ConstantTypes, <1>types, <1>newest, <2>3, RestIsNewest
  <2> QED
    BY <2>1, <2>2, <2>4 DEF IsNewest, BufferIsNewest
<1>3. ASSUME FlushDone
      PROVE  BufferInv'
  BY <1>3 DEF FlushDone, BufferIsNewest, Agent, AgentPc
<1>4. ASSUME Report
      PROVE  BufferInv'
  <2>1. /\ UNCHANGED now
        /\ agent.pc = "live"
        /\ samples' \in Seq(Int)
        /\ Len(samples') = Len(samples) + 1
    BY ConstantTypes, <1>types, <1>newest, <1>4 DEF Report, TakeSample
  <2>2. CASE agent' = [agent EXCEPT !.tick = now + Interval] /\ UNCHANGED buffer
    <3>1. agent' \in Agent /\ agent'.pc = "live"
      BY <1>due, <2>1, <2>2 DEF Agent, AgentPc
    <3>2. buffer = <<>>
      BY <2>1 DEF BufferIsNewest
    <3> QED
      BY ConstantTypes, <2>1, <2>2, <3>1, <3>2 DEF BufferIsNewest
  <2>3. CASE SendFails /\ buffer' = Buffered(buffer, Len(samples) + 1)
    <3>1. agent' \in Agent /\ agent'.pc = "wait"
      BY ConstantTypes, <1>types, <1>newest, <2>3, WaitIsTyped DEF SendFails
    <3>2. buffer' \in Seq(Nat) /\ IsNewest(buffer', Len(samples) + 1)
      BY ConstantTypes, <1>types, <1>newest, <2>3, BufferedIsNewest
    <3> QED
      BY <2>1, <3>1, <3>2 DEF IsNewest, BufferIsNewest
  <2> QED
    BY <1>4, <2>2, <2>3 DEF Report
<1>5. ASSUME WaitSample
      PROVE  BufferInv'
  <2>1. /\ UNCHANGED now
        /\ samples' \in Seq(Int)
        /\ Len(samples') = Len(samples) + 1
    BY ConstantTypes, <1>5 DEF WaitSample, TakeSample
  <2>3. agent' \in Agent /\ agent'.pc = "wait"
    BY <1>due, <1>5 DEF WaitSample, Agent, AgentPc
  <2>2. buffer' \in Seq(Nat) /\ IsNewest(buffer', Len(samples) + 1)
    BY ConstantTypes, <1>types, <1>newest, <1>5, BufferedIsNewest DEF WaitSample
  <2> QED
    BY <2>1, <2>2, <2>3 DEF IsNewest, BufferIsNewest
<1>6. ASSUME ConnectFails \/ SessionLost \/ CloseFrame
      PROVE  BufferInv'
  <2>1. UNCHANGED <<now, samples, buffer>>
    BY <1>6 DEF ConnectFails, SessionLost, CloseFrame
  <2>2. agent' \in Agent /\ agent'.pc = "wait"
    BY ConstantTypes, <1>types, <1>newest, <1>6, WaitIsTyped DEF ConnectFails, SessionLost, CloseFrame
  <2> QED
    BY <2>1, <2>2 DEF BufferIsNewest
<1>7. ASSUME WaitEnds
      PROVE  BufferInv'
  <2>1. Least(2 * agent.backoff, MaxBackoff) \in 1..MaxBackoff
    BY ConstantTypes, <1>types DEF Least
  <2>2. agent' \in Agent /\ agent'.pc = "dial"
    BY <1>7, <2>1 DEF WaitEnds, FirstDial, Agent, AgentPc
  <2> QED
    BY <1>7, <2>2 DEF WaitEnds, BufferIsNewest
<1>8. ASSUME AgentRestarts
      PROVE  BufferInv'
  BY ConstantTypes, <1>types, <1>newest, <1>8 DEF AgentRestarts, FirstDial, BufferIsNewest, Agent, AgentPc
<1>9. ASSUME Tick
      PROVE  BufferInv'
  BY <1>9 DEF Tick, agentVars, BufferIsNewest
<1>10. CASE UNCHANGED vars
  BY <1>10 DEF vars, BufferIsNewest
<1> QED
  BY <1>1, <1>2, <1>3, <1>4, <1>5, <1>6, <1>7, <1>8, <1>9, <1>10, ServerKeepsAgent
  DEF Next, AgentStep

-----------------------------------------------------------------------------
(* What is on its way.                                                     *)

Message == [kind : {"hello", "metrics", "backfill"}, points : Seq(Nat), at : Nat]

\* Hello carries no sample, a report one, and a back-fill no more than a chunk.
Shaped(m) ==
    /\ m.kind = "hello" => m.points = <<>>
    /\ m.kind = "metrics" => Len(m.points) = 1
    /\ m.kind = "backfill" => Len(m.points) =< Chunk

WireTypeOK ==
    /\ link \in [Conns -> BOOLEAN]
    /\ wire \in [Conns -> Seq(Message)]
    /\ \A c \in Conns : \A i \in DOMAIN wire[c] : Shaped(wire[c][i])

\* The one link that may be up is that of the agent's session.
LinkInv ==
    /\ \A c \in Conns : link[c] => agent.conn = c
    /\ agent.conn = None <=> agent.pc \in {"dial", "wait"}

\* What is on its way is older than what the agent keeps, and is so once.
WireInv ==
    /\ \A c \in Conns : \A i \in DOMAIN wire[c] :
          \A s \in Points(wire[c][i]) : s =< Len(samples) - Len(buffer)
    /\ \A c, d \in Conns : \A i \in DOMAIN wire[c], k \in DOMAIN wire[d] :
          <<c, i>> # <<d, k>> => Points(wire[c][i]) \cap Points(wire[d][k]) = {}

SessionInv == BufferInv /\ WireTypeOK /\ LinkInv /\ WireInv

\* The step puts no sample on its way: a wire loses messages in front or at its
\* end, or has a new one without samples.
NoNewPoints ==
    /\ wire' \in [Conns -> Seq(Message)]
    /\ \A c \in Conns : \E k \in Nat : \A i \in DOMAIN wire'[c] :
          \/ Points(wire'[c][i]) = {} /\ Shaped(wire'[c][i])
          \/ i + k \in DOMAIN wire[c] /\ wire'[c][i] = wire[c][i + k]

\* The step puts message m at the end of the wire of c.
Appends(c, m) == wire' = [wire EXCEPT ![c] = Append(@, m)]

\* Wires that lose messages keep what is known of them, while nothing goes back
\* into the buffer.
LEMMA LessOnWire ==
    ASSUME SessionInv, NoNewPoints, link' \in [Conns -> BOOLEAN],
           BufferInv', Len(samples) - Len(buffer) =< (Len(samples) - Len(buffer))'
    PROVE  WireTypeOK' /\ WireInv' /\ \A c \in Conns : OnWire(c)' \subseteq OnWire(c)
<1> USE DEF SessionInv
<1>1. WireTypeOK'
  BY DEF NoNewPoints, WireTypeOK
<1>2. ASSUME NEW c \in Conns, NEW i \in DOMAIN wire'[c], NEW s \in Points(wire'[c][i])
      PROVE  /\ s =< (Len(samples) - Len(buffer))'
             /\ \E j \in DOMAIN wire[c] : s \in Points(wire[c][j]) /\ wire'[c][i] = wire[c][j]
  <2>1. PICK j \in DOMAIN wire[c] : wire'[c][i] = wire[c][j]
    BY <1>2 DEF NoNewPoints
  <2>2. s =< Len(samples) - Len(buffer)
    BY <1>2, <2>1 DEF WireInv
  <2>3. s \in Nat
    <3>1. wire'[c][i] \in Message
      <4>1. wire'[c] \in Seq(Message)
        BY DEF NoNewPoints
      <4> QED
        BY <4>1, ElementOfSeq, LenProperties
    <3> QED
      BY <1>2, <3>1, ElementOfSeq, LenProperties DEF Points, Message
  <2>4. /\ Len(samples) \in Nat /\ Len(buffer) \in Nat
        /\ Len(samples') \in Nat /\ Len(buffer') \in Nat
    BY DEF BufferInv, AgentTypeOK
  <2> QED
    BY <1>2, <2>1, <2>2, <2>3, <2>4
<1>3. \A c \in Conns : OnWire(c)' \subseteq OnWire(c)
  BY <1>2 DEF OnWire
<1>4. ASSUME NEW c \in Conns, NEW d \in Conns, NEW i \in DOMAIN wire'[c], NEW k \in DOMAIN wire'[d],
             <<c, i>> # <<d, k>>, NEW s \in Points(wire'[c][i]), s \in Points(wire'[d][k])
      PROVE  FALSE
  <2>1. PICK m \in Nat : \A x \in DOMAIN wire'[c] :
            \/ Points(wire'[c][x]) = {}
            \/ x + m \in DOMAIN wire[c] /\ wire'[c][x] = wire[c][x + m]
    BY DEF NoNewPoints
  <2>2. PICK n \in Nat : \A x \in DOMAIN wire'[d] :
            \/ Points(wire'[d][x]) = {}
            \/ x + n \in DOMAIN wire[d] /\ wire'[d][x] = wire[d][x + n]
    BY DEF NoNewPoints
  <2>3. i + m \in DOMAIN wire[c] /\ s \in Points(wire[c][i + m])
    BY <1>4, <2>1
  <2>4. CASE c = d
    <3>1. k + m \in DOMAIN wire[c] /\ s \in Points(wire[c][k + m])
      BY <1>4, <2>1, <2>4
    <3>2. i \in Nat /\ k \in Nat /\ i # k
      <4>1. wire'[c] \in Seq(Message) /\ wire'[d] \in Seq(Message)
        BY DEF NoNewPoints
      <4>2. i \in Nat /\ k \in Nat
        BY <4>1, LenProperties
      <4> QED
        BY <1>4, <2>4, <4>2
    <3>3. i + m # k + m
      BY <3>2
    <3> QED
      BY <2>3, <3>1, <3>3 DEF WireInv
  <2>5. CASE c # d
    <3>1. k + n \in DOMAIN wire[d] /\ s \in Points(wire[d][k + n])
      BY <1>4, <2>2
    <3> QED
      BY <2>3, <2>5, <3>1 DEF WireInv
  <2> QED
    BY <2>4, <2>5
<1>5. WireInv'
  <2>1. \A c \in Conns : \A i \in DOMAIN wire'[c] :
           \A s \in Points(wire'[c][i]) : s =< (Len(samples) - Len(buffer))'
    BY <1>2
  <2>2. \A c, d \in Conns : \A i \in DOMAIN wire'[c], k \in DOMAIN wire'[d] :
           <<c, i>> # <<d, k>> => Points(wire'[c][i]) \cap Points(wire'[d][k]) = {}
    BY <1>4
  <2> QED
    BY <2>1, <2>2 DEF WireInv, Points
<1> QED
  BY <1>1, <1>3, <1>5

Transit == UNION {OnWire(c) : c \in Conns}

\* The messages on a wire, and the samples in them.
LEMMA OnWireTyped ==
  ASSUME WireTypeOK, NEW c \in Conns
  PROVE  /\ wire[c] \in Seq(Message)
         /\ DOMAIN wire[c] = 1..Len(wire[c])
         /\ Len(wire[c]) \in Nat
         /\ \A i \in DOMAIN wire[c] : /\ wire[c][i] \in Message
                                      /\ wire[c][i].points \in Seq(Nat)
                                      /\ Points(wire[c][i]) \subseteq Nat
<1>1. wire[c] \in Seq(Message)
  BY DEF WireTypeOK
<1>2. DOMAIN wire[c] = 1..Len(wire[c]) /\ Len(wire[c]) \in Nat
  BY <1>1, LenProperties
<1>3. ASSUME NEW i \in DOMAIN wire[c]
      PROVE  /\ wire[c][i] \in Message
             /\ wire[c][i].points \in Seq(Nat)
             /\ Points(wire[c][i]) \subseteq Nat
  <2>1. wire[c][i] \in Message
    BY <1>1, <1>2, ElementOfSeq
  <2>2. wire[c][i].points \in Seq(Nat)
    BY <2>1 DEF Message
  <2>3. \A k \in DOMAIN wire[c][i].points : wire[c][i].points[k] \in Nat
    BY <2>2, ElementOfSeq, LenProperties
  <2> QED
    BY <2>1, <2>2, <2>3 DEF Points
<1> QED
  BY <1>1, <1>2, <1>3

\* The server takes the first message of a wire: what it carried is not on its way
\* any more, and nothing else has changed.
LEMMA TakenFromWire ==
  ASSUME SessionInv, NEW c \in Conns, wire[c] # <<>>,
         wire' = [wire EXCEPT ![c] = Tail(@)], UNCHANGED <<samples, buffer, link>>, BufferInv'
  PROVE  /\ WireTypeOK' /\ WireInv'
         /\ OnWire(c) = Points(Head(wire[c])) \cup OnWire(c)'
         /\ \A d \in Conns \ {c} : OnWire(d)' = OnWire(d)
         /\ Points(Head(wire[c])) \cap Transit' = {}
         /\ Transit' \subseteq Transit
         /\ Points(Head(wire[c])) \subseteq Transit
<1> USE DEF SessionInv
<1>1. /\ wire[c] \in Seq(Message)
      /\ DOMAIN wire[c] = 1..Len(wire[c])
      /\ Len(wire[c]) \in Nat \ {0}
  <2>1. wire[c] \in Seq(Message) /\ DOMAIN wire[c] = 1..Len(wire[c])
    BY OnWireTyped
  <2> QED
    BY <2>1, EmptySeq, LenProperties
<1>2. /\ Tail(wire[c]) \in Seq(Message)
      /\ DOMAIN Tail(wire[c]) = 1..(Len(wire[c]) - 1)
      /\ \A i \in 1..(Len(wire[c]) - 1) : Tail(wire[c])[i] = wire[c][i + 1]
      /\ Head(wire[c]) = wire[c][1]
  <2>1. /\ Tail(wire[c]) \in Seq(Message)
        /\ Len(Tail(wire[c])) = Len(wire[c]) - 1
        /\ \A i \in 1..(Len(wire[c]) - 1) : Tail(wire[c])[i] = wire[c][i + 1]
        /\ Head(wire[c]) = wire[c][1]
    BY <1>1, HeadTailProperties
  <2> QED
    BY <2>1, LenProperties
<1>3. /\ wire' \in [Conns -> Seq(Message)]
      /\ wire'[c] = Tail(wire[c])
      /\ \A d \in Conns \ {c} : wire'[d] = wire[d]
  BY <1>2 DEF WireTypeOK
<1>4. NoNewPoints
  <2>1. ASSUME NEW d \in Conns
        PROVE  \E k \in Nat : \A i \in DOMAIN wire'[d] :
                  i + k \in DOMAIN wire[d] /\ wire'[d][i] = wire[d][i + k]
    <3>1. CASE d = c
      <4>1. \A i \in DOMAIN wire'[c] : i + 1 \in DOMAIN wire[c] /\ wire'[c][i] = wire[c][i + 1]
        BY <1>1, <1>2, <1>3
      <4> QED
        BY <3>1, <4>1
    <3>2. CASE d # c
      <4>1. wire'[d] = wire[d] /\ DOMAIN wire[d] = 1..Len(wire[d]) /\ Len(wire[d]) \in Nat
        BY <1>3, <3>2, OnWireTyped
      <4>2. \A i \in 1..Len(wire[d]) : i + 0 = i
        BY <4>1
      <4>3. \A i \in DOMAIN wire'[d] : i + 0 \in DOMAIN wire[d] /\ wire'[d][i] = wire[d][i + 0]
        BY <4>1, <4>2, Zenon
      <4> QED
        BY <4>3
    <3> QED
      BY <3>1, <3>2
  <2> QED
    BY <1>3, <2>1 DEF NoNewPoints
<1>5. /\ WireTypeOK' /\ WireInv'
      /\ \A d \in Conns : OnWire(d)' \subseteq OnWire(d)
  <2>1. link' \in [Conns -> BOOLEAN]
    BY DEF WireTypeOK
  <2>2. Len(samples) - Len(buffer) =< (Len(samples) - Len(buffer))'
    BY DEF BufferInv, AgentTypeOK
  <2> QED
    BY <1>4, <2>1, <2>2, LessOnWire
<1>6. OnWire(c) = Points(Head(wire[c])) \cup OnWire(c)'
  <2>1. \A i \in DOMAIN wire[c] : i = 1 \/ (i - 1 \in DOMAIN wire'[c] /\ wire[c][i] = wire'[c][i - 1])
    BY <1>1, <1>2, <1>3
  <2>2. Points(Head(wire[c])) \subseteq OnWire(c)
    BY <1>1, <1>2 DEF OnWire
  <2>3. ASSUME NEW s \in OnWire(c)
        PROVE  s \in Points(Head(wire[c])) \cup OnWire(c)'
    <3>1. PICK i \in DOMAIN wire[c] : s \in Points(wire[c][i])
      BY <2>3 DEF OnWire
    <3>2. CASE i = 1
      BY <1>2, <3>1, <3>2
    <3>3. CASE i - 1 \in DOMAIN wire'[c] /\ wire[c][i] = wire'[c][i - 1]
      BY <3>1, <3>3 DEF OnWire
    <3> QED
      BY <2>1, <3>2, <3>3
  <2> QED
    BY <1>5, <2>2, <2>3
<1>7. \A d \in Conns \ {c} : OnWire(d)' = OnWire(d)
  BY <1>3 DEF OnWire
<1>8. ASSUME NEW d \in Conns, NEW s \in OnWire(d)', s \in Points(Head(wire[c]))
      PROVE  FALSE
  <2>1. PICK i \in DOMAIN wire'[d] : s \in Points(wire'[d][i])
    BY <1>8 DEF OnWire
  <2>2. PICK j \in DOMAIN wire[d] : wire'[d][i] = wire[d][j] /\ <<c, 1>> # <<d, j>>
    <3>1. CASE d = c
      BY <1>1, <1>2, <1>3, <3>1
    <3>2. CASE d # c
      BY <1>3, <3>2
    <3> QED
      BY <3>1, <3>2
  <2>3. 1 \in DOMAIN wire[c] /\ s \in Points(wire[c][1]) /\ s \in Points(wire[d][j])
    BY <1>1, <1>2, <1>8, <2>1, <2>2
  <2> QED
    BY <2>2, <2>3 DEF WireInv
<1> QED
  BY <1>5, <1>6, <1>7, <1>8 DEF Transit

\* The agent gives a message to a link: its samples are on their way, and they
\* left the agent with this step.
LEMMA PutOnWire ==
  ASSUME SessionInv, NEW c \in Conns, NEW m \in Message, Shaped(m), Appends(c, m),
         UNCHANGED link, BufferInv',
         Len(samples) - Len(buffer) =< (Len(samples) - Len(buffer))',
         \A s \in Points(m) : /\ s > Len(samples) - Len(buffer)
                              /\ s =< (Len(samples) - Len(buffer))'
  PROVE  /\ WireTypeOK' /\ WireInv'
         /\ OnWire(c)' = OnWire(c) \cup Points(m)
         /\ \A d \in Conns \ {c} : OnWire(d)' = OnWire(d)
         /\ Transit' = Transit \cup Points(m)
<1> USE DEF SessionInv
<1>1. /\ wire[c] \in Seq(Message)
      /\ DOMAIN wire[c] = 1..Len(wire[c])
      /\ Len(wire[c]) \in Nat
  BY OnWireTyped
<1>2. /\ Append(wire[c], m) \in Seq(Message)
      /\ DOMAIN Append(wire[c], m) = 1..(Len(wire[c]) + 1)
      /\ \A i \in 1..Len(wire[c]) : Append(wire[c], m)[i] = wire[c][i]
      /\ Append(wire[c], m)[Len(wire[c]) + 1] = m
  <2>1. /\ Append(wire[c], m) \in Seq(Message)
        /\ Len(Append(wire[c], m)) = Len(wire[c]) + 1
        /\ \A i \in 1..Len(wire[c]) : Append(wire[c], m)[i] = wire[c][i]
        /\ Append(wire[c], m)[Len(wire[c]) + 1] = m
    BY <1>1, AppendProperties
  <2> QED
    BY <2>1, LenProperties
<1>3. /\ wire' \in [Conns -> Seq(Message)]
      /\ wire'[c] = Append(wire[c], m)
      /\ \A d \in Conns \ {c} : wire'[d] = wire[d]
  BY <1>2 DEF WireTypeOK, Appends
<1>4. ASSUME NEW d \in Conns, NEW i \in DOMAIN wire'[d]
      PROVE  \/ d = c /\ i = Len(wire[c]) + 1 /\ wire'[d][i] = m
             \/ i \in DOMAIN wire[d] /\ wire'[d][i] = wire[d][i]
  <2>1. CASE d = c
    BY <1>1, <1>2, <1>3, <2>1
  <2>2. CASE d # c
    BY <1>3, <2>2
  <2> QED
    BY <2>1, <2>2
<1>5. WireTypeOK'
  BY <1>3, <1>4 DEF WireTypeOK
<1>6. /\ (Len(samples) - Len(buffer)) \in Int
      /\ (Len(samples) - Len(buffer))' \in Int
  BY DEF BufferInv, AgentTypeOK
<1>7. ASSUME NEW d \in Conns, NEW i \in DOMAIN wire[d], NEW s \in Points(wire[d][i])
      PROVE  s =< Len(samples) - Len(buffer) /\ s \in Nat
  BY OnWireTyped DEF WireInv
<1>8. \A s \in Points(m) : s \in Nat
  <2>1. m.points \in Seq(Nat)
    BY DEF Message
  <2> QED
    BY <2>1, ElementOfSeq, LenProperties DEF Points
<1>9. ASSUME NEW d \in Conns, NEW i \in DOMAIN wire'[d], NEW s \in Points(wire'[d][i])
      PROVE  s =< (Len(samples) - Len(buffer))'
  <2>1. CASE wire'[d][i] = m
    BY <1>9, <2>1
  <2>2. CASE i \in DOMAIN wire[d] /\ wire'[d][i] = wire[d][i]
    BY <1>6, <1>7, <1>9, <2>2
  <2> QED
    BY <1>4, <2>1, <2>2
<1>10. ASSUME NEW d \in Conns, NEW e \in Conns, NEW i \in DOMAIN wire'[d], NEW k \in DOMAIN wire'[e],
              <<d, i>> # <<e, k>>, NEW s \in Points(wire'[d][i]), s \in Points(wire'[e][k])
       PROVE  FALSE
  <2>1. CASE d = c /\ i = Len(wire[c]) + 1 /\ wire'[d][i] = m
    <3>1. k \in DOMAIN wire[e] /\ wire'[e][k] = wire[e][k]
      BY <1>4, <1>10, <2>1
    <3>2. s \in Points(m) /\ s \in Points(wire[e][k])
      BY <1>10, <2>1, <3>1
    <3>3. s > Len(samples) - Len(buffer)
      BY <3>2
    <3>4. s =< Len(samples) - Len(buffer) /\ s \in Nat
      BY <1>7, <3>1, <3>2
    <3> QED
      BY <1>6, <3>3, <3>4
  <2>2. CASE i \in DOMAIN wire[d] /\ wire'[d][i] = wire[d][i]
    <3>1. CASE wire'[e][k] = m
      <4>1. s \in Points(m) /\ s \in Points(wire[d][i])
        BY <1>10, <2>2, <3>1
      <4>2. s > Len(samples) - Len(buffer)
        BY <4>1
      <4>3. s =< Len(samples) - Len(buffer) /\ s \in Nat
        BY <1>7, <2>2, <4>1
      <4> QED
        BY <1>6, <4>2, <4>3
    <3>2. CASE k \in DOMAIN wire[e] /\ wire'[e][k] = wire[e][k]
      BY <1>10, <2>2, <3>2 DEF WireInv
    <3> QED
      BY <1>4, <3>1, <3>2
  <2> QED
    BY <1>4, <2>1, <2>2
<1>11. WireInv'
  <2>1. \A d \in Conns : \A i \in DOMAIN wire'[d] :
           \A s \in Points(wire'[d][i]) : s =< (Len(samples) - Len(buffer))'
    BY <1>9
  <2>2. \A d, e \in Conns : \A i \in DOMAIN wire'[d], k \in DOMAIN wire'[e] :
           <<d, i>> # <<e, k>> => Points(wire'[d][i]) \cap Points(wire'[e][k]) = {}
    BY <1>10
  <2> QED
    BY <2>1, <2>2 DEF WireInv, Points
<1>12. OnWire(c)' = OnWire(c) \cup Points(m)
  <2>1. OnWire(c)' \subseteq OnWire(c) \cup Points(m)
    BY <1>4 DEF OnWire
  <2>2. Points(m) \subseteq OnWire(c)'
    <3>1. Len(wire[c]) + 1 \in DOMAIN wire'[c] /\ wire'[c][Len(wire[c]) + 1] = m
      BY <1>1, <1>2, <1>3
    <3> QED
      BY <3>1 DEF OnWire
  <2>3. OnWire(c) \subseteq OnWire(c)'
    <3>1. \A i \in DOMAIN wire[c] : i \in DOMAIN wire'[c] /\ wire'[c][i] = wire[c][i]
      BY <1>1, <1>2, <1>3
    <3> QED
      BY <3>1 DEF OnWire
  <2> QED
    BY <2>1, <2>2, <2>3
<1>13. \A d \in Conns \ {c} : OnWire(d)' = OnWire(d)
  BY <1>3 DEF OnWire
<1> QED
  BY <1>5, <1>11, <1>12, <1>13 DEF Transit

-----------------------------------------------------------------------------
(* What a step does to the wires.                                          *)

\* A wire that is cut, emptied, or begun with Hello has no new sample.
LEMMA OneWireLess ==
  ASSUME WireTypeOK, NEW c \in Conns, NEW q \in Seq(Message), wire' = [wire EXCEPT ![c] = q],
         \A i \in DOMAIN q : \/ Points(q[i]) = {} /\ Shaped(q[i])
                             \/ i \in DOMAIN wire[c] /\ q[i] = wire[c][i]
  PROVE  NoNewPoints
<1>1. /\ wire' \in [Conns -> Seq(Message)]
      /\ wire'[c] = q
      /\ \A d \in Conns \ {c} : wire'[d] = wire[d]
  BY DEF WireTypeOK
<1>2. ASSUME NEW d \in Conns, NEW i \in DOMAIN wire'[d]
      PROVE  \/ Points(wire'[d][i]) = {} /\ Shaped(wire'[d][i])
             \/ i + 0 \in DOMAIN wire[d] /\ wire'[d][i] = wire[d][i + 0]
  <2>1. wire'[d] \in Seq(Message)
    BY <1>1
  <2>2. i \in Nat
    BY <2>1, LenProperties
  <2>3. i + 0 = i
    BY <2>2
  <2>4. CASE d = c
    BY <1>1, <2>3, <2>4, Zenon
  <2>5. CASE d # c
    BY <1>1, <2>3, <2>5, Zenon
  <2> QED
    BY <2>4, <2>5
<1>3. ASSUME NEW d \in Conns
      PROVE  \E k \in Nat : \A i \in DOMAIN wire'[d] :
                \/ Points(wire'[d][i]) = {} /\ Shaped(wire'[d][i])
                \/ i + k \in DOMAIN wire[d] /\ wire'[d][i] = wire[d][i + k]
  <2> WITNESS 0 \in Nat
  <2> QED
    BY <1>2, Zenon
<1> QED
  BY <1>1, <1>3 DEF NoNewPoints

\* A wire that nobody touches has none either.
LEMMA SameWire == ASSUME WireTypeOK, UNCHANGED wire PROVE NoNewPoints
<1>1. ASSUME NEW d \in Conns, NEW i \in DOMAIN wire'[d]
      PROVE  i + 0 \in DOMAIN wire[d] /\ wire'[d][i] = wire[d][i + 0]
  <2>1. i \in Nat
    BY OnWireTyped
  <2>2. i + 0 = i
    BY <2>1
  <2> QED
    BY <2>2, Zenon
<1>2. wire' \in [Conns -> Seq(Message)]
  BY DEF WireTypeOK
<1> QED
  BY <1>1, <1>2 DEF NoNewPoints

\* The link of c is cut: what is left on its wire was there.
LEMMA CutWire ==
  ASSUME WireTypeOK, NEW c \in Conns, Cut(c)
  PROVE  NoNewPoints /\ link' \in [Conns -> BOOLEAN] /\ NothingLostOnLink'
<1>1. PICK n \in 0..Len(wire[c]) : wire' = [wire EXCEPT ![c] = SubSeq(wire[c], 1, n)]
  BY DEF Cut
<1> DEFINE q == SubSeq(wire[c], 1, n)
<1>2. wire[c] \in Seq(Message) /\ DOMAIN wire[c] = 1..Len(wire[c]) /\ Len(wire[c]) \in Nat
  BY OnWireTyped
<1>3. q \in Seq(Message) /\ Len(q) = n /\ \A i \in 1..n : q[i] = wire[c][i]
  BY <1>2
<1>4. DOMAIN q = 1..n
  BY <1>3, LenProperties
<1>5. \A i \in DOMAIN q : i \in DOMAIN wire[c] /\ q[i] = wire[c][i]
  BY <1>2, <1>3, <1>4
<1>6. wire' = [wire EXCEPT ![c] = q]
  BY <1>1
<1> HIDE DEF q
<1>7. NoNewPoints
  <2>1. q \in Seq(Message)
    BY <1>3
  <2>2. \A i \in DOMAIN q : \/ Points(q[i]) = {} /\ Shaped(q[i])
                            \/ i \in DOMAIN wire[c] /\ q[i] = wire[c][i]
    BY <1>5
  <2> QED
    BY <1>6, <2>1, <2>2, OneWireLess, Zenon
<1> QED
  BY <1>7 DEF Cut, WireTypeOK, NothingLostOnLink

\* A loop that ends drops what was on its way.
LEMMA LeaveWire ==
  ASSUME WireTypeOK, NothingLostOnLink, NEW c \in Conns, Leave(c), UNCHANGED rows
  PROVE  NoNewPoints /\ link' \in [Conns -> BOOLEAN] /\ NothingLostOnLink'
<1>1. <<>> \in Seq(Message) /\ DOMAIN <<>> = {}
  OBVIOUS
<1>2. wire' = [wire EXCEPT ![c] = <<>>]
  BY DEF Leave
<1>3. NoNewPoints
  <2> DEFINE q == <<>>
  <2>1. q \in Seq(Message) /\ wire' = [wire EXCEPT ![c] = q] /\ DOMAIN q = {}
    BY <1>1, <1>2
  <2> HIDE DEF q
  <2> QED
    BY <2>1, OneWireLess
<1>4. \A d \in Conns \ {c} : wire'[d] = wire[d] /\ link'[d] = link[d]
  BY DEF Leave, WireTypeOK
<1>5. ~link'[c] /\ owed' \subseteq owed
  BY DEF Leave, WireTypeOK
<1>6. NothingLostOnLink'
  BY <1>4, <1>5 DEF NothingLostOnLink, OnWire, Stored
<1> QED
  BY <1>3, <1>6 DEF Leave, WireTypeOK

\* Hello is the first on a new wire.
LEMMA HelloWire ==
  ASSUME BufferInv, WireTypeOK, NEW c \in Conns, Connect(c)
  PROVE  NoNewPoints /\ link' \in [Conns -> BOOLEAN] /\ NothingLostOnLink'
<1> DEFINE hello == [kind |-> "hello", points |-> <<>>, at |-> now]
           q == <<hello>>
<1>1. hello \in Message
  BY DEF Message, BufferInv, AgentTypeOK
<1>2. Points(hello) = {} /\ Shaped(hello)
  BY DEF Points, Shaped
<1>3. wire' = [wire EXCEPT ![c] = q]
  BY DEF Connect
<1> HIDE DEF hello
<1>4. q \in Seq(Message) /\ DOMAIN q = {1} /\ q[1] = hello
  BY <1>1
<1> HIDE DEF q
<1>5. NoNewPoints
  BY <1>2, <1>3, <1>4, OneWireLess
<1> QED
  BY <1>5 DEF Connect, WireTypeOK, NothingLostOnLink

-----------------------------------------------------------------------------
(* The steps of the log that the steps of the session are.                 *)

Kept == {buffer[i] : i \in DOMAIN buffer}

LogStep == [Log!Next]_Log!vars

\* A run of numbers, as a set.
LEMMA KeptRun ==
  ASSUME NEW buf \in Seq(Nat), NEW n \in Nat, IsNewest(buf, n)
  PROVE  {buf[i] : i \in DOMAIN buf} = (n - Len(buf) + 1)..n
<1>1. DOMAIN buf = 1..Len(buf) /\ Len(buf) \in Nat
  BY LenProperties
<1>2. \A i \in 1..Len(buf) : buf[i] = n - Len(buf) + i
  BY DEF IsNewest
<1>3. {buf[i] : i \in DOMAIN buf} \subseteq (n - Len(buf) + 1)..n
  BY <1>1, <1>2
<1>4. ASSUME NEW s \in (n - Len(buf) + 1)..n
      PROVE  s \in {buf[i] : i \in DOMAIN buf}
  <2> DEFINE k == s - (n - Len(buf))
  <2>1. k \in 1..Len(buf) /\ n - Len(buf) + k = s
    BY <1>1
  <2>2. k \in DOMAIN buf /\ buf[k] = s
    BY <1>1, <1>2, <2>1
  <2> QED
    BY <2>2
<1> QED
  BY <1>3, <1>4

\* How long the buffer is after a push.
LEMMA BufferedLength ==
  ASSUME NEW buf \in Seq(Nat), NEW s \in Nat, Len(buf) =< Capacity
  PROVE  Len(Buffered(buf, s)) = IF Len(buf) = Capacity THEN Len(buf) ELSE Len(buf) + 1
<1>1. Capacity \in Nat \ {0} /\ Len(buf) \in Nat
  BY ConstantTypes
<1>2. CASE Len(buf) = Capacity
  <2>1. Tail(buf) \in Seq(Nat) /\ Len(Tail(buf)) = Len(buf) - 1
    BY <1>1, <1>2
  <2>2. Buffered(buf, s) = Append(Tail(buf), s)
    BY <1>1, <1>2 DEF Buffered
  <2>3. Len(Append(Tail(buf), s)) = Len(buf)
    BY <1>1, <2>1
  <2> QED
    BY <1>2, <2>2, <2>3
<1>3. CASE Len(buf) # Capacity
  <2>1. Buffered(buf, s) = Append(buf, s)
    BY <1>1, <1>3 DEF Buffered
  <2>2. Len(Append(buf, s)) = Len(buf) + 1
    OBVIOUS
  <2> QED
    BY <1>3, <2>1, <2>2
<1> QED
  BY <1>2, <1>3

\* What leaves the wires is stored or lost.
LEMMA Settling ==
  ASSUME NEW new \in SUBSET (Transit \ Transit'), Transit' \subseteq Transit,
         Stored' = Stored \cup new, UNCHANGED <<samples, buffer>>
  PROVE  Log!Settle
<1> DEFINE done == Transit \ Transit'
<1>1. done \in SUBSET Transit /\ Transit' = Transit \ done /\ new \in SUBSET done
  OBVIOUS
<1> HIDE DEF done
<1>2. \E gone \in SUBSET Transit :
         /\ Transit' = Transit \ gone
         /\ \E in \in SUBSET gone : Stored' = Stored \cup in
  BY <1>1
<1>3. UNCHANGED <<Len(samples), Kept>>
  BY DEF Kept
<1> QED
  BY <1>2, <1>3, Zenon DEF Log!Settle, Transit, Kept

\* Nothing that the log speaks of changes.
LEMMA SameLog ==
  ASSUME UNCHANGED <<samples, buffer, wire, rows>>
  PROVE  UNCHANGED Log!vars
BY DEF Log!vars, OnWire, Stored

\* The sample taken goes into the buffer.
LEMMA Keeping ==
  ASSUME BufferInv, BufferInv', Len(samples') = Len(samples) + 1,
         buffer' = Buffered(buffer, Len(samples) + 1), UNCHANGED <<wire, rows>>
  PROVE  Log!Keep
<1> DEFINE n == Len(samples)
<1>1. /\ n \in Nat /\ Len(buffer) \in Nat /\ Capacity \in Nat \ {0}
      /\ buffer \in Seq(Nat) /\ buffer' \in Seq(Nat)
      /\ IsNewest(buffer, n) /\ IsNewest(buffer', n + 1)
  BY ConstantTypes DEF BufferInv, AgentTypeOK, BufferIsNewest, IsNewest
<1>2. /\ Len(buffer) =< Capacity
      /\ Len(buffer') = IF Len(buffer) = Capacity THEN Len(buffer) ELSE Len(buffer) + 1
  <2>1. n + 1 \in Nat /\ Len(buffer) =< Capacity
    BY <1>1 DEF IsNewest
  <2> QED
    BY <1>1, <2>1, BufferedLength
<1>3. Kept = (n - Len(buffer) + 1)..n
  BY <1>1, KeptRun DEF Kept
<1>4. Kept' = ((n + 1) - Len(buffer') + 1)..(n + 1)
  <2>1. n + 1 \in Nat
    BY <1>1
  <2> QED
    BY <1>1, <2>1, KeptRun DEF Kept
<1> HIDE DEF n
<1>5. Kept' = {s \in Kept \cup {n + 1} : s > (n + 1) - Capacity}
  <2>1. \A s \in Kept' : s \in Kept \cup {n + 1} /\ s > (n + 1) - Capacity
    BY <1>1, <1>2, <1>3, <1>4
  <2>2. \A s \in Kept \cup {n + 1} : s > (n + 1) - Capacity => s \in Kept'
    BY <1>1, <1>2, <1>3, <1>4
  <2> QED
    BY <2>1, <2>2
<1>6. UNCHANGED <<Transit, Stored>>
  BY DEF Transit, OnWire, Stored
<1> QED
  <2>1. Len(samples') = Len(samples) + 1
    OBVIOUS
  <2>2. Kept' = {s \in Kept \cup {Len(samples) + 1} : s > (Len(samples) + 1) - Capacity}
    BY <1>5 DEF n
  <2>3. Kept' = Log!Newest(Kept \cup {Len(samples) + 1}, Len(samples) + 1)
    BY <2>2, Zenon DEF Log!Newest
  <2> QED
    BY <1>6, <2>1, <2>3 DEF Log!Keep, Kept, Transit

\* The oldest part of the buffer goes out.
LEMMA SendingKept ==
  ASSUME BufferInv, BufferInv', NEW k \in 1..Len(buffer), UNCHANGED <<samples, rows>>,
         buffer' = SubSeq(buffer, k + 1, Len(buffer)),
         NEW sent, sent = {} \/ sent = {buffer[i] : i \in 1..k}, Transit' = Transit \cup sent
  PROVE  Log!SendKept
<1> DEFINE n == Len(samples)
           first == n - Len(buffer)
           oldest == {s \in Kept : s =< buffer[k]}
<1>1. /\ n \in Nat /\ Len(buffer) \in Nat /\ k \in 1..Len(buffer)
      /\ buffer \in Seq(Nat) /\ buffer' \in Seq(Nat)
      /\ IsNewest(buffer, n) /\ IsNewest(buffer', n)
  <2>1. n \in Nat /\ Len(buffer) \in Nat /\ buffer \in Seq(Nat) /\ buffer' \in Seq(Nat)
    BY DEF BufferInv, AgentTypeOK
  <2>2. IsNewest(buffer, n)
    BY DEF BufferInv, BufferIsNewest, IsNewest
  <2>3. IsNewest(buffer', Len(samples'))
    BY DEF BufferInv, BufferIsNewest, IsNewest
  <2> QED
    BY <2>1, <2>2, <2>3
<1>2. \A i \in 1..Len(buffer) : buffer[i] = first + i
  BY <1>1 DEF IsNewest
<1>3. /\ Len(buffer') = Len(buffer) - k
      /\ k \in Nat \ {0} /\ k =< Len(buffer)
  BY <1>1
<1>4. Kept = (first + 1)..n
  BY <1>1, KeptRun DEF Kept
<1>5. Kept' = (first + k + 1)..n
  <2>1. Kept' = (n - Len(buffer') + 1)..n
    BY <1>1, KeptRun DEF Kept
  <2>2. n - Len(buffer') + 1 = first + k + 1
    <3>1. n \in Int /\ Len(buffer) \in Int /\ k \in Int
      BY <1>1, <1>3
    <3>2. \A a, b, d \in Int : a - (b - d) + 1 = a - b + d + 1
      OBVIOUS
    <3>3. first = n - Len(buffer) /\ Len(buffer') = Len(buffer) - k
      BY <1>3
    <3> HIDE DEF n, first
    <3>4. n - (Len(buffer) - k) + 1 = n - Len(buffer) + k + 1
      BY <3>1, <3>2, Zenon
    <3> QED
      BY <3>3, <3>4, Zenon
  <2> QED
    BY <2>1, <2>2
<1>6. buffer[k] = first + k /\ first \in Int /\ first + k =< n /\ n \in Int
  <2>1. first \in Int /\ first + k =< n /\ n \in Int
    BY <1>1, <1>3
  <2>2. buffer[k] = first + k
    BY <1>2
  <2> QED
    BY <2>1, <2>2
<1>7. buffer[k] \in Kept
  BY <1>1, LenProperties DEF Kept
<1>8. {buffer[i] : i \in 1..k} = (first + 1)..(first + k)
  <2>1. \A i \in 1..k : buffer[i] = first + i
    <3>1. \A i \in 1..k : i \in 1..Len(buffer)
      BY <1>1, <1>3
    <3> QED
      BY <1>2, <3>1, Zenon
  <2>2. ASSUME NEW s \in (first + 1)..(first + k)
        PROVE  s \in {buffer[i] : i \in 1..k}
    <3>1. s - first \in 1..k /\ first + (s - first) = s
      BY <1>1, <1>6
    <3>2. buffer[s - first] = s
      BY <2>1, <3>1
    <3> QED
      BY <3>1, <3>2
  <2>3. {buffer[i] : i \in 1..k} \subseteq (first + 1)..(first + k)
    BY <1>1, <1>6, <2>1
  <2> QED
    BY <2>2, <2>3
<1> HIDE DEF n, first
<1>9. oldest = (first + 1)..(first + k)
  BY <1>3, <1>4, <1>6
<1>10. Kept' = Kept \ oldest
  <2> HIDE DEF oldest
  <2> QED
    BY <1>3, <1>4, <1>5, <1>6, <1>9
<1>11. sent \in {{}, oldest}
  BY <1>8, <1>9
<1>12. \E last \in Kept :
          LET old == {s \in Kept : s =< last}
          IN  /\ Kept' = Kept \ old
              /\ \E out \in {{}, old} : Transit' = Transit \cup out
  BY <1>7, <1>10, <1>11
<1>13. UNCHANGED Stored
  BY DEF Stored
<1> QED
  BY <1>12, <1>13 DEF Log!SendKept, Kept, Transit

\* The sample taken goes out at once.
LEMMA SendingNow ==
  ASSUME buffer = <<>>, UNCHANGED <<buffer, rows>>, Len(samples') = Len(samples) + 1,
         NEW sent \in {{}, {Len(samples) + 1}}, Transit' = Transit \cup sent
  PROVE  Log!SendNow
<1>1. Kept = {} /\ Kept' = Kept
  BY DEF Kept
<1>2. UNCHANGED Stored
  BY DEF Stored
<1> QED
  BY <1>1, <1>2 DEF Log!SendNow, Kept, Transit

-----------------------------------------------------------------------------
(* The steps.                                                              *)

ReportInv == SessionInv /\ NothingLostOnLink

\* What a step has to keep, beside the buffer and the link.
StepKeeps == WireTypeOK' /\ WireInv' /\ NothingLostOnLink' /\ LogStep

\* Only the link of the agent's session is up, whoever moves.
LEMMA LinkInvStep ==
  ASSUME BufferInv, WireTypeOK, LinkInv, [Next]_vars
  PROVE  LinkInv'
<1>1. /\ agent \in Agent /\ agent.conn \in Conns \cup {None} /\ agent.pc \in AgentPc
      /\ None \notin Conns
      /\ link \in [Conns -> BOOLEAN]
  BY SessionAssumption DEF SessionAssumption, BufferInv, AgentTypeOK, Agent, WireTypeOK
<1>2. ASSUME NEW c \in Conns, Connect(c)
      PROVE  LinkInv'
  <2>1. \A d \in Conns : ~link[d]
    BY <1>1, <1>2 DEF Connect, LinkInv
  <2>2. agent'.conn = c /\ agent'.pc = "flush" /\ link' = [link EXCEPT ![c] = TRUE]
    BY <1>1, <1>2 DEF Connect, Agent
  <2> QED
    BY <1>1, <2>1, <2>2 DEF LinkInv
<1>3. ASSUME NEW b, EnterWait(b), \A c \in Conns : ~link'[c]
      PROVE  LinkInv'
  BY <1>3 DEF EnterWait, LinkInv
<1>4. ASSUME SendFails, UNCHANGED link
      PROVE  LinkInv'
  BY <1>3, <1>4 DEF SendFails, LinkInv
<1>5. ASSUME UNCHANGED link, agent'.conn = agent.conn,
             agent'.pc \in {"dial", "wait"} <=> agent.pc \in {"dial", "wait"}
      PROVE  LinkInv'
  BY <1>5 DEF LinkInv
<1>6. CASE FlushChunk
  BY <1>4, <1>5, <1>6 DEF FlushChunk
<1>7. CASE FlushDone
  BY <1>1, <1>5, <1>7 DEF FlushDone, Agent
<1>8. CASE SessionLost
  BY <1>3, <1>8 DEF SessionLost, LinkInv
<1>9. CASE WaitEnds
  BY <1>5, <1>9 DEF WaitEnds, FirstDial, LinkInv
<1>10. CASE ConnectFails
  <2>1. \A c \in Conns : ~link[c]
    BY <1>1, <1>10 DEF ConnectFails, LinkInv
  <2> QED
    BY <1>3, <1>10, <2>1 DEF ConnectFails
<1>11. CASE Report
  <2>1. CASE SendFails
    BY <1>4, <1>11, <2>1 DEF Report
  <2>2. CASE agent' = [agent EXCEPT !.tick = now + Interval]
    BY <1>1, <1>5, <1>11, <2>2 DEF Report, Agent
  <2> QED
    BY <1>11, <2>1, <2>2 DEF Report
<1>12. CASE WaitSample
  BY <1>1, <1>5, <1>12 DEF WaitSample, Agent
<1>13. CASE CloseFrame
  <2>1. \A c \in Conns : ~link'[c]
    BY <1>1, <1>13 DEF CloseFrame, Cut, LinkInv
  <2> QED
    BY <1>3, <1>13, <2>1 DEF CloseFrame
<1>14. CASE AgentRestarts
  <2>1. \A c \in Conns : ~link'[c]
    BY <1>1, <1>14 DEF AgentRestarts, Cut, LinkInv
  <2>2. agent' = FirstDial
    BY <1>14 DEF AgentRestarts
  <2> QED
    BY <2>1, <2>2 DEF LinkInv, FirstDial
<1>15. ASSUME NEW c \in Conns, UNCHANGED agent, link' = link \/ link' = [link EXCEPT ![c] = FALSE]
       PROVE  LinkInv'
  BY <1>1, <1>15 DEF LinkInv
<1>16. ASSUME NEW c \in Conns, Break(c) \/ Serve(c)
       PROVE  LinkInv'
  BY <1>15, <1>16
  DEF Break, Cut, Serve, PeerGone, Receive, Leave, Hello, Metrics, Backfill, Take, agentVars
<1>17. CASE Tick \/ UNCHANGED vars
  BY <1>5, <1>17 DEF Tick, vars, agentVars
<1> QED
  BY <1>2, <1>6, <1>7, <1>8, <1>9, <1>10, <1>11, <1>12, <1>13, <1>14, <1>16, <1>17
  DEF Next, AgentStep

\* A step that gives nothing to a link and stores nothing.
LEMMA QuietKeeps ==
  ASSUME ReportInv, BufferInv', NoNewPoints, link' \in [Conns -> BOOLEAN], NothingLostOnLink',
         UNCHANGED <<samples, buffer, rows>>
  PROVE  StepKeeps
<1>1. Len(samples) - Len(buffer) =< (Len(samples) - Len(buffer))'
  BY DEF ReportInv, SessionInv, BufferInv, AgentTypeOK
<1>2. WireTypeOK' /\ WireInv' /\ Transit' \subseteq Transit
  BY <1>1, LessOnWire DEF ReportInv, Transit
<1>3. Log!Settle
  <2>1. Stored' = Stored \cup {} /\ {} \in SUBSET (Transit \ Transit')
    BY DEF Stored
  <2> QED
    BY <1>2, <2>1, Settling
<1> QED
  BY <1>2, <1>3 DEF StepKeeps, LogStep, Log!Next

\* A step that touches neither samples nor wires.
LEMMA IdleKeeps ==
  ASSUME ReportInv, BufferInv', UNCHANGED <<samples, buffer, wire, link, rows, owed>>
  PROVE  StepKeeps
<1>1. NothingLostOnLink'
  BY DEF ReportInv, NothingLostOnLink, OnWire, Stored
<1>2. NoNewPoints /\ link' \in [Conns -> BOOLEAN]
  BY SameWire DEF ReportInv, SessionInv, WireTypeOK
<1> QED
  BY <1>1, <1>2, QuietKeeps

\* A step of the agent that puts the sample taken into its buffer.
LEMMA BufferingKeeps ==
  ASSUME ReportInv, BufferInv', Len(samples') = Len(samples) + 1,
         buffer' = Buffered(buffer, Len(samples) + 1), UNCHANGED <<wire, link, rows, owed>>
  PROVE  StepKeeps
<1>1. NothingLostOnLink'
  BY DEF ReportInv, NothingLostOnLink, OnWire, Stored
<1>2. NoNewPoints /\ link' \in [Conns -> BOOLEAN]
  BY SameWire DEF ReportInv, SessionInv, WireTypeOK
<1>3. Len(samples) - Len(buffer) =< (Len(samples) - Len(buffer))'
  <2>1. /\ Len(samples) \in Nat /\ Len(buffer) \in Nat /\ Len(buffer) =< Capacity
        /\ buffer \in Seq(Nat)
    BY DEF ReportInv, SessionInv, BufferInv, AgentTypeOK, BufferIsNewest
  <2>2. Len(buffer') \in Nat /\ Len(buffer') =< Len(buffer) + 1
    <3>1. Len(samples) + 1 \in Nat
      BY <2>1
    <3>2. Len(Buffered(buffer, Len(samples) + 1)) =
             IF Len(buffer) = Capacity THEN Len(buffer) ELSE Len(buffer) + 1
      BY <2>1, <3>1, BufferedLength
    <3> QED
      BY <2>1, <3>2
  <2> QED
    BY <2>1, <2>2
<1>4. WireTypeOK' /\ WireInv'
  BY <1>2, <1>3, LessOnWire DEF ReportInv
<1>5. Log!Keep
  BY Keeping DEF ReportInv, SessionInv
<1> QED
  BY <1>1, <1>4, <1>5 DEF StepKeeps, LogStep, Log!Next

\* The server takes a message: each of its samples is stored or refused.
LEMMA TakingKeeps ==
  ASSUME ReportInv, BufferInv', NEW c \in Conns, wire[c] # <<>>, Take(c), UNCHANGED <<samples, buffer>>,
         NEW new \in SUBSET Points(Head(wire[c])), Stored' = Stored \cup new,
         NEW lost, owed' = IF link[c] THEN owed \ lost ELSE owed,
         Points(Head(wire[c])) \subseteq lost \cup Stored'
  PROVE  StepKeeps
<1>1. wire' = [wire EXCEPT ![c] = Tail(@)] /\ link' = link
  BY DEF Take
<1>2. /\ WireTypeOK' /\ WireInv'
      /\ OnWire(c) = Points(Head(wire[c])) \cup OnWire(c)'
      /\ \A d \in Conns \ {c} : OnWire(d)' = OnWire(d)
      /\ Points(Head(wire[c])) \cap Transit' = {}
      /\ Transit' \subseteq Transit
      /\ Points(Head(wire[c])) \subseteq Transit
  BY <1>1, TakenFromWire DEF ReportInv
<1>3. Log!Settle
  <2>1. new \in SUBSET (Transit \ Transit')
    BY <1>2
  <2> QED
    BY <1>2, <2>1, Settling
<1>4. ASSUME NEW d \in Conns, link'[d], NEW s \in owed'
      PROVE  s \in OnWire(d)' \cup Stored'
  <2>1. s \in OnWire(d) \cup Stored
    BY <1>1, <1>4 DEF ReportInv, NothingLostOnLink
  <2>2. CASE d = c
    <3>1. s \notin lost
      BY <1>1, <1>4, <2>2
    <3> QED
      BY <1>2, <2>1, <2>2, <3>1
  <2>3. CASE d # c
    BY <1>2, <2>1, <2>3
  <2> QED
    BY <2>2, <2>3
<1>5. NothingLostOnLink'
  BY <1>4 DEF NothingLostOnLink
<1> QED
  BY <1>2, <1>3, <1>5 DEF StepKeeps, LogStep, Log!Next

\* The session reports (the loop of run_session).
LEMMA ReportKeeps ==
  ASSUME ReportInv, BufferInv', Report
  PROVE  StepKeeps
<1> DEFINE n == Len(samples)
           m == [kind |-> "metrics", points |-> <<n + 1>>, at |-> now]
<1>1. /\ n \in Nat /\ now \in Nat /\ buffer = <<>> /\ Len(buffer) = 0
      /\ agent.conn \in Conns
      /\ UNCHANGED <<link, rows>>
      /\ Len(samples') = n + 1
  <2>1. n \in Nat /\ now \in Nat /\ buffer = <<>> /\ agent.conn \in Conns
    BY DEF ReportInv, SessionInv, BufferInv, AgentTypeOK, BufferIsNewest, LinkInv, Agent, Report
  <2>2. UNCHANGED <<link, rows>>
    BY DEF Report
  <2>3. samples' = Append(samples, now + Skew) /\ samples \in Seq(Int) /\ now + Skew \in Int
    BY ConstantTypes, <2>1 DEF ReportInv, SessionInv, BufferInv, AgentTypeOK, Report, TakeSample
  <2>4. Len(samples') = n + 1
    BY <2>3
  <2> QED
    BY <2>1, <2>2, <2>4
<1>c. PICK c \in Conns : c = agent.conn
  BY <1>1
<1>2. ASSUME SendFails, buffer' = Buffered(buffer, n + 1)
      PROVE  StepKeeps
  <2>1. UNCHANGED <<wire, owed>>
    BY <1>2 DEF SendFails
  <2> QED
    BY <1>1, <1>2, <2>1, BufferingKeeps
<1>3. ASSUME Send("metrics", <<n + 1>>), UNCHANGED buffer
      PROVE  StepKeeps
  <2>1. Len(samples) - Len(buffer) = n /\ (Len(samples) - Len(buffer))' = n + 1
    BY <1>1, <1>3
  <2>2. m \in Message /\ Shaped(m) /\ Points(m) = {n + 1}
    <3>1. n + 1 \in Nat
      BY <1>1
    <3>2. <<n + 1>> \in Seq(Nat) /\ Len(<<n + 1>>) = 1 /\ DOMAIN <<n + 1>> = {1} /\ <<n + 1>>[1] = n + 1
      BY <3>1
    <3> QED
      BY <1>1, <3>2 DEF Message, Shaped, Points
  <2>3. CASE link[c]
    <3>1. Appends(c, m) /\ owed' = owed \cup Points(m)
      BY <1>3, <1>c, <2>3 DEF Send, Appends
    <3> HIDE DEF m
    <3>2. \A s \in Points(m) : /\ s > Len(samples) - Len(buffer)
                               /\ s =< (Len(samples) - Len(buffer))'
      BY <1>1, <2>1, <2>2
    <3>3. Len(samples) - Len(buffer) =< (Len(samples) - Len(buffer))'
      BY <1>1, <2>1
    <3>4. /\ WireTypeOK' /\ WireInv'
          /\ OnWire(c)' = OnWire(c) \cup Points(m)
          /\ \A d \in Conns \ {c} : OnWire(d)' = OnWire(d)
          /\ Transit' = Transit \cup Points(m)
      <4>1. SessionInv /\ UNCHANGED link /\ m \in Message /\ Shaped(m)
        BY <1>1, <2>2 DEF ReportInv
      <4> QED
        BY <3>1, <3>2, <3>3, <4>1, PutOnWire, Zenon
    <3>5. \A d \in Conns : link[d] => d = c
      BY <1>c DEF ReportInv, SessionInv, LinkInv
    <3>6. NothingLostOnLink'
      <4>1. ASSUME NEW d \in Conns, link'[d], NEW s \in owed'
            PROVE  s \in OnWire(d)' \cup Stored'
        <5>1. d = c /\ link[c]
          BY <1>1, <3>5, <4>1
        <5>2. CASE s \in Points(m)
          BY <3>4, <5>1, <5>2
        <5>3. CASE s \in owed
          <6>1. s \in OnWire(c) \cup Stored
            BY <1>1, <5>1, <5>3 DEF ReportInv, NothingLostOnLink
          <6> QED
            BY <1>1, <3>4, <5>1, <6>1 DEF Stored
        <5> QED
          BY <3>1, <4>1, <5>2, <5>3
      <4> QED
        BY <4>1 DEF NothingLostOnLink
    <3>7. Log!SendNow
      <4>1. {n + 1} \in {{}, {Len(samples) + 1}} /\ Transit' = Transit \cup {n + 1}
        BY <2>2, <3>4
      <4> QED
        BY <1>1, <1>3, <4>1, SendingNow
    <3> QED
      BY <3>4, <3>6, <3>7 DEF StepKeeps, LogStep, Log!Next
  <2>4. CASE ~link[c]
    <3>1. UNCHANGED <<wire, owed>>
      BY <1>3, <1>c, <2>4 DEF Send
    <3>2. NothingLostOnLink'
      BY <1>1, <3>1 DEF ReportInv, NothingLostOnLink, OnWire, Stored
    <3>3. NoNewPoints /\ link' \in [Conns -> BOOLEAN]
      BY <1>1, <3>1, SameWire DEF ReportInv, SessionInv, WireTypeOK
    <3>4. Len(samples) - Len(buffer) =< (Len(samples) - Len(buffer))'
      BY <1>1, <2>1
    <3>5. WireTypeOK' /\ WireInv'
      BY <3>3, <3>4, LessOnWire DEF ReportInv
    <3>6. Log!SendNow
      <4>1. {} \in {{}, {Len(samples) + 1}} /\ Transit' = Transit \cup {}
        BY <3>1 DEF Transit, OnWire
      <4> QED
        BY <1>1, <1>3, <4>1, SendingNow
    <3> QED
      BY <3>2, <3>5, <3>6 DEF StepKeeps, LogStep, Log!Next
  <2> QED
    BY <2>3, <2>4
<1> QED
  BY <1>2, <1>3 DEF Report

\* A chunk of the buffer goes out, or its sending fails (flush_backfill).
LEMMA FlushKeeps ==
  ASSUME ReportInv, BufferInv', FlushChunk
  PROVE  StepKeeps
<1>1. /\ now \in Nat /\ buffer \in Seq(Nat) /\ agent.conn \in Conns
      /\ Len(samples) \in Nat /\ Len(buffer) \in Nat
      /\ UNCHANGED <<samples, link, rows>>
  <2>1. now \in Nat /\ buffer \in Seq(Nat) /\ agent.conn \in Conns /\ Len(samples) \in Nat
    BY DEF ReportInv, SessionInv, BufferInv, AgentTypeOK, LinkInv, Agent, FlushChunk
  <2> QED
    BY <2>1 DEF FlushChunk
<1>c. PICK c \in Conns : c = agent.conn
  BY <1>1
<1>2. ASSUME SendFails, UNCHANGED buffer
      PROVE  StepKeeps
  <2>1. UNCHANGED <<wire, owed>>
    BY <1>2 DEF SendFails
  <2> QED
    BY <1>1, <1>2, <2>1, IdleKeeps
<1>3. ASSUME NEW k \in 1..Len(buffer), ChunkLength(k), Send("backfill", SubSeq(buffer, 1, k)),
             buffer' = SubSeq(buffer, k + 1, Len(buffer))
      PROVE  StepKeeps
  <2> DEFINE part == SubSeq(buffer, 1, k)
             m == [kind |-> "backfill", points |-> part, at |-> now]
             old == Len(samples) - Len(buffer)
  <2>1. k \in Nat /\ k =< Len(buffer) /\ k > 0 /\ k =< Chunk
    <3>1. k =< Chunk
      BY <1>3, SessionAssumption DEF ChunkLength, Fits, SessionAssumption
    <3> QED
      BY <1>1, <3>1
  <2>2. part \in Seq(Nat) /\ Len(part) = k /\ \A i \in 1..k : part[i] = buffer[i]
    BY <1>1, <2>1
  <2>3. DOMAIN part = 1..k
    BY <2>2, LenProperties
  <2>4. old \in Int /\ (Len(samples) - Len(buffer))' = old + k
    <3>1. Len(buffer') = Len(buffer) - k
      BY <1>1, <1>3, <2>1
    <3> QED
      BY <1>1, <2>1, <3>1
  <2>5. \A i \in 1..k : buffer[i] = old + i
    <3>1. \A i \in 1..Len(buffer) : buffer[i] = old + i
      BY DEF ReportInv, SessionInv, BufferInv, BufferIsNewest
    <3> QED
      BY <1>1, <2>1, <3>1
  <2> HIDE DEF part
  <2>6. m \in Message /\ Shaped(m)
    BY <1>1, <2>1, <2>2 DEF Message, Shaped
  <2>7. Points(m) = {buffer[i] : i \in 1..k}
    BY <2>2, <2>3 DEF Points
  <2>8. CASE link[c]
    <3>1. Appends(c, m) /\ owed' = owed \cup Points(m)
      BY <1>3, <1>c, <2>8 DEF Send, Appends, part
    <3> HIDE DEF m, old
    <3>2. ASSUME NEW s \in Points(m)
          PROVE  s > old /\ s =< old + k
      <4>1. PICK i \in 1..k : s = old + i
        BY <2>5, <2>7
      <4> QED
        BY <2>1, <2>4, <4>1
    <3>3. \A s \in Points(m) : /\ s > Len(samples) - Len(buffer)
                               /\ s =< (Len(samples) - Len(buffer))'
      BY <2>4, <3>2 DEF old
    <3>4. Len(samples) - Len(buffer) =< (Len(samples) - Len(buffer))'
      BY <2>1, <2>4 DEF old
    <3>5. /\ WireTypeOK' /\ WireInv'
          /\ OnWire(c)' = OnWire(c) \cup Points(m)
          /\ \A d \in Conns \ {c} : OnWire(d)' = OnWire(d)
          /\ Transit' = Transit \cup Points(m)
      <4>1. SessionInv /\ UNCHANGED link /\ m \in Message /\ Shaped(m)
        BY <1>1, <2>6 DEF ReportInv
      <4> QED
        BY <3>1, <3>3, <3>4, <4>1, PutOnWire, Zenon
    <3>6. \A d \in Conns : link[d] => d = c
      BY <1>c DEF ReportInv, SessionInv, LinkInv
    <3>7. NothingLostOnLink'
      <4>1. ASSUME NEW d \in Conns, link'[d], NEW s \in owed'
            PROVE  s \in OnWire(d)' \cup Stored'
        <5>1. d = c /\ link[c]
          BY <1>1, <3>6, <4>1
        <5>2. CASE s \in Points(m)
          BY <3>5, <5>1, <5>2
        <5>3. CASE s \in owed
          <6>1. s \in OnWire(c) \cup Stored
            BY <1>1, <5>1, <5>3 DEF ReportInv, NothingLostOnLink
          <6> QED
            BY <1>1, <3>5, <5>1, <6>1 DEF Stored
        <5> QED
          BY <3>1, <4>1, <5>2, <5>3
      <4> QED
        BY <4>1 DEF NothingLostOnLink
    <3>8. Log!SendKept
      <4> DEFINE sent == {buffer[i] : i \in 1..k}
      <4>1. Transit' = Transit \cup sent
        BY <2>7, <3>5
      <4> QED
        BY <1>1, <1>3, <4>1, SendingKept DEF ReportInv, SessionInv
    <3> QED
      BY <3>5, <3>7, <3>8 DEF StepKeeps, LogStep, Log!Next
  <2>9. CASE ~link[c]
    <3>1. UNCHANGED <<wire, owed>>
      BY <1>3, <1>c, <2>9 DEF Send
    <3>2. NothingLostOnLink'
      BY <1>1, <3>1 DEF ReportInv, NothingLostOnLink, OnWire, Stored
    <3>3. NoNewPoints /\ link' \in [Conns -> BOOLEAN]
      BY <1>1, <3>1, SameWire DEF ReportInv, SessionInv, WireTypeOK
    <3> HIDE DEF old
    <3>4. Len(samples) - Len(buffer) =< (Len(samples) - Len(buffer))'
      BY <2>1, <2>4 DEF old
    <3>5. WireTypeOK' /\ WireInv'
      BY <3>3, <3>4, LessOnWire DEF ReportInv
    <3>6. Log!SendKept
      <4>1. Transit' = Transit \cup {}
        BY <3>1 DEF Transit, OnWire
      <4> QED
        BY <1>1, <1>3, <4>1, SendingKept DEF ReportInv, SessionInv
    <3> QED
      BY <3>2, <3>5, <3>6 DEF StepKeeps, LogStep, Log!Next
  <2> QED
    BY <2>8, <2>9
<1> QED
  BY <1>2, <1>3 DEF FlushChunk

\* The agent is started again.
LEMMA RestartKeeps ==
  ASSUME ReportInv, BufferInv', AgentRestarts
  PROVE  StepKeeps
<1>1. /\ Len(samples) \in Nat /\ Len(buffer) \in Nat
      /\ UNCHANGED <<samples, rows>> /\ buffer' = <<>> /\ Len(buffer') = 0
      /\ agent.conn \in Conns \cup {None}
  BY DEF ReportInv, SessionInv, BufferInv, AgentTypeOK, Agent, AgentRestarts
<1>2. NoNewPoints /\ link' \in [Conns -> BOOLEAN] /\ NothingLostOnLink'
  <2>1. CASE agent.conn = None
    <3>1. UNCHANGED <<link, wire, owed, rows>>
      BY <2>1 DEF AgentRestarts
    <3>2. NothingLostOnLink'
      BY <3>1 DEF ReportInv, NothingLostOnLink, OnWire, Stored
    <3> QED
      BY <3>1, <3>2, SameWire DEF ReportInv, SessionInv, WireTypeOK
  <2>2. CASE agent.conn # None
    <3>1. agent.conn \in Conns /\ Cut(agent.conn)
      BY <1>1, <2>2 DEF AgentRestarts
    <3> QED
      BY <3>1, CutWire DEF ReportInv, SessionInv
  <2> QED
    BY <2>1, <2>2
<1>3. Len(samples) - Len(buffer) =< (Len(samples) - Len(buffer))'
  BY <1>1
<1>4. WireTypeOK' /\ WireInv' /\ Transit' \subseteq Transit
  BY <1>2, <1>3, LessOnWire DEF ReportInv, Transit
<1>5. Log!Forget
  <2>1. Kept' = {}
    BY <1>1 DEF Kept
  <2>2. UNCHANGED <<Len(samples), Stored>>
    BY <1>1 DEF Stored
  <2> QED
    BY <1>4, <2>1, <2>2 DEF Log!Forget, Kept, Transit
<1> QED
  BY <1>2, <1>4, <1>5 DEF StepKeeps, LogStep, Log!Next

\* Rows that are added bring their samples.
LEMMA StoredGrows ==
  ASSUME NEW new, rows' = rows \cup new
  PROVE  Stored' = Stored \cup {r.id : r \in new}
<1>1. \A i \in Stored' : i \in Stored \cup {r.id : r \in new}
  BY DEF Stored
<1>2. \A i \in Stored \cup {r.id : r \in new} : i \in Stored'
  BY DEF Stored
<1> QED
  BY <1>1, <1>2

\* A report is stored or refused (handle_msg).
LEMMA MetricsKeeps ==
  ASSUME ReportInv, BufferInv', NEW c \in Conns, wire[c] # <<>>, Metrics(c), UNCHANGED <<samples, buffer>>
  PROVE  StepKeeps
<1> DEFINE s == Head(wire[c]).points[1]
<1>1. Take(c) /\ Head(wire[c]).kind = "metrics"
  BY DEF Metrics
<1>2. Points(Head(wire[c])) = {s}
  <2>1. Head(wire[c]) \in Message /\ Shaped(Head(wire[c]))
    <3>1. wire[c] \in Seq(Message) /\ Head(wire[c]) = wire[c][1] /\ 1 \in DOMAIN wire[c]
      <4>1. wire[c] \in Seq(Message)
        BY DEF ReportInv, SessionInv, WireTypeOK
      <4> QED
        BY <4>1
    <3> QED
      BY <3>1, OnWireTyped DEF ReportInv, SessionInv, WireTypeOK
  <2>2. Head(wire[c]).points \in Seq(Nat) /\ Len(Head(wire[c]).points) = 1
    BY <1>1, <2>1 DEF Message, Shaped
  <2>3. DOMAIN Head(wire[c]).points = {1}
    BY <2>2, LenProperties
  <2> QED
    BY <2>3 DEF Points
<1> DEFINE row == [ts |-> now, id |-> s]
<1>3. CASE rows' = rows \cup {row} /\ UNCHANGED owed
  <2>1. Stored' = Stored \cup {s}
    <3>1. row.id = s
      OBVIOUS
    <3> HIDE DEF row
    <3>2. {r.id : r \in {row}} = {s}
      BY <3>1
    <3> QED
      BY <1>3, <3>2, StoredGrows
  <2>2. owed' = IF link[c] THEN owed \ {} ELSE owed
    BY <1>3
  <2> HIDE DEF s
  <2> QED
    BY <1>1, <1>2, <2>1, <2>2, TakingKeeps
<1>4. CASE Refuse(c, {s}) /\ UNCHANGED rows
  <2>1. Stored' = Stored \cup {}
    BY <1>4 DEF Stored
  <2>2. owed' = IF link[c] THEN owed \ {s} ELSE owed
    BY <1>4 DEF Refuse
  <2> HIDE DEF s
  <2> QED
    BY <1>1, <1>2, <2>1, <2>2, TakingKeeps
<1> QED
  BY <1>3, <1>4, Zenon DEF Metrics

\* Hello carries no sample.
LEMMA HelloKeeps ==
  ASSUME ReportInv, BufferInv', NEW c \in Conns, wire[c] # <<>>, Hello(c), UNCHANGED <<samples, buffer>>
  PROVE  StepKeeps
<1>1. Take(c) /\ Head(wire[c]).kind = "hello" /\ UNCHANGED <<rows, owed>>
  BY DEF Hello
<1>2. Points(Head(wire[c])) = {}
  <2>1. wire[c] \in Seq(Message)
    BY DEF ReportInv, SessionInv, WireTypeOK
  <2>2. Head(wire[c]) = wire[c][1] /\ 1 \in DOMAIN wire[c]
    BY <2>1
  <2>3. Head(wire[c]).points = <<>>
    BY <1>1, <2>2 DEF ReportInv, SessionInv, WireTypeOK, Shaped
  <2> QED
    BY <2>3 DEF Points
<1>3. Stored' = Stored \cup {} /\ owed' = IF link[c] THEN owed \ {} ELSE owed
  BY <1>1 DEF Stored
<1> QED
  BY <1>1, <1>2, <1>3, TakingKeeps

\* The server hears every point of a chunk; it stores or refuses each of them, or
\* its loop ends (handle_msg, insert_backfill).
LEMMA BackfillKeeps ==
  ASSUME ReportInv, BufferInv', NEW c \in Conns, wire[c] # <<>>, Backfill(c), UNCHANGED <<samples, buffer>>
  PROVE  StepKeeps
<1> DEFINE m == Head(wire[c])
           heard == Heard(m.points)
           given == {heard[i] : i \in DOMAIN heard}
<1>1. CASE Leave(c) /\ UNCHANGED rows
  <2>1. NoNewPoints /\ link' \in [Conns -> BOOLEAN] /\ NothingLostOnLink'
    BY <1>1, LeaveWire DEF ReportInv, SessionInv
  <2> QED
    BY <1>1, <2>1, QuietKeeps
<1>2. given = Points(m)
  <2>1. m \in Message /\ Shaped(m)
    <3>1. wire[c] \in Seq(Message)
      BY DEF ReportInv, SessionInv, WireTypeOK
    <3>2. m = wire[c][1] /\ 1 \in DOMAIN wire[c]
      BY <3>1
    <3> QED
      BY <3>2, OnWireTyped DEF ReportInv, SessionInv, WireTypeOK
  <2>2. m.kind = "backfill"
    BY DEF Backfill
  <2> HIDE DEF m
  <2>3. m.points \in Seq(Nat) /\ Len(m.points) \in Nat /\ Len(m.points) =< Chunk
    BY <2>1, <2>2, LenProperties DEF Message, Shaped
  <2>4. Least(Len(m.points), MaxPoints) = Len(m.points)
    BY <2>3, SessionAssumption DEF Least, SessionAssumption
  <2>5. heard = m.points
    BY <2>3, <2>4, SubSeqFull DEF Heard
  <2> QED
    BY <2>5 DEF Points
<1>3. ASSUME NEW failed \in SUBSET given,
             rows' = rows \cup {[ts |-> samples[s], id |-> s] : s \in Accepted(heard, failed)},
             Refuse(c, given \ Accepted(heard, failed)), Take(c)
      PROVE  StepKeeps
  <2> DEFINE new == Accepted(heard, failed)
             lost == given \ new
  <2>1. new \in SUBSET given
    BY DEF Accepted
  <2>2. Stored' = Stored \cup new
    <3> DEFINE added == {[ts |-> samples[s], id |-> s] : s \in new}
    <3>1. rows' = rows \cup added
      BY <1>3
    <3> HIDE DEF new
    <3>2. {r.id : r \in added} = new
      <4>1. \A r \in added : r.id \in new
        OBVIOUS
      <4>2. ASSUME NEW s \in new
            PROVE  s \in {r.id : r \in added}
        <5>1. [ts |-> samples[s], id |-> s] \in added /\ [ts |-> samples[s], id |-> s].id = s
          OBVIOUS
        <5> HIDE DEF added
        <5> QED
          BY <5>1
      <4> QED
        BY <4>1, <4>2
    <3> HIDE DEF added
    <3> QED
      BY <3>1, <3>2, StoredGrows
  <2>3. owed' = IF link[c] THEN owed \ lost ELSE owed
    BY <1>3 DEF Refuse
  <2> HIDE DEF new, heard, given
  <2>4. new \in SUBSET Points(Head(wire[c])) /\ Points(Head(wire[c])) \subseteq lost \cup Stored'
    BY <1>2, <2>1, <2>2
  <2> HIDE DEF lost
  <2> QED
    BY <1>3, <2>2, <2>3, <2>4, TakingKeeps
<1> QED
  BY <1>1, <1>3, Zenon DEF Backfill

\* A step of the server's loop.
LEMMA ServeKeeps ==
  ASSUME ReportInv, BufferInv', NEW c \in Conns, Serve(c)
  PROVE  StepKeeps
<1>1. UNCHANGED <<samples, buffer>>
  BY DEF Serve, Receive, PeerGone, agentVars
<1>2. ASSUME Leave(c), UNCHANGED rows
      PROVE  StepKeeps
  <2>1. NoNewPoints /\ link' \in [Conns -> BOOLEAN] /\ NothingLostOnLink'
    BY <1>2, LeaveWire DEF ReportInv, SessionInv
  <2> QED
    BY <1>1, <1>2, <2>1, QuietKeeps
<1>3. CASE PeerGone(c)
  BY <1>2, <1>3 DEF PeerGone
<1>4. CASE Receive(c)
  <2>1. wire[c] # <<>>
    BY <1>4 DEF Receive
  <2>2. Hello(c) \/ Metrics(c) \/ Backfill(c) \/ (Leave(c) /\ UNCHANGED rows)
    BY <1>4 DEF Receive
  <2> QED
    BY <1>1, <1>2, <2>1, <2>2, HelloKeeps, MetricsKeeps, BackfillKeeps
<1> QED
  BY <1>3, <1>4 DEF Serve

\* Every step keeps the invariant, and is a step of the log.
LEMMA ReportInvStep == ReportInv /\ [Next]_vars => ReportInv' /\ LogStep
<1> SUFFICES ASSUME ReportInv, [Next]_vars
             PROVE  ReportInv' /\ LogStep
  OBVIOUS
<1>1. BufferInv'
  BY BufferInvStep DEF ReportInv, SessionInv
<1>2. LinkInv'
  BY LinkInvStep DEF ReportInv, SessionInv
<1>3. SUFFICES StepKeeps
  BY <1>1, <1>2 DEF StepKeeps, ReportInv, SessionInv
<1>4. ASSUME NoNewPoints /\ link' \in [Conns -> BOOLEAN] /\ NothingLostOnLink',
             UNCHANGED <<samples, buffer, rows>>
      PROVE  StepKeeps
  BY <1>1, <1>4, QuietKeeps
<1>5. ASSUME NEW c \in Conns, Connect(c)
      PROVE  StepKeeps
  <2>1. NoNewPoints /\ link' \in [Conns -> BOOLEAN] /\ NothingLostOnLink'
    BY <1>5, HelloWire DEF ReportInv, SessionInv
  <2> QED
    BY <1>4, <1>5, <2>1 DEF Connect
<1>6. ASSUME NEW c \in Conns, Break(c) \/ (CloseFrame /\ c = agent.conn)
      PROVE  StepKeeps
  <2>1. Cut(c)
    BY <1>6 DEF Break, CloseFrame
  <2>2. NoNewPoints /\ link' \in [Conns -> BOOLEAN] /\ NothingLostOnLink'
    BY <2>1, CutWire DEF ReportInv, SessionInv
  <2> QED
    BY <1>4, <1>6, <2>2 DEF Break, CloseFrame, agentVars
<1>7. CASE FlushChunk
  BY <1>1, <1>7, FlushKeeps
<1>8. CASE Report
  BY <1>1, <1>8, ReportKeeps
<1>9. CASE AgentRestarts
  BY <1>1, <1>9, RestartKeeps
<1>10. CASE WaitSample
  <2>1. Len(samples') = Len(samples) + 1
    <3>1. samples \in Seq(Int) /\ now + Skew \in Int /\ samples' = Append(samples, now + Skew)
      BY <1>10, ConstantTypes
      DEF ReportInv, SessionInv, BufferInv, AgentTypeOK, WaitSample, TakeSample
    <3> QED
      BY <3>1
  <2> QED
    BY <1>1, <1>10, <2>1, BufferingKeeps DEF WaitSample
<1>11. CASE CloseFrame
  <2>1. agent.conn \in Conns
    BY <1>11 DEF CloseFrame, ReportInv, SessionInv, BufferInv, AgentTypeOK, Agent, LinkInv
  <2> QED
    BY <1>6, <1>11, <2>1
<1>12. CASE FlushDone \/ SessionLost \/ WaitEnds \/ ConnectFails \/ Tick \/ UNCHANGED vars
  <2>1. UNCHANGED <<samples, buffer, wire, link, rows, owed>>
    BY <1>12 DEF FlushDone, SessionLost, WaitEnds, ConnectFails, Tick, vars, agentVars
  <2> QED
    BY <1>1, <2>1, IdleKeeps
<1> QED
  BY <1>1, <1>5, <1>6, <1>7, <1>8, <1>9, <1>10, <1>11, <1>12, ServeKeeps DEF Next, AgentStep

\* The agent starts with nothing on its way.
LEMMA ReportInvInit == Init => ReportInv /\ Log!Init
<1> SUFFICES ASSUME Init
             PROVE  ReportInv /\ Log!Init
  OBVIOUS
<1>1. BufferInv
  BY BufferInvInit
<1>2. \A c \in Conns : wire[c] = <<>> /\ link[c] = FALSE
  BY DEF Init
<1>3. WireTypeOK
  BY <1>2 DEF Init, WireTypeOK
<1>4. LinkInv
  BY <1>2 DEF Init, FirstDial, LinkInv
<1>5. WireInv
  BY <1>2 DEF WireInv
<1>6. NothingLostOnLink
  BY <1>2 DEF NothingLostOnLink
<1>7. Log!Init
  <2>1. \A c \in Conns : OnWire(c) = {}
    BY <1>2 DEF OnWire
  <2> QED
    BY <2>1 DEF Init, Log!Init, Stored
<1> QED
  BY <1>1, <1>3, <1>4, <1>5, <1>6, <1>7 DEF ReportInv, SessionInv

-----------------------------------------------------------------------------
(* Sums.  The library's induction takes a predicate, which cannot be given  *)
(* here; a least counterexample does as well.                              *)

\* A set of naturals that is not empty has a least element.
LEMMA LeastElement ==
  ASSUME NEW T, T \subseteq Nat, T # {}
  PROVE  \E x \in T : \A y \in T : x =< y
<1>1. PICK x \in T : \A y \in T : ~(<<y, x>> \in OpToRel(<, Nat))
  BY NatLessThanWellFounded, WFMin, Zenon
<1>2. \A y \in T : ~(y < x)
  BY <1>1 DEF OpToRel
<1> QED
  BY <1>2

\* g adds F up over every subset of S, one chosen element after the other, as
\* MapThenSumSet does.
AddsUp(g, F, S) ==
    g = [s \in SUBSET S |->
           IF s = {} THEN 0 ELSE F[CHOOSE x \in s : TRUE] + g[s \ {CHOOSE x \in s : TRUE}]]

\* g does so for the subsets of up to n elements.
AddsUpTo(g, F, S, n) ==
    /\ g \in [SUBSET S -> Nat]
    /\ \A s \in SUBSET S : Cardinality(s) =< n =>
         g[s] = IF s = {} THEN 0 ELSE F[CHOOSE x \in s : TRUE] + g[s \ {CHOOSE x \in s : TRUE}]

\* Without its chosen element a set is smaller by one.
LEMMA Smaller ==
  ASSUME NEW S, IsFiniteSet(S), NEW s \in SUBSET S, s # {}
  PROVE  /\ (CHOOSE x \in s : TRUE) \in s
         /\ s \ {CHOOSE x \in s : TRUE} \in SUBSET S
         /\ Cardinality(s) \in Nat
         /\ Cardinality(s \ {CHOOSE x \in s : TRUE}) = Cardinality(s) - 1
         /\ Cardinality(s) > 0
<1>1. (CHOOSE x \in s : TRUE) \in s
  OBVIOUS
<1> DEFINE c == CHOOSE x \in s : TRUE
<1> HIDE DEF c
<1>2. IsFiniteSet(s)
  BY FS_Subset
<1>3. c \in s
  BY <1>1 DEF c
<1>4. Cardinality(s \ {c}) = Cardinality(s) - 1
  BY <1>2, <1>3, FS_RemoveElement
<1>5. Cardinality(s) \in Nat /\ Cardinality(s) # 0
  BY <1>2, FS_CardinalityType, FS_EmptySet
<1> QED
  BY <1>1, <1>4, <1>5 DEF c

\* A finite set can be added up: no size is the first at which it fails.
LEMMA SomethingAddsUp ==
  ASSUME NEW S, IsFiniteSet(S), NEW F \in [S -> Nat]
  PROVE  \E g \in [SUBSET S -> Nat] : AddsUp(g, F, S)
<1> DEFINE bad == {n \in Nat : ~\E g : AddsUpTo(g, F, S, n)}
<1>fin. \A s \in SUBSET S : Cardinality(s) \in Nat /\ (Cardinality(s) = 0 => s = {})
  BY FS_Subset, FS_CardinalityType, FS_EmptySet
<1>1. bad = {}
  <2>1. SUFFICES ASSUME bad # {} PROVE FALSE
    OBVIOUS
  <2>2. PICK n \in bad : \A m \in bad : n =< m
    BY <2>1, LeastElement
  <2>3. CASE n = 0
    <3> DEFINE z == [s \in SUBSET S |-> 0]
    <3>1. z \in [SUBSET S -> Nat]
      OBVIOUS
    <3>2. \A s \in SUBSET S : Cardinality(s) =< 0 => z[s] = 0 /\ s = {}
      BY <1>fin
    <3>3. AddsUpTo(z, F, S, 0)
      BY <3>1, <3>2 DEF AddsUpTo
    <3> QED
      BY <2>3, <3>3
  <2>4. CASE n # 0
    <3>1. n - 1 \in Nat /\ n \in Nat /\ n - 1 \notin bad
      BY <2>2, <2>4
    <3>2. PICK g : AddsUpTo(g, F, S, n - 1)
      BY <3>1
    <3> DEFINE h == [s \in SUBSET S |->
                       IF s = {} THEN 0 ELSE F[CHOOSE x \in s : TRUE] + g[s \ {CHOOSE x \in s : TRUE}]]
    <3>3. g \in [SUBSET S -> Nat]
      BY <3>2 DEF AddsUpTo
    <3>4. h \in [SUBSET S -> Nat]
      <4>1. ASSUME NEW s \in SUBSET S, s # {}
            PROVE  F[CHOOSE x \in s : TRUE] + g[s \ {CHOOSE x \in s : TRUE}] \in Nat
        BY <3>3, <4>1, Smaller
      <4> QED
        BY <4>1
    <3>5. ASSUME NEW s \in SUBSET S, Cardinality(s) =< n - 1
          PROVE  h[s] = g[s]
      BY <3>2, <3>5 DEF AddsUpTo
    <3>6. ASSUME NEW s \in SUBSET S, Cardinality(s) =< n, s # {}
          PROVE  g[s \ {CHOOSE x \in s : TRUE}] = h[s \ {CHOOSE x \in s : TRUE}]
      <4>1. /\ s \ {CHOOSE x \in s : TRUE} \in SUBSET S
            /\ Cardinality(s \ {CHOOSE x \in s : TRUE}) =< n - 1
        BY <3>1, <3>6, Smaller
      <4> QED
        BY <3>5, <4>1
    <3>7. AddsUpTo(h, F, S, n)
      <4>1. \A s \in SUBSET S : h[s] = IF s = {} THEN 0
               ELSE F[CHOOSE x \in s : TRUE] + g[s \ {CHOOSE x \in s : TRUE}]
        OBVIOUS
      <4> HIDE DEF h
      <4> QED
        BY <3>4, <3>6, <4>1, Zenon DEF AddsUpTo
    <3> QED
      BY <3>7, <2>2
  <2> QED
    BY <2>3, <2>4
<1>2. Cardinality(S) \in Nat
  BY <1>fin
<1>3. PICK g : AddsUpTo(g, F, S, Cardinality(S))
  BY <1>1, <1>2
<1>4. \A s \in SUBSET S : Cardinality(s) =< Cardinality(S)
  BY FS_Subset
<1>5. g \in [SUBSET S -> Nat] /\ \A s \in SUBSET S :
         g[s] = IF s = {} THEN 0 ELSE F[CHOOSE x \in s : TRUE] + g[s \ {CHOOSE x \in s : TRUE}]
  BY <1>3, <1>4, Zenon DEF AddsUpTo
<1>6. g = [s \in SUBSET S |->
           IF s = {} THEN 0 ELSE F[CHOOSE x \in s : TRUE] + g[s \ {CHOOSE x \in s : TRUE}]]
  BY <1>5
<1> QED
  BY <1>5, <1>6, Zenon DEF AddsUp

\* What adding up gives for no element, and for one more.
Unfolds(g, F, S) ==
    /\ g[{}] = 0
    /\ \A s \in SUBSET S : s # {} =>
         g[s] = F[CHOOSE x \in s : TRUE] + g[s \ {CHOOSE x \in s : TRUE}]

\* A sum over the subsets of S has these values.
LEMMA AddsUpUnfolds ==
  ASSUME NEW S, NEW F, NEW g, AddsUp(g, F, S)
  PROVE  Unfolds(g, F, S)
BY DEF AddsUp, Unfolds

\* Of values of at most M each the sum is at most M for each.
LEMMA SumBounded ==
  ASSUME NEW S, IsFiniteSet(S), NEW F \in [S -> Nat], NEW M \in Nat, \A x \in S : F[x] =< M,
         NEW g, AddsUp(g, F, S)
  PROVE  g[S] \in Nat /\ g[S] =< M * Cardinality(S)
<1> DEFINE ok(s) == g[s] \in Nat /\ g[s] =< M * Cardinality(s)
           bad == {Cardinality(s) : s \in {t \in SUBSET S : ~ok(t)}}
<1>fin. \A s \in SUBSET S : Cardinality(s) \in Nat
  BY FS_Subset, FS_CardinalityType
<1>2. Unfolds(g, F, S)
  BY AddsUpUnfolds, Zenon
<1>3. ok({})
  <2>1. Cardinality({}) = 0
    BY FS_EmptySet
  <2> QED
    BY <1>2, <2>1 DEF Unfolds
<1>4. bad = {}
  <2>1. SUFFICES ASSUME bad # {} PROVE FALSE
    OBVIOUS
  <2>2. bad \subseteq Nat
    BY <1>fin
  <2>3. PICK n \in bad : \A m \in bad : n =< m
    BY <2>1, <2>2, LeastElement
  <2>4. PICK s \in SUBSET S : ~ok(s) /\ Cardinality(s) = n
    BY <2>3
  <2>5. s # {}
    BY <1>3, <2>4
  <2> DEFINE c == CHOOSE x \in s : TRUE
             r == s \ {c}
  <2>6. c \in S /\ r \in SUBSET S /\ Cardinality(r) = n - 1 /\ n \in Nat
    BY <2>4, <2>5, Smaller
  <2>7. ok(r)
    <3>1. Cardinality(r) \notin bad
      BY <2>3, <2>6
    <3> QED
      BY <2>6, <3>1
  <2>8. g[s] = F[c] + g[r]
    BY <1>2, <2>5 DEF Unfolds
  <2>9. F[c] \in Nat /\ F[c] =< M
    BY <2>6
  <2> HIDE DEF c, r
  <2>10. M * (n - 1) + M = M * n /\ M * n \in Int /\ M * (n - 1) \in Int
    BY <2>6
  <2>11. ok(s)
    BY <2>4, <2>6, <2>7, <2>8, <2>9, <2>10
  <2> QED
    BY <2>4, <2>11
<1>5. ok(S)
  <2>1. S \in SUBSET S
    OBVIOUS
  <2> QED
    BY <1>4, <2>1
<1> QED
  BY <1>5

\* The bytes of a message: at most those of as many large points.
LEMMA BytesBounded ==
  ASSUME NEW points \in Seq(Nat)
  PROVE  Bytes(points) \in Nat /\ Bytes(points) =< LargeSize * Len(points)
<1> DEFINE D == DOMAIN points
           F == [i \in D |-> Size(points[i])]
           Iter(h) == h = [s \in SUBSET D |-> IF s = {} THEN 0
                             ELSE Size(points[CHOOSE x \in s : TRUE]) + h[s \ {CHOOSE x \in s : TRUE}]]
           g == CHOOSE h : Iter(h)
<1>1. LargeSize \in Nat /\ LargeSize >= 1
  BY SessionAssumption DEF SessionAssumption
<1>2. F \in [D -> Nat] /\ \A i \in D : F[i] =< LargeSize
  BY <1>1 DEF Size
<1>3. Len(points) \in Nat /\ D = 1..Len(points)
  OBVIOUS
<1>4. IsFiniteSet(D) /\ Cardinality(D) = Len(points)
  <2>1. 0 \in Int /\ 1 \in Int /\ Len(points) \in Int
    BY <1>3
  <2> HIDE DEF D
  <2>2. IsFiniteSet(1..Len(points)) /\ Cardinality(1..Len(points)) = Len(points)
    <3>1. \A l \in Nat : IsFiniteSet(1..l) /\ Cardinality(1..l) = l
      BY FS_Interval
    <3> QED
      BY <1>3, <3>1, Zenon
  <2> QED
    BY <1>3, <2>2, Zenon
<1>5. \A h : AddsUp(h, F, D) <=> Iter(h)
  <2>1. \A s \in SUBSET D : s # {} => F[CHOOSE x \in s : TRUE] = Size(points[CHOOSE x \in s : TRUE])
    OBVIOUS
  <2> HIDE DEF D, F
  <2> SUFFICES ASSUME NEW h
               PROVE  AddsUp(h, F, D) <=> Iter(h)
    OBVIOUS
  <2> DEFINE L == [s \in SUBSET D |-> IF s = {} THEN 0
                     ELSE F[CHOOSE x \in s : TRUE] + h[s \ {CHOOSE x \in s : TRUE}]]
             R == [s \in SUBSET D |-> IF s = {} THEN 0
                     ELSE Size(points[CHOOSE x \in s : TRUE]) + h[s \ {CHOOSE x \in s : TRUE}]]
  <2>2. L = R
    BY <2>1
  <2>3. AddsUp(h, F, D) <=> h = L
    BY DEF AddsUp
  <2>4. Iter(h) <=> h = R
    OBVIOUS
  <2> QED
    BY <2>2, <2>3, <2>4
<1>6. Bytes(points) = g[D]
  BY SMT DEF Bytes, MapThenSumSet, MapThenFoldSet
<1> HIDE DEF D, F, Iter
<1>7. PICK h \in [SUBSET D -> Nat] : AddsUp(h, F, D)
  BY <1>2, <1>4, SomethingAddsUp
<1>8. AddsUp(g, F, D)
  <2>1. Iter(h)
    BY <1>5, <1>7, Zenon
  <2>2. Iter(g)
    BY <2>1, Zenon
  <2> QED
    BY <1>5, <2>2, Zenon
<1> HIDE DEF g
<1>9. g[D] \in Nat /\ g[D] =< LargeSize * Cardinality(D)
  BY <1>1, <1>2, <1>4, <1>8, SumBounded
<1> QED
  BY <1>4, <1>6, <1>9

-----------------------------------------------------------------------------
(* The rate.                                                               *)

\* So many points always fit a chunk.
SureChunk == IF LargeSize =< ChunkBytes THEN Least(Chunk, ChunkBytes \div LargeSize) ELSE 1

\* What the back-fill of b points costs at most, in chunks as small as they may be.
Remaining(b) == IF b = 0 THEN 0 ELSE b + MessageCost * ((b - 1) \div SureChunk + 1)

\* Hello and a full buffer.
FlushCost == MessageCost + Remaining(Capacity)

\* So many intervals pass while a message is on its way.
Delayed == MaxDelay \div Interval

\* What the bucket must hold for the agent never to be cut off: any chunk and any
\* point is a frame that the server takes, an interval brings in what a report costs,
\* and a full bucket pays for Hello, a full buffer in the smallest chunks, the reports
\* that may be late, and one more.
RateFits ==
    /\ ChunkBytes =< MaxMessage /\ LargeSize =< MaxMessage
    /\ MessageCost =< RefillRate * Interval
    /\ FlushCost + MessageCost * (Delayed + 2) =< Bucket

\* The quotient of naturals is the integral part.
LEMMA Division ==
  ASSUME NEW a \in Nat, NEW k \in Nat \ {0}
  PROVE  /\ a \div k \in Nat
         /\ k * (a \div k) =< a
         /\ a < k * (a \div k) + k
<1> DEFINE q == a \div k
           r == a % k
<1>1. q \in Int /\ r \in 0 .. k - 1 /\ a = k * q + r
  OBVIOUS
<1> HIDE DEF q, r
<1>2. q >= 0
  <2>1. \A i, j \in Int : j > 0 /\ 0 >= i + 1 => j * i + j =< 0
    OBVIOUS
  <2>2. 0 >= q + 1 => k * q + k =< 0
    BY <1>1, <2>1
  <2>3. k * q \in Int
    BY <1>1
  <2> QED
    BY <1>1, <2>2, <2>3
<1>3. k * q \in Int
  BY <1>1
<1> QED
  BY <1>1, <1>2, <1>3 DEF q

\* Products with a natural grow with the other factor.
LEMMA Times ==
  ASSUME NEW k \in Nat, NEW a \in Int, NEW b \in Int
  PROVE  /\ k * a \in Int /\ k * b \in Int
         /\ a =< b => k * a =< k * b
         /\ k # 0 /\ k * a < k * b => a < b
<1>1. k * a \in Int /\ k * b \in Int
  OBVIOUS
<1>2. a =< b => k * a =< k * b
  OBVIOUS
<1>3. b =< a => k * b =< k * a
  OBVIOUS
<1> QED
  BY <1>1, <1>2, <1>3

\* A quotient grows with what is divided, by one at least for each divisor more.
LEMMA DivisionGrows ==
  ASSUME NEW x \in Nat, NEW y \in Nat, NEW k \in Nat \ {0}
  PROVE  /\ y =< x => y \div k =< x \div k
         /\ y + k =< x => y \div k + 1 =< x \div k
<1>1. PICK p \in Nat : p = x \div k /\ k * p =< x /\ x < k * p + k
  BY Division
<1>2. PICK q \in Nat : q = y \div k /\ k * q =< y /\ y < k * q + k
  BY Division
<1>3. k * (p + 1) = k * p + k /\ k * p \in Int /\ k * q \in Int /\ k * (q + 1) = k * q + k
  OBVIOUS
<1>4. y =< x => q =< p
  <2>1. y =< x => k * q < k * (p + 1)
    BY <1>1, <1>2, <1>3
  <2>2. k * q < k * (p + 1) => q < p + 1
    BY Times
  <2> QED
    BY <2>1, <2>2
<1>5. y + k =< x => q + 1 =< p
  <2>1. y + k =< x => k * (q + 1) < k * (p + 1)
    BY <1>1, <1>2, <1>3
  <2>2. k * (q + 1) < k * (p + 1) => q + 1 < p + 1
    BY Times
  <2> QED
    BY <2>1, <2>2
<1> QED
  BY <1>1, <1>2, <1>4, <1>5

\* What the proofs about the rate use of the constants.
LEMMA RateConstants ==
    /\ Bucket \in Nat /\ MessageCost \in Nat /\ RefillRate \in Nat /\ MaxMessage \in Nat
    /\ Interval \in Nat \ {0} /\ MaxDelay \in Nat /\ Capacity \in Nat \ {0}
    /\ LargeSize \in Nat \ {0} /\ Chunk \in Nat \ {0} /\ ChunkBytes \in Nat
    /\ SureChunk \in Nat \ {0} /\ Delayed \in Nat
<1>1. /\ Bucket \in Nat /\ MessageCost \in Nat /\ RefillRate \in Nat /\ MaxMessage \in Nat
      /\ Interval \in Nat \ {0} /\ MaxDelay \in Nat /\ Capacity \in Nat \ {0}
      /\ LargeSize \in Nat \ {0} /\ Chunk \in Nat \ {0} /\ ChunkBytes \in Nat
  BY SessionAssumption DEF SessionAssumption
<1>2. Delayed \in Nat
  BY <1>1, Division DEF Delayed
<1>3. SureChunk \in Nat \ {0}
  <2>1. CASE LargeSize =< ChunkBytes
    <3>1. PICK q \in Nat : q = ChunkBytes \div LargeSize /\ LargeSize * q =< ChunkBytes
                           /\ ChunkBytes < LargeSize * q + LargeSize
      BY <1>1, Division
    <3>2. q # 0
      BY <1>1, <2>1, <3>1
    <3> QED
      BY <1>1, <2>1, <3>1, <3>2 DEF SureChunk, Least
  <2>2. CASE ~(LargeSize =< ChunkBytes)
    BY <2>2 DEF SureChunk
  <2> QED
    BY <2>1, <2>2
<1> QED
  BY <1>1, <1>2, <1>3

\* So many points fit a chunk, whichever they are.
LEMMA SureFits ==
  ASSUME buffer \in Seq(Nat), NEW n \in 1..SureChunk, n =< Len(buffer)
  PROVE  Fits(n)
<1>1. CASE LargeSize =< ChunkBytes
  <2>1. PICK q \in Nat : q = ChunkBytes \div LargeSize /\ LargeSize * q =< ChunkBytes
    BY RateConstants, Division
  <2>2. n \in Nat /\ n =< Chunk /\ n =< q
    BY <1>1, <2>1, RateConstants DEF SureChunk, Least
  <2> DEFINE points == SubSeq(buffer, 1, n)
  <2>3. points \in Seq(Nat) /\ Len(points) = n
    BY <2>2
  <2> HIDE DEF points
  <2>4. Bytes(points) \in Nat /\ Bytes(points) =< LargeSize * n
    BY <2>3, BytesBounded
  <2>5. LargeSize * n =< LargeSize * q /\ LargeSize * n \in Int /\ LargeSize * q \in Int
    BY <2>2, RateConstants, Times
  <2>6. Bytes(points) =< ChunkBytes
    BY <2>1, <2>4, <2>5, RateConstants
  <2> QED
    BY <2>2, <2>6 DEF Fits, points
<1>2. CASE ~(LargeSize =< ChunkBytes)
  BY <1>2 DEF SureChunk, Fits
<1> QED
  BY <1>1, <1>2

\* A buffer that is not empty costs its points and a message at least.
LEMMA RemainingTyped ==
  ASSUME NEW b \in Nat
  PROVE  Remaining(b) \in Nat /\ (b # 0 => Remaining(b) >= b + MessageCost)
<1>1. CASE b = 0
  BY <1>1 DEF Remaining
<1>2. CASE b # 0
  <2>1. PICK q \in Nat : q = (b - 1) \div SureChunk
    <3>1. b - 1 \in Nat
      BY <1>2
    <3> QED
      BY <3>1, RateConstants, Division
  <2>2. MessageCost * 1 =< MessageCost * (q + 1) /\ MessageCost * (q + 1) \in Int
    BY RateConstants, Times
  <2>3. Remaining(b) = b + MessageCost * (q + 1)
    BY <1>2, <2>1 DEF Remaining
  <2> QED
    BY <2>2, <2>3, RateConstants
<1> QED
  BY <1>1, <1>2

\* A longer buffer costs no less.
LEMMA RemainingGrows ==
  ASSUME NEW a \in Nat, NEW b \in Nat, a =< b
  PROVE  Remaining(a) =< Remaining(b)
<1>1. CASE a = 0
  <2>1. Remaining(a) = 0
    BY <1>1 DEF Remaining
  <2> QED
    BY <2>1, RemainingTyped
<1>2. CASE a # 0
  <2>0. a - 1 \in Nat /\ b - 1 \in Nat /\ a - 1 =< b - 1 /\ b # 0
    BY <1>2
  <2>1. PICK p \in Nat, q \in Nat : /\ p = (a - 1) \div SureChunk /\ q = (b - 1) \div SureChunk
                                    /\ p =< q
    BY <2>0, RateConstants, Division, DivisionGrows
  <2>2. MessageCost * (p + 1) =< MessageCost * (q + 1)
        /\ MessageCost * (p + 1) \in Int /\ MessageCost * (q + 1) \in Int
    BY <2>1, RateConstants, Times
  <2>3. Remaining(a) = a + MessageCost * (p + 1) /\ Remaining(b) = b + MessageCost * (q + 1)
    BY <1>2, <2>0, <2>1 DEF Remaining
  <2> QED
    BY <2>2, <2>3
<1> QED
  BY <1>1, <1>2

\* A chunk pays its share of what was reckoned for the buffer.
LEMMA RemainingLess ==
  ASSUME NEW b \in Nat, NEW n \in 1..b, n < b => n >= SureChunk
  PROVE  n + MessageCost + Remaining(b - n) =< Remaining(b)
<1>1. CASE n = b
  <2>1. Remaining(b - n) = 0
    BY <1>1 DEF Remaining
  <2>2. Remaining(b) >= b + MessageCost
    BY RemainingTyped
  <2> QED
    BY <1>1, <2>1, <2>2, RateConstants, RemainingTyped
<1>2. CASE n # b
  <2>1. b - 1 \in Nat /\ b - n - 1 \in Nat /\ b - n # 0 /\ b # 0 /\ n \in Nat
        /\ (b - n - 1) + SureChunk =< b - 1
    BY <1>2, RateConstants
  <2>2. PICK p \in Nat, q \in Nat : /\ p = (b - n - 1) \div SureChunk /\ q = (b - 1) \div SureChunk
                                    /\ p + 1 =< q
    <3>1. (b - n - 1) \div SureChunk \in Nat /\ (b - 1) \div SureChunk \in Nat
      BY <2>1, RateConstants, Division
    <3>2. (b - n - 1) \div SureChunk + 1 =< (b - 1) \div SureChunk
      BY <2>1, RateConstants, DivisionGrows
    <3> QED
      BY <3>1, <3>2
  <2>3. MessageCost * (p + 1 + 1) =< MessageCost * (q + 1)
    BY <2>2, RateConstants, Times
  <2>4. MessageCost * (p + 1 + 1) = MessageCost * (p + 1) + MessageCost
        /\ MessageCost * (p + 1) \in Int /\ MessageCost * (q + 1) \in Int
    BY RateConstants
  <2>5. Remaining(b - n) = (b - n) + MessageCost * (p + 1) /\ Remaining(b) = b + MessageCost * (q + 1)
    BY <2>1, <2>2 DEF Remaining
  <2> QED
    BY <2>1, <2>3, <2>4, <2>5, RateConstants
<1> QED
  BY <1>1, <1>2

\* Reports that are Interval apart and not older than MaxDelay.
LEMMA FewDelayed ==
  ASSUME NEW x \in Nat, Interval * x < MaxDelay + Interval
  PROVE  x =< Delayed + 1
<1>1. MaxDelay < Interval * Delayed + Interval
  BY RateConstants, Division DEF Delayed
<1>2. Interval * (Delayed + 2) = Interval * Delayed + Interval + Interval
      /\ Interval * Delayed \in Int /\ Interval * x \in Int
  BY RateConstants
<1>3. Interval * x < Interval * (Delayed + 2)
  BY <1>1, <1>2, RateConstants
<1>4. x < Delayed + 2
  BY <1>3, RateConstants, Times
<1> QED
  BY <1>4, RateConstants

-----------------------------------------------------------------------------
\* S adds up what the messages of w cost.
IsBill(S, w) ==
    /\ S \in [0..Len(w) -> Nat]
    /\ S[0] = 0
    /\ \A i \in 1..Len(w) : S[i] = S[i - 1] + Cost(w[i])
    /\ \A i, k \in 0..Len(w) : i =< k => S[i] =< S[k]

\* w is in order and was sent by time t, in frames that the server takes.
Carried(w, t) ==
    /\ w \in Seq(Message)
    /\ \A i \in 1..Len(w) : Bytes(w[i].points) =< MaxMessage /\ w[i].at =< t
    /\ \A i, k \in 1..Len(w) : i =< k => w[i].at =< w[k].at

\* What a message may cost (handle_msg): its points and itself, or only itself.
LEMMA CostTyped ==
  ASSUME NEW m \in Message
  PROVE  /\ Cost(m) \in Nat
         /\ Cost(m) =< Len(m.points) + MessageCost
         /\ m.kind # "backfill" => Cost(m) = MessageCost
BY RateConstants DEF Cost, Least, Message

\* The bill of one message.
LEMMA BillOne ==
  ASSUME NEW m \in Message
  PROVE  \E S : IsBill(S, <<m>>) /\ S[1] = Cost(m)
<1> DEFINE S == [i \in 0..1 |-> IF i = 0 THEN 0 ELSE Cost(m)]
<1>1. Cost(m) \in Nat
  BY CostTyped
<1>2. Len(<<m>>) = 1 /\ <<m>>[1] = m
  OBVIOUS
<1>3. S \in [0..1 -> Nat] /\ S[0] = 0 /\ S[1] = Cost(m)
  BY <1>1
<1> HIDE DEF S
<1>4. \A i \in 1..1 : i = 1
  OBVIOUS
<1>5. \A i \in 0..1 : i = 0 \/ i = 1
  OBVIOUS
<1>6. \A i \in 1..1 : S[i] = S[i - 1] + Cost(<<m>>[i])
  BY <1>1, <1>2, <1>3, <1>4
<1>7. \A i, k \in 0..1 : i =< k => S[i] =< S[k]
  BY <1>1, <1>3, <1>5
<1>8. IsBill(S, <<m>>)
  BY <1>2, <1>3, <1>6, <1>7 DEF IsBill
<1> QED
  BY <1>3, <1>8

\* A message that is sent adds its cost.
LEMMA BillAppend ==
  ASSUME NEW w \in Seq(Message), NEW S, IsBill(S, w), NEW m \in Message
  PROVE  \E T : IsBill(T, Append(w, m)) /\ T[Len(w) + 1] = S[Len(w)] + Cost(m)
<1> DEFINE n == Len(w)
           v == Append(w, m)
           T == [i \in 0..(n + 1) |-> IF i = n + 1 THEN S[n] + Cost(m) ELSE S[i]]
<1>1. n \in Nat /\ Len(v) = n + 1 /\ v[n + 1] = m /\ \A i \in 1..n : v[i] = w[i]
  OBVIOUS
<1>2. Cost(m) \in Nat
  BY CostTyped
<1> HIDE DEF n, v
<1>3. S \in [0..n -> Nat] /\ S[0] = 0 /\ (\A i \in 1..n : S[i] = S[i - 1] + Cost(w[i]))
      /\ \A i, k \in 0..n : i =< k => S[i] =< S[k]
  BY DEF IsBill, n
<1>4. T \in [0..(n + 1) -> Nat] /\ T[n + 1] = S[n] + Cost(m) /\ \A i \in 0..n : T[i] = S[i]
  BY <1>1, <1>2, <1>3
<1> HIDE DEF T
<1>5. T[0] = 0
  BY <1>1, <1>3, <1>4
<1>6. ASSUME NEW i \in 1..(n + 1)
      PROVE  T[i] = T[i - 1] + Cost(v[i])
  <2>1. CASE i = n + 1
    BY <1>1, <1>4, <2>1
  <2>2. CASE i # n + 1
    <3>1. i \in 1..n /\ i - 1 \in 0..n /\ i \in 0..n
      BY <1>1, <2>2
    <3> QED
      BY <1>1, <1>3, <1>4, <3>1
  <2> QED
    BY <2>1, <2>2
<1>7. ASSUME NEW i \in 0..(n + 1), NEW k \in 0..(n + 1), i =< k
      PROVE  T[i] =< T[k]
  <2>1. CASE k = n + 1 /\ i = n + 1
    BY <1>2, <1>3, <1>4, <2>1, <1>1
  <2>2. CASE k = n + 1 /\ i # n + 1
    <3>1. i \in 0..n /\ n \in 0..n /\ i =< n
      BY <1>1, <2>2
    <3>2. S[i] =< S[n] /\ S[i] \in Nat /\ S[n] \in Nat
      BY <1>3, <3>1
    <3> QED
      BY <1>2, <1>4, <2>2, <3>1, <3>2
  <2>3. CASE k # n + 1
    <3>1. i \in 0..n /\ k \in 0..n
      BY <1>1, <1>7, <2>3
    <3> QED
      BY <1>3, <1>4, <1>7, <3>1
  <2> QED
    BY <2>1, <2>2, <2>3
<1>8. IsBill(T, v)
  BY <1>1, <1>4, <1>5, <1>6, <1>7 DEF IsBill
<1> QED
  BY <1>4, <1>8 DEF n, v

\* A message that is taken leaves without its cost.
LEMMA BillTail ==
  ASSUME NEW w \in Seq(Message), w # <<>>, NEW S, IsBill(S, w)
  PROVE  \E T : IsBill(T, Tail(w)) /\ T[Len(w) - 1] = S[Len(w)] - Cost(Head(w))
<1> DEFINE n == Len(w)
           v == Tail(w)
           T == [i \in 0..(n - 1) |-> S[i + 1] - S[1]]
<1>1. n \in Nat \ {0} /\ Len(v) = n - 1 /\ (\A i \in 1..(n - 1) : v[i] = w[i + 1]) /\ Head(w) = w[1]
      /\ w[1] \in Message
  OBVIOUS
<1> HIDE DEF n, v
<1>3. S \in [0..n -> Nat] /\ S[0] = 0 /\ (\A i \in 1..n : S[i] = S[i - 1] + Cost(w[i]))
      /\ \A i, k \in 0..n : i =< k => S[i] =< S[k]
  BY DEF IsBill, n
<1>2. S[1] = Cost(w[1]) /\ S[1] \in Nat
  <2>1. 1 \in 1..n /\ 1 \in 0..n /\ 1 - 1 = 0
    BY <1>1
  <2>2. Cost(w[1]) \in Nat
    BY <1>1, CostTyped
  <2> QED
    BY <1>3, <2>1, <2>2
<1>4. \A i \in 0..(n - 1) : S[i + 1] \in Nat /\ S[1] =< S[i + 1]
  <2>1. \A i \in 0..(n - 1) : i + 1 \in 0..n /\ 1 \in 0..n /\ 1 =< i + 1
    BY <1>1
  <2> QED
    BY <1>3, <2>1
<1>5. T \in [0..(n - 1) -> Nat] /\ \A i \in 0..(n - 1) : T[i] = S[i + 1] - S[1]
  BY <1>2, <1>4
<1> HIDE DEF T
<1>6. T[0] = 0
  <2>1. 0 \in 0..(n - 1) /\ 0 + 1 = 1
    BY <1>1
  <2> QED
    BY <1>2, <1>5, <2>1
<1>7. ASSUME NEW i \in 1..(n - 1)
      PROVE  T[i] = T[i - 1] + Cost(v[i])
  <2>1. i \in 0..(n - 1) /\ i - 1 \in 0..(n - 1) /\ i + 1 \in 1..n /\ i + 1 - 1 = i /\ i - 1 + 1 = i
    BY <1>1
  <2>2. T[i] = S[i + 1] - S[1] /\ T[i - 1] = S[i] - S[1] /\ S[i + 1] = S[i] + Cost(w[i + 1])
    BY <1>3, <1>5, <2>1
  <2>3. v[i] = w[i + 1] /\ S[i + 1] \in Nat /\ S[i] \in Nat
    BY <1>1, <1>3, <2>1
  <2>4. Cost(w[i + 1]) \in Nat
    <3>1. w[i + 1] \in Message
      BY <2>1 DEF n
    <3> QED
      BY <3>1, CostTyped
  <2> QED
    BY <1>2, <2>2, <2>3, <2>4
<1>8. ASSUME NEW i \in 0..(n - 1), NEW k \in 0..(n - 1), i =< k
      PROVE  T[i] =< T[k]
  <2>1. i + 1 \in 0..n /\ k + 1 \in 0..n /\ i + 1 =< k + 1
    BY <1>1, <1>8
  <2>2. S[i + 1] =< S[k + 1]
    BY <1>3, <2>1
  <2> QED
    BY <1>2, <1>4, <1>5, <2>2
<1>9. IsBill(T, v)
  BY <1>1, <1>5, <1>6, <1>7, <1>8 DEF IsBill
<1>10. T[n - 1] = S[n] - Cost(Head(w))
  <2>1. n - 1 \in 0..(n - 1) /\ n - 1 + 1 = n
    BY <1>1
  <2> QED
    BY <1>1, <1>2, <1>5, <2>1
<1> QED
  BY <1>9, <1>10 DEF n, v

\* Messages that are lost cost nothing.
LEMMA BillPrefix ==
  ASSUME NEW w \in Seq(Message), NEW S, IsBill(S, w), NEW n \in 0..Len(w)
  PROVE  \E T : IsBill(T, SubSeq(w, 1, n)) /\ T[n] =< S[Len(w)] /\ T[n] \in Nat
<1> DEFINE v == SubSeq(w, 1, n)
           T == [i \in 0..n |-> S[i]]
<1>1. Len(w) \in Nat /\ Len(v) = n /\ (\A i \in 1..n : v[i] = w[i]) /\ n \in Nat
  OBVIOUS
<1> HIDE DEF v
<1>2. S \in [0..Len(w) -> Nat] /\ S[0] = 0 /\ (\A i \in 1..Len(w) : S[i] = S[i - 1] + Cost(w[i]))
      /\ \A i, k \in 0..Len(w) : i =< k => S[i] =< S[k]
  BY DEF IsBill
<1>3. \A i \in 0..n : i \in 0..Len(w)
  BY <1>1
<1>4. T \in [0..n -> Nat] /\ \A i \in 0..n : T[i] = S[i]
  BY <1>2, <1>3
<1> HIDE DEF T
<1>5. \A i \in 1..n : i \in 0..n /\ i - 1 \in 0..n /\ i \in 1..Len(w)
  BY <1>1
<1>6. \A i \in 1..n : T[i] = T[i - 1] + Cost(v[i])
  BY <1>1, <1>2, <1>4, <1>5
<1>7. \A i, k \in 0..n : i =< k => T[i] =< T[k]
  BY <1>2, <1>3, <1>4
<1>8. T[0] = 0 /\ T[n] = S[n] /\ n \in 0..n /\ n =< Len(w) /\ Len(w) \in 0..Len(w)
  BY <1>1, <1>2, <1>4
<1>9. T[n] =< S[Len(w)] /\ T[n] \in Nat
  BY <1>2, <1>4, <1>8
<1>10. IsBill(T, v)
  BY <1>1, <1>4, <1>6, <1>7, <1>8 DEF IsBill
<1> QED
  BY <1>9, <1>10 DEF v

\* A wire with one message is in order.
LEMMA CarriedOne ==
  ASSUME NEW m \in Message, Bytes(m.points) =< MaxMessage, m.at =< now
  PROVE  Carried(<<m>>, now)
<1>1. Len(<<m>>) = 1 /\ <<m>>[1] = m /\ <<m>> \in Seq(Message)
  OBVIOUS
<1>2. \A i \in 1..1 : i = 1
  OBVIOUS
<1>3. m.at \in Nat
  BY DEF Message
<1> QED
  BY <1>1, <1>2, <1>3 DEF Carried

\* A message that is sent now comes after those before it.
LEMMA CarriedAppend ==
  ASSUME NEW w, NEW t \in Nat, Carried(w, t), NEW m \in Message,
         Bytes(m.points) =< MaxMessage, m.at = t
  PROVE  Carried(Append(w, m), t)
<1> DEFINE n == Len(w)
           v == Append(w, m)
<1>1. w \in Seq(Message) /\ (\A i \in 1..n : Bytes(w[i].points) =< MaxMessage /\ w[i].at =< t)
      /\ \A i, k \in 1..n : i =< k => w[i].at =< w[k].at
  BY DEF Carried
<1>2. n \in Nat /\ Len(v) = n + 1 /\ v \in Seq(Message) /\ v[n + 1] = m /\ \A i \in 1..n : v[i] = w[i]
  BY <1>1
<1> HIDE DEF n, v
<1>3. \A i \in 1..(n + 1) : i = n + 1 \/ i \in 1..n
  BY <1>2
<1>4. \A i \in 1..(n + 1) : Bytes(v[i].points) =< MaxMessage /\ v[i].at =< t
  BY <1>1, <1>2, <1>3
<1>5. ASSUME NEW i \in 1..(n + 1), NEW k \in 1..(n + 1), i =< k
      PROVE  v[i].at =< v[k].at
  <2>1. CASE k = n + 1
    BY <1>2, <1>4, <2>1
  <2>2. CASE k # n + 1
    <3>1. i \in 1..n /\ k \in 1..n
      BY <1>2, <1>5, <2>2
    <3> QED
      BY <1>1, <1>2, <1>5, <3>1
  <2> QED
    BY <2>1, <2>2
<1> QED
  BY <1>2, <1>4, <1>5 DEF Carried, v

\* What a wire still carries when its first message is taken,
LEMMA CarriedTail ==
  ASSUME NEW w, NEW t, Carried(w, t), w # <<>>
  PROVE  Carried(Tail(w), t)
<1> DEFINE n == Len(w)
           v == Tail(w)
<1>1. w \in Seq(Message) /\ (\A i \in 1..n : Bytes(w[i].points) =< MaxMessage /\ w[i].at =< t)
      /\ \A i, k \in 1..n : i =< k => w[i].at =< w[k].at
  BY DEF Carried
<1>2. n \in Nat \ {0} /\ Len(v) = n - 1 /\ v \in Seq(Message) /\ \A i \in 1..(n - 1) : v[i] = w[i + 1]
  BY <1>1
<1> HIDE DEF n, v
<1>3. \A i \in 1..(n - 1) : i + 1 \in 1..n
  BY <1>2
<1>4. \A i, k \in 1..(n - 1) : i =< k => i + 1 =< k + 1
  BY <1>2
<1>5. \A i, k \in 1..(n - 1) : i =< k => v[i].at =< v[k].at
  BY <1>1, <1>2, <1>3, <1>4
<1> QED
  BY <1>1, <1>2, <1>3, <1>5 DEF Carried, v

\* and when its last ones are lost.
LEMMA CarriedPrefix ==
  ASSUME NEW w, NEW t, Carried(w, t), NEW n \in 0..Len(w)
  PROVE  Carried(SubSeq(w, 1, n), t)
<1> DEFINE v == SubSeq(w, 1, n)
<1>1. w \in Seq(Message) /\ (\A i \in 1..Len(w) : Bytes(w[i].points) =< MaxMessage /\ w[i].at =< t)
      /\ \A i, k \in 1..Len(w) : i =< k => w[i].at =< w[k].at
  BY DEF Carried
<1>2. Len(w) \in Nat /\ Len(v) = n /\ v \in Seq(Message) /\ (\A i \in 1..n : v[i] = w[i]) /\ n \in Nat
  BY <1>1
<1> HIDE DEF v
<1>3. \A i \in 1..n : i \in 1..Len(w)
  BY <1>2
<1> QED
  BY <1>1, <1>2, <1>3 DEF Carried, v

-----------------------------------------------------------------------------
\* The messages of w cost s together.
Costs(w, s) == \E S : IsBill(S, w) /\ s = S[Len(w)]

\* The first message costs no more than all do.
LEMMA CostsTyped ==
  ASSUME NEW w \in Seq(Message), NEW s, Costs(w, s)
  PROVE  s \in Nat /\ (w # <<>> => Cost(Head(w)) =< s /\ Cost(Head(w)) \in Nat)
<1>1. PICK S : IsBill(S, w) /\ s = S[Len(w)]
  BY DEF Costs
<1>2. Len(w) \in Nat
  OBVIOUS
<1>3. s \in Nat
  BY <1>1, <1>2 DEF IsBill
<1>4. ASSUME w # <<>> PROVE Cost(Head(w)) =< s /\ Cost(Head(w)) \in Nat
  <2>1. Len(w) \in Nat \ {0} /\ Head(w) = w[1] /\ w[1] \in Message
    BY <1>4
  <2>2. Cost(w[1]) \in Nat
    BY <2>1, CostTyped
  <2>3. 1 \in 1..Len(w) /\ 1 \in 0..Len(w) /\ Len(w) \in 0..Len(w) /\ 1 =< Len(w) /\ 1 - 1 = 0
    BY <2>1
  <2>4. S[1] = S[1 - 1] + Cost(w[1]) /\ S[1] =< S[Len(w)] /\ S[0] = 0
    BY <1>1, <2>3 DEF IsBill
  <2> QED
    BY <1>1, <2>1, <2>2, <2>3, <2>4
<1> QED
  BY <1>3, <1>4

\* One message costs what it costs.
LEMMA CostsOne ==
  ASSUME NEW m \in Message
  PROVE  Costs(<<m>>, Cost(m))
<1>1. Len(<<m>>) = 1
  OBVIOUS
<1> QED
  BY <1>1, BillOne DEF Costs

\* A message that is sent adds its cost.
LEMMA CostsAppend ==
  ASSUME NEW w \in Seq(Message), NEW s, Costs(w, s), NEW m \in Message
  PROVE  Costs(Append(w, m), s + Cost(m))
<1>1. Len(Append(w, m)) = Len(w) + 1
  OBVIOUS
<1> QED
  BY <1>1, BillAppend DEF Costs

\* A message that is taken leaves without its cost.
LEMMA CostsTail ==
  ASSUME NEW w \in Seq(Message), w # <<>>, NEW s, Costs(w, s)
  PROVE  Costs(Tail(w), s - Cost(Head(w)))
<1>1. Len(Tail(w)) = Len(w) - 1
  OBVIOUS
<1> QED
  BY <1>1, BillTail DEF Costs

\* What is left of a wire costs no more than all of it.
LEMMA CostsPrefix ==
  ASSUME NEW w \in Seq(Message), NEW s, Costs(w, s), NEW n \in 0..Len(w)
  PROVE  \E r \in Nat : Costs(SubSeq(w, 1, n), r) /\ r =< s
<1>1. Len(SubSeq(w, 1, n)) = n
  OBVIOUS
<1> QED
  BY <1>1, BillPrefix DEF Costs

\* A loop keeps no more tokens than the bucket holds, since a time that has come.
LoopTypeOK ==
    /\ loop \in [Conns -> [open : BOOLEAN, tokens : 0..Bucket, refilled : Nat]]
    /\ \A c \in Conns : loop[c].refilled =< now

\* While the buffer is sent, the bucket is short of no more than what the start costs
\* less what is on the wire and what the b points of the buffer will cost.
Flushing(s, t, b) == t + FlushCost >= s + Bucket + Remaining(b)

\* How long the next tick of the interval is off.
Off(tick, time) == IF tick > time THEN tick - time ELSE 0

\* While the session reports, the messages on the wire are, from some point on, reports
\* that are Interval apart, the rest of them part of what the start has cost; and the
\* bucket, with what comes in until the tick, is short of the start and of the reports
\* that may be late at most.
Reporting(s, t, w, tick, time) ==
    /\ \E j \in 0..Len(w) :
          /\ s =< FlushCost + MessageCost * (Len(w) - j)
          /\ \A i \in (j + 1)..Len(w) :
                w[i].kind = "metrics" /\ w[i].at + Interval * (Len(w) - i + 1) =< tick
    /\ tick =< time + Interval
    /\ t + RefillRate * Off(tick, time) + FlushCost + MessageCost * (Delayed + 1) >= s + Bucket

\* The tokens of c pay for all that is on its wire, and for what the session has yet
\* to send at once.
Affordable(c) ==
    /\ Carried(wire[c], now)
    /\ \E s \in Nat :
          /\ Costs(wire[c], s)
          /\ s =< Tokens(c)
          /\ link[c] /\ agent.pc = "flush" => Flushing(s, Tokens(c), Len(buffer))
          /\ link[c] /\ agent.pc = "live" =>
                Reporting(s, Tokens(c), wire[c], agent.tick, now)

\* A link that is up has a loop, and a loop can afford its wire.
RateInv ==
    /\ LoopTypeOK
    /\ \A c \in Conns : link[c] => loop[c].open
    /\ \A c \in Conns : loop[c].open => Affordable(c)

\* RateFits in the sums that the proofs need.
LEMMA Fitting ==
  ASSUME RateFits
  PROVE  /\ FlushCost \in Nat /\ FlushCost >= MessageCost
         /\ MessageCost * (Delayed + 1) \in Nat
         /\ FlushCost + MessageCost * (Delayed + 1) + MessageCost =< Bucket
         /\ MessageCost =< RefillRate * Interval /\ RefillRate * Interval \in Nat
<1>1. Remaining(Capacity) \in Nat
  BY RateConstants, RemainingTyped
<1>2. MessageCost * (Delayed + 2) = MessageCost * (Delayed + 1) + MessageCost
      /\ MessageCost * (Delayed + 1) \in Int
  BY RateConstants
<1>3. MessageCost * 0 =< MessageCost * (Delayed + 1) /\ MessageCost * 0 = 0
  BY RateConstants, Times
<1>4. RefillRate * 0 =< RefillRate * Interval /\ RefillRate * 0 = 0 /\ RefillRate * Interval \in Int
  BY RateConstants, Times
<1> QED
  BY <1>1, <1>2, <1>3, <1>4, RateConstants DEF RateFits, FlushCost

\* The bucket is never overdrawn nor overfull.
LEMMA TokensTyped ==
  ASSUME LoopTypeOK, now \in Nat, NEW c \in Conns
  PROVE  Tokens(c) \in Nat /\ Tokens(c) =< Bucket
<1>1. loop[c] \in [open : BOOLEAN, tokens : 0..Bucket, refilled : Nat] /\ loop[c].refilled =< now
  BY DEF LoopTypeOK
<1>2. loop[c].tokens \in Nat /\ loop[c].refilled \in Nat /\ now - loop[c].refilled \in Nat
  BY <1>1, RateConstants
<1>3. RefillRate * (now - loop[c].refilled) \in Nat
  <2>1. \A a, b \in Nat : a * b \in Nat
    OBVIOUS
  <2> QED
    BY <1>2, <2>1, RateConstants
<1> QED
  BY <1>2, <1>3, RateConstants DEF Tokens, Least

\* A second fills the bucket, or adds RefillRate.
LEMMA TokensTick ==
  ASSUME LoopTypeOK, now \in Nat, now' = now + 1, loop' = loop, NEW c \in Conns
  PROVE  /\ Tokens(c)' >= Tokens(c)
         /\ Tokens(c)' = Bucket \/ Tokens(c)' >= Tokens(c) + RefillRate
         /\ Tokens(c)' \in Nat /\ Tokens(c)' =< Bucket
<1>1. loop[c] \in [open : BOOLEAN, tokens : 0..Bucket, refilled : Nat] /\ loop[c].refilled =< now
  BY DEF LoopTypeOK
<1>2. loop[c].tokens \in Nat /\ loop[c].refilled \in Nat /\ now - loop[c].refilled \in Nat
  BY <1>1, RateConstants
<1>3. PICK x \in Nat : x = RefillRate * (now - loop[c].refilled)
  <2>1. \A a, b \in Nat : a * b \in Nat
    OBVIOUS
  <2> QED
    BY <1>2, <2>1, RateConstants
<1>4. RefillRate * (now' - loop[c].refilled) = x + RefillRate
  <2>1. \A a \in Nat : RefillRate * (a + 1) = RefillRate * a + RefillRate
    BY RateConstants
  <2>2. now' - loop[c].refilled = (now - loop[c].refilled) + 1
    BY <1>2
  <2> QED
    BY <1>2, <1>3, <2>1, <2>2
<1>5. Tokens(c) = Least(Bucket, loop[c].tokens + x)
  BY <1>3 DEF Tokens
<1>6. Tokens(c)' = Least(Bucket, loop[c].tokens + (x + RefillRate))
  BY <1>4 DEF Tokens
<1> QED
  BY <1>2, <1>3, <1>5, <1>6, RateConstants DEF Least

\* Tokens come in only with time.
LEMMA TokensSame ==
  ASSUME NEW c \in Conns, loop'[c] = loop[c], now' = now
  PROVE  Tokens(c)' = Tokens(c)
BY DEF Tokens

\* The loop whose link has gone: what is left on the wire is paid for.
LEMMA DeadKeeps ==
  ASSUME NEW c \in Conns, Affordable(c), loop'[c] = loop[c], now' = now, ~link'[c],
         Tokens(c) \in Nat,
         wire'[c] = wire[c] \/ \E n \in 0..Len(wire[c]) : wire'[c] = SubSeq(wire[c], 1, n)
  PROVE  Affordable(c)'
<1>1. PICK s \in Nat : Costs(wire[c], s) /\ s =< Tokens(c)
  BY DEF Affordable
<1>2. Carried(wire[c], now) /\ wire[c] \in Seq(Message)
  BY DEF Affordable, Carried
<1>3. Tokens(c)' = Tokens(c)
  BY TokensSame
<1>4. Carried(wire'[c], now) /\ \E r \in Nat : Costs(wire'[c], r) /\ r =< s
  <2>1. CASE wire'[c] = wire[c]
    BY <1>1, <1>2, <2>1
  <2>2. CASE \E n \in 0..Len(wire[c]) : wire'[c] = SubSeq(wire[c], 1, n)
    BY <1>1, <1>2, <2>2, CarriedPrefix, CostsPrefix
  <2> QED
    BY <2>1, <2>2
<1>5. PICK r \in Nat : Costs(wire'[c], r) /\ r =< s
  BY <1>4
<1>6. r =< Tokens(c)'
  BY <1>1, <1>3, <1>5
<1> QED
  BY <1>4, <1>5, <1>6 DEF Affordable

\* A connection that nothing has touched.
LEMMA SameKeeps ==
  ASSUME NEW c \in Conns, Affordable(c), UNCHANGED <<now, agent, buffer>>,
         loop'[c] = loop[c], link'[c] = link[c], wire'[c] = wire[c]
  PROVE  Affordable(c)'
<1>1. Tokens(c)' = Tokens(c)
  BY TokensSame
<1> QED
  BY <1>1 DEF Affordable

\* No link is up, and nothing but the wires has changed.
LEMMA NoLinkKeeps ==
  ASSUME now \in Nat, RateInv, UNCHANGED <<now, loop>>, \A c \in Conns : ~link'[c],
         \A c \in Conns : \/ wire'[c] = wire[c]
                          \/ \E n \in 0..Len(wire[c]) : wire'[c] = SubSeq(wire[c], 1, n)
  PROVE  RateInv'
<1>1. LoopTypeOK'
  BY DEF RateInv, LoopTypeOK
<1>2. ASSUME NEW c \in Conns, loop'[c].open
      PROVE  Affordable(c)'
  <2>1. Affordable(c)
    BY <1>2 DEF RateInv
  <2>2. Tokens(c) \in Nat
    BY TokensTyped DEF RateInv
  <2> QED
    BY <2>1, <2>2, DeadKeeps
<1> QED
  BY <1>1, <1>2 DEF RateInv

\* The report of a tick that is due.
LEMMA ReportingSent ==
  ASSUME RateFits, NEW s \in Nat, NEW t \in Nat, NEW w \in Seq(Message), NEW tick \in Nat,
         NEW time \in Nat, tick =< time, Reporting(s, t, w, tick, time),
         NEW m \in Message, m.kind = "metrics", m.at = time
  PROVE  /\ s + MessageCost =< t
         /\ Reporting(s + MessageCost, t, Append(w, m), time + Interval, time)
<1> DEFINE n == Len(w)
           v == Append(w, m)
<1>1. n \in Nat /\ Len(v) = n + 1 /\ v[n + 1] = m /\ \A i \in 1..n : v[i] = w[i]
  OBVIOUS
<1>2. PICK j \in 0..n :
        /\ s =< FlushCost + MessageCost * (n - j)
        /\ \A i \in (j + 1)..n : w[i].kind = "metrics" /\ w[i].at + Interval * (n - i + 1) =< tick
  BY DEF Reporting
<1>c. PICK f \in Nat, d \in Nat, r \in Nat :
        /\ f = FlushCost /\ d = MessageCost * (Delayed + 1) /\ r = RefillRate * Interval
        /\ f + d + MessageCost =< Bucket /\ MessageCost =< r /\ MessageCost =< f
  BY Fitting
<1> HIDE DEF n, v
<1>3. t + FlushCost + MessageCost * (Delayed + 1) >= s + Bucket
  <2>1. Off(tick, time) = 0 /\ RefillRate * 0 = 0
    BY RateConstants DEF Off
  <2>2. t + RefillRate * Off(tick, time) + FlushCost + MessageCost * (Delayed + 1) >= s + Bucket
    BY DEF Reporting
  <2> QED
    BY <2>1, <2>2
<1>4. s + MessageCost =< t
  BY <1>3, <1>c, RateConstants
<1>5. t + RefillRate * Off(time + Interval, time) + FlushCost + MessageCost * (Delayed + 1)
        >= s + MessageCost + Bucket
  <2>1. Off(time + Interval, time) = Interval
    BY RateConstants DEF Off
  <2>2. t + f + d >= s + Bucket
    BY <1>3, <1>c
  <2>3. t + r + f + d >= s + MessageCost + Bucket
    BY <1>c, <2>2, RateConstants
  <2> QED
    BY <1>c, <2>1, <2>3
<1>6. s + MessageCost =< FlushCost + MessageCost * ((n + 1) - j)
  <2>1. MessageCost * ((n + 1) - j) = MessageCost * (n - j) + MessageCost
        /\ MessageCost * (n - j) \in Int
    <3>1. \A x \in Int : MessageCost * (x + 1) = MessageCost * x + MessageCost /\ MessageCost * x \in Int
      BY RateConstants
    <3>2. (n + 1) - j = (n - j) + 1 /\ n - j \in Int
      BY <1>1
    <3> QED
      BY <3>1, <3>2
  <2> QED
    BY <1>2, <2>1, Fitting, RateConstants
<1>7. ASSUME NEW i \in (j + 1)..(n + 1)
      PROVE  v[i].kind = "metrics" /\ v[i].at + Interval * ((n + 1) - i + 1) =< time + Interval
  <2>1. CASE i = n + 1
    <3>1. (n + 1) - i + 1 = 1 /\ Interval * 1 = Interval
      BY <1>1, <2>1, RateConstants
    <3>2. v[i] = m /\ m.at = time
      BY <1>1, <2>1
    <3> QED
      BY <3>1, <3>2, RateConstants
  <2>2. CASE i # n + 1
    <3>1. i \in (j + 1)..n /\ i \in 1..n
      BY <1>1, <2>2
    <3>2. v[i] = w[i] /\ w[i].kind = "metrics" /\ w[i].at + Interval * (n - i + 1) =< tick
      BY <1>1, <1>2, <3>1
    <3>3. Interval * ((n + 1) - i + 1) = Interval * (n - i + 1) + Interval
          /\ Interval * (n - i + 1) \in Int
      <4>1. \A x \in Int : Interval * (x + 1) = Interval * x + Interval /\ Interval * x \in Int
        BY RateConstants
      <4>2. (n + 1) - i + 1 = (n - i + 1) + 1 /\ n - i + 1 \in Int
        BY <1>1, <3>1
      <4> QED
        BY <4>1, <4>2
    <3>4. w[i].at \in Nat
      <4>1. w[i] \in Message
        BY <3>1 DEF n
      <4> QED
        BY <4>1 DEF Message
    <3> QED
      BY <3>2, <3>3, <3>4, RateConstants
  <2> QED
    BY <2>1, <2>2
<1>8. j \in 0..Len(v) /\ time + Interval =< time + Interval
  BY <1>1, RateConstants
<1>9. Reporting(s + MessageCost, t, v, time + Interval, time)
  <2>1. \E k \in 0..Len(v) :
          /\ s + MessageCost =< FlushCost + MessageCost * (Len(v) - k)
          /\ \A i \in (k + 1)..Len(v) :
                v[i].kind = "metrics" /\ v[i].at + Interval * (Len(v) - i + 1) =< time + Interval
    <3>1. j \in 0..(n + 1)
      BY <1>1
    <3> DEFINE Paid(l) ==
          \E k \in 0..l :
            /\ s + MessageCost =< FlushCost + MessageCost * (l - k)
            /\ \A i \in (k + 1)..l :
                  v[i].kind = "metrics" /\ v[i].at + Interval * (l - i + 1) =< time + Interval
    <3>2. Paid(n + 1)
      <4>1. \A i \in (j + 1)..(n + 1) :
              v[i].kind = "metrics" /\ v[i].at + Interval * ((n + 1) - i + 1) =< time + Interval
        BY <1>7
      <4>2. j \in 0..(n + 1)
        BY <3>1
      <4> USE <4>2
      <4> WITNESS j \in 0..(n + 1)
      <4> QED
        BY <1>6, <4>1, Zenon
    <3>3. Len(v) = n + 1
      BY <1>1
    <3>4. Paid(Len(v))
      <4> HIDE DEF Paid
      <4> QED
        BY <3>2, <3>3, Zenon
    <3> QED
      BY <3>4
  <2> QED
    BY <1>5, <1>8, <2>1, Zenon DEF Reporting
<1> QED
  BY <1>4, <1>9 DEF v

\* The server takes the first message, and with it what it cost.
LEMMA ReportingTaken ==
  ASSUME RateFits, NEW s \in Nat, NEW t \in Nat, NEW w \in Seq(Message), w # <<>>, NEW tick \in Nat,
         NEW time \in Nat, Reporting(s, t, w, tick, time), Cost(Head(w)) =< s
  PROVE  Reporting(s - Cost(Head(w)), t - Cost(Head(w)), Tail(w), tick, time)
<1> DEFINE n == Len(w)
           v == Tail(w)
           q == Cost(Head(w))
<1>1. n \in Nat \ {0} /\ Len(v) = n - 1 /\ (\A i \in 1..(n - 1) : v[i] = w[i + 1]) /\ Head(w) = w[1]
      /\ w[1] \in Message
  OBVIOUS
<1>0. q \in Nat /\ (w[1].kind = "metrics" => q = MessageCost)
  BY <1>1, CostTyped
<1>2. PICK j \in 0..n :
        /\ s =< FlushCost + MessageCost * (n - j)
        /\ \A i \in (j + 1)..n : w[i].kind = "metrics" /\ w[i].at + Interval * (n - i + 1) =< tick
  BY DEF Reporting
<1> HIDE DEF n, v, q
<1>3. t - q + RefillRate * Off(tick, time) + FlushCost + MessageCost * (Delayed + 1) >= s - q + Bucket
  <2>1. t + RefillRate * Off(tick, time) + FlushCost + MessageCost * (Delayed + 1) >= s + Bucket
    BY DEF Reporting
  <2>2. RefillRate * Off(tick, time) \in Int
    BY RateConstants DEF Off
  <2> DEFINE e == RefillRate * Off(tick, time)
             d == MessageCost * (Delayed + 1)
  <2>3. e \in Int /\ d \in Int /\ FlushCost \in Int /\ t + e + FlushCost + d >= s + Bucket
    BY <2>1, <2>2, Fitting
  <2> HIDE DEF e, d
  <2>4. t - q + e + FlushCost + d >= s - q + Bucket
    BY <1>0, <2>3, RateConstants
  <2> QED
    BY <2>4 DEF e, d
<1>4. \E k \in 0..(n - 1) :
        /\ s - q =< FlushCost + MessageCost * (n - 1 - k)
        /\ \A i \in (k + 1)..(n - 1) :
              v[i].kind = "metrics" /\ v[i].at + Interval * (n - 1 - i + 1) =< tick
  <2>1. ASSUME NEW k \in 0..(n - 1), k + 1 >= j
        PROVE  \A i \in (k + 1)..(n - 1) :
                  v[i].kind = "metrics" /\ v[i].at + Interval * (n - 1 - i + 1) =< tick
    <3> SUFFICES ASSUME NEW i \in (k + 1)..(n - 1)
                 PROVE  v[i].kind = "metrics" /\ v[i].at + Interval * (n - 1 - i + 1) =< tick
      OBVIOUS
    <3>1. i \in 1..(n - 1) /\ i + 1 \in (j + 1)..n /\ n - (i + 1) + 1 = n - 1 - i + 1
      BY <1>1, <2>1
    <3>2. w[i + 1].kind = "metrics" /\ w[i + 1].at + Interval * (n - (i + 1) + 1) =< tick
      BY <1>2, <3>1, Zenon
    <3>3. v[i] = w[i + 1]
      BY <1>1, <3>1, Zenon
    <3> QED
      BY <3>1, <3>2, <3>3, Zenon
  <2>2. CASE j = 0
    <3>1. 1 \in (j + 1)..n
      BY <1>1, <2>2
    <3>2. q = MessageCost
      BY <1>0, <1>2, <3>1
    <3>3. MessageCost * (n - j) = MessageCost * (n - 1 - 0) + MessageCost
          /\ MessageCost * (n - 1 - 0) \in Int
      <4>1. \A x \in Int : MessageCost * (x + 1) = MessageCost * x + MessageCost /\ MessageCost * x \in Int
        BY RateConstants
      <4>2. n - j = (n - 1 - 0) + 1 /\ n - 1 - 0 \in Int
        BY <1>1, <2>2
      <4> QED
        BY <4>1, <4>2
    <3>4. s - q =< FlushCost + MessageCost * (n - 1 - 0)
      BY <1>2, <3>2, <3>3, Fitting, RateConstants
    <3>5. 0 \in 0..(n - 1) /\ 0 + 1 >= j
      BY <1>1, <2>2
    <3> QED
      BY <2>1, <3>4, <3>5
  <2>3. CASE j # 0
    <3>1. j - 1 \in 0..(n - 1) /\ (j - 1) + 1 >= j /\ n - 1 - (j - 1) = n - j
      BY <1>1, <2>3
    <3>2. s - q =< FlushCost + MessageCost * (n - 1 - (j - 1))
      <4>1. MessageCost * (n - j) \in Int
        BY <1>1, RateConstants
      <4> QED
        BY <1>0, <1>2, <3>1, <4>1, Fitting
    <3> QED
      BY <2>1, <3>1, <3>2
  <2> QED
    BY <2>2, <2>3
<1>5. tick =< time + Interval
  BY DEF Reporting
<1> QED
  BY <1>1, <1>3, <1>4, <1>5 DEF Reporting, v, q

\* A second passes: the bucket fills, or the tick comes nearer by no more than the
\* tokens that come in.
LEMMA ReportingTick ==
  ASSUME RateFits, NEW s \in Nat, NEW t \in Nat, NEW u \in Nat, NEW w, NEW tick \in Nat,
         NEW time \in Nat, Carried(w, time), Reporting(s, t, w, tick, time),
         w # <<>> => time < Head(w).at + MaxDelay,
         u = Bucket \/ u >= t + RefillRate
  PROVE  Reporting(s, u, w, tick, time + 1)
<1> DEFINE n == Len(w)
<1>1. n \in Nat /\ w \in Seq(Message) /\ \A i, k \in 1..n : i =< k => w[i].at =< w[k].at
  BY DEF Carried
<1>2. PICK j \in 0..n :
        /\ s =< FlushCost + MessageCost * (n - j)
        /\ \A i \in (j + 1)..n : w[i].kind = "metrics" /\ w[i].at + Interval * (n - i + 1) =< tick
  BY DEF Reporting
<1>c. PICK f \in Nat, d \in Nat, r \in Nat :
        /\ f = FlushCost /\ d = MessageCost * (Delayed + 1) /\ r = RefillRate * Interval
        /\ f + d + MessageCost =< Bucket /\ MessageCost =< r /\ MessageCost =< f
  BY Fitting
<1>3. tick =< time + Interval /\ tick =< time + 1 + Interval
  <2>1. tick =< time + Interval
    BY Zenon DEF Reporting
  <2> QED
    BY <2>1, RateConstants
<1>4. PICK a \in Nat, b \in Nat : /\ a = RefillRate * Off(tick, time)
                                  /\ b = RefillRate * Off(tick, time + 1)
                                  /\ a =< b + RefillRate
  <2>1. Off(tick, time) \in Nat /\ Off(tick, time + 1) \in Nat /\ Off(tick, time) =< Off(tick, time + 1) + 1
    BY DEF Off
  <2>2. RefillRate * Off(tick, time) =< RefillRate * (Off(tick, time + 1) + 1)
    BY <2>1, RateConstants, Times
  <2>3. \A x \in Nat : RefillRate * (x + 1) = RefillRate * x + RefillRate /\ RefillRate * x \in Nat
    <3>1. \A x, y \in Nat : x * y \in Nat /\ x * (y + 1) = x * y + x
      OBVIOUS
    <3> QED
      BY <3>1, RateConstants
  <2>4. RefillRate * (Off(tick, time + 1) + 1) = RefillRate * Off(tick, time + 1) + RefillRate
        /\ RefillRate * Off(tick, time) \in Nat /\ RefillRate * Off(tick, time + 1) \in Nat
    BY <2>1, <2>3, Zenon
  <2>5. RefillRate * Off(tick, time) =< RefillRate * Off(tick, time + 1) + RefillRate
    BY <2>2, <2>4, Zenon
  <2> QED
    BY <2>4, <2>5, Zenon
<1>5. u + b + FlushCost + MessageCost * (Delayed + 1) >= s + Bucket
  <2>1. CASE u >= t + RefillRate
    <3>1. t + a + FlushCost + MessageCost * (Delayed + 1) >= s + Bucket
      BY <1>4 DEF Reporting
    <3>2. t + a + f + d >= s + Bucket
      BY <1>c, <3>1
    <3>3. u + b + f + d >= s + Bucket
      <4>1. a =< b + RefillRate
        BY <1>4
      <4> QED
        BY <2>1, <3>2, <4>1, RateConstants
    <3> QED
      BY <1>c, <3>3
  <2>2. CASE u = Bucket
    <3>1. n - j =< Delayed + 1
      <4>1. CASE j = n
        BY <1>1, <4>1, RateConstants
      <4>2. CASE j # n
        <5>1. j + 1 \in (j + 1)..n /\ 1 \in 1..n /\ j + 1 \in 1..n /\ 1 =< j + 1
              /\ n - (j + 1) + 1 = n - j /\ n - j \in Nat
          BY <1>1, <4>2
        <5>2. w[j + 1].at + Interval * (n - j) =< tick /\ w[1].at =< w[j + 1].at
          BY <1>1, <1>2, <5>1
        <5>3. w # <<>> /\ Head(w) = w[1]
          BY <1>1, <5>1
        <5>4. w[1].at \in Nat /\ w[j + 1].at \in Nat
          <6>1. w[1] \in Message /\ w[j + 1] \in Message
            BY <1>1, <5>1
          <6> QED
            BY <6>1 DEF Message
        <5>5. PICK x \in Int : x = Interval * (n - j)
          BY <5>1, RateConstants
        <5>6. Interval * (n - j) < MaxDelay + Interval
          <6>1. time < w[1].at + MaxDelay
            BY <5>3
          <6>2. w[j + 1].at + x =< tick /\ w[1].at =< w[j + 1].at
            BY <5>2, <5>5
          <6>3. x < MaxDelay + Interval
            BY <1>3, <5>4, <6>1, <6>2, RateConstants
          <6> QED
            BY <5>5, <6>3
        <5> QED
          BY <5>1, <5>6, FewDelayed
      <4> QED
        BY <4>1, <4>2
    <3>2. MessageCost * (n - j) =< MessageCost * (Delayed + 1) /\ MessageCost * (n - j) \in Int
      <4>1. n - j \in Int /\ Delayed + 1 \in Int
        BY <1>1, RateConstants
      <4> QED
        BY <3>1, <4>1, RateConstants, Times
    <3>3. s =< f + d
      BY <1>2, <1>c, <3>2
    <3>4. u + b + f + d >= s + Bucket
      BY <2>2, <3>3, RateConstants
    <3> QED
      BY <1>c, <3>4
  <2> QED
    BY <2>1, <2>2
<1> QED
  BY <1>2, <1>3, <1>4, <1>5 DEF Reporting

\* At the start no loop runs.
LEMMA RateInvInit == Init => RateInv
BY RateConstants DEF Init, RateInv, LoopTypeOK, ClosedLoop

\* When the agent has no connection, or its link is dead, no link is up.
LEMMA NoLinkUp ==
  ASSUME SessionInv, agent.conn = None \/ ~link[agent.conn], NEW c \in Conns
  PROVE  ~link[c]
BY SessionAssumption DEF SessionAssumption, SessionInv, LinkInv

\* A send that fails ends the session.
LEMMA FailingKeeps ==
  ASSUME SessionInv, RateInv, agent.conn = None \/ ~link[agent.conn],
         UNCHANGED <<now, link, wire, loop>>
  PROVE  RateInv'
<1>1. now \in Nat
  BY DEF SessionInv, BufferInv, AgentTypeOK
<1>2. \A c \in Conns : ~link'[c] /\ wire'[c] = wire[c]
  BY NoLinkUp
<1> QED
  BY <1>1, <1>2, NoLinkKeeps

\* The one link that was up is cut.
LEMMA CutKeeps ==
  ASSUME SessionInv, RateInv, NEW c \in Conns, c = agent.conn, Cut(c), UNCHANGED <<now, loop>>
  PROVE  RateInv'
<1>1. now \in Nat /\ link \in [Conns -> BOOLEAN] /\ wire \in [Conns -> Seq(Message)]
  BY DEF SessionInv, BufferInv, AgentTypeOK, WireTypeOK
<1>2. ASSUME NEW d \in Conns
      PROVE  ~link'[d]
  BY <1>1 DEF Cut, SessionInv, LinkInv
<1>3. ASSUME NEW d \in Conns
      PROVE  wire'[d] = wire[d] \/ \E n \in 0..Len(wire[d]) : wire'[d] = SubSeq(wire[d], 1, n)
  BY <1>1 DEF Cut
<1> QED
  BY <1>1, <1>2, <1>3, NoLinkKeeps

\* The steps after which no link is up.
LEMMA EndingKeeps ==
  ASSUME SessionInv, RateInv,
         \/ ConnectFails \/ SessionLost \/ WaitSample \/ WaitEnds \/ CloseFrame \/ AgentRestarts
         \/ \E c \in Conns : Break(c)
  PROVE  RateInv'
<1>0. agent.conn \in Conns \cup {None} /\ (agent.pc \in {"dial", "wait"} => agent.conn = None)
  BY DEF SessionInv, BufferInv, AgentTypeOK, Agent, LinkInv
<1>1. CASE ConnectFails \/ WaitSample \/ WaitEnds
  <2>1. UNCHANGED <<now, link, wire, loop>> /\ agent.pc \in {"dial", "wait"}
    BY <1>1 DEF ConnectFails, WaitSample, WaitEnds
  <2> QED
    BY <1>0, <2>1, FailingKeeps
<1>2. CASE SessionLost
  BY <1>2, FailingKeeps DEF SessionLost
<1>3. CASE CloseFrame
  <2>1. agent.conn \in Conns
    BY <1>0, <1>3 DEF CloseFrame, SessionInv, LinkInv
  <2> QED
    BY <1>3, <2>1, CutKeeps DEF CloseFrame
<1>4. CASE AgentRestarts
  <2>1. CASE agent.conn = None
    BY <1>4, <2>1, FailingKeeps DEF AgentRestarts
  <2>2. CASE agent.conn # None
    BY <1>0, <1>4, <2>2, CutKeeps DEF AgentRestarts
  <2> QED
    BY <2>1, <2>2
<1>5. ASSUME NEW c \in Conns, Break(c)
      PROVE  RateInv'
  <2>1. c = agent.conn
    BY <1>5 DEF Break, SessionInv, LinkInv
  <2> QED
    BY <1>5, <2>1, CutKeeps DEF Break
<1> QED
  BY <1>1, <1>2, <1>3, <1>4, <1>5

\* A connection starts with a full bucket.
LEMMA ConnectKeeps ==
  ASSUME RateFits, SessionInv, RateInv, NEW c \in Conns, Connect(c)
  PROVE  RateInv'
<1> DEFINE m == [kind |-> "hello", points |-> <<>>, at |-> now]
<1>1. /\ now \in Nat /\ link \in [Conns -> BOOLEAN] /\ wire \in [Conns -> Seq(Message)]
      /\ buffer \in Seq(Nat) /\ Len(buffer) =< Capacity /\ agent.conn = None
  BY DEF SessionInv, BufferInv, AgentTypeOK, WireTypeOK, BufferIsNewest, LinkInv, Connect
<1>2. /\ wire' = [wire EXCEPT ![c] = <<m>>] /\ link' = [link EXCEPT ![c] = TRUE] /\ UNCHANGED <<now, buffer>>
      /\ loop' = [loop EXCEPT ![c] = [open |-> TRUE, tokens |-> Bucket, refilled |-> now]]
      /\ agent'.pc = "flush"
  <2>1. agent' = [agent EXCEPT !.pc = "flush", !.conn = c]
    BY DEF Connect
  <2>2. agent \in Agent
    BY DEF SessionInv, BufferInv, AgentTypeOK
  <2>3. agent'.pc = "flush"
    BY <2>1, <2>2 DEF Agent
  <2> QED
    BY <2>3 DEF Connect
<1>3. m \in Message /\ m.kind # "backfill" /\ m.at =< now /\ m.points = <<>>
  BY <1>1 DEF Message
<1> HIDE DEF m
<1>4. loop \in [Conns -> [open : BOOLEAN, tokens : 0..Bucket, refilled : Nat]]
  BY DEF RateInv, LoopTypeOK
<1>5. LoopTypeOK'
  BY <1>1, <1>2, <1>4, RateConstants DEF RateInv, LoopTypeOK
<1>6. Affordable(c)'
  <2>1. wire'[c] = <<m>> /\ loop'[c].tokens = Bucket /\ loop'[c].refilled = now
    BY <1>1, <1>2, <1>4
  <2>2. Tokens(c)' = Bucket
    <3>1. RefillRate * (now - now) = 0
      BY <1>1, RateConstants
    <3> QED
      BY <1>2, <2>1, <3>1, RateConstants DEF Tokens, Least
  <2>3. Bytes(m.points) =< MaxMessage
    <3>1. <<>> \in Seq(Nat) /\ Len(<<>>) = 0 /\ LargeSize * 0 = 0
      BY RateConstants
    <3>2. Bytes(<<>>) \in Nat /\ Bytes(<<>>) =< 0
      BY <3>1, BytesBounded
    <3> QED
      BY <1>3, <3>2, RateConstants
  <2>4. Carried(wire'[c], now')
    BY <1>2, <1>3, <2>1, <2>3, CarriedOne
  <2>5. Cost(m) = MessageCost
    BY <1>3, CostTyped
  <2>6. Costs(wire'[c], MessageCost)
    BY <1>3, <2>1, <2>5, CostsOne
  <2>7. MessageCost \in Nat /\ MessageCost =< Bucket
    BY Fitting, RateConstants
  <2>8. Flushing(MessageCost, Bucket, Len(buffer))
    <3>1. Remaining(Len(buffer)) =< Remaining(Capacity)
      BY <1>1, RateConstants, RemainingGrows
    <3>2. Remaining(Len(buffer)) \in Nat /\ Remaining(Capacity) \in Nat
      BY <1>1, RateConstants, RemainingTyped
    <3> QED
      BY <3>1, <3>2, RateConstants DEF Flushing, FlushCost
  <2> QED
    BY <1>2, <2>2, <2>4, <2>6, <2>7, <2>8 DEF Affordable
<1>7. ASSUME NEW d \in Conns, d # c, loop'[d].open
      PROVE  Affordable(d)' /\ ~link'[d]
  <2>1. loop'[d] = loop[d] /\ wire'[d] = wire[d] /\ link'[d] = link[d]
    BY <1>1, <1>2, <1>4, <1>7
  <2>2. ~link'[d]
    BY <1>1, <2>1, NoLinkUp
  <2>3. Tokens(d) \in Nat
    BY <1>1, TokensTyped DEF RateInv
  <2>4. Affordable(d)
    BY <1>7, <2>1 DEF RateInv
  <2> QED
    BY <1>2, <2>1, <2>2, <2>3, <2>4, DeadKeeps
<1>8. ASSUME NEW d \in Conns, link'[d]
      PROVE  loop'[d].open
  <2>1. d = c
    BY <1>1, <1>2, <1>8, NoLinkUp
  <2> QED
    BY <1>2, <1>4, <2>1
<1> QED
  BY <1>5, <1>6, <1>7, <1>8 DEF RateInv

\* A step of the session with the link c: the other wires stay as they are.
LEMMA OthersKeep ==
  ASSUME SessionInv, RateInv, NEW c \in Conns, c = agent.conn, UNCHANGED <<now, link, loop>>,
         \A d \in Conns \ {c} : wire'[d] = wire[d], loop[c].open => Affordable(c)'
  PROVE  RateInv'
<1>1. now \in Nat
  BY DEF SessionInv, BufferInv, AgentTypeOK
<1>2. ASSUME NEW d \in Conns, d # c, loop[d].open
      PROVE  Affordable(d)'
  <2>1. ~link'[d]
    BY <1>2 DEF SessionInv, LinkInv
  <2>2. Tokens(d) \in Nat
    BY <1>1, TokensTyped DEF RateInv
  <2>3. Affordable(d)
    BY <1>2 DEF RateInv
  <2> QED
    BY <1>2, <2>1, <2>2, <2>3, DeadKeeps
<1>3. LoopTypeOK'
  BY DEF RateInv, LoopTypeOK
<1> QED
  BY <1>2, <1>3 DEF RateInv

\* A message that goes into a live link, when the bucket has something left for it.
LEMMA SentKeeps ==
  ASSUME SessionInv, RateInv, NEW c \in Conns, c = agent.conn, UNCHANGED <<now, link, loop>>,
         NEW m \in Message, m.at = now, Bytes(m.points) =< MaxMessage, Appends(c, m),
         \A s \in Nat :
            /\ s =< Tokens(c)
            /\ link[c] /\ agent.pc = "flush" => Flushing(s, Tokens(c), Len(buffer))
            /\ link[c] /\ agent.pc = "live" => Reporting(s, Tokens(c), wire[c], agent.tick, now)
            => /\ s + Cost(m) =< Tokens(c)
               /\ agent'.pc = "flush" => Flushing(s + Cost(m), Tokens(c), Len(buffer'))
               /\ agent'.pc = "live" =>
                     Reporting(s + Cost(m), Tokens(c), Append(wire[c], m), agent'.tick, now)
  PROVE  RateInv'
<1>1. now \in Nat /\ wire \in [Conns -> Seq(Message)]
  BY DEF SessionInv, BufferInv, AgentTypeOK, WireTypeOK
<1>2. wire'[c] = Append(wire[c], m) /\ \A d \in Conns \ {c} : wire'[d] = wire[d]
  BY <1>1 DEF Appends
<1>3. ASSUME loop[c].open
      PROVE  Affordable(c)'
  <2>1. Affordable(c)
    BY <1>3 DEF RateInv
  <2>2. PICK s \in Nat :
          /\ Costs(wire[c], s)
          /\ s =< Tokens(c)
          /\ link[c] /\ agent.pc = "flush" => Flushing(s, Tokens(c), Len(buffer))
          /\ link[c] /\ agent.pc = "live" => Reporting(s, Tokens(c), wire[c], agent.tick, now)
    BY <2>1 DEF Affordable
  <2>3. /\ s + Cost(m) =< Tokens(c)
        /\ agent'.pc = "flush" => Flushing(s + Cost(m), Tokens(c), Len(buffer'))
        /\ agent'.pc = "live" =>
              Reporting(s + Cost(m), Tokens(c), Append(wire[c], m), agent'.tick, now)
    BY <2>2, Zenon
  <2>4. s + Cost(m) \in Nat
    BY <2>2, CostTyped
  <2>5. Costs(Append(wire[c], m), s + Cost(m))
    BY <1>1, <2>2, CostsAppend
  <2>6. Carried(Append(wire[c], m), now)
    BY <1>1, <2>1, CarriedAppend DEF Affordable
  <2>7. Tokens(c)' = Tokens(c)
    BY TokensSame
  <2>8. now' = now /\ link' = link
    OBVIOUS
  <2> QED
    BY <1>2, <2>3, <2>4, <2>5, <2>6, <2>7, <2>8, Zenon DEF Affordable
<1> QED
  BY <1>2, <1>3, OthersKeep

\* A chunk of the buffer (flush_backfill): what was reckoned for the buffer pays it.
LEMMA ChunkKeeps ==
  ASSUME RateFits, SessionInv, RateInv, FlushChunk
  PROVE  RateInv'
<1>1. /\ now \in Nat /\ buffer \in Seq(Nat) /\ wire \in [Conns -> Seq(Message)] /\ agent.pc = "flush"
      /\ agent.conn \in Conns /\ UNCHANGED <<now, link, loop>> /\ now' = now
  BY DEF SessionInv, BufferInv, AgentTypeOK, Agent, WireTypeOK, LinkInv, FlushChunk
<1>2. CASE ~link[agent.conn]
  <2>1. UNCHANGED wire
    BY <1>2 DEF FlushChunk, Send, SendFails
  <2> QED
    BY <1>1, <1>2, <2>1, FailingKeeps
<1>3. CASE link[agent.conn]
  <2> DEFINE c == agent.conn
             b == Len(buffer)
  <2>1. PICK n \in 1..b : /\ ChunkLength(n)
                          /\ Send("backfill", SubSeq(buffer, 1, n))
                          /\ buffer' = SubSeq(buffer, n + 1, b)
                          /\ UNCHANGED agent
    BY <1>3 DEF FlushChunk, SendFails
  <2> DEFINE points == SubSeq(buffer, 1, n)
             m == [kind |-> "backfill", points |-> points, at |-> now]
  <2>2. b \in Nat /\ points \in Seq(Nat) /\ Len(points) = n /\ Len(buffer') = b - n
    BY <1>1, <2>1
  <2>3. m \in Message /\ m.at = now /\ m.points = points
    BY <1>1, <2>2 DEF Message
  <2>4. Appends(c, m)
    BY <1>3, <2>1 DEF Send, Appends
  <2>5. Bytes(points) =< MaxMessage
    <3>1. Bytes(points) \in Nat /\ Bytes(points) =< LargeSize * n
      BY <2>2, BytesBounded
    <3>2. CASE n = 1
      <4>1. LargeSize * n = LargeSize
        BY <3>2, RateConstants
      <4> QED
        BY <3>1, <4>1, RateConstants DEF RateFits
    <3>3. CASE n # 1
      <4>1. Bytes(points) =< ChunkBytes
        BY <2>1, <3>3 DEF ChunkLength, Fits
      <4> QED
        BY <3>1, <4>1, RateConstants DEF RateFits
    <3> QED
      BY <3>2, <3>3
  <2>6. n < b => n >= SureChunk
    <3>1. ASSUME n < b, n < SureChunk
          PROVE  FALSE
      <4>1. n + 1 \in 1..SureChunk /\ n + 1 =< Len(buffer)
        BY <2>2, <3>1, RateConstants
      <4>2. Fits(n + 1)
        BY <1>1, <4>1, SureFits
      <4> QED
        BY <2>1, <3>1, <4>2 DEF ChunkLength
    <3> QED
      BY <2>2, <3>1, RateConstants
  <2>7. n + MessageCost + Remaining(b - n) =< Remaining(b)
    BY <2>2, <2>6, RemainingLess
  <2>8. Cost(m) \in Nat /\ Cost(m) =< n + MessageCost
    BY <2>2, <2>3, CostTyped
  <2>9. Remaining(b) \in Nat /\ Remaining(b - n) \in Nat
    <3>1. b - n \in Nat
      BY <2>2
    <3> QED
      BY <2>2, <3>1, RemainingTyped
  <2>10. c \in Conns /\ Tokens(c) \in Nat
    BY <1>1, TokensTyped DEF RateInv
  <2> HIDE DEF c, b, points, m
  <2>11. ASSUME NEW s \in Nat, s =< Tokens(c), Flushing(s, Tokens(c), b)
         PROVE  s + Cost(m) =< Tokens(c) /\ Flushing(s + Cost(m), Tokens(c), b - n)
    <3>1. FlushCost \in Nat /\ FlushCost =< Bucket /\ Bucket \in Nat
      BY Fitting, RateConstants
    <3>2. Tokens(c) + FlushCost >= s + Bucket + Remaining(b)
      BY <2>11 DEF Flushing
    <3>3. Tokens(c) + FlushCost >= s + Cost(m) + Bucket + Remaining(b - n)
      BY <2>7, <2>8, <2>9, <2>10, <3>1, <3>2, RateConstants
    <3> QED
      BY <2>8, <2>9, <2>10, <3>1, <3>3 DEF Flushing
  <2>12. agent' = agent /\ agent.pc = "flush" /\ "flush" # "live"
    BY <1>1, <2>1
  <2>13. \A s \in Nat :
            /\ s =< Tokens(c)
            /\ link[c] /\ agent.pc = "flush" => Flushing(s, Tokens(c), Len(buffer))
            /\ link[c] /\ agent.pc = "live" => Reporting(s, Tokens(c), wire[c], agent.tick, now)
            => /\ s + Cost(m) =< Tokens(c)
               /\ agent'.pc = "flush" => Flushing(s + Cost(m), Tokens(c), Len(buffer'))
               /\ agent'.pc = "live" =>
                     Reporting(s + Cost(m), Tokens(c), Append(wire[c], m), agent'.tick, now)
    <3>1. link[c] /\ Len(buffer) = b /\ Len(buffer') = b - n
      BY <1>3, <2>2 DEF c, b
    <3> QED
      BY <2>11, <2>12, <3>1, Zenon
  <2> QED
    BY <1>1, <2>3, <2>4, <2>5, <2>10, <2>13, SentKeeps DEF c
<1> QED
  BY <1>2, <1>3

\* The buffer has been sent: the reports begin, one of them at once.
LEMMA FlushDoneKeeps ==
  ASSUME RateFits, SessionInv, RateInv, FlushDone
  PROVE  RateInv'
<1>1. /\ now \in Nat /\ wire \in [Conns -> Seq(Message)] /\ agent.pc = "flush"
      /\ agent.conn \in Conns /\ UNCHANGED <<now, link, loop, wire, buffer>> /\ buffer = <<>>
      /\ agent'.pc = "live" /\ agent'.tick = now
  <2>1. agent \in Agent /\ agent' = [agent EXCEPT !.pc = "live", !.tick = now]
    BY DEF SessionInv, BufferInv, AgentTypeOK, FlushDone
  <2>2. agent'.pc = "live" /\ agent'.tick = now
    BY <2>1 DEF Agent
  <2> QED
    BY <2>2 DEF SessionInv, BufferInv, AgentTypeOK, Agent, WireTypeOK, LinkInv, FlushDone
<1>0. PICK c \in Conns : c = agent.conn
  BY <1>1
<1>2. c \in Conns /\ Tokens(c) \in Nat /\ Tokens(c) =< Bucket
  BY <1>1, TokensTyped DEF RateInv
<1>3. ASSUME NEW s \in Nat, Flushing(s, Tokens(c), 0), NEW w \in Seq(Message)
      PROVE  Reporting(s, Tokens(c), w, now, now)
  <2>1. Remaining(0) = 0
    BY DEF Remaining
  <2>2. Tokens(c) + FlushCost >= s + Bucket
    BY <1>3, <2>1, Fitting, RateConstants DEF Flushing
  <2>3. s =< FlushCost
    BY <1>2, <2>2, Fitting, RateConstants
  <2>4. Len(w) \in 0..Len(w) /\ MessageCost * (Len(w) - Len(w)) = 0
    BY RateConstants
  <2>5. (Len(w) + 1)..Len(w) = {}
    OBVIOUS
  <2>6. now =< now + Interval
    BY <1>1, RateConstants
  <2>7. RefillRate * Off(now, now) = 0
    BY <1>1, RateConstants DEF Off
  <2>8. Tokens(c) + RefillRate * Off(now, now) + FlushCost + MessageCost * (Delayed + 1) >= s + Bucket
    <3> DEFINE d == MessageCost * (Delayed + 1)
    <3>1. d \in Nat
      BY Fitting
    <3> HIDE DEF d
    <3>2. Tokens(c) + 0 + FlushCost + d >= s + Bucket
      BY <1>2, <2>2, <3>1, Fitting, RateConstants
    <3> QED
      BY <2>7, <3>2 DEF d
  <2>9. /\ s =< FlushCost + MessageCost * (Len(w) - Len(w))
        /\ \A i \in (Len(w) + 1)..Len(w) :
              w[i].kind = "metrics" /\ w[i].at + Interval * (Len(w) - i + 1) =< now
    BY <2>3, <2>4, <2>5, Fitting
  <2> QED
    BY <2>4, <2>6, <2>8, <2>9 DEF Reporting
<1>4. ASSUME loop[c].open
      PROVE  Affordable(c)'
  <2>1. Affordable(c)
    BY <1>2, <1>4 DEF RateInv
  <2>2. PICK s \in Nat :
          /\ Costs(wire[c], s)
          /\ s =< Tokens(c)
          /\ link[c] /\ agent.pc = "flush" => Flushing(s, Tokens(c), Len(buffer))
    BY <2>1 DEF Affordable
  <2>3. Len(buffer) = 0 /\ wire[c] \in Seq(Message)
    BY <1>1, <1>2
  <2>4. link[c] => Reporting(s, Tokens(c), wire[c], now, now)
    BY <1>1, <1>3, <2>2, <2>3
  <2>5. agent'.pc = "live" /\ "live" # "flush" /\ agent'.tick = now /\ now' = now
        /\ link' = link /\ wire' = wire /\ loop' = loop
    BY <1>1
  <2>6. Tokens(c)' = Tokens(c)
    BY <1>2, <2>5, TokensSame
  <2>7. Carried(wire'[c], now')
    BY <2>1, <2>5 DEF Affordable
  <2>8. link'[c] /\ agent'.pc = "live" => Reporting(s, Tokens(c)', wire'[c], agent'.tick, now')
    BY <2>4, <2>5, <2>6, Zenon
  <2>9. Costs(wire'[c], s) /\ s =< Tokens(c)'
    BY <2>2, <2>5, <2>6, Zenon
  <2> QED
    BY <2>5, <2>7, <2>8, <2>9, Zenon DEF Affordable
<1>5. \A d \in Conns \ {c} : wire'[d] = wire[d]
  BY <1>1
<1>6. UNCHANGED <<now, link, loop>> /\ c = agent.conn
  BY <1>0, <1>1
<1> QED
  BY <1>2, <1>4, <1>5, <1>6, OthersKeep

\* A report: the interval has brought in what it costs.
LEMMA ReportingKeeps ==
  ASSUME RateFits, SessionInv, RateInv, Report
  PROVE  RateInv'
<1> DEFINE c == agent.conn
           points == <<Len(samples) + 1>>
           m == [kind |-> "metrics", points |-> points, at |-> now]
<1>1. /\ now \in Nat /\ wire \in [Conns -> Seq(Message)] /\ agent.pc = "live" /\ agent.tick \in Nat
      /\ c \in Conns /\ UNCHANGED <<now, link, loop>> /\ now >= agent.tick /\ samples \in Seq(Int)
      /\ agent \in Agent
  BY DEF SessionInv, BufferInv, AgentTypeOK, Agent, WireTypeOK, LinkInv, Report, TakeSample
<1>2. CASE ~link[agent.conn]
  <2>1. UNCHANGED wire
    BY <1>2 DEF Report, Send, SendFails
  <2> QED
    BY <1>1, <1>2, <2>1, FailingKeeps
<1>3. CASE link[agent.conn]
  <2>1. /\ Send("metrics", points)
        /\ agent' = [agent EXCEPT !.tick = now + Interval]
        /\ UNCHANGED buffer
    BY <1>3 DEF Report, SendFails
  <2>2. points \in Seq(Nat) /\ Len(points) = 1
    BY <1>1
  <2>3. m \in Message /\ m.at = now /\ m.points = points /\ m.kind = "metrics"
    BY <1>1, <2>2 DEF Message
  <2>4. Appends(c, m)
    BY <1>3, <2>1 DEF Send, Appends
  <2>5. Bytes(points) =< MaxMessage
    <3>1. Bytes(points) \in Nat /\ Bytes(points) =< LargeSize * 1
      BY <2>2, BytesBounded
    <3> QED
      BY <3>1, RateConstants DEF RateFits
  <2>6. Cost(m) = MessageCost
    <3>1. m.kind # "backfill"
      BY <2>3
    <3> QED
      BY <2>3, <3>1, CostTyped
  <2>7. Tokens(c) \in Nat
    BY <1>1, TokensTyped DEF RateInv
  <2>8. agent'.pc = "live" /\ "live" # "flush" /\ agent'.tick = now + Interval
    BY <1>1, <2>1 DEF Agent
  <2>9. wire[c] \in Seq(Message)
    BY <1>1
  <2> HIDE DEF c, points, m
  <2>10. ASSUME NEW s \in Nat, Reporting(s, Tokens(c), wire[c], agent.tick, now)
         PROVE  /\ s + Cost(m) =< Tokens(c)
                /\ Reporting(s + Cost(m), Tokens(c), Append(wire[c], m), agent'.tick, now)
    <3>1. /\ s + MessageCost =< Tokens(c)
          /\ Reporting(s + MessageCost, Tokens(c), Append(wire[c], m), now + Interval, now)
      BY <1>1, <2>3, <2>7, <2>9, <2>10, ReportingSent
    <3> QED
      BY <2>6, <2>8, <3>1, Zenon
  <2>11. link[c] /\ agent.pc = "live"
    BY <1>1, <1>3 DEF c
  <2>12. \A s \in Nat :
            /\ s =< Tokens(c)
            /\ link[c] /\ agent.pc = "flush" => Flushing(s, Tokens(c), Len(buffer))
            /\ link[c] /\ agent.pc = "live" => Reporting(s, Tokens(c), wire[c], agent.tick, now)
            => /\ s + Cost(m) =< Tokens(c)
               /\ agent'.pc = "flush" => Flushing(s + Cost(m), Tokens(c), Len(buffer'))
               /\ agent'.pc = "live" =>
                     Reporting(s + Cost(m), Tokens(c), Append(wire[c], m), agent'.tick, now)
    BY <2>8, <2>10, <2>11, Zenon
  <2> QED
    BY <1>1, <2>3, <2>4, <2>5, <2>12, SentKeeps DEF c
<1> QED
  BY <1>2, <1>3

\* The loop that ends takes its link with it.
LEMMA LeavingKeeps ==
  ASSUME SessionInv, RateInv, NEW c \in Conns, Leave(c), UNCHANGED <<now, agent, buffer>>
  PROVE  RateInv'
<1>1. /\ now \in Nat /\ link \in [Conns -> BOOLEAN] /\ wire \in [Conns -> Seq(Message)]
      /\ loop \in [Conns -> [open : BOOLEAN, tokens : 0..Bucket, refilled : Nat]]
  BY DEF SessionInv, BufferInv, AgentTypeOK, WireTypeOK, RateInv, LoopTypeOK
<1>2. /\ loop'[c] = ClosedLoop /\ link'[c] = FALSE
      /\ \A d \in Conns \ {c} : loop'[d] = loop[d] /\ link'[d] = link[d] /\ wire'[d] = wire[d]
  BY <1>1 DEF Leave
<1>3. LoopTypeOK'
  BY <1>1, RateConstants DEF Leave, ClosedLoop, RateInv, LoopTypeOK
<1>4. ASSUME NEW d \in Conns, d # c, loop'[d].open
      PROVE  Affordable(d)'
  BY <1>2, <1>4, SameKeeps DEF RateInv
<1>5. loop'[c].open = FALSE
  BY <1>2 DEF ClosedLoop
<1> QED
  BY <1>2, <1>3, <1>4, <1>5 DEF RateInv

\* The server takes a message that is paid for.
LEMMA PayingKeeps ==
  ASSUME RateFits, SessionInv, RateInv, NEW c \in Conns, loop[c].open, wire[c] # <<>>, Take(c),
         UNCHANGED <<now, agent, buffer>>
  PROVE  RateInv'
<1>1. /\ now \in Nat /\ link \in [Conns -> BOOLEAN] /\ wire \in [Conns -> Seq(Message)]
      /\ loop \in [Conns -> [open : BOOLEAN, tokens : 0..Bucket, refilled : Nat]]
      /\ agent.tick \in Nat
  BY DEF SessionInv, BufferInv, AgentTypeOK, Agent, WireTypeOK, RateInv, LoopTypeOK
<1>2. Affordable(c)
  BY DEF RateInv
<1>3. PICK s \in Nat :
        /\ Costs(wire[c], s)
        /\ s =< Tokens(c)
        /\ link[c] /\ agent.pc = "flush" => Flushing(s, Tokens(c), Len(buffer))
        /\ link[c] /\ agent.pc = "live" => Reporting(s, Tokens(c), wire[c], agent.tick, now)
  BY <1>2 DEF Affordable
<1>4. PICK q \in Nat : q = Cost(Head(wire[c])) /\ q =< s
  BY <1>1, <1>3, CostsTyped
<1>5. PICK t \in Nat : t = Tokens(c) /\ t =< Bucket
  BY <1>1, TokensTyped DEF RateInv
<1>6. t - q \in 0..Bucket /\ s - q \in Nat /\ s - q =< t - q
  BY <1>3, <1>4, <1>5, RateConstants
<1>7. /\ loop' = [loop EXCEPT ![c].tokens = t - q, ![c].refilled = now]
      /\ wire' = [wire EXCEPT ![c] = Tail(@)]
      /\ UNCHANGED link
  BY <1>4, <1>5 DEF Take
<1>8. /\ loop'[c].tokens = t - q /\ loop'[c].refilled = now /\ loop'[c].open /\ wire'[c] = Tail(wire[c])
      /\ \A d \in Conns \ {c} : loop'[d] = loop[d] /\ link'[d] = link[d] /\ wire'[d] = wire[d]
  BY <1>1, <1>7
<1>9. LoopTypeOK'
  <2>1. loop' \in [Conns -> [open : BOOLEAN, tokens : 0..Bucket, refilled : Nat]]
    BY <1>1, <1>6, <1>7
  <2>2. \A d \in Conns : loop'[d].refilled =< now'
    <3>1. \A d \in Conns : loop[d].refilled =< now
      BY DEF RateInv, LoopTypeOK
    <3>2. now' = now /\ now =< now
      BY <1>1
    <3> QED
      BY <1>8, <3>1, <3>2
  <2> QED
    BY <2>1, <2>2 DEF LoopTypeOK
<1>10. Affordable(c)'
  <2>1. Tokens(c)' = t - q
    <3>1. RefillRate * (now - now) = 0
      BY <1>1, RateConstants
    <3>2. t - q + 0 = t - q /\ ~(Bucket < t - q)
      BY <1>6, RateConstants
    <3>3. now' = now
      OBVIOUS
    <3>4. Tokens(c)' = Least(Bucket, t - q + RefillRate * (now - now))
      BY <1>8, <3>3 DEF Tokens
    <3>5. Least(Bucket, t - q) = t - q
      BY <1>6, RateConstants DEF Least
    <3> QED
      BY <3>1, <3>2, <3>4, <3>5
  <2>2. Carried(Tail(wire[c]), now)
    BY <1>2, CarriedTail DEF Affordable
  <2>3. Costs(Tail(wire[c]), s - q)
    BY <1>1, <1>3, <1>4, CostsTail
  <2>4. Flushing(s, t, Len(buffer)) => Flushing(s - q, t - q, Len(buffer))
    <3>1. Remaining(Len(buffer)) \in Nat
      <4>1. Len(buffer) \in Nat
        BY DEF SessionInv, BufferInv, AgentTypeOK
      <4> QED
        BY <4>1, RemainingTyped
    <3>2. FlushCost \in Nat
      BY Fitting
    <3> QED
      BY <1>4, <3>1, <3>2, RateConstants DEF Flushing
  <2>5. Reporting(s, t, wire[c], agent.tick, now)
          => Reporting(s - q, t - q, Tail(wire[c]), agent.tick, now)
    BY <1>1, <1>4, ReportingTaken
  <2>6. now' = now /\ agent' = agent /\ buffer' = buffer /\ link' = link
    BY <1>7
  <2>7. link'[c] /\ agent'.pc = "flush" => Flushing(s - q, Tokens(c)', Len(buffer'))
    BY <1>3, <1>5, <2>1, <2>4, <2>6, Zenon
  <2>8. link'[c] /\ agent'.pc = "live" => Reporting(s - q, Tokens(c)', wire'[c], agent'.tick, now')
    BY <1>3, <1>5, <1>8, <2>1, <2>5, <2>6, Zenon
  <2>9. Carried(wire'[c], now') /\ Costs(wire'[c], s - q) /\ s - q \in Nat /\ s - q =< Tokens(c)'
    BY <1>6, <1>8, <2>1, <2>2, <2>3, <2>6, Zenon
  <2> QED
    BY <2>7, <2>8, <2>9, Zenon DEF Affordable
<1>11. ASSUME NEW d \in Conns, d # c, loop'[d].open
       PROVE  Affordable(d)'
  BY <1>8, <1>11, SameKeeps DEF RateInv
<1>12. ASSUME NEW d \in Conns, link'[d]
       PROVE  loop'[d].open
  BY <1>7, <1>8, <1>12 DEF RateInv
<1> QED
  BY <1>9, <1>10, <1>11, <1>12 DEF RateInv

\* A step of the server's loop.
LEMMA ServingKeeps ==
  ASSUME RateFits, SessionInv, RateInv, NEW c \in Conns, Serve(c)
  PROVE  RateInv'
<1>1. UNCHANGED <<now, agent, buffer>>
  BY DEF Serve, Receive, PeerGone, agentVars
<1>2. Leave(c) \/ (loop[c].open /\ wire[c] # <<>> /\ Take(c))
  BY DEF Serve, Receive, PeerGone, Hello, Metrics, Backfill
<1> QED
  BY <1>1, <1>2, LeavingKeeps, PayingKeeps

\* A second passes.
LEMMA PassingKeeps ==
  ASSUME RateFits, SessionInv, RateInv, Tick
  PROVE  RateInv'
<1>1. now \in Nat /\ now' = now + 1 /\ UNCHANGED <<agent, buffer, link, wire, loop>> /\ agent.tick \in Nat
      /\ wire \in [Conns -> Seq(Message)] /\ Len(buffer) \in Nat
  BY DEF SessionInv, BufferInv, AgentTypeOK, Agent, WireTypeOK, Tick, agentVars
<1>2. LoopTypeOK'
  BY <1>1 DEF RateInv, LoopTypeOK
<1>3. ASSUME NEW c \in Conns, loop[c].open
      PROVE  Affordable(c)'
  <2>1. Affordable(c)
    BY <1>3 DEF RateInv
  <2>2. PICK s \in Nat :
          /\ Costs(wire[c], s)
          /\ s =< Tokens(c)
          /\ link[c] /\ agent.pc = "flush" => Flushing(s, Tokens(c), Len(buffer))
          /\ link[c] /\ agent.pc = "live" => Reporting(s, Tokens(c), wire[c], agent.tick, now)
    BY <2>1 DEF Affordable
  <2>3. PICK t \in Nat : t = Tokens(c)
    BY <1>1, TokensTyped DEF RateInv
  <2>4. PICK u \in Nat : u = Tokens(c)' /\ u >= t /\ (u = Bucket \/ u >= t + RefillRate)
    BY <1>1, <2>3, TokensTick DEF RateInv
  <2>5. s =< u
    BY <2>2, <2>3, <2>4
  <2>6. Flushing(s, t, Len(buffer)) => Flushing(s, u, Len(buffer))
    <3>1. Remaining(Len(buffer)) \in Nat
      BY <1>1, RemainingTyped
    <3>2. FlushCost \in Nat
      BY Fitting
    <3> QED
      BY <2>4, <3>1, <3>2, RateConstants DEF Flushing
  <2>7. Carried(wire[c], now) /\ Carried(wire[c], now + 1)
    <3>1. Carried(wire[c], now)
      BY <2>1 DEF Affordable
    <3>2. \A i \in 1..Len(wire[c]) : wire[c][i].at \in Nat
      <4>1. wire[c] \in Seq(Message)
        BY <1>1
      <4>2. \A i \in 1..Len(wire[c]) : wire[c][i] \in Message
        BY <4>1
      <4> QED
        BY <4>2 DEF Message
    <3> QED
      BY <1>1, <3>1, <3>2 DEF Carried
  <2>8. ASSUME link[c], Reporting(s, t, wire[c], agent.tick, now)
        PROVE  Reporting(s, u, wire[c], agent.tick, now + 1)
    <3>1. wire[c] # <<>> => now < Head(wire[c]).at + MaxDelay
      BY <2>8 DEF Tick
    <3> QED
      BY <1>1, <2>4, <2>7, <2>8, <3>1, ReportingTick
  <2>9. link'[c] /\ agent'.pc = "flush" => Flushing(s, Tokens(c)', Len(buffer'))
    BY <1>1, <2>2, <2>3, <2>4, <2>6
  <2>10. link'[c] /\ agent'.pc = "live" => Reporting(s, Tokens(c)', wire'[c], agent'.tick, now')
    BY <1>1, <2>2, <2>3, <2>4, <2>8
  <2>11. Carried(wire'[c], now') /\ Costs(wire'[c], s) /\ s =< Tokens(c)'
    BY <1>1, <2>2, <2>4, <2>5, <2>7
  <2> QED
    BY <2>2, <2>9, <2>10, <2>11, Zenon DEF Affordable
<1> QED
  BY <1>1, <1>2, <1>3 DEF RateInv

\* Every step keeps what the bucket and the wires say of each other.
LEMMA RateInvStep ==
  ASSUME RateFits, SessionInv, RateInv, [Next]_vars
  PROVE  RateInv'
<1>1. CASE UNCHANGED vars
  <2>1. UNCHANGED <<now, agent, buffer, loop, link, wire>>
    BY <1>1 DEF vars
  <2>2. \A c \in Conns : loop[c].open => Affordable(c)'
    BY <2>1, SameKeeps DEF RateInv
  <2> QED
    BY <2>1, <2>2 DEF RateInv, LoopTypeOK
<1>2. CASE Next
  <2>1. \/ \E c \in Conns : Connect(c)
        \/ FlushChunk
        \/ FlushDone
        \/ Report
        \/ \E c \in Conns : Serve(c)
        \/ Tick
        \/ ConnectFails \/ SessionLost \/ WaitSample \/ WaitEnds \/ CloseFrame \/ AgentRestarts
        \/ \E c \in Conns : Break(c)
    BY <1>2, Zenon DEF Next, AgentStep
  <2> QED
    BY <2>1, ConnectKeeps, ChunkKeeps, FlushDoneKeeps, ReportingKeeps, ServingKeeps, PassingKeeps,
       EndingKeeps
<1> QED
  BY <1>1, <1>2

-----------------------------------------------------------------------------
(* The theorems.                                                           *)

\* The agent's buffer is always the unbroken run of its newest samples, bounded by
\* the capacity, and empty while it reports (push_buffered, flush_backfill).
THEOREM SessionKeepsNewest == Spec => []BufferIsNewest
<1>1. BufferInv => BufferIsNewest
  BY DEF BufferInv
<1> QED
  BY <1>1, BufferInvInit, BufferInvStep, PTL DEF Spec

\* While a link holds, each sample that it was given is on its way or stored, or
\* the server refused it (flush_backfill against handle_msg): a chunk is never
\* longer than the server hears.
THEOREM NothingIsLost == Spec => []NothingLostOnLink
<1>1. ReportInv => NothingLostOnLink
  BY DEF ReportInv
<1>2. Init => ReportInv
  BY ReportInvInit
<1>3. ReportInv /\ [Next]_vars => ReportInv'
  BY ReportInvStep
<1> QED
  BY <1>1, <1>2, <1>3, PTL DEF Spec

\* The agent, its connections and the server's loops implement the log of samples:
\* a sample leaves the agent once, in the order in which it was taken, and is never
\* stored after the wires have lost it.
THEOREM AgentImplementsLog == Spec => ImplementsLog
<1>1. Init => ReportInv /\ Log!Init
  BY ReportInvInit
<1>2. ReportInv /\ [Next]_vars => ReportInv' /\ [Log!Next]_Log!vars
  BY ReportInvStep DEF LogStep
<1> QED
  BY <1>1, <1>2, PTL DEF Spec, ImplementsLog, Log!Spec

\* The server never cuts off the agent for its rate or for the size of a message, if
\* the bucket holds a full buffer in its smallest chunks and the reports that may be
\* late (the token bucket of ws_agent.rs against backfill_chunk_len, MAX_BUFFER and
\* the reporting interval): whatever breaks, a reconnect never finds itself refused
\* for what it has to send.
THEOREM NeverCutOff == ASSUME RateFits PROVE Spec => []NotCutOff
<1>1. Init => ReportInv /\ RateInv
  BY ReportInvInit, RateInvInit
<1>2. ReportInv /\ RateInv /\ [Next]_vars => ReportInv' /\ RateInv'
  BY ReportInvStep, RateInvStep DEF ReportInv
<1>3. ReportInv /\ RateInv => NotCutOff
  <2> SUFFICES ASSUME ReportInv, RateInv, NEW c \in Conns, loop[c].open, wire[c] # <<>>
               PROVE  Acceptable(c, Head(wire[c]))
    BY DEF NotCutOff
  <2>1. Affordable(c)
    BY DEF RateInv
  <2>2. PICK s \in Nat : Costs(wire[c], s) /\ s =< Tokens(c)
    BY <2>1 DEF Affordable
  <2>3. wire[c] \in Seq(Message) /\ now \in Nat
    BY DEF ReportInv, SessionInv, BufferInv, AgentTypeOK, WireTypeOK
  <2>4. Cost(Head(wire[c])) =< s /\ Cost(Head(wire[c])) \in Nat
    BY <2>2, <2>3, CostsTyped
  <2>5. Tokens(c) \in Nat
    BY <2>3, TokensTyped DEF RateInv
  <2>6. Bytes(Head(wire[c]).points) =< MaxMessage
    <3>1. 1 \in 1..Len(wire[c]) /\ Head(wire[c]) = wire[c][1]
      BY <2>3
    <3>2. \A i \in 1..Len(wire[c]) : Bytes(wire[c][i].points) =< MaxMessage
      BY <2>1 DEF Affordable, Carried
    <3> QED
      BY <3>1, <3>2
  <2> QED
    BY <2>2, <2>4, <2>5, <2>6 DEF Acceptable
<1> QED
  BY <1>1, <1>2, <1>3, PTL DEF Spec

=============================================================================
