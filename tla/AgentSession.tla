---------------------------- MODULE AgentSession ----------------------------
(***************************************************************************)
(* The reporting of samples: the agent of one node with its buffer and     *)
(* back-off (crates/agent/src/main.rs), the connections it uses one after  *)
(* another, and the loops of crates/server/src/handlers/ws_agent.rs that   *)
(* check the message rate and store what arrives.  A sample is a number,   *)
(* in the order in which the agent takes them.  The server may still be    *)
(* working off an old connection when the agent has opened the next.       *)
(* The node exists and is not revoked.                                     *)
(***************************************************************************)
EXTENDS Integers, Sequences, FiniteSetsExt

CONSTANTS
    Conns,          \* connection loops the server may be running at a time
    None,           \* no connection
    Capacity,       \* MAX_BUFFER
    Chunk,          \* BACKFILL_CHUNK
    ChunkBytes,     \* BACKFILL_MAX_BYTES
    MaxMessage,     \* MAX_WS_MESSAGE_BYTES
    MaxPoints,      \* MAX_POINTS, of one Backfill
    Large,          \* the samples that are LargeSize bytes, the others being one
    LargeSize,
    Interval,       \* interval_secs
    MaxBackoff,     \* the cap of the back-off
    Skew,           \* the agent's clock minus the server's
    TsSkew,         \* ts_skew_secs
    MaxAge,         \* MAX_BACKFILL_AGE
    Bucket,         \* MSG_BUCKET_MAX, in the tokens that one point costs
    MessageCost,    \* what a message costs beside its points
    RefillRate,     \* MSG_REFILL_PER_SEC, in the same tokens
    MaxDelay,       \* a message that is not lost arrives within this time
    MaxTime,        \* bound: the clock stops here
    MaxSamples,     \* bound: samples taken
    MaxTroubles     \* bound: broken links, failed statements, restarts

ASSUME SessionAssumption ==
    /\ None \notin Conns
    /\ Capacity \in Nat \ {0} /\ Chunk \in Nat \ {0} /\ LargeSize \in Nat \ {0}
    /\ Interval \in Nat \ {0} /\ MaxBackoff \in Nat \ {0}
    /\ ChunkBytes \in Nat /\ MaxMessage \in Nat
    /\ MaxPoints \in Nat /\ Chunk =< MaxPoints
    /\ TsSkew \in Nat /\ MaxAge \in Nat /\ MaxDelay \in Nat
    /\ Bucket \in Nat /\ MessageCost \in Nat /\ RefillRate \in Nat
    /\ MaxTime \in Nat /\ MaxSamples \in Nat /\ MaxTroubles \in Nat
    /\ Skew \in Int
    /\ Large \subseteq Nat

Least(a, b) == IF a < b THEN a ELSE b
Abs(x) == IF x < 0 THEN -x ELSE x

VARIABLES
    now,        \* the server's clock
    samples,    \* samples[s]: the agent's time when it took sample s
    buffer,     \* the agent's buffer, oldest first
    agent,      \* where the agent stands
    link,       \* link[c]: the two ends of c still reach each other
    wire,       \* wire[c]: messages on their way to the server
    loop,       \* the connection loops of the server
    rows,       \* table metrics: [ts, id]
    owed,       \* history: samples given to the link that is up and not refused
    troubles    \* bound

vars == <<now, samples, buffer, agent, link, wire, loop, rows, owed, troubles>>
agentVars == <<samples, buffer, agent>>

\* Dialling, sending the buffer, reporting, or waiting for the next attempt.
AgentPc == {"dial", "flush", "live", "wait"}

ClosedLoop == [open |-> FALSE, tokens |-> 0, refilled |-> 0]

FirstDial == [pc |-> "dial", conn |-> None, tick |-> 0, deadline |-> 0, backoff |-> 1]

Init ==
    /\ now = 0
    /\ samples = <<>>
    /\ buffer = <<>>
    /\ agent = FirstDial
    /\ link = [c \in Conns |-> FALSE]
    /\ wire = [c \in Conns |-> <<>>]
    /\ loop = [c \in Conns |-> ClosedLoop]
    /\ rows = {}
    /\ owed = {}
    /\ troubles = 0

Trouble == troubles < MaxTroubles /\ troubles' = troubles + 1

Points(m) == {m.points[i] : i \in DOMAIN m.points}

-----------------------------------------------------------------------------
(* The agent.                                                              *)

\* Variant with a fault: when the buffer is full, the new sample is the one that goes.
BufferedDropNew(buf, s) == IF Len(buf) >= Capacity THEN buf ELSE Append(buf, s)
\* push_buffered: the oldest sample makes room.
Buffered(buf, s) == Append(IF Len(buf) >= Capacity THEN Tail(buf) ELSE buf, s)

\* A session ended: wait for the back-off, sampling meanwhile.
EnterWait(backoff) ==
    agent' = [pc |-> "wait", conn |-> None, tick |-> now + Interval,
              deadline |-> now + backoff, backoff |-> backoff]

\* The connection cannot be made or is refused.
ConnectFails ==
    /\ agent.pc = "dial"
    /\ Trouble
    /\ EnterWait(agent.backoff)
    /\ UNCHANGED <<now, samples, buffer, link, wire, loop, rows, owed>>

\* The token is accepted, the loop starts, and Hello is sent.  Which of the places
\* for loops is taken makes no difference.
Connect(c) ==
    /\ agent.pc = "dial"
    /\ ~loop[c].open
    /\ c = CHOOSE d \in Conns : ~loop[d].open
    /\ agent' = [agent EXCEPT !.pc = "flush", !.conn = c]
    /\ link' = [link EXCEPT ![c] = TRUE]
    /\ wire' = [wire EXCEPT ![c] = <<[kind |-> "hello", points |-> <<>>, at |-> now]>>]
    /\ loop' = [loop EXCEPT ![c] = [open |-> TRUE, tokens |-> Bucket, refilled |-> now]]
    /\ owed' = {}
    /\ UNCHANGED <<now, samples, buffer, rows, troubles>>

\* A message of the agent goes into the socket: a dead link swallows it.
Send(kind, points) ==
    LET c == agent.conn
        m == [kind |-> kind, points |-> points, at |-> now]
    IN  IF link[c]
        THEN wire' = [wire EXCEPT ![c] = Append(@, m)] /\ owed' = owed \cup Points(m)
        ELSE UNCHANGED <<wire, owed>>

\* The send fails: the session ends.
SendFails ==
    /\ ~link[agent.conn]
    /\ EnterWait(agent.backoff)
    /\ UNCHANGED <<wire, owed>>

Size(s) == IF s \in Large THEN LargeSize ELSE 1
Bytes(points) == MapThenSumSet(LAMBDA i : Size(points[i]), DOMAIN points)

\* Variants with a fault: a point larger than the budget never goes out; only the
\* number of points counts.
FitsStrictly(n) == n =< Chunk /\ Bytes(SubSeq(buffer, 1, n)) =< ChunkBytes
FitsByCount(n) == n =< Chunk

\* backfill_chunk_len: as many points as both limits admit, and always one.
Fits(n) == n = 1 \/ (n =< Chunk /\ Bytes(SubSeq(buffer, 1, n)) =< ChunkBytes)
ChunkLength(n) == Fits(n) /\ (n < Len(buffer) => ~Fits(n + 1))

\* Variant with a fault: what has been sent stays in the buffer.
FlushChunkKeeps ==
    /\ agent.pc = "flush"
    /\ \E n \in 1..Len(buffer) :
          /\ ChunkLength(n)
          /\ \/ Send("backfill", SubSeq(buffer, 1, n)) /\ UNCHANGED agent
             \/ SendFails
    /\ UNCHANGED <<now, samples, buffer, link, loop, rows, troubles>>

\* flush_backfill, one chunk: it leaves the buffer when it has been sent.
FlushChunk ==
    /\ agent.pc = "flush"
    /\ \E n \in 1..Len(buffer) :
          /\ ChunkLength(n)
          /\ \/ /\ Send("backfill", SubSeq(buffer, 1, n))
                /\ buffer' = SubSeq(buffer, n + 1, Len(buffer))
                /\ UNCHANGED agent
             \/ SendFails /\ UNCHANGED buffer
    /\ UNCHANGED <<now, samples, link, loop, rows, troubles>>

\* The buffer is empty; the first tick of the reporting interval is immediate.
FlushDone ==
    /\ agent.pc = "flush"
    /\ buffer = <<>>
    /\ agent' = [agent EXCEPT !.pc = "live", !.tick = now]
    /\ UNCHANGED <<now, samples, buffer, link, wire, loop, rows, owed, troubles>>

\* A tick of the interval is due.
TakeSample ==
    /\ now >= agent.tick
    /\ Len(samples) < MaxSamples
    /\ samples' = Append(samples, now + Skew)

\* The session reports: the sample is sent, or buffered when the send fails.
Report ==
    LET s == Len(samples) + 1
    IN  /\ agent.pc = "live"
        /\ TakeSample
        /\ \/ /\ Send("metrics", <<s>>)
              /\ agent' = [agent EXCEPT !.tick = now + Interval]
              /\ UNCHANGED buffer
           \/ SendFails /\ buffer' = Buffered(buffer, s)
        /\ UNCHANGED <<now, link, loop, rows, troubles>>

\* The session notices a dead link while it reads.
SessionLost ==
    /\ agent.pc = "live"
    /\ ~link[agent.conn]
    /\ EnterWait(agent.backoff)
    /\ UNCHANGED <<now, samples, buffer, link, wire, loop, rows, owed, troubles>>

\* wait_and_sample: a tick of the interval that passes during the back-off.
WaitSample ==
    /\ agent.pc = "wait"
    /\ TakeSample
    /\ buffer' = Buffered(buffer, Len(samples) + 1)
    /\ agent' = [agent EXCEPT !.tick = now + Interval]
    /\ UNCHANGED <<now, link, wire, loop, rows, owed, troubles>>

\* The wait is over (or the model's clock is); the next one will be longer.
WaitEnds ==
    /\ agent.pc = "wait"
    /\ now >= agent.deadline \/ now = MaxTime
    /\ agent' = [FirstDial EXCEPT !.backoff = Least(2 * agent.backoff, MaxBackoff)]
    /\ UNCHANGED <<now, samples, buffer, link, wire, loop, rows, owed, troubles>>

-----------------------------------------------------------------------------
(* The network and the agent's process.                                    *)

\* The link of c dies; what the server had not received may be lost.
Cut(c) ==
    /\ link' = [link EXCEPT ![c] = FALSE]
    /\ \E n \in 0..Len(wire[c]) : wire' = [wire EXCEPT ![c] = SubSeq(@, 1, n)]
    /\ owed' = {}

Break(c) ==
    /\ link[c]
    /\ Trouble
    /\ Cut(c)
    /\ UNCHANGED <<now, agentVars, loop, rows>>

\* A proxy between the two closes the session in good order: the agent starts its
\* back-off over.
CloseFrame ==
    /\ agent.pc = "live"
    /\ link[agent.conn]
    /\ Trouble
    /\ Cut(agent.conn)
    /\ EnterWait(1)
    /\ UNCHANGED <<now, samples, buffer, loop, rows>>

\* The agent's process ends and is started again: the buffer was in memory.
AgentRestarts ==
    /\ Trouble
    /\ buffer' = <<>>
    /\ agent' = FirstDial
    /\ IF agent.conn = None THEN UNCHANGED <<link, wire, owed>> ELSE Cut(agent.conn)
    /\ UNCHANGED <<now, samples, loop, rows>>

-----------------------------------------------------------------------------
(* The loop of a connection: conn_loop and handle_msg.  A message is one step, *)
(* because a handler meets the tables that matter here in one statement or one *)
(* transaction.                                                            *)

\* The loop ends and drops the socket.
Leave(c) ==
    /\ loop' = [loop EXCEPT ![c] = ClosedLoop]
    /\ wire' = [wire EXCEPT ![c] = <<>>]
    /\ link' = [link EXCEPT ![c] = FALSE]
    /\ owed' = IF link[c] THEN {} ELSE owed

Tokens(c) == Least(Bucket, loop[c].tokens + RefillRate * (now - loop[c].refilled))
Cost(m) == IF m.kind = "backfill" THEN Least(Bucket, Len(m.points) + MessageCost) ELSE MessageCost

\* The server takes this message: the frame is not too large and the bucket holds
\* its cost.
Acceptable(c, m) == Bytes(m.points) =< MaxMessage /\ Cost(m) =< Tokens(c)

\* sock.recv gives a message and the bucket pays for it.
Take(c) ==
    /\ loop' = [loop EXCEPT ![c].tokens = Tokens(c) - Cost(Head(wire[c])), ![c].refilled = now]
    /\ wire' = [wire EXCEPT ![c] = Tail(@)]
    /\ UNCHANGED link

\* Samples of c are dropped for a reason the server logs.
Refuse(c, S) == owed' = IF link[c] THEN owed \ S ELSE owed

\* Rows are unique in (node_id, ts).
SecondTaken(ts) == \E r \in rows : r.ts = ts

\* Hello: whether or not the UPDATE of the node's data fails, the loop goes on.
Hello(c) ==
    /\ Head(wire[c]).kind = "hello"
    /\ Take(c)
    /\ UNCHANGED <<rows, owed, troubles>>

\* Metrics: a strange timestamp drops the sample, a row of the same second makes
\* INSERT OR IGNORE ignore it, and so do statements that fail.
Metrics(c) ==
    LET s == Head(wire[c]).points[1]
        strange == Abs(samples[s] - now) > TsSkew
    IN  /\ Head(wire[c]).kind = "metrics"
        /\ Take(c)
        /\ \/ /\ ~strange /\ ~SecondTaken(now)
              /\ rows' = rows \cup {[ts |-> now, id |-> s]}
              /\ UNCHANGED <<owed, troubles>>
           \/ /\ strange \/ SecondTaken(now)
              /\ Refuse(c, {s})
              /\ UNCHANGED <<rows, troubles>>
           \/ Trouble /\ Refuse(c, {s}) /\ UNCHANGED rows

\* The server hears the first MaxPoints points of a back-fill.
\* Variant with a fault: it hears fewer than a chunk may hold.
HeardTooFew(points) == SubSeq(points, 1, Least(Len(points), Chunk - 1))
Heard(points) == SubSeq(points, 1, Least(Len(points), MaxPoints))

\* The points of a back-fill that its transaction stores when the INSERTs of those
\* in failed go wrong: the first of each second, of the seconds that are recent and
\* not taken.
Accepted(points, failed) ==
    LET candidate == {i \in DOMAIN points :
                         LET ts == samples[points[i]]
                         IN  /\ ts =< now + TsSkew
                             /\ ts >= now - MaxAge
                             /\ ~SecondTaken(ts)
                             /\ points[i] \notin failed}
    IN  {points[i] : i \in {j \in candidate :
            \A k \in candidate : k < j => samples[points[k]] # samples[points[j]]}}

\* Backfill: one transaction.  When the node cannot be read, or the transaction
\* cannot begin or commit, the loop ends.
Backfill(c) ==
    LET m == Head(wire[c])
        heard == Heard(m.points)
        given == {heard[i] : i \in DOMAIN heard}
    IN  /\ m.kind = "backfill"
        /\ \/ \E failed \in SUBSET given :
                 LET new == Accepted(heard, failed)
                 IN  /\ (failed = {} /\ UNCHANGED troubles) \/ (failed # {} /\ Trouble)
                     /\ rows' = rows \cup {[ts |-> samples[s], id |-> s] : s \in new}
                     /\ Refuse(c, given \ new)
                     /\ Take(c)
           \/ Trouble /\ Leave(c) /\ UNCHANGED rows

\* A message is taken from the socket.  One that is not acceptable ends the loop.
Receive(c) ==
    /\ loop[c].open
    /\ wire[c] # <<>>
    /\ IF Acceptable(c, Head(wire[c]))
       THEN Hello(c) \/ Metrics(c) \/ Backfill(c)
       ELSE Leave(c) /\ UNCHANGED <<rows, troubles>>
    /\ UNCHANGED <<now, agentVars>>

\* The loop notices that the link is dead: the socket says so, a ping cannot be
\* sent, or nothing has come for two minutes.
PeerGone(c) ==
    /\ loop[c].open
    /\ ~link[c]
    /\ Leave(c)
    /\ UNCHANGED <<now, agentVars, rows, troubles>>

\* Time passes; what a live link carries is no older than MaxDelay.
Tick ==
    /\ now < MaxTime
    /\ \A c \in Conns : link[c] /\ wire[c] # <<>> => now < Head(wire[c]).at + MaxDelay
    /\ now' = now + 1
    /\ UNCHANGED <<agentVars, link, wire, loop, rows, owed, troubles>>

-----------------------------------------------------------------------------
Serve(c) == Receive(c) \/ PeerGone(c)

AgentStep ==
    \/ \E c \in Conns : Connect(c)
    \/ FlushChunk \/ FlushDone \/ SessionLost \/ WaitEnds

Next ==
    \/ AgentStep
    \/ ConnectFails \/ Report \/ WaitSample \/ CloseFrame \/ AgentRestarts
    \/ \E c \in Conns : Break(c) \/ Serve(c)
    \/ Tick

Spec == Init /\ [][Next]_vars

\* The agent goes on, the server polls its loops, and the clock runs.
FairSpec ==
    /\ Spec
    /\ WF_vars(AgentStep)
    /\ WF_vars(\E c \in Conns : Serve(c))
    /\ WF_vars(Tick)

-----------------------------------------------------------------------------
(* Properties.                                                             *)

\* The buffer is the unbroken run of the newest samples, at most Capacity of them,
\* and is empty while the session reports: an outage costs only its beginning, and
\* a younger sample never overtakes an older one (push_buffered, flush_backfill).
BufferIsNewest ==
    /\ Len(buffer) =< Capacity
    /\ \A i \in 1..Len(buffer) : buffer[i] = Len(samples) - Len(buffer) + i
    /\ agent.pc = "live" => buffer = <<>>

Stored == {r.id : r \in rows}
OnWire(c) == UNION {Points(wire[c][i]) : i \in DOMAIN wire[c]}

\* Nothing is lost on a connection that works: each sample it was given is on its
\* way or stored, unless the server refused it for a reason (flush_backfill against
\* handle_msg).
NothingLostOnLink == \A c \in Conns : link[c] => owed \subseteq OnWire(c) \cup Stored

\* The server never cuts off the agent for its rate or for the size of a message:
\* chunks, buffer and interval stay within the bucket and the frame limit
\* (ws_agent.rs:154, the bucket covers back-fill after a reconnect and the reports).
NotCutOff ==
    \A c \in Conns : loop[c].open /\ wire[c] # <<>> => Acceptable(c, Head(wire[c]))

Log == INSTANCE SampleLog WITH
    count   <- Len(samples),
    kept    <- {buffer[i] : i \in DOMAIN buffer},
    transit <- UNION {OnWire(c) : c \in Conns},
    stored  <- Stored

\* The agent and the server together are a sample log.
ImplementsLog == Log!Spec

\* When the troubles end, the agent gets through: it reports, with nothing left in
\* its buffer.
Drains == <>[](agent.pc = "live" /\ buffer = <<>>)

=============================================================================
