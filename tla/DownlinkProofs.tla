--------------------------- MODULE DownlinkProofs ---------------------------
(***************************************************************************)
(* What goes down to the agents, for every number of nodes, connections    *)
(* and requests: the settings, whose copies agree with the table, and the  *)
(* upgrades, whose sender is read by a loop of its node and leaves no      *)
(* resend window beside it, and none of which is sent twice.               *)
(***************************************************************************)
EXTENDS Settings, UpgradeChannel, FiniteSetTheorems, TLAPS

-----------------------------------------------------------------------------
(* The settings.                                                           *)

Form == Forms \cup {Default}

SettingsTypeOK ==
    /\ settings \in [KeyNames -> Form]
    /\ req \in [Requests -> [form : Form, pc : 0..SendStep, alone : BOOLEAN]]
    /\ \A p \in Requests : req[p].pc = 0 => req[p] = Idle

\* A request that is alone is the only one in flight ...
AloneIsOnly ==
    \A p \in Busy : req[p].alone => Busy = {p}

\* ... so the statements it has run are what the table and NetCfg hold.
AloneHasWritten ==
    \A p \in Busy : req[p].alone =>
        /\ \A i \in DOMAIN Keys : i < req[p].pc => settings[Keys[i]] = req[p].form
        /\ req[p].pc = SendStep => net = [url |-> req[p].form, origins |-> req[p].form]

CopiesInv == SettingsTypeOK /\ AloneIsOnly /\ AloneHasWritten /\ CopiesAgree

LEMMA KeysShape ==
    /\ DOMAIN Keys = 1..4 /\ NetStep = 5 /\ SendStep = 6
    /\ Keys[1] = "report_interval_secs" /\ Keys[3] = "public_url" /\ Keys[4] = "extra_origins"
    /\ \A i \in 1..4 : Keys[i] \in KeyNames
BY DEF Keys, NetStep, SendStep, KeyNames

\* The keys of different statements differ.
LEMMA KeysDiffer ==
    \A i, j \in 1..4 : Keys[i] = Keys[j] => i = j
BY DEF Keys

LEMMA IdleShape == Idle.pc = 0 /\ Idle \in [form : Form, pc : 0..SendStep, alone : BOOLEAN]
BY KeysShape DEF Idle, Form

LEMMA InitCopies == SettingsInit => CopiesInv
<1> SUFFICES ASSUME SettingsInit PROVE CopiesInv
  OBVIOUS
<1>1. Busy = {}
  BY DEF SettingsInit, Busy
<1>2. SettingsTypeOK
  BY IdleShape DEF SettingsInit, SettingsTypeOK, Form
<1>3. CopiesAgree
  BY KeysShape DEF SettingsInit, CopiesAgree
<1> QED
  BY <1>1, <1>2, <1>3 DEF CopiesInv, AloneIsOnly, AloneHasWritten

\* What changes neither the table nor a copy nor a request.
LEMMA CopiesStable ==
    CopiesInv /\ UNCHANGED <<settings, net, watch, req, torn, unheard>> => CopiesInv'
BY DEF CopiesInv, SettingsTypeOK, AloneIsOnly, AloneHasWritten, CopiesAgree, Busy

LEMMA BeginCopies ==
    ASSUME CopiesInv, NEW p \in Requests, NEW f \in Forms, Begin(p, f)
    PROVE  CopiesInv'
<1> USE DEF CopiesInv
<1> DEFINE free == Busy = {}
<1>1. req' = [q \in Requests |->
         IF q = p THEN [form |-> f, pc |-> 1, alone |-> free]
         ELSE IF q \in Busy THEN [req[q] EXCEPT !.alone = FALSE]
         ELSE req[q]]
  BY DEF Begin
<1>2. req'[p] = [form |-> f, pc |-> 1, alone |-> free]
  <2> HIDE DEF free
  <2> QED
    BY <1>1
<1>3. ASSUME NEW q \in Requests \ {p}
      PROVE  /\ q \in Busy => req'[q] = [req[q] EXCEPT !.alone = FALSE]
             /\ q \notin Busy => req'[q] = req[q] /\ req[q] = Idle
  BY <1>1 DEF Busy
<1>4. req'[p] \in [form : Form, pc : 0..SendStep, alone : BOOLEAN] /\ req'[p].pc = 1
  <2>1. (Busy = {}) \in BOOLEAN
    OBVIOUS
  <2> QED
    BY <1>2, <2>1, KeysShape DEF Form
<1>free. req'[p].alone => Busy = {}
  <2>1. req'[p].alone = free
    <3> HIDE DEF free
    <3> QED
      BY <1>2
  <2> QED
    BY <2>1, Zenon
<1>5. ASSUME NEW q \in Requests \ {p}
      PROVE  /\ req'[q] \in [form : Form, pc : 0..SendStep, alone : BOOLEAN]
             /\ req'[q].pc = 0 => req'[q] = Idle
             /\ q \in Busy => req'[q].pc # 0 /\ ~req'[q].alone
  <2>0. req[q] \in [form : Form, pc : 0..SendStep, alone : BOOLEAN]
        /\ (req[q].pc = 0 => req[q] = Idle)
    BY DEF SettingsTypeOK
  <2>1. CASE q \in Busy
    <3>1. req'[q] = [req[q] EXCEPT !.alone = FALSE]
      BY <1>3, <2>1
    <3>2. req[q].pc # 0
      BY <2>0, <2>1 DEF Busy
    <3> QED
      BY <2>0, <3>1, <3>2
  <2>2. CASE q \notin Busy
    BY <1>3, <2>0, <2>2
  <2> QED
    BY <2>1, <2>2
<1>6. SettingsTypeOK'
  <2>1. \A q \in Requests : /\ req'[q] \in [form : Form, pc : 0..SendStep, alone : BOOLEAN]
                            /\ req'[q].pc = 0 => req'[q] = Idle
    BY <1>4, <1>5
  <2>2. DOMAIN req' = Requests /\ req' = [q \in DOMAIN req' |-> req'[q]]
    BY <1>1
  <2>3. settings' \in [KeyNames -> Form]
    BY DEF Begin, SettingsTypeOK
  <2> HIDE DEF CopiesInv
  <2> QED
    BY <2>1, <2>2, <2>3 DEF SettingsTypeOK
<1>7. Busy' = Busy \cup {p} /\ p \notin Busy
  <2>1. p \notin Busy /\ p \in Busy'
    BY <1>4, IdleShape DEF Busy, Begin
  <2>2. ASSUME NEW q \in Requests \ {p} PROVE q \in Busy' <=> q \in Busy
    BY <1>3, <1>5, IdleShape DEF Busy
  <2> QED
    BY <2>1, <2>2 DEF Busy
<1>8. \A q \in Busy' : req'[q].alone => q = p /\ Busy' = {p}
  <2>1. req'[p].alone => Busy' = {p}
    BY <1>free, <1>7
  <2>2. \A q \in Busy : q \in Requests \ {p}
    BY <1>7 DEF Busy
  <2> QED
    BY <1>5, <1>7, <2>1, <2>2
<1>9. AloneIsOnly' /\ AloneHasWritten'
  BY <1>4, <1>8, KeysShape DEF AloneIsOnly, AloneHasWritten
<1>10. CopiesAgree'
  BY <1>7 DEF CopiesAgree
<1> QED
  BY <1>6, <1>9, <1>10

\* A step of request p that leaves it in flight: the others are as they were.
LEMMA AdvanceKeepsOthers ==
    ASSUME SettingsTypeOK, AloneIsOnly, NEW p \in Requests,
           req[p].pc \in 1..5, req' = [req EXCEPT ![p].pc = @ + 1],
           settings' \in [KeyNames -> Form]
    PROVE  /\ SettingsTypeOK' /\ AloneIsOnly' /\ p \in Busy /\ Busy' = Busy
           /\ \A q \in Busy' : req'[q].alone =>
                q = p /\ req[p].alone /\ req'[p].form = req[p].form /\ req'[p].pc = req[p].pc + 1
<1>1. /\ req'[p] = [req[p] EXCEPT !.pc = @ + 1]
      /\ \A q \in Requests \ {p} : req'[q] = req[q]
      /\ DOMAIN req' = Requests
  BY DEF SettingsTypeOK
<1>2. /\ req'[p].pc = req[p].pc + 1 /\ req'[p].form = req[p].form
      /\ req'[p].alone = req[p].alone
      /\ req'[p] \in [form : Form, pc : 0..SendStep, alone : BOOLEAN]
  BY <1>1, KeysShape DEF SettingsTypeOK
<1>3. SettingsTypeOK'
  <2>1. req' \in [Requests -> [form : Form, pc : 0..SendStep, alone : BOOLEAN]]
    BY <1>1, <1>2 DEF SettingsTypeOK
  <2>2. \A q \in Requests : req'[q].pc = 0 => req'[q] = Idle
    BY <1>1, <1>2 DEF SettingsTypeOK
  <2> QED
    BY <2>1, <2>2 DEF SettingsTypeOK
<1>4. p \in Busy /\ Busy' = Busy
  BY <1>1, <1>2, IdleShape DEF Busy
<1>5. \A q \in Busy : req[q].alone => q = p /\ Busy = {p}
  BY <1>4 DEF AloneIsOnly
<1>6. AloneIsOnly'
  BY <1>1, <1>2, <1>4, <1>5 DEF AloneIsOnly, Busy
<1> QED
  BY <1>1, <1>2, <1>3, <1>4, <1>5, <1>6 DEF Busy

LEMMA WriteKeyCopies ==
    ASSUME CopiesInv, NEW p \in Requests, WriteKey(p)
    PROVE  CopiesInv'
<1> USE DEF CopiesInv
<1>1. req[p].pc \in 1..4 /\ req[p].form \in Form
  BY KeysShape DEF WriteKey, SettingsTypeOK
<1>2. /\ settings' \in [KeyNames -> Form]
      /\ settings'[Keys[req[p].pc]] = req[p].form
      /\ \A i \in 1..4 : i # req[p].pc => settings'[Keys[i]] = settings[Keys[i]]
  BY <1>1, KeysShape, KeysDiffer DEF WriteKey, SettingsTypeOK
<1>3. req[p].pc \in 1..5 /\ req' = [req EXCEPT ![p].pc = @ + 1]
  BY <1>1 DEF WriteKey
<1>4. /\ SettingsTypeOK' /\ AloneIsOnly' /\ p \in Busy /\ Busy' = Busy
      /\ \A q \in Busy' : req'[q].alone =>
           q = p /\ req[p].alone /\ req'[p].form = req[p].form /\ req'[p].pc = req[p].pc + 1
  BY <1>2, <1>3, AdvanceKeepsOthers
<1>5. AloneHasWritten'
  <2> SUFFICES ASSUME req'[p].alone, p \in Busy'
               PROVE  /\ \A i \in 1..4 : i < req'[p].pc => settings'[Keys[i]] = req'[p].form
                      /\ req'[p].pc # SendStep
    BY <1>4, KeysShape DEF AloneHasWritten
  <2>1. \A i \in 1..4 : i < req[p].pc => settings[Keys[i]] = req[p].form
    BY <1>4, KeysShape DEF AloneHasWritten
  <2> QED
    BY <1>1, <1>2, <1>4, <2>1, KeysShape
<1>6. CopiesAgree'
  BY <1>4 DEF CopiesAgree
<1> QED
  BY <1>4, <1>5, <1>6

LEMMA WriteNetCopies ==
    ASSUME CopiesInv, NEW p \in Requests, WriteNet(p)
    PROVE  CopiesInv'
<1> USE DEF CopiesInv
<1>1. req[p].pc = 5 /\ settings' = settings
  BY KeysShape DEF WriteNet
<1>2. req[p].pc \in 1..5 /\ req' = [req EXCEPT ![p].pc = @ + 1] /\ settings' \in [KeyNames -> Form]
  BY <1>1 DEF WriteNet, SettingsTypeOK
<1>3. /\ SettingsTypeOK' /\ AloneIsOnly' /\ p \in Busy /\ Busy' = Busy
      /\ \A q \in Busy' : req'[q].alone =>
           q = p /\ req[p].alone /\ req'[p].form = req[p].form /\ req'[p].pc = req[p].pc + 1
  BY <1>2, AdvanceKeepsOthers
<1>4. AloneHasWritten'
  <2> SUFFICES ASSUME req'[p].alone, p \in Busy'
               PROVE  /\ \A i \in 1..4 : settings'[Keys[i]] = req'[p].form
                      /\ net' = [url |-> req'[p].form, origins |-> req'[p].form]
    BY <1>3, KeysShape DEF AloneHasWritten
  <2>1. \A i \in 1..4 : settings[Keys[i]] = req[p].form
    BY <1>1, <1>3, KeysShape DEF AloneHasWritten
  <2> QED
    BY <1>1, <1>3, <2>1 DEF WriteNet
<1>5. CopiesAgree'
  BY <1>3 DEF CopiesAgree
<1> QED
  BY <1>3, <1>4, <1>5

\* A request that ends leaves the others as they were.
LEMMA EndKeepsOthers ==
    ASSUME SettingsTypeOK, AloneIsOnly, NEW p \in Busy, req' = [req EXCEPT ![p] = Idle],
           settings' = settings
    PROVE  /\ SettingsTypeOK' /\ AloneIsOnly'
           /\ Busy' = Busy \ {p} /\ \A q \in Busy' : ~req'[q].alone
<1>1. /\ p \in Requests /\ req'[p] = Idle /\ DOMAIN req' = Requests
      /\ \A q \in Requests \ {p} : req'[q] = req[q]
  BY DEF SettingsTypeOK, Busy
<1>2. SettingsTypeOK'
  <2>1. req' \in [Requests -> [form : Form, pc : 0..SendStep, alone : BOOLEAN]]
    BY IdleShape DEF SettingsTypeOK
  <2> QED
    BY <1>1, <2>1 DEF SettingsTypeOK
<1>3. Busy' = Busy \ {p}
  BY <1>1 DEF Busy
<1>4. \A q \in Busy' : ~req'[q].alone
  BY <1>1, <1>3 DEF AloneIsOnly, Busy
<1> QED
  BY <1>2, <1>3, <1>4 DEF AloneIsOnly

LEMMA SendIntervalCopies ==
    ASSUME CopiesInv, NEW p \in Requests, SendInterval(p)
    PROVE  CopiesInv'
<1> USE DEF CopiesInv
<1>1. p \in Busy /\ req[p].pc = 6
  BY KeysShape, IdleShape DEF SendInterval, Busy
<1>2. req' = [req EXCEPT ![p] = Idle] /\ settings' = settings /\ net' = net
  BY DEF SendInterval
<1>3. /\ SettingsTypeOK' /\ AloneIsOnly'
      /\ Busy' = Busy \ {p} /\ \A q \in Busy' : ~req'[q].alone
  BY <1>1, <1>2, EndKeepsOthers
<1>4. AloneHasWritten'
  BY <1>3 DEF AloneHasWritten
<1>5. CopiesAgree'
  <2> SUFFICES ASSUME ~torn'
               PROVE  /\ net' = [url |-> settings'["public_url"], origins |-> settings'["extra_origins"]]
                      /\ unheard' \/ watch'.value = settings'["report_interval_secs"]
    BY DEF CopiesAgree
  <2>1. req[p].alone
    BY DEF SendInterval
  <2>2. /\ \A i \in 1..4 : settings[Keys[i]] = req[p].form
        /\ net = [url |-> req[p].form, origins |-> req[p].form]
    BY <1>1, <2>1, KeysShape DEF AloneHasWritten
  <2>3. /\ settings["report_interval_secs"] = req[p].form
        /\ settings["public_url"] = req[p].form
        /\ settings["extra_origins"] = req[p].form
    BY <2>2, KeysShape
  <2>4. unheard' \/ watch'.value = req[p].form
    BY DEF SendInterval
  <2> QED
    BY <1>2, <2>2, <2>3, <2>4
<1> QED
  BY <1>3, <1>4, <1>5

LEMMA DropCopies ==
    ASSUME CopiesInv, NEW p \in Requests, Drop(p)
    PROVE  CopiesInv'
<1> USE DEF CopiesInv
<1>1. p \in Busy
  BY KeysShape, IdleShape DEF Drop, Busy
<1>2. req' = [req EXCEPT ![p] = Idle] /\ settings' = settings /\ torn'
  BY DEF Drop
<1>3. /\ SettingsTypeOK' /\ AloneIsOnly'
      /\ Busy' = Busy \ {p} /\ \A q \in Busy' : ~req'[q].alone
  BY <1>1, <1>2, EndKeepsOthers
<1> QED
  BY <1>2, <1>3 DEF AloneHasWritten, CopiesAgree

LEMMA RestartCopies ==
    ASSUME CopiesInv, NEW failed \in SUBSET KeyNames, NEW kept \in {{}, failed},
           Restart(failed, kept)
    PROVE  CopiesInv'
<1> USE DEF CopiesInv
<1> DEFINE read == [k \in KeyNames |-> IF k \in failed THEN Default ELSE settings[k]]
<1>1. /\ net' = [url |-> read["public_url"], origins |-> read["extra_origins"]]
      /\ watch' = [value |-> read["report_interval_secs"], version |-> 0]
      /\ settings' = [k \in KeyNames |-> IF k \in kept THEN settings[k] ELSE read[k]]
      /\ torn' = (failed \cap kept # {})
      /\ req' = [p \in Requests |-> Idle]
  BY DEF Restart
<1>2. read \in [KeyNames -> Form]
  BY DEF SettingsTypeOK, Form
<1>3. Busy' = {}
  BY <1>1 DEF Busy
<1>4. SettingsTypeOK'
  BY <1>1, <1>2, IdleShape DEF SettingsTypeOK
<1>5. ASSUME ~torn' PROVE settings' = read
  <2>1. failed \cap kept = {}
    BY <1>1, <1>5
  <2>2. kept = {}
    BY <2>1
  <2> QED
    BY <1>1, <2>2
<1>6. CopiesAgree'
  <2> HIDE DEF read
  <2> QED
    BY <1>1, <1>5 DEF CopiesAgree
<1> QED
  BY <1>3, <1>4, <1>6 DEF AloneIsOnly, AloneHasWritten

LEMMA NextCopies == CopiesInv /\ [SettingsNext]_settingsVars => CopiesInv'
<1> SUFFICES ASSUME CopiesInv, [SettingsNext]_settingsVars PROVE CopiesInv'
  OBVIOUS
<1>1. ASSUME NEW p \in Requests, NEW f \in Forms, Begin(p, f) PROVE CopiesInv'
  BY <1>1, BeginCopies
<1>2. ASSUME NEW p \in Requests, Handler(p) PROVE CopiesInv'
  BY <1>2, WriteKeyCopies, WriteNetCopies, SendIntervalCopies DEF Handler
<1>3. ASSUME NEW p \in Requests, Drop(p) PROVE CopiesInv'
  BY <1>3, DropCopies
<1>4. ASSUME NEW failed \in SUBSET KeyNames, NEW kept \in {{}, failed}, Restart(failed, kept)
      PROVE CopiesInv'
  BY <1>4, RestartCopies
<1>5. ASSUME NEW c \in Conns,
             \/ \E n \in Nodes : Subscribe(c, n)
             \/ Loop(c) \/ Receive(c)
             \/ \E restart \in BOOLEAN : Cut(c, restart)
      PROVE CopiesInv'
  <2>1. UNCHANGED <<settings, net, watch, req, torn, unheard>>
    BY <1>5 DEF Subscribe, Loop, TellInterval, PassOn, LoopEnds, Receive, Cut
  <2> QED
    BY <2>1, CopiesStable
<1>6. CASE UNCHANGED settingsVars
  BY <1>6, CopiesStable DEF settingsVars
<1> QED
  BY <1>1, <1>2, <1>3, <1>4, <1>5, <1>6 DEF SettingsNext

\* For any number of administrators, nodes and connections, and any order of
\* their statements with restarts and dropped handlers: once no form is on its
\* way, the address and the interval in use are those of the table, unless the
\* last forms overlapped, one was dropped between its statements or a key could
\* not be read at the start (torn); nor is the interval's copy claimed when no
\* loop heard what was saved (unheard).
THEOREM CopiesFollowTable == SettingsSpec => []CopiesAgree
<1>1. CopiesInv => CopiesAgree
  BY DEF CopiesInv
<1> QED
  BY InitCopies, NextCopies, <1>1, PTL DEF SettingsSpec

-----------------------------------------------------------------------------
(* The upgrades: the sender a node has is read by a loop of that node, and *)
(* a node with a sender has no resend window.  The first is what makes the *)
(* second worth having: a trigger goes into a channel that is read, or     *)
(* into a window that the next registration takes.                         *)

USE UpgradeAssumption DEF NoTime

\* A loop that is not free serves a node of the table.
LoopHasNode == \A c \in Conns : conn[c].pc # "free" => conn[c].node \in Nodes

\* The inductive invariant.
ChannelInv ==
    /\ TypeOK
    /\ LoopHasNode
    /\ SenderHasLoop
    /\ WindowOnlyWithoutSender

\* The end of a loop frees its slot and nothing else.
LEMMA ReturnEffect ==
    ASSUME TypeOK, LoopHasNode, NEW c \in Conns, conn[c].pc # "free", Return(c)
    PROVE  /\ conn' \in [Conns -> Conn]
           /\ conn'[c] = FreeConn
           /\ \A d \in Conns : d # c => conn'[d] = conn[d]
           /\ link' \in [Conns -> BOOLEAN]
           /\ session' \in [Nodes -> Conns \cup {None}]
BY DEF Return, TypeOK, LoopHasNode, Conn, Pc, FreeConn

\* Types, and the node of every loop, are kept by every step.
LEMMA TypeStep == TypeOK /\ LoopHasNode /\ SenderHasLoop /\ [Next]_vars => TypeOK' /\ LoopHasNode'
<1> SUFFICES ASSUME TypeOK, LoopHasNode, SenderHasLoop, [Next]_vars
             PROVE  TypeOK' /\ LoopHasNode'
    OBVIOUS
<1> USE DEF TypeOK, LoopHasNode, Conn, Pc
<1>1. ASSUME NEW n \in Nodes, NEW c \in Conns, Connect(n, c) PROVE TypeOK' /\ LoopHasNode'
    BY <1>1 DEF Connect
<1>2. ASSUME NEW n \in Nodes, Disconnect(n) PROVE TypeOK' /\ LoopHasNode'
    BY <1>2 DEF Disconnect
<1>3. ASSUME NEW n \in Nodes, Upgrade(n) PROVE TypeOK' /\ LoopHasNode'
    <2>1. CASE upgrade_tx[n] # None
        <3>1. upgrade_tx[n] \in Conns
            BY <2>1
        <3>2. conn' = [conn EXCEPT ![upgrade_tx[n]].queue = @ + 1] /\ UNCHANGED pending_upgrade
            BY <1>3, <2>1 DEF Upgrade
        <3>3. conn' \in [Conns -> Conn] /\ LoopHasNode'
            BY <3>1, <3>2
        <3> QED
            BY <1>3, <3>2, <3>3 DEF Upgrade
    <2>2. CASE upgrade_tx[n] = None
        BY <1>3, <2>2 DEF Upgrade
    <2> QED
        BY <2>1, <2>2
<1>4. ASSUME NEW c \in Conns, Greet(c) PROVE TypeOK' /\ LoopHasNode'
    <2>1. CASE Return(c)
        BY <1>4, <2>1, ReturnEffect DEF Greet, FreeConn
    <2>2. CASE ~Return(c)
        BY <1>4, <2>2 DEF Greet
    <2> QED
        BY <2>1, <2>2
<1>5. ASSUME NEW c \in Conns, Register(c) PROVE TypeOK' /\ LoopHasNode'
    BY <1>5 DEF Register
<1>6. ASSUME NEW c \in Conns, Resend(c) PROVE TypeOK' /\ LoopHasNode'
    <2>1. CASE Return(c)
        BY <1>6, <2>1, ReturnEffect DEF Resend, FreeConn
    <2>2. CASE ~Return(c)
        <3>1. conn[c].node \in Nodes
            BY <1>6 DEF Resend
        <3>2. received' \in [Nodes -> Nat]
            BY <1>6, <2>2, <3>1 DEF Resend, Arrives
        <3>3. conn' \in [Conns -> Conn] /\ LoopHasNode'
            BY <1>6, <2>2 DEF Resend
        <3> QED
            BY <1>6, <2>2, <3>2, <3>3 DEF Resend
    <2> QED
        BY <2>1, <2>2
<1>7. ASSUME NEW c \in Conns, Deliver(c) PROVE TypeOK' /\ LoopHasNode'
    BY <1>7 DEF Deliver, Arrives
<1>8. ASSUME NEW c \in Conns, Leave(c) PROVE TypeOK' /\ LoopHasNode'
    BY <1>8 DEF Leave
<1>9. ASSUME NEW c \in Conns, RemoveSender(c) PROVE TypeOK' /\ LoopHasNode'
    BY <1>9, ReturnEffect DEF RemoveSender, FreeConn
<1>10. CASE Tick
    BY <1>10 DEF Tick
<1>11. CASE UNCHANGED vars
    BY <1>11 DEF vars
<1> QED
    BY <1>1, <1>2, <1>3, <1>4, <1>5, <1>6, <1>7, <1>8, <1>9, <1>10, <1>11 DEF Next

\* ChannelInv is inductive.
LEMMA ChannelStep == ChannelInv /\ [Next]_vars => ChannelInv'
<1> SUFFICES ASSUME ChannelInv, [Next]_vars
             PROVE  SenderHasLoop' /\ WindowOnlyWithoutSender'
    BY TypeStep DEF ChannelInv
<1> USE DEF ChannelInv, TypeOK, LoopHasNode, SenderHasLoop, WindowOnlyWithoutSender, Conn
<1>1. ASSUME NEW n \in Nodes, NEW c \in Conns, Connect(n, c)
      PROVE  SenderHasLoop' /\ WindowOnlyWithoutSender'
    BY <1>1 DEF Connect
<1>2. ASSUME NEW n \in Nodes, Disconnect(n) PROVE SenderHasLoop' /\ WindowOnlyWithoutSender'
    BY <1>2 DEF Disconnect
<1>3. ASSUME NEW n \in Nodes, Upgrade(n) PROVE SenderHasLoop' /\ WindowOnlyWithoutSender'
    <2>1. CASE upgrade_tx[n] # None
        BY <1>3, <2>1 DEF Upgrade
    <2>2. CASE upgrade_tx[n] = None
        BY <1>3, <2>2 DEF Upgrade
    <2> QED
        BY <2>1, <2>2
<1>4. ASSUME NEW c \in Conns, Greet(c) PROVE SenderHasLoop' /\ WindowOnlyWithoutSender'
    <2>1. CASE Return(c)
        <3>1. \A n \in Nodes : upgrade_tx[n] # c
            BY <1>4 DEF Greet
        <3> QED
            BY <1>4, <2>1, <3>1, ReturnEffect DEF Greet
    <2>2. CASE ~Return(c)
        BY <1>4, <2>2 DEF Greet
    <2> QED
        BY <2>1, <2>2
<1>5. ASSUME NEW c \in Conns, Register(c) PROVE SenderHasLoop' /\ WindowOnlyWithoutSender'
    BY <1>5 DEF Register
<1>6. ASSUME NEW c \in Conns, Resend(c) PROVE SenderHasLoop' /\ WindowOnlyWithoutSender'
    <2>1. CASE Return(c) /\ upgrade_tx' = [upgrade_tx EXCEPT ![conn[c].node] = None]
        <3>1. \A n \in Nodes : upgrade_tx'[n] # c
            BY <1>6, <2>1 DEF Resend
        <3> QED
            BY <1>6, <2>1, <3>1, ReturnEffect DEF Resend
    <2>2. CASE UNCHANGED upgrade_tx /\ conn' = [conn EXCEPT ![c].pc = "serve"]
        BY <1>6, <2>2 DEF Resend
    <2> QED
        BY <1>6, <2>1, <2>2 DEF Resend
<1>7. ASSUME NEW c \in Conns, Deliver(c) PROVE SenderHasLoop' /\ WindowOnlyWithoutSender'
    BY <1>7 DEF Deliver
<1>8. ASSUME NEW c \in Conns, Leave(c) PROVE SenderHasLoop' /\ WindowOnlyWithoutSender'
    BY <1>8 DEF Leave
<1>9. ASSUME NEW c \in Conns, RemoveSender(c) PROVE SenderHasLoop' /\ WindowOnlyWithoutSender'
    <2>1. \A n \in Nodes : upgrade_tx'[n] # c
        BY <1>9 DEF RemoveSender
    <2> QED
        BY <1>9, <2>1, ReturnEffect DEF RemoveSender
<1>10. CASE Tick
    BY <1>10 DEF Tick
<1>11. CASE UNCHANGED vars
    BY <1>11 DEF vars
<1> QED
    BY <1>1, <1>2, <1>3, <1>4, <1>5, <1>6, <1>7, <1>8, <1>9, <1>10, <1>11 DEF Next

\* Nothing is connected, registered or waiting at the start.
LEMMA ChannelInit == Init => ChannelInv
BY DEF Init, ChannelInv, TypeOK, LoopHasNode, SenderHasLoop, WindowOnlyWithoutSender,
       Conn, Pc, FreeConn

\* The two maps, the loops and the counters keep the shape the source gives them.
THEOREM ChannelTypeCorrect == Spec => []TypeOK
<1>1. ChannelInv => TypeOK
    BY DEF ChannelInv
<1> QED
    BY <1>1, ChannelInit, ChannelStep, PTL DEF Spec

\* A registered sender is read by a loop of its own node that has not returned:
\* the send of the batch handler cannot fail, whatever connections overlap.
THEOREM SendersAreRead == Spec => []SenderHasLoop
<1>1. ChannelInv => SenderHasLoop
    BY DEF ChannelInv
<1> QED
    BY <1>1, ChannelInit, ChannelStep, PTL DEF Spec

\* A node never has both a sender and a resend window (the common critical
\* section of conn_loop and of the batch handler).
THEOREM NoWindowBesideSender == Spec => []WindowOnlyWithoutSender
<1>1. ChannelInv => WindowOnlyWithoutSender
    BY DEF ChannelInv
<1> QED
    BY <1>1, ChannelInit, ChannelStep, PTL DEF Spec

-----------------------------------------------------------------------------
(* No upgrade is sent twice.  A step moves one trigger at most, so what a   *)
(* node has coming is counted as a set of triggers, which is finite.        *)

ComingFinite == \A n \in Nodes : IsFiniteSet(Coming(n))

CountInv == ChannelInv /\ ComingFinite /\ NoDoubleUpgrade

LEMMA ComingElements ==
    ASSUME NEW n \in Nodes, NEW x
    PROVE  x \in Coming(n) <=>
             \E c \in Conns : conn[c].node = n /\ \E i \in Triggers(c) : x = <<c, i>>
BY DEF Coming

\* The loops other than c have what they had.
LEMMA OthersKeep ==
    ASSUME NEW c \in Conns, \A d \in Conns \ {c} : conn'[d] = conn[d],
           NEW n \in Nodes, NEW d \in Conns, NEW i, d # c
    PROVE  <<d, i>> \in Coming(n)' <=> <<d, i>> \in Coming(n)
<1>1. Triggers(d)' = Triggers(d) /\ conn'[d].node = conn[d].node
    BY DEF Triggers
<1> QED
    BY <1>1 DEF Coming

\* The nodes other than that of c have nothing more coming.
LEMMA OtherNodesKeep ==
    ASSUME NEW c \in Conns, \A d \in Conns \ {c} : conn'[d] = conn[d],
           NEW n \in Nodes, conn'[c].node # n
    PROVE  Coming(n)' \subseteq Coming(n)
<1> SUFFICES ASSUME NEW x \in Coming(n)'
             PROVE  x \in Coming(n)
    OBVIOUS
<1>1. PICK d \in Conns : conn'[d].node = n /\ \E i \in Triggers(d)' : x = <<d, i>>
    BY DEF Coming
<1> QED
    BY <1>1, OthersKeep

\* What a step does to the count of node n when nothing new comes, when one
\* trigger comes and one more was asked for or the window is taken, and when one
\* trigger leaves and arrives or is lost.
LEMMA CountShrinks ==
    ASSUME CountInv, NEW n \in Nodes, Coming(n)' \subseteq Coming(n),
           received'[n] = received[n], requested'[n] \in {requested[n], requested[n] + 1},
           InWindow(n)' <= InWindow(n) + (requested'[n] - requested[n])
    PROVE  /\ IsFiniteSet(Coming(n))'
           /\ received'[n] + Cardinality(Coming(n)') + InWindow(n)' <= requested'[n]
<1>1. IsFiniteSet(Coming(n)) /\ received[n] \in Nat /\ requested[n] \in Nat
      /\ received[n] + Cardinality(Coming(n)) + InWindow(n) <= requested[n]
    BY DEF CountInv, ChannelInv, TypeOK, ComingFinite, NoDoubleUpgrade
<1>2. /\ IsFiniteSet(Coming(n)') /\ Cardinality(Coming(n)') <= Cardinality(Coming(n))
      /\ Cardinality(Coming(n)') \in Nat /\ Cardinality(Coming(n)) \in Nat
    BY <1>1, FS_Subset, FS_CardinalityType
<1>3. InWindow(n) \in Nat /\ InWindow(n)' \in Nat
    BY DEF InWindow
<1> QED
    BY <1>1, <1>2, <1>3

LEMMA CountMovesIn ==
    ASSUME CountInv, NEW n \in Nodes, NEW x, Coming(n)' = Coming(n) \cup {x},
           received'[n] = received[n], requested'[n] \in {requested[n], requested[n] + 1},
           InWindow(n)' + 1 <= InWindow(n) + (requested'[n] - requested[n])
    PROVE  /\ IsFiniteSet(Coming(n))'
           /\ received'[n] + Cardinality(Coming(n)') + InWindow(n)' <= requested'[n]
<1>1. IsFiniteSet(Coming(n)) /\ received[n] \in Nat /\ requested[n] \in Nat
      /\ received[n] + Cardinality(Coming(n)) + InWindow(n) <= requested[n]
    BY DEF CountInv, ChannelInv, TypeOK, ComingFinite, NoDoubleUpgrade
<1>2. Cardinality(Coming(n)) \in Nat
    BY <1>1, FS_CardinalityType
<1>3. IsFiniteSet(Coming(n)') /\ Cardinality(Coming(n)') <= Cardinality(Coming(n)) + 1
    <2>1. IsFiniteSet(Coming(n) \cup {x})
          /\ Cardinality(Coming(n) \cup {x}) =
                IF x \in Coming(n) THEN Cardinality(Coming(n)) ELSE Cardinality(Coming(n)) + 1
        BY <1>1, FS_AddElement
    <2> QED
        BY <1>2, <2>1
<1>4. Cardinality(Coming(n)') \in Nat
    BY <1>3, FS_CardinalityType
<1>5. InWindow(n) \in Nat /\ InWindow(n)' \in Nat
    BY DEF InWindow
<1> QED
    BY <1>1, <1>2, <1>3, <1>4, <1>5

LEMMA CountMovesOut ==
    ASSUME CountInv, NEW n \in Nodes, NEW x \in Coming(n), Coming(n)' = Coming(n) \ {x},
           received'[n] \in {received[n], received[n] + 1}, requested'[n] = requested[n],
           InWindow(n)' = InWindow(n)
    PROVE  /\ IsFiniteSet(Coming(n))'
           /\ received'[n] + Cardinality(Coming(n)') + InWindow(n)' <= requested'[n]
<1>1. IsFiniteSet(Coming(n)) /\ received[n] \in Nat /\ requested[n] \in Nat
      /\ received[n] + Cardinality(Coming(n)) + InWindow(n) <= requested[n]
    BY DEF CountInv, ChannelInv, TypeOK, ComingFinite, NoDoubleUpgrade
<1>2. Cardinality(Coming(n)) \in Nat
    BY <1>1, FS_CardinalityType
<1>3. IsFiniteSet(Coming(n)') /\ Cardinality(Coming(n)') = Cardinality(Coming(n)) - 1
    BY <1>1, FS_RemoveElement
<1>4. InWindow(n) \in Nat
    BY DEF InWindow
<1> QED
    BY <1>1, <1>2, <1>3, <1>4

\* The goal of the step lemmas, for one node.
Counted(n) == /\ IsFiniteSet(Coming(n))
              /\ received[n] + Cardinality(Coming(n)) + InWindow(n) <= requested[n]

\* A step of loop c that sends nothing, and has nothing more to send.
LEMMA LoopShrinks ==
    ASSUME CountInv, NEW c \in Conns, \A d \in Conns \ {c} : conn'[d] = conn[d],
           conn'[c].node \in {conn[c].node, None} \/ Triggers(c)' = {},
           Triggers(c)' \subseteq Triggers(c),
           UNCHANGED <<received, requested>>,
           \A n \in Nodes : InWindow(n)' <= InWindow(n)
    PROVE  \A n \in Nodes : Counted(n)'
<1> SUFFICES ASSUME NEW n \in Nodes
             PROVE  Counted(n)'
    OBVIOUS
<1>1. Coming(n)' \subseteq Coming(n)
    <2> SUFFICES ASSUME NEW x \in Coming(n)'
                 PROVE  x \in Coming(n)
        OBVIOUS
    <2>1. PICK d \in Conns : conn'[d].node = n /\ \E i \in Triggers(d)' : x = <<d, i>>
        BY DEF Coming
    <2>2. CASE d # c
        BY <2>1, <2>2, OthersKeep
    <2>3. CASE d = c
        BY <2>1, <2>3 DEF Coming
    <2> QED
        BY <2>2, <2>3
<1>2. InWindow(n) \in Nat /\ InWindow(n)' \in Nat /\ requested[n] \in Nat
    BY DEF InWindow, CountInv, ChannelInv, TypeOK
<1>3. received'[n] = received[n] /\ requested'[n] = requested[n]
      /\ InWindow(n)' <= InWindow(n) + (requested'[n] - requested[n])
    BY <1>2
<1> QED
    BY <1>1, <1>3, CountShrinks DEF Counted

\* A loop that is empty is one with no triggers, so no node has it coming.
LEMMA FreeHasNothing ==
    ASSUME NEW c \in Conns, conn'[c] = FreeConn
    PROVE  Triggers(c)' = {}
BY DEF Triggers, FreeConn

\* A step that leaves loops, windows and histories alone leaves the count alone.
LEMMA CountStable ==
    ASSUME CountInv, UNCHANGED <<conn, pending_upgrade, requested, received>>
    PROVE  \A n \in Nodes : Counted(n)'
BY DEF CountInv, ComingFinite, NoDoubleUpgrade, Counted, Coming, Triggers, InWindow

\* The end of a loop.
LEMMA ReturnShrinks ==
    ASSUME CountInv, NEW c \in Conns, conn[c].pc # "free", Return(c),
           UNCHANGED <<pending_upgrade, requested, received>>
    PROVE  \A n \in Nodes : Counted(n)'
<1>1. conn'[c] = FreeConn /\ \A d \in Conns \ {c} : conn'[d] = conn[d]
    BY ReturnEffect DEF CountInv, ChannelInv
<1>2. Triggers(c)' = {}
    BY <1>1, FreeHasNothing
<1>3. \A n \in Nodes : InWindow(n)' <= InWindow(n)
    BY DEF InWindow
<1> QED
    BY <1>1, <1>2, <1>3, LoopShrinks

\* One trigger leaves loop c, and arrives or is lost.
LEMMA LoopSends ==
    ASSUME CountInv, NEW c \in Conns, conn[c].node \in Nodes,
           \A d \in Conns \ {c} : conn'[d] = conn[d], conn'[c].node = conn[c].node,
           NEW i \in Triggers(c), Triggers(c)' = Triggers(c) \ {i},
           UNCHANGED <<pending_upgrade, requested>>,
           Arrives(c) \/ received' = received
    PROVE  \A n \in Nodes : Counted(n)'
<1>1. ASSUME NEW n \in Nodes, n = conn[c].node PROVE Counted(n)'
    <2>1. <<c, i>> \in Coming(n)
        BY <1>1, ComingElements
    <2>2. Coming(n)' = Coming(n) \ {<<c, i>>}
        <3>1. ASSUME NEW x PROVE x \in Coming(n)' <=> x \in Coming(n) /\ x # <<c, i>>
            <4>1. x \in Coming(n)' <=>
                    \E d \in Conns : conn'[d].node = n /\ \E j \in Triggers(d)' : x = <<d, j>>
                BY DEF Coming
            <4>2. x \in Coming(n) <=>
                    \E d \in Conns : conn[d].node = n /\ \E j \in Triggers(d) : x = <<d, j>>
                BY DEF Coming
            <4>3. \A d \in Conns \ {c} : Triggers(d)' = Triggers(d) /\ conn'[d].node = conn[d].node
                BY DEF Triggers
            <4> QED
                BY <4>1, <4>2, <4>3, <1>1
        <3> QED
            BY <3>1
    <2>3. received'[n] \in {received[n], received[n] + 1} /\ requested'[n] = requested[n]
        BY <1>1 DEF Arrives, CountInv, ChannelInv, TypeOK
    <2>4. InWindow(n)' = InWindow(n)
        BY DEF InWindow
    <2> QED
        BY <2>1, <2>2, <2>3, <2>4, CountMovesOut DEF Counted
<1>2. ASSUME NEW n \in Nodes, n # conn[c].node PROVE Counted(n)'
    <2>1. Coming(n)' \subseteq Coming(n)
        BY <1>2, OtherNodesKeep
    <2>2. received'[n] = received[n] /\ requested'[n] = requested[n]
        BY <1>2 DEF Arrives, CountInv, ChannelInv, TypeOK
    <2>3. InWindow(n)' <= InWindow(n) + (requested'[n] - requested[n])
        BY <2>2 DEF InWindow, CountInv, ChannelInv, TypeOK
    <2>4. requested'[n] \in {requested[n], requested[n] + 1}
        BY <2>2
    <2> QED
        BY <2>1, <2>2, <2>3, <2>4, CountShrinks DEF Counted
<1> QED
    BY <1>1, <1>2

\* One trigger comes to loop c, and was asked for now or stood in the window.
LEMMA LoopTakes ==
    ASSUME CountInv, NEW c \in Conns, conn[c].node \in Nodes,
           \A d \in Conns \ {c} : conn'[d] = conn[d], conn'[c].node = conn[c].node,
           NEW i, Triggers(c)' = Triggers(c) \cup {i}, received' = received,
           \A n \in Nodes : requested'[n] \in {requested[n], requested[n] + 1},
           \A n \in Nodes :
              InWindow(n)' + (IF n = conn[c].node THEN 1 ELSE 0)
                 <= InWindow(n) + (requested'[n] - requested[n])
    PROVE  \A n \in Nodes : Counted(n)'
<1>1. ASSUME NEW n \in Nodes, n = conn[c].node PROVE Counted(n)'
    <2>1. Coming(n)' = Coming(n) \cup {<<c, i>>}
        <3>1. ASSUME NEW x PROVE x \in Coming(n)' <=> x \in Coming(n) \/ x = <<c, i>>
            <4>1. x \in Coming(n)' <=>
                    \E d \in Conns : conn'[d].node = n /\ \E j \in Triggers(d)' : x = <<d, j>>
                BY DEF Coming
            <4>2. x \in Coming(n) <=>
                    \E d \in Conns : conn[d].node = n /\ \E j \in Triggers(d) : x = <<d, j>>
                BY DEF Coming
            <4>3. \A d \in Conns \ {c} : Triggers(d)' = Triggers(d) /\ conn'[d].node = conn[d].node
                BY DEF Triggers
            <4> QED
                BY <4>1, <4>2, <4>3, <1>1
        <3> QED
            BY <3>1
    <2>2. InWindow(n)' + 1 <= InWindow(n) + (requested'[n] - requested[n])
        BY <1>1
    <2> QED
        BY <2>1, <2>2, CountMovesIn DEF Counted
<1>2. ASSUME NEW n \in Nodes, n # conn[c].node PROVE Counted(n)'
    <2>1. Coming(n)' \subseteq Coming(n)
        BY <1>2, OtherNodesKeep
    <2>2. InWindow(n)' <= InWindow(n) + (requested'[n] - requested[n])
        <3>1. InWindow(n)' + 0 <= InWindow(n) + (requested'[n] - requested[n])
            BY <1>2
        <3>2. InWindow(n)' \in Nat
            BY DEF InWindow
        <3> QED
            BY <3>1, <3>2
    <2> QED
        BY <2>1, <2>2, CountShrinks DEF Counted
<1> QED
    BY <1>1, <1>2

\* A sender's loop has one trigger more, or else the window is opened: either
\* way one that was asked for now.
LEMMA UpgradeCounts ==
    ASSUME CountInv, NEW n \in Nodes, Upgrade(n)
    PROVE  \A m \in Nodes : Counted(m)'
<1> USE DEF CountInv, ChannelInv, TypeOK
<1>1. /\ received' = received
      /\ \A m \in Nodes : requested'[m] = IF m = n THEN requested[m] + 1 ELSE requested[m]
    BY DEF Upgrade
<1>2. \A m \in Nodes : requested'[m] \in {requested[m], requested[m] + 1}
    BY <1>1
<1>3. CASE upgrade_tx[n] # None
    <2>1. PICK c \in Conns : c = upgrade_tx[n]
        BY <1>3
    <2>2. /\ conn[c].node = n /\ conn[c].queue \in Nat /\ pending_upgrade' = pending_upgrade
          /\ conn' = [conn EXCEPT ![c].queue = @ + 1]
        BY <1>3, <2>1 DEF Upgrade, SenderHasLoop, Conn
    <2>3. Triggers(c)' = Triggers(c) \cup {conn[c].queue + 1}
        BY <2>2 DEF Triggers
    <2>4. /\ \A d \in Conns \ {c} : conn'[d] = conn[d]
          /\ conn'[c].node = conn[c].node /\ conn[c].node \in Nodes
        BY <2>2
    <2>5. \A m \in Nodes :
             InWindow(m)' + (IF m = conn[c].node THEN 1 ELSE 0)
                <= InWindow(m) + (requested'[m] - requested[m])
        BY <1>1, <2>2 DEF InWindow
    <2> QED
        BY <1>1, <1>2, <2>3, <2>4, <2>5, LoopTakes
<1>4. CASE upgrade_tx[n] = None
    <2> SUFFICES ASSUME NEW m \in Nodes
                 PROVE  Counted(m)'
        OBVIOUS
    <2>1. Coming(m)' \subseteq Coming(m)
        BY <1>4 DEF Upgrade, Coming, Triggers
    <2>2. pending_upgrade' =
             [k \in Nodes |->
                 IF k = n THEN now + ResendSecs
                 ELSE IF pending_upgrade[k] > now THEN pending_upgrade[k] ELSE NoTime]
        BY <1>4 DEF Upgrade
    <2>3. InWindow(m)' <= InWindow(m) + (requested'[m] - requested[m])
        BY <1>1, <2>2 DEF InWindow
    <2> QED
        BY <1>1, <1>2, <2>1, <2>3, CountShrinks DEF Counted
<1> QED
    BY <1>3, <1>4

\* A window that has not passed becomes the resend the loop owes; one that has
\* is dropped.
LEMMA RegisterCounts ==
    ASSUME CountInv, NEW c \in Conns, Register(c)
    PROVE  \A m \in Nodes : Counted(m)'
<1> USE DEF CountInv, ChannelInv, TypeOK
<1>1. conn[c].pc = "register" /\ conn[c].node \in Nodes /\ now \in Nat
      /\ UNCHANGED <<requested, received>>
    BY DEF Register, LoopHasNode
<1>2. /\ \A d \in Conns \ {c} : conn'[d] = conn[d]
      /\ conn'[c].node = conn[c].node /\ conn'[c].queue = conn[c].queue
      /\ conn'[c].pc = IF pending_upgrade[conn[c].node] > now THEN "resend" ELSE "serve"
    BY DEF Register, Conn
<1>3. \A m \in Nodes : InWindow(m)' = IF m = conn[c].node THEN 0 ELSE InWindow(m)
    BY <1>1 DEF Register, InWindow
<1>4. CASE pending_upgrade[conn[c].node] > now
    <2>1. Triggers(c)' = Triggers(c) \cup {0}
        BY <1>1, <1>2, <1>4 DEF Triggers
    <2>2. InWindow(conn[c].node) = 1
        BY <1>1, <1>4 DEF InWindow
    <2>3. \A m \in Nodes :
             InWindow(m)' + (IF m = conn[c].node THEN 1 ELSE 0)
                <= InWindow(m) + (requested'[m] - requested[m])
        <3>1. \A m \in Nodes : InWindow(m) \in Nat
            BY DEF InWindow
        <3> QED
            BY <1>1, <1>3, <2>2, <3>1
    <2>4. \A m \in Nodes : requested'[m] \in {requested[m], requested[m] + 1}
        BY <1>1
    <2> QED
        BY <1>1, <1>2, <2>1, <2>3, <2>4, LoopTakes
<1>5. CASE ~(pending_upgrade[conn[c].node] > now)
    <2>1. Triggers(c)' \subseteq Triggers(c)
        BY <1>1, <1>2, <1>5 DEF Triggers
    <2>2. \A m \in Nodes : InWindow(m)' <= InWindow(m)
        BY <1>3 DEF InWindow
    <2> QED
        BY <1>1, <1>2, <2>1, <2>2, LoopShrinks
<1> QED
    BY <1>4, <1>5

\* The count is kept by every step.
LEMMA CountStep == CountInv /\ [Next]_vars => \A n \in Nodes : Counted(n)'
<1> SUFFICES ASSUME CountInv, [Next]_vars
             PROVE  \A n \in Nodes : Counted(n)'
    OBVIOUS
<1>0. /\ conn \in [Conns -> Conn] /\ LoopHasNode
      /\ \A c \in Conns : conn[c].queue \in Nat
    BY DEF CountInv, ChannelInv, TypeOK, Conn
<1>1. ASSUME NEW m \in Nodes, NEW c \in Conns, Connect(m, c)
      PROVE  \A n \in Nodes : Counted(n)'
    <2>1. conn'[c].queue = 0 /\ conn'[c].pc = "greet"
          /\ \A d \in Conns \ {c} : conn'[d] = conn[d]
        BY <1>0, <1>1 DEF Connect
    <2>2. Triggers(c)' = {}
        BY <2>1 DEF Triggers
    <2>3. UNCHANGED <<pending_upgrade, requested, received>>
        BY <1>1 DEF Connect
    <2>4. \A n \in Nodes : InWindow(n)' <= InWindow(n)
        BY <2>3 DEF InWindow
    <2> QED
        BY <2>1, <2>2, <2>3, <2>4, LoopShrinks
<1>2. ASSUME NEW n \in Nodes, Disconnect(n) PROVE \A m \in Nodes : Counted(m)'
    BY <1>2, CountStable DEF Disconnect
<1>3. ASSUME NEW n \in Nodes, Upgrade(n) PROVE \A m \in Nodes : Counted(m)'
    BY <1>3, UpgradeCounts
<1>4. ASSUME NEW c \in Conns, Greet(c) PROVE \A n \in Nodes : Counted(n)'
    <2>1. CASE Return(c)
        BY <1>4, <2>1, ReturnShrinks DEF Greet
    <2>2. CASE conn' = [conn EXCEPT ![c].pc = "register"]
        <3>1. /\ \A d \in Conns \ {c} : conn'[d] = conn[d]
              /\ conn'[c].node = conn[c].node /\ Triggers(c)' \subseteq Triggers(c)
            BY <1>0, <2>2 DEF Triggers, Conn
        <3>2. UNCHANGED <<pending_upgrade, requested, received>>
            BY <1>4 DEF Greet
        <3>3. \A n \in Nodes : InWindow(n)' <= InWindow(n)
            BY <3>2 DEF InWindow
        <3> QED
            BY <3>1, <3>2, <3>3, LoopShrinks
    <2> QED
        BY <1>4, <2>1, <2>2 DEF Greet
<1>5. ASSUME NEW c \in Conns, Register(c) PROVE \A n \in Nodes : Counted(n)'
    BY <1>5, RegisterCounts
<1>6. ASSUME NEW c \in Conns, Resend(c) PROVE \A n \in Nodes : Counted(n)'
    <2>1. conn[c].pc = "resend" /\ conn[c].node \in Nodes
          /\ UNCHANGED <<pending_upgrade, requested>>
        BY <1>0, <1>6 DEF Resend, LoopHasNode
    <2>2. CASE Arrives(c) /\ conn' = [conn EXCEPT ![c].pc = "serve"]
        <3>1. /\ \A d \in Conns \ {c} : conn'[d] = conn[d]
              /\ conn'[c].node = conn[c].node
              /\ 0 \in Triggers(c) /\ Triggers(c)' = Triggers(c) \ {0}
            BY <1>0, <2>1, <2>2 DEF Triggers, Conn
        <3> QED
            BY <2>1, <2>2, <3>1, LoopSends
    <2>3. CASE Return(c) /\ received' = received
        BY <2>1, <2>3, ReturnShrinks
    <2> QED
        BY <1>6, <2>2, <2>3 DEF Resend
<1>7. ASSUME NEW c \in Conns, Deliver(c) PROVE \A n \in Nodes : Counted(n)'
    <2>1. conn[c].pc = "serve" /\ conn[c].queue > 0 /\ conn[c].node \in Nodes
          /\ UNCHANGED <<pending_upgrade, requested>>
        BY <1>0, <1>7 DEF Deliver, LoopHasNode
    <2>2. /\ \A d \in Conns \ {c} : conn'[d] = conn[d]
          /\ conn'[c].node = conn[c].node
          /\ conn'[c].queue = conn[c].queue - 1 /\ conn'[c].pc \in {"serve", "leave"}
        BY <1>0, <1>7, <2>1 DEF Deliver, Conn
    <2>3. conn[c].queue \in Triggers(c) /\ Triggers(c)' = Triggers(c) \ {conn[c].queue}
        BY <1>0, <2>1, <2>2 DEF Triggers
    <2>4. Arrives(c) \/ received' = received
        BY <1>7 DEF Deliver
    <2> QED
        BY <2>1, <2>2, <2>3, <2>4, LoopSends
<1>8. ASSUME NEW c \in Conns, Leave(c) PROVE \A n \in Nodes : Counted(n)'
    <2>1. /\ \A d \in Conns \ {c} : conn'[d] = conn[d]
          /\ conn'[c].node = conn[c].node /\ Triggers(c)' \subseteq Triggers(c)
        BY <1>0, <1>8 DEF Leave, Triggers, Conn
    <2>2. UNCHANGED <<pending_upgrade, requested, received>>
        BY <1>8 DEF Leave
    <2>3. \A n \in Nodes : InWindow(n)' <= InWindow(n)
        BY <2>2 DEF InWindow
    <2> QED
        BY <2>1, <2>2, <2>3, LoopShrinks
<1>9. ASSUME NEW c \in Conns, RemoveSender(c) PROVE \A n \in Nodes : Counted(n)'
    BY <1>9, ReturnShrinks DEF RemoveSender
<1>10. CASE Tick
    BY <1>10, CountStable DEF Tick
<1>11. CASE UNCHANGED vars
    BY <1>11, CountStable DEF vars
<1> QED
    BY <1>1, <1>2, <1>3, <1>4, <1>5, <1>6, <1>7, <1>8, <1>9, <1>10, <1>11 DEF Next

LEMMA CountInit == Init => CountInv
<1> SUFFICES ASSUME Init
             PROVE  CountInv
    OBVIOUS
<1>1. \A n \in Nodes : Coming(n) = {} /\ InWindow(n) = 0 /\ received[n] = 0 /\ requested[n] = 0
    BY DEF Init, Coming, FreeConn, InWindow
<1> QED
    BY <1>1, FS_EmptySet, ChannelInit DEF CountInv, ComingFinite, NoDoubleUpgrade

\* However often connections are lost, replaced and retried, and whatever loops
\* of one node overlap: a node is sent an upgrade no more often than one was
\* asked for (the channel, the window taken by a registration, and the resend).
THEOREM NoUpgradeTwice == Spec => []NoDoubleUpgrade
<1>1. CountInv /\ [Next]_vars => CountInv'
    BY ChannelStep, CountStep DEF CountInv, ComingFinite, NoDoubleUpgrade, Counted
<1>2. CountInv => NoDoubleUpgrade
    BY DEF CountInv
<1> QED
    BY CountInit, <1>1, <1>2, PTL DEF Spec
=============================================================================
