------------------------------- MODULE BleHa -------------------------------
(***************************************************************************)
(* ble-ha with Improv Wi-Fi: the loop of run(), its commands to the        *)
(* adapter, the connection of a client, the provisioning and the exit.     *)
(* The program has one thread, but while it waits for the answer of a      *)
(* command it handles the packets that come before it, so a client         *)
(* connects, writes and goes in the middle of set_advertising().           *)
(* The adapter, the clients and wpa_supplicant are the environment; the    *)
(* adapter delivers its packets in order.                                  *)
(***************************************************************************)
EXTENDS Naturals, Sequences, FiniteSets

CONSTANTS BUFFERS,     \* acl_credits after hci_init()
          MaxLinks,    \* links that the adapter can have
          RPC_MAX,     \* the size of s.rpc, in writes
          Writes,      \* what the clients write
          MaxConns,    \* bound: connections of clients
          MaxWrites,   \* bound: writes of clients
          MaxTimeouts, \* bound: late answers and read errors of the adapter
          MaxEvents    \* bound: packets of the clients that wait to be read

Cccds == {"state", "error", "result"}
Commands == {"identify", "info"}
Fragments == {"head", "tail", "long"} \cup Commands

ASSUME BleAssumption ==
  /\ BUFFERS \in Nat /\ MaxLinks \in Nat /\ RPC_MAX \in Nat
  /\ Writes \subseteq Cccds \cup Fragments
  /\ MaxConns \in Nat /\ MaxWrites \in Nat /\ MaxTimeouts \in Nat
  /\ MaxEvents \in Nat

VARIABLES
  \* the adapter: on the air, the state in its data, open links, packets of
  \* each link that it still has; its input and output
  ctrlAdv, ctrlData, links, held, cmds, evts,
  \* the adapter as ble-ha sees it
  conn, advertising, advDirty, scanning, credits, connSent,
  \* Improv
  improv, state, error, cccd, rpc, joinId, identifyEnd, doneAt,
  \* the loop: the place, the command in progress and the call it is from
  pc, op, on, ret, subs, stop,
  \* -p: ble-ha does not end with Improv
  proxy,
  \* wpa_supplicant: the network of Improv, one from elsewhere
  wpaNet, otherNet,
  \* history: connections, writes, late answers, a second link was open
  conns, writes, timeouts, second

ctrlVars == <<ctrlAdv, ctrlData, links, held, cmds>>
adapterVars == <<conn, advertising, advDirty, scanning, credits, connSent>>
gattVars == <<state, error, cccd, rpc>>
improvVars == <<improv, joinId, identifyEnd, doneAt>>
loopVars == <<pc, op, on, ret, subs, stop, proxy>>
wpaVars == <<wpaNet, otherNet>>
histVars == <<conns, writes, timeouts, second>>
vars == <<ctrlVars, evts, adapterVars, gattVars, improvVars, loopVars, wpaVars,
          histVars>>

Handles == 1 .. MaxConns
NoConn == 0
Event(t, h, x) == [t |-> t, h |-> h, x |-> x]

(* main() before run(): Improv is needed, and the first turn advertises.   *)
Init ==
  /\ ctrlAdv = FALSE /\ ctrlData = "authorized" /\ links = {}
  /\ held = [h \in Handles |-> 0] /\ cmds = <<>> /\ evts = <<>>
  /\ conn = NoConn /\ advertising = FALSE /\ advDirty = TRUE
  /\ scanning = FALSE /\ credits = BUFFERS /\ connSent = 0
  /\ improv = TRUE /\ state = "authorized" /\ error = "none"
  /\ cccd = {} /\ rpc = <<>>
  /\ joinId = FALSE /\ identifyEnd = FALSE /\ doneAt = FALSE
  /\ pc = "top" /\ op = "none" /\ on = FALSE /\ ret = "top"
  /\ subs = FALSE /\ stop = FALSE
  /\ wpaNet = "none" /\ otherNet = FALSE
  /\ proxy \in BOOLEAN
  /\ conns = 0 /\ writes = 0 /\ timeouts = 0 /\ second = FALSE

-----------------------------------------------------------------------------
(* acl_send() n times: a packet without a credit is dropped.  The adapter  *)
(* discards a packet for a link that it has closed.                        *)
AclSend(n) ==
  LET sent == IF conn = NoConn THEN 0
              ELSE IF n < credits THEN n ELSE credits
  IN  /\ credits' = credits - sent
      /\ connSent' = connSent + sent
      /\ held' = IF conn \in links THEN [held EXCEPT ![conn] = @ + sent]
                 ELSE held

(* What set_state() and set_result() change: the state, the error, the     *)
(* mark for new advertising data, and how many notifications they send.    *)
Now == [state |-> state, error |-> error, dirty |-> advDirty, sends |-> 0]

Notify(r, c) == [r EXCEPT !.sends = @ + (IF c \in cccd THEN 1 ELSE 0)]

(* Mutant: the advertising data keeps the old state.                       *)
set_state_NotDirty(r, st, err) ==
  LET e == IF err = r.error THEN r ELSE [Notify(r, "error") EXCEPT !.error = err]
  IN  IF st = e.state THEN e ELSE [Notify(e, "state") EXCEPT !.state = st]

set_state(r, st, err) ==
  LET e == IF err = r.error THEN r ELSE [Notify(r, "error") EXCEPT !.error = err]
  IN  IF st = e.state THEN e
      ELSE [Notify(e, "state") EXCEPT !.state = st, !.dirty = TRUE]

Apply(r, rsp) ==
  /\ state' = r.state /\ error' = r.error /\ advDirty' = r.dirty
  /\ AclSend(r.sends + rsp)

-----------------------------------------------------------------------------
(* wpa_join(): wpa_supplicant takes the network, or it refuses a part of   *)
(* it and wpa_join() removes it.  wpa_supplicant answers each request.     *)
wpa_join(ok) ==
  IF ok THEN joinId' = TRUE /\ wpaNet' = "added"
  ELSE joinId' = FALSE /\ UNCHANGED wpaNet

(* wpa_finish(): the network is saved, or removed.                         *)
wpa_finish(keep) == wpaNet' = IF keep THEN "saved" ELSE "none"

wpa_networks == wpaNet # "none" \/ otherNet

(* improv_command() of Wi-Fi.                                              *)
CommandWifi(rsp) ==
  LET r == set_state(Now, state, "none") IN
  IF state # "authorized"
  THEN Apply(r, rsp) /\ UNCHANGED <<joinId, wpaNet>>
  ELSE \/ /\ Apply(set_state(r, "provisioning", "none"), rsp)
          /\ wpa_join(TRUE)
       \/ /\ Apply(set_state(set_state(r, "provisioning", "none"),
                             "authorized", "other"), rsp)
          /\ wpa_join(FALSE)

(* improv_parse() of the writes so far.  "long" starts a packet that does  *)
(* not fit; "head" and "tail" are the two parts of a Wi-Fi command.        *)
improv_parse(r) ==
  IF Head(r).x = "long" \/ (Len(r) = 1 /\ Head(r).x = "head") THEN "incomplete"
  ELSE IF Len(r) = 1 /\ Head(r).x \in Commands THEN Head(r).x
  ELSE IF Len(r) = 2 /\ Head(r).x = "head" /\ r[2].x = "tail" THEN "wifi"
  ELSE "invalid"

(* rpc_write(): too much, incomplete, wrong, or a command.                 *)
rpc_write(w, rsp) ==
  LET r == Append(rpc, w)
      got == improv_parse(r)
      bad == Len(r) > RPC_MAX \/ got = "invalid"
  IN  /\ rpc' = IF ~bad /\ got = "incomplete" THEN r ELSE <<>>
      /\ \/ /\ bad
            /\ Apply(set_state(Now, state, "invalid"), rsp)
            /\ UNCHANGED <<joinId, wpaNet, identifyEnd>>
         \/ /\ ~bad /\ got = "incomplete"
            /\ Apply(Now, rsp)
            /\ UNCHANGED <<joinId, wpaNet, identifyEnd>>
         \/ /\ ~bad /\ got = "wifi"
            /\ CommandWifi(rsp)
            /\ UNCHANGED identifyEnd
         \/ /\ ~bad /\ got = "identify"
            /\ Apply(set_state(Now, state, "none"), rsp)
            /\ identifyEnd' = TRUE
            /\ UNCHANGED <<joinId, wpaNet>>
         \/ /\ ~bad /\ got = "info"
            /\ Apply(Notify(set_state(Now, state, "none"), "result"), rsp)
            /\ UNCHANGED <<joinId, wpaNet, identifyEnd>>

(* write_value() of the ATT server.                                        *)
AttWrite(e, rsp) ==
  \/ /\ e.x \in Fragments
     /\ rpc_write([h |-> e.h, x |-> e.x], rsp)
     /\ UNCHANGED <<conn, advertising, cccd>>
  \/ /\ e.x \in Cccds
     /\ cccd' \in {cccd \cup {e.x}, cccd \ {e.x}}
     /\ AclSend(rsp)
     /\ UNCHANGED <<conn, advertising, advDirty, state, error, rpc, joinId,
                    wpaNet, identifyEnd>>

(* handle_acl(), l2cap_frame() and gatt_handle(): a Write Request with its *)
(* response or a Write Command.  The link of the packet is not compared    *)
(* with conn.                                                              *)
HandleAcl(e) == \E rsp \in {0, 1} : AttWrite(e, rsp)

(* Mutant: a part of a packet stays for the next client.                   *)
ConnectionComplete_KeepRpc(h) ==
  /\ conn' = h /\ advertising' = FALSE
  /\ cccd' = {}
  /\ UNCHANGED <<rpc, advDirty, credits, connSent, held, state, error, joinId,
                 wpaNet, identifyEnd>>

(* le_meta(): LE Connection Complete.                                      *)
ConnectionComplete(h) ==
  /\ conn' = h /\ advertising' = FALSE
  /\ rpc' = <<>> /\ cccd' = {}
  /\ UNCHANGED <<advDirty, credits, connSent, held, state, error, joinId,
                 wpaNet, identifyEnd>>

(* Mutant: the credits of the closed link do not come back.                *)
DisconnectionComplete_NoCredits(h) ==
  /\ IF h = conn
     THEN /\ connSent' = 0
          /\ conn' = NoConn /\ advDirty' = TRUE
     ELSE UNCHANGED <<connSent, conn, advDirty>>
  /\ UNCHANGED <<credits, advertising, rpc, cccd, held, state, error, joinId,
                 wpaNet, identifyEnd>>

(* handle_packet(): Disconnection Complete.                                *)
DisconnectionComplete(h) ==
  /\ IF h = conn
     THEN /\ credits' = credits + connSent /\ connSent' = 0
          /\ conn' = NoConn /\ advDirty' = TRUE
     ELSE UNCHANGED <<credits, connSent, conn, advDirty>>
  /\ UNCHANGED <<advertising, rpc, cccd, held, state, error, joinId, wpaNet,
                 identifyEnd>>

(* handle_packet(): Number of Completed Packets, of any link.              *)
CompletedPackets ==
  /\ credits' = credits + 1
  /\ connSent' = IF connSent = 0 THEN 0 ELSE connSent - 1
  /\ UNCHANGED <<conn, advertising, advDirty, rpc, cccd, held, state, error,
                 joinId, wpaNet, identifyEnd>>

(* handle_packet() on the first packet; a late answer is ignored.          *)
handle_packet ==
  /\ evts # <<>>
  /\ evts' = Tail(evts)
  /\ \/ Head(evts).t = "connected" /\ ConnectionComplete(Head(evts).h)
     \/ Head(evts).t = "disconnected" /\ DisconnectionComplete(Head(evts).h)
     \/ Head(evts).t = "completed" /\ CompletedPackets
     \/ Head(evts).t = "acl" /\ HandleAcl(Head(evts))
     \/ /\ Head(evts).t \in {"answer", "refused"}
        /\ UNCHANGED <<conn, advertising, advDirty, rpc, cccd, held, credits,
                       connSent, state, error, joinId, wpaNet, identifyEnd>>
  /\ UNCHANGED <<ctrlAdv, ctrlData, links, cmds, scanning, improv, doneAt,
                 otherNet, histVars>>

-----------------------------------------------------------------------------
(* hci_cmd(): the command o goes to the adapter; the program waits.        *)
Issue(o, v, r) ==
  /\ cmds' = Append(cmds, [op |-> o, on |-> v, data |-> state])
  /\ pc' = "wait" /\ op' = o /\ on' = v /\ ret' = r

Return(r) == pc' = r /\ op' = "none" /\ on' = FALSE /\ ret' = "top"

(* Mutant: a command to stop is not sent.                                  *)
set_advertising_OnlyOn(v, r) ==
  IF v THEN Issue("data", v, r) /\ UNCHANGED advDirty
  ELSE advDirty' = FALSE /\ Return(r) /\ UNCHANGED cmds

(* set_advertising(): its first command, or none.                          *)
set_advertising(v, r) ==
  IF v THEN Issue("data", v, r) /\ UNCHANGED advDirty
  ELSE IF advertising THEN Issue("enable", v, r) /\ UNCHANGED advDirty
  ELSE advDirty' = FALSE /\ Return(r) /\ UNCHANGED cmds

set_scan(v, r) ==
  IF v = scanning THEN Return(r) /\ UNCHANGED cmds
  ELSE Issue(IF v THEN "scan_param" ELSE "scan_enable", v, r)

(* What follows the answer to a command, or its timeout.                   *)
AfterCmd(ok) ==
  \/ /\ op = "data"
     /\ IF ~advertising THEN Issue("name", on, ret) /\ UNCHANGED advDirty
        ELSE Return(ret) /\ advDirty' = FALSE /\ UNCHANGED cmds
     /\ UNCHANGED <<advertising, scanning>>
  \/ /\ op = "name" /\ Issue("param", on, ret)
     /\ UNCHANGED <<advDirty, advertising, scanning>>
  \/ /\ op = "param"
     /\ IF on # advertising THEN Issue("enable", on, ret) /\ UNCHANGED advDirty
        ELSE Return(ret) /\ advDirty' = FALSE /\ UNCHANGED cmds
     /\ UNCHANGED <<advertising, scanning>>
  \/ /\ op = "enable"
     /\ advertising' = IF ok THEN on ELSE advertising
     /\ advDirty' = FALSE /\ Return(ret)
     /\ UNCHANGED <<cmds, scanning>>
  \/ /\ op = "scan_param"
     /\ IF ok THEN Issue("scan_enable", on, ret)
        ELSE Return(ret) /\ UNCHANGED cmds
     /\ UNCHANGED <<advDirty, advertising, scanning>>
  \/ /\ op = "scan_enable"
     /\ scanning' = IF ok THEN on ELSE scanning
     /\ Return(ret)
     /\ UNCHANGED <<cmds, advDirty, advertising>>

IsAnswer ==
  evts # <<>> /\ Head(evts).t \in {"answer", "refused"} /\ Head(evts).x = op

CmdAnswer ==
  /\ pc = "wait" /\ IsAnswer
  /\ AfterCmd(Head(evts).t = "answer")
  /\ evts' = Tail(evts)
  /\ UNCHANGED <<ctrlAdv, ctrlData, links, held, conn, credits, connSent,
                 gattVars, improvVars, subs, stop, proxy, wpaVars, histVars>>

CmdTimeout ==
  /\ pc = "wait" /\ timeouts < MaxTimeouts
  /\ AfterCmd(FALSE)
  /\ timeouts' = timeouts + 1
  /\ UNCHANGED <<ctrlAdv, ctrlData, links, held, evts, conn, credits, connSent,
                 gattVars, improvVars, subs, stop, proxy, wpaVars, conns, writes, second>>

(* Other packets only change the state here.                               *)
CmdOther ==
  /\ pc = "wait" /\ ~IsAnswer
  /\ handle_packet
  /\ UNCHANGED loopVars

-----------------------------------------------------------------------------
Rest == <<ctrlAdv, ctrlData, links, evts, conn, advertising, scanning, cccd,
          rpc, subs, stop, proxy, otherNet, histVars>>

(* run(): the head of the loop.                                            *)
LoopTop ==
  /\ pc = "top"
  /\ IF stop \/ ~(proxy \/ improv)
     THEN Return("exit_scan") /\ UNCHANGED <<cmds, advDirty>>
     ELSE IF advDirty /\ improv /\ conn = NoConn THEN set_advertising(TRUE, "scan")
     ELSE Return("scan") /\ UNCHANGED <<cmds, advDirty>>
  /\ UNCHANGED <<Rest, held, credits, connSent, state, error, improvVars, wpaNet>>

LoopScan ==
  /\ pc = "scan"
  /\ set_scan(subs, "poll")
  /\ UNCHANGED <<Rest, held, advDirty, credits, connSent, state, error,
                 improvVars, wpaNet>>

(* Mutant: without a join or a blinking LED, poll() waits for an event.    *)
poll_timeout_NoImprov == joinId \/ identifyEnd

(* poll_timeout(): whether poll() returns without an event.                *)
poll_timeout == joinId \/ identifyEnd \/ doneAt \/ improv

(* poll(): a packet of the adapter, and the messages of the API clients    *)
(* after it, or these alone, a signal or the timeout.                      *)
PollPacket ==
  /\ pc = "poll"
  /\ handle_packet
  /\ pc' = "clients"
  /\ UNCHANGED <<op, on, ret, subs, stop, proxy>>

PollOther ==
  /\ pc = "poll" /\ evts = <<>> /\ (poll_timeout \/ proxy \/ stop)
  /\ pc' = "clients"
  /\ UNCHANGED <<Rest, cmds, held, advDirty, credits, connSent, state, error,
                 improvVars, wpaNet, op, on, ret>>

(* read() of the adapter fails: the loop ends.                             *)
PollError ==
  /\ pc = "poll" /\ timeouts < MaxTimeouts
  /\ timeouts' = timeouts + 1
  /\ Return("exit_scan")
  /\ UNCHANGED <<ctrlVars, evts, adapterVars, gattVars, improvVars, subs, stop,
                 proxy, wpaVars, conns, writes, second>>

LoopClients ==
  /\ pc = "clients"
  /\ subs' \in IF proxy THEN BOOLEAN ELSE {FALSE}
  /\ pc' = "join"
  /\ UNCHANGED <<ctrlVars, evts, adapterVars, gattVars, improvVars, op, on, ret,
                 stop, proxy, wpaVars, histVars>>

-----------------------------------------------------------------------------
(* timers(): join_poll().  The network is kept, or removed when it is late.*)
JoinConnected ==
  /\ pc = "join" /\ joinId
  /\ wpa_finish(TRUE) /\ joinId' = FALSE /\ doneAt' = TRUE
  /\ Apply(set_state(Notify(Now, "result"), "provisioned", "none"), 0)
  /\ pc' = "identify"
  /\ UNCHANGED <<Rest, cmds, improv, identifyEnd, op, on, ret>>

JoinLate ==
  /\ pc = "join" /\ joinId
  /\ wpa_finish(FALSE) /\ joinId' = FALSE
  /\ Apply(set_state(Now, "authorized", "connect"), 0)
  /\ pc' = "identify"
  /\ UNCHANGED <<Rest, cmds, improv, identifyEnd, doneAt, op, on, ret>>

(* One step from one timer to the next.                                    *)
GoOn(from, to) ==
  /\ pc = from /\ pc' = to
  /\ UNCHANGED <<Rest, cmds, held, advDirty, credits, connSent, state, error,
                 improvVars, wpaNet, op, on, ret>>

(* timers(): identify(0) after five seconds.                               *)
IdentifyEnds ==
  /\ pc = "identify" /\ identifyEnd
  /\ identifyEnd' = FALSE
  /\ pc' = "done"
  /\ UNCHANGED <<Rest, cmds, held, advDirty, credits, connSent, state, error,
                 improv, joinId, doneAt, wpaNet, op, on, ret>>

(* After provisioning: no more advertising.                                *)
DoneDue ==
  /\ pc = "done" /\ doneAt /\ conn = NoConn
  /\ improv' = FALSE /\ doneAt' = FALSE
  /\ set_advertising(FALSE, "check")
  /\ UNCHANGED <<Rest, held, credits, connSent, state, error, joinId,
                 identifyEnd, wpaNet>>

(* Wi-Fi got a network in another way.                                     *)
NetworkFound ==
  /\ pc = "check" /\ improv /\ ~joinId /\ ~doneAt /\ conn = NoConn
  /\ wpa_networks
  /\ improv' = FALSE
  /\ set_advertising(FALSE, "top")
  /\ UNCHANGED <<Rest, held, credits, connSent, state, error, joinId,
                 identifyEnd, doneAt, wpaNet>>

(* A timer that is not due, or not set.                                    *)
NotDue ==
  \/ GoOn("join", "identify") \/ GoOn("identify", "done")
  \/ GoOn("done", "check") \/ GoOn("check", "top")

-----------------------------------------------------------------------------
(* main() after run().                                                     *)
ExitScan ==
  /\ pc = "exit_scan"
  /\ set_scan(FALSE, "exit_adv")
  /\ UNCHANGED <<Rest, held, advDirty, credits, connSent, state, error,
                 improvVars, wpaNet>>

ExitAdv ==
  /\ pc = "exit_adv"
  /\ set_advertising(FALSE, "exit_join")
  /\ UNCHANGED <<Rest, held, credits, connSent, state, error, improvVars, wpaNet>>

(* Mutant: a join in progress is left alone.                               *)
ExitJoin_Keep ==
  /\ pc = "exit_join"
  /\ Return("stopped")
  /\ UNCHANGED <<Rest, cmds, held, advDirty, credits, connSent, state, error,
                 improvVars, wpaNet>>

ExitJoin ==
  /\ pc = "exit_join"
  /\ IF joinId THEN wpa_finish(FALSE) ELSE UNCHANGED wpaNet
  /\ Return("stopped")
  /\ UNCHANGED <<Rest, cmds, held, advDirty, credits, connSent, state, error,
                 improvVars>>

(* A signal.                                                               *)
on_signal ==
  /\ ~stop
  /\ stop' = TRUE
  /\ UNCHANGED <<ctrlVars, evts, adapterVars, gattVars, improvVars, pc, op, on,
                 ret, subs, proxy, wpaVars, histVars>>

-----------------------------------------------------------------------------
(* The adapter, the clients and wpa_supplicant.                            *)
Outside == <<adapterVars, gattVars, improvVars, loopVars>>

Room == Len(evts) < MaxEvents

(* A command: advertising is refused while the adapter has all its links.  *)
AdapterCommand ==
  /\ cmds # <<>>
  /\ cmds' = Tail(cmds)
  /\ LET c == Head(cmds)
         ok == c.op # "enable" \/ ~c.on \/ Cardinality(links) < MaxLinks
     IN  /\ ctrlAdv' = IF c.op = "enable" /\ ok THEN c.on ELSE ctrlAdv
         /\ ctrlData' = IF c.op = "data" THEN c.data ELSE ctrlData
         /\ evts' = Append(evts, Event(IF ok THEN "answer" ELSE "refused", 0, c.op))
  /\ UNCHANGED <<links, held, Outside, wpaVars, histVars>>

ClientConnects ==
  /\ ctrlAdv /\ conns < MaxConns /\ Room
  /\ ctrlAdv' = FALSE
  /\ conns' = conns + 1
  /\ second' = (second \/ links # {})
  /\ links' = links \cup {conns + 1}
  /\ evts' = Append(evts, Event("connected", conns + 1, ""))
  /\ UNCHANGED <<ctrlData, held, cmds, Outside, wpaVars, writes, timeouts>>

(* The adapter does not report the packets of a closed link.               *)
ClientGoes ==
  \E h \in links :
    /\ Room
    /\ links' = links \ {h}
    /\ held' = [held EXCEPT ![h] = 0]
    /\ evts' = Append(evts, Event("disconnected", h, ""))
    /\ UNCHANGED <<ctrlAdv, ctrlData, cmds, Outside, wpaVars, histVars>>

ClientWrites ==
  \E h \in links, w \in Writes :
    /\ writes < MaxWrites /\ Room
    /\ writes' = writes + 1
    /\ evts' = Append(evts, Event("acl", h, w))
    /\ UNCHANGED <<ctrlVars, Outside, wpaVars, conns, timeouts, second>>

PacketSent ==
  \E h \in links :
    /\ held[h] > 0 /\ Room
    /\ held' = [held EXCEPT ![h] = @ - 1]
    /\ evts' = Append(evts, Event("completed", h, ""))
    /\ UNCHANGED <<ctrlAdv, ctrlData, links, cmds, Outside, wpaVars, histVars>>

NetworkAdded ==
  /\ ~otherNet /\ otherNet' = TRUE
  /\ UNCHANGED <<ctrlVars, evts, Outside, wpaNet, histVars>>

Program ==
  \/ CmdAnswer \/ CmdOther \/ LoopTop \/ LoopScan \/ PollPacket \/ PollOther
  \/ LoopClients \/ JoinConnected \/ JoinLate \/ IdentifyEnds \/ DoneDue
  \/ NetworkFound \/ NotDue \/ ExitScan \/ ExitAdv \/ ExitJoin

(* The adapter answers each command in time, and its socket does not fail. *)
InTime ==
  \/ Program \/ on_signal
  \/ AdapterCommand \/ ClientConnects \/ ClientGoes \/ ClientWrites
  \/ PacketSent \/ NetworkAdded

Next == InTime \/ CmdTimeout \/ PollError

Spec == Init /\ [][Next]_vars

(***************************************************************************)
(* The program goes on, the adapter takes its commands, and time does:     *)
(* what is tested for its time again and again is due in the end.          *)
(***************************************************************************)
FairSpec ==
  /\ Init /\ [][InTime]_vars
  /\ WF_vars(Program) /\ WF_vars(AdapterCommand)
  /\ SF_vars(JoinLate) /\ SF_vars(IdentifyEnds)
  /\ SF_vars(DoneDue) /\ SF_vars(NetworkFound)

-----------------------------------------------------------------------------
(* conn_sent counts the packets of the connection that the adapter still   *)
(* has, as the comment at its declaration says.                            *)
ConnSentIsOfConnection ==
  conn \in links =>
    connSent = held[conn] + Cardinality({i \in 1 .. Len(evts) :
                              evts[i].t = "completed" /\ evts[i].h = conn})

(* As long as there is one client at a time, no buffer of the adapter is   *)
(* lost: whenever a link closes, acl_send() gets all credits back, those   *)
(* of the packets that are on their way too, and none twice.               *)
CreditsConserved ==
  ~second => credits + connSent = BUFFERS /\ ConnSentIsOfConnection

(* As long as there is one client at a time, rpc_write() puts a command    *)
(* together from the writes of one client, also when another one went in   *)
(* the middle of a packet.                                                 *)
OneClient ==
  ~second /\ conn # NoConn => \A i \in 1 .. Len(rpc) : rpc[i].h = conn

(* When Improv has ended, and when the program has stopped, the board does *)
(* not advertise, whatever came while set_advertising() waited.  A command *)
(* whose answer is late may break this.                                    *)
AirIsQuiet ==
  timeouts = 0 /\ pc # "wait" /\ (~improv \/ pc = "stopped") => ~ctrlAdv

(* A network of wpa_join() that has not connected is there only while the  *)
(* join goes on: it does not stay when the program stops in the middle, or *)
(* when the join starts while main() already cleans up.                    *)
UnprovenNetworkGoes ==
  wpaNet = "added" => joinId /\ state = "provisioning" /\ pc # "stopped"

Stopped == pc = "stopped"

(* Every deadline is met, because poll() wakes up for each: a join ends,   *)
(* with a connection or after its time, the LED stops blinking while the   *)
(* program runs, and after provisioning Improv ends when no client is      *)
(* connected.                                                              *)
DeadlinesMet ==
  /\ joinId ~> (~joinId \/ Stopped)
  /\ identifyEnd ~> (~identifyEnd \/ Stopped)
  /\ doneAt ~> (~doneAt \/ conn # NoConn \/ Stopped)

(* While Improv is on and nobody is connected, the board advertises, with  *)
(* the current state: set_advertising() loses no mark for good, although   *)
(* it clears adv_dirty after packets that may have set it.                 *)
Discoverable ==
  (improv /\ conn = NoConn)
    ~> ((ctrlAdv /\ ctrlData = state) \/ conn # NoConn \/ ~improv \/ Stopped)

=============================================================================
