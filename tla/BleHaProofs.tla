---------------------------- MODULE BleHaProofs ----------------------------
(***************************************************************************)
(* Theorems about ble-ha: BleHa, for every number of buffers, links,       *)
(* connections, writes and late answers; ApiProxy, for every size of its   *)
(* buffers and every event; Gatt, for every size of ACL buffers and every  *)
(* length of the values.                                                   *)
(***************************************************************************)
EXTENDS BleHa, Gatt, ApiProxy, SequenceTheorems, FiniteSetTheorems, TLAPS

Ops == {"none", "data", "name", "param", "enable", "scan_param", "scan_enable"}
States == {"authorized", "provisioning", "provisioned"}
Errors == {"none", "invalid", "other", "connect"}
Places == {"top", "scan", "poll", "clients", "join", "identify", "done", "check",
           "wait", "exit_scan", "exit_adv", "exit_join", "stopped"}

(* Where the program goes on after a command: never right to the end.      *)
Returns == {"top", "scan", "poll", "check", "exit_adv", "exit_join"}

OfClient == {"connected", "disconnected", "completed", "acl"}
HciAnswers == {"answer", "refused"}
Packets == [t : OfClient, h : Handles, x : Writes \cup {""}]
           \cup [t : HciAnswers, h : {0}, x : Ops]

CtrlTypes ==
  /\ ctrlAdv \in BOOLEAN /\ links \in SUBSET Handles /\ held \in [Handles -> Nat]
  /\ cmds \in Seq([op : Ops, on : BOOLEAN, data : States]) /\ evts \in Seq(Packets)
  /\ conns \in 0 .. MaxConns /\ timeouts \in Nat

AdapterTypes ==
  /\ conn \in Handles \cup {NoConn} /\ advertising \in BOOLEAN /\ advDirty \in BOOLEAN
  /\ scanning \in BOOLEAN /\ credits \in Nat /\ connSent \in Nat

ImprovTypes ==
  /\ improv \in BOOLEAN /\ state \in States /\ error \in Errors
  /\ rpc \in Seq([h : Handles, x : Fragments])
  /\ joinId \in BOOLEAN /\ doneAt \in BOOLEAN /\ wpaNet \in {"none", "added", "saved"}

LoopTypes ==
  /\ pc \in Places /\ op \in Ops /\ on \in BOOLEAN /\ ret \in Returns
  /\ subs \in BOOLEAN

TypeOK == CtrlTypes /\ AdapterTypes /\ ImprovTypes /\ LoopTypes

-----------------------------------------------------------------------------
(* What the operators of the program do, whatever their inputs.            *)

(* k packets went to the adapter.                                          *)
SentAcl(k) ==
  /\ credits' = credits - k /\ connSent' = connSent + k
  /\ held' = IF conn \in links THEN [held EXCEPT ![conn] = @ + k] ELSE held
  /\ conn = NoConn => k = 0

SomeSent == \E k \in 0 .. credits : SentAcl(k)

LEMMA AclSendEffect ==
  ASSUME TypeOK, NEW n \in Nat, AclSend(n)
  PROVE  SomeSent
<1> DEFINE k == IF conn = NoConn THEN 0 ELSE IF n < credits THEN n ELSE credits
<1>1. credits \in Nat
  BY DEF TypeOK, AdapterTypes
<1>2. k \in 0 .. credits
  BY <1>1
<1>3. SentAcl(k)
  BY DEF SentAcl, AclSend
<1> QED BY <1>2, <1>3 DEF SomeSent

(* Nothing was sent.                                                       *)
LEMMA NoneSent ==
  ASSUME TypeOK, UNCHANGED <<credits, connSent, held>>
  PROVE  SomeSent
<1>1. credits \in Nat /\ connSent \in Nat /\ held \in [Handles -> Nat]
      /\ links \in SUBSET Handles
  BY DEF TypeOK, AdapterTypes, CtrlTypes
<1>2. SentAcl(0)
  BY <1>1 DEF SentAcl
<1> QED BY <1>1, <1>2 DEF SomeSent

Changes == [state : States, error : Errors, dirty : BOOLEAN, sends : Nat]

LEMMA NowType == TypeOK => Now \in Changes /\ Now.state = state
BY DEF TypeOK, AdapterTypes, ImprovTypes, Now, Changes

LEMMA NotifyType ==
  ASSUME NEW r \in Changes, NEW c
  PROVE  Notify(r, c) \in Changes /\ Notify(r, c).state = r.state
BY DEF Changes, Notify

LEMMA SetStateType ==
  ASSUME NEW r \in Changes, NEW st \in States, NEW err \in Errors
  PROVE  set_state(r, st, err) \in Changes /\ set_state(r, st, err).state = st
<1> DEFINE e == IF err = r.error THEN r ELSE [Notify(r, "error") EXCEPT !.error = err]
<1>1. e \in Changes
  BY NotifyType DEF Changes
<1>2. Notify(e, "state") \in Changes
  BY <1>1, NotifyType
<1> QED BY <1>1, <1>2 DEF set_state, Changes

LEMMA ApplyEffect ==
  ASSUME TypeOK, NEW r \in Changes, NEW rsp \in {0, 1}, Apply(r, rsp)
  PROVE  /\ state' = r.state /\ state' \in States /\ error' \in Errors
         /\ advDirty' \in BOOLEAN /\ SomeSent
<1>1. r.sends + rsp \in Nat
  BY DEF Changes
<1>2. AclSend(r.sends + rsp)
  BY DEF Apply
<1> QED BY <1>1, <1>2, AclSendEffect DEF Apply, Changes

(* A network that has not connected is one of a join that goes on.         *)
WifiInv == wpaNet = "added" => joinId /\ state = "provisioning"

(* A part of a packet that the client of e has written.                    *)
Part(e) == [h |-> e.h, x |-> e.x]

(* What a write of a client may do to the state of Improv.                 *)
Written ==
  /\ state' \in States /\ error' \in Errors /\ advDirty' \in BOOLEAN
  /\ joinId' \in BOOLEAN /\ wpaNet' \in {"none", "added", "saved"}
  /\ WifiInv => WifiInv'

LEMMA WifiEffect ==
  ASSUME TypeOK, NEW rsp \in {0, 1}, CommandWifi(rsp)
  PROVE  SomeSent /\ Written
<1> DEFINE r == set_state(Now, state, "none")
           p == set_state(r, "provisioning", "none")
           q == set_state(p, "authorized", "other")
<1>1. state \in States /\ wpaNet \in {"none", "added", "saved"} /\ joinId \in BOOLEAN
  BY DEF TypeOK, ImprovTypes
<1>2. r \in Changes /\ r.state = state
  BY <1>1, NowType, SetStateType DEF Errors
<1>3. p \in Changes /\ p.state = "provisioning"
  BY <1>2, SetStateType DEF Errors, States
<1>4. q \in Changes /\ q.state = "authorized"
  BY <1>3, SetStateType DEF Errors, States
<1>5. CASE state # "authorized"
  <2>1. Apply(r, rsp) /\ UNCHANGED <<joinId, wpaNet>>
    BY <1>5 DEF CommandWifi
  <2> QED BY <2>1, <1>1, <1>2, ApplyEffect DEF Written, WifiInv
<1>6. CASE state = "authorized" /\ Apply(p, rsp) /\ wpa_join(TRUE)
  BY <1>6, <1>3, ApplyEffect DEF Written, WifiInv, wpa_join
<1>7. CASE state = "authorized" /\ Apply(q, rsp) /\ wpa_join(FALSE)
  <2>1. state' = "authorized" /\ state' \in States /\ error' \in Errors
        /\ advDirty' \in BOOLEAN /\ SomeSent
    BY <1>7, <1>4, ApplyEffect
  <2>2. joinId' = FALSE /\ wpaNet' = wpaNet
    BY <1>7 DEF wpa_join
  <2> QED BY <1>1, <1>7, <2>1, <2>2 DEF Written, WifiInv
<1> QED BY <1>5, <1>6, <1>7 DEF CommandWifi

LEMMA RpcEffect ==
  ASSUME TypeOK, NEW w, NEW rsp \in {0, 1}, rpc_write(w, rsp)
  PROVE  SomeSent /\ Written /\ rpc' \in {<<>>, Append(rpc, w)}
<1>1. state \in States /\ wpaNet \in {"none", "added", "saved"} /\ joinId \in BOOLEAN
  BY DEF TypeOK, ImprovTypes
<1>2. Now \in Changes /\ Now.state = state
  BY NowType
<1>3. \A err \in Errors : /\ set_state(Now, state, err) \in Changes
                          /\ set_state(Now, state, err).state = state
  BY <1>1, <1>2, SetStateType
<1> DEFINE n == Notify(set_state(Now, state, "none"), "result")
<1>4. n \in Changes /\ n.state = state
  BY <1>3, NotifyType DEF Errors
<1>5. rpc' \in {<<>>, Append(rpc, w)}
  BY DEF rpc_write
<1>6. CASE \E r \in Changes : /\ r.state = state /\ Apply(r, rsp)
                              /\ UNCHANGED <<joinId, wpaNet>>
  BY <1>1, <1>5, <1>6, ApplyEffect DEF Written, WifiInv
<1>7. CASE CommandWifi(rsp)
  BY <1>5, <1>7, WifiEffect
<1>8. \/ CommandWifi(rsp)
      \/ /\ \/ Apply(set_state(Now, state, "invalid"), rsp) \/ Apply(Now, rsp)
            \/ Apply(set_state(Now, state, "none"), rsp) \/ Apply(n, rsp)
         /\ UNCHANGED <<joinId, wpaNet>>
  BY Zenon DEF rpc_write
<1> QED BY <1>2, <1>3, <1>4, <1>6, <1>7, <1>8 DEF Errors

LEMMA WriteEffect ==
  ASSUME TypeOK, NEW e \in Packets, e.t = "acl", HandleAcl(e)
  PROVE  /\ SomeSent /\ Written /\ UNCHANGED <<conn, advertising>>
         /\ \/ rpc' \in {rpc, <<>>}
            \/ rpc' = Append(rpc, Part(e)) /\ Part(e) \in [h : Handles, x : Fragments]
<1>1. PICK rsp \in {0, 1} : AttWrite(e, rsp)
  BY DEF HandleAcl
<1>2. CASE e.x \in Fragments /\ rpc_write(Part(e), rsp) /\ UNCHANGED <<conn, advertising>>
  <2>1. SomeSent /\ Written /\ rpc' \in {<<>>, Append(rpc, Part(e))}
    BY <1>2, RpcEffect
  <2>2. Part(e) \in [h : Handles, x : Fragments]
    BY <1>2 DEF Part, Packets, HciAnswers
  <2> QED BY <1>2, <2>1, <2>2
<1>3. CASE /\ AclSend(rsp)
           /\ UNCHANGED <<conn, advertising, advDirty, state, error, rpc, joinId, wpaNet>>
  <2>1. SomeSent
    BY <1>3, AclSendEffect
  <2>2. Written
    BY <1>3 DEF Written, TypeOK, ImprovTypes, AdapterTypes, WifiInv
  <2> QED BY <1>3, <2>1, <2>2
<1> QED BY <1>1, <1>2, <1>3 DEF AttWrite, Part

(***************************************************************************)
(* A step of handle_packet(): one of five, by the kind of the packet.      *)
(***************************************************************************)
Ignored == UNCHANGED <<conn, advertising, rpc, credits, connSent, held>>
OnWrite(e) ==
  /\ SomeSent /\ UNCHANGED <<conn, advertising>>
  /\ \/ rpc' \in {rpc, <<>>}
     \/ rpc' = Append(rpc, Part(e)) /\ Part(e) \in [h : Handles, x : Fragments]

LEMMA PacketEffect ==
  ASSUME TypeOK, handle_packet
  PROVE  /\ evts # <<>> /\ evts' = Tail(evts) /\ Head(evts) \in Packets
         /\ \/ Head(evts).t = "connected" /\ ConnectionComplete(Head(evts).h)
            \/ Head(evts).t = "disconnected" /\ DisconnectionComplete(Head(evts).h)
            \/ Head(evts).t = "completed" /\ CompletedPackets
            \/ Head(evts).t = "acl" /\ OnWrite(Head(evts))
            \/ Head(evts).t \in HciAnswers /\ Ignored
         /\ Written
         /\ UNCHANGED <<ctrlAdv, links, cmds, scanning, improv, doneAt, conns, timeouts,
                        second>>
<1>1. evts # <<>> /\ evts' = Tail(evts)
  BY DEF handle_packet
<1>2. Head(evts) \in Packets
  BY <1>1 DEF TypeOK, CtrlTypes
<1>3. ImprovTypes /\ AdapterTypes
  BY DEF TypeOK
<1>4. UNCHANGED <<ctrlAdv, links, cmds, scanning, improv, doneAt, conns, timeouts, second>>
  BY DEF handle_packet, histVars
<1>5. CASE Head(evts).t = "connected" /\ ConnectionComplete(Head(evts).h)
  BY <1>1, <1>2, <1>3, <1>4, <1>5
     DEF ConnectionComplete, Written, ImprovTypes, AdapterTypes, WifiInv
<1>6. CASE Head(evts).t = "disconnected" /\ DisconnectionComplete(Head(evts).h)
  BY <1>1, <1>2, <1>3, <1>4, <1>6
     DEF DisconnectionComplete, Written, ImprovTypes, AdapterTypes, WifiInv
<1>7. CASE Head(evts).t = "completed" /\ CompletedPackets
  BY <1>1, <1>2, <1>3, <1>4, <1>7
     DEF CompletedPackets, Written, ImprovTypes, AdapterTypes, WifiInv
<1>8. CASE Head(evts).t = "acl" /\ HandleAcl(Head(evts))
  BY <1>1, <1>2, <1>4, <1>8, WriteEffect DEF OnWrite
<1>9. CASE /\ Head(evts).t \in HciAnswers
           /\ UNCHANGED <<conn, advertising, advDirty, rpc, held, credits, connSent, state,
                          error, joinId, wpaNet>>
  BY <1>1, <1>2, <1>3, <1>4, <1>9 DEF Ignored, Written, ImprovTypes, AdapterTypes, WifiInv
<1> QED BY <1>5, <1>6, <1>7, <1>8, <1>9 DEF handle_packet, HciAnswers

(* The place of the program is one of its places, and its command queue is *)
(* typed, after each way a call of the adapter goes on.                    *)
CallTypes ==
  /\ cmds' \in Seq([op : Ops, on : BOOLEAN, data : States])
  /\ pc' \in Places /\ op' \in Ops /\ on' \in BOOLEAN /\ ret' \in Returns

LEMMA IssueTypes ==
  ASSUME TypeOK, NEW o \in Ops, NEW v \in BOOLEAN, NEW r \in Returns, Issue(o, v, r)
  PROVE  CallTypes
BY DEF Issue, CallTypes, TypeOK, CtrlTypes, ImprovTypes, Places

LEMMA ReturnTypes ==
  ASSUME TypeOK, NEW r \in Places, Return(r), UNCHANGED cmds
  PROVE  CallTypes
BY DEF Return, CallTypes, TypeOK, CtrlTypes, Places, Returns, Ops

LEMMA SetAdvertisingTypes ==
  ASSUME TypeOK, NEW v \in BOOLEAN, NEW r \in Returns, set_advertising(v, r)
  PROVE  CallTypes /\ advDirty' \in BOOLEAN
<1>1. advDirty \in BOOLEAN /\ r \in Places
  BY DEF TypeOK, AdapterTypes, Returns, Places
<1>2. CASE (\E o \in Ops : Issue(o, v, r)) /\ UNCHANGED advDirty
  BY <1>1, <1>2, IssueTypes
<1>3. CASE advDirty' = FALSE /\ Return(r) /\ UNCHANGED cmds
  BY <1>1, <1>3, ReturnTypes
<1> QED BY <1>2, <1>3 DEF set_advertising, Ops

LEMMA SetScanTypes ==
  ASSUME TypeOK, NEW v \in BOOLEAN, NEW r \in Returns, set_scan(v, r)
  PROVE  CallTypes
<1>1. r \in Places
  BY DEF Returns, Places
<1>2. CASE \E o \in Ops : Issue(o, v, r)
  BY <1>2, IssueTypes
<1>3. CASE Return(r) /\ UNCHANGED cmds
  BY <1>1, <1>3, ReturnTypes
<1> QED BY <1>2, <1>3 DEF set_scan, Ops

LEMMA AfterCmdTypes ==
  ASSUME TypeOK, NEW ok \in BOOLEAN, AfterCmd(ok)
  PROVE  CallTypes /\ advDirty' \in BOOLEAN /\ advertising' \in BOOLEAN
         /\ scanning' \in BOOLEAN
<1>1. /\ advDirty \in BOOLEAN /\ advertising \in BOOLEAN /\ scanning \in BOOLEAN
      /\ on \in BOOLEAN /\ ret \in Returns /\ ret \in Places
  BY DEF TypeOK, AdapterTypes, LoopTypes, Returns, Places
<1>2. (\E o \in Ops : Issue(o, on, ret)) \/ (Return(ret) /\ UNCHANGED cmds)
  BY DEF AfterCmd, Ops
<1>3. CallTypes
  BY <1>1, <1>2, IssueTypes, ReturnTypes
<1>4. advDirty' \in BOOLEAN /\ advertising' \in BOOLEAN /\ scanning' \in BOOLEAN
  BY <1>1 DEF AfterCmd
<1> QED BY <1>3, <1>4

LEMMA EmptyIsSeq == \A S : <<>> \in Seq(S)
OBVIOUS

LEMMA AppendIsSeq == \A S : \A s \in Seq(S) : \A e \in S : Append(s, e) \in Seq(S)
OBVIOUS

LEMMA TailIsSeq ==
  \A S : \A s \in Seq(S) : s # <<>> => Head(s) \in S /\ Tail(s) \in Seq(S)
OBVIOUS

LEMMA InitTypes == Init => TypeOK
<1> SUFFICES ASSUME Init PROVE TypeOK
  OBVIOUS
<1>1. CtrlTypes
  <2>1. held \in [Handles -> Nat] /\ links \in SUBSET Handles
    BY DEF Init
  <2>2. cmds = <<>> /\ evts = <<>> /\ conns = 0 /\ timeouts = 0 /\ ctrlAdv \in BOOLEAN
    BY DEF Init
  <2>3. MaxConns \in Nat
    BY BleAssumption
  <2>4. conns \in 0 .. MaxConns /\ timeouts \in Nat
    BY <2>2, <2>3
  <2> QED BY <2>1, <2>2, <2>4, EmptyIsSeq DEF CtrlTypes
<1>2. AdapterTypes
  BY BleAssumption DEF Init, AdapterTypes
<1>3. ImprovTypes
  BY EmptyIsSeq DEF Init, ImprovTypes, States, Errors
<1>4. LoopTypes
  BY DEF Init, LoopTypes, Places, Returns, Ops
<1> QED BY <1>1, <1>2, <1>3, <1>4 DEF TypeOK

(* The types after a step of handle_packet().                              *)
LEMMA PacketTypes ==
  ASSUME TypeOK, handle_packet
  PROVE  CtrlTypes' /\ AdapterTypes' /\ ImprovTypes'
<1>1. CtrlTypes /\ AdapterTypes /\ ImprovTypes
  BY DEF TypeOK
<1> DEFINE e == Head(evts)
<1>2. /\ evts # <<>> /\ evts' = Tail(evts) /\ e \in Packets
      /\ \/ e.t = "connected" /\ ConnectionComplete(e.h)
         \/ e.t = "disconnected" /\ DisconnectionComplete(e.h)
         \/ e.t = "completed" /\ CompletedPackets
         \/ e.t = "acl" /\ OnWrite(e)
         \/ e.t \in HciAnswers /\ Ignored
      /\ Written
      /\ UNCHANGED <<ctrlAdv, links, cmds, scanning, improv, doneAt, conns, timeouts,
                     second>>
  BY PacketEffect
<1>3. evts' \in Seq(Packets)
  BY <1>1, <1>2 DEF CtrlTypes
<1>4. /\ conn' \in Handles \cup {NoConn} /\ advertising' \in BOOLEAN
      /\ rpc' \in Seq([h : Handles, x : Fragments]) /\ credits' \in Nat
      /\ connSent' \in Nat /\ held' \in [Handles -> Nat]
  <2>1. CASE e.t = "connected" /\ ConnectionComplete(e.h)
    <3>1. e.h \in Handles
      BY <1>2, <2>1 DEF Packets, HciAnswers
    <3> QED BY <1>1, <2>1, <3>1, EmptyIsSeq DEF ConnectionComplete, CtrlTypes, AdapterTypes
  <2>2. CASE DisconnectionComplete(e.h)
    BY <1>1, <2>2 DEF DisconnectionComplete, CtrlTypes, AdapterTypes, ImprovTypes, NoConn
  <2>3. CASE CompletedPackets
    BY <1>1, <2>3 DEF CompletedPackets, CtrlTypes, AdapterTypes, ImprovTypes
  <2>4. CASE OnWrite(e)
    <3>1. PICK k \in 0 .. credits : SentAcl(k)
      BY <2>4 DEF OnWrite, SomeSent
    <3>2. credits' \in Nat /\ connSent' \in Nat /\ held' \in [Handles -> Nat]
      BY <1>1, <3>1 DEF SentAcl, CtrlTypes, AdapterTypes
    <3>3. rpc' \in Seq([h : Handles, x : Fragments])
      <4> DEFINE R == [h : Handles, x : Fragments]
      <4>1. rpc \in Seq(R)
        BY <1>1 DEF ImprovTypes
      <4>2. rpc' = rpc \/ rpc' = <<>> \/ (rpc' = Append(rpc, Part(e)) /\ Part(e) \in R)
        BY <2>4 DEF OnWrite
      <4> HIDE DEF R
      <4>3. rpc' \in Seq(R)
        BY <4>1, <4>2, EmptyIsSeq, AppendIsSeq
      <4> QED BY <4>3 DEF R
    <3> QED BY <1>1, <2>4, <3>2, <3>3 DEF OnWrite, AdapterTypes
  <2>5. CASE Ignored
    BY <1>1, <2>5 DEF Ignored, CtrlTypes, AdapterTypes, ImprovTypes
  <2> QED BY <1>2, <2>1, <2>2, <2>3, <2>4, <2>5
<1> QED BY <1>1, <1>2, <1>3, <1>4 DEF CtrlTypes, AdapterTypes, ImprovTypes, Written

(* The types after a step of the program that sends notifications.         *)
LEMMA SendTypes ==
  ASSUME TypeOK, SomeSent
  PROVE  credits' \in Nat /\ connSent' \in Nat /\ held' \in [Handles -> Nat]
<1>1. PICK k \in 0 .. credits : SentAcl(k)
  BY DEF SomeSent
<1> QED BY <1>1 DEF SentAcl, TypeOK, CtrlTypes, AdapterTypes

(* What the two ends of a join do.                                         *)
LEMMA JoinEffect ==
  ASSUME TypeOK, JoinConnected \/ JoinLate
  PROVE  /\ SomeSent /\ joinId' = FALSE /\ doneAt' \in BOOLEAN
         /\ wpaNet' \in {"none", "saved"} /\ state' \in States /\ error' \in Errors
         /\ advDirty' \in BOOLEAN /\ pc = "join" /\ pc' = "identify"
         /\ UNCHANGED <<Rest, cmds, improv, op, on, ret>>
<1>1. /\ Notify(Now, "result") \in Changes /\ Now \in Changes
  BY NowType, NotifyType
<1>2. CASE JoinConnected
  <2> DEFINE r == set_state(Notify(Now, "result"), "provisioned", "none")
  <2>1. r \in Changes
    BY <1>1, SetStateType DEF States, Errors
  <2>2. Apply(r, 0)
    BY <1>2 DEF JoinConnected
  <2>3. state' \in States /\ error' \in Errors /\ advDirty' \in BOOLEAN /\ SomeSent
    BY <2>1, <2>2, ApplyEffect
  <2> QED BY <1>2, <2>3 DEF JoinConnected, wpa_finish
<1>3. CASE JoinLate
  <2> DEFINE r == set_state(Now, "authorized", "connect")
  <2>1. r \in Changes
    BY <1>1, SetStateType DEF States, Errors
  <2>2. Apply(r, 0)
    BY <1>3 DEF JoinLate
  <2>3. state' \in States /\ error' \in Errors /\ advDirty' \in BOOLEAN /\ SomeSent
    BY <2>1, <2>2, ApplyEffect
  <2> QED BY <1>3, <2>3 DEF JoinLate, wpa_finish, TypeOK, ImprovTypes
<1> QED BY <1>2, <1>3

LEMMA StepTypes == TypeOK /\ [Next]_vars => TypeOK'
<1> SUFFICES ASSUME TypeOK, [Next]_vars PROVE TypeOK'
  OBVIOUS
<1>1. CtrlTypes /\ AdapterTypes /\ ImprovTypes /\ LoopTypes
  BY DEF TypeOK
<1> USE DEF TypeOK
<1>2. CASE UNCHANGED vars
  BY <1>1, <1>2 DEF vars, ctrlVars, adapterVars, gattVars, improvVars, loopVars, wpaVars,
                    histVars, CtrlTypes, AdapterTypes, ImprovTypes, LoopTypes
<1>3. CASE CmdAnswer \/ CmdTimeout
  <2>1. AfterCmd(Head(evts).t = "answer") \/ AfterCmd(FALSE)
    BY <1>3 DEF CmdAnswer, CmdTimeout
  <2>2. CallTypes /\ advDirty' \in BOOLEAN /\ advertising' \in BOOLEAN /\ scanning' \in BOOLEAN
    BY <2>1, AfterCmdTypes
  <2>3. evts' \in Seq(Packets) /\ timeouts' \in Nat
    <3>1. evts' = evts \/ (evts # <<>> /\ evts' = Tail(evts))
      BY <1>3 DEF CmdAnswer, CmdTimeout, IsAnswer
    <3>2. timeouts' = timeouts \/ timeouts' = timeouts + 1
      BY <1>3 DEF CmdAnswer, CmdTimeout, histVars
    <3>3. evts \in Seq(Packets) /\ timeouts \in Nat
      BY <1>1 DEF CtrlTypes
    <3> QED BY <3>1, <3>2, <3>3, TailIsSeq
  <2>4. UNCHANGED <<ctrlAdv, links, held, conn, credits, connSent, gattVars, improvVars,
                    subs, wpaVars, conns>>
    BY <1>3 DEF CmdAnswer, CmdTimeout, histVars
  <2> QED BY <1>1, <2>2, <2>3, <2>4
          DEF CallTypes, CtrlTypes, AdapterTypes, ImprovTypes, LoopTypes, gattVars,
              improvVars, wpaVars
<1>4. CASE CmdOther
  BY <1>1, <1>4, PacketTypes DEF CmdOther, loopVars, LoopTypes
<1>5. CASE PollPacket
  BY <1>1, <1>5, PacketTypes DEF PollPacket, LoopTypes, Places
<1>6. CASE JoinConnected \/ JoinLate
  <2>1. /\ SomeSent /\ joinId' = FALSE /\ doneAt' \in BOOLEAN
        /\ wpaNet' \in {"none", "saved"} /\ state' \in States /\ error' \in Errors
        /\ advDirty' \in BOOLEAN /\ pc' = "identify"
        /\ UNCHANGED <<Rest, cmds, improv, op, on, ret>>
    BY <1>6, JoinEffect
  <2>2. credits' \in Nat /\ connSent' \in Nat /\ held' \in [Handles -> Nat]
    BY <2>1, SendTypes
  <2> QED BY <1>1, <2>1, <2>2 DEF Rest, histVars, CtrlTypes, AdapterTypes, ImprovTypes,
                                  LoopTypes, Places
<1> DEFINE Same == UNCHANGED <<ctrlAdv, links, held, evts, conns, timeouts, conn, advertising,
                               scanning, credits, connSent, state, error, rpc, subs>>
<1>7. CASE \/ LoopTop \/ DoneDue \/ NetworkFound \/ ExitAdv
  <2>1. CallTypes /\ advDirty' \in BOOLEAN
    <3>1. advDirty \in BOOLEAN
      BY <1>1 DEF AdapterTypes
    <3>2. CASE \E v \in BOOLEAN, r \in Returns : set_advertising(v, r)
      BY <3>2, SetAdvertisingTypes
    <3>3. CASE (\E r \in Places : Return(r)) /\ UNCHANGED <<cmds, advDirty>>
      BY <3>1, <3>3, ReturnTypes
    <3> QED BY <1>7, <3>2, <3>3
            DEF LoopTop, DoneDue, NetworkFound, ExitAdv, Returns, Places
  <2>2. Same
    BY <1>7 DEF LoopTop, DoneDue, NetworkFound, ExitAdv, Rest, histVars
  <2>3. improv' \in BOOLEAN /\ doneAt' \in BOOLEAN /\ UNCHANGED <<joinId, wpaNet>>
    BY <1>1, <1>7 DEF LoopTop, DoneDue, NetworkFound, ExitAdv, improvVars, ImprovTypes
  <2> QED BY <1>1, <2>1, <2>2, <2>3
          DEF CallTypes, CtrlTypes, AdapterTypes, ImprovTypes, LoopTypes
<1>8. CASE LoopScan \/ ExitScan \/ ExitJoin
  <2>1. CallTypes
    <3>1. CASE \E v \in BOOLEAN, r \in Returns : set_scan(v, r)
      BY <3>1, SetScanTypes
    <3>2. CASE (\E r \in Places : Return(r)) /\ UNCHANGED <<cmds, advDirty>>
      BY <3>2, ReturnTypes
    <3> QED BY <1>1, <1>8, <3>1, <3>2
            DEF LoopScan, ExitScan, ExitJoin, Returns, Places, LoopTypes
  <2>2. Same /\ UNCHANGED advDirty
    BY <1>8 DEF LoopScan, ExitScan, ExitJoin, Rest, histVars
  <2>3. UNCHANGED <<improv, joinId, doneAt>> /\ wpaNet' \in {"none", "added", "saved"}
    BY <1>1, <1>8 DEF LoopScan, ExitScan, ExitJoin, improvVars, ImprovTypes, wpa_finish
  <2> QED BY <1>1, <2>1, <2>2, <2>3
          DEF CallTypes, CtrlTypes, AdapterTypes, ImprovTypes, LoopTypes
<1>9. CASE PollOther \/ PollError \/ LoopClients \/ IdentifyEnds \/ NotDue \/ on_signal
  <2>1. pc' \in Places /\ op' \in Ops /\ on' \in BOOLEAN /\ ret' \in Returns
        /\ subs' \in BOOLEAN
    BY <1>1, <1>9 DEF PollOther, PollError, LoopClients, IdentifyEnds, NotDue, on_signal,
                      GoOn, Return, Rest, LoopTypes, Places, Returns, Ops
  <2>2. timeouts' \in Nat
    <3>1. timeouts' = timeouts \/ timeouts' = timeouts + 1
      BY <1>9 DEF PollOther, PollError, LoopClients, IdentifyEnds, NotDue, on_signal,
                  GoOn, Rest, histVars
    <3>2. timeouts \in Nat
      BY <1>1 DEF CtrlTypes
    <3> QED BY <3>1, <3>2
  <2>3. UNCHANGED <<ctrlAdv, links, held, evts, cmds, conns, conn, advertising, scanning,
                    advDirty, credits, connSent, state, error, rpc, improv, joinId, doneAt,
                    wpaNet>>
    BY <1>9 DEF PollOther, PollError, LoopClients, IdentifyEnds, NotDue, on_signal,
                GoOn, Rest, histVars, ctrlVars, adapterVars, gattVars, improvVars, wpaVars
  <2> QED BY <1>1, <2>1, <2>2, <2>3 DEF CtrlTypes, AdapterTypes, ImprovTypes, LoopTypes
<1>10. CASE \/ AdapterCommand \/ ClientConnects \/ ClientGoes \/ ClientWrites
            \/ PacketSent \/ NetworkAdded
  <2>1. UNCHANGED Outside /\ UNCHANGED <<wpaNet, timeouts>>
    BY <1>10 DEF AdapterCommand, ClientConnects, ClientGoes, ClientWrites, PacketSent,
                 NetworkAdded, wpaVars, histVars
  <2>2. AdapterTypes' /\ ImprovTypes' /\ LoopTypes'
    BY <1>1, <2>1 DEF Outside, adapterVars, gattVars, improvVars, loopVars, AdapterTypes,
                      ImprovTypes, LoopTypes
  <2>3. MaxConns \in Nat /\ Writes \subseteq Cccds \cup Fragments
    BY BleAssumption
  <2>4. CASE AdapterCommand
    <3> DEFINE c == Head(cmds)
    <3>1. c \in [op : Ops, on : BOOLEAN, data : States]
          /\ cmds' \in Seq([op : Ops, on : BOOLEAN, data : States])
      <4>1. cmds # <<>> /\ cmds' = Tail(cmds)
        BY <2>4 DEF AdapterCommand
      <4>2. cmds \in Seq([op : Ops, on : BOOLEAN, data : States])
        BY <1>1 DEF CtrlTypes
      <4> QED BY <4>1, <4>2, TailIsSeq
    <3>2. ctrlAdv' \in BOOLEAN
      BY <1>1, <2>4, <3>1 DEF AdapterCommand, CtrlTypes
    <3>3. PICK t \in HciAnswers : evts' = Append(evts, Event(t, 0, c.op))
      BY <2>4 DEF AdapterCommand, HciAnswers
    <3>4. Event(t, 0, c.op) \in Packets
      BY <3>1 DEF Event, Packets
    <3>5. evts' \in Seq(Packets)
      BY <1>1, <3>3, <3>4, AppendIsSeq DEF CtrlTypes
    <3>6. UNCHANGED <<links, held, conns, timeouts>>
      BY <2>4 DEF AdapterCommand, histVars
    <3> QED BY <1>1, <2>2, <3>1, <3>2, <3>5, <3>6 DEF CtrlTypes
  <2>5. CASE ClientConnects
    <3>1. conns + 1 \in Handles /\ conns' \in 0 .. MaxConns
      <4>1. conns < MaxConns /\ conns' = conns + 1
        BY <2>5 DEF ClientConnects
      <4>2. conns \in 0 .. MaxConns
        BY <1>1 DEF CtrlTypes
      <4> QED BY <2>3, <4>1, <4>2 DEF Handles
    <3>2. Event("connected", conns + 1, "") \in Packets
      BY <3>1 DEF Event, Packets, OfClient
    <3>3. evts' \in Seq(Packets)
      BY <1>1, <2>5, <3>2, AppendIsSeq DEF ClientConnects, CtrlTypes
    <3>4. ctrlAdv' \in BOOLEAN /\ links' \in SUBSET Handles
      BY <1>1, <2>5, <3>1 DEF ClientConnects, CtrlTypes
    <3>5. UNCHANGED <<held, cmds, timeouts>>
      BY <2>5 DEF ClientConnects
    <3> QED BY <1>1, <2>2, <3>1, <3>3, <3>4, <3>5 DEF CtrlTypes
  <2>6. CASE ClientGoes \/ PacketSent
    <3>1. PICK h \in links, t \in {"disconnected", "completed"} :
             evts' = Append(evts, Event(t, h, ""))
      BY <2>6 DEF ClientGoes, PacketSent
    <3>2. Event(t, h, "") \in Packets
      BY <1>1, <3>1 DEF Event, Packets, OfClient, CtrlTypes
    <3>3. evts' \in Seq(Packets)
      BY <1>1, <3>1, <3>2, AppendIsSeq DEF CtrlTypes
    <3>4. links' \in SUBSET Handles /\ held' \in [Handles -> Nat]
      <4>1. held \in [Handles -> Nat] /\ links \in SUBSET Handles
        BY <1>1 DEF CtrlTypes
      <4>2. CASE ClientGoes
        <5>1. PICK g \in links : links' = links \ {g} /\ held' = [held EXCEPT ![g] = 0]
          BY <4>2 DEF ClientGoes
        <5> QED BY <4>1, <5>1
      <4>3. CASE PacketSent
        <5>1. PICK g \in links : held[g] > 0 /\ held' = [held EXCEPT ![g] = @ - 1]
                                 /\ links' = links
          BY <4>3 DEF PacketSent
        <5>2. held[g] \in Nat /\ held[g] - 1 \in Nat
          BY <4>1, <5>1
        <5> QED BY <4>1, <5>1, <5>2
      <4> QED BY <2>6, <4>2, <4>3
    <3>5. UNCHANGED <<ctrlAdv, cmds, conns, timeouts>>
      BY <2>6 DEF ClientGoes, PacketSent, histVars
    <3> QED BY <1>1, <2>2, <3>3, <3>4, <3>5 DEF CtrlTypes
  <2>7. CASE ClientWrites
    <3>1. PICK h \in links, w \in Writes : evts' = Append(evts, Event("acl", h, w))
      BY <2>7 DEF ClientWrites
    <3>2. Event("acl", h, w) \in Packets
      BY <1>1, <3>1 DEF Event, Packets, OfClient, CtrlTypes
    <3>3. evts' \in Seq(Packets)
      BY <1>1, <3>1, <3>2, AppendIsSeq DEF CtrlTypes
    <3>4. UNCHANGED <<ctrlAdv, links, held, cmds, conns, timeouts>>
      BY <2>7 DEF ClientWrites, ctrlVars
    <3> QED BY <1>1, <2>2, <3>3, <3>4 DEF CtrlTypes
  <2>8. CASE NetworkAdded
    BY <1>1, <2>2, <2>8 DEF NetworkAdded, ctrlVars, histVars, CtrlTypes
  <2> QED BY <1>10, <2>4, <2>5, <2>6, <2>7, <2>8
<1> QED BY <1>2, <1>3, <1>4, <1>5, <1>6, <1>7, <1>8, <1>9, <1>10 DEF Next, InTime, Program

(***************************************************************************)
(* A network of wpa_join() that has not connected is there only while the  *)
(* join goes on, also when a client starts the join while main() already   *)
(* waits for the last commands: no command returns to the end of the       *)
(* program (Returns), so wpa_finish() comes after it.                      *)
(***************************************************************************)
LEMMA StepWifi ==
  TypeOK /\ UnprovenNetworkGoes /\ [Next]_vars => UnprovenNetworkGoes'
<1> SUFFICES ASSUME TypeOK, UnprovenNetworkGoes, [Next]_vars PROVE UnprovenNetworkGoes'
  OBVIOUS
<1>1. /\ ret # "stopped" /\ joinId \in BOOLEAN
  BY DEF TypeOK, LoopTypes, ImprovTypes, Returns
<1>2. CASE UNCHANGED <<wpaNet, joinId, state>> /\ (pc' = "stopped" => pc = "stopped")
  BY <1>2 DEF UnprovenNetworkGoes
<1>3. CASE handle_packet /\ pc' # "stopped"
  <2>1. WifiInv => WifiInv'
    BY <1>3, PacketEffect DEF Written
  <2> QED BY <1>3, <2>1 DEF WifiInv, UnprovenNetworkGoes
<1>4. CASE JoinConnected \/ JoinLate
  BY <1>4, JoinEffect DEF UnprovenNetworkGoes
<1>5. CASE ExitJoin
  BY <1>1, <1>5 DEF ExitJoin, wpa_finish, UnprovenNetworkGoes
<1>6. CASE CmdOther \/ PollPacket
  BY <1>3, <1>6 DEF CmdOther, PollPacket, loopVars
<1>7. CASE CmdAnswer \/ CmdTimeout
  <2>1. pc' = ret \/ pc' = "wait"
    BY <1>7 DEF CmdAnswer, CmdTimeout, AfterCmd, Issue, Return
  <2>2. UNCHANGED <<wpaNet, joinId, state>>
    BY <1>7 DEF CmdAnswer, CmdTimeout, gattVars, improvVars, wpaVars
  <2> QED BY <1>1, <1>2, <2>1, <2>2
<1>8. CASE LoopTop \/ DoneDue \/ NetworkFound \/ ExitAdv \/ LoopScan \/ ExitScan
  <2>1. pc' # "stopped"
    BY <1>8 DEF LoopTop, DoneDue, NetworkFound, ExitAdv, LoopScan, ExitScan,
                set_advertising, set_scan, Issue, Return
  <2>2. UNCHANGED <<wpaNet, joinId, state>>
    BY <1>8 DEF LoopTop, DoneDue, NetworkFound, ExitAdv, LoopScan, ExitScan, improvVars
  <2> QED BY <1>2, <2>1, <2>2
<1>9. CASE PollOther \/ PollError \/ LoopClients \/ IdentifyEnds \/ NotDue \/ on_signal
  BY <1>2, <1>9 DEF PollOther, PollError, LoopClients, IdentifyEnds, NotDue, on_signal, GoOn,
                    Return, gattVars, improvVars, wpaVars
<1>10. CASE \/ AdapterCommand \/ ClientConnects \/ ClientGoes \/ ClientWrites
            \/ PacketSent \/ NetworkAdded
  <2>1. UNCHANGED Outside /\ UNCHANGED wpaNet
    BY <1>10 DEF AdapterCommand, ClientConnects, ClientGoes, ClientWrites, PacketSent,
                 NetworkAdded, wpaVars
  <2> QED BY <1>2, <2>1 DEF Outside, gattVars, improvVars, loopVars
<1>11. CASE UNCHANGED vars
  BY <1>2, <1>11 DEF vars, gattVars, improvVars, loopVars, wpaVars
<1> QED BY <1>4, <1>5, <1>6, <1>7, <1>8, <1>9, <1>10, <1>11 DEF Next, InTime, Program

(* UnprovenNetworkGoes for every number of clients, writes and late        *)
(* answers: main() removes the network of a join that has not ended.       *)
THEOREM WifiCorrect == Spec => []UnprovenNetworkGoes
<1>1. Init => UnprovenNetworkGoes
  BY DEF Init, UnprovenNetworkGoes
<1> QED BY <1>1, InitTypes, StepTypes, StepWifi, PTL DEF Spec

-----------------------------------------------------------------------------
(***************************************************************************)
(* The air.  As long as no answer was late, one command at a time is with  *)
(* the adapter or its answer is on its way, so that advertising is what    *)
(* the adapter does, up to a connection that the program has not seen yet. *)
(***************************************************************************)
IsReply(i) == evts[i].t \in HciAnswers
NoReply == \A i \in DOMAIN evts : ~IsReply(i)
NoConnect == \A i \in DOMAIN evts : evts[i].t # "connected"

(* The command of the program is with the adapter, or its one answer waits *)
(* to be read, or neither.                                                 *)
CmdInv ==
  /\ pc # "wait" => cmds = <<>> /\ NoReply
  /\ cmds # <<>> => /\ NoReply /\ Tail(cmds) = <<>>
                    /\ Head(cmds).op = op /\ Head(cmds).on = on
  /\ \A i, j \in DOMAIN evts : IsReply(i) /\ IsReply(j) => i = j
  /\ \A i \in DOMAIN evts : IsReply(i) => evts[i].x = op

(* The program knows that the board advertises, or will with the answer it *)
(* waits for, and no client has connected since.                           *)
AdvInv ==
  ctrlAdv =>
    \/ advertising /\ NoConnect
    \/ /\ pc = "wait" /\ op = "enable" /\ on
       /\ \E i \in DOMAIN evts : /\ evts[i].t = "answer"
                                 /\ \A j \in DOMAIN evts : i < j => evts[j].t # "connected"

(* What each command is for.                                               *)
WaitInv ==
  pc = "wait" =>
    /\ op \in {"data", "name", "param"} => on
    /\ op \in {"data", "name", "param", "enable"} /\ on => improv /\ ret = "scan"
    /\ op = "enable" /\ ~on => ret \in {"check", "top", "exit_join"}
    /\ op \in {"scan_param", "scan_enable"} => ret \in {"poll", "exit_adv"}
    /\ op # "none"

(* The command that stops the advertising is on its way to the adapter.    *)
Stopping == pc = "wait" /\ op = "enable" /\ ~on

OffInv == Stopping /\ ctrlAdv => cmds # <<>>

(* After Improv, or once main() has been through set_advertising().        *)
Over == ~improv \/ pc \in {"exit_join", "stopped"} \/ (pc = "wait" /\ ret = "exit_join")

OverInv == Over => ~ctrlAdv \/ Stopping

AirParts == CmdInv /\ AdvInv /\ WaitInv /\ OffInv /\ OverInv
AirInv == timeouts = 0 => AirParts

(* The queues after a packet was read, and after one was added.            *)
LEMMA TailAt ==
  ASSUME NEW S, NEW s \in Seq(S), s # <<>>
  PROVE  /\ Head(s) = s[1] /\ 1 \in DOMAIN s /\ DOMAIN s = 1 .. Len(s) /\ Len(s) \in Nat
         /\ DOMAIN Tail(s) = 1 .. Len(s) - 1
         /\ \A m \in DOMAIN Tail(s) : m \in Nat /\ m + 1 \in DOMAIN s /\ 1 < m + 1
                                        /\ Tail(s)[m] = s[m + 1]
OBVIOUS

LEMMA AppendAt ==
  ASSUME NEW S, NEW s \in Seq(S), NEW e \in S
  PROVE  /\ DOMAIN s = 1 .. Len(s) /\ Len(s) \in Nat
         /\ DOMAIN Append(s, e) = 1 .. Len(s) + 1
         /\ \A m \in DOMAIN s : Append(s, e)[m] = s[m]
         /\ Append(s, e)[Len(s) + 1] = e
OBVIOUS

LEMMA OneCommand == \A c : Append(<<>>, c) # <<>> /\ Head(Append(<<>>, c)) = c
                           /\ Tail(Append(<<>>, c)) = <<>>
OBVIOUS

(* A command goes out when nothing is with the adapter.                    *)
LEMMA AirIssue ==
  ASSUME NEW o, NEW v, NEW r, Issue(o, v, r), cmds = <<>>, NoReply'
  PROVE  CmdInv'
<1>1. /\ cmds' # <<>> /\ Head(cmds').op = op' /\ Head(cmds').on = on' /\ Tail(cmds') = <<>>
      /\ pc' = "wait"
  BY OneCommand DEF Issue
<1> QED BY <1>1 DEF CmdInv, NoReply

LEMMA AirReturn ==
  ASSUME NEW r, Return(r), cmds' = <<>>, NoReply'
  PROVE  CmdInv'
BY DEF CmdInv, NoReply

(* The calls of set_advertising() and set_scan() from the loop and from    *)
(* main(): nothing is on its way, and advertising is true when the board   *)
(* is on the air.                                                          *)
LEMMA AirCalls ==
  ASSUME TypeOK, AirParts,
         LoopTop \/ DoneDue \/ NetworkFound \/ ExitAdv \/ LoopScan \/ ExitScan
  PROVE  AirParts'
<1>1. pc # "wait" /\ UNCHANGED <<evts, ctrlAdv, advertising>>
  BY DEF LoopTop, DoneDue, NetworkFound, ExitAdv, LoopScan, ExitScan, Rest
<1>2. cmds = <<>> /\ NoReply /\ NoReply'
  BY <1>1 DEF AirParts, CmdInv, NoReply, IsReply
<1>3. ctrlAdv => advertising /\ NoConnect
  BY <1>1 DEF AirParts, AdvInv
<1>4. AdvInv'
  BY <1>1, <1>3 DEF AdvInv, NoConnect
<1>5. ~improv => ~ctrlAdv
  BY <1>1 DEF AirParts, OverInv, Over, Stopping
<1>6. CASE \E r \in {"exit_scan", "scan", "poll", "exit_adv"} : Return(r) /\ UNCHANGED <<cmds, improv>>
  <2>1. CmdInv'
    BY <1>2, <1>6, AirReturn
  <2> QED BY <1>1, <1>4, <1>5, <1>6, <2>1
          DEF AirParts, WaitInv, OffInv, OverInv, Over, Stopping, Return
<1>7. CASE improv /\ improv' = improv /\ Issue("data", TRUE, "scan")
  <2>1. CmdInv'
    BY <1>2, <1>7, AirIssue
  <2>2. pc' = "wait" /\ op' = "data" /\ on' = TRUE /\ ret' = "scan" /\ improv'
    BY <1>7 DEF Issue
  <2> QED BY <1>4, <2>1, <2>2 DEF AirParts, WaitInv, OffInv, OverInv, Over, Stopping
<1>8. CASE /\ improv' = improv
           /\ \E o \in {"scan_param", "scan_enable"}, v \in BOOLEAN, r \in {"poll", "exit_adv"} :
                Issue(o, v, r)
  <2>1. CmdInv'
    BY <1>2, <1>8, AirIssue
  <2> QED BY <1>1, <1>4, <1>5, <1>8, <2>1
          DEF AirParts, WaitInv, OffInv, OverInv, Over, Stopping, Issue
<1>9. CASE \E r \in {"check", "top", "exit_join"} : set_advertising(FALSE, r)
  <2>1. PICK r \in {"check", "top", "exit_join"} : set_advertising(FALSE, r)
    BY <1>9
  <2>2. CASE advertising /\ Issue("enable", FALSE, r)
    <3>1. CmdInv'
      BY <1>2, <2>2, AirIssue
    <3>2. pc' = "wait" /\ op' = "enable" /\ on' = FALSE /\ ret' = r /\ cmds' # <<>>
      BY <1>2, <2>2, OneCommand DEF Issue
    <3> QED BY <1>4, <3>1, <3>2 DEF AirParts, WaitInv, OffInv, OverInv, Over, Stopping
  <2>3. CASE ~advertising /\ Return(r) /\ UNCHANGED cmds
    <3>1. CmdInv'
      BY <1>2, <2>3, AirReturn
    <3>2. ~ctrlAdv' /\ pc' # "wait"
      BY <1>1, <1>3, <2>3 DEF Return
    <3> QED BY <1>4, <3>1, <3>2 DEF AirParts, WaitInv, OffInv, OverInv, Stopping
  <2> QED BY <2>1, <2>2, <2>3 DEF set_advertising
<1>10. CASE LoopTop
  <2>1. UNCHANGED improv
    BY <1>10 DEF LoopTop, improvVars
  <2> QED BY <1>6, <1>7, <1>10, <2>1 DEF LoopTop, set_advertising
<1>11. CASE LoopScan \/ ExitScan
  <2>1. UNCHANGED improv /\ subs \in BOOLEAN
    BY <1>11 DEF LoopScan, ExitScan, improvVars, TypeOK, LoopTypes
  <2> QED BY <1>6, <1>8, <1>11, <2>1 DEF LoopScan, ExitScan, set_scan
<1>12. CASE DoneDue \/ NetworkFound \/ ExitAdv
  BY <1>9, <1>12 DEF DoneDue, NetworkFound, ExitAdv
<1> QED BY <1>10, <1>11, <1>12

(* The answer to the command of the program.                               *)
LEMMA AirAnswer ==
  ASSUME TypeOK, AirParts, CmdAnswer
  PROVE  AirParts'
<1>1. /\ pc = "wait" /\ evts # <<>> /\ Head(evts).t \in HciAnswers /\ evts' = Tail(evts)
      /\ AfterCmd(Head(evts).t = "answer") /\ UNCHANGED <<ctrlAdv, improv>>
  BY DEF CmdAnswer, IsAnswer, improvVars, HciAnswers
<1>2. evts \in Seq(Packets)
  BY DEF TypeOK, CtrlTypes
<1>3. IsReply(1) /\ 1 \in DOMAIN evts /\ Head(evts) = evts[1]
  BY <1>1, <1>2, TailAt DEF IsReply
<1>4. cmds = <<>>
  BY <1>3 DEF AirParts, CmdInv, NoReply
<1>5. \A m \in DOMAIN evts' : m \in Nat /\ m + 1 \in DOMAIN evts /\ evts'[m] = evts[m + 1]
                              /\ 1 < m + 1 /\ m + 1 # 1
  BY <1>1, <1>2, TailAt
<1>6. NoReply'
  BY <1>3, <1>5 DEF AirParts, CmdInv, NoReply, IsReply
<1>7. Stopping => ~ctrlAdv
  BY <1>4 DEF AirParts, OffInv
<1>8. CmdInv'
  <2>1. (\E o \in Ops : Issue(o, on, ret)) \/ (Return(ret) /\ UNCHANGED cmds)
    BY <1>1 DEF AfterCmd, Ops
  <2> QED BY <1>4, <1>6, <2>1, AirIssue, AirReturn
<1>9. ctrlAdv => \/ advertising /\ NoConnect'
                 \/ op = "enable" /\ on /\ evts[1].t = "answer" /\ NoConnect'
  <2>1. CASE advertising /\ NoConnect
    BY <1>5, <2>1 DEF NoConnect
  <2>2. CASE /\ op = "enable" /\ on
             /\ \E i \in DOMAIN evts : /\ evts[i].t = "answer"
                                       /\ \A j \in DOMAIN evts : i < j => evts[j].t # "connected"
    <3>1. PICK i \in DOMAIN evts : /\ evts[i].t = "answer"
                                   /\ \A j \in DOMAIN evts : i < j => evts[j].t # "connected"
      BY <2>2
    <3>2. i = 1
      BY <1>3, <3>1 DEF AirParts, CmdInv, IsReply, HciAnswers
    <3> QED BY <1>5, <2>2, <3>1, <3>2 DEF NoConnect
  <2> QED BY <2>1, <2>2 DEF AirParts, AdvInv
<1>10. /\ WaitInv
       /\ op # "none"
       /\ advertising \in BOOLEAN /\ on \in BOOLEAN
  BY <1>1 DEF AirParts, WaitInv, TypeOK, AdapterTypes, LoopTypes
<1>11. Over => ~ctrlAdv
  BY <1>7 DEF AirParts, OverInv
<1>12. CASE op = "enable"
  <2>1. /\ advertising' = IF Head(evts).t = "answer" THEN on ELSE advertising
        /\ pc' = ret /\ ret \in Returns
    BY <1>1, <1>12 DEF AfterCmd, Return, TypeOK, LoopTypes
  <2>2. AdvInv'
    BY <1>1, <1>3, <1>7, <1>9, <1>10, <1>12, <2>1 DEF AdvInv, Stopping
  <2>3. pc' # "wait" /\ (pc' = "exit_join" => ~ctrlAdv) /\ pc' # "stopped"
    BY <1>1, <1>7, <1>10, <1>11, <1>12, <2>1 DEF Returns, WaitInv, Stopping
  <2> QED BY <1>1, <1>8, <1>11, <2>2, <2>3 DEF AirParts, WaitInv, OffInv, OverInv, Over, Stopping
<1>13. CASE op # "enable"
  <2>1. advertising' = advertising
    BY <1>1, <1>13 DEF AfterCmd
  <2>2. AdvInv'
    BY <1>1, <1>9, <1>13, <2>1 DEF AdvInv
  <2>3. CASE Return(ret)
    <3>1. pc' # "wait" /\ pc' # "exit_join" /\ pc' # "stopped"
      BY <1>1, <1>10, <1>13, <2>3 DEF Return, WaitInv, TypeOK, LoopTypes, Ops, Returns
    <3> QED BY <1>1, <1>8, <1>11, <2>2, <3>1
            DEF AirParts, WaitInv, OffInv, OverInv, Over, Stopping
  <2>4. CASE /\ op \in {"data", "name", "param"}
             /\ \E o \in {"name", "param", "enable"} : Issue(o, on, ret)
    <3>1. on /\ improv /\ ret = "scan"
      BY <1>1, <1>10, <2>4 DEF WaitInv
    <3>2. pc' = "wait" /\ op' \in {"name", "param", "enable"} /\ on' /\ ret' = "scan"
      BY <2>4, <3>1 DEF Issue
    <3> QED BY <1>1, <1>8, <2>2, <3>1, <3>2
            DEF AirParts, WaitInv, OffInv, OverInv, Over, Stopping
  <2>5. CASE op = "scan_param" /\ Issue("scan_enable", on, ret)
    <3>1. ret \in {"poll", "exit_adv"}
      BY <1>1, <1>10, <2>5 DEF WaitInv
    <3>2. pc' = "wait" /\ op' = "scan_enable" /\ on' = on /\ ret' = ret
      BY <2>5 DEF Issue
    <3> QED BY <1>1, <1>8, <1>11, <2>2, <3>1, <3>2
            DEF AirParts, WaitInv, OffInv, OverInv, Over, Stopping
  <2> QED BY <1>1, <1>13, <2>3, <2>4, <2>5 DEF AfterCmd
<1> QED BY <1>12, <1>13

(* A packet that is not the answer: a connection in it is one the board    *)
(* has left the air for.                                                   *)
LEMMA AirPacket ==
  ASSUME TypeOK, AirParts, CmdOther \/ PollPacket
  PROVE  AirParts'
<1>1. handle_packet
  BY DEF CmdOther, PollPacket
<1>2. /\ evts # <<>> /\ evts' = Tail(evts)
      /\ UNCHANGED <<ctrlAdv, cmds, improv>>
      /\ \/ Head(evts).t = "connected" /\ advertising' = FALSE
         \/ UNCHANGED advertising
  BY <1>1, PacketEffect
     DEF ConnectionComplete, DisconnectionComplete, CompletedPackets, OnWrite, Ignored
<1>3. evts \in Seq(Packets)
  BY DEF TypeOK, CtrlTypes
<1>4. Head(evts) = evts[1] /\ 1 \in DOMAIN evts
  BY <1>2, <1>3, TailAt
<1>5. \A m \in DOMAIN evts' : m \in Nat /\ m + 1 \in DOMAIN evts /\ evts'[m] = evts[m + 1]
  BY <1>2, <1>3, TailAt
<1>6. \A i \in DOMAIN evts : i # 1 => i \in Nat /\ i - 1 \in DOMAIN evts' /\ evts'[i - 1] = evts[i]
  BY <1>2, <1>3, TailAt
<1>7. /\ pc' = "wait" <=> pc = "wait"
      /\ pc' = "wait" => UNCHANGED <<op, on, ret>>
      /\ pc' \notin {"exit_join", "stopped"} /\ pc \in {"wait", "poll"}
      /\ UNCHANGED <<op, on>>
  BY DEF CmdOther, PollPacket, loopVars
<1>8. ~IsReply(1)
  <2>1. CASE CmdOther
    BY <1>2, <1>4, <2>1 DEF CmdOther, IsAnswer, IsReply, AirParts, CmdInv, HciAnswers
  <2>2. CASE PollPacket
    BY <1>4, <2>2 DEF PollPacket, AirParts, CmdInv, NoReply
  <2> QED BY <2>1, <2>2
<1>9. CmdInv'
  BY <1>2, <1>5, <1>7 DEF AirParts, CmdInv, NoReply, IsReply
<1>10. ctrlAdv => advertising' = advertising \/ ~(advertising /\ NoConnect)
  BY <1>2, <1>4 DEF NoConnect
<1>11. AdvInv'
  <2>1. SUFFICES ASSUME ctrlAdv PROVE AdvInv'
    BY <1>2 DEF AdvInv
  <2>2. CASE advertising /\ NoConnect
    BY <1>5, <1>10, <2>1, <2>2 DEF AdvInv, NoConnect
  <2>3. CASE /\ pc = "wait" /\ op = "enable" /\ on
             /\ \E i \in DOMAIN evts : /\ evts[i].t = "answer"
                                       /\ \A j \in DOMAIN evts : i < j => evts[j].t # "connected"
    <3>1. PICK i \in DOMAIN evts : /\ evts[i].t = "answer"
                                   /\ \A j \in DOMAIN evts : i < j => evts[j].t # "connected"
      BY <2>3
    <3>2. i # 1
      BY <1>8, <3>1 DEF IsReply, HciAnswers
    <3>3. i - 1 \in DOMAIN evts' /\ evts'[i - 1].t = "answer"
      BY <1>6, <3>1, <3>2
    <3>4. \A j \in DOMAIN evts' : i - 1 < j => evts'[j].t # "connected"
      BY <1>5, <1>6, <3>1, <3>2
    <3> QED BY <1>7, <2>3, <3>3, <3>4 DEF AdvInv
  <2> QED BY <2>1, <2>2, <2>3 DEF AirParts, AdvInv
<1>12. WaitInv' /\ OffInv' /\ OverInv'
  BY <1>2, <1>7 DEF AirParts, WaitInv, OffInv, OverInv, Over, Stopping
<1> QED BY <1>9, <1>11, <1>12 DEF AirParts

(* Something from outside is added to the packets that wait.               *)
LEMMA AirOutside ==
  ASSUME TypeOK, AirParts,
         \/ AdapterCommand \/ ClientConnects \/ ClientGoes \/ ClientWrites \/ PacketSent
  PROVE  AirParts'
<1>1. UNCHANGED <<pc, op, on, ret, improv, advertising>>
  BY DEF AdapterCommand, ClientConnects, ClientGoes, ClientWrites, PacketSent, Outside,
         adapterVars, improvVars, loopVars
<1>2. evts' \in Seq(Packets) /\ evts \in Seq(Packets)
  <2>1. TypeOK'
    BY StepTypes DEF Next, InTime
  <2> QED BY <2>1 DEF TypeOK, CtrlTypes
<1>3. PICK e : evts' = Append(evts, e)
  BY DEF AdapterCommand, ClientConnects, ClientGoes, ClientWrites, PacketSent
<1>4. PICK n \in Nat :
        /\ DOMAIN evts = 1 .. n - 1 /\ DOMAIN evts' = 1 .. n
        /\ \A m \in DOMAIN evts : evts'[m] = evts[m] /\ m \in DOMAIN evts'
        /\ evts'[n] = e /\ n \in DOMAIN evts'
        /\ \A d : evts' = Append(evts, d) => d = e
  <2> DEFINE k == Len(evts) + 1
  <2>1. /\ k \in Nat /\ DOMAIN evts = 1 .. k - 1 /\ DOMAIN evts' = 1 .. k
        /\ \A m \in DOMAIN evts : evts'[m] = evts[m] /\ m \in DOMAIN evts'
        /\ evts'[k] = e /\ k \in DOMAIN evts'
    BY <1>2, <1>3
  <2>2. \A d : evts' = Append(evts, d) => evts'[k] = d
    BY <1>2
  <2> QED BY <2>1, <2>2
<1>5. \A m \in DOMAIN evts' : (m \in DOMAIN evts /\ m # n) \/ m = n
  BY <1>4
<1>6. CASE ClientConnects \/ ClientGoes \/ ClientWrites \/ PacketSent
  <2>1. e.t \in OfClient /\ UNCHANGED cmds /\ (ctrlAdv' => ctrlAdv /\ e.t # "connected")
    <3>1. CASE ClientConnects
      <4>1. evts' = Append(evts, Event("connected", conns + 1, "")) /\ ~ctrlAdv' /\ cmds' = cmds
        BY <3>1 DEF ClientConnects
      <4>3. e = Event("connected", conns + 1, "")
        BY <1>4, <4>1
      <4>4. e.t = "connected"
        BY <4>3 DEF Event
      <4> QED BY <4>1, <4>4 DEF OfClient
    <3>2. CASE ClientGoes
      <4>1. PICK h \in links : evts' = Append(evts, Event("disconnected", h, ""))
        BY <3>2 DEF ClientGoes
      <4>2. UNCHANGED <<cmds, ctrlAdv>>
        BY <3>2 DEF ClientGoes
      <4>3. e = Event("disconnected", h, "")
        BY <1>4, <4>1
      <4>4. e.t = "disconnected"
        BY <4>3 DEF Event
      <4> QED BY <4>1, <4>2, <4>4 DEF OfClient
    <3>3. CASE ClientWrites
      <4>1. PICK h \in links, w \in Writes : evts' = Append(evts, Event("acl", h, w))
        BY <3>3 DEF ClientWrites
      <4>2. UNCHANGED <<cmds, ctrlAdv>>
        BY <3>3 DEF ClientWrites, ctrlVars
      <4> QED BY <1>4, <4>1, <4>2 DEF Event, OfClient
    <3>4. CASE PacketSent
      <4>1. PICK h \in links : evts' = Append(evts, Event("completed", h, ""))
        BY <3>4 DEF PacketSent
      <4>2. UNCHANGED <<cmds, ctrlAdv>>
        BY <3>4 DEF PacketSent
      <4>3. e = Event("completed", h, "")
        BY <1>4, <4>1
      <4>4. e.t = "completed"
        BY <4>3 DEF Event
      <4> QED BY <4>1, <4>2, <4>4 DEF OfClient
    <3> QED BY <1>6, <3>1, <3>2, <3>3, <3>4
  <2>2. UNCHANGED cmds /\ (ctrlAdv' => ctrlAdv /\ e.t # "connected")
    BY <2>1
  <2>3. /\ evts'[n].t \notin HciAnswers
        /\ \A m \in DOMAIN evts : evts'[m] = evts[m]
    BY <1>4, <2>1 DEF OfClient, HciAnswers
  <2>4. CmdInv'
    BY <1>1, <1>4, <1>5, <2>2, <2>3 DEF AirParts, CmdInv, NoReply, IsReply
  <2>5. AdvInv'
    <3>1. SUFFICES ASSUME ctrlAdv, e.t # "connected" PROVE AdvInv'
      BY <2>2 DEF AdvInv
    <3> QED BY <1>1, <1>4, <1>5, <3>1 DEF AirParts, AdvInv, NoConnect
  <2>6. WaitInv' /\ OffInv' /\ OverInv'
    BY <1>1, <2>2 DEF AirParts, WaitInv, OffInv, OverInv, Over, Stopping
  <2> QED BY <2>4, <2>5, <2>6 DEF AirParts
<1>7. CASE AdapterCommand
  <2> DEFINE c == Head(cmds)
             ok == c.op # "enable" \/ ~c.on \/ Cardinality(links) < MaxLinks
  <2>1. /\ cmds # <<>> /\ cmds' = Tail(cmds)
        /\ ctrlAdv' = IF c.op = "enable" /\ ok THEN c.on ELSE ctrlAdv
        /\ evts' = Append(evts, Event(IF ok THEN "answer" ELSE "refused", 0, c.op))
    BY <1>7 DEF AdapterCommand
  <2>2. NoReply /\ cmds' = <<>> /\ c.op = op /\ c.on = on /\ pc = "wait"
    BY <2>1 DEF AirParts, CmdInv
  <2>3. e = Event(IF ok THEN "answer" ELSE "refused", 0, c.op)
    BY <1>4, <2>1
  <2>4. e.x = op /\ e.t = (IF ok THEN "answer" ELSE "refused") /\ e.t \in HciAnswers
    BY <2>2, <2>3 DEF Event, HciAnswers
  <2>5. CmdInv'
    BY <1>1, <1>4, <1>5, <2>2, <2>4 DEF CmdInv, NoReply, IsReply
  <2>6. \A m \in DOMAIN evts' : m \in Nat /\ m <= n
    BY <1>4
  <2>7. CASE op = "enable" /\ on /\ ok
    BY <1>1, <1>4, <2>2, <2>4, <2>5, <2>6, <2>7 DEF AdvInv, AirParts, WaitInv, OffInv, OverInv,
       Over, Stopping
  <2>8. CASE op = "enable" /\ ~on
    <3>1. ~ctrlAdv'
      BY <2>1, <2>2, <2>8
    <3> QED BY <1>1, <2>5, <3>1 DEF AdvInv, AirParts, WaitInv, OffInv, OverInv, Over, Stopping
  <2>9. CASE op # "enable" \/ (on /\ ~ok)
    <3>1. ctrlAdv' = ctrlAdv /\ ~Stopping
      BY <2>1, <2>2, <2>9 DEF Stopping
    <3>2. ctrlAdv => advertising /\ NoConnect
      BY <2>2 DEF AirParts, AdvInv, NoReply, IsReply, HciAnswers
    <3>3. AdvInv'
      BY <1>1, <1>4, <1>5, <2>4, <3>1, <3>2 DEF AdvInv, NoConnect, HciAnswers
    <3> QED BY <1>1, <2>5, <3>1, <3>3 DEF AirParts, WaitInv, OffInv, OverInv, Over, Stopping
  <2> QED BY <2>7, <2>8, <2>9 DEF TypeOK, LoopTypes
<1> QED BY <1>6, <1>7

LEMMA StepAir == TypeOK /\ AirInv /\ [Next]_vars => AirInv'
<1> SUFFICES ASSUME TypeOK, AirInv, [Next]_vars, timeouts' = 0 PROVE AirParts'
  BY DEF AirInv
<1>1. timeouts \in Nat
  BY DEF TypeOK, CtrlTypes
<1>2. CASE CmdTimeout \/ PollError
  <2>1. timeouts' = timeouts + 1
    BY <1>2 DEF CmdTimeout, PollError
  <2> QED BY <1>1, <2>1
<1>3. CASE CmdAnswer
  <2>1. AirParts
    BY <1>3 DEF CmdAnswer, histVars, AirInv
  <2> QED BY <1>3, <2>1, AirAnswer
<1>4. CASE CmdOther \/ PollPacket
  <2>1. AirParts
    BY <1>4 DEF CmdOther, PollPacket, handle_packet, histVars, AirInv
  <2> QED BY <1>4, <2>1, AirPacket
<1>5. CASE LoopTop \/ DoneDue \/ NetworkFound \/ ExitAdv \/ LoopScan \/ ExitScan
  <2>1. AirParts
    BY <1>5 DEF LoopTop, DoneDue, NetworkFound, ExitAdv, LoopScan, ExitScan, Rest, histVars,
                AirInv
  <2> QED BY <1>5, <2>1, AirCalls
<1>6. CASE AdapterCommand \/ ClientConnects \/ ClientGoes \/ ClientWrites \/ PacketSent
  <2>1. AirParts
    BY <1>6 DEF AdapterCommand, ClientConnects, ClientGoes, ClientWrites, PacketSent, histVars,
                AirInv
  <2> QED BY <1>6, <2>1, AirOutside
<1>7. CASE /\ UNCHANGED <<ctrlAdv, cmds, evts, advertising, improv, timeouts>>
           /\ \/ UNCHANGED <<pc, op, on, ret>>
              \/ pc # "wait" /\ pc' \notin {"wait", "exit_join", "stopped"}
              \/ pc = "exit_join" /\ pc' = "stopped"
  BY <1>7 DEF AirInv, AirParts, CmdInv, NoReply, IsReply, AdvInv, NoConnect, WaitInv, OffInv,
              OverInv, Over, Stopping
<1>8. CASE PollOther \/ LoopClients \/ IdentifyEnds \/ NotDue \/ JoinConnected \/ JoinLate
           \/ ExitJoin
  <2>1. UNCHANGED <<ctrlAdv, cmds, evts, advertising, improv, timeouts>>
    BY <1>8 DEF PollOther, LoopClients, IdentifyEnds, NotDue, GoOn, JoinConnected, JoinLate,
                ExitJoin, Rest, histVars, ctrlVars, adapterVars, improvVars
  <2>2. \/ pc # "wait" /\ pc' \notin {"wait", "exit_join", "stopped"}
        \/ pc = "exit_join" /\ pc' = "stopped"
    BY <1>8 DEF PollOther, LoopClients, IdentifyEnds, NotDue, GoOn, JoinConnected, JoinLate,
                ExitJoin, Return
  <2> QED BY <1>7, <2>1, <2>2
<1>9. CASE on_signal \/ NetworkAdded \/ UNCHANGED vars
  <2>1. UNCHANGED <<ctrlAdv, cmds, evts, advertising, improv, timeouts, pc, op, on, ret>>
    BY <1>9 DEF on_signal, NetworkAdded, vars, Outside, ctrlVars, adapterVars, improvVars,
                loopVars, histVars
  <2> QED BY <1>7, <2>1
<1> QED BY <1>2, <1>3, <1>4, <1>5, <1>6, <1>8, <1>9 DEF Next, InTime, Program

(* AirIsQuiet for every number of clients and commands: when Improv or the *)
(* program has ended and no answer was late, the board does not advertise, *)
(* although a connection may end the advertising between set_advertising() *)
(* and the answer to its command.                                          *)
THEOREM AirCorrect == Spec => []AirIsQuiet
<1>1. Init => AirInv
  <2> SUFFICES ASSUME Init PROVE AirParts
    BY DEF AirInv
  <2>1. CmdInv
    BY DEF Init, CmdInv, NoReply
  <2> QED BY <2>1 DEF Init, AirParts, AdvInv, WaitInv, OffInv, OverInv, Over, Stopping
<1>2. AirInv => AirIsQuiet
  BY DEF AirInv, AirParts, AirIsQuiet, OverInv, Over, Stopping
<1> QED BY <1>1, <1>2, InitTypes, StepTypes, StepAir, PTL DEF Spec

-----------------------------------------------------------------------------
(***************************************************************************)
(* One client at a time.  The packets that wait then tell of one client    *)
(* after the other: what comes of a client stands between its connection   *)
(* and its disconnection, and no connection comes before the disconnection *)
(* of the client before.                                                   *)
(***************************************************************************)
Of(i) == evts[i].t \in OfClient
At(i, t, h) == evts[i].t = t /\ evts[i].h = h

(* Clients one after the other; of one client its connection first and its *)
(* disconnection last.                                                     *)
Order ==
  \A i, j \in DOMAIN evts :
    i < j /\ Of(i) /\ Of(j) =>
      \/ evts[i].h < evts[j].h
      \/ /\ evts[i].h = evts[j].h
         /\ evts[i].t # "disconnected" /\ evts[j].t # "connected"

Newest ==
  /\ links \subseteq {conns} /\ conn <= conns
  /\ \A i \in DOMAIN evts : Of(i) => evts[i].h <= conns
  /\ \A i \in DOMAIN evts : evts[i].t = "disconnected" => evts[i].h \notin links

(* Nothing of an earlier client is left, and no second connection.         *)
FromConn ==
  conn # NoConn =>
    \A i \in DOMAIN evts :
      Of(i) => conn < evts[i].h \/ (conn = evts[i].h /\ evts[i].t # "connected")

Opened ==
  \A i \in DOMAIN evts :
    Of(i) /\ evts[i].t # "connected" =>
      conn = evts[i].h \/ \E j \in DOMAIN evts : j < i /\ At(j, "connected", evts[i].h)

ClosedConn ==
  \A i \in DOMAIN evts :
    evts[i].t = "connected" /\ conn # NoConn =>
      \E j \in DOMAIN evts : j < i /\ At(j, "disconnected", conn)

ClosedNext ==
  \A i, j \in DOMAIN evts :
    j < i /\ evts[i].t = "connected" /\ evts[j].t = "connected" =>
      \E k \in DOMAIN evts : k < i /\ At(k, "disconnected", evts[j].h)

(* A link is the one the program has, or will hear of; one that is no link *)
(* any more is closed in a packet that waits.                              *)
LinkOpen == \A h \in links : conn = h \/ \E i \in DOMAIN evts : At(i, "connected", h)

LinkClosed ==
  /\ conn # NoConn /\ conn \notin links => \E i \in DOMAIN evts : At(i, "disconnected", conn)
  /\ \A i \in DOMAIN evts : evts[i].t = "connected" /\ evts[i].h \notin links =>
                              \E j \in DOMAIN evts : At(j, "disconnected", evts[i].h)

LinkParts ==
  Order /\ Newest /\ FromConn /\ Opened /\ ClosedConn /\ ClosedNext /\ LinkOpen /\ LinkClosed
LinkInv == ~second => LinkParts

(* A packet of a client carries one of its handles.                        *)
LEMMA PacketTypesAt ==
  ASSUME TypeOK, NEW i \in DOMAIN evts
  PROVE  /\ evts[i] \in Packets /\ evts[i].t \in OfClient \cup HciAnswers
         /\ Of(i) => evts[i].h \in Handles /\ evts[i].h \in Nat /\ evts[i].h # NoConn
<1>1. evts[i] \in Packets
  BY DEF TypeOK, CtrlTypes
<1>2. MaxConns \in Nat
  BY BleAssumption
<1>3. \A h \in Handles : h \in Nat /\ h # NoConn
  BY <1>2 DEF Handles, NoConn
<1>4. Of(i) => evts[i].h \in Handles
  BY <1>1 DEF Packets, Of, OfClient, HciAnswers
<1> QED BY <1>1, <1>3, <1>4 DEF Packets

(* The first packet opens a link only when there is none, and closes the   *)
(* one there is.                                                           *)
LEMMA FirstPacket ==
  ASSUME TypeOK, LinkParts, evts # <<>>
  PROVE  /\ 1 \in DOMAIN evts /\ Head(evts) = evts[1]
         /\ evts[1].t = "connected" => conn = NoConn
         /\ evts[1].t \in {"disconnected", "completed", "acl"} => conn = evts[1].h
<1>1. evts \in Seq(Packets)
  BY DEF TypeOK, CtrlTypes
<1>2. 1 \in DOMAIN evts /\ Head(evts) = evts[1] /\ \A j \in DOMAIN evts : ~(j < 1)
  BY <1>1, TailAt
<1> QED BY <1>2 DEF LinkParts, ClosedConn, Opened, Of, OfClient

(* A packet is read.                                                       *)
LEMMA LinkTail ==
  ASSUME TypeOK, LinkParts, evts # <<>>, evts' = Tail(evts), UNCHANGED <<links, conns>>,
         \/ evts[1].t = "connected" /\ conn' = evts[1].h
         \/ evts[1].t = "disconnected" /\ conn' = NoConn
         \/ evts[1].t \notin {"connected", "disconnected"} /\ conn' = conn
  PROVE  LinkParts'
<1>1. evts \in Seq(Packets) /\ links \subseteq Handles /\ conn \in Handles \cup {NoConn}
  BY DEF TypeOK, CtrlTypes, AdapterTypes
<1>2. 1 \in DOMAIN evts
  BY <1>1, TailAt
<1>3. \A m \in DOMAIN evts' : /\ m \in Nat /\ m + 1 \in DOMAIN evts /\ 1 < m + 1
                              /\ evts'[m] = evts[m + 1]
  BY <1>1, TailAt
<1>4. \A i \in DOMAIN evts : i # 1 => /\ i \in Nat /\ 1 < i /\ i - 1 \in DOMAIN evts'
                                      /\ evts'[i - 1] = evts[i]
  BY <1>1, TailAt
<1>5. /\ evts[1].t = "connected" => conn = NoConn
      /\ evts[1].t = "disconnected" => conn = evts[1].h
  BY FirstPacket
<1>6. \A i \in DOMAIN evts : Of(i) => evts[i].h \in Nat /\ evts[i].h # NoConn
                                      /\ evts[i].h \in Handles
  BY PacketTypesAt
<1>7. evts[1].t \in {"connected", "disconnected"} => Of(1)
  BY DEF Of, OfClient
<1>8. Order'
  BY <1>3 DEF LinkParts, Order, Of
<1>9. Newest'
  <2>1. \A m \in DOMAIN evts' : /\ Of(m)' => evts'[m].h <= conns
                                /\ evts'[m].t = "disconnected" => evts'[m].h \notin links
    BY <1>3 DEF LinkParts, Newest, Of
  <2>2. conns \in Nat /\ (conn' = conn \/ conn' = NoConn \/ (Of(1) /\ conn' = evts[1].h))
    <3>1. MaxConns \in Nat
      BY BleAssumption
    <3> QED BY <1>7, <3>1 DEF TypeOK, CtrlTypes
  <2>3. conn' <= conns
    BY <1>2, <2>2 DEF LinkParts, Newest, NoConn
  <2> QED BY <2>1, <2>3 DEF LinkParts, Newest
<1>10. FromConn'
  <2>1. CASE evts[1].t = "connected" /\ conn' = evts[1].h
    <3>1. \A i \in DOMAIN evts : i # 1 /\ Of(i) =>
             evts[1].h < evts[i].h \/ (evts[1].h = evts[i].h /\ evts[i].t # "connected")
      BY <1>2, <1>4, <1>7, <2>1 DEF LinkParts, Order
    <3> QED BY <1>3, <2>1, <3>1 DEF FromConn, Of
  <2>2. CASE conn' = NoConn
    BY <2>2 DEF FromConn
  <2>3. CASE conn' = conn
    BY <1>3, <2>3 DEF LinkParts, FromConn, Of
  <2> QED BY <2>1, <2>2, <2>3
<1>11. Opened'
  <2> SUFFICES ASSUME NEW m \in DOMAIN evts', evts'[m].t \in OfClient, evts'[m].t # "connected",
                      conn' # evts'[m].h
               PROVE  \E j \in DOMAIN evts' : j < m /\ evts'[j].t = "connected"
                                               /\ evts'[j].h = evts'[m].h
    BY DEF Opened, Of, At
  <2>1. /\ m + 1 \in DOMAIN evts /\ evts'[m] = evts[m + 1] /\ m \in Nat /\ 1 < m + 1
        /\ Of(m + 1)
    BY <1>3 DEF Of
  <2>2. conn # evts[m + 1].h
    <3>1. evts[1].t = "disconnected" => evts[1].h # evts[m + 1].h
      BY <1>2, <1>6, <1>7, <2>1 DEF LinkParts, Order
    <3> QED BY <1>5, <1>6, <2>1, <3>1
  <2>3. PICK j \in DOMAIN evts : j < m + 1 /\ At(j, "connected", evts[m + 1].h)
    BY <2>1, <2>2 DEF LinkParts, Opened
  <2>4. j # 1
    BY <2>1, <2>3 DEF At
  <2>5. j - 1 \in DOMAIN evts' /\ j - 1 < m /\ evts'[j - 1] = evts[j]
    BY <1>4, <2>1, <2>3, <2>4
  <2> QED BY <2>1, <2>3, <2>5 DEF At
<1>12. ClosedNext'
  <2> SUFFICES ASSUME NEW m \in DOMAIN evts', NEW j \in DOMAIN evts', j < m,
                      evts'[m].t = "connected", evts'[j].t = "connected"
               PROVE  \E k \in DOMAIN evts' : k < m /\ evts'[k].t = "disconnected"
                                               /\ evts'[k].h = evts'[j].h
    BY DEF ClosedNext, At
  <2>1. /\ m + 1 \in DOMAIN evts /\ evts'[m] = evts[m + 1] /\ m \in Nat /\ j \in Nat
        /\ j + 1 \in DOMAIN evts /\ evts'[j] = evts[j + 1] /\ j + 1 < m + 1 /\ 1 < j + 1
    BY <1>3
  <2>2. PICK k \in DOMAIN evts : k < m + 1 /\ At(k, "disconnected", evts[j + 1].h)
    BY <2>1 DEF LinkParts, ClosedNext
  <2>3. k # 1
    <3>1. Of(j + 1)
      BY <2>1 DEF Of, OfClient
    <3>2. evts[1].t = "disconnected" => evts[1].h # evts[j + 1].h
      BY <1>2, <1>6, <1>7, <2>1, <3>1 DEF LinkParts, Order
    <3> QED BY <2>2, <3>2 DEF At
  <2>4. k - 1 \in DOMAIN evts' /\ k - 1 < m /\ evts'[k - 1] = evts[k]
    BY <1>4, <2>1, <2>2, <2>3
  <2> QED BY <2>1, <2>2, <2>4 DEF At
<1>13. ClosedConn'
  <2> SUFFICES ASSUME NEW m \in DOMAIN evts', evts'[m].t = "connected", conn' # NoConn
               PROVE  \E k \in DOMAIN evts' : k < m /\ evts'[k].t = "disconnected"
                                               /\ evts'[k].h = conn'
    BY DEF ClosedConn, At
  <2>1. m + 1 \in DOMAIN evts /\ evts'[m] = evts[m + 1] /\ m \in Nat /\ 1 < m + 1
    BY <1>3
  <2>2. PICK k \in DOMAIN evts : k < m + 1 /\ At(k, "disconnected", conn')
    <3>1. CASE evts[1].t = "connected" /\ conn' = evts[1].h
      BY <1>2, <2>1, <3>1 DEF LinkParts, ClosedNext
    <3>2. CASE conn' = conn
      BY <2>1, <3>2 DEF LinkParts, ClosedConn
    <3> QED BY <3>1, <3>2
  <2>3. k # 1
    BY <2>2 DEF At
  <2> QED BY <1>4, <2>1, <2>2, <2>3 DEF At
<1>14. LinkOpen'
  <2> SUFFICES ASSUME NEW h \in links, conn' # h
               PROVE  \E i \in DOMAIN evts' : evts'[i].t = "connected" /\ evts'[i].h = h
    BY DEF LinkOpen, At
  <2>1. conn # h
    <3>1. h # NoConn
      BY <1>1, BleAssumption DEF Handles, NoConn
    <3> QED BY <1>2, <1>5, <3>1 DEF LinkParts, Newest
  <2>2. PICK i \in DOMAIN evts : At(i, "connected", h)
    BY <2>1 DEF LinkParts, LinkOpen
  <2>3. i # 1
    BY <2>2 DEF At
  <2> QED BY <1>4, <2>2, <2>3 DEF At
<1>15. LinkClosed'
  <2>1. ASSUME conn' # NoConn, conn' \notin links
        PROVE  \E i \in DOMAIN evts' : evts'[i].t = "disconnected" /\ evts'[i].h = conn'
    <3>1. PICK i \in DOMAIN evts : At(i, "disconnected", conn')
      BY <1>2, <2>1 DEF LinkParts, LinkClosed
    <3>2. i # 1
      BY <2>1, <3>1 DEF At
    <3> QED BY <1>4, <3>1, <3>2 DEF At
  <2>2. ASSUME NEW m \in DOMAIN evts', evts'[m].t = "connected", evts'[m].h \notin links
        PROVE  \E i \in DOMAIN evts' : evts'[i].t = "disconnected" /\ evts'[i].h = evts'[m].h
    <3>1. m + 1 \in DOMAIN evts /\ evts'[m] = evts[m + 1] /\ m \in Nat /\ 1 < m + 1
      BY <1>3
    <3>2. PICK i \in DOMAIN evts : At(i, "disconnected", evts[m + 1].h)
      BY <2>2, <3>1 DEF LinkParts, LinkClosed
    <3>3. i # 1
      <4>1. Of(m + 1)
        BY <2>2, <3>1 DEF Of, OfClient
      <4>2. evts[1].t = "disconnected" => evts[1].h # evts[m + 1].h
        BY <1>2, <1>6, <1>7, <3>1, <4>1 DEF LinkParts, Order
      <4> QED BY <3>2, <4>2 DEF At
    <3> QED BY <1>4, <3>1, <3>2, <3>3 DEF At
  <2> QED BY <2>1, <2>2 DEF LinkClosed, At
<1> QED BY <1>8, <1>9, <1>10, <1>11, <1>12, <1>13, <1>14, <1>15 DEF LinkParts

(* A packet is added.                                                      *)
LEMMA LinkAppend ==
  ASSUME TypeOK, LinkParts, NEW e \in Packets, evts' = Append(evts, e), UNCHANGED conn,
         \/ e.t \in HciAnswers /\ UNCHANGED <<links, conns>>
         \/ e.t \in {"acl", "completed"} /\ e.h \in links /\ UNCHANGED <<links, conns>>
         \/ /\ e.t = "disconnected" /\ e.h \in links
            /\ links' = links \ {e.h} /\ UNCHANGED conns
         \/ /\ e.t = "connected" /\ e.h = conns + 1
            /\ links = {} /\ links' = {e.h} /\ conns' = conns + 1
  PROVE  LinkParts'
<1>1. /\ evts \in Seq(Packets) /\ links \subseteq Handles /\ conn \in Handles \cup {NoConn}
      /\ conns \in Nat /\ conn \in Nat
  <2>1. MaxConns \in Nat
    BY BleAssumption
  <2> QED BY <2>1 DEF TypeOK, CtrlTypes, AdapterTypes, Handles, NoConn
<1>2. PICK n \in Nat :
        /\ DOMAIN evts = 1 .. n - 1 /\ DOMAIN evts' = 1 .. n /\ n \in DOMAIN evts'
        /\ \A m \in DOMAIN evts : evts'[m] = evts[m] /\ m \in DOMAIN evts' /\ m < n
        /\ evts'[n] = e
  BY <1>1, AppendAt
<1>3. \A m \in DOMAIN evts' : (m \in DOMAIN evts /\ m < n /\ evts'[m] = evts[m]) \/ m = n
  BY <1>2
<1>4. \A i, j \in DOMAIN evts' : i < j => i \in DOMAIN evts /\ i # n
  BY <1>2
<1>5. \A i \in DOMAIN evts : Of(i) => evts[i].h \in Nat /\ evts[i].h # NoConn
                                      /\ evts[i].h \in Handles
  BY PacketTypesAt
<1>6. e.t \in OfClient => e.h \in Nat /\ (e.h \in links => e.h = conns)
  <2>1. MaxConns \in Nat
    BY BleAssumption
  <2>2. e.t \in OfClient => e.h \in Handles
    BY DEF Packets, OfClient, HciAnswers
  <2>3. \A h \in Handles : h \in Nat
    BY <2>1 DEF Handles
  <2> QED BY <2>2, <2>3 DEF LinkParts, Newest
<1>7. e.t \in OfClient \cup HciAnswers
  BY DEF Packets
<1>8. Order'
  <2> SUFFICES ASSUME NEW i \in DOMAIN evts', NEW j \in DOMAIN evts', i < j,
                      evts'[i].t \in OfClient, evts'[j].t \in OfClient
               PROVE  \/ evts'[i].h < evts'[j].h
                      \/ /\ evts'[i].h = evts'[j].h
                         /\ evts'[i].t # "disconnected" /\ evts'[j].t # "connected"
    BY DEF Order, Of
  <2>1. i \in DOMAIN evts /\ evts'[i] = evts[i] /\ Of(i)
    BY <1>2, <1>4 DEF Of
  <2>2. CASE j \in DOMAIN evts
    BY <1>2, <2>1, <2>2 DEF LinkParts, Order, Of
  <2>3. CASE j = n
    <3>1. /\ evts[i].h <= conns /\ evts[i].h \in Nat
          /\ evts[i].t = "disconnected" => evts[i].h \notin links
      BY <1>5, <2>1 DEF LinkParts, Newest
    <3>2. e.t \in OfClient /\ e.t \notin HciAnswers
      BY <1>2, <2>3 DEF OfClient, HciAnswers
    <3>3. \/ e.t \in {"acl", "completed", "disconnected"} /\ e.h \in links /\ e.h = conns
          \/ e.h = conns + 1
      BY <1>6, <3>2
    <3> QED BY <1>1, <1>2, <2>1, <2>3, <3>1, <3>3
  <2> QED BY <1>3, <2>2, <2>3
<1>9. Newest'
  <2>1. \A m \in DOMAIN evts : Of(m) => evts[m].h <= conns
    BY DEF LinkParts, Newest
  <2>2. \A m \in DOMAIN evts : evts[m].t = "disconnected" => Of(m) /\ evts[m].h \notin links
    BY DEF LinkParts, Newest, Of, OfClient
  <2>3. conns \in Nat /\ conn <= conns /\ links \subseteq {conns}
    BY <1>1 DEF LinkParts, Newest
  <2>4. e.t \in OfClient => e.h <= conns'
    BY <1>6, <2>3 DEF OfClient, HciAnswers
  <2>5. links' \subseteq {conns'} /\ conn' <= conns' /\ conns <= conns' /\ conns' \in Nat
    <3>1. CASE conns' = conns /\ links' \subseteq links
      BY <1>1, <2>3, <3>1
    <3>2. CASE conns' = conns + 1 /\ links' = {conns + 1}
      BY <1>1, <2>3, <3>2
    <3> QED BY <3>1, <3>2
  <2>6. \A m \in DOMAIN evts' : Of(m)' => evts'[m].h <= conns'
    BY <1>2, <1>3, <1>5, <2>1, <2>3, <2>4, <2>5 DEF Of
  <2>7. \A m \in DOMAIN evts' : evts'[m].t = "disconnected" => evts'[m].h \notin links'
    <3> SUFFICES ASSUME NEW m \in DOMAIN evts', evts'[m].t = "disconnected"
                 PROVE  evts'[m].h \notin links'
      OBVIOUS
    <3>1. CASE m = n
      BY <1>2, <3>1 DEF HciAnswers
    <3>2. CASE m \in DOMAIN evts
      <4>1. /\ evts'[m] = evts[m] /\ evts[m].h \notin links /\ evts[m].h <= conns
            /\ evts[m].h \in Nat
        BY <1>2, <1>5, <2>1, <2>2, <3>2
      <4> QED BY <1>1, <4>1
    <3> QED BY <1>3, <3>1, <3>2
  <2> QED BY <2>5, <2>6, <2>7 DEF Newest
<1>10. FromConn'
  <2> SUFFICES ASSUME conn # NoConn, NEW m \in DOMAIN evts', evts'[m].t \in OfClient
               PROVE  conn < evts'[m].h \/ (conn = evts'[m].h /\ evts'[m].t # "connected")
    BY DEF FromConn, Of
  <2>1. CASE m \in DOMAIN evts
    BY <1>2, <2>1 DEF LinkParts, FromConn, Of
  <2>2. CASE m = n
    <3>1. /\ e.t \in OfClient /\ e.t \notin HciAnswers /\ conn <= conns
      BY <1>2, <2>2 DEF LinkParts, Newest, OfClient, HciAnswers
    <3>2. \/ e.t \in {"acl", "completed", "disconnected"} /\ e.h = conns
          \/ e.h = conns + 1
      BY <1>6, <3>1
    <3> QED BY <1>1, <1>2, <2>2, <3>1, <3>2
  <2> QED BY <1>3, <2>1, <2>2
<1>11. Opened'
  <2> SUFFICES ASSUME NEW m \in DOMAIN evts', evts'[m].t \in OfClient, evts'[m].t # "connected",
                      conn # evts'[m].h
               PROVE  \E j \in DOMAIN evts' : j < m /\ evts'[j].t = "connected"
                                               /\ evts'[j].h = evts'[m].h
    BY DEF Opened, Of, At
  <2>1. CASE m \in DOMAIN evts
    <3>1. PICK j \in DOMAIN evts : j < m /\ At(j, "connected", evts[m].h)
      BY <1>2, <2>1 DEF LinkParts, Opened, Of
    <3> QED BY <1>2, <2>1, <3>1 DEF At
  <2>2. CASE m = n
    <3>1. e.h \in links
      BY <1>2, <2>2 DEF OfClient, HciAnswers
    <3>2. PICK j \in DOMAIN evts : At(j, "connected", e.h)
      BY <1>2, <2>2, <3>1 DEF LinkParts, LinkOpen
    <3> QED BY <1>2, <2>2, <3>2 DEF At
  <2> QED BY <1>3, <2>1, <2>2
<1>12. ClosedConn'
  <2> SUFFICES ASSUME NEW m \in DOMAIN evts', evts'[m].t = "connected", conn # NoConn
               PROVE  \E k \in DOMAIN evts' : k < m /\ evts'[k].t = "disconnected"
                                               /\ evts'[k].h = conn
    BY DEF ClosedConn, At
  <2>1. CASE m \in DOMAIN evts
    <3>1. PICK k \in DOMAIN evts : k < m /\ At(k, "disconnected", conn)
      BY <1>2, <2>1 DEF LinkParts, ClosedConn
    <3> QED BY <1>2, <3>1 DEF At
  <2>2. CASE m = n
    <3>1. conn \notin links
      BY <1>2, <2>2 DEF HciAnswers
    <3>2. PICK k \in DOMAIN evts : At(k, "disconnected", conn)
      BY <3>1 DEF LinkParts, LinkClosed
    <3> QED BY <1>2, <2>2, <3>2 DEF At
  <2> QED BY <1>3, <2>1, <2>2
<1>13. ClosedNext'
  <2> SUFFICES ASSUME NEW m \in DOMAIN evts', NEW j \in DOMAIN evts', j < m,
                      evts'[m].t = "connected", evts'[j].t = "connected"
               PROVE  \E k \in DOMAIN evts' : k < m /\ evts'[k].t = "disconnected"
                                               /\ evts'[k].h = evts'[j].h
    BY DEF ClosedNext, At
  <2>1. j \in DOMAIN evts /\ evts'[j] = evts[j]
    BY <1>2, <1>4
  <2>2. CASE m \in DOMAIN evts
    <3>1. PICK k \in DOMAIN evts : k < m /\ At(k, "disconnected", evts[j].h)
      BY <1>2, <2>1, <2>2 DEF LinkParts, ClosedNext
    <3> QED BY <1>2, <2>1, <3>1 DEF At
  <2>3. CASE m = n
    <3>1. evts[j].h \notin links
      BY <1>2, <2>3 DEF HciAnswers
    <3>2. PICK k \in DOMAIN evts : At(k, "disconnected", evts[j].h)
      BY <2>1, <3>1 DEF LinkParts, LinkClosed
    <3> QED BY <1>2, <2>1, <2>3, <3>2 DEF At
  <2> QED BY <1>3, <2>2, <2>3
<1>14. LinkOpen'
  <2> SUFFICES ASSUME NEW h \in links', conn # h
               PROVE  \E i \in DOMAIN evts' : evts'[i].t = "connected" /\ evts'[i].h = h
    BY DEF LinkOpen, At
  <2>1. CASE h \in links
    <3>1. PICK i \in DOMAIN evts : At(i, "connected", h)
      BY <2>1 DEF LinkParts, LinkOpen
    <3> QED BY <1>2, <3>1 DEF At
  <2>2. CASE h \notin links
    BY <1>2, <2>2
  <2> QED BY <2>1, <2>2
<1>15. LinkClosed'
  <2>1. ASSUME NEW h, h \notin links',
               h \in links \/ \E i \in DOMAIN evts : At(i, "disconnected", h)
        PROVE  \E i \in DOMAIN evts' : evts'[i].t = "disconnected" /\ evts'[i].h = h
    <3>1. CASE h \in links
      BY <1>2, <2>1, <3>1
    <3>2. CASE \E i \in DOMAIN evts : At(i, "disconnected", h)
      BY <1>2, <3>2 DEF At
    <3> QED BY <2>1, <3>1, <3>2
  <2>2. ASSUME conn # NoConn, conn \notin links'
        PROVE  \E i \in DOMAIN evts' : evts'[i].t = "disconnected" /\ evts'[i].h = conn
    BY <2>1, <2>2 DEF LinkParts, LinkClosed
  <2>3. ASSUME NEW m \in DOMAIN evts', evts'[m].t = "connected", evts'[m].h \notin links'
        PROVE  \E i \in DOMAIN evts' : evts'[i].t = "disconnected" /\ evts'[i].h = evts'[m].h
    <3>1. m # n
      BY <1>2, <2>3 DEF HciAnswers
    <3>2. m \in DOMAIN evts /\ evts'[m] = evts[m]
      BY <1>3, <3>1
    <3> QED BY <2>1, <2>3, <3>2 DEF LinkParts, LinkClosed
  <2> QED BY <2>2, <2>3 DEF LinkClosed, At
<1> QED BY <1>8, <1>9, <1>10, <1>11, <1>12, <1>13, <1>14, <1>15 DEF LinkParts

(* The steps that leave the links and the packets alone.                   *)
Elsewhere ==
  \/ CmdTimeout \/ LoopTop \/ DoneDue \/ NetworkFound \/ ExitAdv \/ LoopScan \/ ExitScan
  \/ ExitJoin \/ PollOther \/ PollError \/ LoopClients \/ IdentifyEnds \/ NotDue
  \/ on_signal \/ NetworkAdded \/ UNCHANGED vars

LEMMA ElsewhereEffect ==
  ASSUME Elsewhere
  PROVE  UNCHANGED <<evts, links, conns, conn, second, rpc, held, credits, connSent>>
<1>1. CASE LoopTop \/ DoneDue \/ NetworkFound \/ ExitAdv \/ LoopScan \/ ExitScan \/ ExitJoin
  BY <1>1 DEF LoopTop, DoneDue, NetworkFound, ExitAdv, LoopScan, ExitScan, ExitJoin, Rest,
              histVars
<1>2. CASE PollOther \/ IdentifyEnds \/ NotDue
  BY <1>2 DEF PollOther, IdentifyEnds, NotDue, GoOn, Rest, histVars
<1>3. CASE CmdTimeout \/ PollError \/ LoopClients \/ on_signal \/ NetworkAdded
           \/ UNCHANGED vars
  BY <1>3 DEF CmdTimeout, PollError, LoopClients, on_signal, NetworkAdded, vars, ctrlVars,
              adapterVars, gattVars, histVars, Outside
<1> QED BY <1>1, <1>2, <1>3 DEF Elsewhere

LEMMA StepSplit ==
  ASSUME [Next]_vars
  PROVE  \/ Elsewhere \/ CmdAnswer \/ CmdOther \/ PollPacket \/ JoinConnected \/ JoinLate
         \/ AdapterCommand \/ ClientConnects \/ ClientGoes \/ ClientWrites \/ PacketSent
BY DEF Next, InTime, Program, Elsewhere

(* What the ends of a join, the answers and the adapter leave alone.       *)
LEMMA AnswerEffect ==
  ASSUME TypeOK, CmdAnswer
  PROVE  /\ evts # <<>> /\ evts' = Tail(evts) /\ Head(evts).t \in HciAnswers
         /\ UNCHANGED <<links, conns, conn, second, rpc, held, credits, connSent>>
BY DEF CmdAnswer, IsAnswer, HciAnswers, gattVars, histVars

LEMMA JoinKeeps ==
  ASSUME TypeOK, JoinConnected \/ JoinLate
  PROVE  SomeSent /\ UNCHANGED <<evts, links, conns, conn, second, rpc>>
BY JoinEffect DEF Rest, histVars

LEMMA AdapterEffect ==
  ASSUME TypeOK, AdapterCommand
  PROVE  /\ \E e \in Packets : e.t \in HciAnswers /\ evts' = Append(evts, e)
         /\ UNCHANGED <<links, conns, conn, second, rpc, held, credits, connSent>>
<1> DEFINE c == Head(cmds)
<1>1. cmds # <<>> /\ \E t \in HciAnswers : evts' = Append(evts, Event(t, 0, c.op))
  BY DEF AdapterCommand, HciAnswers
<1>2. c.op \in Ops
  BY <1>1, TailIsSeq DEF TypeOK, CtrlTypes
<1>3. \A t \in HciAnswers : Event(t, 0, c.op) \in Packets /\ Event(t, 0, c.op).t = t
  BY <1>2 DEF Event, Packets
<1>4. UNCHANGED <<links, conns, conn, second, rpc, held, credits, connSent>>
  BY DEF AdapterCommand, histVars, Outside, adapterVars, gattVars
<1> QED BY <1>1, <1>3, <1>4

LEMMA ConnectEffect ==
  ASSUME TypeOK, ClientConnects
  PROVE  /\ \E e \in Packets : /\ e.t = "connected" /\ e.h = conns + 1
                               /\ evts' = Append(evts, e) /\ links' = links \cup {e.h}
         /\ conns' = conns + 1 /\ second' = (second \/ links # {})
         /\ UNCHANGED <<conn, rpc, held, credits, connSent>>
<1> DEFINE e == Event("connected", conns + 1, "")
<1>1. conns + 1 \in Handles
  <2>1. conns \in 0 .. MaxConns /\ conns < MaxConns /\ MaxConns \in Nat
    BY BleAssumption DEF ClientConnects, TypeOK, CtrlTypes
  <2> QED BY <2>1 DEF Handles
<1>2. e \in Packets /\ e.t = "connected" /\ e.h = conns + 1
  BY <1>1 DEF Event, Packets, OfClient
<1>3. evts' = Append(evts, e) /\ links' = links \cup {conns + 1} /\ conns' = conns + 1
      /\ second' = (second \/ links # {})
  BY DEF ClientConnects
<1>4. UNCHANGED <<conn, rpc, held, credits, connSent>>
  BY DEF ClientConnects, Outside, adapterVars, gattVars
<1> QED BY <1>2, <1>3, <1>4

(* A packet of a client that is connected.                                 *)
LEMMA LinkEffect ==
  ASSUME TypeOK, ClientGoes \/ ClientWrites \/ PacketSent
  PROVE  /\ \E e \in Packets :
              /\ e.h \in links /\ evts' = Append(evts, e)
              /\ \/ /\ e.t = "disconnected" /\ links' = links \ {e.h}
                    /\ held' = [held EXCEPT ![e.h] = 0]
                 \/ e.t = "acl" /\ UNCHANGED <<links, held>>
                 \/ /\ e.t = "completed" /\ UNCHANGED links /\ held[e.h] > 0
                    /\ held' = [held EXCEPT ![e.h] = @ - 1]
         /\ UNCHANGED <<conns, conn, second, rpc, credits, connSent>>
<1>1. \A t \in OfClient, h \in links, x \in Writes \cup {""} :
        LET e == Event(t, h, x) IN e \in Packets /\ e.t = t /\ e.h = h
  BY DEF Event, Packets, TypeOK, CtrlTypes
<1>2. CASE ClientGoes
  <2>1. PICK h \in links : /\ links' = links \ {h} /\ held' = [held EXCEPT ![h] = 0]
                           /\ evts' = Append(evts, Event("disconnected", h, ""))
    BY <1>2 DEF ClientGoes
  <2>2. UNCHANGED <<conns, conn, second, rpc, credits, connSent>>
    BY <1>2 DEF ClientGoes, Outside, adapterVars, gattVars, histVars
  <2>3. LET e == Event("disconnected", h, "")
        IN e \in Packets /\ e.t = "disconnected" /\ e.h = h
    BY <1>1 DEF OfClient
  <2> QED BY <2>1, <2>2, <2>3
<1>3. CASE ClientWrites
  <2>1. PICK h \in links, w \in Writes : evts' = Append(evts, Event("acl", h, w))
    BY <1>3 DEF ClientWrites
  <2>2. UNCHANGED <<links, held, conns, conn, second, rpc, credits, connSent>>
    BY <1>3 DEF ClientWrites, Outside, adapterVars, gattVars, ctrlVars
  <2>3. LET e == Event("acl", h, w)
        IN e \in Packets /\ e.t = "acl" /\ e.h = h
    BY <1>1 DEF OfClient
  <2> QED BY <2>1, <2>2, <2>3
<1>4. CASE PacketSent
  <2>1. PICK h \in links : /\ held[h] > 0 /\ held' = [held EXCEPT ![h] = @ - 1]
                           /\ evts' = Append(evts, Event("completed", h, ""))
    BY <1>4 DEF PacketSent
  <2>2. UNCHANGED <<links, conns, conn, second, rpc, credits, connSent>>
    BY <1>4 DEF PacketSent, Outside, adapterVars, gattVars, histVars
  <2>3. LET e == Event("completed", h, "")
        IN e \in Packets /\ e.t = "completed" /\ e.h = h
    BY <1>1 DEF OfClient
  <2> QED BY <2>1, <2>2, <2>3
<1> QED BY <1>2, <1>3, <1>4

LEMMA StepLinks == TypeOK /\ LinkInv /\ [Next]_vars => LinkInv'
<1> SUFFICES ASSUME TypeOK, LinkInv, [Next]_vars, ~second' PROVE LinkParts'
  BY DEF LinkInv
<1>1. CASE Elsewhere \/ JoinConnected \/ JoinLate
  <2>1. UNCHANGED <<evts, links, conns, conn, second>>
    BY <1>1, ElsewhereEffect, JoinKeeps
  <2> QED BY <2>1 DEF LinkInv, LinkParts, Order, Newest, FromConn, Opened, ClosedConn,
                      ClosedNext, LinkOpen, LinkClosed, Of, At
<1>2. CASE CmdAnswer
  <2>1. /\ evts # <<>> /\ evts' = Tail(evts) /\ Head(evts).t \in HciAnswers
        /\ UNCHANGED <<links, conns, conn, second>>
    BY <1>2, AnswerEffect
  <2>2. LinkParts
    BY <2>1 DEF LinkInv
  <2>3. evts[1].t \notin {"connected", "disconnected"}
    BY <2>1, <2>2, FirstPacket DEF HciAnswers
  <2> QED BY <2>1, <2>2, <2>3, LinkTail
<1>3. CASE CmdOther \/ PollPacket
  <2>1. handle_packet
    BY <1>3 DEF CmdOther, PollPacket
  <2> DEFINE e == Head(evts)
  <2>2. /\ evts # <<>> /\ evts' = Tail(evts) /\ UNCHANGED <<links, conns, second>>
        /\ \/ e.t = "connected" /\ conn' = e.h
           \/ e.t = "disconnected" /\ conn' = IF e.h = conn THEN NoConn ELSE conn
           \/ e.t \notin {"connected", "disconnected"} /\ conn' = conn
    BY <2>1, PacketEffect DEF ConnectionComplete, DisconnectionComplete, CompletedPackets,
       OnWrite, Ignored, HciAnswers
  <2>3. LinkParts
    BY <2>2 DEF LinkInv
  <2>4. e = evts[1] /\ (e.t = "disconnected" => conn = e.h)
    BY <2>2, <2>3, FirstPacket
  <2> QED BY <2>2, <2>3, <2>4, LinkTail
<1>4. CASE AdapterCommand
  <2>1. UNCHANGED <<links, conns, conn, second>>
    BY <1>4, AdapterEffect
  <2> QED BY <1>4, <2>1, AdapterEffect, LinkAppend DEF LinkInv
<1>5. CASE ClientConnects
  <2>1. PICK e \in Packets : /\ e.t = "connected" /\ e.h = conns + 1
                             /\ evts' = Append(evts, e) /\ links' = links \cup {e.h}
                             /\ conns' = conns + 1 /\ second' = (second \/ links # {})
                             /\ UNCHANGED conn
    BY <1>5, ConnectEffect
  <2>2. ~second /\ links = {}
    BY <2>1
  <2>3. links' = {e.h}
    BY <2>1, <2>2
  <2> QED BY <2>1, <2>2, <2>3, LinkAppend DEF LinkInv
<1>6. CASE ClientGoes \/ ClientWrites \/ PacketSent
  <2>1. UNCHANGED <<conns, conn, second>>
    BY <1>6, LinkEffect
  <2>2. PICK e \in Packets :
          /\ e.h \in links /\ evts' = Append(evts, e)
          /\ \/ e.t = "disconnected" /\ links' = links \ {e.h}
             \/ e.t \in {"acl", "completed"} /\ UNCHANGED links
    BY <1>6, LinkEffect
  <2> QED BY <2>1, <2>2, LinkAppend DEF LinkInv
<1> QED BY <1>1, <1>2, <1>3, <1>4, <1>5, <1>6, StepSplit

LEMMA InitLinks == Init => LinkInv
<1> SUFFICES ASSUME Init PROVE LinkParts
  BY DEF LinkInv
<1>1. evts = <<>> /\ conn = 0 /\ conns = 0 /\ links = {}
  BY DEF Init, NoConn
<1>2. DOMAIN evts = {}
  BY <1>1
<1> QED BY <1>1, <1>2 DEF LinkParts, Order, Newest, FromConn, Opened, ClosedConn, ClosedNext,
                          LinkOpen, LinkClosed, NoConn

(* The parts of a command in s.rpc are of the client that is connected.    *)
LEMMA StepRpc == TypeOK /\ LinkInv /\ OneClient /\ [Next]_vars => OneClient'
<1> SUFFICES ASSUME TypeOK, LinkInv, OneClient, [Next]_vars, ~second', conn' # NoConn
             PROVE  \A i \in 1 .. Len(rpc') : rpc'[i].h = conn'
  BY DEF OneClient
<1>1. CASE UNCHANGED <<conn, rpc, second>>
  BY <1>1 DEF OneClient
<1>2. CASE CmdOther \/ PollPacket
  <2>1. handle_packet
    BY <1>2 DEF CmdOther, PollPacket
  <2> DEFINE e == Head(evts)
  <2>2. /\ evts # <<>> /\ UNCHANGED second
        /\ \/ e.t = "connected" /\ rpc' = <<>>
           \/ e.t = "disconnected" /\ conn' = (IF e.h = conn THEN NoConn ELSE conn)
           \/ UNCHANGED <<rpc, conn>>
           \/ e.t = "acl" /\ conn' = conn /\ (rpc' = <<>> \/ rpc' = Append(rpc, Part(e)))
    BY <2>1, PacketEffect DEF ConnectionComplete, DisconnectionComplete, CompletedPackets,
       OnWrite, Ignored, HciAnswers
  <2>3. e.t \in {"disconnected", "acl"} => conn = e.h
    BY <2>2, FirstPacket DEF LinkInv
  <2>4. CASE rpc' = <<>>
    BY <2>4
  <2>5. CASE e.t = "acl" /\ conn' = conn /\ rpc' = Append(rpc, Part(e))
    <3>1. Part(e).h = conn
      BY <2>3, <2>5 DEF Part
    <3>2. rpc \in Seq([h : Handles, x : Fragments])
      BY DEF TypeOK, ImprovTypes
    <3>3. \A i \in 1 .. Len(rpc) : rpc[i].h = conn
      BY <2>2, <2>5 DEF OneClient
    <3>4. \A i \in 1 .. Len(rpc') : rpc'[i] = Part(e) \/ (i \in 1 .. Len(rpc) /\ rpc'[i] = rpc[i])
      BY <2>5, <3>2
    <3> QED BY <2>5, <3>1, <3>3, <3>4
  <2> QED BY <1>1, <2>2, <2>3, <2>4, <2>5
<1>3. CASE ClientConnects
  <2>1. UNCHANGED <<conn, rpc>> /\ ~second
    BY <1>3, ConnectEffect
  <2> QED BY <2>1 DEF OneClient
<1> QED BY <1>1, <1>2, <1>3, StepSplit, ElsewhereEffect, AnswerEffect, JoinKeeps, AdapterEffect,
           LinkEffect

(* OneClient for every number of clients and writes: what rpc_write() puts *)
(* together is of the client that is connected, because the packets of one *)
(* client never mix with those of the next (LinkInv).                      *)
THEOREM ClientCorrect == Spec => []OneClient
<1>1. Init => OneClient
  BY DEF Init, OneClient
<1> QED BY <1>1, InitTypes, StepTypes, InitLinks, StepLinks, StepRpc, PTL DEF Spec

-----------------------------------------------------------------------------
(***************************************************************************)
(* The credits.  A packet of the connection is with the adapter, or the    *)
(* adapter has reported it and the report waits to be read.                *)
(***************************************************************************)
Reports(s, c) == {i \in 1 .. Len(s) : s[i].t = "completed" /\ s[i].h = c}

LEMMA ReportsFinite ==
  ASSUME NEW s \in Seq(Packets), NEW c
  PROVE  IsFiniteSet(Reports(s, c)) /\ Cardinality(Reports(s, c)) \in Nat
<1>1. Len(s) \in Nat
  OBVIOUS
<1>2. IsFiniteSet(1 .. Len(s))
  BY <1>1, FS_Interval
<1>3. Reports(s, c) \in SUBSET (1 .. Len(s))
  BY DEF Reports
<1> QED BY <1>2, <1>3, FS_Subset, FS_CardinalityType

LEMMA ReportsAppend ==
  ASSUME NEW s \in Seq(Packets), NEW c, NEW e \in Packets
  PROVE  Cardinality(Reports(Append(s, e), c)) =
           Cardinality(Reports(s, c)) + (IF e.t = "completed" /\ e.h = c THEN 1 ELSE 0)
<1> DEFINE n == Len(s) + 1
           S == Reports(s, c)
           T == Reports(Append(s, e), c)
<1>1. /\ n \in Nat /\ Len(Append(s, e)) = n /\ Len(s) \in Nat
      /\ \A i \in 1 .. Len(s) : Append(s, e)[i] = s[i] /\ i \in 1 .. n /\ i # n
      /\ \A i \in 1 .. n : i \in 1 .. Len(s) \/ i = n
      /\ Append(s, e)[n] = e /\ n \in 1 .. n
  OBVIOUS
<1>2. IsFiniteSet(S) /\ Cardinality(S) \in Nat
  BY ReportsFinite
<1>3. n \notin S
  BY <1>1 DEF Reports
<1>4. CASE e.t = "completed" /\ e.h = c
  <2>1. T = S \cup {n}
    BY <1>1, <1>4 DEF Reports
  <2> QED BY <1>2, <1>3, <1>4, <2>1, FS_AddElement
<1>5. CASE ~(e.t = "completed" /\ e.h = c)
  <2>1. T = S
    BY <1>1, <1>5 DEF Reports
  <2> QED BY <1>2, <1>5, <2>1
<1> QED BY <1>4, <1>5

LEMMA ReportsTail ==
  ASSUME NEW s \in Seq(Packets), NEW c, s # <<>>
  PROVE  Cardinality(Reports(s, c)) =
           Cardinality(Reports(Tail(s), c)) + (IF s[1].t = "completed" /\ s[1].h = c THEN 1 ELSE 0)
<1> DEFINE S == Reports(Tail(s), c)
           T == Reports(s, c) \ {1}
           f == [i \in S |-> i + 1]
<1>1. /\ Len(s) \in Nat /\ Len(Tail(s)) = Len(s) - 1 /\ 1 \in 1 .. Len(s)
      /\ \A m \in 1 .. Len(Tail(s)) : m \in Nat /\ m + 1 \in 1 .. Len(s) /\ m + 1 # 1
                                      /\ Tail(s)[m] = s[m + 1]
      /\ \A i \in 1 .. Len(s) : i # 1 => i - 1 \in 1 .. Len(Tail(s)) /\ Tail(s)[i - 1] = s[i]
                                         /\ (i - 1) + 1 = i
  OBVIOUS
<1>2. Tail(s) \in Seq(Packets)
  BY TailIsSeq
<1>3. IsFiniteSet(S) /\ Cardinality(S) \in Nat /\ IsFiniteSet(Reports(s, c))
      /\ Cardinality(Reports(s, c)) \in Nat
  BY <1>2, ReportsFinite
<1>4. f \in Bijection(S, T)
  <2>1. \A i \in S : i \in Nat /\ f[i] \in T
    BY <1>1 DEF Reports
  <2>2. \A i, j \in S : f[i] = f[j] => i = j
    BY <2>1
  <2>3. \A t \in T : t - 1 \in S /\ f[t - 1] = t
    BY <1>1 DEF Reports
  <2>4. f \in Injection(S, T)
    BY <2>1, <2>2 DEF Injection, IsInjective
  <2>5. f \in Surjection(S, T)
    BY <2>1, <2>3 DEF Surjection
  <2> QED BY <2>4, <2>5 DEF Bijection
<1>5. Cardinality(T) = Cardinality(S)
  BY <1>3, <1>4, FS_Bijection DEF ExistsBijection
<1>6. 1 \in Reports(s, c) <=> s[1].t = "completed" /\ s[1].h = c
  BY <1>1 DEF Reports
<1>7. Cardinality(T) = IF 1 \in Reports(s, c) THEN Cardinality(Reports(s, c)) - 1
                       ELSE Cardinality(Reports(s, c))
  BY <1>3, FS_RemoveElement
<1> QED BY <1>3, <1>5, <1>6, <1>7

Pending == held[conn] + Cardinality(Reports(evts, conn))

(* The packets of the connection: all that were sent and not reported      *)
(* while the link is open, and never fewer than the reports to come, so    *)
(* that conn_sent does not stop at zero.                                   *)
SentInv ==
  /\ conn = NoConn => connSent = 0
  /\ conn # NoConn => connSent >= Pending
  /\ conn \in links => connSent = Pending

(* Only the connection has packets with the adapter, and only its reports  *)
(* wait.                                                                   *)
HeldInv ==
  /\ \A h \in Handles : h # conn \/ h \notin links => held[h] = 0
  /\ \A i \in DOMAIN evts : evts[i].t = "completed" => evts[i].h = conn

CreditParts == credits + connSent = BUFFERS /\ SentInv /\ HeldInv
CreditInv == ~second => CreditParts

(* Notifications and responses go out, and nothing else happens to them.   *)
LEMMA CreditSend ==
  ASSUME TypeOK, CreditParts, SomeSent, UNCHANGED <<conn, links>>,
         \/ UNCHANGED evts
         \/ evts # <<>> /\ evts' = Tail(evts) /\ evts[1].t # "completed"
  PROVE  CreditParts'
<1>1. PICK k \in 0 .. credits : SentAcl(k)
  BY DEF SomeSent
<1>2. /\ evts \in Seq(Packets) /\ held \in [Handles -> Nat] /\ links \subseteq Handles
      /\ credits \in Nat /\ connSent \in Nat /\ conn \in Handles \cup {NoConn}
      /\ BUFFERS \in Nat
  BY BleAssumption DEF TypeOK, CtrlTypes, AdapterTypes
<1>3. Cardinality(Reports(evts', conn)) = Cardinality(Reports(evts, conn))
      /\ Cardinality(Reports(evts, conn)) \in Nat
  <2>1. CASE UNCHANGED evts
    BY <1>2, <2>1, ReportsFinite
  <2>2. CASE evts # <<>> /\ evts' = Tail(evts) /\ evts[1].t # "completed"
    <3>1. Cardinality(Reports(evts, conn)) \in Nat /\ Cardinality(Reports(evts', conn)) \in Nat
      BY <1>2, <2>2, ReportsFinite, TailIsSeq
    <3> QED BY <1>2, <2>2, <3>1, ReportsTail
  <2> QED BY <2>1, <2>2
<1>4. \A m \in DOMAIN evts' : \E i \in DOMAIN evts : evts'[m] = evts[i]
  BY <1>2, TailAt
<1>5. /\ credits' = credits - k /\ connSent' = connSent + k /\ k \in Nat
      /\ conn = NoConn => k = 0
      /\ held' = IF conn \in links THEN [held EXCEPT ![conn] = @ + k] ELSE held
  BY <1>1, <1>2 DEF SentAcl
<1>6. credits' + connSent' = BUFFERS
  BY <1>2, <1>5 DEF CreditParts
<1>7. HeldInv'
  BY <1>2, <1>4, <1>5 DEF CreditParts, HeldInv
<1>8. SentInv'
  <2>1. CASE conn = NoConn
    <3>1. conn \notin links
      BY <1>2, <2>1, BleAssumption DEF Handles, NoConn
    <3> QED BY <1>5, <2>1, <3>1 DEF CreditParts, SentInv
  <2>2. CASE conn # NoConn /\ conn \in links
    <3>1. held'[conn] = held[conn] + k /\ held[conn] \in Nat
      BY <1>2, <1>5, <2>2
    <3> QED BY <1>2, <1>3, <1>5, <2>2, <3>1 DEF CreditParts, SentInv, Pending
  <2>3. CASE conn # NoConn /\ conn \notin links
    <3>1. held'[conn] = held[conn] /\ held[conn] \in Nat
      BY <1>2, <1>5, <2>3
    <3> QED BY <1>2, <1>3, <1>5, <2>3, <3>1 DEF CreditParts, SentInv, Pending
  <2> QED BY <2>1, <2>2, <2>3
<1> QED BY <1>6, <1>7, <1>8 DEF CreditParts

(* The packets of the adapter about the links and the credits.             *)
LEMMA CreditPacket ==
  ASSUME TypeOK, LinkParts, CreditParts, evts # <<>>, evts' = Tail(evts), UNCHANGED links,
         \/ evts[1].t = "connected" /\ ConnectionComplete(evts[1].h)
         \/ evts[1].t = "disconnected" /\ DisconnectionComplete(evts[1].h)
         \/ evts[1].t = "completed" /\ CompletedPackets
  PROVE  CreditParts'
<1>1. /\ evts \in Seq(Packets) /\ held \in [Handles -> Nat] /\ links \subseteq Handles
      /\ credits \in Nat /\ connSent \in Nat /\ BUFFERS \in Nat
      /\ evts' \in Seq(Packets)
  BY BleAssumption, TailIsSeq DEF TypeOK, CtrlTypes, AdapterTypes
<1>2. \A m \in DOMAIN evts' : m + 1 \in DOMAIN evts /\ evts'[m] = evts[m + 1] /\ 1 < m + 1
  BY <1>1, TailAt
<1>3. 1 \in DOMAIN evts /\ DOMAIN evts' = 1 .. Len(evts')
  BY <1>1, TailAt
<1>4. /\ evts[1].t = "connected" => conn = NoConn
      /\ evts[1].t \in {"disconnected", "completed"} => conn = evts[1].h
  BY FirstPacket
<1>5. \A i \in DOMAIN evts : Of(i) => evts[i].h \in Handles /\ evts[i].h # NoConn
                                      /\ evts[i].h \in Nat
  BY PacketTypesAt
<1>6. Of(1)
  BY DEF Of, OfClient
<1>7. CASE evts[1].t = "connected" /\ ConnectionComplete(evts[1].h)
  <2>1. conn' = evts[1].h /\ UNCHANGED <<credits, connSent, held>> /\ conn = NoConn
    BY <1>4, <1>7 DEF ConnectionComplete
  <2>2. \A i \in DOMAIN evts : evts[i].t # "completed"
    BY <1>5, <2>1 DEF CreditParts, HeldInv, Of, OfClient
  <2>3. Reports(evts', conn') = {}
    BY <1>2, <1>3, <2>2 DEF Reports
  <2>4. Cardinality(Reports(evts', conn')) = 0
    BY <2>3, FS_EmptySet
  <2>5. \A h \in Handles : held[h] = 0
    BY <1>1, <2>1, BleAssumption DEF CreditParts, HeldInv, Handles, NoConn
  <2>6. held'[conn'] = 0 /\ connSent' = 0
    BY <1>3, <1>5, <1>6, <2>1, <2>5 DEF CreditParts, SentInv
  <2>7. SentInv'
    BY <2>4, <2>6 DEF SentInv, Pending
  <2>8. HeldInv'
    BY <1>2, <2>1, <2>2, <2>5 DEF HeldInv
  <2> QED BY <2>1, <2>7, <2>8 DEF CreditParts
<1>8. CASE evts[1].t = "disconnected" /\ DisconnectionComplete(evts[1].h)
  <2>1. /\ conn = evts[1].h /\ conn' = NoConn /\ credits' = credits + connSent
        /\ connSent' = 0 /\ UNCHANGED held
    BY <1>4, <1>8 DEF DisconnectionComplete
  <2>2. conn \notin links
    BY <1>3, <1>8, <2>1 DEF LinkParts, Newest
  <2>3. \A h \in Handles : held[h] = 0
    BY <2>2 DEF CreditParts, HeldInv
  <2>4. \A m \in DOMAIN evts' : evts'[m].t # "completed"
    <3> SUFFICES ASSUME NEW m \in DOMAIN evts', evts'[m].t = "completed" PROVE FALSE
      OBVIOUS
    <3>1. /\ m + 1 \in DOMAIN evts /\ 1 < m + 1 /\ evts[m + 1].t = "completed"
          /\ evts[m + 1].h = evts[1].h
      BY <1>2, <2>1 DEF CreditParts, HeldInv
    <3>2. Of(m + 1)
      BY <3>1 DEF Of, OfClient
    <3>3. evts[1].h < evts[m + 1].h
      BY <1>3, <1>6, <1>8, <3>1, <3>2 DEF LinkParts, Order
    <3> QED BY <1>3, <1>5, <1>6, <3>1, <3>3
  <2>5. NoConn \notin links
    BY <1>1, BleAssumption DEF Handles, NoConn
  <2>6. SentInv'
    BY <2>1, <2>5 DEF SentInv
  <2>7. HeldInv'
    BY <2>1, <2>3, <2>4 DEF HeldInv
  <2>8. credits' + connSent' = BUFFERS
    BY <1>1, <2>1 DEF CreditParts
  <2> QED BY <2>6, <2>7, <2>8 DEF CreditParts
<1>9. CASE evts[1].t = "completed" /\ CompletedPackets
  <2>1. /\ conn = evts[1].h /\ UNCHANGED <<conn, held>> /\ credits' = credits + 1
        /\ connSent' = IF connSent = 0 THEN 0 ELSE connSent - 1
    BY <1>4, <1>9 DEF CompletedPackets
  <2>2. conn \in Handles /\ conn # NoConn /\ held[conn] \in Nat
    BY <1>1, <1>3, <1>5, <1>6, <2>1
  <2> DEFINE old == Cardinality(Reports(evts, conn))
             new == Cardinality(Reports(evts', conn))
  <2>3. old = new + 1 /\ new \in Nat /\ old \in Nat
    <3>1. old = new + (IF evts[1].t = "completed" /\ evts[1].h = conn THEN 1 ELSE 0)
      BY <1>1, ReportsTail
    <3>2. new \in Nat
      BY <1>1, ReportsFinite
    <3> QED BY <1>9, <2>1, <3>1, <3>2
  <2>4. /\ connSent >= held[conn] + old
        /\ conn \in links => connSent = held[conn] + old
    BY <2>2 DEF CreditParts, SentInv, Pending
  <2> HIDE DEF old, new
  <2>5. connSent' = connSent - 1 /\ connSent' \in Nat
    BY <1>1, <2>1, <2>2, <2>3, <2>4
  <2>6. /\ connSent' >= held[conn] + new
        /\ conn \in links => connSent' = held[conn] + new
    BY <1>1, <2>2, <2>3, <2>4, <2>5
  <2>7. SentInv'
    BY <2>1, <2>2, <2>6 DEF SentInv, Pending, new
  <2>8. HeldInv'
    BY <1>2, <2>1 DEF CreditParts, HeldInv
  <2>9. credits' + connSent' = BUFFERS
    BY <1>1, <2>1, <2>5 DEF CreditParts
  <2> QED BY <2>7, <2>8, <2>9 DEF CreditParts
<1> QED BY <1>7, <1>8, <1>9

(* A packet is added: a client connects or goes, or a report of a packet   *)
(* that the adapter had.                                                   *)
LEMMA CreditAppend ==
  ASSUME TypeOK, LinkParts, CreditParts, NEW e \in Packets, evts' = Append(evts, e),
         UNCHANGED <<conn, credits, connSent>>,
         \/ e.t \in HciAnswers \cup {"acl"} /\ UNCHANGED <<links, held>>
         \/ e.t = "connected" /\ e.h = conns + 1 /\ links' = links \cup {e.h} /\ UNCHANGED held
         \/ /\ e.t = "disconnected" /\ e.h \in links
            /\ links' = links \ {e.h} /\ held' = [held EXCEPT ![e.h] = 0]
         \/ /\ e.t = "completed" /\ e.h \in links /\ UNCHANGED links /\ held[e.h] > 0
            /\ held' = [held EXCEPT ![e.h] = @ - 1]
  PROVE  CreditParts'
<1>1. /\ evts \in Seq(Packets) /\ held \in [Handles -> Nat] /\ links \subseteq Handles
      /\ credits \in Nat /\ connSent \in Nat /\ conn \in Handles \cup {NoConn}
  BY DEF TypeOK, CtrlTypes, AdapterTypes
<1>2. \A m \in DOMAIN evts' : evts'[m] = e \/ \E i \in DOMAIN evts : evts'[m] = evts[i]
  BY <1>1, AppendAt
<1> DEFINE old == Cardinality(Reports(evts, conn))
           new == Cardinality(Reports(evts', conn))
<1>3. new = old + (IF e.t = "completed" /\ e.h = conn THEN 1 ELSE 0) /\ old \in Nat
  BY <1>1, ReportsAppend, ReportsFinite
<1>4. /\ conn # NoConn => connSent >= held[conn] + old
      /\ conn \in links => connSent = held[conn] + old
      /\ conn = NoConn => connSent = 0
  BY DEF CreditParts, SentInv, Pending
<1>5. NoConn \notin links /\ NoConn \notin Handles
  BY <1>1, BleAssumption DEF Handles, NoConn
<1>6. SUFFICES /\ conn # NoConn => connSent >= held'[conn] + new
               /\ conn \in links' /\ conn # NoConn => connSent = held'[conn] + new
               /\ NoConn \notin links'
               /\ HeldInv'
  BY <1>4 DEF CreditParts, SentInv, Pending
<1> HIDE DEF old, new
<1>7. CASE e.t \in HciAnswers \cup {"acl"} /\ UNCHANGED <<links, held>>
  <2>1. new = old /\ e.t # "completed"
    BY <1>3, <1>7 DEF HciAnswers
  <2>2. HeldInv'
    BY <1>2, <1>7, <2>1 DEF CreditParts, HeldInv
  <2> QED BY <1>4, <1>5, <1>7, <2>1, <2>2
<1>8. CASE e.t = "connected" /\ e.h = conns + 1 /\ links' = links \cup {e.h} /\ UNCHANGED held
  <2>1. new = old /\ e.h \in Handles
    <3>1. e.h \in Handles
      BY <1>8 DEF Packets, HciAnswers
    <3>2. e.t # "completed"
      BY <1>8
    <3> QED BY <1>3, <3>1, <3>2
  <2>2. conn # e.h
    <3>1. MaxConns \in Nat
      BY BleAssumption
    <3>2. conns \in Nat /\ conn <= conns /\ conn \in Nat
      BY <3>1 DEF LinkParts, Newest, TypeOK, CtrlTypes, AdapterTypes, Handles, NoConn
    <3> QED BY <1>8, <3>2
  <2>3. HeldInv'
    BY <1>2, <1>8 DEF CreditParts, HeldInv
  <2> QED BY <1>4, <1>5, <1>8, <2>1, <2>2, <2>3
<1>9. CASE /\ e.t = "disconnected" /\ e.h \in links
           /\ links' = links \ {e.h} /\ held' = [held EXCEPT ![e.h] = 0]
  <2>1. new = old
    BY <1>3, <1>9
  <2>2. HeldInv'
    BY <1>1, <1>2, <1>9 DEF CreditParts, HeldInv
  <2>3. conn # NoConn => held'[conn] \in Nat /\ held'[conn] <= held[conn] /\ held[conn] \in Nat
                         /\ (conn \in links' => held'[conn] = held[conn])
    BY <1>1, <1>9
  <2> QED BY <1>1, <1>3, <1>4, <1>5, <1>9, <2>1, <2>2, <2>3
<1>10. CASE /\ e.t = "completed" /\ e.h \in links /\ UNCHANGED links /\ held[e.h] > 0
            /\ held' = [held EXCEPT ![e.h] = @ - 1]
  <2>1. e.h = conn /\ conn # NoConn
    BY <1>1, <1>5, <1>10 DEF CreditParts, HeldInv
  <2>2. new = old + 1
    BY <1>3, <1>10, <2>1
  <2>3. held'[conn] = held[conn] - 1 /\ held[conn] \in Nat
    BY <1>1, <1>10, <2>1
  <2>4. HeldInv'
    BY <1>1, <1>2, <1>10, <2>1 DEF CreditParts, HeldInv
  <2> QED BY <1>1, <1>3, <1>4, <1>5, <1>10, <2>1, <2>2, <2>3, <2>4
<1> QED BY <1>7, <1>8, <1>9, <1>10

LEMMA StepCredits == TypeOK /\ LinkInv /\ CreditInv /\ [Next]_vars => CreditInv'
<1> SUFFICES ASSUME TypeOK, LinkInv, CreditInv, [Next]_vars, ~second' PROVE CreditParts'
  BY DEF CreditInv
<1>1. CASE Elsewhere
  <2>1. UNCHANGED <<evts, links, conn, second, held, credits, connSent>>
    BY <1>1, ElsewhereEffect
  <2> QED BY <2>1 DEF CreditInv, CreditParts, SentInv, HeldInv, Pending
<1>2. CASE JoinConnected \/ JoinLate
  <2>1. SomeSent /\ UNCHANGED <<evts, links, conn, second>>
    BY <1>2, JoinKeeps
  <2> QED BY <2>1, CreditSend DEF CreditInv
<1>3. CASE CmdAnswer
  <2>1. /\ evts # <<>> /\ evts' = Tail(evts) /\ Head(evts).t \in HciAnswers
        /\ UNCHANGED <<links, conn, second, held, credits, connSent>>
    BY <1>3, AnswerEffect
  <2>2. SomeSent
    BY <2>1, NoneSent
  <2>3. evts[1].t # "completed"
    BY <2>1, FirstPacket DEF LinkInv, HciAnswers
  <2> QED BY <2>1, <2>2, <2>3, CreditSend DEF CreditInv
<1>4. CASE CmdOther \/ PollPacket
  <2>1. handle_packet
    BY <1>4 DEF CmdOther, PollPacket
  <2> DEFINE e == Head(evts)
  <2>2. /\ evts # <<>> /\ evts' = Tail(evts) /\ UNCHANGED <<links, second>>
        /\ \/ e.t = "connected" /\ ConnectionComplete(e.h)
           \/ e.t = "disconnected" /\ DisconnectionComplete(e.h)
           \/ e.t = "completed" /\ CompletedPackets
           \/ e.t = "acl" /\ OnWrite(e)
           \/ e.t \in HciAnswers /\ Ignored
    BY <2>1, PacketEffect
  <2>3. LinkParts /\ CreditParts /\ e = evts[1]
    BY <2>2, FirstPacket DEF LinkInv, CreditInv
  <2>4. CASE \/ e.t = "connected" /\ ConnectionComplete(e.h)
             \/ e.t = "disconnected" /\ DisconnectionComplete(e.h)
             \/ e.t = "completed" /\ CompletedPackets
    BY <2>2, <2>3, <2>4, CreditPacket
  <2>5. CASE e.t = "acl" /\ OnWrite(e)
    BY <2>2, <2>3, <2>5, CreditSend DEF OnWrite
  <2>6. CASE e.t \in HciAnswers /\ Ignored
    <3>1. SomeSent /\ UNCHANGED conn
      BY <2>6, NoneSent DEF Ignored
    <3> QED BY <2>2, <2>3, <2>6, <3>1, CreditSend DEF HciAnswers
  <2> QED BY <2>2, <2>4, <2>5, <2>6
<1>5. CASE AdapterCommand
  <2>1. UNCHANGED <<links, conn, second, held, credits, connSent>>
    BY <1>5, AdapterEffect
  <2>2. PICK e \in Packets : e.t \in HciAnswers /\ evts' = Append(evts, e)
    BY <1>5, AdapterEffect
  <2> QED BY <2>1, <2>2, CreditAppend DEF LinkInv, CreditInv
<1>6. CASE ClientConnects
  <2>1. PICK e \in Packets : /\ e.t = "connected" /\ e.h = conns + 1
                             /\ evts' = Append(evts, e) /\ links' = links \cup {e.h}
    BY <1>6, ConnectEffect
  <2>2. UNCHANGED <<conn, held, credits, connSent>> /\ ~second
    BY <1>6, ConnectEffect
  <2> QED BY <2>1, <2>2, CreditAppend DEF LinkInv, CreditInv
<1>7. CASE ClientGoes \/ ClientWrites \/ PacketSent
  <2>1. UNCHANGED <<conn, second, credits, connSent>>
    BY <1>7, LinkEffect
  <2>2. PICK e \in Packets :
          /\ e.h \in links /\ evts' = Append(evts, e)
          /\ \/ /\ e.t = "disconnected" /\ links' = links \ {e.h}
                /\ held' = [held EXCEPT ![e.h] = 0]
             \/ e.t = "acl" /\ UNCHANGED <<links, held>>
             \/ /\ e.t = "completed" /\ UNCHANGED links /\ held[e.h] > 0
                /\ held' = [held EXCEPT ![e.h] = @ - 1]
    BY <1>7, LinkEffect
  <2>3. LinkParts /\ CreditParts
    BY <2>1 DEF LinkInv, CreditInv
  <2> QED BY <2>1, <2>2, <2>3, CreditAppend
<1> QED BY <1>1, <1>2, <1>3, <1>4, <1>5, <1>6, <1>7, StepSplit

(* CreditsConserved for every number of buffers, clients and packets: with *)
(* one client at a time no credit is lost or comes back twice, whichever   *)
(* of the reports and the disconnection of a link is read first.           *)
THEOREM CreditsCorrect == Spec => []CreditsConserved
<1>1. Init => CreditInv
  <2> SUFFICES ASSUME Init PROVE CreditParts
    BY DEF CreditInv
  <2>1. /\ credits = BUFFERS /\ connSent = 0 /\ conn = NoConn /\ links = {} /\ evts = <<>>
        /\ held = [h \in Handles |-> 0]
    BY DEF Init
  <2>2. credits + connSent = BUFFERS
    <3>1. BUFFERS \in Nat
      BY BleAssumption
    <3> QED BY <2>1, <3>1
  <2>3. DOMAIN evts = {}
    BY <2>1
  <2> QED BY <2>1, <2>2, <2>3 DEF CreditParts, SentInv, HeldInv
<1>2. TypeOK /\ CreditInv => CreditsConserved
  BY DEF TypeOK, CtrlTypes, CreditInv, CreditParts, SentInv, Pending, Reports,
         CreditsConserved, ConnSentIsOfConnection
<1> QED BY <1>1, <1>2, InitTypes, StepTypes, InitLinks, StepLinks, StepCredits, PTL DEF Spec

-----------------------------------------------------------------------------
(* The proxy: what a batch of advertisements takes.                        *)

(* Induction over a number, from the pigeonhole principle.                 *)
LEMMA SetInduction ==
  ASSUME NEW n \in Nat, NEW A, A \subseteq 0 .. n, 0 \in A,
         \A i \in A : i < n => i + 1 \in A
  PROVE  n \in A
<1> SUFFICES ASSUME n \notin A PROVE FALSE
  OBVIOUS
<1>1. IsFiniteSet(A)
  <2>1. IsFiniteSet(0 .. n)
    BY FS_Interval
  <2> QED
    BY <2>1, FS_Subset
<1> DEFINE B == A \ {0}
<1>2. IsFiniteSet(B) /\ Cardinality(B) = Cardinality(A) - 1
  BY <1>1, FS_RemoveElement
<1>3. Cardinality(A) \in Nat /\ Cardinality(B) \in Nat
  BY <1>1, <1>2, FS_CardinalityType
<1>4. Cardinality(B) < Cardinality(A)
  BY <1>2, <1>3
<1> DEFINE f == [i \in A |-> i + 1]
<1>5. f \in [A -> B]
  <2> SUFFICES ASSUME NEW i \in A PROVE i + 1 \in B
    OBVIOUS
  <2>1. i \in 0 .. n /\ i # n
    OBVIOUS
  <2> QED
    BY <2>1
<1> HIDE DEF B
<1>6. PICK x \in A, y \in A : x # y /\ f[x] = f[y]
  <2> HIDE DEF f
  <2> QED
    BY <1>1, <1>2, <1>4, <1>5, FS_PigeonHole
<1>7. x \in Nat /\ y \in Nat
  OBVIOUS
<1> QED
  BY <1>6, <1>7

(* The smallest, when it is known.                                         *)
LEMMA MinIs ==
  ASSUME NEW S, S \subseteq Int, NEW m \in S, \A k \in S : m <= k
  PROVE  Min(S) = m
<1>1. \E x \in S : \A y \in S : x <= y
  OBVIOUS
<1>2. Min(S) \in S /\ \A y \in S : Min(S) <= y
  BY <1>1, Zenon DEF Min
<1>3. Min(S) \in Int /\ m \in Int /\ Min(S) <= m /\ m <= Min(S)
  BY <1>2
<1> QED BY <1>3

(* The smaller of two.                                                     *)
LEMMA MinTwo ==
  ASSUME NEW a \in Int, NEW b \in Int
  PROVE  Min({a, b}) = IF a <= b THEN a ELSE b
<1> DEFINE S == {a, b}
           m == IF a <= b THEN a ELSE b
<1>1. S \subseteq Int /\ m \in S /\ \A k \in S : m <= k
  OBVIOUS
<1> HIDE DEF S, m
<1>2. Min(S) = m
  BY <1>1, MinIs
<1> QED BY <1>2 DEF S, m

-----------------------------------------------------------------------------
(* Varints.                                                                *)
Shifted(v) ==
  LET shift[k \in 0 .. 4] == IF k = 0 THEN v ELSE shift[k - 1] \div 128 IN shift

(* pb_varint() shifts by seven bits each time.                             *)
LEMMA ShiftedIs ==
  ASSUME NEW v
  PROVE  Shifted(v) = [k \in 0 .. 4 |-> IF k = 0 THEN v ELSE Shifted(v)[k - 1] \div 128]
<1> DEFINE a == v \div 128
           b == a \div 128
           c == b \div 128
           d == c \div 128
           f == [k \in 0 .. 4 |-> IF k = 0 THEN v ELSE IF k = 1 THEN a
                                  ELSE IF k = 2 THEN b ELSE IF k = 3 THEN c ELSE d]
<1>1. f = [k \in 0 .. 4 |-> IF k = 0 THEN v ELSE f[k - 1] \div 128]
  <2>1. ASSUME NEW k \in 0 .. 4, k # 0 PROVE f[k] = f[k - 1] \div 128
    <3>1. f[0] = v /\ f[1] = a /\ f[2] = b /\ f[3] = c /\ f[4] = d
      OBVIOUS
    <3>2. k = 1 \/ k = 2 \/ k = 3 \/ k = 4
      BY <2>1
    <3> HIDE DEF f
    <3>3. CASE k = 1
      BY <3>1, <3>3
    <3>4. CASE k = 2
      BY <3>1, <3>4
    <3>5. CASE k = 3
      BY <3>1, <3>5
    <3>6. CASE k = 4
      BY <3>1, <3>6
    <3> QED BY <3>2, <3>3, <3>4, <3>5, <3>6
  <2>2. f[0] = v
    OBVIOUS
  <2>3. f = [k \in 0 .. 4 |-> f[k]]
    OBVIOUS
  <2> HIDE DEF f
  <2> QED BY <2>1, <2>2, <2>3
<1> HIDE DEF f
<1> QED BY <1>1 DEF Shifted

Ends(v, n) == Shifted(v)[n] = 0 /\ \A k \in 1 .. n - 1 : Shifted(v)[k] # 0

(* Each group is what the one before leaves.                               *)
LEMMA ShiftFacts ==
  ASSUME NEW v \in Nat
  PROVE  /\ Shifted(v)[0] = v /\ \A k \in 0 .. 4 : Shifted(v)[k] \in Nat
         /\ \A k \in 1 .. 4 : Shifted(v)[k] = Shifted(v)[k - 1] \div 128
<1> DEFINE s == Shifted(v)
<1>1. s[0] = v /\ \A k \in 1 .. 4 : s[k] = s[k - 1] \div 128
  BY ShiftedIs
<1> HIDE DEF s
<1>2. s[1] \in Nat /\ s[1] = s[0] \div 128
  BY <1>1
<1>3. s[2] \in Nat /\ s[2] = s[1] \div 128
  BY <1>1, <1>2
<1>4. s[3] \in Nat /\ s[3] = s[2] \div 128
  BY <1>1, <1>3
<1>5. s[4] \in Nat /\ s[4] = s[3] \div 128
  BY <1>1, <1>4
<1>6. \A k \in 0 .. 4 : s[k] \in Nat
  BY <1>1, <1>2, <1>3, <1>4, <1>5
<1> QED BY <1>1, <1>6 DEF s

(* The bytes of a varint whose length is known.                            *)
LEMMA VarintIs ==
  ASSUME NEW v \in Nat, NEW n \in 1 .. 4, Ends(v, n)
  PROVE  pb_varint(v) = [i \in 1 .. n |-> (Shifted(v)[i - 1] % 128) + (IF i < n THEN 128 ELSE 0)]
<1> DEFINE s == Shifted(v)
           z == {k \in 1 .. 4 : s[k] = 0}
<1>1. pb_varint(v) = [i \in 1 .. Min(z) |-> (s[i - 1] % 128) + (IF i < Min(z) THEN 128 ELSE 0)]
  BY DEF pb_varint, Shifted
<1>2. z \subseteq Int /\ n \in z /\ \A k \in z : n <= k
  BY DEF Ends
<1> HIDE DEF z, s
<1>3. Min(z) = n
  BY <1>2, MinIs
<1> QED BY <1>1, <1>3 DEF s

(* A number of one byte, or of two.                                        *)
LEMMA VarintLen ==
  ASSUME NEW v \in 0 .. 255
  PROVE  Len(pb_varint(v)) = IF v < 128 THEN 1 ELSE 2
<1> DEFINE s == Shifted(v)
           n == IF v < 128 THEN 1 ELSE 2
<1>1. s[0] = v /\ s[1] = s[0] \div 128 /\ s[2] = s[1] \div 128
  BY ShiftFacts
<1> HIDE DEF s
<1>2. IF v < 128 THEN s[1] = 0 ELSE s[1] # 0 /\ s[2] = 0
  BY <1>1
<1>3. n \in 1 .. 4 /\ v \in Nat
  OBVIOUS
<1>4. Ends(v, n)
  BY <1>2 DEF Ends, s
<1> HIDE DEF n
<1>5. pb_varint(v) = [i \in 1 .. n |-> (s[i - 1] % 128) + (IF i < n THEN 128 ELSE 0)]
  BY <1>3, <1>4, VarintIs DEF s
<1>6. Len(pb_varint(v)) = n
  BY <1>3, <1>5
<1> QED BY <1>6 DEF n

-----------------------------------------------------------------------------
(* Batches.                                                                *)
Received == [bits : 0 .. 48, rssi : -128 .. 127, type : 0 .. 127, len : Nat,
             cut : BOOLEAN, id : Nat \X Nat]

(* An advertisement takes at most 46 bytes, and 48 with its field.         *)
LEMMA AdvFits ==
  ASSUME NEW a \in Received, a.len <= ADV_MAX
  PROVE  AdvLen(a) \in 0 .. 46 /\ AdvField(a) \in 0 .. 48
<1>1. /\ a.bits \in 0 .. 48 /\ a.rssi \in -128 .. 127 /\ a.type \in 0 .. 127
      /\ a.len \in 0 .. 31
  <2>1. /\ a.bits \in 0 .. 48 /\ a.rssi \in -128 .. 127 /\ a.type \in 0 .. 127
        /\ a.len \in Nat
    BY DEF Received
  <2>2. a.len <= 31
    BY ApiAssumption
  <2> QED BY <2>1, <2>2
<1>2. pb_uint_bits(a.bits) \in 0 .. 8
  <2> DEFINE x == a.bits
  <2>1. x \in 0 .. 48
    BY <1>1
  <2> HIDE DEF x
  <2>2. (x + 6) \div 7 \in 0 .. 7
    BY <2>1
  <2>3. pb_uint_bits(x) \in 0 .. 8
    BY <2>1, <2>2 DEF pb_uint_bits
  <2> QED BY <2>3 DEF x
<1>3. pb_uint(Zigzag(a.rssi)) \in 0 .. 3
  <2> DEFINE z == Zigzag(a.rssi)
  <2>1. z \in 0 .. 255
    BY <1>1 DEF Zigzag
  <2> HIDE DEF z
  <2>2. Len(pb_varint(z)) \in 1 .. 2
    BY <2>1, VarintLen
  <2> DEFINE l == Len(pb_varint(z))
  <2>3. pb_uint(z) \in 0 .. 3
    <3>1. pb_uint(z) = IF z = 0 THEN 0 ELSE 1 + l
      BY DEF pb_uint
    <3>2. l \in 1 .. 2
      BY <2>2
    <3> HIDE DEF l
    <3> QED BY <3>1, <3>2
  <2> QED BY <2>3 DEF z
<1>4. pb_uint(a.type) \in 0 .. 2
  <2>1. a.type \in 0 .. 255 /\ a.type < 128
    BY <1>1
  <2>2. Len(pb_varint(a.type)) = 1
    BY <2>1, VarintLen
  <2> QED BY <2>2 DEF pb_uint
<1>5. pb_bytes(a.len) \in 0 .. 33
  <2>1. a.len \in 0 .. 255 /\ a.len < 128
    BY <1>1
  <2>2. Len(pb_varint(a.len)) = 1
    BY <2>1, VarintLen
  <2> QED BY <1>1, <2>2 DEF pb_bytes
<1>6. AdvLen(a) \in 0 .. 46
  BY <1>2, <1>3, <1>4, <1>5 DEF AdvLen
<1>7. Len(pb_varint(AdvLen(a))) = 1
  <2>1. AdvLen(a) \in 0 .. 255 /\ AdvLen(a) < 128
    BY <1>6
  <2> QED BY <2>1, VarintLen
<1> QED BY <1>6, <1>7 DEF AdvField

IsTotal(ads, p, n) == p = [i \in 0 .. n |-> IF i = 0 THEN 0 ELSE p[i - 1] + AdvField(ads[i])]
Total(ads) ==
  LET p[i \in 0 .. Len(ads)] == IF i = 0 THEN 0 ELSE p[i - 1] + AdvField(ads[i]) IN p

(* api_adv_batch() adds one field at a time.                               *)
LEMMA TotalIs == ASSUME NEW ads, Len(ads) \in Nat PROVE IsTotal(ads, Total(ads), Len(ads))
<1> DEFINE A == {n \in 0 .. Len(ads) : \E p : IsTotal(ads, p, n)}
<1>1. 0 \in A
  <2>1. IsTotal(ads, [i \in 0 .. 0 |-> 0], 0)
    BY DEF IsTotal
  <2> QED BY <2>1
<1>2. \A n \in A : n < Len(ads) => n + 1 \in A
  <2> SUFFICES ASSUME NEW n \in A, n < Len(ads) PROVE \E p : IsTotal(ads, p, n + 1)
    OBVIOUS
  <2>1. PICK p : IsTotal(ads, p, n)
    OBVIOUS
  <2> DEFINE v == p[n] + AdvField(ads[n + 1])
             q == [i \in 0 .. n + 1 |-> IF i = n + 1 THEN v ELSE p[i]]
  <2>2. IsTotal(ads, q, n + 1)
    BY <2>1 DEF IsTotal
  <2> QED BY <2>2
<1>3. Len(ads) \in A
  <2>1. A \subseteq 0 .. Len(ads)
    OBVIOUS
  <2> HIDE DEF A
  <2> QED BY <1>1, <1>2, <2>1, SetInduction
<1> QED BY <1>3 DEF IsTotal, Total

(* A field more.                                                           *)
LEMMA OneMore ==
  ASSUME NEW i \in Nat, NEW a \in Nat, NEW b \in 0 .. 48, a <= i * 48
  PROVE  a + b \in Nat /\ a + b <= (i + 1) * 48
OBVIOUS

(* A batch takes at most 48 bytes for each advertisement.                  *)
LEMMA BatchLen ==
  ASSUME NEW ads \in Seq(Received), \A i \in 1 .. Len(ads) : ads[i].len <= ADV_MAX
  PROVE  api_adv_batch(ads) \in Nat /\ api_adv_batch(ads) <= Len(ads) * 48
<1> DEFINE p == Total(ads)
           l == Len(ads)
<1>1. l \in Nat /\ api_adv_batch(ads) = p[l]
  BY DEF api_adv_batch, Total
<1>2. p[0] = 0 /\ \A i \in 1 .. l : p[i] = p[i - 1] + AdvField(ads[i])
  <2>1. IsTotal(ads, p, l)
    BY <1>1, TotalIs
  <2> HIDE DEF p, l
  <2> QED BY <1>1, <2>1 DEF IsTotal
<1>3. \A i \in 1 .. l : AdvField(ads[i]) \in 0 .. 48
  <2> SUFFICES ASSUME NEW i \in 1 .. l PROVE AdvField(ads[i]) \in 0 .. 48
    OBVIOUS
  <2>1. ads[i] \in Received /\ ads[i].len <= ADV_MAX
    OBVIOUS
  <2> QED BY <2>1, AdvFits
<1> HIDE DEF p
<1> DEFINE A == {i \in 0 .. l : p[i] \in Nat /\ p[i] <= i * 48}
<1>4. 0 \in A
  BY <1>1, <1>2
<1>5. \A i \in A : i < l => i + 1 \in A
  <2> SUFFICES ASSUME NEW i \in A, i < l PROVE i + 1 \in A
    OBVIOUS
  <2>1. i + 1 \in 1 .. l /\ i \in Nat /\ p[i] \in Nat /\ p[i] <= i * 48 /\ i + 1 \in 0 .. l
    BY <1>1
  <2> HIDE DEF l
  <2>2. p[i + 1] = p[i] + AdvField(ads[i + 1]) /\ AdvField(ads[i + 1]) \in 0 .. 48
    <3>1. (i + 1) - 1 = i
      BY <2>1
    <3> QED BY <1>2, <1>3, <2>1, <3>1
  <2>3. p[i + 1] \in Nat /\ p[i + 1] <= (i + 1) * 48
    BY <2>1, <2>2, OneMore
  <2> QED BY <2>1, <2>3
<1>6. l \in A
  <2>1. A \subseteq 0 .. l
    OBVIOUS
  <2> HIDE DEF A, l
  <2> QED BY <1>1, <1>4, <1>5, <2>1, SetInduction
<1> QED BY <1>1, <1>6

BatchTypes ==
  adverts \in Seq(Received) /\ hciq \in Seq(Seq(Received)) /\ nevts \in Nat
BatchInv ==
  /\ BatchTypes
  /\ Len(adverts) <= ADV_BATCH
  /\ \A i \in 1 .. Len(adverts) : adverts[i].len <= ADV_MAX

(* The largest is one of them.                                             *)
LEMMA MaxIs ==
  ASSUME NEW n \in Nat, NEW S, S \subseteq 0 .. n, 0 \in S
  PROVE  Max(S) \in S
<1>1. SUFFICES \E x \in S : \A y \in S : x >= y
  BY Zenon DEF Max
<1>2. SUFFICES ASSUME \A x \in S : \E y \in S : ~(x >= y) PROVE FALSE
  OBVIOUS
<1> DEFINE A == {i \in 0 .. n : \E y \in S : y >= i}
<1>3. 0 \in A
  OBVIOUS
<1>4. \A i \in A : i < n => i + 1 \in A
  <2> SUFFICES ASSUME NEW i \in A, i < n PROVE i + 1 \in A
    OBVIOUS
  <2>1. PICK y \in S : y >= i
    OBVIOUS
  <2>2. PICK z \in S : ~(y >= z)
    BY <1>2
  <2>3. z >= i + 1 /\ i + 1 \in 0 .. n
    BY <2>1, <2>2
  <2> QED BY <2>3
<1>5. n \in A
  <2>1. A \subseteq 0 .. n
    OBVIOUS
  <2> HIDE DEF A
  <2> QED BY <1>3, <1>4, <2>1, SetInduction
<1>6. PICK y \in S : y >= n
  BY <1>5
<1>7. PICK z \in S : ~(y >= z)
  BY <1>2
<1> QED BY <1>6, <1>7

(* The reports of an event that are taken are its first ones, and short.   *)
LEMMA ParseIs ==
  ASSUME NEW ev \in Seq(Received)
  PROVE  \E m \in 0 .. Len(ev) :
           /\ hci_parse_adv_reports(ev) = SubSeq(ev, 1, m)
           /\ \A i \in 1 .. m : ev[i].len <= ADV_MAX
<1> DEFINE x == Min({Len(ev), MAX_REPORTS})
           S == {n \in 0 .. x : \A i \in 1 .. n : ev[i].len <= ADV_MAX /\ ~ev[i].cut}
<1>1. x \in Nat /\ x <= Len(ev)
  <2>1. Len(ev) \in Nat /\ MAX_REPORTS \in Nat
    BY ApiAssumption
  <2>2. x = IF Len(ev) <= MAX_REPORTS THEN Len(ev) ELSE MAX_REPORTS
    BY <2>1, MinTwo
  <2> HIDE DEF x
  <2> QED BY <2>1, <2>2
<1>2. hci_parse_adv_reports(ev) = SubSeq(ev, 1, Max(S))
  BY DEF hci_parse_adv_reports
<1> HIDE DEF x
<1>3. S \subseteq 0 .. x /\ 0 \in S
  BY <1>1
<1>4. Max(S) \in S
  <2> HIDE DEF S
  <2> QED BY <1>1, <1>3, MaxIs
<1>5. Max(S) \in 0 .. Len(ev) /\ \A i \in 1 .. Max(S) : ev[i].len <= ADV_MAX
  BY <1>1, <1>4
<1> QED BY <1>2, <1>5

(* A report that is read: some of its advertisements join the batch.       *)
Joined(n) ==
  /\ Len(hciq) # 0 /\ Head(hciq) \in Seq(Received)
  /\ n \in 0 .. Len(Head(hciq)) /\ Len(adverts) + n <= ADV_BATCH
  /\ \A i \in 1 .. n : Head(hciq)[i].len <= ADV_MAX
  /\ adverts' = adverts \o SubSeq(Head(hciq), 1, n)

(* What a report adds to the batch.                                        *)
LEMMA ReportJoins ==
  ASSUME BatchInv, HandleReport
  PROVE  \E n : Joined(n)
<1> DEFINE ev == Head(hciq)
           ads == hci_parse_adv_reports(ev)
           room == Min({Len(ads), ADV_BATCH - Len(adverts)})
<1>1. /\ Len(hciq) # 0 /\ ev \in Seq(Received)
      /\ adverts' = IF scan THEN adverts \o SubSeq(ads, 1, room) ELSE adverts
      /\ ADV_BATCH \in Nat /\ Len(adverts) \in Nat /\ Len(adverts) <= ADV_BATCH
      /\ adverts \in Seq(Received)
  BY ApiAssumption DEF HandleReport, le_meta, BatchInv, BatchTypes
<1> HIDE DEF ev
<1>2. PICK m \in 0 .. Len(ev) : /\ ads = SubSeq(ev, 1, m)
                                /\ \A i \in 1 .. m : ev[i].len <= ADV_MAX
  BY <1>1, ParseIs
<1> HIDE DEF ads
<1>3. Len(ads) = m /\ m \in Nat /\ Len(ev) \in Nat
  BY <1>1, <1>2
<1>4. room \in 0 .. m /\ Len(adverts) + room <= ADV_BATCH
  <2> DEFINE y == ADV_BATCH - Len(adverts)
  <2>1. y \in Nat /\ Len(adverts) + y = ADV_BATCH
    BY <1>1
  <2>2. room = Min({m, y})
    BY <1>3
  <2> HIDE DEF y, room
  <2>3. room = IF m <= y THEN m ELSE y
    BY <1>3, <2>1, <2>2, MinTwo
  <2> QED BY <1>1, <1>3, <2>1, <2>3
<1> HIDE DEF room
<1>5. CASE scan
  <2>1. SubSeq(ads, 1, room) = SubSeq(ev, 1, room)
    <3>1. room \in 0 .. Len(ads) /\ ads \in Seq(Received)
      BY <1>1, <1>2, <1>3, <1>4
    <3>2. room \in 0 .. Len(ev)
      BY <1>2, <1>4
    <3>3. \A i \in 1 .. room : ads[i] = ev[i]
      BY <1>1, <1>2, <1>4
    <3> QED BY <1>1, <3>1, <3>2, <3>3
  <2>2. Joined(room)
    BY <1>1, <1>2, <1>4, <1>5, <2>1 DEF Joined, ev
  <2> QED BY <2>2
<1>6. CASE ~scan
  <2>1. adverts \o SubSeq(ev, 1, 0) = adverts
    BY <1>1
  <2>2. Joined(0)
    BY <1>1, <1>6, <2>1 DEF Joined, ev
  <2> QED BY <2>2
<1> QED BY <1>5, <1>6

Kept == UNCHANGED adverts \/ adverts' = <<>> \/ \E n : Joined(n)

(* A batch that stays, or goes, still fits.                                *)
LEMMA KeptFits ==
  ASSUME BatchInv, Kept, (hciq \in Seq(Seq(Received)))', (nevts \in Nat)'
  PROVE  BatchInv'
<1>1. adverts \in Seq(Received) /\ Len(adverts) <= ADV_BATCH /\ ADV_BATCH \in Nat
      /\ \A i \in 1 .. Len(adverts) : adverts[i].len <= ADV_MAX
  BY ApiAssumption DEF BatchInv, BatchTypes
<1>2. /\ adverts' \in Seq(Received) /\ Len(adverts') <= ADV_BATCH
      /\ \A i \in 1 .. Len(adverts') : adverts'[i].len <= ADV_MAX
  <2>1. CASE UNCHANGED adverts
    BY <1>1, <2>1
  <2>2. CASE adverts' = <<>>
    BY <1>1, <2>2
  <2>3. ASSUME NEW n, Joined(n)
        PROVE  /\ adverts' \in Seq(Received) /\ Len(adverts') <= ADV_BATCH
               /\ \A i \in 1 .. Len(adverts') : adverts'[i].len <= ADV_MAX
    <3> DEFINE t == SubSeq(Head(hciq), 1, n)
               ev == Head(hciq)
    <3>1. /\ ev \in Seq(Received) /\ n \in 0 .. Len(ev) /\ Len(adverts) + n <= ADV_BATCH
          /\ \A i \in 1 .. n : ev[i].len <= ADV_MAX
          /\ adverts' = adverts \o t
      BY <2>3 DEF Joined
    <3> HIDE DEF ev
    <3>2. t \in Seq(Received) /\ Len(t) = n /\ \A i \in 1 .. n : t[i] = ev[i]
      BY <3>1 DEF ev
    <3> HIDE DEF t
    <3>3. /\ adverts \o t \in Seq(Received) /\ Len(adverts \o t) = Len(adverts) + n
          /\ \A i \in 1 .. Len(adverts) + n :
                (adverts \o t)[i] = IF i <= Len(adverts) THEN adverts[i] ELSE t[i - Len(adverts)]
      BY <1>1, <3>2, ConcatProperties
    <3>4. ASSUME NEW i \in 1 .. Len(adverts) + n PROVE (adverts \o t)[i].len <= ADV_MAX
      <4>1. CASE i <= Len(adverts)
        BY <1>1, <3>3, <4>1
      <4>2. CASE ~(i <= Len(adverts))
        <5>1. i - Len(adverts) \in 1 .. n
          BY <1>1, <3>1, <4>2
        <5> QED BY <3>1, <3>2, <3>3, <4>2, <5>1
      <4> QED BY <4>1, <4>2
    <3> QED BY <3>1, <3>3, <3>4
  <2> QED BY <2>1, <2>2, <2>3 DEF Kept
<1> QED BY <1>2 DEF BatchInv, BatchTypes

(* Each step leaves the batch as it must be.                               *)
LEMMA StepBatch ==
  ASSUME BatchInv, [ApiNext]_apiVars
  PROVE  BatchInv'
<1>1. BatchTypes
  BY DEF BatchInv
<1>2. CASE UNCHANGED <<adverts, hciq, nevts>>
  <2>1. Kept
    BY <1>2 DEF Kept
  <2> QED BY <1>1, <1>2, <2>1, KeptFits DEF BatchTypes
<1>3. CASE SetScan
  <2>1. UNCHANGED nevts
    BY <1>3 DEF SetScan
  <2>2. (hciq \in Seq(Seq(Received)))' /\ Kept
    <3>1. CASE HandleReport
      <4>1. \E n : Joined(n)
        BY <3>1, ReportJoins
      <4>2. hciq # <<>> /\ hciq' = Tail(hciq)
        BY <3>1 DEF HandleReport
      <4> QED BY <1>1, <4>1, <4>2 DEF Kept, BatchTypes
    <3>2. CASE UNCHANGED <<adverts, hciq>>
      BY <1>1, <3>2 DEF Kept, BatchTypes
    <3> QED BY <1>3, <3>1, <3>2 DEF SetScan
  <2> QED BY <1>1, <2>1, <2>2, KeptFits DEF BatchTypes
<1>4. CASE ApiHci
  <2>1. UNCHANGED nevts
    BY <1>4 DEF ApiHci
  <2>2. (hciq \in Seq(Seq(Received)))' /\ Kept
    <3>1. CASE HandleReport
      <4>1. \E n : Joined(n)
        BY <3>1, ReportJoins
      <4>2. hciq # <<>> /\ hciq' = Tail(hciq)
        BY <3>1 DEF HandleReport
      <4> QED BY <1>1, <4>1, <4>2 DEF Kept, BatchTypes
    <3>2. CASE UNCHANGED <<adverts, hciq>>
      BY <1>1, <3>2 DEF Kept, BatchTypes
    <3> QED BY <1>4, <3>1, <3>2 DEF ApiHci
  <2> QED BY <1>1, <2>1, <2>2, KeptFits DEF BatchTypes
<1>5. CASE FullBatch \/ ApiTimers
  <2>1. Kept /\ UNCHANGED <<hciq, nevts>>
    BY <1>5 DEF FullBatch, ApiTimers, flush_batch, Kept
  <2> QED BY <1>1, <2>1, KeptFits DEF BatchTypes
<1>6. ASSUME NEW ev \in Events, AdvertisingReport(ev) PROVE BatchInv'
  <2> DEFINE l == [i \in DOMAIN ev |-> Numbered(ev[i], <<nevts, i>>)]
  <2>1. hciq' = Append(hciq, l) /\ nevts' = nevts + 1 /\ UNCHANGED adverts
    BY <1>6 DEF AdvertisingReport
  <2>2. ev \in Seq(AdvReports)
    BY ApiAssumption
  <2>3. l \in Seq(Received)
    <3>1. DOMAIN ev = 1 .. Len(ev) /\ Len(ev) \in Nat
      BY <2>2
    <3>2. ASSUME NEW i \in 1 .. Len(ev) PROVE Numbered(ev[i], <<nevts, i>>) \in Received
      <4>1. ev[i] \in AdvReports /\ <<nevts, i>> \in Nat \X Nat
        BY <1>1, <2>2 DEF BatchTypes
      <4> QED BY <4>1 DEF Numbered, AdvReports, Received
    <3>3. l \in [1 .. Len(ev) -> Received]
      BY <3>1, <3>2
    <3> HIDE DEF l
    <3> QED BY <3>1, <3>3, SeqDef
  <2> HIDE DEF l
  <2>4. (hciq \in Seq(Seq(Received)))' /\ (nevts \in Nat)' /\ Kept
    BY <1>1, <2>1, <2>3 DEF BatchTypes, Kept
  <2> QED BY <2>4, KeptFits
<1>7. CASE ApiPoll \/ ApiAccept \/ ClientRecv \/ ClientMessage \/ ClientKeep
  <2>1. UNCHANGED <<adverts, hciq, nevts>>
    BY <1>7 DEF ApiPoll, ApiAccept, ClientRecv, ClientMessage, ClientKeep
  <2> QED BY <1>2, <2>1
<1>8. ASSUME NEW c \in Peers, PeerLeaves(c) \/ \E s \in Streams[c] : PeerConnects(c, s)
      PROVE  BatchInv'
  <2>1. UNCHANGED <<adverts, hciq, nevts>>
    BY <1>8 DEF PeerLeaves, PeerConnects
  <2> QED BY <1>2, <2>1
<1>9. CASE UNCHANGED apiVars
  BY <1>2, <1>9 DEF apiVars
<1> QED
  BY <1>3, <1>4, <1>5, <1>6, <1>7, <1>8, <1>9 DEF ApiNext

(* What is kept says that the batch fits.                                  *)
LEMMA BatchInvFits == BatchInv => BatchesFit
<1> SUFFICES ASSUME BatchInv PROVE BatchesFit
  OBVIOUS
<1> DEFINE n == api_adv_batch(adverts)
           l == Len(adverts)
<1>1. /\ adverts \in Seq(Received) /\ l \in Nat /\ l <= ADV_BATCH
      /\ \A i \in 1 .. l : adverts[i].len <= ADV_MAX
  BY DEF BatchInv, BatchTypes
<1>2. n \in Nat /\ n <= l * 48
  BY <1>1, BatchLen
<1>3. \A i \in DOMAIN adverts : AdvLen(adverts[i]) <= 64
  <2> SUFFICES ASSUME NEW i \in DOMAIN adverts PROVE AdvLen(adverts[i]) <= 64
    OBVIOUS
  <2>1. adverts[i] \in Received /\ adverts[i].len <= ADV_MAX
    BY <1>1
  <2>2. AdvLen(adverts[i]) \in 0 .. 46
    BY <2>1, AdvFits
  <2> QED BY <2>2
<1> HIDE DEF n, l
<1>4. n <= ADV_BATCH * 48 /\ n + 12 <= SEND_SIZE
  <2>1. ADV_BATCH \in Nat /\ ADV_BATCH * 48 + 12 <= SEND_SIZE /\ SEND_SIZE \in Nat
    BY ApiAssumption
  <2>2. l * 48 <= ADV_BATCH * 48
    BY ONLY <1>1, <2>1
  <2> QED BY ONLY <1>1, <1>2, <2>1, <2>2
<1> QED BY <1>1, <1>3, <1>4 DEF BatchesFit, n, l

(* The batch of advertisements never has more than fits the message of     *)
(* flush_batch() and the frame of client_send(), and none of its           *)
(* advertisements is too long for api_adv_batch(), for every size of the   *)
(* batch and every event (le_meta, hci_parse_adv_reports, flush_batch).    *)
THEOREM BatchesCorrect == ApiInit /\ [][ApiNext]_apiVars => []BatchesFit
<1>1. ApiInit => BatchInv
  <2> SUFFICES ASSUME ApiInit PROVE BatchInv
    OBVIOUS
  <2>1. adverts = <<>> /\ hciq = <<>> /\ nevts = 0
    BY DEF ApiInit
  <2> QED BY <2>1, ApiAssumption DEF BatchInv, BatchTypes
<1>2. BatchInv /\ [ApiNext]_apiVars => BatchInv'
  BY StepBatch
<1> QED BY <1>1, <1>2, BatchInvFits, PTL

-----------------------------------------------------------------------------
(* The GATT server.                                                        *)

(* The same from another number on.                                        *)
LEMMA RangeInduction ==
  ASSUME NEW a \in Nat, NEW n \in Nat, a <= n, NEW A, A \subseteq a .. n, a \in A,
         \A i \in A : i < n => i + 1 \in A
  PROVE  n \in A
<1> DEFINE m == n - a
           B == {i \in 0 .. m : a + i \in A}
<1>1. m \in Nat /\ a + m = n
  OBVIOUS
<1>2. B \subseteq 0 .. m /\ 0 \in B
  BY <1>1
<1>3. \A i \in B : i < m => i + 1 \in B
  <2> SUFFICES ASSUME NEW i \in B, i < m PROVE i + 1 \in B
    OBVIOUS
  <2>1. a + i \in A /\ a + i < n /\ (a + i) + 1 = a + (i + 1) /\ i + 1 \in 0 .. m
    BY <1>1
  <2> QED BY <2>1
<1> HIDE DEF m, B
<1>4. m \in B
  BY <1>1, <1>2, <1>3, SetInduction
<1> QED BY <1>1, <1>4 DEF B

-----------------------------------------------------------------------------
(* The walk over the handles.                                              *)
Took(hs, s, h) == IF h \in hs THEN Append(s, h) ELSE s
IsWalk(hs, l, n) == l = [h \in 0 .. n |-> IF h = 0 THEN <<>> ELSE Took(hs, l[h - 1], h)]

(* The walk is the one that its recursion describes.                       *)
LEMMA WalkExists == ASSUME NEW hs PROVE IsWalk(hs, Walk(hs), LAST_HANDLE)
<1> DEFINE A == {n \in 0 .. LAST_HANDLE : \E l : IsWalk(hs, l, n)}
<1>0. LAST_HANDLE \in Nat
  BY DEF LAST_HANDLE
<1>1. 0 \in A
  <2>1. IsWalk(hs, [i \in 0 .. 0 |-> <<>>], 0)
    BY DEF IsWalk
  <2> QED BY <1>0, <2>1
<1>2. \A n \in A : n < LAST_HANDLE => n + 1 \in A
  <2> SUFFICES ASSUME NEW n \in A, n < LAST_HANDLE PROVE \E l : IsWalk(hs, l, n + 1)
    BY <1>0
  <2>1. PICK l : IsWalk(hs, l, n)
    OBVIOUS
  <2> DEFINE v == Took(hs, l[n], n + 1)
             q == [i \in 0 .. n + 1 |-> IF i = n + 1 THEN v ELSE l[i]]
  <2>2. IsWalk(hs, q, n + 1)
    BY <2>1 DEF IsWalk
  <2> QED BY <2>2
<1>3. LAST_HANDLE \in A
  <2>1. A \subseteq 0 .. LAST_HANDLE
    OBVIOUS
  <2> HIDE DEF A
  <2> QED BY <1>0, <1>1, <1>2, <2>1, SetInduction
<1> QED BY <1>3 DEF IsWalk, Walk, Took

(* One handle at a time.                                                   *)
LEMMA WalkStep ==
  ASSUME NEW hs
  PROVE  Walk(hs)[0] = <<>> /\ \A h \in 1 .. 19 : Walk(hs)[h] = Took(hs, Walk(hs)[h - 1], h)
<1> DEFINE l == Walk(hs)
<1>1. IsWalk(hs, l, LAST_HANDLE)
  BY WalkExists
<1> HIDE DEF l
<1>2. l[0] = <<>> /\ \A h \in 1 .. 19 : l[h] = Took(hs, l[h - 1], h)
  BY <1>1 DEF IsWalk, LAST_HANDLE
<1> QED BY <1>2 DEF l

(* What the walk has after h.                                              *)
Walked(hs, h) ==
  LET s == Walk(hs)[h] IN
  /\ s \in Seq(DbHandles)
  /\ \A i \in 1 .. Len(s) : s[i] \in hs /\ s[i] <= h /\ SubSeq(s, 1, i) = Walk(hs)[s[i]]

(* A walk has the wanted handles, in order, and no other.                  *)
LEMMA WalkIs ==
  ASSUME NEW hs
  PROVE  \A h \in 0 .. LAST_HANDLE : Walked(hs, h)
<1> SUFFICES ASSUME NEW n \in 0 .. LAST_HANDLE PROVE Walked(hs, n)
  OBVIOUS
<1> DEFINE A == {h \in 0 .. n : Walked(hs, h)}
<1>0. n \in Nat /\ n <= 19 /\ DbHandles = 1 .. 19
  BY DEF LAST_HANDLE, DbHandles
<1>1. 0 \in A
  <2> DEFINE s == Walk(hs)[0]
  <2>1. s = <<>>
    BY WalkStep
  <2> HIDE DEF s
  <2>2. s \in Seq(DbHandles) /\ Len(s) = 0
    BY <2>1
  <2>3. Walked(hs, 0)
    BY <2>2 DEF Walked, s
  <2> QED BY <1>0, <2>3
<1>2. \A h \in A : h < n => h + 1 \in A
  <2> SUFFICES ASSUME NEW h \in A, h < n PROVE Walked(hs, h + 1)
    BY <1>0
  <2> DEFINE s == Walk(hs)[h]
             k == h + 1
             t == Walk(hs)[k]
  <2>1. k \in DbHandles /\ h \in Nat /\ k - 1 = h /\ k = h + 1 /\ k \in 1 .. 19
    BY <1>0
  <2>2. /\ s \in Seq(DbHandles)
        /\ \A i \in 1 .. Len(s) : s[i] \in hs /\ s[i] <= h /\ SubSeq(s, 1, i) = Walk(hs)[s[i]]
    BY DEF Walked
  <2>3. t = IF k \in hs THEN Append(s, k) ELSE s
    <3>1. t = Took(hs, Walk(hs)[k - 1], k)
      <4> HIDE DEF k
      <4> QED BY <2>1, WalkStep
    <3> QED BY <2>1, <3>1 DEF Took
  <2>4. CASE k \in hs
    <3> HIDE DEF s, k
    <3>1. t = Append(s, k)
      BY <2>3, <2>4
    <3>2. /\ t \in Seq(DbHandles) /\ Len(t) = Len(s) + 1 /\ t[Len(s) + 1] = k /\ Len(s) \in Nat
          /\ \A i \in 1 .. Len(s) : t[i] = s[i]
      BY <2>1, <2>2, <3>1
    <3>3. ASSUME NEW i \in 1 .. Len(t)
          PROVE  t[i] \in hs /\ t[i] <= k /\ SubSeq(t, 1, i) = Walk(hs)[t[i]]
      <4>1. CASE i \in 1 .. Len(s)
        <5>1. t[i] = s[i] /\ s[i] \in hs /\ s[i] <= h /\ SubSeq(s, 1, i) = Walk(hs)[s[i]]
          BY <2>2, <3>2, <4>1
        <5>2. SubSeq(t, 1, i) = SubSeq(s, 1, i)
          BY <2>1, <2>2, <3>1, <3>2, <4>1
        <5>3. s[i] \in DbHandles
          BY <2>2, <4>1
        <5>4. s[i] <= k
          <6> DEFINE x == s[i]
          <6>1. x \in 1 .. 19 /\ x <= h
            BY <1>0, <5>1, <5>3
          <6> HIDE DEF x
          <6>2. x <= k
            BY ONLY <2>1, <6>1
          <6> QED BY <6>2 DEF x
        <5> QED BY <5>1, <5>2, <5>4
      <4>2. CASE i = Len(t)
        <5>1. t[i] = k /\ SubSeq(t, 1, i) = t
          BY <3>2, <4>2
        <5> QED BY <1>0, <2>1, <2>4, <5>1
      <4> QED BY <3>2, <4>1, <4>2
    <3> QED BY <3>2, <3>3 DEF Walked, k
  <2>5. CASE k \notin hs
    <3>1. t = s
      BY <2>3, <2>5
    <3>2. \A i \in 1 .. Len(s) : s[i] <= k
      <4> SUFFICES ASSUME NEW i \in 1 .. Len(s) PROVE s[i] <= k
        OBVIOUS
      <4>1. s[i] \in DbHandles /\ s[i] <= h
        BY <2>2
      <4> HIDE DEF s
      <4> QED BY <1>0, <2>1, <4>1
    <3> HIDE DEF s, t
    <3>3. \A i \in 1 .. Len(t) : t[i] \in hs /\ t[i] <= k /\ SubSeq(t, 1, i) = Walk(hs)[t[i]]
      BY <2>2, <3>1, <3>2
    <3> QED BY <2>2, <3>1, <3>3 DEF Walked, t
  <2> QED BY <2>4, <2>5
<1>3. n \in A
  <2>1. A \subseteq 0 .. n
    OBVIOUS
  <2> HIDE DEF A
  <2> QED BY <1>0, <1>1, <1>2, <2>1, SetInduction
<1> QED BY <1>3

(* Nothing between a and b.                                                *)
LEMMA WalkSkips ==
  ASSUME NEW hs, NEW a \in 0 .. LAST_HANDLE, NEW b \in a .. LAST_HANDLE,
         \A h \in a + 1 .. b : h \notin hs
  PROVE  Walk(hs)[b] = Walk(hs)[a]
<1> DEFINE A == {h \in a .. b : Walk(hs)[h] = Walk(hs)[a]}
<1>0. a \in Nat /\ b \in Nat /\ a <= b /\ b <= 19 /\ DbHandles = 1 .. 19
  BY DEF LAST_HANDLE, DbHandles
<1>1. a \in A
  BY <1>0
<1>2. \A h \in A : h < b => h + 1 \in A
  <2> SUFFICES ASSUME NEW h \in A, h < b PROVE Walk(hs)[h + 1] = Walk(hs)[a]
    BY <1>0
  <2> DEFINE k == h + 1
  <2>1. k \in 1 .. 19 /\ k - 1 = h /\ k \in a + 1 .. b
    BY <1>0
  <2>2. Walk(hs)[k] = Took(hs, Walk(hs)[k - 1], k)
    <3> HIDE DEF k
    <3> QED BY <2>1, WalkStep
  <2>3. k \notin hs
    BY <2>1
  <2>4. Walk(hs)[k] = Walk(hs)[h]
    <3> HIDE DEF k
    <3> QED BY <2>1, <2>2, <2>3 DEF Took
  <2> QED BY <2>4
<1>3. b \in A
  <2>1. A \subseteq a .. b
    OBVIOUS
  <2> HIDE DEF A
  <2> QED BY <1>0, <1>1, <1>2, <2>1, RangeInduction
<1> QED BY <1>3

(* One at the end of what was joined.                                      *)
LEMMA AppendAfter ==
  ASSUME NEW s \in Seq(1 .. 19), NEW t \in Seq(1 .. 19), NEW k \in 1 .. 19
  PROVE  Append(s \o t, k) = s \o Append(t, k)
<1> DEFINE p == Append(s \o t, k)
           q == s \o Append(t, k)
<1>1. p \in Seq(1 .. 19) /\ q \in Seq(1 .. 19)
  OBVIOUS
<1>2. Len(p) = Len(s) + Len(t) + 1 /\ Len(q) = Len(s) + Len(t) + 1
  OBVIOUS
<1>3. \A i \in 1 .. Len(s) + Len(t) + 1 : p[i] = q[i]
  OBVIOUS
<1> HIDE DEF p, q
<1>4. p = q
  BY <1>1, <1>2, <1>3, SeqEqual
<1> QED BY <1>4 DEF p, q

(* The walk over those from a on goes on where the walk up to a ends.      *)
LEMMA WalkSplits ==
  ASSUME NEW hs, NEW a \in 1 .. LAST_HANDLE + 1, NEW n \in a - 1 .. LAST_HANDLE
  PROVE  Walk(hs)[n] = Walk(hs)[a - 1] \o Walk({h \in hs : a <= h})[n]
<1> DEFINE T == {h \in hs : a <= h}
           w == Walk(hs)
           x == Walk(T)
           b == a - 1
           A == {h \in b .. n : w[h] = w[b] \o x[h]}
<1>0. /\ b \in Nat /\ b <= 19 /\ a = b + 1 /\ DbHandles = 1 .. 19 /\ LAST_HANDLE = 19
      /\ b \in 0 .. 19 /\ n \in Nat /\ b <= n /\ n <= 19
  BY DEF LAST_HANDLE, DbHandles
<1>1. \A h \in 0 .. 19 : w[h] \in Seq(1 .. 19) /\ x[h] \in Seq(1 .. 19)
  BY <1>0, WalkIs DEF Walked
<1>2. /\ \A h \in 1 .. 19 : w[h] = Took(hs, w[h - 1], h) /\ x[h] = Took(T, x[h - 1], h)
      /\ x[0] = <<>>
  BY WalkStep
<1>3. x[b] = <<>>
  <2>1. \A h \in 0 + 1 .. b : h \notin T
    BY <1>0
  <2>2. 0 \in 0 .. LAST_HANDLE /\ b \in 0 .. LAST_HANDLE
    BY <1>0
  <2> HIDE DEF T, b
  <2> QED BY <1>2, <2>1, <2>2, WalkSkips
<1>4. \A h \in b + 1 .. 19 : h \in T <=> h \in hs
  BY <1>0
<1> HIDE DEF w, x, b, T
<1>5. b \in A
  <2>1. w[b] = w[b] \o <<>>
    BY <1>0, <1>1
  <2>2. w[b] = w[b] \o x[b] /\ b \in b .. n
    BY <1>0, <1>3, <2>1
  <2> QED BY <2>2, Zenon
<1>6. \A h \in A : h < n => h + 1 \in A
  <2> SUFFICES ASSUME NEW h \in A, h < n PROVE h + 1 \in A
    OBVIOUS
  <2>0. h \in b .. n /\ w[h] = w[b] \o x[h]
    OBVIOUS
  <2>1. h + 1 \in 1 .. 19 /\ (h + 1) - 1 = h /\ h \in 0 .. 19 /\ h + 1 \in b + 1 .. 19
    BY <1>0, <2>0
  <2>2. /\ w[h + 1] = Took(hs, w[h], h + 1) /\ x[h + 1] = Took(T, x[h], h + 1)
        /\ w[b] \in Seq(1 .. 19) /\ x[h] \in Seq(1 .. 19) /\ w[h] = w[b] \o x[h]
        /\ h + 1 \in T <=> h + 1 \in hs
    <3>1. h + 1 \in T <=> h + 1 \in hs
      BY <1>4, <2>1
    <3>2. w[h + 1] = Took(hs, w[h], h + 1) /\ x[h + 1] = Took(T, x[h], h + 1)
      BY <1>2, <2>1
    <3> QED BY <1>0, <1>1, <2>0, <2>1, <3>1, <3>2
  <2>3. Append(w[b] \o x[h], h + 1) = w[b] \o Append(x[h], h + 1)
    BY <2>1, <2>2, AppendAfter
  <2>4. w[h + 1] = w[b] \o x[h + 1]
    BY <2>2, <2>3 DEF Took
  <2>5. h + 1 \in b .. n
    BY <1>0, <2>1
  <2> QED BY <2>4, <2>5, Zenon
<1>7. n \in A
  <2>1. A \subseteq b .. n
    OBVIOUS
  <2> HIDE DEF A
  <2> QED BY <1>0, <1>5, <1>6, <2>1, RangeInduction
<1> QED BY <1>0, <1>7 DEF w, x, T, b

-----------------------------------------------------------------------------
(* The table.                                                              *)
Decls == {2, 4, 7, 10, 13, 15, 18}

DbKinds == \A h \in 1 .. 19 :
  db[h].kind = IF h \in {1, 6} THEN "SVC" ELSE IF h \in Decls THEN "DECL"
               ELSE IF h \in CccdHandles THEN "CCCD" ELSE "VALUE"
DbUuids == \A h \in 1 .. 19 : db[h].uuid.len \in {2, 16}

(* The attributes, one by one.                                             *)
LEMMA DbIs ==
  /\ db[1] = SVC(U16("1800")) /\ db[2] = DECL({"read"}, U16("2a00"))
  /\ db[3] = VALUE({"read"}, U16("2a00")) /\ db[4] = DECL({"read"}, U16("2a01"))
  /\ db[5] = VALUE({"read"}, U16("2a01")) /\ db[6] = SVC(IMPROV("00"))
  /\ db[7] = DECL({"read", "notify"}, IMPROV("01"))
  /\ db[8] = VALUE({"read", "notify"}, IMPROV("01")) /\ db[9] = CCCD
  /\ db[10] = DECL({"read", "notify"}, IMPROV("02"))
  /\ db[11] = VALUE({"read", "notify"}, IMPROV("02")) /\ db[12] = CCCD
  /\ db[13] = DECL({"write"}, IMPROV("03")) /\ db[14] = VALUE({"write"}, IMPROV("03"))
  /\ db[15] = DECL({"read", "notify"}, IMPROV("04"))
  /\ db[16] = VALUE({"read", "notify"}, IMPROV("04")) /\ db[17] = CCCD
  /\ db[18] = DECL({"read"}, IMPROV("05")) /\ db[19] = VALUE({"read"}, IMPROV("05"))
BY DEF db

(* Their kinds and their UUIDs.                                            *)
LEMMA DbTypes == DbKinds /\ DbUuids
<1> SUFFICES ASSUME NEW h \in 1 .. 19
             PROVE  /\ db[h].kind = IF h \in {1, 6} THEN "SVC" ELSE IF h \in Decls THEN "DECL"
                                    ELSE IF h \in CccdHandles THEN "CCCD" ELSE "VALUE"
                    /\ db[h].uuid.len \in {2, 16}
  BY DEF DbKinds, DbUuids
<1>1. h \in {1, 6}
      \/ h \in Decls
      \/ h \in CccdHandles
      \/ h \in {3, 5, 8, 11, 14, 16, 19}
  BY DEF Decls, CccdHandles
<1>2. CASE h \in {1, 6}
  BY <1>2, DbIs DEF SVC, U16, IMPROV
<1>3. CASE h \in Decls
  BY <1>3, DbIs DEF DECL, U16, IMPROV, Decls
<1>4. CASE h \in CccdHandles
  BY <1>4, DbIs DEF CCCD, U16, CccdHandles, Decls
<1>5. CASE h \in {3, 5, 8, 11, 14, 16, 19}
  BY <1>5, DbIs DEF VALUE, U16, IMPROV, CccdHandles, Decls
<1> QED BY <1>1, <1>2, <1>3, <1>4, <1>5

(* Where the two services end.                                             *)
LEMMA GroupEnds == group_end(1) = 5 /\ group_end(6) = 19
<1>1. /\ \A k \in 1 .. 19 : db[k].kind = "SVC" <=> k \in {1, 6}
      /\ LAST_HANDLE = 19
  BY DbTypes DEF DbKinds, LAST_HANDLE, Decls, CccdHandles
<1>2. \A e \in 1 .. 19 : (/\ \A k \in 1 + 1 .. e : db[k].kind # "SVC"
                          /\ e = 19 \/ db[e + 1].kind = "SVC") <=> e = 5
  <2> SUFFICES ASSUME NEW e \in 1 .. 19
               PROVE  (/\ \A k \in 1 + 1 .. e : db[k].kind # "SVC"
                       /\ e = 19 \/ db[e + 1].kind = "SVC") <=> e = 5
    OBVIOUS
  <2>1. CASE e >= 6
    <3>1. 6 \in 1 + 1 .. e /\ db[6].kind = "SVC"
      BY <1>1, <2>1
    <3> QED BY <2>1, <3>1
  <2>2. CASE e = 5
    BY <1>1, <2>2
  <2>3. CASE e < 5
    <3>1. e + 1 \in 1 .. 19 /\ e + 1 \notin {1, 6}
      BY <2>3
    <3> QED BY <1>1, <2>3, <3>1
  <2> QED BY <2>1, <2>2, <2>3
<1>3. group_end(1) = 5
  BY <1>1, <1>2 DEF group_end
<1>4. \A e \in 6 .. 19 : (/\ \A k \in 6 + 1 .. e : db[k].kind # "SVC"
                          /\ e = 19 \/ db[e + 1].kind = "SVC") <=> e = 19
  <2> SUFFICES ASSUME NEW e \in 6 .. 19
               PROVE  (/\ \A k \in 6 + 1 .. e : db[k].kind # "SVC"
                       /\ e = 19 \/ db[e + 1].kind = "SVC") <=> e = 19
    OBVIOUS
  <2>1. CASE e = 19
    BY <1>1, <2>1
  <2>2. CASE e < 19
    <3>1. e + 1 \in 1 .. 19 /\ e + 1 \notin {1, 6}
      BY <2>2
    <3> QED BY <1>1, <2>2, <3>1
  <2> QED BY <2>1, <2>2
<1>5. group_end(6) = 19
  BY <1>1, <1>4 DEF group_end
<1> QED BY <1>3, <1>5

TypeLens == \A h \in 1 .. 19 : attr_type(h).len \in {2, 16}

(* The handles that each discovery looks for, and their types.             *)
LEMMA AttrTypes ==
  /\ TypeLens
  /\ {h \in DbHandles : attr_type(h) = U16("2800")} = {1, 6}
  /\ {h \in DbHandles : attr_type(h) = U16("2803")} = Decls
  /\ {h \in DbHandles : db[h].kind = "SVC" /\ db[h].uuid = IMPROV("00")} = {6}
  /\ {h \in DbHandles : db[h].kind = "DECL"} = Decls
<1>0. DbHandles = 1 .. 19
  BY DEF DbHandles, LAST_HANDLE
<1>1. ASSUME NEW h \in 1 .. 19
      PROVE  /\ attr_type(h) = U16("2800") <=> h \in {1, 6}
             /\ attr_type(h) = U16("2803") <=> h \in Decls
             /\ attr_type(h).len \in {2, 16}
  <2>1. h \in {1, 6}
        \/ h \in Decls
        \/ h \in CccdHandles
        \/ h \in {3, 5, 8, 11, 14, 16, 19}
    BY DEF Decls, CccdHandles
  <2>2. CASE h \in {1, 6}
    <3>1. attr_type(h) = U16("2800")
      BY <2>2, DbTypes DEF DbKinds, attr_type
    <3> QED BY <2>2, <3>1 DEF U16, Decls
  <2>3. CASE h \in Decls
    <3>1. attr_type(h) = U16("2803") /\ h \notin {1, 6}
      BY <2>3, DbTypes DEF DbKinds, attr_type, Decls
    <3> QED BY <2>3, <3>1 DEF U16
  <2>4. CASE h \in CccdHandles
    <3>1. attr_type(h) = U16("2902") /\ h \notin {1, 6} /\ h \notin Decls
      BY <2>4, DbTypes DEF DbKinds, attr_type, Decls, CccdHandles
    <3> QED BY <3>1 DEF U16
  <2>5. CASE h \in {3, 5, 8, 11, 14, 16, 19}
    <3>1. /\ attr_type(h) = db[h].uuid /\ h \notin {1, 6} /\ h \notin Decls
          /\ db[h].kind = "VALUE"
      BY <2>5, DbTypes DEF DbKinds, attr_type, Decls, CccdHandles
    <3>2. /\ attr_type(h).len \in {2, 16}
          /\ attr_type(h) # U16("2800") /\ attr_type(h) # U16("2803")
      BY <2>5, <3>1, DbIs DEF VALUE, U16, IMPROV
    <3> QED BY <3>1, <3>2
  <2> QED BY <2>1, <2>2, <2>3, <2>4, <2>5
<1>2. ASSUME NEW h \in 1 .. 19
      PROVE  /\ db[h].kind = "SVC" <=> h \in {1, 6}
             /\ db[h].kind = "DECL" <=> h \in Decls
  BY DbTypes DEF DbKinds, Decls, CccdHandles
<1>3. db[1].uuid # IMPROV("00") /\ db[6].uuid = IMPROV("00")
  BY DbIs DEF SVC, U16, IMPROV
<1>4. {h \in DbHandles : attr_type(h) = U16("2800")} = {1, 6}
  BY <1>0, <1>1
<1>5. {h \in DbHandles : attr_type(h) = U16("2803")} = Decls
  BY <1>0, <1>1 DEF Decls
<1>6. {h \in DbHandles : db[h].kind = "SVC" /\ db[h].uuid = IMPROV("00")} = {6}
  BY <1>0, <1>2, <1>3
<1>7. {h \in DbHandles : db[h].kind = "DECL"} = Decls
  BY <1>0, <1>2 DEF Decls
<1> QED BY <1>1, <1>4, <1>5, <1>6, <1>7 DEF TypeLens

(* The lengths of the values.                                              *)
LEMMA AttrValues ==
  ASSUME env.name \in Nat, env.result \in Nat
  PROVE  /\ \A h \in {1, 6} : attr_value(h) \in {2, 16}
         /\ \A h \in Decls : attr_value(h) \in {5, 19}
         /\ \A h \in CccdHandles : attr_value(h) = 2
         /\ attr_value(3) = env.name /\ attr_value(5) = 2 /\ attr_value(8) = 1
         /\ attr_value(11) = 1 /\ attr_value(14) = -2 /\ attr_value(16) = env.result
         /\ attr_value(19) = 1
<1>0. /\ DbHandles = 1 .. 19
      /\ ERR_READ_NOT_PERM = 2 /\ GATT_STATE_VALUE = 8 /\ GATT_ERROR_VALUE = 11
      /\ GATT_RESULT_VALUE = 16
  BY DEF DbHandles, LAST_HANDLE, ERR_READ_NOT_PERM, GATT_STATE_VALUE, GATT_ERROR_VALUE,
         GATT_RESULT_VALUE
<1>1. ASSUME NEW h \in {1, 6} PROVE attr_value(h) \in {2, 16}
  <2>1. db[h].kind = "SVC" /\ db[h].uuid.len \in {2, 16} /\ h \in DbHandles
    BY <1>0, DbTypes DEF DbKinds, DbUuids
  <2> QED BY <1>0, <2>1 DEF attr_value, Decls, CccdHandles
<1>2. ASSUME NEW h \in Decls PROVE attr_value(h) \in {5, 19}
  <2>1. db[h].kind = "DECL" /\ db[h].uuid.len \in {2, 16} /\ h \in DbHandles
    BY <1>0, DbTypes DEF DbKinds, DbUuids, Decls
  <2> QED BY <1>0, <2>1 DEF attr_value, Decls, CccdHandles
<1>3. ASSUME NEW h \in CccdHandles PROVE attr_value(h) = 2
  <2>1. db[h].kind = "CCCD" /\ h \in DbHandles
    BY <1>0, DbTypes DEF DbKinds, Decls, CccdHandles
  <2> QED BY <1>0, <2>1 DEF attr_value, Decls, CccdHandles
<1>4. ASSUME NEW h \in {3, 5, 8, 11, 14, 16, 19}
      PROVE  db[h].kind = "VALUE" /\ h \in DbHandles
  BY <1>0, DbTypes DEF DbKinds, Decls, CccdHandles
<1>5. attr_value(3) = env.name
  BY <1>0, <1>4 DEF attr_value
<1>6. attr_value(5) = 2
  BY <1>0, <1>4 DEF attr_value
<1>7. attr_value(8) = 1 /\ attr_value(11) = 1 /\ attr_value(19) = 1
  BY <1>0, <1>4 DEF attr_value
<1>8. attr_value(14) = -2
  BY <1>0, <1>4 DEF attr_value
<1>9. attr_value(16) = env.result
  BY <1>0, <1>4 DEF attr_value
<1> QED BY <1>1, <1>2, <1>3, <1>5, <1>6, <1>7, <1>8, <1>9

(* Upto() takes a prefix, and not the empty one when the first is good.    *)
LEMMA UptoIs ==
  ASSUME NEW X, NEW s \in Seq(X), NEW good
  PROVE  \E m \in 0 .. Len(s) : /\ Upto(s, good) = SubSeq(s, 1, m)
                                /\ s # <<>> /\ 1 \in good => m >= 1
<1> DEFINE P(m) == /\ 1 .. m \subseteq good
                   /\ m = Len(s) \/ m + 1 \notin good
           c == CHOOSE m \in 0 .. Len(s) : P(m)
           n == Len(s)
<1>0. n \in Nat
  OBVIOUS
<1>1. \E m \in 0 .. n : P(m)
  <2> SUFFICES ASSUME \A m \in 0 .. n : ~P(m) PROVE FALSE
    OBVIOUS
  <2> DEFINE A == {m \in 0 .. n : 1 .. m \subseteq good}
  <2>1. A \subseteq 0 .. n /\ 0 \in A
    BY <1>0
  <2>2. \A m \in A : m < n => m + 1 \in A
    <3> SUFFICES ASSUME NEW m \in A, m < n PROVE m + 1 \in A
      OBVIOUS
    <3>1. m \in 0 .. n /\ 1 .. m \subseteq good /\ m + 1 \in good
      <4>1. m \in 0 .. n /\ 1 .. m \subseteq good
        OBVIOUS
      <4>2. ~P(m)
        BY <4>1
      <4> QED BY <4>1, <4>2
    <3>2. m + 1 \in 0 .. n
      BY <1>0, <3>1
    <3>3. 1 .. m + 1 \subseteq good
      BY <3>1
    <3> QED BY <3>2, <3>3
  <2>3. n \in A
    <3> HIDE DEF A, n
    <3> QED BY <1>0, <2>1, <2>2, SetInduction
  <2>4. P(n) /\ n \in 0 .. n
    BY <1>0, <2>3
  <2> QED BY <2>4
<1>2. c \in 0 .. n /\ P(c)
  <2> HIDE DEF P
  <2> QED BY <1>1, Zenon
<1>3. Upto(s, good) = SubSeq(s, 1, c)
  BY Zenon DEF Upto
<1>4. s # <<>> /\ 1 \in good => c >= 1
  <2> SUFFICES ASSUME s # <<>>, 1 \in good, c = 0 PROVE FALSE
    <3> HIDE DEF P, c
    <3> QED BY <1>0, <1>2
  <2>1. n # 0
    OBVIOUS
  <2> HIDE DEF c
  <2> QED BY <1>2, <2>1
<1> HIDE DEF c, P
<1> QED BY <1>2, <1>3, <1>4

(* The walk over all handles.                                              *)
LEMMA WalkAll ==
  Walk(DbHandles)[LAST_HANDLE] = [i \in DbHandles |-> i]
<1> DEFINE w == Walk(DbHandles)
           A == {h \in 0 .. 19 : w[h] = [i \in 1 .. h |-> i]}
<1>0. DbHandles = 1 .. 19 /\ LAST_HANDLE = 19
  BY DEF DbHandles, LAST_HANDLE
<1>1. w[0] = <<>> /\ \A h \in 1 .. 19 : w[h] = Took(DbHandles, w[h - 1], h)
  BY WalkStep
<1> HIDE DEF w
<1>2. 0 \in A
  <2>1. w[0] = [i \in 1 .. 0 |-> i]
    BY <1>1
  <2> QED BY <2>1
<1>3. \A h \in A : h < 19 => h + 1 \in A
  <2> SUFFICES ASSUME NEW h \in A, h < 19 PROVE h + 1 \in A
    OBVIOUS
  <2>0. h \in 0 .. 19 /\ w[h] = [i \in 1 .. h |-> i]
    OBVIOUS
  <2> DEFINE k == h + 1
  <2>1. k \in 1 .. 19 /\ k - 1 = h /\ k \in 0 .. 19 /\ k = h + 1 /\ h \in Nat
    BY <2>0
  <2>2. w[k] = Append(w[h], k)
    <3> HIDE DEF k
    <3> QED BY <1>0, <1>1, <2>1 DEF Took
  <2>3. Append([i \in 1 .. h |-> i], k) = [i \in 1 .. k |-> i]
    <3> HIDE DEF k
    <3> QED BY <2>1
  <2>4. w[k] = [i \in 1 .. k |-> i]
    BY <2>0, <2>2, <2>3
  <2> QED BY <2>1, <2>4
<1>4. 19 \in A
  <2>1. A \subseteq 0 .. 19 /\ 19 \in Nat
    OBVIOUS
  <2> HIDE DEF A
  <2> QED BY <1>2, <1>3, <2>1, SetInduction
<1> QED BY <1>0, <1>4 DEF w

(* The walks over the services.                                            *)
LEMMA WalkTwo ==
  Walk({1, 6})[LAST_HANDLE] = <<1, 6>> /\ Walk({6})[LAST_HANDLE] = <<6>>
<1>0. LAST_HANDLE = 19
  BY DEF LAST_HANDLE
<1> DEFINE w == Walk({1, 6})
           x == Walk({6})
<1>1. /\ w[0] = <<>> /\ w[1] = Took({1, 6}, w[0], 1) /\ w[6] = Took({1, 6}, w[5], 6)
      /\ x[0] = <<>> /\ x[6] = Took({6}, x[5], 6)
  <2>1. 1 - 1 = 0 /\ 6 - 1 = 5 /\ 1 \in 1 .. 19 /\ 6 \in 1 .. 19
    OBVIOUS
  <2> QED BY <2>1, WalkStep
<1>2. w[5] = w[1] /\ w[19] = w[6]
  BY <1>0, WalkSkips
<1>3. x[5] = x[0] /\ x[19] = x[6]
  BY <1>0, WalkSkips
<1> HIDE DEF w, x
<1>4. w[1] = <<1>> /\ x[6] = <<6>>
  BY <1>1, <1>3 DEF Took
<1>5. w[6] = <<1, 6>>
  <2>1. w[6] = Append(w[1], 6)
    BY <1>1, <1>2 DEF Took
  <2> DEFINE t == Append(<<1>>, 6)
  <2>2. <<1>> \in Seq(Nat) /\ <<1, 6>> \in Seq(Nat) /\ Len(<<1>>) = 1 /\ Len(<<1, 6>>) = 2
    OBVIOUS
  <2>3. t \in Seq(Nat) /\ Len(t) = 2 /\ t[1] = 1 /\ t[2] = 6
    BY <2>2
  <2> HIDE DEF t
  <2>4. t = <<1, 6>>
    BY <2>2, <2>3, SeqEqual
  <2> QED BY <1>4, <2>1, <2>4 DEF t
<1> QED BY <1>0, <1>2, <1>3, <1>4, <1>5 DEF w, x

Discoveries == {"info", "group", "type", "value"}

Targets(k) == CASE k = "info"  -> DbHandles
                [] k = "group" -> {1, 6}
                [] k = "type"  -> Decls
                [] OTHER -> {6}

Entry(k, h) == IF k = "info" THEN <<h, attr_type(h)>> ELSE <<h, group_end(h)>>
Entries(k, s) == [i \in DOMAIN s |-> Entry(k, s[i])]

(* What a discovery finds from a handle on.                                *)
Remaining(k, from) == Walk({h \in Targets(k) : from <= h})[LAST_HANDLE]
Lists(k, from, list) ==
  \E m \in 0 .. Len(Remaining(k, from)) :
    /\ list = Entries(k, SubSeq(Remaining(k, from), 1, m))
    /\ Remaining(k, from) # <<>> => m >= 1

AttTypes ==
  /\ env \in Envs
  /\ att \in [mtu : 23 .. env.mtu_max, cccd : SUBSET CccdHandles, prep : Seq(Nat \X Nat)]

(* The MTU is 23 or more, and a response of it fits the ACL buffer.        *)
LEMMA EnvIs ==
  ASSUME AttTypes
  PROVE  /\ env.name \in Nat /\ env.result \in Nat
         /\ env.acl \in Nat /\ env.acl >= 27 /\ env.mtu_max = Smaller(env.acl - 4, 247)
         /\ att.mtu \in Nat /\ att.mtu >= 23
         /\ Smaller(Smaller(env.acl - 4, 256), att.mtu) = att.mtu
<1>1. PICK a \in AclLens, n \in NameLens, r \in ResultLens :
        env = [acl |-> a, name |-> n, result |-> r, mtu_max |-> Smaller(a - 4, 247)]
  BY DEF AttTypes, Envs
<1>2. /\ env.name \in Nat /\ env.result \in Nat
      /\ env.acl \in Nat /\ env.acl >= 27 /\ env.mtu_max = Smaller(env.acl - 4, 247)
  BY <1>1, GattAssumption
<1>3. att.mtu \in 23 .. env.mtu_max
  BY DEF AttTypes
<1> QED BY <1>2, <1>3 DEF Smaller

(* What remains is wanted.                                                 *)
LEMMA RemainingIs ==
  ASSUME NEW k, NEW from \in 1 .. LAST_HANDLE + 1
  PROVE  /\ Remaining(k, from) \in Seq(DbHandles)
         /\ \A i \in 1 .. Len(Remaining(k, from)) : Remaining(k, from)[i] \in Targets(k)
<1> DEFINE T == {h \in Targets(k) : from <= h}
<1>1. Walked(T, LAST_HANDLE)
  BY WalkIs DEF LAST_HANDLE
<1>2. \A h \in T : h \in Targets(k)
  OBVIOUS
<1> HIDE DEF T
<1>3. /\ Walk(T)[LAST_HANDLE] \in Seq(DbHandles)
      /\ \A i \in 1 .. Len(Walk(T)[LAST_HANDLE]) : Walk(T)[LAST_HANDLE][i] \in Targets(k)
  BY <1>1, <1>2 DEF Walked
<1> QED BY <1>3 DEF T, Remaining

(* A request to 0xffff finds what remains.                                 *)
LEMMA MatchingIs ==
  ASSUME NEW k \in Discoveries, NEW from \in 1 .. LAST_HANDLE + 1,
         NEW r, r.start = from, r.end = 65535
  PROVE  Matching(r, Targets(k)) = Remaining(k, from)
<1>1. Targets(k) \subseteq 1 .. 19
  BY DEF Targets, DbHandles, LAST_HANDLE, Decls
<1>2. {h \in Targets(k) : 0 < r.start /\ r.start <= h /\ h <= r.end}
        = {h \in Targets(k) : from <= h}
  BY <1>1 DEF LAST_HANDLE
<1> QED BY <1>2 DEF Matching, Remaining

(* A response lists the first of what remains, and at least one.           *)
LEMMA ListOf ==
  ASSUME NEW k \in Discoveries, NEW from \in 1 .. LAST_HANDLE + 1, NEW good,
         NEW r, r.start = from, r.end = 65535,
         Remaining(k, from) # <<>> => 1 \in good
  PROVE  Lists(k, from, Response(r, Entries(k, Upto(Remaining(k, from), good))).list)
<1> DEFINE want == Remaining(k, from)
           l == Entries(k, Upto(want, good))
<1>1. want \in Seq(DbHandles)
  BY RemainingIs
<1>2. Response(r, l).list = l
  <2> HIDE DEF l
  <2>1. ~(r.start = 0 \/ r.start > r.end)
    BY DEF LAST_HANDLE
  <2> QED BY <2>1 DEF Response, error_rsp
<1>3. PICK m \in 0 .. Len(want) : /\ Upto(want, good) = SubSeq(want, 1, m)
                                  /\ want # <<>> /\ 1 \in good => m >= 1
  <2> HIDE DEF want
  <2> QED BY <1>1, UptoIs
<1>4. /\ l = Entries(k, SubSeq(want, 1, m))
      /\ want # <<>> => m >= 1
  <2>1. want # <<>> => 1 \in good
    OBVIOUS
  <2> HIDE DEF want
  <2> QED BY <1>3, <2>1
<1> HIDE DEF l
<1> QED BY <1>2, <1>4 DEF Lists, l

(* So does find_info(), as an entry of any type fits.                      *)
LEMMA InfoLists ==
  ASSUME NEW from \in 1 .. LAST_HANDLE + 1, NEW r, r.start = from, r.end = 65535,
         NEW max \in Nat, max >= 23
  PROVE  Lists("info", from, find_info(r, max).list)
<1> DEFINE all == Matching(r, DbHandles)
           tl(i) == attr_type(all[i]).len
           good == {i \in DOMAIN all : tl(i) = tl(1) /\ 2 + i * (2 + tl(i)) <= max}
           e == Upto(all, good)
<1>1. find_info(r, max) = Response(r, [i \in DOMAIN e |-> <<e[i], attr_type(e[i])>>])
  BY DEF find_info
<1>2. all = Remaining("info", from) /\ "info" \in Discoveries
  <2>1. Targets("info") = DbHandles /\ "info" \in Discoveries
    BY DEF Targets, Discoveries
  <2> QED BY <2>1, MatchingIs
<1>3. all # <<>> => 1 \in good
  <2> SUFFICES ASSUME all # <<>> PROVE 1 \in good
    OBVIOUS
  <2>1. all \in Seq(1 .. 19)
    BY <1>2, RemainingIs DEF DbHandles, LAST_HANDLE
  <2> HIDE DEF all
  <2>2. 1 \in DOMAIN all /\ all[1] \in 1 .. 19
    BY <2>1
  <2>3. TypeLens
    BY AttrTypes
  <2>4. attr_type(all[1]).len \in {2, 16}
    BY <2>2, <2>3 DEF TypeLens
  <2> QED BY <2>2, <2>4
<1>4. [i \in DOMAIN e |-> <<e[i], attr_type(e[i])>>] = Entries("info", e)
  <2> HIDE DEF e
  <2> QED BY DEF Entries, Entry
<1> HIDE DEF good
<1> QED BY <1>1, <1>2, <1>3, <1>4, ListOf

(* So does find_by_value().                                                *)
LEMMA ValueLists ==
  ASSUME NEW from \in 1 .. LAST_HANDLE + 1, NEW r, r.start = from, r.end = 65535,
         r.uuid = IMPROV("00"), NEW max \in Nat, max >= 23
  PROVE  Lists("value", from, find_by_value(r, max).list)
<1> DEFINE svcs == Matching(r, {h \in DbHandles : db[h].kind = "SVC" /\ db[h].uuid = r.uuid})
           good == {i \in DOMAIN svcs : 1 + 4 * i <= max}
           e == Upto(svcs, good)
<1>1. find_by_value(r, max) = Response(r, [i \in DOMAIN e |-> <<e[i], group_end(e[i])>>])
  BY DEF find_by_value
<1>2. svcs = Remaining("value", from) /\ "value" \in Discoveries
  <2>1. Targets("value") = {6} /\ "value" \in Discoveries
    BY DEF Targets, Discoveries
  <2>2. {h \in DbHandles : db[h].kind = "SVC" /\ db[h].uuid = r.uuid} = {6}
    BY AttrTypes
  <2>3. Matching(r, Targets("value")) = Remaining("value", from)
    BY <2>1, MatchingIs
  <2> DEFINE S == {h \in DbHandles : db[h].kind = "SVC" /\ db[h].uuid = r.uuid}
  <2>4. S = Targets("value") /\ svcs = Matching(r, S)
    BY <2>1, <2>2
  <2> HIDE DEF S, svcs
  <2> QED BY <2>1, <2>3, <2>4
<1>3. svcs # <<>> => 1 \in good
  <2>1. svcs \in Seq(DbHandles)
    BY <1>2, RemainingIs
  <2> HIDE DEF svcs
  <2> QED BY <2>1
<1>4. [i \in DOMAIN e |-> <<e[i], group_end(e[i])>>] = Entries("value", e)
  <2> HIDE DEF e
  <2> QED BY DEF Entries, Entry
<1> HIDE DEF good
<1> QED BY <1>1, <1>2, <1>3, <1>4, ListOf

(* So does read_by_type(), for services and for characteristics.           *)
LEMMA TypeLists ==
  ASSUME AttTypes, NEW k \in {"group", "type"}, NEW from \in 1 .. LAST_HANDLE + 1,
         NEW r, r.start = from, r.end = 65535, r.op = k,
         r.uuid = IF k = "group" THEN U16("2800") ELSE U16("2803"),
         NEW max \in Nat, max >= 23
  PROVE  Lists(k, from, read_by_type(r, max).list)
<1> DEFINE want == Matching(r, {h \in DbHandles : attr_type(h) = r.uuid})
           el(i) == (IF r.op = "group" THEN 4 ELSE 2) + attr_value(want[i])
           fits(i) == attr_value(want[i]) >= 0 /\ el(i) = el(1) /\ 2 + i * el(i) <= max
           good == {i \in DOMAIN want : fits(i)}
           e == Upto(want, good)
<1>1. read_by_type(r, max) =
        IF want # <<>> /\ attr_value(want[1]) < 0 THEN error_rsp(-attr_value(want[1]))
        ELSE Response(r, [i \in DOMAIN e |-> <<e[i], group_end(e[i])>>])
  BY DEF read_by_type
<1>2. want = Remaining(k, from) /\ k \in Discoveries
  <2>1. k \in Discoveries /\ Targets(k) = {h \in DbHandles : attr_type(h) = r.uuid}
    BY AttrTypes DEF Targets, Discoveries
  <2> QED BY <2>1, MatchingIs
<1>3. (want # <<>> => 1 \in good) /\ ~(want # <<>> /\ attr_value(want[1]) < 0)
  <2> SUFFICES ASSUME want # <<>> PROVE 1 \in good /\ ~(attr_value(want[1]) < 0)
    OBVIOUS
  <2>0. /\ Remaining(k, from) \in Seq(DbHandles)
        /\ \A i \in 1 .. Len(Remaining(k, from)) : Remaining(k, from)[i] \in Targets(k)
    BY RemainingIs
  <2>1. want \in Seq(DbHandles) /\ \A i \in 1 .. Len(want) : want[i] \in Targets(k)
    <3> HIDE DEF want
    <3> QED BY <1>2, <2>0
  <2>2. Targets(k) = IF k = "group" THEN {1, 6} ELSE Decls
    BY DEF Targets
  <2> HIDE DEF want
  <2>3. 1 \in DOMAIN want /\ want[1] \in Targets(k)
    BY <2>1
  <2>4. /\ \A h \in {1, 6} : attr_value(h) \in {2, 16}
        /\ \A h \in Decls : attr_value(h) \in {5, 19}
    BY AttrValues, EnvIs
  <2>5. k = "group" => attr_value(want[1]) \in {2, 16}
    BY <2>2, <2>3, <2>4
  <2>6. k # "group" => attr_value(want[1]) \in {5, 19}
    BY <2>2, <2>3, <2>4
  <2>7. attr_value(want[1]) \in IF k = "group" THEN {2, 16} ELSE {5, 19}
    BY ONLY <2>5, <2>6
  <2> QED BY <2>3, <2>7
<1>4. [i \in DOMAIN e |-> <<e[i], group_end(e[i])>>] = Entries(k, e)
  <2> HIDE DEF e
  <2> QED BY DEF Entries, Entry
<1>5. read_by_type(r, max) = Response(r, Entries(k, e))
  <2> HIDE DEF e, want
  <2> QED BY <1>1, <1>3, <1>4
<1> HIDE DEF good
<1> QED BY <1>2, <1>3, <1>5, ListOf

(* The entries of what was joined.                                         *)
LEMMA EntriesJoin ==
  ASSUME NEW k, NEW p \in Seq(DbHandles), NEW q \in Seq(DbHandles)
  PROVE  Entries(k, p \o q) = Entries(k, p) \o Entries(k, q)
<1> DEFINE E == [h \in DbHandles |-> Entry(k, h)]
           X == {E[h] : h \in DbHandles}
           a == [i \in 1 .. Len(p) |-> E[p[i]]]
           b == [i \in 1 .. Len(q) |-> E[q[i]]]
           c == [i \in 1 .. Len(p \o q) |-> E[(p \o q)[i]]]
<1>1. /\ p \o q \in Seq(DbHandles) /\ Len(p \o q) = Len(p) + Len(q)
      /\ Len(p) \in Nat /\ Len(q) \in Nat
      /\ \A i \in 1 .. Len(p) : (p \o q)[i] = p[i]
      /\ \A i \in 1 .. Len(q) : (p \o q)[Len(p) + i] = q[i]
  OBVIOUS
<1>2. \A s \in Seq(DbHandles) : Entries(k, s) = [i \in 1 .. Len(s) |-> E[s[i]]]
  <2> SUFFICES ASSUME NEW s \in Seq(DbHandles)
               PROVE  Entries(k, s) = [i \in 1 .. Len(s) |-> E[s[i]]]
    OBVIOUS
  <2>1. DOMAIN s = 1 .. Len(s) /\ \A i \in 1 .. Len(s) : s[i] \in DbHandles
    OBVIOUS
  <2> QED BY <2>1 DEF Entries
<1>3. Entries(k, p) = a /\ Entries(k, q) = b /\ Entries(k, p \o q) = c
  <2> HIDE DEF E
  <2> QED BY <1>1, <1>2
<1>4. \A h \in DbHandles : E[h] \in X
  OBVIOUS
<1> HIDE DEF E, X
<1>5. a \in Seq(X) /\ b \in Seq(X) /\ c \in Seq(X)
  <2>1. \A s \in Seq(DbHandles) : [i \in 1 .. Len(s) |-> E[s[i]]] \in Seq(X)
    <3> SUFFICES ASSUME NEW s \in Seq(DbHandles)
                 PROVE  [i \in 1 .. Len(s) |-> E[s[i]]] \in Seq(X)
      OBVIOUS
    <3>1. Len(s) \in Nat /\ \A i \in 1 .. Len(s) : E[s[i]] \in X
      BY <1>4
    <3> QED BY <3>1, IsASeq
  <2> QED BY <1>1, <2>1
<1>6. Len(a) = Len(p) /\ Len(b) = Len(q) /\ Len(c) = Len(p) + Len(q)
  BY <1>1, <1>5
<1>7. /\ a \o b \in Seq(X) /\ Len(a \o b) = Len(p) + Len(q)
      /\ \A i \in 1 .. Len(p) : (a \o b)[i] = a[i]
      /\ \A i \in 1 .. Len(q) : (a \o b)[Len(p) + i] = b[i]
  <2> HIDE DEF a, b
  <2>1. /\ a \o b \in Seq(X) /\ Len(a \o b) = Len(p) + Len(q)
        /\ \A i \in 1 .. Len(p) + Len(q) :
             (a \o b)[i] = IF i <= Len(p) THEN a[i] ELSE b[i - Len(p)]
    <3>1. /\ a \o b \in Seq(X) /\ Len(a \o b) = Len(a) + Len(b)
          /\ \A i \in 1 .. Len(a) + Len(b) :
               (a \o b)[i] = IF i <= Len(a) THEN a[i] ELSE b[i - Len(a)]
      BY <1>5, ConcatProperties
    <3> QED BY <1>6, <3>1
  <2>2. \A i \in 1 .. Len(q) : Len(p) + i \in 1 .. Len(p) + Len(q) /\ ~(Len(p) + i <= Len(p))
                                /\ (Len(p) + i) - Len(p) = i
    BY <1>1
  <2>3. \A i \in 1 .. Len(p) : i \in 1 .. Len(p) + Len(q) /\ i <= Len(p)
    BY <1>1
  <2> QED BY <2>1, <2>2, <2>3
<1>8. /\ \A i \in 1 .. Len(p) : c[i] = a[i]
      /\ \A i \in 1 .. Len(q) : c[Len(p) + i] = b[i]
  BY <1>1
<1>9. c = a \o b
  <2> DEFINE d == a \o b
  <2> HIDE DEF a, b, c, d
  <2>1. \A i \in 1 .. Len(p) + Len(q) : c[i] = d[i]
    <3> SUFFICES ASSUME NEW i \in 1 .. Len(p) + Len(q) PROVE c[i] = d[i]
      OBVIOUS
    <3>1. CASE i \in 1 .. Len(p)
      BY <1>7, <1>8, <3>1 DEF d
    <3>2. CASE i \notin 1 .. Len(p)
      <4> DEFINE j == i - Len(p)
      <4>1. j \in 1 .. Len(q) /\ Len(p) + j = i
        BY <1>1, <3>2
      <4> HIDE DEF j
      <4>2. c[Len(p) + j] = b[j] /\ d[Len(p) + j] = b[j]
        BY <1>7, <1>8, <4>1 DEF d
      <4> QED BY <4>1, <4>2
    <3> QED BY <3>1, <3>2
  <2>2. c \in Seq(X) /\ d \in Seq(X) /\ Len(c) = Len(p) + Len(q) /\ Len(d) = Len(p) + Len(q)
    BY <1>5, <1>6, <1>7 DEF d
  <2>3. c = d
    BY <2>1, <2>2, SeqEqual
  <2> QED BY <2>3 DEF d
<1> HIDE DEF a, b, c
<1> QED BY <1>3, <1>9

NextHandle(k, e) == IF k \in {"group", "value"} THEN e[2] + 1 ELSE e[1] + 1

(* Behind the entry of a handle nothing is passed over.                    *)
LEMMA NextIs ==
  ASSUME NEW k \in Discoveries, NEW h \in DbHandles, h \in Targets(k)
  PROVE  /\ NextHandle(k, Entry(k, h)) \in 1 .. LAST_HANDLE + 1
         /\ Walk(Targets(k))[NextHandle(k, Entry(k, h)) - 1] = Walk(Targets(k))[h]
<1>0. LAST_HANDLE = 19 /\ DbHandles = 1 .. 19
  BY DEF LAST_HANDLE, DbHandles
<1>1. CASE k \in {"info", "type"}
  <2>1. NextHandle(k, Entry(k, h)) = h + 1
    BY <1>1 DEF NextHandle, Entry
  <2>2. (h + 1) - 1 = h /\ h + 1 \in 1 .. LAST_HANDLE + 1
    BY <1>0
  <2> QED BY <2>1, <2>2
<1>2. CASE k \in {"group", "value"}
  <2> DEFINE e == group_end(h)
  <2>1. /\ Targets(k) \subseteq {1, 6}
        /\ h \in {1, 6}
    BY <1>2 DEF Targets
  <2>2. e \in h .. 19 /\ \A j \in h + 1 .. e : j \notin {1, 6}
    BY <2>1, GroupEnds
  <2>3. NextHandle(k, Entry(k, h)) = e + 1
    BY <1>2 DEF NextHandle, Entry
  <2> HIDE DEF e
  <2>4. (e + 1) - 1 = e /\ e + 1 \in 1 .. LAST_HANDLE + 1 /\ h \in 0 .. LAST_HANDLE
        /\ e \in h .. LAST_HANDLE /\ \A j \in h + 1 .. e : j \notin Targets(k)
    BY <1>0, <2>1, <2>2
  <2>5. Walk(Targets(k))[e] = Walk(Targets(k))[h]
    BY <2>4, WalkSkips
  <2> QED BY <2>3, <2>4, <2>5
<1> QED BY <1>1, <1>2 DEF Discoveries

(* With a response the entries are those of the walk up to the handle      *)
(* behind the last; an empty one comes only when nothing remains.          *)
LEMMA DiscoverGoesOn ==
  ASSUME NEW k \in Discoveries, NEW a \in 1 .. LAST_HANDLE + 1, NEW list, Lists(k, a, list),
         NEW found, found = Entries(k, Walk(Targets(k))[a - 1])
  PROVE  /\ list = <<>> => Walk(Targets(k))[a - 1] = Walk(Targets(k))[LAST_HANDLE]
         /\ list # <<>> =>
              /\ NextHandle(k, Last(list)) \in 1 .. LAST_HANDLE + 1
              /\ found \o list = Entries(k, Walk(Targets(k))[NextHandle(k, Last(list)) - 1])
<1> DEFINE T == Targets(k)
           R == {h \in T : a <= h}
           w == Walk(T)
           x == Walk(R)
           s == x[LAST_HANDLE]
           b == a - 1
<1>0. LAST_HANDLE = 19 /\ DbHandles = 1 .. 19 /\ b \in 0 .. LAST_HANDLE /\ a = b + 1
      /\ T \subseteq DbHandles
  BY DEF LAST_HANDLE, DbHandles, Targets, Decls
<1>1. \A n \in b .. LAST_HANDLE : w[n] = w[b] \o x[n]
  BY WalkSplits
<1>2. s \in Seq(DbHandles)
      /\ \A i \in 1 .. Len(s) : s[i] \in R /\ s[i] <= LAST_HANDLE /\ SubSeq(s, 1, i) = x[s[i]]
  <2>1. Walked(R, LAST_HANDLE)
    BY WalkIs DEF LAST_HANDLE
  <2> HIDE DEF R
  <2> QED BY <2>1 DEF Walked
<1>3. \A n \in 0 .. LAST_HANDLE : w[n] \in Seq(DbHandles) /\ x[n] \in Seq(DbHandles)
  <2> HIDE DEF T, R
  <2> QED BY WalkIs DEF Walked
<1>4. PICK m \in 0 .. Len(s) : /\ list = Entries(k, SubSeq(s, 1, m))
                               /\ s # <<>> => m >= 1
  BY Zenon DEF Lists, Remaining
<1> DEFINE q == SubSeq(s, 1, m)
<1>5. q \in Seq(DbHandles) /\ Len(q) = m /\ m \in Nat
  <2> HIDE DEF s
  <2> QED BY <1>2, <1>4
<1>6. DOMAIN list = 1 .. m /\ \A i \in 1 .. m : list[i] = Entry(k, q[i])
  <2> HIDE DEF q
  <2>1. DOMAIN q = 1 .. m
    BY <1>5
  <2> QED BY <1>4, <2>1 DEF Entries, q
<1>7. ASSUME list = <<>> PROVE w[b] = w[LAST_HANDLE]
  <2>1. m = 0
    BY <1>5, <1>6, <1>7
  <2>2. s = <<>>
    BY <1>4, <2>1
  <2>3. w[LAST_HANDLE] = w[b] \o <<>>
    <3>1. LAST_HANDLE \in b .. LAST_HANDLE
      BY <1>0
    <3>2. w[LAST_HANDLE] = w[b] \o s
      <4> HIDE DEF w, b, x
      <4> QED BY <1>1, <3>1 DEF s
    <3> HIDE DEF w, b, s
    <3> QED BY <2>2, <3>2
  <2> HIDE DEF w
  <2> QED BY <1>0, <1>3, <2>3
<1>8. ASSUME list # <<>>
      PROVE  /\ NextHandle(k, Last(list)) \in 1 .. LAST_HANDLE + 1
             /\ found \o list = Entries(k, w[NextHandle(k, Last(list)) - 1])
  <2>1. m >= 1
    BY <1>5, <1>6, <1>8
  <2> DEFINE h == s[m]
  <2>2. /\ h \in R /\ h \in DbHandles /\ q = x[h]
    <3> HIDE DEF s, R
    <3>1. m \in 1 .. Len(s)
      BY <1>2, <1>5, <2>1, <1>4
    <3> QED BY <1>2, <3>1
  <2>3. h \in T /\ a <= h
    BY <2>2
  <2>4. Last(list) = Entry(k, h)
    <3>1. Len(list) = m
      BY <1>5, <1>6
    <3>2. list[m] = Entry(k, q[m]) /\ q[m] = s[m]
      <4> HIDE DEF s
      <4> QED BY <1>2, <1>5, <1>6, <2>1, <1>4
    <3> QED BY <3>1, <3>2 DEF Last
  <2>5. w[h] = w[b] \o q
    <3> HIDE DEF h, T, w, x, q
    <3>1. h \in b .. LAST_HANDLE
      BY <1>0, <2>2, <2>3
    <3> QED BY <1>1, <2>2, <3>1
  <2>6. found \o list = Entries(k, w[h])
    <3>1. found = Entries(k, w[b]) /\ list = Entries(k, q)
      BY <1>4
    <3>2. w[b] \in Seq(DbHandles)
      BY <1>0, <1>3
    <3> HIDE DEF w, q, h
    <3> QED BY <1>5, <2>5, <3>1, <3>2, EntriesJoin
  <2>7. /\ NextHandle(k, Entry(k, h)) \in 1 .. LAST_HANDLE + 1
        /\ w[NextHandle(k, Entry(k, h)) - 1] = w[h]
    <3> HIDE DEF h
    <3> QED BY <2>2, <2>3, NextIs DEF w, T
  <2> QED BY <2>4, <2>6, <2>7
<1> QED BY <1>7, <1>8

ProcTypes ==
  /\ link \in Nat
  /\ proc = [kind |-> proc.kind, h |-> proc.h, at |-> proc.at, found |-> proc.found,
             done |-> proc.done]
  /\ proc.kind \in Discoveries \cup {"idle", "read", "prepare"}
  /\ proc.done \in BOOLEAN
  /\ proc.kind = "idle" => proc = NoProcedure

DiscoverInv ==
  proc.kind \in Discoveries =>
    /\ proc.at \in 1 .. LAST_HANDLE + 1
    /\ proc.found = Entries(proc.kind, Walk(Targets(proc.kind))[proc.at - 1])
    /\ proc.done => Walk(Targets(proc.kind))[proc.at - 1] = Walk(Targets(proc.kind))[LAST_HANDLE]

ReadInv ==
  proc.kind = "read" =>
    /\ proc.h \in {3, 14, 16, 19} /\ proc.at \in Nat
    /\ proc.found = [i \in 1 .. proc.at |-> i]
    /\ IF attr_value(proc.h) < 0 THEN proc.at = 0
       ELSE proc.at <= attr_value(proc.h) /\ (proc.done => proc.at = attr_value(proc.h))

Piece(n) == [i \in 1 .. n |-> <<link, i>>]

PrepareInv ==
  IF proc.kind # "prepare" THEN att.prep = <<>> /\ rpcIn = <<>>
  ELSE /\ proc.h \in Nat /\ proc.at \in 0 .. proc.h
       /\ proc.found \in {<<>>, <<"refused">>}
       /\ proc.found # <<>> => proc.h > PREP_SIZE /\ proc.at = proc.h
       /\ IF proc.done
          THEN /\ att.prep = <<>>
               /\ rpcIn = IF proc.h > PREP_SIZE THEN <<>> ELSE Piece(proc.h)
          ELSE /\ rpcIn = <<>>
               /\ proc.found = <<>> => att.prep = Piece(proc.at) /\ proc.at <= PREP_SIZE

GattInv == AttTypes /\ ProcTypes /\ DiscoverInv /\ ReadInv /\ PrepareInv

(* The server starts like this.                                            *)
LEMMA InitGatt == GattInit => GattInv
<1> SUFFICES ASSUME GattInit PROVE GattInv
  OBVIOUS
<1>1. /\ env \in Envs /\ att = [mtu |-> 23, cccd |-> {}, prep |-> <<>>]
      /\ proc = NoProcedure /\ link = 1 /\ rpcIn = <<>>
  BY DEF GattInit
<1>2. AttTypes
  <2>1. PICK a \in AclLens, n \in NameLens, r \in ResultLens :
          env = [acl |-> a, name |-> n, result |-> r, mtu_max |-> Smaller(a - 4, 247)]
    BY <1>1 DEF Envs
  <2>2. 23 \in 23 .. env.mtu_max
    BY <2>1, GattAssumption DEF Smaller
  <2> QED BY <1>1, <2>2 DEF AttTypes
<1>3. proc.kind = "idle" /\ proc.done = FALSE /\ ProcTypes
  BY <1>1 DEF ProcTypes, NoProcedure
<1>4. DiscoverInv /\ ReadInv /\ PrepareInv
  BY <1>1, <1>3 DEF DiscoverInv, ReadInv, PrepareInv, Discoveries
<1> QED BY <1>2, <1>3, <1>4 DEF GattInv

(* A procedure starts with nothing found.                                  *)
LEMMA StartStep ==
  ASSUME GattInv, NEW p \in Procedures, StartProcedure(p)
  PROVE  GattInv'
<1>1. proc = NoProcedure /\ proc' = p /\ env' = env /\ att' = att /\ link' = link /\ rpcIn' = rpcIn
  BY DEF StartProcedure
<1>2. AttTypes'
  BY <1>1 DEF GattInv, AttTypes, Envs
<1>3. att.prep = <<>> /\ rpcIn = <<>> /\ link \in Nat
  BY <1>1 DEF GattInv, PrepareInv, NoProcedure, ProcTypes
<1>4. CASE \E k \in Discoveries : p = Begin(k, 0, 1)
  <2>1. PICK k \in Discoveries : p = Begin(k, 0, 1)
    BY <1>4
  <2>2. /\ proc'.kind = k /\ proc'.at = 1 /\ proc'.found = <<>> /\ proc'.done = FALSE
        /\ proc'.kind # "idle" /\ proc'.kind # "read" /\ proc'.kind # "prepare"
    BY <1>1, <2>1 DEF Begin, Discoveries
  <2>3. ProcTypes'
    BY <1>1, <1>3, <2>1, <2>2 DEF ProcTypes, Begin
  <2>4. Entries(k, Walk(Targets(k))[1 - 1]) = <<>>
    <3>1. Walk(Targets(k))[0] = <<>> /\ 1 - 1 = 0
      BY WalkStep
    <3> QED BY <3>1 DEF Entries
  <2>5. DiscoverInv'
    BY <2>2, <2>4 DEF DiscoverInv, LAST_HANDLE
  <2>6. ReadInv' /\ PrepareInv'
    BY <1>1, <1>3, <2>2 DEF ReadInv, PrepareInv
  <2> QED BY <1>2, <2>3, <2>5, <2>6 DEF GattInv
<1>5. CASE \E h \in {3, 14, 16, 19} : p = Begin("read", h, 0)
  <2>1. PICK h \in {3, 14, 16, 19} : p = Begin("read", h, 0)
    BY <1>5
  <2>2. /\ proc'.kind = "read" /\ proc'.at = 0 /\ proc'.found = <<>> /\ proc'.done = FALSE
        /\ proc'.h = h /\ proc'.kind \notin Discoveries
    BY <1>1, <2>1 DEF Begin, Discoveries
  <2>3. ProcTypes'
    BY <1>1, <1>3, <2>1, <2>2 DEF ProcTypes, Begin
  <2>4. attr_value(h)' \in Int
    <3>1. attr_value(h)' = attr_value(h)
      BY <1>1 DEF attr_value
    <3>2. attr_value(h) \in Int
      BY AttrValues, EnvIs DEF GattInv
    <3> QED BY <3>1, <3>2
  <2>5. ReadInv'
    <3>1. [i \in 1 .. 0 |-> i] = <<>>
      OBVIOUS
    <3>2. attr_value(h)' < 0 \/ 0 <= attr_value(h)'
      BY <2>4
    <3> QED BY <2>1, <2>2, <2>4, <3>1, <3>2 DEF ReadInv
  <2>6. DiscoverInv' /\ PrepareInv'
    BY <1>1, <1>3, <2>2 DEF DiscoverInv, PrepareInv
  <2> QED BY <1>2, <2>3, <2>5, <2>6 DEF GattInv
<1>6. CASE \E n \in PacketLens : p = Begin("prepare", n, 0)
  <2>1. PICK n \in PacketLens : p = Begin("prepare", n, 0)
    BY <1>6
  <2>2. /\ proc'.kind = "prepare" /\ proc'.at = 0 /\ proc'.found = <<>> /\ proc'.done = FALSE
        /\ proc'.h = n /\ proc'.kind \notin Discoveries
    BY <1>1, <2>1 DEF Begin, Discoveries
  <2>3. ProcTypes'
    BY <1>1, <1>3, <2>1, <2>2 DEF ProcTypes, Begin
  <2>4. n \in Nat /\ PREP_SIZE \in Nat
    BY GattAssumption
  <2>5. Piece(0)' = <<>>
    BY DEF Piece
  <2>6. PrepareInv'
    BY <1>1, <1>3, <2>2, <2>4, <2>5 DEF PrepareInv
  <2>7. DiscoverInv' /\ ReadInv'
    BY <2>2 DEF DiscoverInv, ReadInv
  <2> QED BY <1>2, <2>3, <2>6, <2>7 DEF GattInv
<1> QED BY <1>4, <1>5, <1>6 DEF Procedures, Discoveries

(* What does not depend on the server.                                     *)
LEMMA ProcKept ==
  ASSUME GattInv, UNCHANGED <<env, proc, link>>
  PROVE  ProcTypes' /\ DiscoverInv' /\ ReadInv'
<1>1. \A h : attr_value(h)' = attr_value(h)
  BY DEF attr_value
<1> QED BY <1>1 DEF GattInv, ProcTypes, DiscoverInv, ReadInv

(* A request of a discovery.                                               *)
LEMMA DiscoverStep ==
  ASSUME GattInv, Discover
  PROVE  GattInv'
<1> DEFINE r == [op |-> proc.kind, start |-> proc.at, end |-> 65535, uuid |-> Wanted]
           g == gatt_handle(att, r)
           list == g.rsp.list
           k == proc.kind
           w == Walk(Targets(k))
<1>1. /\ k \in Discoveries /\ ~proc.done
      /\ att' = g.att /\ rpcIn' = rpcIn \o g.rpc /\ env' = env /\ link' = link
      /\ proc' = IF list = <<>> THEN [proc EXCEPT !.done = TRUE]
                 ELSE [proc EXCEPT !.found = @ \o list, !.at = NextHandle(k, Last(list))]
  BY DEF Discover, Answer, NextHandle, Discoveries
<1>2. /\ proc.at \in 1 .. LAST_HANDLE + 1 /\ proc.found = Entries(k, w[proc.at - 1])
      /\ AttTypes /\ att.prep = <<>> /\ rpcIn = <<>>
  BY <1>1 DEF GattInv, DiscoverInv, PrepareInv, Discoveries
<1>3. Lists(k, proc.at, list) /\ g.att = att /\ g.rpc = <<>>
  <2> DEFINE m == att.mtu
  <2>1. Smaller(Smaller(env.acl - 4, 256), att.mtu) = m /\ m \in Nat /\ m >= 23
    BY <1>2, EnvIs
  <2>2. r.op = k /\ r.start = proc.at /\ r.end = 65535 /\ r.uuid = Wanted
    OBVIOUS
  <2> HIDE DEF r
  <2>3. CASE k = "info"
    <3>1. g = Result(find_info(r, m), att, <<>>)
      BY <2>1, <2>2, <2>3 DEF gatt_handle
    <3>2. Lists("info", proc.at, find_info(r, m).list)
      BY <1>2, <2>1, <2>2, InfoLists
    <3> QED BY <2>3, <3>1, <3>2 DEF Result
  <2>4. CASE k = "value"
    <3>1. g = Result(find_by_value(r, m), att, <<>>)
      BY <2>1, <2>2, <2>4 DEF gatt_handle
    <3>2. Lists("value", proc.at, find_by_value(r, m).list)
      <4>1. r.uuid = IMPROV("00")
        BY <2>2, <2>4 DEF Wanted
      <4> QED BY <1>2, <2>1, <2>2, <4>1, ValueLists
    <3> QED BY <2>4, <3>1, <3>2 DEF Result
  <2>5. CASE k \in {"group", "type"}
    <3>1. g = Result(read_by_type(r, m), att, <<>>)
      BY <2>1, <2>2, <2>5 DEF gatt_handle
    <3>2. Lists(k, proc.at, read_by_type(r, m).list)
      <4>1. r.uuid = IF k = "group" THEN U16("2800") ELSE U16("2803")
        BY <2>2, <2>5 DEF Wanted
      <4> QED BY <1>2, <2>1, <2>2, <2>5, <4>1, TypeLists
    <3> QED BY <3>1, <3>2 DEF Result
  <2> QED BY <1>1, <2>3, <2>4, <2>5 DEF Discoveries
<1>4. /\ list = <<>> => w[proc.at - 1] = w[LAST_HANDLE]
      /\ list # <<>> =>
           /\ NextHandle(k, Last(list)) \in 1 .. LAST_HANDLE + 1
           /\ proc.found \o list = Entries(k, w[NextHandle(k, Last(list)) - 1])
  <2> DEFINE a == proc.at
             f == proc.found
  <2>1. k \in Discoveries /\ a \in 1 .. LAST_HANDLE + 1 /\ Lists(k, a, list)
        /\ f = Entries(k, Walk(Targets(k))[a - 1])
    BY <1>1, <1>2, <1>3
  <2> HIDE DEF list, k, a, f
  <2>2. /\ list = <<>> => Walk(Targets(k))[a - 1] = Walk(Targets(k))[LAST_HANDLE]
        /\ list # <<>> =>
             /\ NextHandle(k, Last(list)) \in 1 .. LAST_HANDLE + 1
             /\ f \o list = Entries(k, Walk(Targets(k))[NextHandle(k, Last(list)) - 1])
    BY <2>1, DiscoverGoesOn
  <2> QED BY <2>2 DEF a, f, k
<1> HIDE DEF g, r, list
<1>5. att' = att /\ rpcIn' = <<>>
  BY <1>1, <1>2, <1>3
<1>6. AttTypes'
  BY <1>1, <1>2, <1>5 DEF AttTypes, Envs
<1>7. proc' = [kind |-> proc.kind, h |-> proc.h,
               at |-> IF list = <<>> THEN proc.at ELSE NextHandle(k, Last(list)),
               found |-> IF list = <<>> THEN proc.found ELSE proc.found \o list,
               done |-> IF list = <<>> THEN TRUE ELSE proc.done]
  BY <1>1 DEF GattInv, ProcTypes
<1>8. ProcTypes'
  BY <1>1, <1>7 DEF GattInv, ProcTypes, Discoveries
<1>9. DiscoverInv'
  BY <1>1, <1>2, <1>4, <1>7 DEF DiscoverInv
<1>10. ReadInv' /\ PrepareInv'
  BY <1>1, <1>2, <1>5, <1>7 DEF ReadInv, PrepareInv, Discoveries
<1> QED BY <1>6, <1>8, <1>9, <1>10 DEF GattInv

(* A request of a long read.                                               *)
LEMMA ReadStep ==
  ASSUME GattInv, ReadLong
  PROVE  GattInv'
<1> DEFINE r == [op |-> "read", h |-> proc.h, off |-> proc.at]
           g == gatt_handle(att, r)
           list == g.rsp.list
           m == att.mtu
           v == attr_value(proc.h)
           a == proc.at
<1>1. /\ proc.kind = "read" /\ ~proc.done
      /\ att' = g.att /\ rpcIn' = rpcIn \o g.rpc /\ env' = env /\ link' = link
      /\ proc' = [proc EXCEPT !.found = @ \o list, !.at = @ + Len(list),
                              !.done = g.rsp.err # 0 \/ Len(list) < m - 1]
  BY DEF ReadLong, Answer
<1>2. /\ proc.h \in {3, 14, 16, 19} /\ a \in Nat /\ proc.found = [i \in 1 .. a |-> i]
      /\ IF v < 0 THEN a = 0 ELSE a <= v /\ (proc.done => a = v)
      /\ AttTypes /\ att.prep = <<>> /\ rpcIn = <<>>
  BY <1>1 DEF GattInv, ReadInv, PrepareInv
<1>3. /\ Smaller(Smaller(env.acl - 4, 256), att.mtu) = m /\ m \in Nat /\ m >= 23
      /\ v \in Int
  <2>1. v \in Int
    <3>1. ASSUME NEW h \in {3, 14, 16, 19} PROVE attr_value(h) \in Int
      <4>1. env.name \in Nat /\ env.result \in Nat
        BY <1>2, EnvIs
      <4>2. /\ attr_value(3) = env.name /\ attr_value(14) = -2 /\ attr_value(16) = env.result
            /\ attr_value(19) = 1
        BY <4>1, AttrValues
      <4> QED BY <4>1, <4>2
    <3>2. proc.h \in {3, 14, 16, 19}
      BY <1>2
    <3> HIDE DEF a, m
    <3> QED BY <3>1, <3>2
  <2> QED BY <1>2, <2>1, EnvIs
<1>4. g = Result(read_value(r, m), att, <<>>)
  BY <1>3 DEF gatt_handle
<1>5. /\ g.att = att /\ g.rpc = <<>> /\ g.rsp = read_value(r, m)
  BY <1>4 DEF Result
<1> DEFINE n == Smaller(v - a, m - 1)
           part == [i \in 1 .. n |-> a + i]
<1>6. IF v < 0 THEN list = <<>> /\ g.rsp.err # 0
      ELSE list = part /\ g.rsp.err = 0
  <2>1. r.h = proc.h /\ r.off = a
    OBVIOUS
  <2>2. CASE v < 0
    <3>1. read_value(r, m) = error_rsp(-v)
      BY <2>1, <2>2 DEF read_value
    <3> QED BY <1>3, <1>5, <2>2, <3>1 DEF error_rsp
  <2>3. CASE v >= 0
    <3>1. ~(v < 0) /\ ~(a > v)
      BY <1>2, <1>3, <2>3
    <3>2. read_value(r, m) = [err |-> 0, list |-> part]
      BY <2>1, <3>1 DEF read_value
    <3> HIDE DEF g, part, v
    <3> QED BY <1>5, <3>1, <3>2
  <2> QED BY <1>3, <2>2, <2>3
<1> HIDE DEF g, r, v, list
<1>7. att' = att /\ rpcIn' = <<>> /\ env' = env /\ attr_value(proc.h)' = v
  <2>1. att' = att /\ rpcIn' = <<>> /\ env' = env
    BY <1>1, <1>2, <1>5
  <2>2. AttTypes'
    BY <1>2, <2>1 DEF AttTypes, Envs
  <2>3. proc'.h = proc.h
    BY <1>1 DEF GattInv, ProcTypes
  <2>4. attr_value(proc.h)' = attr_value(proc.h)
    BY <2>1, <2>3 DEF attr_value
  <2> QED BY <2>1, <2>4 DEF v
<1>8. proc' = [kind |-> "read", h |-> proc.h, at |-> a + Len(list),
               found |-> proc.found \o list,
               done |-> g.rsp.err # 0 \/ Len(list) < m - 1]
  BY <1>1 DEF GattInv, ProcTypes
<1>9. AttTypes'
  BY <1>2, <1>7 DEF AttTypes, Envs
<1>10. ProcTypes'
  <2>1. (g.rsp.err # 0 \/ Len(list) < m - 1) \in BOOLEAN
    OBVIOUS
  <2> QED BY <1>1, <1>8, <2>1 DEF GattInv, ProcTypes
<1>11. ReadInv'
  <2>1. CASE v < 0
    <3>1. list = <<>> /\ a = 0
      BY <1>2, <1>6, <2>1
    <3>2. proc'.at = 0 /\ proc'.h = proc.h /\ proc'.found = <<>>
      <4>1. [i \in 1 .. 0 |-> i] = <<>>
        OBVIOUS
      <4> QED BY <1>2, <1>8, <3>1, <4>1
    <3>3. [i \in 1 .. 0 |-> i] = <<>>
      OBVIOUS
    <3> QED BY <1>2, <1>7, <2>1, <3>2, <3>3 DEF ReadInv
  <2>2. CASE v >= 0
    <3>1. n \in Nat /\ n <= v - a /\ n <= m - 1 /\ (n = v - a \/ n = m - 1)
      <4>1. v \in Nat /\ a <= v
        BY <1>2, <1>3, <2>2
      <4> QED BY <1>2, <1>3, <4>1 DEF Smaller
    <3>2. list = part /\ g.rsp.err = 0
      BY <1>3, <1>6, <2>2
    <3> HIDE DEF n
    <3>3. Len(list) = n
      BY <3>1, <3>2
    <3>4. proc.found \o list = [i \in 1 .. a + n |-> i]
      <4>1. [i \in 1 .. a |-> i] \o [i \in 1 .. n |-> a + i] = [i \in 1 .. a + n |-> i]
        <5> HIDE DEF a
        <5> QED BY <1>2, <3>1
      <4> QED BY <1>2, <3>2, <4>1
    <3>5. /\ proc'.h = proc.h /\ proc'.at = a + n
          /\ proc'.found = [i \in 1 .. a + n |-> i]
          /\ proc'.done <=> n < m - 1
      BY <1>8, <3>2, <3>3, <3>4
    <3>6. a + n \in Nat /\ a + n <= v /\ (n < m - 1 => a + n = v) /\ ~(v < 0)
      <4> HIDE DEF a, m
      <4> QED BY <1>2, <1>3, <2>2, <3>1
    <3> HIDE DEF a, m
    <3> QED BY <1>2, <1>7, <3>5, <3>6 DEF ReadInv
  <2> QED BY <1>3, <2>1, <2>2
<1>12. DiscoverInv' /\ PrepareInv'
  BY <1>2, <1>7, <1>8 DEF DiscoverInv, PrepareInv, Discoveries
<1> QED BY <1>9, <1>10, <1>11, <1>12 DEF GattInv

(* Only the prepared write is set.                                         *)
LEMMA PrepSet ==
  ASSUME AttTypes, env' = env, NEW p \in Seq(Nat \X Nat), att' = [att EXCEPT !.prep = p]
  PROVE  AttTypes' /\ att'.prep = p
<1>1. att \in [mtu : 23 .. env.mtu_max, cccd : SUBSET CccdHandles, prep : Seq(Nat \X Nat)]
  BY DEF AttTypes
<1>2. att' \in [mtu : 23 .. env.mtu_max, cccd : SUBSET CccdHandles, prep : Seq(Nat \X Nat)]
      /\ att'.prep = p
  BY <1>1
<1> QED BY <1>2 DEF AttTypes

(* A part of a long write.                                                 *)
LEMMA PrepareStep ==
  ASSUME GattInv, PreparePart
  PROVE  GattInv'
<1> DEFINE h == proc.h
           a == proc.at
           n == Smaller(att.mtu - 5, h - a)
           part == [i \in 1 .. n |-> <<link, a + i>>]
           r == [op |-> "prepare", h |-> GATT_RPC_VALUE, off |-> a, bytes |-> part]
           g == gatt_handle(att, r)
<1>1. /\ proc.kind = "prepare" /\ ~proc.done /\ a < h
      /\ att' = g.att /\ rpcIn' = rpcIn \o g.rpc /\ env' = env /\ link' = link
      /\ proc' = [proc EXCEPT !.at = IF g.rsp.err = 0 THEN @ + n ELSE proc.h,
                              !.found = IF g.rsp.err = 0 THEN @ ELSE <<"refused">>]
  BY DEF PreparePart, Answer
<1>2. /\ AttTypes /\ link \in Nat /\ h \in Nat /\ a \in Nat /\ rpcIn = <<>>
      /\ proc.found = <<>> /\ att.prep = Piece(a) /\ a <= PREP_SIZE
      /\ att.mtu \in Nat /\ att.mtu >= 23
  <2>1. proc.found = <<>>
    BY <1>1 DEF GattInv, PrepareInv
  <2> QED BY <1>1, <2>1, EnvIs DEF GattInv, PrepareInv, ProcTypes
<1>3. n \in Nat /\ n <= h - a
  <2> HIDE DEF h, a
  <2> QED BY <1>1, <1>2 DEF Smaller
<1>4. Len(part) = n /\ part \in Seq(Nat \X Nat) /\ Piece(a) \in Seq(Nat \X Nat)
      /\ Len(Piece(a)) = a /\ Piece(a) \o part = Piece(a + n)
  <2> HIDE DEF n, a
  <2> QED BY <1>2, <1>3 DEF Piece
<1>5. g = PrepareWrite(att, r)
  BY DEF gatt_handle
<1>6. IF a + n > PREP_SIZE THEN g.rsp.err # 0 /\ g.att = att /\ g.rpc = <<>>
      ELSE g.rsp.err = 0 /\ g.att = [att EXCEPT !.prep = Piece(a + n)] /\ g.rpc = <<>>
  <2>1. r.h = GATT_RPC_VALUE /\ r.off = Len(att.prep) /\ r.bytes = part /\ Len(r.bytes) = n
    BY <1>2, <1>4
  <2>2. Len(att.prep) = a
    BY <1>2, <1>4
  <2>3. CASE a + n > PREP_SIZE
    <3> HIDE DEF r, n, a
    <3>1. PrepareWrite(att, r) = Result(error_rsp(ERR_QUEUE_FULL), att, <<>>)
      BY <2>1, <2>2, <2>3 DEF PrepareWrite
    <3> HIDE DEF g
    <3> QED BY <1>5, <2>3, <3>1 DEF Result, error_rsp, ERR_QUEUE_FULL
  <2>4. CASE ~(a + n > PREP_SIZE)
    <3>1. att.prep \o r.bytes = Piece(a + n)
      BY <1>2, <1>4, <2>1
    <3> HIDE DEF r, n, a
    <3>2. PrepareWrite(att, r) = Result(Done, [att EXCEPT !.prep = Piece(a + n)], <<>>)
      BY <2>1, <2>2, <2>4, <3>1 DEF PrepareWrite
    <3> HIDE DEF g
    <3> QED BY <1>5, <2>4, <3>2 DEF Result, Done
  <2> QED BY <2>3, <2>4
<1> HIDE DEF g, r, part, n
<1>7. proc' = [kind |-> "prepare", h |-> h,
               at |-> IF g.rsp.err = 0 THEN a + n ELSE h,
               found |-> IF g.rsp.err = 0 THEN <<>> ELSE <<"refused">>, done |-> FALSE]
  BY <1>1, <1>2 DEF GattInv, ProcTypes
<1>8. ProcTypes' /\ DiscoverInv' /\ ReadInv'
  BY <1>1, <1>7 DEF GattInv, ProcTypes, DiscoverInv, ReadInv, Discoveries
<1>9. rpcIn' = <<>>
  BY <1>1, <1>2, <1>6
<1>10. PREP_SIZE \in Nat
  BY GattAssumption
<1>11. CASE a + n > PREP_SIZE
  <2>1. att' = att /\ g.rsp.err # 0
    BY <1>1, <1>6, <1>11
  <2>2. AttTypes'
    BY <1>1, <1>2, <2>1 DEF AttTypes, Envs
  <2>3. h > PREP_SIZE
    <3> HIDE DEF h, a
    <3> QED BY <1>2, <1>3, <1>10, <1>11
  <2>4. <<"refused">> # <<>>
    OBVIOUS
  <2>5. PrepareInv'
    <3>1. /\ proc'.kind = "prepare" /\ proc'.h = h /\ proc'.at = h /\ proc'.done = FALSE
          /\ proc'.found = <<"refused">> /\ h \in 0 .. h
      BY <1>2, <1>7, <2>1
    <3> HIDE DEF h
    <3> QED BY <1>2, <1>9, <2>3, <2>4, <3>1 DEF PrepareInv
  <2> QED BY <1>8, <2>2, <2>5 DEF GattInv
<1>12. CASE ~(a + n > PREP_SIZE)
  <2>1. att' = [att EXCEPT !.prep = Piece(a + n)] /\ g.rsp.err = 0
    BY <1>1, <1>6, <1>12
  <2>2. Piece(a + n) \in Seq(Nat \X Nat) /\ Piece(a + n)' = Piece(a + n)' /\ a + n \in Nat
    <3>1. a + n \in Nat
      BY <1>2, <1>3
    <3> HIDE DEF a
    <3> QED BY <1>2, <3>1 DEF Piece
  <2>3. AttTypes' /\ att'.prep = Piece(a + n)
    BY <1>1, <1>2, <2>1, <2>2, PrepSet
  <2>4. a + n <= PREP_SIZE /\ a + n \in 0 .. h
    <3> HIDE DEF a, h
    <3> QED BY <1>2, <1>3, <1>10, <1>12
  <2>5. /\ proc'.kind = "prepare" /\ proc'.h = h /\ proc'.at = a + n /\ proc'.done = FALSE
        /\ proc'.found = <<>>
    BY <1>7, <2>1
  <2>6. att'.prep = Piece(proc.at)'
    <3>1. Piece(proc.at)' = [i \in 1 .. a + n |-> <<link, i>>]
      BY <1>1, <2>5 DEF Piece
    <3> QED BY <2>3, <3>1 DEF Piece
  <2>7. PrepareInv'
    <3> HIDE DEF h, a
    <3> QED BY <1>2, <1>9, <2>4, <2>5, <2>6 DEF PrepareInv
  <2> QED BY <1>8, <2>3, <2>7 DEF GattInv
<1> QED BY <1>11, <1>12

(* The end of a long write.                                                *)
LEMMA ExecuteStep ==
  ASSUME GattInv, Execute
  PROVE  GattInv'
<1> DEFINE h == proc.h
           r == [op |-> "execute", flag |-> IF proc.found = <<>> THEN 1 ELSE 0]
           g == gatt_handle(att, r)
<1>1. /\ proc.kind = "prepare" /\ ~proc.done /\ proc.at = h
      /\ att' = g.att /\ rpcIn' = rpcIn \o g.rpc /\ env' = env /\ link' = link
      /\ proc' = [proc EXCEPT !.done = TRUE]
  BY DEF Execute, Answer
<1>2. /\ AttTypes /\ h \in Nat /\ rpcIn = <<>> /\ proc.found \in {<<>>, <<"refused">>}
      /\ proc.found # <<>> => h > PREP_SIZE
      /\ proc.found = <<>> => att.prep = Piece(h) /\ h <= PREP_SIZE
  BY <1>1 DEF GattInv, PrepareInv
<1>3. g = ExecuteWrite(att, r)
  BY DEF gatt_handle
<1>4. /\ g.att = [att EXCEPT !.prep = <<>>]
      /\ g.rpc = IF proc.found = <<>> THEN Piece(h) ELSE <<>>
  <2>1. r.flag = IF proc.found = <<>> THEN 1 ELSE 0
    OBVIOUS
  <2> HIDE DEF r, g, h
  <2> QED BY <1>2, <1>3, <2>1 DEF ExecuteWrite, Result
<1> HIDE DEF r, g
<1>5. proc' = [kind |-> "prepare", h |-> h, at |-> h, found |-> proc.found, done |-> TRUE]
  BY <1>1 DEF GattInv, ProcTypes
<1>6. AttTypes' /\ att'.prep = <<>>
  <2>1. <<>> \in Seq(Nat \X Nat)
    OBVIOUS
  <2>2. att' = [att EXCEPT !.prep = <<>>]
    BY <1>1, <1>4
  <2> QED BY <1>1, <1>2, <2>1, <2>2, PrepSet
<1>7. ProcTypes' /\ DiscoverInv' /\ ReadInv'
  BY <1>1, <1>5 DEF GattInv, ProcTypes, DiscoverInv, ReadInv, Discoveries
<1>8. rpcIn' = IF h > PREP_SIZE THEN <<>> ELSE Piece(h)
  <2>1. PREP_SIZE \in Nat
    BY GattAssumption
  <2>2. rpcIn' = <<>> \o g.rpc
    BY <1>1, <1>2
  <2>3. <<>> \o Piece(h) = Piece(h) /\ <<>> \o <<>> = <<>>
    <3> HIDE DEF h
    <3> QED BY <1>2 DEF Piece
  <2> HIDE DEF h
  <2> QED BY <1>2, <1>4, <2>1, <2>2, <2>3
<1>9. Piece(h)' = [i \in 1 .. h |-> <<link, i>>]
  BY <1>1, <1>5 DEF Piece
<1>10. PrepareInv'
  <2>1. /\ proc'.kind = "prepare" /\ proc'.h = h /\ proc'.at = h /\ proc'.done
        /\ proc'.found = proc.found /\ h \in 0 .. h
    BY <1>2, <1>5
  <2>2. rpcIn' = IF h > PREP_SIZE THEN <<>> ELSE Piece(h)'
    BY <1>8, <1>9 DEF Piece
  <2> QED BY <1>2, <1>6, <2>1, <2>2 DEF PrepareInv
<1> QED BY <1>6, <1>7, <1>10 DEF GattInv

(* The client goes on to another procedure.                                *)
LEMMA NextProcedureStep ==
  ASSUME GattInv, NextProcedure
  PROVE  GattInv'
<1>1. /\ proc.done /\ proc' = NoProcedure /\ rpcIn' = <<>> /\ env' = env /\ att' = att
      /\ link' = link
  BY DEF NextProcedure
<1>2. AttTypes'
  BY <1>1 DEF GattInv, AttTypes, Envs
<1>3. att.prep = <<>>
  BY <1>1 DEF GattInv, PrepareInv
<1>4. proc'.kind = "idle" /\ proc'.done = FALSE /\ ProcTypes'
  BY <1>1 DEF GattInv, ProcTypes, NoProcedure
<1> QED BY <1>1, <1>2, <1>3, <1>4 DEF GattInv, DiscoverInv, ReadInv, PrepareInv, Discoveries

(* Another client finds nothing prepared.                                  *)
LEMMA ReconnectStep ==
  ASSUME GattInv, Reconnect
  PROVE  GattInv'
<1>1. /\ link' = link + 1 /\ proc' = NoProcedure /\ rpcIn' = <<>> /\ env' = env
      /\ att' = [att EXCEPT !.mtu = 23, !.cccd = {}, !.prep = <<>>]
  BY DEF Reconnect, NewClient
<1>2. AttTypes'
  <2>1. 23 \in 23 .. env.mtu_max
    <3>1. att.mtu \in 23 .. env.mtu_max
      BY DEF GattInv, AttTypes
    <3> QED BY <3>1, EnvIs DEF GattInv, Smaller
  <2>2. att \in [mtu : 23 .. env.mtu_max, cccd : SUBSET CccdHandles, prep : Seq(Nat \X Nat)]
    BY DEF GattInv, AttTypes
  <2>3. <<>> \in Seq(Nat \X Nat) /\ {} \in SUBSET CccdHandles
    OBVIOUS
  <2>4. att' \in [mtu : 23 .. env.mtu_max, cccd : SUBSET CccdHandles, prep : Seq(Nat \X Nat)]
    BY <1>1, <2>1, <2>2, <2>3
  <2> QED BY <1>1, <2>4 DEF GattInv, AttTypes
<1>3. att'.prep = <<>>
  BY <1>1 DEF GattInv, AttTypes
<1>4. proc'.kind = "idle" /\ proc'.done = FALSE /\ ProcTypes'
  BY <1>1 DEF GattInv, ProcTypes, NoProcedure
<1> QED BY <1>1, <1>2, <1>3, <1>4 DEF GattInv, DiscoverInv, ReadInv, PrepareInv, Discoveries

(* Any other request leaves the procedure alone, and a prepared write as   *)
(* it is unless it is one.                                                 *)
LEMMA OtherStep ==
  ASSUME GattInv, NEW r \in OtherRequests, Other(r)
  PROVE  GattInv'
<1> DEFINE g == gatt_handle(att, r)
<1>1. att' = g.att /\ rpcIn' = rpcIn \o g.rpc /\ env' = env /\ link' = link /\ proc' = proc
  BY DEF Other, Answer
<1>2. g.rpc = <<>> /\ AttTypes /\ g.att \in [mtu : 23 .. env.mtu_max, cccd : SUBSET CccdHandles,
                                            prep : {att.prep}]
  <2>0. /\ AttTypes
        /\ att \in [mtu : 23 .. env.mtu_max, cccd : SUBSET CccdHandles, prep : {att.prep}]
    BY DEF GattInv, AttTypes
  <2>1. CASE r \in {[op |-> "mtu", mtu |-> m] : m \in ClientMtus}
    <3>1. PICK m \in ClientMtus : r = [op |-> "mtu", mtu |-> m]
      BY <2>1
    <3> DEFINE x == Smaller(r.mtu, env.mtu_max)
               y == IF x < 23 THEN 23 ELSE x
    <3>2. g = Result(Done, [att EXCEPT !.mtu = y], <<>>)
      BY <3>1 DEF gatt_handle, ExchangeMtu
    <3>3. y \in 23 .. env.mtu_max
      <4>1. m \in Nat /\ r.mtu = m
        BY <3>1, GattAssumption
      <4>2. env.mtu_max \in Nat /\ env.mtu_max >= 23
        BY <2>0, EnvIs DEF Smaller
      <4> QED BY <4>1, <4>2 DEF Smaller
    <3> HIDE DEF y, g
    <3> QED BY <2>0, <3>2, <3>3 DEF Result
  <2>2. CASE r \in {[op |-> "write", h |-> h, bytes |-> b] :
                     h \in {9, 3, 20}, b \in {<<1, 0>>, <<0, 0>>, <<1>>}}
    <3>1. PICK h \in {9, 3, 20}, b \in {<<1, 0>>, <<0, 0>>, <<1>>} :
            r = [op |-> "write", h |-> h, bytes |-> b]
      BY <2>2
    <3>2. g = write_value(att, r) /\ r.h = h
      BY <3>1 DEF gatt_handle
    <3>3. h # GATT_RPC_VALUE
      BY DEF GATT_RPC_VALUE
    <3>4. \/ \E e : g = Result(error_rsp(e), att, <<>>)
          \/ h \in CccdHandles /\ \E C \in {att.cccd \cup {h}, att.cccd \ {h}} :
                g = Result(Done, [att EXCEPT !.cccd = C], <<>>)
      <4> HIDE DEF g
      <4> QED BY <3>2, <3>3 DEF write_value
    <3> HIDE DEF g
    <3>5. CASE \E e : g = Result(error_rsp(e), att, <<>>)
      BY <2>0, <3>5 DEF Result
    <3>6. CASE h \in CccdHandles /\ \E C \in {att.cccd \cup {h}, att.cccd \ {h}} :
                 g = Result(Done, [att EXCEPT !.cccd = C], <<>>)
      <4>1. PICK C \in SUBSET CccdHandles : g = Result(Done, [att EXCEPT !.cccd = C], <<>>)
        BY <2>0, <3>6
      <4> QED BY <2>0, <4>1 DEF Result
    <3> QED BY <3>4, <3>5, <3>6
  <2>3. CASE r = [op |-> "prepare", h |-> 9, off |-> 0, bytes |-> <<1, 0>>]
    <3>1. g = PrepareWrite(att, r) /\ r.h = 9
      BY <2>3 DEF gatt_handle
    <3>2. g = Result(error_rsp(ERR_WRITE_NOT_PERM), att, <<>>)
      BY <3>1 DEF PrepareWrite, GATT_RPC_VALUE
    <3> HIDE DEF g
    <3> QED BY <2>0, <3>2 DEF Result
  <2>4. CASE r = [op |-> "info", start |-> 0, end |-> 9]
    <3>1. \E rsp : g = Result(rsp, att, <<>>)
      BY <2>4 DEF gatt_handle
    <3> HIDE DEF g
    <3> QED BY <2>0, <3>1 DEF Result
  <2>5. CASE r = [op |-> "unknown"]
    <3>1. \E rsp : g = Result(rsp, att, <<>>)
      BY <2>5 DEF gatt_handle
    <3> HIDE DEF g
    <3> QED BY <2>0, <3>1 DEF Result
  <2> QED BY <2>1, <2>2, <2>3, <2>4, <2>5 DEF OtherRequests
<1> HIDE DEF g
<1>3. AttTypes' /\ att'.prep = att.prep
  BY <1>1, <1>2 DEF AttTypes, Envs
<1>4. rpcIn' = rpcIn
  <2>1. rpcIn \in Seq(Nat \X Nat)
    <3>1. \A n \in Nat : Piece(n) \in Seq(Nat \X Nat)
      BY DEF GattInv, ProcTypes, Piece
    <3>2. <<>> \in Seq(Nat \X Nat)
      OBVIOUS
    <3>3. rpcIn = <<>> \/ \E n \in Nat : rpcIn = Piece(n)
      BY DEF GattInv, PrepareInv
    <3> QED BY <3>1, <3>2, <3>3
  <2> QED BY <1>1, <1>2, <2>1
<1>5. ProcTypes' /\ DiscoverInv' /\ ReadInv'
  BY <1>1, ProcKept
<1>6. PrepareInv'
  <2>1. \A n : Piece(n)' = Piece(n)
    BY <1>1 DEF Piece
  <2> QED BY <1>1, <1>3, <1>4, <2>1 DEF GattInv, PrepareInv
<1> QED BY <1>3, <1>5, <1>6 DEF GattInv

(* All steps.                                                              *)
LEMMA GattStep == GattInv /\ [GattNext]_attVars => GattInv'
<1> SUFFICES ASSUME GattInv, [GattNext]_attVars PROVE GattInv'
  OBVIOUS
<1>1. CASE UNCHANGED attVars
  <2>1. env' = env /\ att' = att /\ proc' = proc /\ link' = link /\ rpcIn' = rpcIn
    BY <1>1 DEF attVars
  <2>2. AttTypes' /\ PrepareInv'
    BY <2>1 DEF GattInv, AttTypes, Envs, PrepareInv, Piece
  <2> QED BY <2>1, <2>2, ProcKept DEF GattInv
<1> QED BY <1>1, StartStep, DiscoverStep, ReadStep, PrepareStep, ExecuteStep,
           NextProcedureStep, ReconnectStep, OtherStep DEF GattNext

(* What a characteristic declares, the server does.                        *)
LEMMA DeclsDo ==
  ASSUME env.name \in Nat, env.result \in Nat, NEW h \in Decls
  PROVE  DoesAsDeclared(h)
<1>1. /\ db[2].props = {"read"} /\ db[4].props = {"read"} /\ db[7].props = {"read", "notify"}
      /\ db[10].props = {"read", "notify"} /\ db[13].props = {"write"}
      /\ db[15].props = {"read", "notify"} /\ db[18].props = {"read"}
  BY DbIs DEF DECL
<1>2. /\ attr_value(3) >= 0 /\ attr_value(5) >= 0 /\ attr_value(8) >= 0
      /\ attr_value(11) >= 0 /\ ~(attr_value(14) >= 0) /\ attr_value(16) >= 0
      /\ attr_value(19) >= 0
  BY AttrValues
<1>3. \A x \in {3, 5, 8, 11, 16, 19} :
         write_value(att, [h |-> x, bytes |-> <<0>>]).rsp.err # 0
  <2> SUFFICES ASSUME NEW x \in {3, 5, 8, 11, 16, 19}
               PROVE  write_value(att, [h |-> x, bytes |-> <<0>>]).rsp.err # 0
    OBVIOUS
  <2>1. x \notin CccdHandles /\ x # GATT_RPC_VALUE /\ x \in DbHandles
    BY DEF CccdHandles, GATT_RPC_VALUE, DbHandles, LAST_HANDLE
  <2>2. write_value(att, [h |-> x, bytes |-> <<0>>])
          = Result(error_rsp(ERR_WRITE_NOT_PERM), att, <<>>)
    BY <2>1 DEF write_value
  <2> QED BY <2>2 DEF Result, error_rsp, ERR_WRITE_NOT_PERM
<1>4. write_value(att, [h |-> 14, bytes |-> <<0>>]).rsp.err = 0
  <2>1. write_value(att, [h |-> 14, bytes |-> <<0>>]) = Result(Done, att, <<0>>)
    BY DEF write_value, CccdHandles, GATT_RPC_VALUE
  <2> QED BY <2>1 DEF Result, Done
<1>5. CASE h = 2
  <2>1. h + 1 = 3 /\ h + 2 = 4
    BY <1>5
  <2> QED BY <1>1, <1>2, <1>3, <1>5, <2>1 DEF DoesAsDeclared, CccdHandles
<1>6. CASE h = 4
  <2>1. h + 1 = 5 /\ h + 2 = 6
    BY <1>6
  <2> QED BY <1>1, <1>2, <1>3, <1>6, <2>1 DEF DoesAsDeclared, CccdHandles
<1>7. CASE h = 7
  <2>1. h + 1 = 8 /\ h + 2 = 9
    BY <1>7
  <2> QED BY <1>1, <1>2, <1>3, <1>7, <2>1 DEF DoesAsDeclared, CccdHandles
<1>8. CASE h = 10
  <2>1. h + 1 = 11 /\ h + 2 = 12
    BY <1>8
  <2> QED BY <1>1, <1>2, <1>3, <1>8, <2>1 DEF DoesAsDeclared, CccdHandles
<1>9. CASE h = 13
  <2>1. h + 1 = 14 /\ h + 2 = 15
    BY <1>9
  <2> QED BY <1>1, <1>2, <1>4, <1>9, <2>1 DEF DoesAsDeclared, CccdHandles
<1>10. CASE h = 15
  <2>1. h + 1 = 16 /\ h + 2 = 17
    BY <1>10
  <2> QED BY <1>1, <1>2, <1>3, <1>10, <2>1 DEF DoesAsDeclared, CccdHandles
<1>11. CASE h = 18
  <2>1. h + 1 = 19 /\ h + 2 = 20
    BY <1>11
  <2> QED BY <1>1, <1>2, <1>3, <1>11, <2>1 DEF DoesAsDeclared, CccdHandles
<1> QED BY <1>5, <1>6, <1>7, <1>8, <1>9, <1>10, <1>11 DEF Decls

(* What is kept says that the procedures are exact.                        *)
LEMMA GattFits == GattInv => ProceduresAreExact
<1> SUFFICES ASSUME GattInv, proc.done PROVE ProceduresAreExact
  BY DEF ProceduresAreExact
<1> DEFINE k == proc.kind
           s == Walk(Targets(k))[LAST_HANDLE]
<1>0. env.name \in Nat /\ env.result \in Nat
  BY EnvIs DEF GattInv
<1>1. ASSUME k \in Discoveries PROVE proc.found = Entries(k, s)
  BY <1>1 DEF GattInv, DiscoverInv
<1>2. CASE k = "info"
  <2>1. s = [i \in DbHandles |-> i]
    BY <1>2, WalkAll DEF Targets
  <2>2. proc.found = [h \in DbHandles |-> <<h, attr_type(h)>>]
    BY <1>1, <1>2, <2>1 DEF Discoveries, Entries, Entry
  <2> QED BY <1>2, <2>2 DEF ProceduresAreExact
<1>3. CASE k = "group"
  <2>1. s = <<1, 6>>
    BY <1>3, WalkTwo DEF Targets
  <2>2. proc.found = << <<1, 5>>, <<6, 19>> >>
    <3>1. proc.found = Entries(k, <<1, 6>>)
      BY <1>1, <1>3, <2>1 DEF Discoveries
    <3>2. Entries(k, <<1, 6>>) = << <<1, 5>>, <<6, 19>> >>
      BY <1>3, GroupEnds DEF Entries, Entry
    <3> QED BY <3>1, <3>2
  <2> QED BY <1>3, <2>2 DEF ProceduresAreExact
<1>4. CASE k = "value"
  <2>1. s = <<6>>
    BY <1>4, WalkTwo DEF Targets
  <2>2. proc.found = << <<6, 19>> >>
    <3>1. proc.found = Entries(k, <<6>>)
      BY <1>1, <1>4, <2>1 DEF Discoveries
    <3>2. Entries(k, <<6>>) = << <<6, 19>> >>
      BY <1>4, GroupEnds DEF Entries, Entry
    <3> QED BY <3>1, <3>2
  <2> QED BY <1>4, <2>2 DEF ProceduresAreExact
<1>5. CASE k = "type"
  <2>1. Targets(k) = Decls /\ {h \in DbHandles : db[h].kind = "DECL"} = Decls
    BY <1>5, AttrTypes DEF Targets
  <2>2. proc.found = Entries(k, s) /\ s \in Seq(DbHandles)
        /\ \A i \in 1 .. Len(s) : s[i] \in Decls
    <3>1. Walked(Decls, LAST_HANDLE)
      BY WalkIs DEF LAST_HANDLE
    <3> QED BY <1>1, <1>5, <2>1, <3>1 DEF Discoveries, Walked
  <2> HIDE DEF s
  <2>3. DOMAIN proc.found = 1 .. Len(s) /\ DOMAIN s = 1 .. Len(s)
        /\ \A i \in 1 .. Len(s) : proc.found[i][1] = s[i]
    <3>1. DOMAIN s = 1 .. Len(s)
      BY <2>2
    <3> QED BY <1>5, <2>2, <3>1 DEF Entries, Entry
  <2>4. [i \in DOMAIN proc.found |-> proc.found[i][1]] = s
    <3> DEFINE f == [i \in DOMAIN proc.found |-> proc.found[i][1]]
    <3>1. f = [i \in 1 .. Len(s) |-> s[i]]
      BY <2>3
    <3>2. s = [i \in 1 .. Len(s) |-> s[i]]
      BY <2>2
    <3> QED BY <3>1, <3>2
  <2>5. \A i \in DOMAIN proc.found : DoesAsDeclared(proc.found[i][1])
    <3> SUFFICES ASSUME NEW i \in 1 .. Len(s) PROVE DoesAsDeclared(s[i])
      BY <2>3
    <3>1. s[i] \in Decls
      BY <2>2
    <3> QED BY <1>0, <3>1, DeclsDo
  <2>6. s = Walk({h \in DbHandles : db[h].kind = "DECL"})[LAST_HANDLE]
    BY <2>1 DEF s
  <2> QED BY <1>5, <2>4, <2>5, <2>6 DEF ProceduresAreExact
<1>6. CASE k = "read"
  <2>1. /\ proc.h \in {3, 14, 16, 19} /\ proc.at \in Nat
        /\ proc.found = [i \in 1 .. proc.at |-> i]
        /\ IF attr_value(proc.h) < 0 THEN proc.at = 0 ELSE proc.at = attr_value(proc.h)
    BY <1>6 DEF GattInv, ReadInv
  <2> DEFINE v == attr_value(proc.h)
  <2>2. v \in Int
    <3>1. ASSUME NEW h \in {3, 14, 16, 19} PROVE attr_value(h) \in Int
      <4>1. /\ attr_value(3) = env.name /\ attr_value(14) = -2 /\ attr_value(16) = env.result
            /\ attr_value(19) = 1
        BY <1>0, AttrValues
      <4> QED BY <1>0, <4>1
    <3> QED BY <2>1, <3>1
  <2>3. proc.found = [i \in 1 .. v |-> i]
    <3> HIDE DEF v
    <3>1. CASE v < 0
      <4>1. 1 .. v = 1 .. 0
        BY <2>2, <3>1
      <4> QED BY <2>1, <3>1, <4>1 DEF v
    <3>2. CASE ~(v < 0)
      BY <2>1, <3>2 DEF v
    <3> QED BY <3>1, <3>2
  <2> QED BY <1>6, <2>3 DEF ProceduresAreExact
<1>7. CASE k = "prepare"
  <2>1. rpcIn = IF proc.h > PREP_SIZE THEN <<>> ELSE [i \in 1 .. proc.h |-> <<link, i>>]
    BY <1>7 DEF GattInv, PrepareInv, Piece
  <2> QED BY <1>7, <2>1 DEF ProceduresAreExact
<1>8. k # "idle"
  BY DEF GattInv, ProcTypes, NoProcedure
<1> QED BY <1>2, <1>3, <1>4, <1>5, <1>6, <1>7, <1>8 DEF GattInv, ProcTypes, Discoveries

(* Whatever the MTU, the value lengths and the requests in between, a      *)
(* discovery finds each wanted attribute once and in order, a long read    *)
(* the whole value, and a long write arrives whole or not at all; a        *)
(* characteristic does what it declares (gatt_handle, find_info,           *)
(* read_by_type, find_by_value, prepare_write, execute_write).             *)
THEOREM ProceduresCorrect == GattInit /\ [][GattNext]_attVars => []ProceduresAreExact
<1>1. GattInit => GattInv
  BY InitGatt
<1>2. GattInv /\ [GattNext]_attVars => GattInv'
  BY GattStep
<1>3. GattInv => ProceduresAreExact
  BY GattFits
<1> QED BY <1>1, <1>2, <1>3, PTL
=============================================================================
