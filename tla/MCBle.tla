------------------------------- MODULE MCBle -------------------------------
(***************************************************************************)
(* ble-ha in three parts that share little: Improv with the adapter, the   *)
(* ATT server under it and the proxy.  A behaviour is one of one of them   *)
(* (part), so that the run explores each on its own.                       *)
(***************************************************************************)
EXTENDS MCBleHa, Gatt, ApiProxy

VARIABLE part

Request(t, n) == [type |-> t, len |-> n]
BadFrame(b) == [type |-> 0, bytes |-> b]
MCStreams == <<{<<Request(66, 2), Request(7, 0), Request(87, 0)>>,
                <<Request(9, 0), Request(5, 0), Request(11, 0)>>,
                <<Request(1, 3), Request(300, 0), Request(7, 100)>>,
                <<BadFrame(<<0, 128, 128, 128, 128, 128>>)>>},
               {<<Request(66, 1), BadFrame(<<1>>)>>}>>
Advert(bits, rssi, type, len, cut) ==
    [bits |-> bits, rssi |-> rssi, type |-> type, len |-> len, cut |-> cut]
Longest == Advert(48, -128, 3, 31, FALSE)
MCEvents == {<<Longest, Longest, Longest, Longest>>,
             <<Advert(0, 0, 0, 0, FALSE), Advert(40, -60, 1, 3, TRUE)>>}

AnyEnv == CHOOSE e \in Envs : TRUE
AnyMode == CHOOSE b \in BOOLEAN : TRUE

MCInit == /\ part \in {"improv", "gatt", "api"}
          /\ Init /\ GattInit /\ ApiInit
          /\ part # "improv" => proxy = AnyMode
          /\ part # "gatt" => env = AnyEnv

(* Bound: MaxWrites writes, but one fewer beside the proxy, which scans.   *)
WritesBound == proxy => writes < MaxWrites - 1

Improv(A) == part = "improv" /\ A /\ UNCHANGED <<part, attVars, apiVars>>
Att(A) == part = "gatt" /\ A /\ UNCHANGED <<part, vars, apiVars>>
Api(A) == part = "api" /\ A /\ UNCHANGED <<part, vars, attVars>>

(* Next, GattNext and ApiNext, each action as a disjunct of its own so that*)
(* TLC counts how often it is taken.  IdentifyEnds is left out: no client  *)
(* of this run writes an identify (MCBleHaLive.cfg has it).                *)
MCNext ==
    \/ Improv(CmdAnswer) \/ Improv(CmdOther) \/ Improv(LoopTop) \/ Improv(LoopScan)
    \/ Improv(PollPacket) \/ Improv(PollOther) \/ Improv(LoopClients)
    \/ Improv(JoinConnected) \/ Improv(JoinLate) \/ Improv(DoneDue)
    \/ Improv(NetworkFound) \/ Improv(NotDue) \/ Improv(ExitScan) \/ Improv(ExitAdv)
    \/ Improv(ExitJoin) \/ Improv(CmdTimeout) \/ Improv(PollError)
    \/ Improv(on_signal) \/ Improv(AdapterCommand) \/ Improv(ClientConnects)
    \/ Improv(ClientGoes) \/ Improv(WritesBound /\ ClientWrites) \/ Improv(PacketSent)
    \/ Improv(NetworkAdded)
    \/ \E p \in Procedures : Att(StartProcedure(p))
    \/ Att(Discover) \/ Att(ReadLong) \/ Att(PreparePart) \/ Att(Execute)
    \/ Att(NextProcedure) \/ Att(Reconnect) \/ \E r \in OtherRequests : Att(Other(r))
    \/ Api(SetScan) \/ Api(ApiPoll) \/ Api(ApiHci) \/ Api(ApiAccept)
    \/ Api(ClientRecv) \/ Api(ClientMessage) \/ Api(ClientKeep) \/ Api(FullBatch)
    \/ Api(ApiTimers) \/ \E c \in Peers : Api(PeerLeaves(c))
    \/ \E c \in Peers : \E s \in Streams[c] : Api(PeerConnects(c, s))
    \/ \E ev \in Events : Api(AdvertisingReport(ev))

MCSpec == MCInit /\ [][MCNext]_<<part, vars, attVars, apiVars>>
=============================================================================
