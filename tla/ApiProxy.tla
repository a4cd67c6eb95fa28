------------------------------ MODULE ApiProxy ------------------------------
(***************************************************************************)
(* The Bluetooth proxy of ble-ha (-p): clients of the ESPHome API over     *)
(* TCP, whose messages come in pieces of any length, and the batches of    *)
(* advertisements that go to those that subscribe (ble-ha.c, api.c, hci.c).*)
(* The turn of run() is in steps: set_scan, poll with its snapshot of the  *)
(* events, the adapter, the listener, each client with each of its         *)
(* messages, the full batch, the timers.  TCP and the adapter are external.*)
(***************************************************************************)
EXTENDS Integers, Sequences, SequencesExt, FiniteSets, FiniteSetsExt

CONSTANTS
    MAX_CLIENTS,   \* clients at a time
    BUF_SIZE,      \* sizeof(clients[].buf)
    SEND_SIZE,     \* sizeof(buf) of client_send()
    MAX_MSG,       \* the longest message api_next() takes, 4096
    ADV_BATCH, ADV_MAX,
    MAX_REPORTS,   \* reports of an event that le_meta() takes, 8
    Streams,       \* what each connection may send: [type, len] and bad frames
    Events,        \* advertising events: sequences of advertisements
    MaxPeers,      \* bound: TCP connections
    MaxEvts,       \* bound: advertising events
    MaxFails       \* bound: sends that fail

(* An advertisement is [bits, rssi, type, len, cut]: the bits of its        *)
(* address, what HCI says of it, and whether the event ends before it does.*)
AdvReports == [bits : 0 .. 48, rssi : -128 .. 127, type : 0 .. 127, len : Nat,
            cut : BOOLEAN]

(* A message is [type, len], both of at most four groups of seven bits; a  *)
(* frame that api_next() cannot take is of type 0, with its bytes.         *)
Varints == {v \in Nat : v < 128 * 128 * 128 * 128}
Messages == [type : Varints \ {0}, len : Varints]
BadFrames == {f \in [type : {0}, bytes : Seq(0 .. 255)] :
                Len(f.bytes) > 0 /\ (f.bytes[1] # 0 \/ (Len(f.bytes) > 5 /\
                                        \A i \in 2 .. 6 : f.bytes[i] > 127))}

(* SEND_SIZE takes the msg of flush_batch() with its frame, data[] of      *)
(* struct adv the data of a report, and api_next() what the buffer takes.  *)
ASSUME ApiAssumption ==
    /\ ADV_BATCH \in Nat /\ ADV_BATCH * 48 + 12 <= SEND_SIZE /\ SEND_SIZE \in Nat
    /\ ADV_MAX = 31 /\ MAX_REPORTS \in Nat
    /\ BUF_SIZE \in Nat /\ 0 < BUF_SIZE /\ BUF_SIZE <= MAX_MSG /\ MAX_MSG \in Nat
    /\ MAX_CLIENTS \in Nat /\ 0 < MAX_CLIENTS /\ MaxPeers \in Nat
    /\ \A c \in 1 .. MaxPeers : Streams[c] \subseteq Seq(Messages \cup BadFrames)
    /\ Events \subseteq Seq(AdvReports)

VARIABLES
    apc, at,       \* the step of the loop, and the client slot it serves
    ready,         \* the poll snapshot: hci, listen and slots of clients
    slots,         \* s.clients: fd (0: free), buf, sub
    used,          \* client_read(): bytes of the messages it has handled
    scan,          \* s.scanning
    adverts,       \* s.batch
    peers,         \* TCP: stream, wire (bytes not received), state, left
    waiting,       \* connections that the listener has
    hciq, nevts,   \* advertising events not read, and all so far
    fails,         \* connections for which a send failed
    handled,       \* history: the messages handled for each connection
    replies        \* history: the messages sent to each connection

apiVars == <<apc, at, ready, slots, used, scan, adverts, peers, waiting, hciq, nevts,
             fails, handled, replies>>

Peers == 1 .. MaxPeers
Slots == 1 .. MAX_CLIENTS
NoEvents == [hci |-> FALSE, listen |-> FALSE, clients |-> {}]
Free == [fd |-> 0, buf |-> <<>>, sub |-> FALSE]

-----------------------------------------------------------------------------
(* api.c                                                                   *)

(* Groups of seven bits, the low one first.                                *)
pb_varint(v) ==
    LET shift[k \in 0 .. 4] == IF k = 0 THEN v ELSE shift[k - 1] \div 128
        n == Min({k \in 1 .. 4 : shift[k] = 0})
    IN [i \in 1 .. n |-> (shift[i - 1] % 128) + (IF i < n THEN 128 ELSE 0)]

api_frame(type, len) ==
    <<0>> \o pb_varint(len) \o pb_varint(type) \o [i \in 1 .. len |-> 0]

(* The lengths of fields: none for the default value.  An address is given *)
(* by its bits.                                                            *)
pb_uint(v) == IF v = 0 THEN 0 ELSE 1 + Len(pb_varint(v))
pb_uint_bits(bits) == IF bits = 0 THEN 0 ELSE 1 + (bits + 6) \div 7
pb_bytes(len) == IF len = 0 THEN 0 ELSE 1 + Len(pb_varint(len)) + len

Zigzag(n) == IF n < 0 THEN -2 * n - 1 ELSE 2 * n
AdvLen(a) == pb_uint_bits(a.bits) + pb_uint(Zigzag(a.rssi)) + pb_uint(a.type)
             + pb_bytes(a.len)
AdvField(a) == 1 + Len(pb_varint(AdvLen(a))) + AdvLen(a)
api_adv_batch(ads) ==
    LET p[i \in 0 .. Len(ads)] == IF i = 0 THEN 0 ELSE p[i - 1] + AdvField(ads[i])
    IN p[Len(ads)]

(* The varint of p after pos bytes: r is 1, or 0 when it is not complete,  *)
(* or -1 when it has more than five bytes.  (The model sends no value of   *)
(* five bytes, whose upper bits the code drops.)                           *)
read_varint(p, pos) ==
    LET ends == {k \in 1 .. 5 : pos + k <= Len(p) /\ p[pos + k] < 128}
        n == Min(ends)
        value[k \in 1 .. n + 1] == IF k = n + 1 THEN 0
                                   ELSE (p[pos + k] % 128) + 128 * value[k + 1]
    IN IF ends # {} THEN [r |-> 1, pos |-> pos + n, v |-> value[1]]
       ELSE [r |-> IF Len(p) < pos + 5 THEN 0 ELSE -1, pos |-> pos, v |-> 0]

(* r is the length of the first frame, 0 when it is not complete, -1 when  *)
(* it is bad.                                                              *)
api_next(p) ==
    LET Stop(r) == [r |-> r, type |-> 0]
        len  == read_varint(p, 1)
        type == read_varint(p, len.pos)
    IN IF p = <<>> THEN Stop(0)
       ELSE IF p[1] # 0 THEN Stop(-1)
       ELSE IF len.r < 1 THEN Stop(len.r)
       ELSE IF type.r < 1 THEN Stop(type.r)
       ELSE IF len.v > MAX_MSG THEN Stop(-1)
       ELSE IF type.pos + len.v > Len(p) THEN Stop(0)
       ELSE [r |-> type.pos + len.v, type |-> type.v]

-----------------------------------------------------------------------------
(* The clients                                                             *)

\* Mutant: the rest of a message stays for the next client of the slot.
client_close_KeepLen(i) ==
    /\ slots' = [slots EXCEPT ![i] = [Free EXCEPT !.buf = slots[i].buf]]
    /\ peers' = [peers EXCEPT ![slots[i].fd].state = "closed"]

client_close(i) ==
    /\ slots' = [slots EXCEPT ![i] = Free]
    /\ peers' = [peers EXCEPT ![slots[i].fd].state = "closed"]

(* The answer to a message, if it has one: HelloResponse,                  *)
(* DisconnectResponse, PingResponse, DeviceInfoResponse, ListEntitiesDone, *)
(* ConnectionsFree.                                                        *)
Reply(type) == CASE type = 1 -> <<2>> [] type = 5 -> <<6>> [] type = 7 -> <<8>>
                 [] type = 9 -> <<10>> [] type = 11 -> <<19>> [] type = 80 -> <<81>>
                 [] OTHER -> <<>>

Sent(type, ids) == [type |-> type, ids |-> ids]

(* client_send() of an answer: the client takes it whole, or it goes.      *)
client_send(i, type) ==
    LET c == slots[i].fd
    IN \/ /\ replies' = [replies EXCEPT ![c] = Append(@, Sent(type, <<>>))]
          /\ IF type = 6 THEN client_close(i) ELSE UNCHANGED <<slots, peers>>
          /\ UNCHANGED fails
       \/ /\ Cardinality(fails) < MaxFails /\ fails' = fails \cup {c}
          /\ client_close(i) /\ UNCHANGED replies

client_message(i, type) ==
    /\ handled' = [handled EXCEPT ![slots[i].fd] = Append(@, type)]
    /\ \/ Reply(type) # <<>> /\ client_send(i, Reply(type)[1])
       \/ /\ Reply(type) = <<>>
          /\ slots' = [slots EXCEPT ![i].sub = IF type = 66 THEN TRUE
                                               ELSE IF type = 87 THEN FALSE ELSE @]
          /\ UNCHANGED <<peers, replies, fails>>

HasInput(c) == peers[c].wire # <<>> \/ peers[c].left

NextSlot ==
    IF at < MAX_CLIENTS THEN apc' = "clients" /\ at' = at + 1
    ELSE apc' = "full" /\ at' = 1

(* client_read(): recv.  It returns at most what the buffer still takes,   *)
(* 0 when the client has left, EAGAIN when there is nothing.               *)
ClientRecv ==
    /\ apc = "clients"
    /\ LET c == slots[at].fd
           served == c # 0 /\ at \in ready.clients
           room == BUF_SIZE - Len(slots[at].buf)
       IN IF ~served \/ ~HasInput(c)
          THEN NextSlot /\ UNCHANGED <<slots, peers>>
          ELSE IF peers[c].wire = <<>>
          THEN client_close(at) /\ NextSlot
          ELSE /\ \E n \in 1 .. Min({room, Len(peers[c].wire)}) :
                    /\ slots' = [slots EXCEPT ![at].buf =
                                    @ \o SubSeq(peers[c].wire, 1, n)]
                    /\ peers' = [peers EXCEPT ![c].wire = SubSeq(@, n + 1, Len(@))]
               /\ apc' = "messages" /\ UNCHANGED at
    /\ UNCHANGED <<ready, used, scan, adverts, waiting, hciq, nevts, fails, handled,
                   replies>>

(* client_read(): the next message of the buffer.                          *)
ClientMessage ==
    /\ apc = "messages" /\ slots[at].fd # 0
    /\ LET m == api_next(SubSeq(slots[at].buf, used + 1, Len(slots[at].buf)))
       IN /\ m.r > 0
          /\ client_message(at, m.type)
          /\ used' = used + m.r
    /\ UNCHANGED <<apc, at, ready, scan, adverts, waiting, hciq, nevts>>

(* client_read(): no further message.  The rest moves to the front; what   *)
(* is bad, or cannot become a message, closes the client.                  *)
ClientKeep ==
    LET buf == slots[at].buf
        m == api_next(SubSeq(buf, used + 1, Len(buf)))
    IN /\ apc = "messages"
       /\ \/ slots[at].fd = 0 /\ UNCHANGED <<slots, peers>>
          \/ /\ slots[at].fd # 0 /\ m.r < 1
             /\ IF m.r < 0 \/ (used = 0 /\ Len(buf) = BUF_SIZE) THEN client_close(at)
                ELSE /\ slots' = [slots EXCEPT ![at].buf = SubSeq(@, used + 1, Len(@))]
                     /\ UNCHANGED peers
       /\ used' = 0 /\ NextSlot
       /\ UNCHANGED <<ready, scan, adverts, waiting, hciq, nevts, fails, handled,
                      replies>>

ApiAccept ==
    /\ apc = "accept" /\ apc' = "clients"
    /\ IF ready.listen
       THEN LET c == Head(waiting)
                free == {i \in Slots : slots[i].fd = 0}
            IN /\ waiting' = Tail(waiting)
               /\ IF free = {} THEN /\ peers' = [peers EXCEPT ![c].state = "refused"]
                                    /\ UNCHANGED slots
                  ELSE /\ slots' = [slots EXCEPT ![Min(free)].fd = c]
                       /\ peers' = [peers EXCEPT ![c].state = "open"]
       ELSE UNCHANGED <<waiting, peers, slots>>
    /\ UNCHANGED <<at, ready, used, scan, adverts, hciq, nevts, fails, handled,
                   replies>>

-----------------------------------------------------------------------------
(* The advertisements                                                      *)

(* hci_parse_adv_reports(): up to the first that is too long, or cut off.  *)
hci_parse_adv_reports(ev) ==
    LET good == {n \in 0 .. Min({Len(ev), MAX_REPORTS}) :
                   \A i \in 1 .. n : ev[i].len <= ADV_MAX /\ ~ev[i].cut}
    IN SubSeq(ev, 1, Max(good))

\* Mutant: the batch takes all reports of an event.
le_meta_NoLimit(ev) ==
    adverts' = IF scan THEN adverts \o hci_parse_adv_reports(ev) ELSE adverts

(* le_meta() of an advertising report: a full batch drops the rest.        *)
le_meta(ev) ==
    LET ads == hci_parse_adv_reports(ev)
        room == Min({Len(ads), ADV_BATCH - Len(adverts)})
    IN adverts' = IF scan THEN adverts \o SubSeq(ads, 1, room) ELSE adverts

HandleReport ==
    /\ hciq # <<>>
    /\ le_meta(Head(hciq)) /\ hciq' = Tail(hciq)

Subscribed == {i \in Slots : slots[i].fd # 0 /\ slots[i].sub}
subscribers == Cardinality(Subscribed)

(* flush_batch(): to each that subscribes, whole, or the client goes.      *)
flush_batch ==
    LET ids == [i \in DOMAIN adverts |-> adverts[i].id]
        to == IF api_adv_batch(adverts) + 12 > SEND_SIZE THEN {} ELSE Subscribed
        fd(I) == {slots[i].fd : i \in I}
    IN /\ adverts' = <<>>
       /\ \E lost \in SUBSET to :
             /\ fails' = fails \cup fd(lost) /\ Cardinality(fails') <= MaxFails
             /\ slots' = [i \in Slots |-> IF i \in lost THEN Free ELSE slots[i]]
             /\ peers' = [c \in Peers |-> IF c \in fd(lost)
                                          THEN [peers[c] EXCEPT !.state = "closed"]
                                          ELSE peers[c]]
             /\ replies' = [c \in Peers |->
                          IF c \in fd(to \ lost)
                          THEN Append(replies[c], Sent(93, ids))
                          ELSE replies[c]]
       /\ UNCHANGED handled

-----------------------------------------------------------------------------
(* run()                                                                   *)

(* set_scan(): while its commands wait, reports come in; they may fail.    *)
SetScan ==
    /\ apc = "scan"
    /\ \/ /\ (subscribers > 0) # scan
          /\ HandleReport /\ UNCHANGED <<apc, scan>>
       \/ /\ scan' \in {subscribers > 0, scan}
          /\ apc' = "poll" /\ UNCHANGED <<adverts, hciq>>
    /\ UNCHANGED <<at, ready, slots, used, peers, waiting, nevts, fails, handled,
                   replies>>

(* Without a batch, and without Improv, poll() waits for an event.         *)
ApiPoll ==
    /\ apc = "poll" /\ apc' = "hci"
    /\ ready' = [hci |-> hciq # <<>>, listen |-> waiting # <<>>,
                 clients |-> {i \in Slots : slots[i].fd # 0 /\ HasInput(slots[i].fd)}]
    /\ ready' # NoEvents \/ adverts # <<>>
    /\ UNCHANGED <<at, slots, used, scan, adverts, peers, waiting, hciq, nevts,
                   fails, handled, replies>>

ApiHci ==
    /\ apc = "hci" /\ apc' = "accept"
    /\ IF ready.hci THEN HandleReport ELSE UNCHANGED <<adverts, hciq>>
    /\ UNCHANGED <<at, ready, slots, used, scan, peers, waiting, nevts, fails,
                   handled, replies>>

FullBatch ==
    /\ apc = "full" /\ apc' = "timers"
    /\ IF Len(adverts) >= ADV_BATCH THEN flush_batch
       ELSE UNCHANGED <<adverts, slots, peers, fails, handled, replies>>
    /\ ready' = NoEvents
    /\ UNCHANGED <<at, used, scan, waiting, hciq, nevts>>

(* timers(): 100 ms after the first advertisement of the batch, or not yet.*)
ApiTimers ==
    /\ apc = "timers" /\ apc' = "scan"
    /\ \/ adverts # <<>> /\ flush_batch
       \/ UNCHANGED <<adverts, slots, peers, fails, handled, replies>>
    /\ UNCHANGED <<at, ready, used, scan, waiting, hciq, nevts>>

-----------------------------------------------------------------------------
(* TCP and the adapter (external).  They move where the program looks at   *)
(* them: anywhere else it makes no difference.                             *)

IsBad(m) == m.type = 0
Encoded(m) == IF IsBad(m) THEN m.bytes ELSE api_frame(m.type, m.len)

(* The bytes of a stream behind its first k messages.                      *)
Wire(s) ==
    LET rest[k \in 0 .. Len(s)] ==
          IF k = Len(s) THEN <<>> ELSE Encoded(s[k + 1]) \o rest[k + 1]
    IN rest

PeerConnects(c, stream) ==
    /\ apc = "poll"
    /\ peers[c].state = "new" /\ \A d \in 1 .. c - 1 : peers[d].state # "new"
    /\ peers' = [peers EXCEPT ![c] =
                   [stream |-> stream, state |-> "queued", left |-> FALSE,
                    wire |-> Wire(stream)[0]]]
    /\ waiting' = Append(waiting, c)
    /\ UNCHANGED <<apc, at, ready, slots, used, scan, adverts, hciq, nevts, fails,
                   handled, replies>>

PeerLeaves(c) ==
    /\ apc \in {"poll", "clients"}
    /\ peers[c].state = "open" /\ ~peers[c].left
    /\ peers' = [peers EXCEPT ![c].left = TRUE]
    /\ UNCHANGED <<apc, at, ready, slots, used, scan, adverts, waiting, hciq, nevts,
                   fails, handled, replies>>

Numbered(a, id) == [bits |-> a.bits, rssi |-> a.rssi, type |-> a.type, len |-> a.len,
                    cut |-> a.cut, id |-> id]

AdvertisingReport(ev) ==
    /\ apc \in {"poll", "scan"} /\ scan /\ nevts < MaxEvts
    /\ nevts' = nevts + 1
    /\ hciq' = Append(hciq, [i \in DOMAIN ev |-> Numbered(ev[i], <<nevts, i>>)])
    /\ UNCHANGED <<apc, at, ready, slots, used, scan, adverts, peers, waiting,
                   fails, handled, replies>>

ApiInit ==
    /\ apc = "scan" /\ at = 1 /\ ready = NoEvents /\ used = 0
    /\ scan = FALSE /\ adverts = <<>>
    /\ slots = [i \in Slots |-> Free]
    /\ peers = [c \in Peers |-> [stream |-> <<>>, wire |-> <<>>, state |-> "new",
                                 left |-> FALSE]]
    /\ waiting = <<>> /\ hciq = <<>> /\ nevts = 0 /\ fails = {}
    /\ handled = [c \in Peers |-> <<>>] /\ replies = [c \in Peers |-> <<>>]

ApiNext ==
    \/ SetScan \/ ApiPoll \/ ApiHci \/ ApiAccept
    \/ ClientRecv \/ ClientMessage \/ ClientKeep \/ FullBatch \/ ApiTimers
    \/ \E c \in Peers : PeerLeaves(c) \/ \E s \in Streams[c] : PeerConnects(c, s)
    \/ \E ev \in Events : AdvertisingReport(ev)

-----------------------------------------------------------------------------
(* The messages of the connection c that fit the buffer, up to the first   *)
(* frame that is bad or does not.                                          *)
Fitting(c) ==
    LET s == peers[c].stream
        n == Max({k \in 0 .. Len(s) :
                    \A i \in 1 .. k : ~IsBad(s[i]) /\ Len(Encoded(s[i])) <= BUF_SIZE})
    IN [i \in 1 .. n |-> s[i].type]

Answers(types) == FlattenSeq([i \in DOMAIN types |-> Reply(types[i])])
Answered(c) == FlattenSeq([i \in DOMAIN replies[c] |->
                             IF replies[c][i].type = 93 THEN <<>> ELSE <<replies[c][i].type>>])
Advertised(c) == FlattenSeq([i \in DOMAIN replies[c] |-> replies[c][i].ids])

(* Of the requests for and against advertisements the last is for them.    *)
Subscribes(types) == \E k \in DOMAIN types :
                       types[k] = 66 /\ \A j \in k + 1 .. Len(types) : types[j] # 87
Before(x, y) == x[1] < y[1] \/ (x[1] = y[1] /\ x[2] < y[2])

(* However TCP cuts the stream of a client, and whoever had its slot       *)
(* before, its messages are handled once each and in order, it gets the    *)
(* answer to each, and it is subscribed when its last request says so.  It *)
(* gets no advertisement twice or out of order.  It is closed only when it *)
(* left, did not take a message, asked for it, or sent a frame that is bad *)
(* or longer than the buffer (client_read, api_next, client_close,         *)
(* flush_batch).                                                           *)
SessionsAreExact ==
    \A c \in Peers :
      LET closed == peers[c].state = "closed"
          ads == Advertised(c)
      IN /\ IsPrefix(handled[c], Fitting(c))
         /\ \/ Answered(c) = Answers(handled[c])
            \/ c \in fails /\ closed /\ Answered(c) = Front(Answers(handled[c]))
         /\ \A i \in Slots : slots[i].fd = c => slots[i].sub = Subscribes(handled[c])
         /\ \A i, j \in DOMAIN ads : i < j => Before(ads[i], ads[j])
         /\ closed => \/ peers[c].left \/ c \in fails
                      \/ handled[c] # <<>> /\ Last(handled[c]) = 5
                      \/ /\ handled[c] = Fitting(c)
                         /\ Len(handled[c]) < Len(peers[c].stream)

(* A batch fits the message of flush_batch(), an advertisement the sub of  *)
(* api_adv_batch() and the frame the buf of client_send(), also when the   *)
(* reports of an event do not fit the batch or several events come while a *)
(* command waits (le_meta, ADV_BATCH * 48).                                *)
BatchesFit ==
    /\ Len(adverts) <= ADV_BATCH
    /\ api_adv_batch(adverts) <= ADV_BATCH * 48
    /\ api_adv_batch(adverts) + 12 <= SEND_SIZE
    /\ \A i \in DOMAIN adverts : AdvLen(adverts[i]) <= 64
=============================================================================
