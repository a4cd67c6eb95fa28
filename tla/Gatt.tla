-------------------------------- MODULE Gatt --------------------------------
(***************************************************************************)
(* The ATT server of ble-ha (tools/ble-ha/gatt.c) and a client that goes   *)
(* through the procedures of GATT with it: discovery in several requests,  *)
(* long reads and prepared writes, each cut by the MTU, which may change   *)
(* between two requests.  ATT has one request at a time, so a step is a    *)
(* request with its response.  Of a value only its length is kept, of the  *)
(* RPC packet its bytes as <<link, position>>.                             *)
(***************************************************************************)
EXTENDS Integers, Sequences, SequencesExt

CONSTANTS
    AclLens,      \* sizes of the adapter's ACL buffer that hci_init() may find
    NameLens,     \* lengths of the host name, less than 64
    ResultLens,   \* lengths of an Improv result, at most 61
    ClientMtus,   \* MTUs that clients ask for
    PacketLens,   \* lengths of the RPC packets that clients write
    PREP_SIZE,    \* sizeof(prep)
    MaxClients    \* bound: clients, one after another

(* hci_init() takes no buffer below 27, gethostname() what fits s.name.    *)
ASSUME GattAssumption ==
    /\ \A a \in AclLens : a \in Nat /\ a >= 27
    /\ NameLens \subseteq 0 .. 63 /\ ResultLens \subseteq 0 .. 61
    /\ ClientMtus \subseteq Nat /\ PacketLens \subseteq Nat /\ PREP_SIZE \in Nat

VARIABLES
    env,          \* the sizes of this board: acl_len, name, result, mtu_max
    att,          \* struct gatt: mtu, the enabled CCCDs, the prepared writes
    proc,         \* the client: its procedure, where it is and what it found
    link,         \* the number of the client
    rpcIn         \* what rpc_write() got from the clients

attVars == <<env, att, proc, link, rpcIn>>

U16(x) == [len |-> 2, id |-> x]
IMPROV(x) == [len |-> 16, id |-> x]
Smaller(a, b) == IF a < b THEN a ELSE b

-----------------------------------------------------------------------------
(* The database: handle h is db[h].                                        *)

SVC(u) == [kind |-> "SVC", props |-> {}, uuid |-> u]
DECL(p, u) == [kind |-> "DECL", props |-> p, uuid |-> u]
VALUE(p, u) == [kind |-> "VALUE", props |-> p, uuid |-> u]
CCCD == [kind |-> "CCCD", props |-> {}, uuid |-> U16("2902")]

db == << SVC(U16("1800")),
         DECL({"read"}, U16("2a00")), VALUE({"read"}, U16("2a00")),
         DECL({"read"}, U16("2a01")), VALUE({"read"}, U16("2a01")),
         SVC(IMPROV("00")),
         DECL({"read", "notify"}, IMPROV("01")), VALUE({"read", "notify"}, IMPROV("01")), CCCD,
         DECL({"read", "notify"}, IMPROV("02")), VALUE({"read", "notify"}, IMPROV("02")), CCCD,
         DECL({"write"}, IMPROV("03")), VALUE({"write"}, IMPROV("03")),
         DECL({"read", "notify"}, IMPROV("04")), VALUE({"read", "notify"}, IMPROV("04")), CCCD,
         DECL({"read"}, IMPROV("05")), VALUE({"read"}, IMPROV("05")) >>
LAST_HANDLE == 19
DbHandles == 1 .. LAST_HANDLE

GATT_STATE_VALUE == 8
GATT_ERROR_VALUE == 11
GATT_RPC_VALUE == 14
GATT_RESULT_VALUE == 16
CccdHandles == {9, 12, 17}

ERR_INVALID_HANDLE == 1
ERR_READ_NOT_PERM == 2
ERR_WRITE_NOT_PERM == 3
ERR_NOT_SUPPORTED == 6
ERR_INVALID_OFFSET == 7
ERR_QUEUE_FULL == 9
ERR_NOT_FOUND == 10
ERR_INVALID_LEN == 13

attr_type(h) == CASE db[h].kind = "SVC"  -> U16("2800")
                  [] db[h].kind = "DECL" -> U16("2803")
                  [] db[h].kind = "CCCD" -> U16("2902")
                  [] OTHER -> db[h].uuid

(* The length of the value, or the negative error.                         *)
attr_value(h) ==
    IF h \notin DbHandles THEN -ERR_INVALID_HANDLE
    ELSE CASE db[h].kind = "SVC"  -> db[h].uuid.len
           [] db[h].kind = "DECL" -> 3 + db[h].uuid.len
           [] db[h].kind = "CCCD" -> 2
           [] h = 3 -> env.name
           [] h = 5 -> 2
           [] h \in {GATT_STATE_VALUE, GATT_ERROR_VALUE, 19} -> 1
           [] h = GATT_RESULT_VALUE -> env.result
           [] OTHER -> -ERR_READ_NOT_PERM

(* The last handle before the next service.                                *)
group_end(h) ==
    CHOOSE e \in h .. LAST_HANDLE :
        /\ \A k \in h + 1 .. e : db[k].kind # "SVC"
        /\ e = LAST_HANDLE \/ db[e + 1].kind = "SVC"

error_rsp(e) == [err |-> e, list |-> <<>>]

(* The entries found in the range of the request.                          *)
Response(r, l) ==
    IF r.start = 0 \/ r.start > r.end THEN error_rsp(ERR_INVALID_HANDLE)
    ELSE IF l = <<>> THEN error_rsp(ERR_NOT_FOUND) ELSE [err |-> 0, list |-> l]

(* The handles of hs one after the other, up to each handle.               *)
Walk(hs) ==
    LET l[h \in 0 .. LAST_HANDLE] ==
          IF h = 0 THEN <<>> ELSE IF h \in hs THEN Append(l[h - 1], h) ELSE l[h - 1]
    IN l

(* Those of the handles hs that are in the range, in order.                *)
Matching(r, hs) ==
    Walk({h \in hs : 0 < r.start /\ r.start <= h /\ h <= r.end})[LAST_HANDLE]

(* The entries up to the first that is not good.                           *)
Upto(s, good) ==
    SubSeq(s, 1, CHOOSE n \in 0 .. Len(s) : /\ 1 .. n \subseteq good
                                            /\ n = Len(s) \/ n + 1 \notin good)

(* Read By Group Type and Read By Type: entries of one length, as many as  *)
(* fit; the first that cannot be read is an error.                         *)
read_by_type(r, max) ==
    LET want    == Matching(r, {h \in DbHandles : attr_type(h) = r.uuid})
        el(i)   == (IF r.op = "group" THEN 4 ELSE 2) + attr_value(want[i])
        good(i) == attr_value(want[i]) >= 0 /\ el(i) = el(1) /\ 2 + i * el(i) <= max
        entries == Upto(want, {i \in DOMAIN want : good(i)})
    IN IF want # <<>> /\ attr_value(want[1]) < 0 THEN error_rsp(-attr_value(want[1]))
       ELSE Response(r, [i \in DOMAIN entries |->
                           <<entries[i], group_end(entries[i])>>])

(* Find Information: types of one length, as many as fit.                  *)
find_info(r, max) ==
    LET all     == Matching(r, DbHandles)
        tl(i)   == attr_type(all[i]).len
        entries == Upto(all, {i \in DOMAIN all : tl(i) = tl(1) /\ 2 + i * (2 + tl(i)) <= max})
    IN Response(r, [i \in DOMAIN entries |-> <<entries[i], attr_type(entries[i])>>])

(* Find By Type Value: only primary services by UUID.                      *)
find_by_value(r, max) ==
    LET svcs == Matching(r, {h \in DbHandles : db[h].kind = "SVC" /\ db[h].uuid = r.uuid})
        fit  == Upto(svcs, {i \in DOMAIN svcs : 1 + 4 * i <= max})
    IN Response(r, [i \in DOMAIN fit |-> <<fit[i], group_end(fit[i])>>])

(* Read and Read Blob: the rest of the value, as much as fits.             *)
read_value(r, max) ==
    LET vl == attr_value(r.h)
    IN IF vl < 0 THEN error_rsp(-vl)
       ELSE IF r.off > vl THEN error_rsp(ERR_INVALID_OFFSET)
       ELSE [err |-> 0,
             list |-> [i \in 1 .. Smaller(vl - r.off, max - 1) |-> r.off + i]]

-----------------------------------------------------------------------------
(* gatt_handle(): the response, the server after it and what rpc_write()   *)
(* gets.                                                                   *)

Result(rsp, a, rpc) == [rsp |-> rsp, att |-> a, rpc |-> rpc]
Done == [err |-> 0, list |-> <<>>]

write_value(a, r) ==
    IF r.h \in CccdHandles
    THEN IF Len(r.bytes) # 2 THEN Result(error_rsp(ERR_INVALID_LEN), a, <<>>)
         ELSE Result(Done, [a EXCEPT !.cccd = IF r.bytes[1] = 1 THEN @ \cup {r.h}
                                              ELSE @ \ {r.h}], <<>>)
    ELSE IF r.h = GATT_RPC_VALUE THEN Result(Done, a, r.bytes)
    ELSE Result(error_rsp(IF r.h \in DbHandles THEN ERR_WRITE_NOT_PERM
                          ELSE ERR_INVALID_HANDLE), a, <<>>)

ExchangeMtu(a, r) ==
    LET mtu == Smaller(r.mtu, env.mtu_max)
    IN Result(Done, [a EXCEPT !.mtu = IF mtu < 23 THEN 23 ELSE mtu], <<>>)

PrepareWrite(a, r) ==
    IF r.h # GATT_RPC_VALUE THEN Result(error_rsp(ERR_WRITE_NOT_PERM), a, <<>>)
    ELSE IF r.off # Len(a.prep) THEN Result(error_rsp(ERR_INVALID_OFFSET), a, <<>>)
    ELSE IF Len(a.prep) + Len(r.bytes) > PREP_SIZE
         THEN Result(error_rsp(ERR_QUEUE_FULL), a, <<>>)
    ELSE Result(Done, [a EXCEPT !.prep = @ \o r.bytes], <<>>)

ExecuteWrite(a, r) ==
    Result(Done, [a EXCEPT !.prep = <<>>], IF r.flag = 1 THEN a.prep ELSE <<>>)

(* "other" is a request the server does not know, or one that is short.    *)
gatt_handle(a, r) ==
    LET max == Smaller(Smaller(env.acl - 4, 256), a.mtu)
    IN CASE r.op = "mtu" -> ExchangeMtu(a, r)
         [] r.op \in {"group", "type"} -> Result(read_by_type(r, max), a, <<>>)
         [] r.op = "info"    -> Result(find_info(r, max), a, <<>>)
         [] r.op = "value"   -> Result(find_by_value(r, max), a, <<>>)
         [] r.op = "read"    -> Result(read_value(r, max), a, <<>>)
         [] r.op = "write"   -> write_value(a, r)
         [] r.op = "prepare" -> PrepareWrite(a, r)
         [] r.op = "execute" -> ExecuteWrite(a, r)
         [] OTHER -> Result(error_rsp(ERR_NOT_SUPPORTED), a, <<>>)

-----------------------------------------------------------------------------
(* The client (external).                                                  *)

NoProcedure == [kind |-> "idle", h |-> 0, at |-> 0, found |-> <<>>, done |-> FALSE]
Begin(k, h, at) == [kind |-> k, h |-> h, at |-> at, found |-> <<>>, done |-> FALSE]

(* 3 and 16 can be long, 14 cannot be read; h is the length of a packet.   *)
Procedures == {Begin(k, 0, 1) : k \in {"info", "group", "type", "value"}}
              \cup {Begin("read", h, 0) : h \in {3, 14, 16, 19}}
              \cup {Begin("prepare", n, 0) : n \in PacketLens}

StartProcedure(p) ==
    /\ proc = NoProcedure /\ p \in Procedures
    /\ proc' = p
    /\ UNCHANGED <<env, att, link, rpcIn>>

Answer(r) ==
    /\ att' = gatt_handle(att, r).att
    /\ rpcIn' = rpcIn \o gatt_handle(att, r).rpc
    /\ UNCHANGED <<env, link>>

Wanted == CASE proc.kind = "group" -> U16("2800") [] proc.kind = "type" -> U16("2803")
            [] OTHER -> IMPROV("00")

(* Discovery goes on behind the last entry, until nothing is found.        *)
Discover ==
    /\ proc.kind \in {"info", "group", "type", "value"} /\ ~proc.done
    /\ LET r    == [op |-> proc.kind, start |-> proc.at, end |-> 65535, uuid |-> Wanted]
           list == gatt_handle(att, r).rsp.list
           next == IF proc.kind \in {"group", "value"} THEN Last(list)[2] + 1
                   ELSE Last(list)[1] + 1
       IN /\ Answer(r)
          /\ proc' = IF list = <<>> THEN [proc EXCEPT !.done = TRUE]
                     ELSE [proc EXCEPT !.found = @ \o list, !.at = next]

(* A response that is not full is the last.                                *)
ReadLong ==
    /\ proc.kind = "read" /\ ~proc.done
    /\ LET r   == [op |-> "read", h |-> proc.h, off |-> proc.at]
           rsp == gatt_handle(att, r).rsp
       IN /\ Answer(r)
          /\ proc' = [proc EXCEPT !.found = @ \o rsp.list, !.at = @ + Len(rsp.list),
                                  !.done = rsp.err # 0 \/ Len(rsp.list) < att.mtu - 1]

(* A part of the packet, and after the last one the execution.  A part     *)
(* that is refused cancels the write.                                      *)
PreparePart ==
    /\ proc.kind = "prepare" /\ ~proc.done /\ proc.at < proc.h
    /\ LET n == Smaller(att.mtu - 5, proc.h - proc.at)
           r == [op |-> "prepare", h |-> GATT_RPC_VALUE, off |-> proc.at,
                 bytes |-> [i \in 1 .. n |-> <<link, proc.at + i>>]]
           ok == gatt_handle(att, r).rsp.err = 0
       IN /\ Answer(r)
          /\ proc' = [proc EXCEPT !.at = IF ok THEN @ + n ELSE proc.h,
                                  !.found = IF ok THEN @ ELSE <<"refused">>]

Execute ==
    /\ proc.kind = "prepare" /\ ~proc.done /\ proc.at = proc.h
    /\ Answer([op |-> "execute", flag |-> IF proc.found = <<>> THEN 1 ELSE 0])
    /\ proc' = [proc EXCEPT !.done = TRUE]

(* Between the requests of a procedure: another MTU, a CCCD, a request     *)
(* that is refused.                                                        *)
Other(r) == Answer(r) /\ UNCHANGED proc

OtherRequests == {[op |-> "mtu", mtu |-> m] : m \in ClientMtus}
                 \cup {[op |-> "write", h |-> h, bytes |-> b] :
                          h \in {9, 3, 20}, b \in {<<1, 0>>, <<0, 0>>, <<1>>}}
                 \cup {[op |-> "prepare", h |-> 9, off |-> 0, bytes |-> <<1, 0>>],
                       [op |-> "info", start |-> 0, end |-> 9],
                       [op |-> "unknown"]}

NextProcedure ==
    /\ proc.done /\ proc' = NoProcedure /\ rpcIn' = <<>>
    /\ UNCHANGED <<env, att, link>>

\* Mutant: the prepared writes stay for the next client.
NewClient_KeepPrep == att' = [att EXCEPT !.mtu = 23, !.cccd = {}]

(* le_meta(): a new connection starts with the MTU of ATT, without CCCDs   *)
(* and prepared writes.                                                    *)
NewClient == att' = [att EXCEPT !.mtu = 23, !.cccd = {}, !.prep = <<>>]

Reconnect ==
    /\ link < MaxClients /\ link' = link + 1
    /\ NewClient
    /\ proc' = NoProcedure /\ rpcIn' = <<>>
    /\ UNCHANGED env

(* gatt_init() and main(): mtu_max is what one ACL packet takes.           *)
Envs == {[acl |-> a, name |-> n, result |-> r, mtu_max |-> Smaller(a - 4, 247)] :
            a \in AclLens, n \in NameLens, r \in ResultLens}

GattInit ==
    /\ env \in Envs
    /\ att = [mtu |-> 23, cccd |-> {}, prep |-> <<>>]
    /\ proc = NoProcedure /\ link = 1 /\ rpcIn = <<>>

GattNext ==
    \/ \E p \in Procedures : StartProcedure(p)
    \/ Discover \/ ReadLong \/ PreparePart \/ Execute \/ NextProcedure \/ Reconnect
    \/ \E r \in OtherRequests : Other(r)

-----------------------------------------------------------------------------
(* The characteristic of the declaration h can do what it declares, and no *)
(* more.                                                                   *)
DoesAsDeclared(h) ==
    /\ "read" \in db[h].props <=> attr_value(h + 1) >= 0
    /\ "notify" \in db[h].props <=> h + 2 \in CccdHandles
    /\ "write" \in db[h].props <=>
          write_value(att, [h |-> h + 1, bytes |-> <<0>>]).rsp.err = 0

(* Whatever the MTU is and whenever it changes, a procedure ends with all  *)
(* of what it is for: each attribute, service or characteristic once and   *)
(* in order, and a characteristic does what its declaration says, the      *)
(* whole of a value that can be read, and a prepared packet in one piece   *)
(* and from one client, or not at all when it is too long (read_by_type,   *)
(* find_info, find_by_value, read_value, gatt_handle).                     *)
ProceduresAreExact ==
    proc.done =>
      CASE proc.kind = "info"  -> proc.found = [h \in DbHandles |-> <<h, attr_type(h)>>]
        [] proc.kind = "group" -> proc.found = << <<1, 5>>, <<6, 19>> >>
        [] proc.kind = "value" -> proc.found = << <<6, 19>> >>
        [] proc.kind = "type"  ->
             /\ [i \in DOMAIN proc.found |-> proc.found[i][1]]
                  = Walk({h \in DbHandles : db[h].kind = "DECL"})[LAST_HANDLE]
             /\ \A i \in DOMAIN proc.found : DoesAsDeclared(proc.found[i][1])
        [] proc.kind = "read"  -> proc.found = [i \in 1 .. attr_value(proc.h) |-> i]
        [] OTHER -> rpcIn = IF proc.h > PREP_SIZE THEN <<>>
                            ELSE [i \in 1 .. proc.h |-> <<link, i>>]
=============================================================================
