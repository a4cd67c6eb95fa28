---------------------------- MODULE ThreadRelay ----------------------------
(***************************************************************************)
(* thread-relay (tools/thread-relay/thread-relay.c): one poll loop between *)
(* the device of the Thread radio (RCP) and at most one TCP client.  A new *)
(* client replaces the old one; a device that fails ends the relay with    *)
(* its client, and main opens the device again.                            *)
(*                                                                         *)
(* A turn of the loop is four steps: poll takes a snapshot of the events,  *)
(* then the listener, the device and the client are served from it, while  *)
(* clients connect, send and go away.  TCP and the device are external.    *)
(***************************************************************************)
EXTENDS Naturals, Sequences, SequencesExt

CONSTANTS
    Clients,        \* TCP connections, in no order
    None,           \* a model value: fd -1
    MaxFrames,      \* bound: frames of the RCP
    MaxData,        \* bound: chunks each client sends
    MaxSessions     \* bound: times the device is opened

ASSUME RelayAssumption == None \notin Clients

VARIABLES
    rpc,            \* the step of the loop; "away" outside of relay()
    revents,        \* the poll snapshot: a subset of {"dev", "listen", "client"}
    fd,             \* pfd[2].fd: the client, or None
    conn,           \* each connection: "new", "queued", "open", "closed"
    left,           \* clients whose side of the connection is gone
    sent, inbox,    \* chunks a client sent so far, and those not yet read
    session,        \* how often the device was opened
    failed,         \* the device fails from now on
    frames, devIn,  \* frames of the RCP so far, and those not yet read
    toClient,       \* ghost: the frames each client was sent
    rcp             \* ghost: what the RCP was sent: <<session, client, chunk>>

relayVars == <<rpc, revents, fd, conn, left, sent, inbox, session, failed, frames,
               devIn, toClient, rcp>>

Readable(c) == inbox[c] # <<>> \/ c \in left
DevReady == devIn # <<>> \/ failed

-----------------------------------------------------------------------------
(* main                                                                    *)

OpenDevice ==
    /\ rpc = "away" /\ session < MaxSessions
    /\ session' = session + 1 /\ failed' = FALSE /\ devIn' = <<>>
    /\ rpc' = "poll" /\ fd' = None
    /\ UNCHANGED <<revents, conn, left, sent, inbox, frames, toClient, rcp>>

\* Mutant: the client outlives the relay() that accepted it.
EndRelay_KeepClient == rpc' = "away" /\ UNCHANGED <<fd, conn>>

(* relay() closes the client and returns to main.                          *)
EndRelay ==
    /\ rpc' = "away" /\ fd' = None
    /\ conn' = IF fd = None THEN conn ELSE [conn EXCEPT ![fd] = "closed"]

-----------------------------------------------------------------------------
(* relay                                                                   *)

Poll ==
    /\ rpc = "poll"
    /\ revents' = (IF DevReady THEN {"dev"} ELSE {})
                  \cup (IF \E c \in Clients : conn[c] = "queued" THEN {"listen"} ELSE {})
                  \cup (IF fd # None /\ Readable(fd) THEN {"client"} ELSE {})
    /\ revents' # {}
    /\ rpc' = "listen"
    /\ UNCHANGED <<fd, conn, left, sent, inbox, session, failed, frames, devIn, toClient, rcp>>

(* A poll that fails ends the relay as a failed device does.               *)
PollError ==
    /\ rpc = "poll" /\ EndRelay
    /\ UNCHANGED <<revents, left, sent, inbox, session, failed, frames, devIn, toClient, rcp>>

\* Mutant: the events of the old client are kept for the new one.
accept_client_KeepEvents(c) ==
    /\ fd' = c
    /\ conn' = [d \in Clients |-> IF d = c THEN "open"
                                  ELSE IF d = fd THEN "closed" ELSE conn[d]]
    /\ UNCHANGED revents

(* The new client c replaces the old one, and with it the old one's events.*)
accept_client(c) ==
    /\ fd' = c
    /\ conn' = [d \in Clients |-> IF d = c THEN "open"
                                  ELSE IF d = fd THEN "closed" ELSE conn[d]]
    /\ revents' = revents \ {"client"}

(* A connection that was reset before accept leaves the old client alone.  *)
ServeListener ==
    /\ rpc = "listen" /\ rpc' = "dev"
    /\ IF "listen" \in revents
       THEN \E c \in Clients :
              /\ conn[c] = "queued"
              /\ \/ accept_client(c)
                 \/ /\ c \in left
                    /\ conn' = [conn EXCEPT ![c] = "closed"] /\ UNCHANGED <<fd, revents>>
       ELSE UNCHANGED <<fd, conn, revents>>
    /\ UNCHANGED <<left, sent, inbox, session, failed, frames, devIn, toClient, rcp>>

(* A frame goes to the client, if there is one; a client that went away    *)
(* may fail the write.                                                     *)
ServeDevice ==
    /\ rpc = "dev"
    /\ UNCHANGED <<revents, left, sent, inbox, session, failed, frames, rcp>>
    /\ \/ /\ "dev" \notin revents
          /\ rpc' = "client" /\ UNCHANGED <<fd, conn, devIn, toClient>>
       \/ /\ "dev" \in revents /\ devIn = <<>> /\ failed
          /\ EndRelay /\ UNCHANGED <<devIn, toClient>>
       \/ /\ "dev" \in revents /\ devIn # <<>>
          /\ rpc' = "client" /\ devIn' = Tail(devIn)
          /\ \/ fd = None /\ UNCHANGED <<fd, conn, toClient>>
             \/ /\ fd # None /\ toClient' = [toClient EXCEPT ![fd] = Append(@, Head(devIn))]
                /\ UNCHANGED <<fd, conn>>
             \/ /\ fd # None /\ fd \in left
                /\ fd' = None /\ conn' = [conn EXCEPT ![fd] = "closed"] /\ UNCHANGED toClient

(* A chunk goes to the device, whose failure ends the relay.               *)
ServeClient ==
    /\ rpc = "client"
    /\ UNCHANGED <<revents, left, sent, session, failed, frames, devIn, toClient>>
    /\ \/ /\ fd = None \/ "client" \notin revents
          /\ rpc' = "poll" /\ UNCHANGED <<fd, conn, inbox, rcp>>
       \/ /\ fd # None /\ "client" \in revents /\ inbox[fd] # <<>>
          /\ inbox' = [inbox EXCEPT ![fd] = Tail(@)]
          /\ \/ /\ rcp' = Append(rcp, <<session, fd, Head(inbox[fd])>>)
                /\ rpc' = "poll" /\ UNCHANGED <<fd, conn>>
             \/ failed /\ EndRelay /\ UNCHANGED rcp
       \/ /\ fd # None /\ "client" \in revents /\ inbox[fd] = <<>> /\ fd \in left
          /\ rpc' = "poll"
          /\ fd' = None /\ conn' = [conn EXCEPT ![fd] = "closed"]
          /\ UNCHANGED <<inbox, rcp>>

-----------------------------------------------------------------------------
(* The clients and the device (external).                                  *)

Connect(c) ==
    /\ conn[c] = "new" /\ conn' = [conn EXCEPT ![c] = "queued"]
    /\ UNCHANGED <<rpc, revents, fd, left, sent, inbox, session, failed, frames, devIn,
                   toClient, rcp>>

Send(c) ==
    /\ conn[c] \in {"queued", "open"} /\ c \notin left /\ sent[c] < MaxData
    /\ sent' = [sent EXCEPT ![c] = @ + 1]
    /\ inbox' = [inbox EXCEPT ![c] = Append(@, sent[c] + 1)]
    /\ UNCHANGED <<rpc, revents, fd, conn, left, session, failed, frames, devIn, toClient, rcp>>

Leave(c) ==
    /\ conn[c] \in {"queued", "open"} /\ c \notin left
    /\ left' = left \cup {c}
    /\ UNCHANGED <<rpc, revents, fd, conn, sent, inbox, session, failed, frames, devIn,
                   toClient, rcp>>

Frame ==
    /\ rpc # "away" /\ ~failed /\ frames < MaxFrames
    /\ frames' = frames + 1 /\ devIn' = Append(devIn, frames + 1)
    /\ UNCHANGED <<rpc, revents, fd, conn, left, sent, inbox, session, failed, toClient, rcp>>

FailDevice ==
    /\ rpc # "away" /\ ~failed /\ failed' = TRUE
    /\ UNCHANGED <<rpc, revents, fd, conn, left, sent, inbox, session, frames, devIn,
                   toClient, rcp>>

RelayInit ==
    /\ rpc = "away" /\ revents = {} /\ fd = None
    /\ conn = [c \in Clients |-> "new"] /\ left = {}
    /\ sent = [c \in Clients |-> 0] /\ inbox = [c \in Clients |-> <<>>]
    /\ session = 0 /\ failed = FALSE /\ frames = 0 /\ devIn = <<>>
    /\ toClient = [c \in Clients |-> <<>>] /\ rcp = <<>>

RelayNext ==
    \/ OpenDevice \/ Poll \/ PollError \/ ServeListener \/ ServeDevice \/ ServeClient
    \/ \E c \in Clients : Connect(c) \/ Send(c) \/ Leave(c)
    \/ Frame \/ FailDevice

RelaySpec == RelayInit /\ [][RelayNext]_relayVars

-----------------------------------------------------------------------------
(* The sockets block, so the relay must only read one that has data or an  *)
(* end: the events it acts on are those of the client it reads, also when  *)
(* a new client came in the same turn (accept_client, the cleared          *)
(* revents).  It is about reads: write_all() may wait for its reader.      *)
RelayNeverBlocks ==
    rpc \in {"dev", "client"} /\ fd # None /\ "client" \in revents => Readable(fd)

(* A client stays only as long as the device it was accepted for, and no   *)
(* other is connected beside it; a new one may replace it while the device *)
(* stays open.  What the RCP gets is therefore one run of chunks after the *)
(* other: a run is all that it gets of one client, within one opening of   *)
(* the device, from the client's first chunk on, in order and without a    *)
(* gap (accept_client, the end of relay).                                  *)
OneClientPerSession ==
    /\ \A c \in Clients : conn[c] = "open" <=> fd = c
    /\ rpc = "away" => fd = None
    /\ \A i, j \in DOMAIN rcp :
         i < j => /\ rcp[i][2] = rcp[j][2] =>
                       rcp[i][1] = rcp[j][1] /\ rcp[i][3] < rcp[j][3]
                  /\ \A k \in i .. j : rcp[i][2] = rcp[j][2] => rcp[k][2] = rcp[i][2]
    /\ \A i \in DOMAIN rcp :
         rcp[i][3] = IF i > 1 /\ rcp[i - 1][2] = rcp[i][2] THEN rcp[i - 1][3] + 1 ELSE 1
=============================================================================
