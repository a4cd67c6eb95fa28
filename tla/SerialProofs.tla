---------------------------- MODULE SerialProofs ----------------------------
(***************************************************************************)
(* Theorems about the byte streams of the serial paths: the relay          *)
(* (ThreadRelay), for every number of clients, frames, chunks and openings *)
(* of the device, the UART driver (Uart), for every size of the FIFOs and  *)
(* any number of bytes and messages, and the I2C driver (I2cMaster), for   *)
(* every transfer and every size of the command list and the FIFOs.        *)
(***************************************************************************)
EXTENDS ThreadRelay, Uart, I2cMaster, SequenceTheorems, FiniteSetTheorems, TLAPS

Rpcs == {"away", "poll", "listen", "dev", "client"}
Conns == {"new", "queued", "open", "closed"}

TypeOK ==
  /\ rpc \in Rpcs /\ fd \in Clients \cup {None}
  /\ conn \in [Clients -> Conns]
  /\ sent \in [Clients -> Nat] /\ inbox \in [Clients -> Seq(Nat)]
  /\ session \in Nat /\ rcp \in Seq(Nat \X Clients \X Nat)

(* The snapshot of poll is right for the client that it was taken for, and *)
(* for no other: until it has been used, that client can be read.          *)
EventsInv ==
  rpc \in {"listen", "dev", "client"} /\ fd # None /\ "client" \in revents => Readable(fd)

(* The connection that is open is the one in pfd[2].                       *)
ConnInv ==
  /\ \A c \in Clients : conn[c] = "open" <=> fd = c
  /\ rpc = "away" => fd = None

-----------------------------------------------------------------------------
LEMMA InitTypes == RelayInit => TypeOK /\ EventsInv /\ ConnInv
<1> SUFFICES ASSUME RelayInit PROVE TypeOK /\ EventsInv /\ ConnInv
  OBVIOUS
<1>1. TypeOK
  BY DEF RelayInit, TypeOK, Rpcs, Conns
<1>2. EventsInv /\ ConnInv
  BY RelayAssumption DEF RelayInit, EventsInv, ConnInv
<1> QED BY <1>1, <1>2

LEMMA StepTypes == TypeOK /\ [RelayNext]_relayVars => TypeOK'
<1> SUFFICES ASSUME TypeOK, [RelayNext]_relayVars PROVE TypeOK'
  OBVIOUS
<1> USE DEF TypeOK, Rpcs, Conns
<1>1. CASE OpenDevice \/ Poll \/ Frame \/ FailDevice \/ UNCHANGED relayVars
  BY <1>1 DEF OpenDevice, Poll, Frame, FailDevice, relayVars
<1>2. CASE ServeListener
  BY <1>2 DEF ServeListener, accept_client
<1>3. CASE ServeDevice \/ PollError
  BY <1>3 DEF ServeDevice, PollError, EndRelay
<1>4. CASE ServeClient
  <2>1. CASE fd = None \/ "client" \notin revents
    BY <1>4, <2>1 DEF ServeClient
  <2>2. CASE fd # None /\ "client" \in revents /\ inbox[fd] # <<>>
    <3>1. inbox[fd] \in Seq(Nat) /\ Head(inbox[fd]) \in Nat /\ Tail(inbox[fd]) \in Seq(Nat)
      BY <2>2
    <3>2. inbox' = [inbox EXCEPT ![fd] = Tail(inbox[fd])]
      BY <1>4, <2>2 DEF ServeClient
    <3>3. inbox' \in [Clients -> Seq(Nat)]
      BY <3>1, <3>2
    <3>4. <<session, fd, Head(inbox[fd])>> \in Nat \X Clients \X Nat
      BY <2>2, <3>1
    <3>5. Append(rcp, <<session, fd, Head(inbox[fd])>>) \in Seq(Nat \X Clients \X Nat)
      BY <3>4
    <3>6. rcp' \in Seq(Nat \X Clients \X Nat)
      BY <1>4, <2>2, <3>5 DEF ServeClient
    <3>7. rpc' \in Rpcs /\ fd' \in Clients \cup {None} /\ conn' \in [Clients -> Conns]
      BY <1>4, <2>2 DEF ServeClient, EndRelay
    <3> QED BY <1>4, <3>3, <3>6, <3>7 DEF ServeClient
  <2>3. CASE fd # None /\ "client" \in revents /\ inbox[fd] = <<>>
    BY <1>4, <2>3 DEF ServeClient
  <2> QED BY <2>1, <2>2, <2>3
<1>5. ASSUME NEW c \in Clients, Connect(c) \/ Leave(c) PROVE TypeOK'
  BY <1>5 DEF Connect, Leave
<1>6. ASSUME NEW c \in Clients, Send(c) PROVE TypeOK'
  <2>1. Append(inbox[c], sent[c] + 1) \in Seq(Nat)
    OBVIOUS
  <2> QED BY <1>6, <2>1 DEF Send
<1> QED BY <1>1, <1>2, <1>3, <1>4, <1>5, <1>6 DEF RelayNext

LEMMA StepEvents == TypeOK /\ EventsInv /\ [RelayNext]_relayVars => EventsInv'
<1> SUFFICES ASSUME TypeOK, EventsInv, [RelayNext]_relayVars PROVE EventsInv'
  OBVIOUS
<1> USE DEF EventsInv, Readable
<1>1. CASE OpenDevice \/ Poll \/ Frame \/ FailDevice \/ UNCHANGED relayVars
  BY <1>1 DEF OpenDevice, Poll, Frame, FailDevice, relayVars
<1>2. CASE ServeListener
  BY <1>2 DEF ServeListener, accept_client
<1>3. CASE ServeDevice \/ PollError
  BY <1>3 DEF ServeDevice, PollError, EndRelay
<1>4. CASE ServeClient
  BY <1>4 DEF ServeClient, EndRelay
<1>5. ASSUME NEW c \in Clients, Connect(c) \/ Leave(c) PROVE EventsInv'
  BY <1>5 DEF Connect, Leave
<1>6. ASSUME NEW c \in Clients, Send(c) PROVE EventsInv'
  <2>1. \A s \in Seq(Nat) : \A n \in Nat : Append(s, n) # <<>>
    OBVIOUS
  <2>2. /\ inbox \in [Clients -> Seq(Nat)] /\ sent[c] + 1 \in Nat
        /\ inbox' = [inbox EXCEPT ![c] = Append(inbox[c], sent[c] + 1)]
        /\ UNCHANGED <<rpc, fd, revents, left>>
    BY <1>6 DEF Send, TypeOK
  <2>3. \A d \in Clients : inbox[d] # <<>> => inbox'[d] # <<>>
    BY <2>1, <2>2
  <2> QED BY <2>2, <2>3 DEF TypeOK
<1> QED BY <1>1, <1>2, <1>3, <1>4, <1>5, <1>6 DEF RelayNext

(* The relay never reads a socket that would block it, for every number of *)
(* clients that come and go in one turn of the loop: accept_client clears  *)
(* the events of the client that it replaces.                              *)
THEOREM NeverBlocks == RelaySpec => []RelayNeverBlocks
<1>1. RelayInit => TypeOK /\ EventsInv
  BY InitTypes
<1>2. TypeOK /\ EventsInv /\ [RelayNext]_relayVars => (TypeOK /\ EventsInv)'
  BY StepTypes, StepEvents
<1>3. EventsInv => RelayNeverBlocks
  BY DEF EventsInv, RelayNeverBlocks
<1> QED BY <1>1, <1>2, <1>3, PTL DEF RelaySpec

-----------------------------------------------------------------------------
LEMMA StepConn == TypeOK /\ ConnInv /\ [RelayNext]_relayVars => ConnInv'
<1> SUFFICES ASSUME TypeOK, ConnInv, [RelayNext]_relayVars PROVE ConnInv'
  OBVIOUS
<1> USE RelayAssumption DEF ConnInv, TypeOK, Conns
<1>1. CASE OpenDevice \/ Poll \/ Frame \/ FailDevice \/ UNCHANGED relayVars
  BY <1>1 DEF OpenDevice, Poll, Frame, FailDevice, relayVars
<1>2. CASE ServeListener
  BY <1>2 DEF ServeListener, accept_client
<1>3. CASE ServeDevice \/ PollError
  BY <1>3 DEF ServeDevice, PollError, EndRelay
<1>4. CASE ServeClient
  BY <1>4 DEF ServeClient, EndRelay
<1>5. ASSUME NEW c \in Clients, Connect(c) \/ Leave(c) \/ Send(c) PROVE ConnInv'
  BY <1>5 DEF Connect, Leave, Send
<1> QED BY <1>1, <1>2, <1>3, <1>4, <1>5 DEF RelayNext

(* What the RCP was sent came from clients that were accepted.  The part   *)
(* of the client that is connected now is of this session and comes last.  *)
SessionInv ==
  /\ \A i \in DOMAIN rcp : conn[rcp[i][2]] \in {"open", "closed"}
  /\ \A i \in DOMAIN rcp : rcp[i][2] = fd => rcp[i][1] = session
  /\ \A i, k \in DOMAIN rcp : rcp[i][2] = fd /\ i <= k => rcp[k][2] = fd

(* The chunks of a client are numbered as it sent them: those that wait in *)
(* the socket come after those that the RCP got.                           *)
ChunkInv ==
  \A c \in Clients :
    /\ \A m, n \in DOMAIN inbox[c] : m < n => inbox[c][m] < inbox[c][n]
    /\ \A m \in DOMAIN inbox[c] : inbox[c][m] <= sent[c]
    /\ \A i \in DOMAIN rcp : rcp[i][2] = c =>
         /\ rcp[i][3] <= sent[c]
         /\ \A m \in DOMAIN inbox[c] : rcp[i][3] < inbox[c][m]

(* The last part of OneClientPerSession.                                   *)
OrderInv ==
  \A i, j \in DOMAIN rcp :
    i < j => /\ rcp[i][2] = rcp[j][2] => rcp[i][1] = rcp[j][1] /\ rcp[i][3] < rcp[j][3]
             /\ \A k \in i .. j : rcp[i][2] = rcp[j][2] => rcp[k][2] = rcp[i][2]

RcpInv == SessionInv /\ ChunkInv /\ OrderInv

LEMMA TailAt ==
  ASSUME NEW S, NEW s \in Seq(S), s # <<>>
  PROVE  /\ Head(s) = s[1] /\ 1 \in DOMAIN s
         /\ \A m \in DOMAIN Tail(s) : m \in Nat /\ m + 1 \in DOMAIN s /\ 1 < m + 1
                                        /\ Tail(s)[m] = s[m + 1]
OBVIOUS

LEMMA AppendAt ==
  ASSUME NEW S, NEW s \in Seq(S), NEW e \in S
  PROVE  /\ DOMAIN s = 1 .. Len(s) /\ Len(s) \in Nat
         /\ DOMAIN Append(s, e) = 1 .. Len(s) + 1
         /\ \A m \in DOMAIN s : Append(s, e)[m] = s[m]
         /\ Append(s, e)[Len(s) + 1] = e
OBVIOUS

LEMMA Appended ==
  ASSUME NEW S, NEW s \in Seq(S), NEW e \in S, NEW t, t = Append(s, e)
  PROVE  /\ t \in Seq(S) /\ t # <<>> /\ Len(t) = Len(s) + 1 /\ t[Len(s) + 1] = e
         /\ \A i \in 1 .. Len(s) : t[i] = s[i]
BY AppendProperties

(* A step that sends nothing to the RCP and keeps the chunks: an old client*)
(* goes, a new one has sent nothing so far.                                *)
LEMMA StepQuiet ==
  ASSUME TypeOK, RcpInv, UNCHANGED <<rcp, sent, inbox>>,
         \A c \in Clients : conn[c] \in {"open", "closed"} => conn'[c] \in {"open", "closed"},
         \/ fd' = None
         \/ fd' = fd /\ session' = session
         \/ fd' \in Clients /\ conn[fd'] = "queued"
  PROVE  RcpInv'
<1>1. \A i \in DOMAIN rcp : rcp[i][2] \in Clients /\ rcp[i][2] # None
  BY RelayAssumption DEF TypeOK
<1>2. SessionInv'
  BY <1>1 DEF RcpInv, SessionInv
<1>3. ChunkInv' /\ OrderInv'
  BY DEF RcpInv, ChunkInv, OrderInv
<1> QED BY <1>2, <1>3 DEF RcpInv

LEMMA StepRcp == TypeOK /\ ConnInv /\ RcpInv /\ [RelayNext]_relayVars => RcpInv'
<1> SUFFICES ASSUME TypeOK, ConnInv, RcpInv, [RelayNext]_relayVars PROVE RcpInv'
  OBVIOUS
<1>1. CASE Poll \/ Frame \/ FailDevice \/ UNCHANGED relayVars
  BY <1>1, StepQuiet DEF Poll, Frame, FailDevice, relayVars
<1>2. CASE OpenDevice
  BY <1>2, StepQuiet DEF OpenDevice
<1>3. CASE ServeListener
  <2>1. \A c \in Clients : conn[c] \in {"open", "closed"} => conn'[c] \in {"open", "closed"}
    BY <1>3 DEF ServeListener, accept_client, TypeOK
  <2>2. \/ fd' = fd /\ session' = session
        \/ fd' \in Clients /\ conn[fd'] = "queued"
    BY <1>3 DEF ServeListener, accept_client
  <2> QED BY <1>3, <2>1, <2>2, StepQuiet DEF ServeListener
<1>4. CASE ServeDevice \/ PollError
  <2>1. \A c \in Clients : conn[c] \in {"open", "closed"} => conn'[c] \in {"open", "closed"}
    BY <1>4 DEF ServeDevice, PollError, EndRelay, TypeOK
  <2>2. fd' = None \/ (fd' = fd /\ session' = session)
    BY <1>4 DEF ServeDevice, PollError, EndRelay
  <2> QED BY <1>4, <2>1, <2>2, StepQuiet DEF ServeDevice, PollError
<1>5. CASE ServeClient
  <2>1. CASE UNCHANGED <<inbox, rcp>>
    <3>1. \A c \in Clients : conn[c] \in {"open", "closed"} => conn'[c] \in {"open", "closed"}
      BY <1>5 DEF ServeClient, EndRelay, TypeOK
    <3>2. fd' = None \/ (fd' = fd /\ session' = session)
      BY <1>5 DEF ServeClient, EndRelay
    <3> QED BY <1>5, <2>1, <3>1, <3>2, StepQuiet DEF ServeClient
  <2>2. CASE /\ fd # None /\ inbox[fd] # <<>> /\ inbox' = [inbox EXCEPT ![fd] = Tail(@)]
             /\ \/ /\ rcp' = Append(rcp, <<session, fd, Head(inbox[fd])>>)
                   /\ UNCHANGED <<fd, conn>>
                \/ EndRelay /\ UNCHANGED rcp
    <3>1. /\ fd \in Clients /\ inbox[fd] \in Seq(Nat) /\ inbox \in [Clients -> Seq(Nat)]
          /\ rcp \in Seq(Nat \X Clients \X Nat) /\ conn \in [Clients -> Conns]
          /\ sent' = sent /\ session' = session
      BY <1>5, <2>2 DEF ServeClient, TypeOK
    <3> DEFINE first == Head(inbox[fd])
    <3>3. first = inbox[fd][1] /\ 1 \in DOMAIN inbox[fd] /\ first \in Nat
      BY <2>2, <3>1, TailAt
    <3>4. \A m \in DOMAIN inbox'[fd] : first < inbox'[fd][m]
      <4>1. \A m \in DOMAIN Tail(inbox[fd]) :
              /\ m + 1 \in DOMAIN inbox[fd] /\ 1 < m + 1
              /\ Tail(inbox[fd])[m] = inbox[fd][m + 1]
        BY <2>2, <3>1, TailAt
      <4>2. inbox'[fd] = Tail(inbox[fd])
        BY <2>2, <3>1
      <4> QED BY <3>1, <3>3, <4>1, <4>2 DEF RcpInv, ChunkInv
    <3>5. \A c \in Clients :
            /\ \A m, n \in DOMAIN inbox'[c] : m < n => inbox'[c][m] < inbox'[c][n]
            /\ \A m \in DOMAIN inbox'[c] : inbox'[c][m] <= sent[c]
            /\ \A i \in DOMAIN rcp : rcp[i][2] = c =>
                 \A m \in DOMAIN inbox'[c] : rcp[i][3] < inbox'[c][m]
      <4>1. ASSUME NEW c \in Clients, c # fd PROVE inbox'[c] = inbox[c]
        BY <2>2, <3>1, <4>1
      <4>2. inbox'[fd] = Tail(inbox[fd])
        BY <2>2, <3>1
      <4>3. \A m \in DOMAIN Tail(inbox[fd]) :
              /\ m \in Nat /\ m + 1 \in DOMAIN inbox[fd]
              /\ Tail(inbox[fd])[m] = inbox[fd][m + 1]
        BY <2>2, <3>1, TailAt
      <4>4. \A m, n \in DOMAIN Tail(inbox[fd]) :
              m < n => Tail(inbox[fd])[m] < Tail(inbox[fd])[n]
        BY <3>1, <4>3 DEF RcpInv, ChunkInv
      <4>5. \A m \in DOMAIN Tail(inbox[fd]) : Tail(inbox[fd])[m] <= sent[fd]
        BY <3>1, <4>3 DEF RcpInv, ChunkInv
      <4>6. \A i \in DOMAIN rcp : rcp[i][2] = fd =>
              \A m \in DOMAIN Tail(inbox[fd]) : rcp[i][3] < Tail(inbox[fd])[m]
        BY <3>1, <4>3 DEF RcpInv, ChunkInv
      <4> QED BY <4>1, <4>2, <4>4, <4>5, <4>6 DEF RcpInv, ChunkInv
    <3>6. CASE EndRelay /\ UNCHANGED rcp
      <4>1. fd' = None /\ \A c \in Clients :
              conn[c] \in {"open", "closed"} => conn'[c] \in {"open", "closed"}
        BY <3>1, <3>6 DEF EndRelay
      <4>2. \A i \in DOMAIN rcp : rcp[i][2] \in Clients /\ rcp[i][2] # None
        BY <3>1, RelayAssumption
      <4>3. SessionInv'
        BY <3>6, <4>1, <4>2 DEF RcpInv, SessionInv
      <4>4. ChunkInv'
        BY <3>1, <3>5, <3>6 DEF RcpInv, ChunkInv
      <4>5. OrderInv'
        BY <3>6 DEF RcpInv, OrderInv
      <4> QED BY <4>3, <4>4, <4>5 DEF RcpInv
    (* The new entry comes after the others of its client, which are those *)
    (* of this session and which no other client's entry separates.        *)
    <3>7. CASE rcp' = Append(rcp, <<session, fd, first>>) /\ UNCHANGED <<fd, conn>>
      <4> DEFINE e == <<session, fd, first>>
      <4>1. e \in Nat \X Clients \X Nat /\ e[1] = session /\ e[2] = fd /\ e[3] = first
        BY <3>1, <3>3 DEF TypeOK
      <4> HIDE DEF e, first
      <4>2. /\ DOMAIN rcp = 1 .. Len(rcp) /\ Len(rcp) \in Nat
            /\ DOMAIN rcp' = 1 .. Len(rcp) + 1
            /\ \A m \in DOMAIN rcp : rcp'[m] = rcp[m]
            /\ rcp'[Len(rcp) + 1] = e
        <5>1. rcp' = Append(rcp, e)
          BY <3>7 DEF e
        <5> DEFINE E == Nat \X Clients \X Nat
        <5>2. rcp \in Seq(E) /\ e \in E
          BY <3>1, <4>1 DEF TypeOK
        <5> HIDE DEF E
        <5> QED
          BY <5>1, <5>2, AppendAt
      <4>3. \A i \in DOMAIN rcp' : i \in DOMAIN rcp \/ i = Len(rcp) + 1
        BY <4>2
      <4>4. conn[fd] = "open"
        BY <2>2, <3>1 DEF ConnInv
      <4>5. SessionInv'
        <5>1. \A i \in DOMAIN rcp' : conn'[rcp'[i][2]] \in {"open", "closed"}
          BY <3>7, <4>1, <4>2, <4>3, <4>4 DEF RcpInv, SessionInv
        <5>2. \A i \in DOMAIN rcp' : rcp'[i][2] = fd' => rcp'[i][1] = session'
          BY <3>1, <3>7, <4>1, <4>2, <4>3 DEF RcpInv, SessionInv
        <5>3. ASSUME NEW i \in DOMAIN rcp', NEW k \in DOMAIN rcp', rcp'[i][2] = fd', i <= k
              PROVE  rcp'[k][2] = fd'
          <6>1. CASE k \in DOMAIN rcp
            <7>1. i \in DOMAIN rcp
              BY <4>2, <5>3, <6>1
            <7> QED BY <3>7, <4>2, <5>3, <6>1, <7>1 DEF RcpInv, SessionInv
          <6>2. CASE k = Len(rcp) + 1
            BY <3>7, <4>1, <4>2, <6>2
          <6> QED BY <4>3, <6>1, <6>2
        <5> QED BY <5>1, <5>2, <5>3 DEF SessionInv
      <4>6. \A i \in DOMAIN rcp : rcp[i][2] = fd => rcp[i][3] < first
        BY <3>1, <3>3 DEF RcpInv, ChunkInv
      <4>7. first <= sent[fd]
        BY <3>1, <3>3 DEF RcpInv, ChunkInv
      <4>8. ChunkInv'
        <5>1. ASSUME NEW c \in Clients, NEW i \in DOMAIN rcp', rcp'[i][2] = c
              PROVE  /\ rcp'[i][3] <= sent'[c]
                     /\ \A m \in DOMAIN inbox'[c] : rcp'[i][3] < inbox'[c][m]
          <6>1. CASE i \in DOMAIN rcp
            BY <3>1, <3>5, <4>2, <5>1, <6>1 DEF RcpInv, ChunkInv
          <6>2. CASE i = Len(rcp) + 1
            BY <3>1, <3>4, <4>1, <4>2, <4>7, <5>1, <6>2
          <6> QED BY <4>3, <6>1, <6>2
        <5> QED BY <3>1, <3>5, <5>1 DEF ChunkInv
      <4>9. OrderInv'
        <5>1. ASSUME NEW i \in DOMAIN rcp', NEW j \in DOMAIN rcp', i < j,
                     rcp'[i][2] = rcp'[j][2]
              PROVE  /\ rcp'[i][1] = rcp'[j][1] /\ rcp'[i][3] < rcp'[j][3]
                     /\ \A k \in i .. j : rcp'[k][2] = rcp'[i][2]
          <6>1. i \in DOMAIN rcp /\ rcp'[i] = rcp[i]
            BY <4>2, <5>1
          <6>2. CASE j \in DOMAIN rcp
            <7>1. \A k \in i .. j : k \in DOMAIN rcp
              BY <4>2, <6>1, <6>2
            <7> QED BY <4>2, <5>1, <6>1, <6>2, <7>1 DEF RcpInv, OrderInv
          <6>3. CASE j = Len(rcp) + 1
            <7>1. rcp[i][2] = fd /\ rcp'[j] = e
              BY <4>1, <4>2, <5>1, <6>1, <6>3
            <7>2. rcp[i][1] = session /\ rcp[i][3] < first
              BY <4>6, <6>1, <7>1 DEF RcpInv, SessionInv
            <7>3. ASSUME NEW k \in i .. j PROVE rcp'[k][2] = fd
              <8>1. CASE k = j
                BY <4>1, <7>1, <8>1
              <8>2. CASE k # j
                <9>1. k \in DOMAIN rcp /\ i <= k
                  BY <4>2, <6>1, <6>3, <8>2
                <9> QED BY <4>2, <6>1, <7>1, <9>1 DEF RcpInv, SessionInv
              <8> QED BY <8>1, <8>2
            <7> QED BY <4>1, <6>1, <7>1, <7>2, <7>3
          <6> QED BY <4>3, <6>2, <6>3
        <5> QED BY <5>1 DEF OrderInv
      <4> QED BY <4>5, <4>8, <4>9 DEF RcpInv
    <3> QED BY <2>2, <3>6, <3>7
  <2> QED BY <1>5, <2>1, <2>2 DEF ServeClient
<1>6. ASSUME NEW c \in Clients, Connect(c) PROVE RcpInv'
  <2>1. conn' = [conn EXCEPT ![c] = "queued"] /\ conn[c] = "new"
    BY <1>6 DEF Connect
  <2>2. \A d \in Clients : conn[d] \in {"open", "closed"} => conn'[d] \in {"open", "closed"}
    BY <2>1 DEF TypeOK
  <2> QED BY <1>6, <2>2, StepQuiet DEF Connect
<1>7. ASSUME NEW c \in Clients, Leave(c) PROVE RcpInv'
  BY <1>7, StepQuiet DEF Leave
<1>8. ASSUME NEW c \in Clients, Send(c) PROVE RcpInv'
  <2>1. /\ inbox \in [Clients -> Seq(Nat)] /\ sent \in [Clients -> Nat]
        /\ inbox' = [inbox EXCEPT ![c] = Append(inbox[c], sent[c] + 1)]
        /\ sent' = [sent EXCEPT ![c] = sent[c] + 1]
        /\ UNCHANGED <<rcp, fd, conn, session>>
    BY <1>8 DEF Send, TypeOK
  <2>2. /\ DOMAIN inbox[c] = 1 .. Len(inbox[c]) /\ Len(inbox[c]) \in Nat
        /\ DOMAIN inbox'[c] = 1 .. Len(inbox[c]) + 1
        /\ \A m \in DOMAIN inbox[c] : inbox'[c][m] = inbox[c][m] /\ inbox[c][m] \in Nat
        /\ inbox'[c][Len(inbox[c]) + 1] = sent[c] + 1
    BY <2>1, AppendAt
  <2>3. \A m \in DOMAIN inbox'[c] : m \in DOMAIN inbox[c] \/ m = Len(inbox[c]) + 1
    BY <2>2
  <2>4. \A i \in DOMAIN rcp : rcp[i][3] \in Nat
    BY DEF TypeOK
  <2>5. sent'[c] = sent[c] + 1 /\ sent[c] \in Nat
    BY <2>1
  <2>6. /\ \A m, n \in DOMAIN inbox[c] : m < n => inbox[c][m] < inbox[c][n]
        /\ \A m \in DOMAIN inbox[c] : inbox[c][m] <= sent[c]
        /\ \A i \in DOMAIN rcp : rcp[i][2] = c =>
             /\ rcp[i][3] <= sent[c]
             /\ \A m \in DOMAIN inbox[c] : rcp[i][3] < inbox[c][m]
    BY DEF RcpInv, ChunkInv
  <2>7. \A m, n \in DOMAIN inbox'[c] : m < n => inbox'[c][m] < inbox'[c][n]
    <3> SUFFICES ASSUME NEW m \in DOMAIN inbox'[c], NEW n \in DOMAIN inbox'[c], m < n
                 PROVE  inbox'[c][m] < inbox'[c][n]
      OBVIOUS
    <3>1. m \in DOMAIN inbox[c]
      BY <2>2
    <3>2. CASE n \in DOMAIN inbox[c]
      BY <2>2, <2>6, <3>1, <3>2
    <3>3. CASE n = Len(inbox[c]) + 1
      <4>1. inbox[c][m] <= sent[c]
        BY <2>6, <3>1, Zenon
      <4>2. inbox[c][m] \in Nat /\ inbox'[c][m] = inbox[c][m]
        BY <2>2, <3>1, Zenon
      <4>3. inbox'[c][n] = sent[c] + 1
        BY <2>2, <3>3, Zenon
      <4> QED BY <2>5, <4>1, <4>2, <4>3
    <3> QED BY <2>3, <3>2, <3>3
  <2>8. \A m \in DOMAIN inbox'[c] : inbox'[c][m] <= sent'[c]
    <3> SUFFICES ASSUME NEW m \in DOMAIN inbox'[c]
                 PROVE  inbox'[c][m] <= sent'[c]
      OBVIOUS
    <3>1. CASE m \in DOMAIN inbox[c]
      <4>1. inbox[c][m] <= sent[c]
        BY <2>6, <3>1, Zenon
      <4>2. inbox[c][m] \in Nat /\ inbox'[c][m] = inbox[c][m]
        BY <2>2, <3>1, Zenon
      <4> QED BY <2>5, <4>1, <4>2
    <3>2. CASE m = Len(inbox[c]) + 1
      <4>1. inbox'[c][m] = sent[c] + 1
        BY <2>2, <3>2, Zenon
      <4> QED BY <2>5, <4>1
    <3> QED BY <2>3, <3>1, <3>2
  <2>9. \A i \in DOMAIN rcp : rcp[i][2] = c =>
          /\ rcp[i][3] <= sent'[c]
          /\ \A m \in DOMAIN inbox'[c] : rcp[i][3] < inbox'[c][m]
    <3> SUFFICES ASSUME NEW i \in DOMAIN rcp, rcp[i][2] = c
                 PROVE  /\ rcp[i][3] <= sent'[c]
                        /\ \A m \in DOMAIN inbox'[c] : rcp[i][3] < inbox'[c][m]
      OBVIOUS
    <3>1. /\ rcp[i][3] <= sent[c]
          /\ \A m \in DOMAIN inbox[c] : rcp[i][3] < inbox[c][m]
      BY <2>6, Zenon
    <3>2. rcp[i][3] \in Nat
      BY <2>4, Zenon
    <3>3. rcp[i][3] <= sent'[c] /\ rcp[i][3] < sent[c] + 1
      BY <2>5, <3>1, <3>2
    <3>4. ASSUME NEW m \in DOMAIN inbox'[c] PROVE rcp[i][3] < inbox'[c][m]
      <4>1. CASE m \in DOMAIN inbox[c]
        BY <2>2, <3>1, <4>1, Zenon
      <4>2. CASE m = Len(inbox[c]) + 1
        BY <2>2, <3>3, <4>2, Zenon
      <4> QED BY <2>3, <4>1, <4>2
    <3> QED BY <3>3, <3>4
  <2>10. ASSUME NEW d \in Clients, d # c PROVE inbox'[d] = inbox[d] /\ sent'[d] = sent[d]
    BY <2>1, <2>10
  <2>11. ChunkInv'
    <3> SUFFICES ASSUME NEW d \in Clients
                 PROVE  /\ \A m, n \in DOMAIN inbox'[d] : m < n => inbox'[d][m] < inbox'[d][n]
                        /\ \A m \in DOMAIN inbox'[d] : inbox'[d][m] <= sent'[d]
                        /\ \A i \in DOMAIN rcp : rcp[i][2] = d =>
                             /\ rcp[i][3] <= sent'[d]
                             /\ \A m \in DOMAIN inbox'[d] : rcp[i][3] < inbox'[d][m]
      BY <2>1 DEF ChunkInv
    <3>1. CASE d = c
      BY <2>7, <2>8, <2>9, <3>1, Zenon
    <3>2. CASE d # c
      <4>1. inbox'[d] = inbox[d] /\ sent'[d] = sent[d]
        BY <2>10, <3>2
      <4> QED BY <4>1 DEF RcpInv, ChunkInv
    <3> QED BY <3>1, <3>2
  <2>12. SessionInv' /\ OrderInv'
    BY <2>1 DEF RcpInv, SessionInv, OrderInv
  <2> QED BY <2>11, <2>12 DEF RcpInv
<1> QED BY <1>1, <1>2, <1>3, <1>4, <1>5, <1>6, <1>7, <1>8 DEF RelayNext

(* The numbers of the chunks: what a client sent is what waits in its      *)
(* socket and what the RCP got before, which ends the stream of the RCP    *)
(* while the client is the one connected.                                  *)
SentInv ==
  /\ \A c \in Clients :
       /\ Len(inbox[c]) <= sent[c]
       /\ \A m \in DOMAIN inbox[c] : inbox[c][m] + Len(inbox[c]) = sent[c] + m
       /\ conn[c] \in {"new", "queued"} => Len(inbox[c]) = sent[c]
  /\ fd # None =>
       IF rcp # <<>> /\ rcp[Len(rcp)][2] = fd THEN Len(inbox[fd]) + rcp[Len(rcp)][3] = sent[fd]
       ELSE Len(inbox[fd]) = sent[fd]

RunsInv ==
  \A i \in DOMAIN rcp :
    rcp[i][3] = IF i > 1 /\ rcp[i - 1][2] = rcp[i][2] THEN rcp[i - 1][3] + 1 ELSE 1

LEMMA OneLess ==
  ASSUME NEW x \in Nat, NEW l \in Nat, NEW t \in Nat, NEW s \in Nat, NEW m \in Nat,
         x + l = s + (m + 1), t + 1 = l
  PROVE  x + t = s + m
OBVIOUS

LEMMA BothMore ==
  ASSUME NEW x \in Nat, NEW l \in Nat, NEW s \in Nat, NEW m \in Nat, x + l = s + m
  PROVE  x + (l + 1) = s + 1 + m
OBVIOUS

LEMMA FirstIs ==
  ASSUME NEW f \in Nat, NEW l \in Nat, NEW s \in Nat, f + l = s + 1
  PROVE  (l = s => f = 1) /\ \A k \in Nat : l + k = s => f = k + 1
OBVIOUS

(* A step that sends nothing to the RCP and reads and sends no chunk.      *)
LEMMA SentQuiet ==
  ASSUME TypeOK, RcpInv, SentInv, RunsInv, UNCHANGED <<rcp, sent, inbox>>,
         \A c \in Clients : conn'[c] \in {"new", "queued"} => conn[c] \in {"new", "queued"},
         \/ fd' = None \/ fd' = fd
         \/ fd' \in Clients /\ conn[fd'] = "queued"
  PROVE  (SentInv /\ RunsInv)'
<1>1. RunsInv'
  BY DEF RunsInv
<1>2. ASSUME fd' \in Clients, conn[fd'] = "queued"
      PROVE  ~(rcp # <<>> /\ rcp[Len(rcp)][2] = fd') /\ Len(inbox[fd']) = sent[fd']
  <2>1. rcp # <<>> => Len(rcp) \in DOMAIN rcp
    BY EmptySeq, LenProperties DEF TypeOK
  <2>2. rcp # <<>> => conn[rcp[Len(rcp)][2]] \in {"open", "closed"}
    BY <2>1 DEF RcpInv, SessionInv
  <2> QED BY <1>2, <2>2 DEF SentInv
<1>3. SentInv'
  BY <1>2 DEF SentInv
<1> QED BY <1>1, <1>3

(* The relay reads a chunk of its client.                                  *)
LEMMA ChunkRead ==
  ASSUME TypeOK, SentInv, fd \in Clients, inbox[fd] # <<>>
  PROVE  /\ Head(inbox[fd]) \in Nat /\ Head(inbox[fd]) + Len(inbox[fd]) = sent[fd] + 1
         /\ Tail(inbox[fd]) \in Seq(Nat) /\ Len(inbox[fd]) \in Nat
         /\ Len(Tail(inbox[fd])) + 1 = Len(inbox[fd])
         /\ \A m \in DOMAIN Tail(inbox[fd]) :
               Tail(inbox[fd])[m] + Len(Tail(inbox[fd])) = sent[fd] + m
<1>1. inbox[fd] \in Seq(Nat) /\ sent[fd] \in Nat
  BY DEF TypeOK
<1>2. /\ Head(inbox[fd]) = inbox[fd][1] /\ 1 \in DOMAIN inbox[fd]
      /\ \A m \in DOMAIN Tail(inbox[fd]) : /\ m \in Nat /\ m + 1 \in DOMAIN inbox[fd]
                                           /\ Tail(inbox[fd])[m] = inbox[fd][m + 1]
  BY <1>1, TailAt
<1>3. \A m \in DOMAIN inbox[fd] : inbox[fd][m] \in Nat /\ inbox[fd][m] + Len(inbox[fd]) = sent[fd] + m
  BY <1>1, ElementOfSeq, LenProperties DEF SentInv
<1>4. /\ Tail(inbox[fd]) \in Seq(Nat) /\ Len(Tail(inbox[fd])) = Len(inbox[fd]) - 1
      /\ Len(inbox[fd]) \in Nat
  BY <1>1, HeadTailProperties, LenProperties
<1>5. Len(Tail(inbox[fd])) + 1 = Len(inbox[fd]) /\ Len(Tail(inbox[fd])) \in Nat
  BY <1>4, LenProperties
<1>6. ASSUME NEW m \in DOMAIN Tail(inbox[fd])
      PROVE  Tail(inbox[fd])[m] + Len(Tail(inbox[fd])) = sent[fd] + m
  <2>1. /\ m \in Nat /\ inbox[fd][m + 1] \in Nat
        /\ inbox[fd][m + 1] + Len(inbox[fd]) = sent[fd] + (m + 1)
        /\ Tail(inbox[fd])[m] = inbox[fd][m + 1]
    BY <1>2, <1>3
  <2> DEFINE x == inbox[fd][m + 1]
             l == Len(inbox[fd])
             t == Len(Tail(inbox[fd]))
             s == sent[fd]
  <2>2. x \in Nat /\ l \in Nat /\ t \in Nat /\ s \in Nat /\ m \in Nat
    BY <1>1, <1>4, <1>5, <2>1
  <2>3. x + l = s + (m + 1) /\ t + 1 = l
    BY <1>5, <2>1
  <2> HIDE DEF x, l, t, s
  <2>4. x + t = s + m
    BY ONLY <2>2, <2>3, OneLess
  <2> QED BY <2>1, <2>4 DEF x, t, s
<1> QED BY <1>2, <1>3, <1>4, <1>5, <1>6

LEMMA StepSent ==
  TypeOK /\ ConnInv /\ RcpInv /\ SentInv /\ RunsInv /\ [RelayNext]_relayVars
    => (SentInv /\ RunsInv)'
<1> SUFFICES ASSUME TypeOK, ConnInv, RcpInv, SentInv, RunsInv, [RelayNext]_relayVars
             PROVE  (SentInv /\ RunsInv)'
  OBVIOUS
<1>0. /\ conn \in [Clients -> Conns] /\ sent \in [Clients -> Nat]
      /\ inbox \in [Clients -> Seq(Nat)] /\ fd \in Clients \cup {None}
      /\ rcp \in Seq(Nat \X Clients \X Nat) /\ session \in Nat
  BY DEF TypeOK
<1>1. CASE OpenDevice \/ Poll \/ Frame \/ FailDevice \/ UNCHANGED relayVars
  BY <1>1, SentQuiet DEF OpenDevice, Poll, Frame, FailDevice, relayVars
<1>2. CASE ServeListener
  <2>1. \A c \in Clients : conn'[c] \in {"new", "queued"} => conn[c] \in {"new", "queued"}
    BY <1>0, <1>2 DEF ServeListener, accept_client
  <2>2. fd' = fd \/ (fd' \in Clients /\ conn[fd'] = "queued")
    BY <1>2 DEF ServeListener, accept_client
  <2> QED BY <1>2, <2>1, <2>2, SentQuiet DEF ServeListener
<1>3. CASE ServeDevice \/ PollError
  <2>1. \A c \in Clients : conn'[c] \in {"new", "queued"} => conn[c] \in {"new", "queued"}
    BY <1>0, <1>3 DEF ServeDevice, PollError, EndRelay
  <2>2. fd' = None \/ fd' = fd
    BY <1>3 DEF ServeDevice, PollError, EndRelay
  <2> QED BY <1>3, <2>1, <2>2, SentQuiet DEF ServeDevice, PollError
<1>4. CASE ServeClient /\ UNCHANGED <<inbox, rcp>>
  <2>1. \A c \in Clients : conn'[c] \in {"new", "queued"} => conn[c] \in {"new", "queued"}
    BY <1>0, <1>4 DEF ServeClient, EndRelay
  <2>2. fd' = None \/ fd' = fd
    BY <1>4 DEF ServeClient, EndRelay
  <2> QED BY <1>4, <2>1, <2>2, SentQuiet DEF ServeClient
<1>5. CASE /\ fd # None /\ inbox[fd] # <<>> /\ inbox' = [inbox EXCEPT ![fd] = Tail(@)]
           /\ \/ /\ rcp' = Append(rcp, <<session, fd, Head(inbox[fd])>>)
                 /\ UNCHANGED <<fd, conn>>
              \/ EndRelay /\ UNCHANGED rcp
           /\ sent' = sent
  <2> DEFINE first == Head(inbox[fd])
             n == Len(rcp)
  <2>1. fd \in Clients /\ conn[fd] = "open"
    BY <1>0, <1>5 DEF ConnInv
  <2>2. /\ first \in Nat /\ first + Len(inbox[fd]) = sent[fd] + 1
        /\ Tail(inbox[fd]) \in Seq(Nat) /\ Len(inbox[fd]) \in Nat
        /\ Len(Tail(inbox[fd])) + 1 = Len(inbox[fd])
        /\ \A m \in DOMAIN Tail(inbox[fd]) :
              Tail(inbox[fd])[m] + Len(Tail(inbox[fd])) = sent[fd] + m
    BY <1>5, <2>1, ChunkRead
  <2>3. inbox'[fd] = Tail(inbox[fd]) /\ \A c \in Clients : c # fd => inbox'[c] = inbox[c]
    BY <1>0, <1>5, <2>1
  <2> HIDE DEF first, n
  <2>4. ASSUME NEW c \in Clients
        PROVE  /\ Len(inbox'[c]) <= sent'[c]
               /\ \A m \in DOMAIN inbox'[c] : inbox'[c][m] + Len(inbox'[c]) = sent'[c] + m
               /\ conn'[c] \in {"new", "queued"} => Len(inbox'[c]) = sent'[c]
    <3>1. CASE c = fd
      <4>1. conn'[c] \in {"open", "closed"}
        BY <1>0, <1>5, <2>1, <3>1 DEF EndRelay
      <4>2. Len(inbox[fd]) <= sent[fd] /\ sent[fd] \in Nat
        BY <1>0, <2>1 DEF SentInv
      <4>3. Len(Tail(inbox[fd])) <= sent[fd]
        <5>1. Len(Tail(inbox[fd])) \in Nat
          BY <2>2, LenProperties
        <5> QED BY ONLY <5>1, <4>2, <2>2
      <4>4. /\ inbox'[c] = Tail(inbox[fd]) /\ sent'[c] = sent[fd]
        BY <1>5, <2>3, <3>1
      <4> QED BY <2>2, <4>1, <4>3, <4>4
    <3>2. CASE c # fd
      <4>1. inbox'[c] = inbox[c] /\ sent'[c] = sent[c]
        BY <1>5, <2>3, <3>2
      <4>2. conn'[c] = conn[c]
        BY <1>0, <1>5, <2>1, <3>2 DEF EndRelay
      <4> QED BY <4>1, <4>2 DEF SentInv
    <3> QED BY <3>1, <3>2
  <2>5. CASE EndRelay /\ UNCHANGED rcp
    <3>1. fd' = None
      BY <2>5 DEF EndRelay
    <3>2. RunsInv'
      BY <2>5 DEF RunsInv
    <3> QED BY <2>4, <3>1, <3>2 DEF SentInv
  <2>6. CASE rcp' = Append(rcp, <<session, fd, first>>) /\ UNCHANGED <<fd, conn>>
    <3> DEFINE e == <<session, fd, first>>
    <3>1. e \in Nat \X Clients \X Nat /\ e[2] = fd /\ e[3] = first
      BY <1>0, <2>1, <2>2
    <3>2. rcp' = Append(rcp, e)
      BY <2>6
    <3> HIDE DEF e
    <3>3. /\ n \in Nat /\ DOMAIN rcp = 1 .. n /\ DOMAIN rcp' = 1 .. n + 1
          /\ \A m \in 1 .. n : rcp'[m] = rcp[m]
          /\ rcp'[n + 1] = e /\ Len(rcp') = n + 1 /\ rcp' # <<>>
      <4> DEFINE E == Nat \X Clients \X Nat
      <4>1. rcp \in Seq(E) /\ e \in E
        BY <1>0, <3>1
      <4> HIDE DEF E
      <4>2. /\ rcp' \in Seq(E) /\ rcp' # <<>> /\ Len(rcp') = n + 1 /\ rcp'[n + 1] = e
            /\ \A m \in 1 .. n : rcp'[m] = rcp[m]
        BY <3>2, <4>1, Appended DEF n
      <4> QED BY <4>1, <4>2, LenProperties DEF n
    <3>4. first = IF n > 0 /\ rcp[n][2] = fd THEN rcp[n][3] + 1 ELSE 1
      <4>1. IF n > 0 /\ rcp[n][2] = fd THEN Len(inbox[fd]) + rcp[n][3] = sent[fd]
            ELSE Len(inbox[fd]) = sent[fd]
        <5>1. rcp # <<>> <=> n > 0
          BY <1>0, <3>3, EmptySeq, LenProperties DEF n
        <5> QED BY <1>5, <5>1 DEF SentInv, n
      <4>2. n > 0 => rcp[n][3] \in Nat
        <5>1. n > 0 => n \in DOMAIN rcp
          BY <3>3
        <5> QED BY <1>0, <5>1, ElementOfSeq, LenProperties DEF n
      <4>3. sent[fd] \in Nat
        BY <1>0, <2>1
      <4>4. /\ Len(inbox[fd]) = sent[fd] => first = 1
            /\ \A k \in Nat : Len(inbox[fd]) + k = sent[fd] => first = k + 1
        BY <2>2, <4>3, FirstIs
      <4>5. CASE n > 0 /\ rcp[n][2] = fd
        BY <4>1, <4>2, <4>4, <4>5
      <4>6. CASE ~(n > 0 /\ rcp[n][2] = fd)
        BY <4>1, <4>4, <4>6
      <4> QED BY <4>5, <4>6
    <3>5. ASSUME NEW i \in DOMAIN rcp'
          PROVE  rcp'[i][3] = IF i > 1 /\ rcp'[i - 1][2] = rcp'[i][2] THEN rcp'[i - 1][3] + 1 ELSE 1
      <4>1. CASE i \in 1 .. n
        <5>1. rcp'[i] = rcp[i]
          BY <3>3, <4>1
        <5>2. i > 1 => i - 1 \in 1 .. n
          BY <3>3, <4>1
        <5>3. i > 1 => rcp'[i - 1] = rcp[i - 1]
          BY <3>3, <5>2
        <5>4. rcp[i][3] = IF i > 1 /\ rcp[i - 1][2] = rcp[i][2] THEN rcp[i - 1][3] + 1 ELSE 1
          BY <3>3, <4>1 DEF RunsInv
        <5> QED BY ONLY <5>1, <5>3, <5>4
      <4>2. CASE i = n + 1
        <5>1. rcp'[i][3] = first /\ rcp'[i][2] = fd /\ i - 1 = n /\ (i > 1 <=> n > 0)
          BY <3>1, <3>3, <4>2
        <5>2. n > 0 => rcp'[n] = rcp[n]
          BY <3>3
        <5> QED BY <3>4, <5>1, <5>2
      <4>3. i \in 1 .. n \/ i = n + 1
        BY <3>3
      <4> QED BY <4>1, <4>2, <4>3
    <3>6. RunsInv'
      BY <3>5 DEF RunsInv
    <3>7. Len(inbox'[fd]) + rcp'[Len(rcp')][3] = sent'[fd] /\ rcp'[Len(rcp')][2] = fd
      <4>1. rcp'[Len(rcp')][3] = first /\ rcp'[Len(rcp')][2] = fd
        BY <3>1, <3>3
      <4>2. Len(Tail(inbox[fd])) + first = sent[fd]
        <5> DEFINE l == Len(Tail(inbox[fd]))
                   k == Len(inbox[fd])
                   s == sent[fd]
        <5>1. l \in Nat /\ k \in Nat /\ s \in Nat /\ first \in Nat
          BY <1>0, <2>1, <2>2, LenProperties
        <5>2. first + k = s + 1 /\ l + 1 = k
          BY <2>2
        <5> HIDE DEF l, k, s
        <5>3. l + first = s
          BY ONLY <5>1, <5>2
        <5> QED BY <5>3 DEF l, s
      <4> QED BY <1>5, <2>3, <4>1, <4>2
    <3>8. SentInv'
      BY <2>4, <2>6, <3>3, <3>7 DEF SentInv
    <3> QED BY <3>6, <3>8
  <2> QED BY <1>5, <2>5, <2>6 DEF first
<1>6. ASSUME NEW c \in Clients, Connect(c) \/ Leave(c) PROVE (SentInv /\ RunsInv)'
  <2>1. \A d \in Clients : conn'[d] \in {"new", "queued"} => conn[d] \in {"new", "queued"}
    BY <1>0, <1>6 DEF Connect, Leave
  <2> QED BY <1>6, <2>1, SentQuiet DEF Connect, Leave
<1>7. ASSUME NEW c \in Clients, Send(c) PROVE (SentInv /\ RunsInv)'
  <2> DEFINE t == Append(inbox[c], sent[c] + 1)
  <2>1. /\ inbox' = [inbox EXCEPT ![c] = t] /\ sent' = [sent EXCEPT ![c] = @ + 1]
        /\ UNCHANGED <<rcp, fd, conn>>
    BY <1>7 DEF Send
  <2>2. inbox[c] \in Seq(Nat) /\ sent[c] \in Nat /\ sent[c] + 1 \in Nat
    BY <1>0
  <2>3. /\ t \in Seq(Nat) /\ Len(t) = Len(inbox[c]) + 1 /\ t[Len(inbox[c]) + 1] = sent[c] + 1
        /\ \A m \in 1 .. Len(inbox[c]) : t[m] = inbox[c][m]
    BY <2>2, AppendProperties
  <2> HIDE DEF t
  <2>4. /\ Len(inbox[c]) \in Nat /\ DOMAIN inbox[c] = 1 .. Len(inbox[c])
        /\ DOMAIN t = 1 .. Len(inbox[c]) + 1
    BY <2>2, <2>3, LenProperties
  <2>5. /\ inbox'[c] = t /\ sent'[c] = sent[c] + 1
        /\ \A d \in Clients : d # c => inbox'[d] = inbox[d] /\ sent'[d] = sent[d]
    BY <1>0, <2>1
  <2>6. /\ Len(inbox[c]) <= sent[c]
        /\ \A m \in DOMAIN inbox[c] : inbox[c][m] + Len(inbox[c]) = sent[c] + m
    BY DEF SentInv
  <2>7. ASSUME NEW m \in DOMAIN t PROVE t[m] + Len(t) = sent[c] + 1 + m
    <3>1. CASE m \in 1 .. Len(inbox[c])
      <4>1. t[m] = inbox[c][m] /\ inbox[c][m] + Len(inbox[c]) = sent[c] + m
        BY <2>3, <2>4, <2>6, <3>1
      <4>2. inbox[c][m] \in Nat /\ m \in Nat
        BY <2>2, <2>4, <3>1, ElementOfSeq
      <4>3. inbox[c][m] + (Len(inbox[c]) + 1) = sent[c] + 1 + m
        <5> DEFINE x == inbox[c][m]
                   l == Len(inbox[c])
                   s == sent[c]
        <5>1. x \in Nat /\ l \in Nat /\ s \in Nat /\ m \in Nat /\ x + l = s + m
          BY <2>2, <2>4, <4>1, <4>2
        <5> HIDE DEF x, l, s
        <5>2. x + (l + 1) = s + 1 + m
          BY ONLY <5>1, BothMore
        <5> QED BY <5>2 DEF x, l, s
      <4> QED BY <2>3, <4>1, <4>3
    <3>2. CASE m = Len(inbox[c]) + 1
      BY <2>2, <2>3, <2>4, <3>2
    <3> QED BY <2>4, <3>1, <3>2
  <2>8. Len(t) <= sent[c] + 1 /\ (Len(inbox[c]) = sent[c] => Len(t) = sent[c] + 1)
    BY ONLY <2>2, <2>3, <2>4, <2>6
  <2>9. ASSUME NEW d \in Clients
        PROVE  /\ Len(inbox'[d]) <= sent'[d]
               /\ \A m \in DOMAIN inbox'[d] : inbox'[d][m] + Len(inbox'[d]) = sent'[d] + m
               /\ conn'[d] \in {"new", "queued"} => Len(inbox'[d]) = sent'[d]
    <3>1. CASE d = c
      <4>1. conn'[d] \in {"new", "queued"} => Len(inbox[c]) = sent[c]
        BY <2>1, <3>1 DEF SentInv
      <4> QED BY <2>5, <2>7, <2>8, <3>1, <4>1
    <3>2. CASE d # c
      BY <2>1, <2>5, <3>2 DEF SentInv
    <3> QED BY <3>1, <3>2
  <2>10. fd # None =>
           IF rcp # <<>> /\ rcp[Len(rcp)][2] = fd
           THEN Len(inbox'[fd]) + rcp[Len(rcp)][3] = sent'[fd]
           ELSE Len(inbox'[fd]) = sent'[fd]
    <3>1. CASE fd = c
      <4>1. IF rcp # <<>> /\ rcp[Len(rcp)][2] = fd
            THEN Len(inbox[c]) + rcp[Len(rcp)][3] = sent[c]
            ELSE Len(inbox[c]) = sent[c]
        BY <3>1, RelayAssumption DEF SentInv
      <4>2. rcp # <<>> => rcp[Len(rcp)][3] \in Nat
        <5>1. rcp # <<>> => Len(rcp) \in DOMAIN rcp
          BY <1>0, EmptySeq, LenProperties
        <5> QED BY <1>0, <5>1, ElementOfSeq, LenProperties
      <4>3. Len(inbox'[fd]) = Len(inbox[c]) + 1 /\ sent'[fd] = sent[c] + 1
        BY <2>3, <2>5, <3>1
      <4>4. CASE rcp # <<>> /\ rcp[Len(rcp)][2] = fd
        <5> DEFINE k == rcp[Len(rcp)][3]
        <5>1. k \in Nat /\ Len(inbox[c]) + k = sent[c]
          BY <4>1, <4>2, <4>4
        <5> HIDE DEF k
        <5>2. Len(inbox[c]) + 1 + k = sent[c] + 1
          BY <2>2, <2>4, <5>1
        <5>3. Len(inbox'[fd]) + k = sent'[fd]
          BY <4>3, <5>2
        <5> QED BY <4>4, <5>3 DEF k
      <4>5. CASE ~(rcp # <<>> /\ rcp[Len(rcp)][2] = fd)
        BY <4>1, <4>3, <4>5
      <4> QED BY <4>4, <4>5
    <3>2. CASE fd # c /\ fd # None
      <4>1. inbox'[fd] = inbox[fd] /\ sent'[fd] = sent[fd]
        BY <1>0, <2>5, <3>2
      <4> QED BY <3>2, <4>1 DEF SentInv
    <3> QED BY <3>1, <3>2
  <2>11. SentInv'
    BY <2>1, <2>9, <2>10 DEF SentInv
  <2>12. RunsInv'
    BY <2>1 DEF RunsInv
  <2> QED BY <2>11, <2>12
<1>8. CASE ServeClient
  <2>1. \/ UNCHANGED <<inbox, rcp>>
        \/ /\ fd # None /\ inbox[fd] # <<>> /\ inbox' = [inbox EXCEPT ![fd] = Tail(@)]
           /\ \/ /\ rcp' = Append(rcp, <<session, fd, Head(inbox[fd])>>)
                 /\ UNCHANGED <<fd, conn>>
              \/ EndRelay /\ UNCHANGED rcp
           /\ sent' = sent
    BY <1>8 DEF ServeClient
  <2> QED BY <1>4, <1>5, <1>8, <2>1
<1> QED BY <1>1, <1>2, <1>3, <1>6, <1>7, <1>8 DEF RelayNext

(* What the RCP gets is one run of chunks after the other: a run is all    *)
(* that it gets of one client, within one opening of the device, from the  *)
(* client's first chunk on, in order and without a gap, for every number   *)
(* of clients, chunks and openings of the device.                          *)
THEOREM SessionsCorrect == RelaySpec => []OneClientPerSession
<1> DEFINE Inv == TypeOK /\ ConnInv /\ RcpInv /\ SentInv /\ RunsInv
<1>1. RelayInit => Inv
  <2> SUFFICES ASSUME RelayInit PROVE RcpInv /\ SentInv /\ RunsInv
    BY InitTypes
  <2>1. rcp = <<>> /\ fd = None /\ \A c \in Clients : inbox[c] = <<>> /\ sent[c] = 0
    BY DEF RelayInit
  <2> QED BY <2>1 DEF RcpInv, SessionInv, ChunkInv, OrderInv, SentInv, RunsInv
<1>2. Inv /\ [RelayNext]_relayVars => Inv'
  BY StepTypes, StepConn, StepRcp, StepSent
<1>3. Inv => OneClientPerSession
  BY DEF ConnInv, RcpInv, OrderInv, RunsInv, OneClientPerSession
<1> QED BY <1>1, <1>2, <1>3, PTL DEF RelaySpec

-----------------------------------------------------------------------------
(* The x_char, and numbered bytes of the tty and of the console.           *)
Chars == {<<"x">>} \cup ({"tty", "con"} \X Nat)

TxTypes ==
  /\ wire \in Seq(Chars) /\ txfifo \in Seq(Chars) /\ xmit \in Seq(Chars)
  /\ xchar \in BOOLEAN /\ written \in Nat

RxTypes ==
  /\ brk \in BOOLEAN /\ sysrq \in BOOLEAN /\ rxfifo \in Seq({"nul", "byte"})
  /\ arrived \in Seq({"nul", "byte", "brk"})
  /\ taken \in Seq({"nul", "byte", "brk", "sysrq"})
  /\ rxLeft \in Nat

UartTypes == TxTypes /\ RxTypes /\ messages \in Nat /\ stopped \in BOOLEAN

TxInv ==
  /\ TxInOrder
  /\ \A e \in lost : e[1] = "tty" => e[2] \in 0 .. written

(* A latched break that is not taken yet still has its break to come;      *)
(* sysrq is armed only while the byte taken last is a break, or is the     *)
(* byte handle_sysrq() works on; the handler reads no more than there is.  *)
RxInv ==
  /\ RxInOrder
  /\ brk => Cardinality(Breaks(taken)) < Cardinality(Breaks(arrived))
  /\ sysrq /\ isr # "sysrq" => taken # <<>> /\ taken[Len(taken)] = "brk"
  /\ isr = "byte" => rxLeft \in 1 .. Len(rxfifo)
  /\ isr = "sysrq" => rxLeft <= Len(rxfifo)

LEMMA CharFacts ==
  ASSUME NEW e \in Chars, e[1] = "tty"
  PROVE  e[2] \in Nat /\ e = <<"tty", e[2]>>
BY DEF Chars

-----------------------------------------------------------------------------
Before(s, t) == \A x \in TtyBytes(s), y \in TtyBytes(t) : x[2] < y[2]

LEMMA TtyConcat ==
  ASSUME NEW s \in Seq(Chars), NEW t \in Seq(Chars)
  PROVE  /\ s \o t \in Seq(Chars) /\ Len(s \o t) = Len(s) + Len(t)
         /\ TtyBytes(s \o t) = TtyBytes(s) \cup TtyBytes(t)
         /\ Ordered(s \o t) <=> Ordered(s) /\ Ordered(t) /\ Before(s, t)
<1> DEFINE u == s \o t
<1>1. /\ u \in Seq(Chars) /\ Len(u) = Len(s) + Len(t)
      /\ \A i \in 1 .. Len(s) + Len(t) : u[i] = IF i <= Len(s) THEN s[i] ELSE t[i - Len(s)]
  BY ConcatProperties
<1>2. /\ DOMAIN s = 1 .. Len(s) /\ DOMAIN t = 1 .. Len(t) /\ DOMAIN u = 1 .. Len(s) + Len(t)
      /\ Len(s) \in Nat /\ Len(t) \in Nat
  BY <1>1, LenProperties
<1> HIDE DEF u
<1>3. \A i \in DOMAIN s : i \in DOMAIN u /\ u[i] = s[i]
  BY <1>1, <1>2
<1>4. \A i \in DOMAIN t : Len(s) + i \in DOMAIN u /\ u[Len(s) + i] = t[i]
  BY <1>1, <1>2
<1>5. \A i \in DOMAIN u : i \in DOMAIN s \/ \E k \in DOMAIN t : i = Len(s) + k
  <2> SUFFICES ASSUME NEW i \in DOMAIN u, i \notin DOMAIN s
               PROVE  \E k \in DOMAIN t : i = Len(s) + k
    OBVIOUS
  <2>1. i - Len(s) \in DOMAIN t /\ i = Len(s) + (i - Len(s))
    BY <1>2
  <2> QED BY <2>1
<1>6. TtyBytes(u) = TtyBytes(s) \cup TtyBytes(t)
  BY <1>3, <1>4, <1>5 DEF TtyBytes, TtyAt
<1>7. ASSUME Ordered(u) PROVE Ordered(s) /\ Ordered(t) /\ Before(s, t)
  <2>1. Ordered(s)
    BY <1>3, <1>7 DEF Ordered, TtyAt
  <2>2. Ordered(t)
    <3> SUFFICES ASSUME NEW i \in TtyAt(t), NEW j \in TtyAt(t), i < j
                 PROVE  t[i][2] < t[j][2]
      BY DEF Ordered
    <3>1. /\ Len(s) + i \in TtyAt(u) /\ Len(s) + j \in TtyAt(u)
          /\ u[Len(s) + i] = t[i] /\ u[Len(s) + j] = t[j]
      BY <1>4 DEF TtyAt
    <3>2. Len(s) + i < Len(s) + j
      BY <1>2 DEF TtyAt
    <3> QED BY <1>7, <3>1, <3>2 DEF Ordered
  <2>3. Before(s, t)
    <3> SUFFICES ASSUME NEW i \in TtyAt(s), NEW j \in TtyAt(t)
                 PROVE  s[i][2] < t[j][2]
      BY DEF Before, TtyBytes
    <3>1. /\ i \in TtyAt(u) /\ Len(s) + j \in TtyAt(u)
          /\ u[i] = s[i] /\ u[Len(s) + j] = t[j]
      BY <1>3, <1>4 DEF TtyAt
    <3>2. i < Len(s) + j
      BY <1>2 DEF TtyAt
    <3> QED BY <1>7, <3>1, <3>2 DEF Ordered
  <2> QED BY <2>1, <2>2, <2>3
<1>8. ASSUME Ordered(s), Ordered(t), Before(s, t) PROVE Ordered(u)
  <2> SUFFICES ASSUME NEW i \in TtyAt(u), NEW j \in TtyAt(u), i < j
               PROVE  u[i][2] < u[j][2]
    BY DEF Ordered
  <2>1. i \in DOMAIN u /\ j \in DOMAIN u
    BY DEF TtyAt
  <2>2. CASE i \in DOMAIN s /\ j \in DOMAIN s
    BY <1>3, <1>8, <2>2 DEF Ordered, TtyAt
  <2>3. CASE i \in DOMAIN s /\ j \notin DOMAIN s
    <3>1. PICK k \in DOMAIN t : j = Len(s) + k
      BY <1>5, <2>1, <2>3
    <3>2. u[i] \in TtyBytes(s) /\ u[j] \in TtyBytes(t)
      BY <1>3, <1>4, <2>3, <3>1 DEF TtyBytes, TtyAt
    <3> QED BY <1>8, <3>2 DEF Before
  <2>4. CASE i \notin DOMAIN s
    <3>1. PICK k \in DOMAIN t : i = Len(s) + k
      BY <1>5, <2>1, <2>4
    <3>2. j \notin DOMAIN s
      BY <1>2, <2>1, <3>1
    <3>3. PICK m \in DOMAIN t : j = Len(s) + m
      BY <1>5, <2>1, <3>2
    <3>4. k < m
      BY <1>2, <3>1, <3>3
    <3>5. k \in TtyAt(t) /\ m \in TtyAt(t) /\ u[i] = t[k] /\ u[j] = t[m]
      BY <1>4, <3>1, <3>3 DEF TtyAt
    <3> QED BY <1>8, <3>4, <3>5 DEF Ordered
  <2> QED BY <2>2, <2>3, <2>4
<1> QED BY <1>1, <1>6, <1>7, <1>8 DEF u

LEMMA TtyStream ==
  ASSUME NEW a \in Seq(Chars), NEW b \in Seq(Chars), NEW c \in Seq(Chars)
  PROVE  /\ a \o b \o c \in Seq(Chars)
         /\ TtyBytes(a \o b \o c) = TtyBytes(a) \cup TtyBytes(b) \cup TtyBytes(c)
         /\ Ordered(a \o b \o c) <=>
              /\ Ordered(a) /\ Ordered(b) /\ Ordered(c)
              /\ Before(a, b) /\ Before(a, c) /\ Before(b, c)
<1>1. /\ a \o b \in Seq(Chars)
      /\ TtyBytes(a \o b) = TtyBytes(a) \cup TtyBytes(b)
      /\ Ordered(a \o b) <=> Ordered(a) /\ Ordered(b) /\ Before(a, b)
  BY TtyConcat
<1>2. /\ (a \o b) \o c \in Seq(Chars)
      /\ TtyBytes((a \o b) \o c) = TtyBytes(a \o b) \cup TtyBytes(c)
      /\ Ordered((a \o b) \o c) <=> Ordered(a \o b) /\ Ordered(c) /\ Before(a \o b, c)
  BY <1>1, TtyConcat
<1>3. Before(a \o b, c) <=> Before(a, c) /\ Before(b, c)
  BY <1>1 DEF Before
<1> QED BY <1>1, <1>2, <1>3

(* A byte that is not the tty's changes nothing.                           *)
LEMMA TtyNone ==
  ASSUME NEW s \in Seq(Chars), \A i \in DOMAIN s : s[i][1] # "tty"
  PROVE  TtyBytes(s) = {} /\ Ordered(s)
BY DEF TtyBytes, TtyAt, Ordered

(* The FIFO takes the x_char and the first bytes of the buffer; the order  *)
(* of all bytes stays the same, whatever the room and the x_char.          *)
LEMMA TransmitKeeps ==
  ASSUME UartTypes, Len(txfifo) <= TX_FIFO_SIZE, wire' = wire,
         NEW x \in BOOLEAN, NEW buffer \in Seq(Chars), NEW halt \in BOOLEAN,
         Ordered(wire \o txfifo \o buffer),
         esp32_uart_transmit_buffer(x, buffer, halt)
  PROVE  /\ txfifo' \in Seq(Chars) /\ xmit' \in Seq(Chars) /\ xchar' \in BOOLEAN
         /\ Len(txfifo') <= TX_FIFO_SIZE
         /\ Ordered(wire' \o txfifo' \o xmit')
         /\ TtyBytes(wire' \o txfifo' \o xmit') = TtyBytes(wire \o txfifo \o buffer)
<1>1. /\ wire \in Seq(Chars) /\ txfifo \in Seq(Chars) /\ Len(txfifo) \in Nat
      /\ Len(buffer) \in Nat
  BY LenProperties DEF UartTypes, TxTypes
<1>2. CASE Len(txfifo) >= TX_FIFO_SIZE
  BY <1>1, <1>2 DEF esp32_uart_transmit_buffer
<1>3. CASE ~(Len(txfifo) >= TX_FIFO_SIZE)
  <2> DEFINE room  == TX_FIFO_SIZE - Len(txfifo)
             first == IF x /\ room > 0 THEN << <<"x">> >> ELSE <<>>
             n     == IF halt THEN 0
                      ELSE IF Len(buffer) < room - Len(first) THEN Len(buffer)
                      ELSE room - Len(first)
             one   == SubSeq(buffer, 1, n)
             two   == SubSeq(buffer, n + 1, Len(buffer))
  <2>1. /\ txfifo' = txfifo \o first \o one /\ xmit' = two
        /\ xchar' = (x /\ first = <<>>)
    BY <1>3 DEF esp32_uart_transmit_buffer, TransmitBuffer
  <2>2. room \in Nat /\ 0 < room /\ Len(txfifo) + room = TX_FIFO_SIZE
    BY <1>1, <1>3, UartAssumption
  <2>3. /\ first \in Seq(Chars) /\ Len(first) \in {0, 1}
        /\ \A i \in DOMAIN first : first[i][1] # "tty"
    <3>1. <<"x">> \in Chars /\ <<"x">>[1] = "x"
      BY DEF Chars
    <3>2. CASE first = <<>>
      BY <3>2
    <3>3. CASE first = << <<"x">> >>
      <4> DEFINE e == <<"x">>
      <4>1. e \in Chars /\ e[1] = "x" /\ first = <<e>>
        BY <3>1, <3>3
      <4> HIDE DEF e
      <4> QED BY <4>1
    <3> QED BY <3>2, <3>3
  <2> HIDE DEF room, first
  <2>4. n \in Nat /\ n <= Len(buffer) /\ Len(first) + n <= room
    BY <1>1, <2>2, <2>3
  <2> HIDE DEF n
  <2>5. \A i \in DOMAIN buffer : buffer[i] \in Chars
    BY LenProperties, ElementOfSeq
  <2>6. /\ one \in Seq(Chars) /\ Len(one) = n /\ two \in Seq(Chars)
        /\ buffer = one \o two
    <3>1. DOMAIN buffer = 1 .. Len(buffer)
      BY LenProperties
    <3>2. one \in Seq(Chars) /\ Len(one) = n
      BY <1>1, <2>4, <2>5, <3>1, SubSeqProperties
    <3>3. two \in Seq(Chars)
      BY <1>1, <2>4, <2>5, <3>1, SubSeqProperties
    <3>4. one \o two = SubSeq(buffer, 1, Len(buffer))
      <4>1. /\ 1 \in 1 .. Len(buffer) + 1 /\ n \in 1 - 1 .. Len(buffer)
            /\ Len(buffer) \in n .. Len(buffer)
        BY <1>1, <2>4
      <4> QED BY <4>1, ConcatAdjacentSubSeq
    <3> QED BY <3>2, <3>3, <3>4, SubSeqFull
  <2> HIDE DEF one, two
  <2>7. TtyBytes(first) = {} /\ Ordered(first)
    BY <2>3, TtyNone
  <2>8. /\ TtyBytes(buffer) = TtyBytes(one) \cup TtyBytes(two)
        /\ Ordered(buffer) <=> Ordered(one) /\ Ordered(two) /\ Before(one, two)
    BY <2>6, TtyConcat
  <2>9. /\ txfifo' \in Seq(Chars)
        /\ TtyBytes(txfifo') = TtyBytes(txfifo) \cup TtyBytes(one)
        /\ Ordered(txfifo') <=> Ordered(txfifo) /\ Ordered(one) /\ Before(txfifo, one)
    <3>1. Before(txfifo, first) /\ Before(first, one)
      BY <2>7 DEF Before
    <3> QED BY <1>1, <2>1, <2>3, <2>6, <2>7, <3>1, TtyStream
  <2>10. Len(txfifo') = Len(txfifo) + Len(first) + n
    <3>1. txfifo \o first \in Seq(Chars) /\ Len(txfifo \o first) = Len(txfifo) + Len(first)
      BY <1>1, <2>3, TtyConcat
    <3> QED BY <2>1, <2>6, <3>1, TtyConcat
  <2>11. Len(txfifo') <= TX_FIFO_SIZE
    BY <1>1, <2>2, <2>3, <2>4, <2>10, UartAssumption
  <2>12. /\ Ordered(wire) /\ Ordered(txfifo) /\ Ordered(buffer)
         /\ Before(wire, txfifo) /\ Before(wire, buffer) /\ Before(txfifo, buffer)
    BY <1>1, TtyStream
  <2>13. /\ Before(wire, txfifo') /\ Before(wire, two) /\ Before(txfifo', two)
         /\ Before(txfifo, one)
    BY <2>8, <2>9, <2>12 DEF Before
  <2>14. Ordered(wire \o txfifo' \o two)
    BY <1>1, <2>6, <2>8, <2>9, <2>12, <2>13, TtyStream
  <2>15. TtyBytes(wire \o txfifo' \o two) = TtyBytes(wire \o txfifo \o buffer)
    <3>1. TtyBytes(wire \o txfifo' \o two)
            = TtyBytes(wire) \cup TtyBytes(txfifo') \cup TtyBytes(two)
      BY <1>1, <2>6, <2>9, TtyStream
    <3>2. TtyBytes(wire \o txfifo \o buffer)
            = TtyBytes(wire) \cup TtyBytes(txfifo) \cup TtyBytes(buffer)
      BY <1>1, TtyStream
    <3> QED BY <2>8, <2>9, <3>1, <3>2, Zenon
  <2> QED BY <2>1, <2>6, <2>9, <2>11, <2>14, <2>15
<1> QED BY <1>2, <1>3

-----------------------------------------------------------------------------
(* What the tty side, the console and the handler do to the bytes to send. *)
txVars == <<wire, txfifo, xmit, xchar, written, lost>>

(* TxInOrder speaks of the variables only through these three facts.       *)
LEMMA TxPrime ==
  ASSUME Len(txfifo') <= TX_FIFO_SIZE,
         Ordered(wire' \o txfifo' \o xmit'),
         TtyBytes(wire' \o txfifo' \o xmit') = {<<"tty", i>> : i \in 1 .. written'} \ lost',
         \A e \in lost' : e[1] = "tty" => e[2] \in 0 .. written'
  PROVE  TxInv'
<1>1. TxInOrder'
  BY DEF TxInOrder, Ordered, TtyBytes, TtyAt
<1> QED BY <1>1 DEF TxInv

LEMMA TxQuiet ==
  ASSUME TxTypes, TxInv, UNCHANGED txVars
  PROVE  (TxTypes /\ TxInv)'
<1>1. /\ wire' = wire /\ txfifo' = txfifo /\ xmit' = xmit /\ xchar' = xchar
      /\ written' = written /\ lost' = lost
  BY DEF txVars
<1>2. TxTypes'
  BY <1>1 DEF TxTypes
<1>3. /\ Len(txfifo) <= TX_FIFO_SIZE
      /\ Ordered(wire \o txfifo \o xmit)
      /\ TtyBytes(wire \o txfifo \o xmit) = {<<"tty", i>> : i \in 1 .. written} \ lost
      /\ \A e \in lost : e[1] = "tty" => e[2] \in 0 .. written
  BY DEF TxInv, TxInOrder
<1> QED BY <1>1, <1>2, <1>3, TxPrime

(* The output starts over: a start, an x_char or the interrupt.            *)
LEMMA TxTransmit ==
  ASSUME UartTypes, TxInv, NEW x \in BOOLEAN, NEW halt \in BOOLEAN,
         esp32_uart_transmit_buffer(x, xmit, halt), UNCHANGED <<wire, written, lost>>
  PROVE  (TxTypes /\ TxInv)'
<1>1. /\ xmit \in Seq(Chars) /\ Len(txfifo) <= TX_FIFO_SIZE
      /\ Ordered(wire \o txfifo \o xmit)
  BY DEF UartTypes, TxTypes, TxInv, TxInOrder
<1>2. /\ txfifo' \in Seq(Chars) /\ xmit' \in Seq(Chars) /\ xchar' \in BOOLEAN
      /\ Len(txfifo') <= TX_FIFO_SIZE
      /\ Ordered(wire' \o txfifo' \o xmit')
      /\ TtyBytes(wire' \o txfifo' \o xmit') = TtyBytes(wire \o txfifo \o xmit)
  BY <1>1, TransmitKeeps
<1>3. TxTypes'
  BY <1>2 DEF UartTypes, TxTypes
<1>4. /\ TtyBytes(wire \o txfifo \o xmit) = {<<"tty", i>> : i \in 1 .. written} \ lost
      /\ \A e \in lost : e[1] = "tty" => e[2] \in 0 .. written
  BY DEF TxInv, TxInOrder
<1> QED BY <1>2, <1>3, <1>4, TxPrime

LEMMA TxWrite ==
  ASSUME UartTypes, TxInv, NEW n \in 1 .. MaxBytes, WriteBytes(n)
  PROVE  (TxTypes /\ TxInv)'
<1> DEFINE new == [i \in 1 .. n |-> <<"tty", written + i>>]
           buffer == xmit \o new
<1>1. /\ n \in Nat /\ written \in Nat /\ wire \in Seq(Chars) /\ txfifo \in Seq(Chars)
      /\ xmit \in Seq(Chars) /\ xchar \in BOOLEAN
  BY DEF UartTypes, TxTypes
<1>2. \A i \in 1 .. n : <<"tty", written + i>> \in Chars
  BY <1>1 DEF Chars
<1>3. /\ new \in Seq(Chars) /\ DOMAIN new = 1 .. n
      /\ \A i \in 1 .. n : new[i][1] = "tty" /\ new[i][2] = written + i
      /\ \A i \in 1 .. n : new[i] = <<"tty", written + i>>
  <2>1. new \in Seq(Chars)
    BY <1>1, <1>2
  <2> QED BY <2>1
<1> HIDE DEF new
<1>4. TtyAt(new) = 1 .. n
  BY <1>3 DEF TtyAt
<1>5. Ordered(new)
  BY <1>1, <1>3, <1>4 DEF Ordered
<1>6. TtyBytes(new) = {<<"tty", i>> : i \in written + 1 .. written + n}
  <2>1. TtyBytes(new) = {<<"tty", written + i>> : i \in 1 .. n}
    BY <1>3, <1>4 DEF TtyBytes
  <2>2. \A i \in 1 .. n : written + i \in written + 1 .. written + n
    BY <1>1
  <2>3. \A k \in written + 1 .. written + n : k - written \in 1 .. n /\ k = written + (k - written)
    BY <1>1
  <2> QED BY <2>1, <2>2, <2>3
<1>7. /\ Len(txfifo) <= TX_FIFO_SIZE
      /\ TtyBytes(wire \o txfifo \o xmit) = {<<"tty", i>> : i \in 1 .. written} \ lost
      /\ Ordered(wire \o txfifo \o xmit)
      /\ \A e \in lost : e[1] = "tty" => e[2] \in 0 .. written
  BY DEF TxInv, TxInOrder
<1>8. /\ TtyBytes(wire \o txfifo \o xmit)
           = TtyBytes(wire) \cup TtyBytes(txfifo) \cup TtyBytes(xmit)
      /\ Ordered(wire) /\ Ordered(txfifo) /\ Ordered(xmit)
      /\ Before(wire, txfifo) /\ Before(wire, xmit) /\ Before(txfifo, xmit)
  BY <1>1, <1>7, TtyStream
<1>9. \A x \in TtyBytes(wire \o txfifo \o xmit), y \in TtyBytes(new) : x[2] < y[2]
  <2> SUFFICES ASSUME NEW i \in 1 .. written, NEW k \in written + 1 .. written + n
               PROVE  <<"tty", i>>[2] < <<"tty", k>>[2]
    BY <1>6, <1>7
  <2> QED BY <1>1
<1>10. /\ buffer \in Seq(Chars)
       /\ TtyBytes(buffer) = TtyBytes(xmit) \cup TtyBytes(new)
       /\ Ordered(buffer)
  <2>1. Before(xmit, new)
    BY <1>8, <1>9 DEF Before
  <2> QED BY <1>1, <1>3, <1>5, <1>8, <2>1, TtyConcat
<1>11. Before(wire, buffer) /\ Before(txfifo, buffer)
  BY <1>8, <1>9, <1>10 DEF Before
<1>12. Ordered(wire \o txfifo \o buffer)
  BY <1>1, <1>8, <1>10, <1>11, TtyStream
<1>13. TtyBytes(wire \o txfifo \o buffer) = {<<"tty", i>> : i \in 1 .. written + n} \ lost
  <2>1. TtyBytes(wire \o txfifo \o buffer)
          = TtyBytes(wire) \cup TtyBytes(txfifo) \cup TtyBytes(buffer)
    <3> HIDE DEF buffer
    <3> QED BY <1>1, <1>10, TtyStream
  <2>2. TtyBytes(wire \o txfifo \o buffer)
          = ({<<"tty", i>> : i \in 1 .. written} \ lost)
            \cup {<<"tty", i>> : i \in written + 1 .. written + n}
    BY <1>6, <1>7, <1>8, <1>10, <2>1, Zenon
  <2>3. \A i \in written + 1 .. written + n : <<"tty", i>> \notin lost
    <3> SUFFICES ASSUME NEW i \in written + 1 .. written + n, <<"tty", i>> \in lost
                 PROVE  FALSE
      OBVIOUS
    <3>1. i <= written
      BY <1>7
    <3> QED BY <1>1, <3>1
  <2>4. 1 .. written + n = (1 .. written) \cup (written + 1 .. written + n)
    BY <1>1
  <2> HIDE DEF buffer
  <2> QED BY <2>2, <2>3, <2>4
<1>14. /\ wire' = wire /\ lost' = lost /\ written' = written + n
       /\ IF stopped THEN xmit' = buffer /\ UNCHANGED <<xchar, txfifo>>
          ELSE esp32_uart_transmit_buffer(xchar, buffer, FALSE)
  BY DEF WriteBytes, new, buffer
<1> HIDE DEF buffer
<1>15. /\ txfifo' \in Seq(Chars) /\ xmit' \in Seq(Chars) /\ xchar' \in BOOLEAN
       /\ Len(txfifo') <= TX_FIFO_SIZE
       /\ Ordered(wire' \o txfifo' \o xmit')
       /\ TtyBytes(wire' \o txfifo' \o xmit') = TtyBytes(wire \o txfifo \o buffer)
  <2>1. CASE stopped
    <3>1. wire' = wire /\ txfifo' = txfifo /\ xmit' = buffer /\ xchar' = xchar
      BY <1>14, <2>1
    <3> QED BY <1>1, <1>7, <1>10, <1>12, <3>1
  <2>2. CASE ~stopped
    BY <1>1, <1>7, <1>10, <1>12, <1>14, <2>2, TransmitKeeps
  <2> QED BY <2>1, <2>2
<1>16. TxTypes'
  BY <1>1, <1>14, <1>15 DEF TxTypes
<1>17. TtyBytes(wire' \o txfifo' \o xmit') = {<<"tty", i>> : i \in 1 .. written'} \ lost'
  BY <1>13, <1>14, <1>15
<1>18. \A e \in lost' : e[1] = "tty" => e[2] \in 0 .. written'
  <2> SUFFICES ASSUME NEW e \in lost, e[1] = "tty" PROVE e[2] \in 0 .. written + n
    BY <1>14
  <2>1. e[2] \in 0 .. written
    BY <1>7
  <2> QED BY <1>1, <2>1
<1> QED BY <1>15, <1>16, <1>17, <1>18, TxPrime

(* The console waits for room in the FIFO.                                 *)
LEMMA TxPut ==
  ASSUME UartTypes, TxInv, esp32_uart_put_char_sync
  PROVE  (TxTypes /\ TxInv)'
<1>1. CASE UNCHANGED txfifo
  BY <1>1, TxQuiet DEF esp32_uart_put_char_sync, txVars, output, UartTypes
<1>2. CASE Len(txfifo) < TX_FIFO_SIZE /\ txfifo' = Append(txfifo, <<"con", messages>>)
  <2> DEFINE e == <<"con", messages>>
  <2>1. /\ wire \in Seq(Chars) /\ txfifo \in Seq(Chars) /\ xmit \in Seq(Chars)
        /\ e \in Chars /\ e[1] # "tty"
    BY DEF UartTypes, TxTypes, Chars
  <2> DEFINE one == <<e>>
  <2>2. txfifo' = txfifo \o one
    BY <1>2, <2>1, AppendIsConcat
  <2> HIDE DEF e
  <2>3. one \in Seq(Chars) /\ Len(one) = 1 /\ \A i \in DOMAIN one : one[i][1] # "tty"
    BY <2>1
  <2> HIDE DEF one
  <2>4. TtyBytes(one) = {} /\ Ordered(one) /\ Before(txfifo, one)
    <3>1. TtyBytes(one) = {} /\ Ordered(one)
      BY <2>3, TtyNone
    <3> QED BY <3>1 DEF Before
  <2>5. /\ txfifo' \in Seq(Chars) /\ Len(txfifo') = Len(txfifo) + 1
        /\ TtyBytes(txfifo') = TtyBytes(txfifo)
        /\ Ordered(txfifo') <=> Ordered(txfifo)
    <3>1. /\ txfifo \o one \in Seq(Chars) /\ Len(txfifo \o one) = Len(txfifo) + Len(one)
          /\ TtyBytes(txfifo \o one) = TtyBytes(txfifo) \cup TtyBytes(one)
          /\ Ordered(txfifo \o one) <=> Ordered(txfifo) /\ Ordered(one) /\ Before(txfifo, one)
      BY <2>1, <2>3, TtyConcat
    <3>2. TtyBytes(txfifo \o one) = TtyBytes(txfifo)
      BY <2>4, <3>1
    <3> QED BY <2>2, <2>3, <2>4, <3>1, <3>2
  <2>6. /\ Ordered(wire \o txfifo \o xmit)
        /\ TtyBytes(wire \o txfifo \o xmit) = {<<"tty", i>> : i \in 1 .. written} \ lost
        /\ \A x \in lost : x[1] = "tty" => x[2] \in 0 .. written
    BY DEF TxInv, TxInOrder
  <2>7. /\ wire' = wire /\ xmit' = xmit /\ xchar' = xchar /\ written' = written /\ lost' = lost
    BY DEF esp32_uart_put_char_sync, output
  <2>8. Len(txfifo') <= TX_FIFO_SIZE
    <3>1. Len(txfifo) \in Nat
      BY <2>1, LenProperties
    <3> QED BY <1>2, <2>5, <3>1, UartAssumption
  <2>9. /\ Ordered(wire) /\ Ordered(txfifo) /\ Ordered(xmit)
        /\ Before(wire, txfifo) /\ Before(wire, xmit) /\ Before(txfifo, xmit)
    BY <2>1, <2>6, TtyStream
  <2>10. Before(wire, txfifo') /\ Before(txfifo', xmit)
    BY <2>5, <2>9 DEF Before
  <2>11. Ordered(wire \o txfifo' \o xmit)
    BY <2>1, <2>5, <2>9, <2>10, TtyStream
  <2>12. TtyBytes(wire \o txfifo' \o xmit) = TtyBytes(wire \o txfifo \o xmit)
    <3>1. TtyBytes(wire \o txfifo' \o xmit)
            = TtyBytes(wire) \cup TtyBytes(txfifo') \cup TtyBytes(xmit)
      BY <2>1, <2>5, TtyStream
    <3>2. TtyBytes(wire \o txfifo \o xmit)
            = TtyBytes(wire) \cup TtyBytes(txfifo) \cup TtyBytes(xmit)
      BY <2>1, TtyStream
    <3> QED BY <2>5, <3>1, <3>2, Zenon
  <2>13. TxTypes'
    BY <2>5, <2>7 DEF UartTypes, TxTypes
  <2> QED BY <2>6, <2>7, <2>8, <2>11, <2>12, <2>13, TxPrime
<1> QED BY <1>1, <1>2 DEF esp32_uart_put_char_sync

(* The UART takes the first byte of the FIFO.                              *)
LEMMA TxSend ==
  ASSUME UartTypes, TxInv, SendByte
  PROVE  (TxTypes /\ TxInv)'
<1> DEFINE e == Head(txfifo)
<1>1. /\ wire \in Seq(Chars) /\ txfifo \in Seq(Chars) /\ xmit \in Seq(Chars) /\ txfifo # <<>>
  BY DEF UartTypes, TxTypes, SendByte
<1>2. /\ e \in Chars /\ Tail(txfifo) \in Seq(Chars) /\ Len(Tail(txfifo)) = Len(txfifo) - 1
      /\ \A i \in 1 .. Len(Tail(txfifo)) : Tail(txfifo)[i] = txfifo[i + 1]
  BY <1>1, HeadTailProperties
<1>3. e = txfifo[1] /\ Len(txfifo) \in Nat /\ Len(txfifo) # 0
  BY <1>1, EmptySeq, LenProperties
<1> HIDE DEF e
<1>4. <<e>> \in Seq(Chars) /\ Len(<<e>>) = 1 /\ <<e>>[1] = e
  BY <1>2
<1>5. txfifo = <<e>> \o Tail(txfifo)
  <2> DEFINE u == <<e>> \o Tail(txfifo)
  <2>1. u \in Seq(Chars) /\ Len(u) = Len(txfifo)
        /\ \A i \in 1 .. Len(txfifo) : u[i] = IF i <= 1 THEN <<e>>[i] ELSE Tail(txfifo)[i - 1]
    BY <1>2, <1>3, <1>4, ConcatProperties
  <2> HIDE DEF u
  <2>2. ASSUME NEW i \in 1 .. Len(txfifo) PROVE txfifo[i] = u[i]
    <3>1. CASE i = 1
      BY <1>3, <1>4, <2>1, <3>1
    <3>2. CASE i # 1
      <4>1. i - 1 \in 1 .. Len(Tail(txfifo)) /\ (i - 1) + 1 = i /\ ~(i <= 1)
        BY <1>2, <1>3, <3>2
      <4>2. Tail(txfifo)[i - 1] = txfifo[(i - 1) + 1]
        BY <1>2, <4>1
      <4> QED BY <2>1, <4>1, <4>2
    <3> QED BY <3>1, <3>2
  <2>3. txfifo = u
    BY <1>1, <2>1, <2>2, SeqEqual
  <2> QED BY <2>3 DEF u
<1>6. /\ wire' = wire \o <<e>> /\ txfifo' = Tail(txfifo) /\ xmit' = xmit /\ xchar' = xchar
      /\ written' = written /\ lost' = lost
  BY <1>1, <1>2, AppendIsConcat DEF SendByte, e, output
<1>7. wire' \o txfifo' = wire \o txfifo
  BY <1>1, <1>2, <1>4, <1>5, <1>6, ConcatAssociative
<1>8. TxTypes'
  BY <1>1, <1>2, <1>4, <1>6, ConcatProperties DEF UartTypes, TxTypes
<1>9. /\ Len(txfifo) <= TX_FIFO_SIZE
      /\ Ordered(wire \o txfifo \o xmit)
      /\ TtyBytes(wire \o txfifo \o xmit) = {<<"tty", i>> : i \in 1 .. written} \ lost
      /\ \A x \in lost : x[1] = "tty" => x[2] \in 0 .. written
  BY DEF TxInv, TxInOrder
<1>10. Len(txfifo') <= TX_FIFO_SIZE
  BY <1>2, <1>3, <1>6, <1>9, UartAssumption
<1> QED BY <1>6, <1>7, <1>8, <1>9, <1>10, TxPrime

(* A close drops what the tty wrote last.                                  *)
LEMMA TxShutdown ==
  ASSUME UartTypes, TxInv, esp32_uart_shutdown
  PROVE  (TxTypes /\ TxInv)'
<1> DEFINE none == <<>>
<1>1. /\ wire \in Seq(Chars) /\ txfifo \in Seq(Chars) /\ xmit \in Seq(Chars)
      /\ none \in Seq(Chars) /\ (\A i \in DOMAIN none : none[i][1] # "tty") /\ written \in Nat
  BY DEF UartTypes, TxTypes
<1>2. /\ Len(txfifo) <= TX_FIFO_SIZE
      /\ Ordered(wire \o txfifo \o xmit)
      /\ TtyBytes(wire \o txfifo \o xmit) = {<<"tty", i>> : i \in 1 .. written} \ lost
      /\ \A x \in lost : x[1] = "tty" => x[2] \in 0 .. written
  BY DEF TxInv, TxInOrder
<1>3. /\ wire' = wire /\ txfifo' = txfifo /\ xmit' = none /\ xchar' = FALSE
      /\ written' = written /\ lost' = lost \cup ToSet(xmit)
  BY DEF esp32_uart_shutdown
<1> HIDE DEF none
<1>4. TtyBytes(none) = {} /\ Ordered(none)
  BY <1>1, TtyNone
<1>5. /\ Ordered(wire) /\ Ordered(txfifo) /\ Before(wire, txfifo)
      /\ Before(wire, xmit) /\ Before(txfifo, xmit)
  BY <1>1, <1>2, TtyStream
<1>6. Before(wire, none) /\ Before(txfifo, none)
  BY <1>4 DEF Before
<1>7. Ordered(wire \o txfifo \o none)
  BY <1>1, <1>4, <1>5, <1>6, TtyStream
<1>8. /\ TtyBytes(wire \o txfifo \o none) = TtyBytes(wire) \cup TtyBytes(txfifo)
      /\ TtyBytes(wire \o txfifo \o xmit)
           = TtyBytes(wire) \cup TtyBytes(txfifo) \cup TtyBytes(xmit)
  <2>1. TtyBytes(wire \o txfifo \o none)
          = TtyBytes(wire) \cup TtyBytes(txfifo) \cup TtyBytes(none)
    BY <1>1, TtyStream
  <2>2. TtyBytes(wire \o txfifo \o xmit)
          = TtyBytes(wire) \cup TtyBytes(txfifo) \cup TtyBytes(xmit)
    BY <1>1, TtyStream
  <2> QED BY <1>4, <2>1, <2>2
<1>9. \A x \in ToSet(xmit) : x \in Chars /\ (x[1] = "tty" <=> x \in TtyBytes(xmit))
  BY <1>1, LenProperties DEF ToSet, TtyBytes, TtyAt
<1>10. \A x \in TtyBytes(wire) \cup TtyBytes(txfifo) : x \notin TtyBytes(xmit)
  <2> SUFFICES ASSUME NEW x \in TtyBytes(wire) \cup TtyBytes(txfifo), x \in TtyBytes(xmit)
               PROVE  FALSE
    OBVIOUS
  <2>1. x[2] < x[2]
    BY <1>5 DEF Before
  <2>2. PICK i \in TtyAt(xmit) : x = xmit[i]
    BY DEF TtyBytes
  <2>3. x \in Chars /\ x[1] = "tty"
    BY <1>1, <2>2, LenProperties, ElementOfSeq DEF TtyAt
  <2>4. x[2] \in Nat
    BY <2>3, CharFacts
  <2> QED BY <2>1, <2>4
<1>11. TtyBytes(wire \o txfifo \o none) = {<<"tty", i>> : i \in 1 .. written} \ lost'
  <2>1. \A x \in {<<"tty", i>> : i \in 1 .. written} : x[1] = "tty"
    OBVIOUS
  <2>2. TtyBytes(xmit) \subseteq ToSet(xmit)
    BY <1>1, LenProperties DEF ToSet, TtyBytes, TtyAt
  <2>3. \A x \in {<<"tty", i>> : i \in 1 .. written} : x \in ToSet(xmit) <=> x \in TtyBytes(xmit)
    BY <1>9, <2>1, <2>2
  <2>4. \A x : x \in TtyBytes(wire \o txfifo \o none)
                <=> x \in TtyBytes(wire \o txfifo \o xmit) /\ x \notin TtyBytes(xmit)
    BY <1>8, <1>10, Zenon
  <2>5. \A x : x \in TtyBytes(wire \o txfifo \o none)
                <=> x \in {<<"tty", i>> : i \in 1 .. written} /\ x \notin lost'
    BY <1>2, <1>3, <2>3, <2>4, Zenon
  <2> QED BY <2>5, Zenon
<1>12. \A x \in lost' : x[1] = "tty" => x[2] \in 0 .. written
  <2> SUFFICES ASSUME NEW x \in lost', x[1] = "tty" PROVE x[2] \in 0 .. written
    OBVIOUS
  <2>1. CASE x \in lost
    BY <1>2, <2>1
  <2>2. CASE x \in ToSet(xmit)
    <3>1. x \in {<<"tty", i>> : i \in 1 .. written}
      BY <1>2, <1>8, <1>9, <2>2
    <3>2. PICK i \in 1 .. written : x = <<"tty", i>>
      BY <3>1
    <3> QED BY <1>1, <3>2
  <2> QED BY <1>3, <2>1, <2>2
<1>13. TxTypes'
  BY <1>1, <1>3 DEF TxTypes
<1> QED BY <1>2, <1>3, <1>7, <1>11, <1>12, <1>13, TxPrime

-----------------------------------------------------------------------------
(* Receiving.                                                              *)
LEMMA BreaksFinite ==
  ASSUME NEW S, NEW s \in Seq(S)
  PROVE  IsFiniteSet(Breaks(s)) /\ Cardinality(Breaks(s)) \in Nat
<1>1. Breaks(s) \in SUBSET (1 .. Len(s)) /\ Len(s) \in Nat
  BY LenProperties DEF Breaks
<1>2. IsFiniteSet(1 .. Len(s))
  BY <1>1, FS_Interval
<1> QED BY <1>1, <1>2, FS_Subset, FS_CardinalityType

LEMMA BreaksAppend ==
  ASSUME NEW S, NEW s \in Seq(S), NEW v \in S
  PROVE  /\ IsFiniteSet(Breaks(s)) /\ Cardinality(Breaks(s)) \in Nat
         /\ Cardinality(Breaks(Append(s, v))) =
              IF v = "brk" THEN Cardinality(Breaks(s)) + 1 ELSE Cardinality(Breaks(s))
<1> DEFINE t == Append(s, v)
<1>1. /\ t \in Seq(S) /\ Len(t) = Len(s) + 1 /\ t[Len(s) + 1] = v
      /\ \A i \in 1 .. Len(s) : t[i] = s[i]
  BY AppendProperties
<1>2. /\ Len(s) \in Nat /\ DOMAIN s = 1 .. Len(s) /\ DOMAIN t = 1 .. Len(s) + 1
  BY <1>1, LenProperties
<1> HIDE DEF t
<1>3. \A i \in DOMAIN t : i \in DOMAIN s \/ i = Len(s) + 1
  BY <1>2
<1>4. Breaks(t) = IF v = "brk" THEN Breaks(s) \cup {Len(s) + 1} ELSE Breaks(s)
  BY <1>1, <1>2, <1>3 DEF Breaks
<1>5. IsFiniteSet(Breaks(s)) /\ Cardinality(Breaks(s)) \in Nat
  BY BreaksFinite
<1>6. Len(s) + 1 \notin Breaks(s)
  BY <1>2 DEF Breaks
<1>7. Cardinality(Breaks(t)) = IF v = "brk" THEN Cardinality(Breaks(s)) + 1
                               ELSE Cardinality(Breaks(s))
  BY <1>4, <1>5, <1>6, FS_AddElement
<1> QED BY <1>5, <1>7 DEF t

(* A step that takes no byte: sysrq stays or is disarmed, BRK_DET too.     *)
LEMMA RxQuiet ==
  ASSUME RxTypes, RxInv, UNCHANGED <<rxfifo, arrived, taken>>,
         brk' \in BOOLEAN, brk' => brk, sysrq' \in BOOLEAN, sysrq' => sysrq,
         rxLeft' \in Nat,
         sysrq' /\ isr' # "sysrq" => isr # "sysrq",
         isr' = "byte" => rxLeft' \in 1 .. Len(rxfifo),
         isr' = "sysrq" => rxLeft' <= Len(rxfifo)
  PROVE  (RxTypes /\ RxInv)'
<1>1. RxTypes'
  BY DEF RxTypes
<1>2. RxInOrder'
  BY DEF RxInv, RxInOrder, Breaks, Plain
<1>3. Breaks(taken)' = Breaks(taken) /\ Breaks(arrived)' = Breaks(arrived)
  BY DEF Breaks
<1> QED BY <1>1, <1>2, <1>3 DEF RxInv

LEMMA OneMore == ASSUME NEW a \in Nat, NEW b \in Nat, a < b PROVE a + 1 <= b
OBVIOUS

(* A byte is taken for what it may be.                                     *)
LEMMA TakenInOrder ==
  ASSUME RxTypes, RxInOrder, rxfifo # <<>>,
         NEW v \in {"nul", "byte", "brk", "sysrq"},
         rxfifo' = Tail(rxfifo), taken' = Append(taken, v), arrived' = arrived,
         IF v = "sysrq"
         THEN Head(rxfifo) = "byte" /\ taken # <<>> /\ taken[Len(taken)] = "brk"
         ELSE Plain(v) = Head(rxfifo),
         Cardinality(Breaks(taken')) <= Cardinality(Breaks(arrived))
  PROVE  /\ RxInOrder'
         /\ Len(rxfifo') = Len(rxfifo) - 1 /\ rxfifo' \in Seq({"nul", "byte"})
         /\ taken' \in Seq({"nul", "byte", "brk", "sysrq"})
         /\ taken' # <<>> /\ taken'[Len(taken')] = v
<1> DEFINE V == {"nul", "byte", "brk", "sysrq"}
           n == Len(taken)
<1> HIDE DEF V, n
<1>1. /\ taken \in Seq(V) /\ v \in V /\ rxfifo \in Seq({"nul", "byte"})
  BY DEF RxTypes, V
<1>2. /\ Head(rxfifo) = rxfifo[1] /\ Len(rxfifo) \in Nat \ {0}
      /\ rxfifo' \in Seq({"nul", "byte"}) /\ Len(rxfifo') = Len(rxfifo) - 1
      /\ \A i \in 1 .. Len(rxfifo) - 1 : rxfifo'[i] = rxfifo[i + 1]
  <2>1. /\ Len(Tail(rxfifo)) = Len(rxfifo) - 1 /\ Tail(rxfifo) \in Seq({"nul", "byte"})
        /\ \A i \in 1 .. Len(Tail(rxfifo)) : Tail(rxfifo)[i] = rxfifo[i + 1]
    BY <1>1, HeadTailProperties
  <2>2. Len(rxfifo) \in Nat /\ Len(rxfifo) # 0 /\ Head(rxfifo) = rxfifo[1]
    BY <1>1, EmptySeq, LenProperties
  <2> QED BY <2>1, <2>2
<1>3. /\ taken' \in Seq(V) /\ taken' # <<>> /\ Len(taken') = n + 1 /\ taken'[n + 1] = v
      /\ \A i \in 1 .. n : taken'[i] = taken[i]
  <2>1. /\ taken' \in Seq(V) /\ Len(taken') = Len(taken) + 1
        /\ taken' # <<>> /\ taken'[Len(taken) + 1] = v
        /\ \A i \in 1 .. Len(taken) : taken'[i] = taken[i]
    BY <1>1, Appended
  <2> QED BY <2>1 DEF n
<1>4. /\ DOMAIN rxfifo = 1 .. Len(rxfifo) /\ DOMAIN rxfifo' = 1 .. Len(rxfifo) - 1
  BY <1>1, <1>2, LenProperties
<1>14. n \in Nat /\ DOMAIN taken = 1 .. n /\ DOMAIN taken' = 1 .. n + 1
  BY <1>1, <1>3, LenProperties DEF n
<1>5. /\ Len(arrived) = n + Len(rxfifo)
      /\ \A i \in DOMAIN taken :
           IF taken[i] = "sysrq"
           THEN arrived[i] = "byte" /\ i > 1 /\ taken[i - 1] = "brk"
           ELSE Plain(taken[i]) = Plain(arrived[i])
      /\ \A i \in DOMAIN rxfifo : rxfifo[i] = Plain(arrived[n + i])
  BY DEF RxInOrder, n
<1>6. ASSUME NEW i \in DOMAIN taken'
      PROVE  IF taken'[i] = "sysrq"
             THEN arrived[i] = "byte" /\ i > 1 /\ taken'[i - 1] = "brk"
             ELSE Plain(taken'[i]) = Plain(arrived[i])
  <2>1. CASE i \in 1 .. n
    <3>1. taken'[i] = taken[i]
      BY <1>3, <2>1
    <3>2. i > 1 => i - 1 \in 1 .. n
      BY <1>14, <2>1
    <3>3. i > 1 => taken'[i - 1] = taken[i - 1]
      BY <1>3, <3>2
    <3> QED BY <1>14, <1>5, <2>1, <3>1, <3>3
  <2>2. CASE i = n + 1
    <3>1. taken'[i] = v
      BY <1>3, <2>2
    <3>5. 1 \in DOMAIN rxfifo
      BY <1>2, <1>4
    <3>2. Head(rxfifo) = Plain(arrived[i])
      BY <1>2, <1>5, <2>2, <3>5
    <3>3. CASE v = "sysrq"
      <4>1. taken[n] = "brk" /\ n # 0 /\ Head(rxfifo) = "byte"
        <5>1. taken # <<>> /\ taken[n] = "brk" /\ Head(rxfifo) = "byte"
          BY <3>3 DEF n
        <5> QED BY <1>1, <5>1, EmptySeq DEF n
      <4>2. arrived[i] = "byte"
        BY <3>2, <4>1 DEF Plain
      <4>3. i > 1 /\ i - 1 = n /\ n \in 1 .. n
        BY <1>14, <2>2, <4>1
      <4>4. taken'[i - 1] = "brk"
        BY <1>3, <4>1, <4>3
      <4> QED BY <3>1, <3>3, <4>2, <4>3, <4>4
    <3>4. CASE v # "sysrq"
      BY <3>1, <3>2, <3>4
    <3> QED BY <3>3, <3>4
  <2>3. i \in 1 .. n \/ i = n + 1
    BY <1>14
  <2> QED BY <2>1, <2>2, <2>3
<1>7. ASSUME NEW i \in DOMAIN rxfifo' PROVE rxfifo'[i] = Plain(arrived[n + 1 + i])
  <2>1. i \in 1 .. Len(rxfifo) - 1 /\ Len(rxfifo) \in Nat /\ n \in Nat
    BY <1>2, <1>4, <1>7, <1>14
  <2>2. i \in Nat /\ i + 1 \in 1 .. Len(rxfifo)
    BY ONLY <2>1
  <2>3. n + (i + 1) = n + 1 + i
    BY ONLY <2>1, <2>2
  <2>4. rxfifo[i + 1] = Plain(arrived[n + (i + 1)])
    BY <1>4, <1>5, <2>2
  <2>5. rxfifo'[i] = rxfifo[i + 1]
    BY <1>2, <2>1
  <2> QED BY <2>3, <2>4, <2>5
<1>8. Len(arrived) = Len(taken') + Len(rxfifo')
  BY <1>2, <1>3, <1>14, <1>5
<1>15. \A i \in DOMAIN taken' :
          IF taken'[i] = "sysrq"
          THEN arrived[i] = "byte" /\ i > 1 /\ taken'[i - 1] = "brk"
          ELSE Plain(taken'[i]) = Plain(arrived[i])
  BY <1>6
<1>16. Len(taken') = n + 1
  BY <1>3
<1>9. RxInOrder'
  <2>1. Cardinality(Breaks(taken)') <= Cardinality(Breaks(arrived)')
    BY DEF Breaks
  <2>2. \A i \in DOMAIN rxfifo' : rxfifo'[i] = Plain(arrived[Len(taken') + i])
    BY <1>7, <1>16
  <2>3. /\ Len(arrived') = Len(taken') + Len(rxfifo')
        /\ \A i \in DOMAIN taken' :
             IF taken'[i] = "sysrq"
             THEN arrived'[i] = "byte" /\ i > 1 /\ taken'[i - 1] = "brk"
             ELSE Plain(taken'[i]) = Plain(arrived'[i])
        /\ \A i \in DOMAIN rxfifo' : rxfifo'[i] = Plain(arrived'[Len(taken') + i])
    BY <1>8, <1>15, <2>2
  <2> QED BY <2>1, <2>3 DEF RxInOrder, Plain
<1> QED BY <1>2, <1>3, <1>9 DEF V

LEMMA RxTake ==
  ASSUME RxTypes, RxInv, RxBreak \/ RxChar \/ RxSysrq
  PROVE  (RxTypes /\ RxInv)'
<1>1. /\ isr = "byte" /\ rxLeft \in 1 .. Len(rxfifo) /\ rxLeft' = rxLeft - 1
      /\ rxfifo' = Tail(rxfifo) /\ arrived' = arrived
  BY DEF RxBreak, RxChar, RxSysrq, TakeByte, RxInv
<1>2. /\ rxfifo \in Seq({"nul", "byte"}) /\ brk \in BOOLEAN /\ sysrq \in BOOLEAN
      /\ taken \in Seq({"nul", "byte", "brk", "sysrq"})
      /\ arrived \in Seq({"nul", "byte", "brk"})
  BY DEF RxTypes
<1>3. rxfifo # <<>> /\ Len(rxfifo) \in Nat
  BY <1>1, <1>2, LenProperties
<1>4. Head(rxfifo) \in {"nul", "byte"}
  BY <1>2, <1>3
<1>5. /\ RxInOrder
      /\ Cardinality(Breaks(taken)) <= Cardinality(Breaks(arrived))
      /\ brk => Cardinality(Breaks(taken)) < Cardinality(Breaks(arrived))
      /\ sysrq => taken # <<>> /\ taken[Len(taken)] = "brk"
  BY <1>1 DEF RxInv, RxInOrder
<1>6. PICK v \in {"nul", "byte", "brk", "sysrq"} :
        /\ taken' = Append(taken, v)
        /\ IF v = "sysrq"
           THEN Head(rxfifo) = "byte" /\ sysrq
           ELSE Plain(v) = Head(rxfifo)
        /\ v = "brk" => brk /\ brk' = FALSE
        /\ v # "brk" => brk' = brk
        /\ IF v = "sysrq" THEN sysrq' = sysrq /\ isr' = "sysrq"
           ELSE NextByte /\ sysrq' \in BOOLEAN /\ (sysrq' => v = "brk")
  <2>1. CASE RxBreak
    <3>1. /\ taken' = Append(taken, "brk") /\ Head(rxfifo) = "nul" /\ brk /\ brk' = FALSE
          /\ NextByte /\ sysrq' \in BOOLEAN
      BY <1>2, <2>1 DEF RxBreak, TakeByte, IsBreak
    <3> QED BY <3>1 DEF Plain
  <2>2. CASE RxChar
    <3>1. /\ taken' = Append(taken, Head(rxfifo)) /\ brk' = brk /\ NextByte
          /\ sysrq' = FALSE
      BY <2>2 DEF RxChar, TakeByte
    <3>2. Plain(Head(rxfifo)) = Head(rxfifo)
      BY <1>4 DEF Plain
    <3> QED BY <1>4, <3>1, <3>2
  <2>3. CASE RxSysrq
    BY <1>4, <2>3 DEF RxSysrq, TakeByte
  <2> QED BY <2>1, <2>2, <2>3
<1>7. /\ Cardinality(Breaks(taken)) \in Nat /\ Cardinality(Breaks(arrived)) \in Nat
      /\ Cardinality(Breaks(taken')) = IF v = "brk" THEN Cardinality(Breaks(taken)) + 1
                                       ELSE Cardinality(Breaks(taken))
  BY <1>2, <1>6, BreaksAppend, BreaksFinite
<1>8. /\ Cardinality(Breaks(taken')) <= Cardinality(Breaks(arrived))
      /\ brk' => Cardinality(Breaks(taken')) < Cardinality(Breaks(arrived))
  <2>1. CASE v = "brk"
    <3>1. brk /\ brk' = FALSE /\ Cardinality(Breaks(taken')) = Cardinality(Breaks(taken)) + 1
      BY <1>6, <1>7, <2>1
    <3>2. Cardinality(Breaks(taken)) < Cardinality(Breaks(arrived))
      BY <1>5, <3>1, Zenon
    <3>4. Cardinality(Breaks(taken')) = Cardinality(Breaks(taken)) + 1
      BY <3>1
    <3>3. Cardinality(Breaks(taken')) <= Cardinality(Breaks(arrived))
      <4>1. Cardinality(Breaks(taken)) + 1 <= Cardinality(Breaks(arrived))
        BY <1>7, <3>2, OneMore
      <4> QED BY <3>4, <4>1, Zenon
    <3> QED BY <3>1, <3>3, Zenon
  <2>2. CASE v # "brk"
    <3>1. brk' = brk /\ Cardinality(Breaks(taken')) = Cardinality(Breaks(taken))
      BY <1>6, <1>7, <2>2
    <3> QED BY <1>5, <3>1
  <2> QED BY <2>1, <2>2
<1>9. /\ RxInOrder'
      /\ Len(rxfifo') = Len(rxfifo) - 1 /\ rxfifo' \in Seq({"nul", "byte"})
      /\ taken' \in Seq({"nul", "byte", "brk", "sysrq"})
      /\ taken' # <<>> /\ taken'[Len(taken')] = v
  BY <1>1, <1>3, <1>5, <1>6, <1>8, TakenInOrder
<1>10. rxLeft' \in Nat /\ (isr' = "byte" => rxLeft' \in 1 .. Len(rxfifo'))
       /\ rxLeft' <= Len(rxfifo')
  <2>1. isr' = "byte" => rxLeft # 1
    BY <1>6 DEF NextByte
  <2> QED BY <1>1, <1>3, <1>9, <2>1
<1>11. sysrq' /\ isr' # "sysrq" => taken'[Len(taken')] = "brk"
  <2>1. sysrq' /\ isr' # "sysrq" => v = "brk"
    BY ONLY <1>6
  <2>2. taken'[Len(taken')] = v
    BY <1>9
  <2> QED BY <2>1, <2>2, Zenon
<1>12. brk' \in BOOLEAN /\ sysrq' \in BOOLEAN
  <2>1. brk' \in BOOLEAN
    <3>1. CASE v = "brk"
      <4>1. brk' = FALSE
        BY <1>6, <3>1, Zenon
      <4> QED BY <4>1
    <3>2. CASE v # "brk"
      <4>1. brk' = brk
        BY <1>6, <3>2, Zenon
      <4> QED BY <1>2, <4>1
    <3> QED BY <3>1, <3>2
  <2>2. sysrq' = sysrq \/ sysrq' \in BOOLEAN
    BY <1>6, Zenon
  <2> QED BY <1>2, <2>1, <2>2
<1>13. RxTypes'
  BY <1>1, <1>2, <1>9, <1>10, <1>12 DEF RxTypes
<1> QED BY <1>1, <1>8, <1>9, <1>10, <1>11, <1>13 DEF RxInv, Breaks

LEMMA RxRead ==
  ASSUME RxTypes, RxInv, esp32_uart_rxint
  PROVE  (RxTypes /\ RxInv)'
<1>1. /\ rxLeft \in Nat /\ sysrq \in BOOLEAN /\ brk \in BOOLEAN
      /\ rxfifo \in Seq({"nul", "byte"})
  BY DEF RxTypes
<1>2. CASE RxCount
  <2>1. /\ UNCHANGED <<rxfifo, arrived, taken>> /\ brk' = brk /\ sysrq' = sysrq
        /\ isr = "rx"
    BY <1>2 DEF RxCount, recv
  <2>2. CASE isr' = "byte" /\ rxLeft' = Len(rxfifo) /\ rxfifo # <<>>
    <3>1. Len(rxfifo) \in Nat \ {0}
      BY <1>1, <2>2, EmptySeq, LenProperties
    <3>2. rxLeft' \in Nat /\ rxLeft' \in 1 .. Len(rxfifo) /\ isr' # "sysrq"
      BY <2>2, <3>1
    <3> QED BY <1>1, <2>1, <3>2, RxQuiet
  <2>3. CASE isr' = "tx" /\ rxLeft' = rxLeft
    <3>1. rxLeft' \in Nat /\ isr' # "byte" /\ isr' # "sysrq" /\ isr # "sysrq"
      BY <1>1, <2>1, <2>3
    <3> QED BY <1>1, <2>1, <3>1, RxQuiet
  <2> QED BY <1>2, <2>2, <2>3 DEF RxCount
<1>3. CASE SysrqDone
  <2>1. /\ UNCHANGED <<rxfifo, arrived, taken>> /\ brk' = brk /\ sysrq' = FALSE
        /\ rxLeft' = rxLeft /\ rxLeft <= Len(rxfifo)
        /\ isr' = IF rxLeft = 0 THEN "tx" ELSE "byte"
    BY <1>3 DEF SysrqDone, RxInv
  <2>2. isr' = "byte" => rxLeft' \in 1 .. Len(rxfifo)
    BY <1>1, <2>1, LenProperties
  <2> QED BY <1>1, <2>1, <2>2, RxQuiet
<1>4. CASE RxBreak \/ RxChar \/ RxSysrq
  BY <1>4, RxTake
<1> QED BY <1>2, <1>3, <1>4 DEF esp32_uart_rxint

LEMMA RxReceive ==
  ASSUME RxTypes, RxInv, NEW v \in {"nul", "byte", "brk"}, ReceiveByte(v)
  PROVE  (RxTypes /\ RxInv)'
<1> DEFINE V == {"nul", "byte", "brk"}
           w == Plain(v)
           n == Len(taken)
<1>1. /\ taken \in Seq({"nul", "byte", "brk", "sysrq"}) /\ arrived \in Seq(V)
      /\ rxfifo \in Seq({"nul", "byte"})
      /\ brk \in BOOLEAN /\ sysrq \in BOOLEAN /\ rxLeft \in Nat
  BY DEF RxTypes
<1>2. /\ w \in {"nul", "byte"} /\ arrived' = Append(arrived, v) /\ rxfifo' = Append(rxfifo, w)
      /\ brk' = (brk \/ v = "brk") /\ taken' = taken /\ sysrq' = sysrq
      /\ isr' = isr /\ rxLeft' = rxLeft
  BY DEF ReceiveByte, Plain, irq
<1>3. Plain(v) = w
  OBVIOUS
<1> HIDE DEF w, V, n
<1>4. /\ arrived' \in Seq(V) /\ Len(arrived') = Len(arrived) + 1
      /\ (\A i \in 1 .. Len(arrived) : arrived'[i] = arrived[i]) /\ arrived'[Len(arrived) + 1] = v
      /\ rxfifo' \in Seq({"nul", "byte"}) /\ Len(rxfifo') = Len(rxfifo) + 1
      /\ (\A i \in 1 .. Len(rxfifo) : rxfifo'[i] = rxfifo[i]) /\ rxfifo'[Len(rxfifo) + 1] = w
  <2>1. v \in V
    BY DEF V
  <2> QED BY <1>1, <1>2, <2>1, AppendProperties
<1>5. /\ n \in Nat /\ Len(arrived) \in Nat /\ Len(rxfifo) \in Nat
      /\ DOMAIN taken = 1 .. n /\ DOMAIN rxfifo = 1 .. Len(rxfifo)
      /\ DOMAIN rxfifo' = 1 .. Len(rxfifo) + 1
  BY <1>1, <1>4, LenProperties DEF n
<1>6. /\ Len(arrived) = n + Len(rxfifo)
      /\ \A i \in DOMAIN taken :
           IF taken[i] = "sysrq"
           THEN arrived[i] = "byte" /\ i > 1 /\ taken[i - 1] = "brk"
           ELSE Plain(taken[i]) = Plain(arrived[i])
      /\ \A i \in DOMAIN rxfifo : rxfifo[i] = Plain(arrived[n + i])
  BY DEF RxInv, RxInOrder, n
<1>7. \A i \in DOMAIN taken : arrived'[i] = arrived[i]
  BY <1>4, <1>5, <1>6
<1>8. ASSUME NEW i \in DOMAIN rxfifo' PROVE rxfifo'[i] = Plain(arrived'[n + i])
  <2>1. CASE i = Len(rxfifo) + 1
    BY <1>3, <1>4, <1>5, <1>6, <2>1
  <2>2. CASE i # Len(rxfifo) + 1
    <3>1. i \in 1 .. Len(rxfifo) /\ n + i \in 1 .. Len(arrived)
      BY <1>5, <1>6, <2>2
    <3> QED BY <1>4, <1>5, <1>6, <3>1
  <2> QED BY <2>1, <2>2
<1>9. /\ Cardinality(Breaks(taken)) \in Nat /\ Cardinality(Breaks(arrived)) \in Nat
      /\ Cardinality(Breaks(arrived')) = IF v = "brk" THEN Cardinality(Breaks(arrived)) + 1
                                         ELSE Cardinality(Breaks(arrived))
  <2>1. v \in V
    BY DEF V
  <2> QED BY <1>1, <1>2, <2>1, BreaksFinite, BreaksAppend
<1>10. /\ Cardinality(Breaks(taken)) <= Cardinality(Breaks(arrived))
       /\ brk => Cardinality(Breaks(taken)) < Cardinality(Breaks(arrived))
  BY DEF RxInv, RxInOrder
<1>11. /\ Cardinality(Breaks(taken)) <= Cardinality(Breaks(arrived'))
       /\ brk' => Cardinality(Breaks(taken)) < Cardinality(Breaks(arrived'))
  BY <1>1, <1>2, <1>9, <1>10
<1>12. RxTypes'
  BY <1>1, <1>2, <1>4 DEF RxTypes, V
<1>13. Len(arrived') = n + Len(rxfifo')
  BY <1>4, <1>5, <1>6
<1>14. RxInOrder'
  BY <1>2, <1>6, <1>7, <1>8, <1>11, <1>13 DEF RxInOrder, Breaks, Plain, n
<1>15. /\ isr = "byte" => rxLeft \in 1 .. Len(rxfifo)
       /\ isr = "sysrq" => rxLeft <= Len(rxfifo)
       /\ sysrq /\ isr # "sysrq" => taken # <<>> /\ taken[Len(taken)] = "brk"
  BY DEF RxInv
<1>16. /\ isr' = "byte" => rxLeft' \in 1 .. Len(rxfifo')
       /\ isr' = "sysrq" => rxLeft' <= Len(rxfifo')
  BY <1>1, <1>2, <1>4, <1>5, <1>15
<1> QED BY <1>2, <1>11, <1>12, <1>14, <1>15, <1>16 DEF RxInv, Breaks

-----------------------------------------------------------------------------
(* The steps of the port.                                                  *)
UartInv == UartTypes /\ TxInv /\ RxInv

LEMMA UartInitially ==
  ASSUME UartInit
  PROVE  UartInv
<1> DEFINE none == <<>>
<1>1. /\ wire = none /\ txfifo = none /\ xmit = none /\ taken = none /\ arrived = none
      /\ rxfifo = none /\ xchar = FALSE /\ written = 0 /\ lost = {} /\ brk = FALSE
      /\ sysrq = FALSE /\ rxLeft = 0 /\ isr = "none" /\ messages = 0 /\ stopped = FALSE
  BY DEF UartInit
<1>2. /\ Len(none) = 0 /\ DOMAIN none = {} /\ none \in Seq(Chars)
      /\ none \in Seq({"nul", "byte"}) /\ none \in Seq({"nul", "byte", "brk"})
      /\ none \in Seq({"nul", "byte", "brk", "sysrq"})
  OBVIOUS
<1>3. none \o none \o none = none
  OBVIOUS
<1> HIDE DEF none
<1>4. UartTypes
  BY <1>1, <1>2 DEF UartTypes, TxTypes, RxTypes
<1>5. TxInv
  <2>1. TtyAt(none) = {}
    BY <1>2 DEF TtyAt
  <2>2. Ordered(none) /\ TtyBytes(none) = {}
    BY <2>1 DEF Ordered, TtyBytes
  <2>3. {<<"tty", i>> : i \in 1 .. written} \ lost = {}
    BY <1>1
  <2> QED BY <1>1, <1>2, <1>3, <2>2, <2>3, UartAssumption DEF TxInv, TxInOrder
<1>6. RxInv
  <2>1. Breaks(taken) = {} /\ Breaks(arrived) = {}
    BY <1>1, <1>2 DEF Breaks
  <2> QED BY <1>1, <1>2, <2>1, FS_EmptySet DEF RxInv, RxInOrder
<1> QED BY <1>4, <1>5, <1>6 DEF UartInv

LEMMA RestTypes ==
  ASSUME UartTypes, UartNext
  PROVE  messages' \in Nat /\ stopped' \in BOOLEAN
<1>0. messages \in Nat /\ stopped \in BOOLEAN
  BY DEF UartTypes
<1>1. CASE ConsoleWrite
  BY <1>0, <1>1 DEF ConsoleWrite, output
<1>2. CASE StopOutput \/ StartOutput \/ esp32_uart_shutdown
  BY <1>0, <1>2 DEF StopOutput, StartOutput, esp32_uart_shutdown, console
<1>3. CASE (\E n \in 1 .. MaxBytes : WriteBytes(n)) \/ SendXchar \/ esp32_uart_put_char_sync
  BY <1>0, <1>3 DEF WriteBytes, SendXchar, esp32_uart_put_char_sync, output, console
<1>4. CASE Handler
  BY <1>0, <1>4 DEF Handler, IntEnter, esp32_uart_rxint, RxCount, RxBreak, RxChar, RxSysrq,
     SysrqDone, TakeByte, IntTx, IntClear, output, console
<1>5. CASE SendByte \/ \E v \in {"nul", "byte", "brk"} : ReceiveByte(v)
  BY <1>0, <1>5 DEF SendByte, ReceiveByte, output, console
<1>6. CASE esp32_uart_startup \/ esp32_uart_stop_rx
  BY <1>0, <1>6 DEF esp32_uart_startup, esp32_uart_stop_rx, output, console
<1>7. CASE \/ \E b \in Bauds : esp32_uart_set_termios(b)
           \/ esp32_uart_console_setup \/ esp32_uart_console_exit
  BY <1>0, <1>7 DEF esp32_uart_set_termios, esp32_uart_console_setup, esp32_uart_console_exit,
     output, console
<1> QED BY <1>1, <1>2, <1>3, <1>4, <1>5, <1>6, <1>7 DEF UartNext, Operations

LEMMA TxStep ==
  ASSUME UartTypes, TxInv, UartNext
  PROVE  (TxTypes /\ TxInv)'
<1>1. TxTypes /\ xchar \in BOOLEAN /\ stopped \in BOOLEAN
  BY DEF UartTypes, TxTypes
<1>2. ASSUME NEW n \in 1 .. MaxBytes, WriteBytes(n) PROVE (TxTypes /\ TxInv)'
  BY <1>2, TxWrite
<1>3. CASE StartOutput
  BY <1>1, <1>3, TxTransmit DEF StartOutput
<1>4. CASE SendXchar
  BY <1>1, <1>4, TxTransmit DEF SendXchar, output
<1>5. CASE esp32_uart_put_char_sync
  BY <1>5, TxPut
<1>6. CASE IntTx
  <2>1. CASE esp32_uart_transmit_buffer(xchar, xmit, stopped)
    BY <1>1, <1>6, <2>1, TxTransmit DEF IntTx, output
  <2>2. CASE UNCHANGED <<tx, intEna>>
    BY <1>1, <1>6, <2>2, TxQuiet DEF IntTx, output, tx, txVars
  <2> QED BY <1>6, <2>1, <2>2 DEF IntTx
<1>7. CASE SendByte
  BY <1>7, TxSend
<1>8. CASE esp32_uart_shutdown
  BY <1>8, TxShutdown
<1>9. CASE \/ StopOutput \/ ConsoleWrite \/ esp32_uart_startup \/ esp32_uart_stop_rx
           \/ (\E b \in Bauds : esp32_uart_set_termios(b))
           \/ esp32_uart_console_setup \/ esp32_uart_console_exit
           \/ IntEnter \/ esp32_uart_rxint \/ IntClear
           \/ (\E v \in {"nul", "byte", "brk"} : ReceiveByte(v))
  <2>1. CASE \/ StopOutput \/ ConsoleWrite \/ esp32_uart_startup \/ esp32_uart_stop_rx
             \/ (\E b \in Bauds : esp32_uart_set_termios(b))
             \/ esp32_uart_console_setup \/ esp32_uart_console_exit
    <3>1. UNCHANGED txVars
      BY <2>1 DEF StopOutput, ConsoleWrite, esp32_uart_startup, esp32_uart_stop_rx,
         esp32_uart_set_termios, esp32_uart_console_setup, esp32_uart_console_exit,
         output, tx, txVars
    <3> QED BY <1>1, <3>1, TxQuiet
  <2>2. CASE esp32_uart_rxint
    <3>1. UNCHANGED txVars
      BY <2>2 DEF esp32_uart_rxint, RxCount, RxBreak, RxChar, RxSysrq, SysrqDone, TakeByte,
         output, tx, txVars
    <3> QED BY <1>1, <3>1, TxQuiet
  <2>3. CASE \/ IntEnter \/ IntClear
             \/ (\E v \in {"nul", "byte", "brk"} : ReceiveByte(v))
    <3>1. UNCHANGED txVars
      BY <2>3 DEF IntEnter, IntClear, ReceiveByte, output, tx, txVars
    <3> QED BY <1>1, <3>1, TxQuiet
  <2> QED BY <1>9, <2>1, <2>2, <2>3
<1> QED BY <1>2, <1>3, <1>4, <1>5, <1>6, <1>7, <1>8, <1>9 DEF UartNext, Operations, Handler

LEMMA RxStep ==
  ASSUME RxTypes, RxInv, UartNext
  PROVE  (RxTypes /\ RxInv)'
<1>1. CASE esp32_uart_rxint
  BY <1>1, RxRead
<1>2. ASSUME NEW v \in {"nul", "byte", "brk"}, ReceiveByte(v) PROVE (RxTypes /\ RxInv)'
  BY <1>2, RxReceive
<1>0. brk \in BOOLEAN /\ sysrq \in BOOLEAN /\ rxLeft \in Nat
  BY DEF RxTypes
<1>3. ASSUME UNCHANGED <<rxfifo, arrived, taken>>, UNCHANGED irq, sysrq' = sysrq,
             brk' \in BOOLEAN, brk' => brk
      PROVE  (RxTypes /\ RxInv)'
  <2>1. isr' = isr /\ rxLeft' = rxLeft /\ sysrq' \in BOOLEAN /\ rxLeft' \in Nat
    BY <1>0, <1>3 DEF irq
  <2>2. /\ isr = "byte" => rxLeft \in 1 .. Len(rxfifo)
        /\ isr = "sysrq" => rxLeft <= Len(rxfifo)
    BY DEF RxInv
  <2> QED BY <1>3, <2>1, <2>2, RxQuiet
<1>4. CASE \/ (\E n \in 1 .. MaxBytes : WriteBytes(n)) \/ StopOutput \/ StartOutput
           \/ SendXchar \/ ConsoleWrite
  <2>1. UNCHANGED recv /\ UNCHANGED irq
    BY <1>4 DEF WriteBytes, StopOutput, StartOutput, SendXchar, ConsoleWrite
  <2> QED BY <1>0, <1>3, <2>1 DEF recv
<1>5. CASE esp32_uart_shutdown \/ esp32_uart_stop_rx \/ esp32_uart_put_char_sync \/ SendByte
  <2>1. UNCHANGED recv /\ UNCHANGED irq
    BY <1>5 DEF esp32_uart_shutdown, esp32_uart_stop_rx, esp32_uart_put_char_sync, SendByte
  <2> QED BY <1>0, <1>3, <2>1 DEF recv
<1>6. CASE esp32_uart_startup
  <2>1. /\ UNCHANGED <<rxfifo, arrived, taken>> /\ UNCHANGED irq /\ sysrq' = sysrq
        /\ brk' = FALSE
    BY <1>6 DEF esp32_uart_startup
  <2> QED BY <1>3, <2>1
<1>7. CASE \/ \E b \in Bauds : esp32_uart_set_termios(b)
           \/ esp32_uart_console_setup \/ esp32_uart_console_exit
  <2>1. UNCHANGED recv /\ UNCHANGED irq
    BY <1>7 DEF esp32_uart_set_termios, esp32_uart_console_setup,
     esp32_uart_console_exit
  <2> QED BY <1>0, <1>3, <2>1 DEF recv
<1>8. CASE IntEnter \/ IntTx \/ IntClear
  <2>1. /\ UNCHANGED <<rxfifo, arrived, taken>> /\ sysrq' = sysrq /\ rxLeft' = rxLeft
        /\ isr # "sysrq" /\ isr' \notin {"byte", "sysrq"}
    <3>1. CASE IntEnter
      BY <3>1 DEF IntEnter, recv, Idle
    <3>2. CASE IntTx
      BY <3>2 DEF IntTx, recv
    <3>3. CASE IntClear
      BY <3>3 DEF IntClear
    <3> QED BY <1>8, <3>1, <3>2, <3>3
  <2>2. brk' \in BOOLEAN /\ (brk' => brk)
    <3>1. CASE IntEnter \/ IntTx
      BY <1>0, <3>1 DEF IntEnter, IntTx, recv
    <3>2. CASE IntClear
      <4>1. brk' = (brk /\ "BRK" \notin intSt)
        BY <3>2 DEF IntClear
      <4> QED BY <4>1, Zenon
    <3> QED BY <1>8, <3>1, <3>2
  <2>3. /\ rxLeft' \in Nat /\ sysrq' \in BOOLEAN /\ isr' # "byte" /\ isr' # "sysrq"
    BY <1>0, <2>1
  <2> QED BY <2>1, <2>2, <2>3, RxQuiet
<1> QED BY <1>1, <1>2, <1>4, <1>5, <1>6, <1>7, <1>8 DEF UartNext, Operations, Handler

(* Whatever the order of writes, console messages, stops, closes, received *)
(* bytes and interrupts, and for any size of the two FIFOs, the bytes of   *)
(* the tty go out once each and in order except those a close drops, and a *)
(* received byte is taken once and in order: by the tty, as a break, or,   *)
(* directly behind a break, by sysrq (esp32_uart_transmit_buffer,          *)
(* esp32_uart_rxint).                                                      *)
THEOREM BytesCorrect == UartInit /\ [][UartNext]_uartVars => []BytesInOrder
<1>1. UartInit => UartInv
  BY UartInitially
<1>2. UartInv /\ [UartNext]_uartVars => UartInv'
  <2>1. CASE UartInv /\ UartNext
    BY <2>1, RestTypes, TxStep, RxStep DEF UartInv, UartTypes
  <2>2. CASE UartInv /\ UNCHANGED uartVars
    <3>1. /\ UNCHANGED txVars /\ UNCHANGED <<rxfifo, arrived, taken>> /\ brk' = brk
          /\ sysrq' = sysrq /\ isr' = isr /\ rxLeft' = rxLeft
          /\ messages' = messages /\ stopped' = stopped
      BY <2>2 DEF uartVars, tx, output, recv, irq, console, txVars
    <3>2. /\ TxTypes /\ TxInv /\ RxTypes /\ RxInv /\ brk \in BOOLEAN /\ sysrq \in BOOLEAN
          /\ rxLeft \in Nat
          /\ isr = "byte" => rxLeft \in 1 .. Len(rxfifo)
          /\ isr = "sysrq" => rxLeft <= Len(rxfifo)
      BY <2>2 DEF UartInv, UartTypes, RxTypes, RxInv
    <3>3. (TxTypes /\ TxInv)'
      BY <3>1, <3>2, TxQuiet
    <3>4. (RxTypes /\ RxInv)'
      BY <3>1, <3>2, RxQuiet
    <3> QED BY <2>2, <3>1, <3>3, <3>4 DEF UartInv, UartTypes
  <2> QED BY <2>1, <2>2
<1>3. UartInv => BytesInOrder
  BY DEF UartInv, TxInv, RxInv, BytesInOrder
<1> QED BY <1>1, <1>2, <1>3, PTL

-----------------------------------------------------------------------------
(* The I2C driver.  A list of commands is judged by what it will put on    *)
(* the bus (Plan) and its rx entries by where the bytes go (RxPlan); the   *)
(* invariant I2cInv, near the end, says both of the list that runs.        *)

(* Induction, from the pigeonhole principle: the successor would map a set *)
(* that misses n into itself without 0, which is smaller.                  *)
LEMMA SetInduction ==
  ASSUME NEW n \in Nat, NEW A, A \subseteq 0 .. n, 0 \in A,
         \A i \in A : i < n => i + 1 \in A
  PROVE  n \in A
<1> SUFFICES ASSUME n \notin A PROVE FALSE
  OBVIOUS
<1>1. IsFiniteSet(A)
  <2>1. IsFiniteSet(0 .. n)
    BY FS_Interval
  <2> QED
    BY <2>1, FS_Subset
<1> DEFINE B == A \ {0}
<1>2. IsFiniteSet(B) /\ Cardinality(B) = Cardinality(A) - 1
  BY <1>1, FS_RemoveElement
<1>3. Cardinality(A) \in Nat /\ Cardinality(B) \in Nat
  BY <1>1, <1>2, FS_CardinalityType
<1>4. Cardinality(B) < Cardinality(A)
  BY <1>2, <1>3
<1> DEFINE f == [i \in A |-> i + 1]
<1>5. f \in [A -> B]
  <2> SUFFICES ASSUME NEW i \in A PROVE i + 1 \in B
    OBVIOUS
  <2>1. i \in 0 .. n /\ i # n
    OBVIOUS
  <2> QED
    BY <2>1
<1> HIDE DEF B
<1>6. PICK x \in A, y \in A : x # y /\ f[x] = f[y]
  <2> HIDE DEF f
  <2> QED
    BY <1>1, <1>2, <1>4, <1>5, FS_PigeonHole
<1>7. x \in Nat /\ y \in Nat
  OBVIOUS
<1> QED
  BY <1>6, <1>7

(* Two sequences, one after the other.                                     *)
LEMMA Concat ==
  ASSUME NEW S, NEW s \in Seq(S), NEW t \in Seq(S)
  PROVE  /\ s \o t \in Seq(S) /\ Len(s \o t) = Len(s) + Len(t)
         /\ DOMAIN (s \o t) = 1 .. Len(s) + Len(t)
         /\ \A i \in 1 .. Len(s) : (s \o t)[i] = s[i]
         /\ \A i \in 1 .. Len(t) : (s \o t)[Len(s) + i] = t[i]
<1> DEFINE st == s \o t
<1>1. /\ st \in Seq(S) /\ Len(st) = Len(s) + Len(t)
      /\ \A i \in 1 .. Len(s) + Len(t) : st[i] = IF i <= Len(s) THEN s[i] ELSE t[i - Len(s)]
  BY ConcatProperties
<1>2. Len(s) \in Nat /\ Len(t) \in Nat
  OBVIOUS
<1> HIDE DEF st
<1>3. DOMAIN st = 1 .. Len(s) + Len(t)
  BY <1>1
<1>4. \A i \in 1 .. Len(t) : st[Len(s) + i] = t[i]
  BY <1>1, <1>2
<1> QED
  BY <1>1, <1>2, <1>3, <1>4 DEF st

-----------------------------------------------------------------------------
(* The messages and the traffic for them.                                  *)

I2cMsg == [rd : BOOLEAN, len : Nat, ten : BOOLEAN]
Item == {<<"S">>, <<"P">>} \cup ({"A"} \X Nat) \cup ({"W"} \X Nat \X Nat)
        \cup ({"R"} \X Nat \X BOOLEAN)

IsReads(ms, r, n) ==
  r = [i \in 0 .. n |-> IF i = 0 THEN 0
                        ELSE r[i - 1] + (IF ms[i].rd THEN ms[i].len ELSE 0)]

LEMMA ReadsExist == ASSUME NEW ms, Len(ms) \in Nat PROVE IsReads(ms, ReadsTo(ms), Len(ms))
<1> DEFINE A == {n \in 0 .. Len(ms) : \E r : IsReads(ms, r, n)}
<1>1. 0 \in A
  <2>1. IsReads(ms, [i \in 0 .. 0 |-> 0], 0)
    BY DEF IsReads
  <2> QED BY <2>1
<1>2. \A n \in A : n < Len(ms) => n + 1 \in A
  <2> SUFFICES ASSUME NEW n \in A, n < Len(ms) PROVE \E r : IsReads(ms, r, n + 1)
    OBVIOUS
  <2>1. PICK r : IsReads(ms, r, n)
    OBVIOUS
  <2> DEFINE v == r[n] + (IF ms[n + 1].rd THEN ms[n + 1].len ELSE 0)
             q == [i \in 0 .. n + 1 |-> IF i = n + 1 THEN v ELSE r[i]]
  <2>2. IsReads(ms, q, n + 1)
    BY <2>1 DEF IsReads
  <2> QED BY <2>2
<1>3. Len(ms) \in A
  <2>1. A \subseteq 0 .. Len(ms)
    OBVIOUS
  <2> HIDE DEF A
  <2> QED BY <1>1, <1>2, <2>1, SetInduction
<1> QED
  BY <1>3 DEF IsReads, ReadsTo

LEMMA ReadsAre ==
  ASSUME NEW ms \in Seq(I2cMsg)
  PROVE  /\ ReadsTo(ms) \in [0 .. Len(ms) -> Nat] /\ ReadsTo(ms)[0] = 0
         /\ \A i \in 1 .. Len(ms) :
              ReadsTo(ms)[i] = ReadsTo(ms)[i - 1] + (IF ms[i].rd THEN ms[i].len ELSE 0)
<1> DEFINE r == ReadsTo(ms)
<1>1. IsReads(ms, r, Len(ms)) /\ Len(ms) \in Nat
  BY ReadsExist
<1> HIDE DEF r
<1>2. /\ DOMAIN r = 0 .. Len(ms) /\ r[0] = 0
      /\ r = [i \in 0 .. Len(ms) |-> r[i]]
      /\ \A i \in 1 .. Len(ms) : r[i] = r[i - 1] + (IF ms[i].rd THEN ms[i].len ELSE 0)
  BY <1>1 DEF IsReads
<1> DEFINE A == {n \in 0 .. Len(ms) : \A i \in 0 .. n : r[i] \in Nat}
<1>3. ASSUME NEW m \in 0 .. Len(ms) PROVE r[m] \in Nat
  <2>1. 0 \in A /\ A \subseteq 0 .. Len(ms)
    BY <1>1, <1>2
  <2>2. \A n \in A : n < Len(ms) => n + 1 \in A
    <3> SUFFICES ASSUME NEW n \in A, n < Len(ms) PROVE \A i \in 0 .. n + 1 : r[i] \in Nat
      OBVIOUS
    <3>1. n \in Nat /\ n + 1 \in 1 .. Len(ms) /\ r[n] \in Nat
      BY <1>1
    <3>2. ms[n + 1].len \in Nat
      <4>1. ms[n + 1] \in I2cMsg
        BY <3>1
      <4> QED BY <4>1 DEF I2cMsg
    <3>3. r[n + 1] \in Nat
      BY <1>2, <3>1, <3>2
    <3> QED BY <3>1, <3>3
  <2>3. Len(ms) \in A
    <3> HIDE DEF A
    <3> QED BY <1>1, <2>1, <2>2, SetInduction
  <2> QED BY <2>3
<1> QED
  BY <1>1, <1>2, <1>3 DEF r

With(t, ms, i) == t \o Segment(ms, i)
IsTraffic(ms, t, n) ==
  t = [i \in 0 .. n |-> IF i = 0 THEN <<>> ELSE With(t[i - 1], ms, i)]

LEMMA TrafficExists == ASSUME NEW ms, Len(ms) \in Nat PROVE IsTraffic(ms, TrafficTo(ms), Len(ms))
<1> DEFINE A == {n \in 0 .. Len(ms) : \E t : IsTraffic(ms, t, n)}
<1>1. 0 \in A
  <2>1. IsTraffic(ms, [i \in 0 .. 0 |-> <<>>], 0)
    BY DEF IsTraffic
  <2> QED BY <2>1
<1>2. \A n \in A : n < Len(ms) => n + 1 \in A
  <2> SUFFICES ASSUME NEW n \in A, n < Len(ms) PROVE \E t : IsTraffic(ms, t, n + 1)
    OBVIOUS
  <2>1. PICK t : IsTraffic(ms, t, n)
    OBVIOUS
  <2> DEFINE v == With(t[n], ms, n + 1)
             q == [i \in 0 .. n + 1 |-> IF i = n + 1 THEN v ELSE t[i]]
  <2>2. IsTraffic(ms, q, n + 1)
    BY <2>1 DEF IsTraffic
  <2> QED BY <2>2
<1>3. Len(ms) \in A
  <2>1. A \subseteq 0 .. Len(ms)
    OBVIOUS
  <2> HIDE DEF A
  <2> QED BY <1>1, <1>2, <2>1, SetInduction
<1> QED
  BY <1>3 DEF IsTraffic, TrafficTo, With

(* Byte j of message i on the bus.                                         *)
DataItem(ms, i, j) == IF ms[i].rd THEN <<"R", ReadsTo(ms)[i - 1] + j, j < ms[i].len>>
                      ELSE <<"W", i, j>>

LEMMA SegmentIs ==
  ASSUME NEW ms \in Seq(I2cMsg), NEW i \in 1 .. Len(ms)
  PROVE  /\ Segment(ms, i) \in Seq(Item) /\ Len(Segment(ms, i)) = 2 + ms[i].len
         /\ Segment(ms, i)[1] = <<"S">> /\ Segment(ms, i)[2] = <<"A", i>>
         /\ \A j \in 1 .. ms[i].len : Segment(ms, i)[2 + j] = DataItem(ms, i, j)
<1> DEFINE h == << <<"S">>, <<"A", i>> >>
           d == [j \in 1 .. ms[i].len |-> DataItem(ms, i, j)]
<1>1. ms[i].len \in Nat /\ ms[i].rd \in BOOLEAN /\ ReadsTo(ms)[i - 1] \in Nat
  <2>1. ms[i] \in I2cMsg
    OBVIOUS
  <2>2. i - 1 \in 0 .. Len(ms) /\ ReadsTo(ms) \in [0 .. Len(ms) -> Nat]
    BY ReadsAre
  <2> QED BY <2>1, <2>2 DEF I2cMsg
<1>2. h \in Seq(Item) /\ Len(h) = 2 /\ h[1] = <<"S">> /\ h[2] = <<"A", i>>
  BY DEF Item
<1>3. \A j \in 1 .. ms[i].len : DataItem(ms, i, j) \in Item
  <2> SUFFICES ASSUME NEW j \in 1 .. ms[i].len PROVE DataItem(ms, i, j) \in Item
    OBVIOUS
  <2>1. j \in Nat /\ i \in Nat
    BY <1>1
  <2>2. CASE ms[i].rd
    <3>1. /\ ReadsTo(ms)[i - 1] + j \in Nat /\ (j < ms[i].len) \in BOOLEAN
      BY <1>1, <2>1
    <3> QED BY <2>2, <3>1 DEF DataItem, Item
  <2>3. CASE ~ms[i].rd
    BY <2>1, <2>3 DEF DataItem, Item
  <2> QED BY <2>2, <2>3
<1>4. d \in Seq(Item) /\ Len(d) = ms[i].len /\ \A j \in 1 .. ms[i].len : d[j] = DataItem(ms, i, j)
  BY <1>1, <1>3
<1>5. Segment(ms, i) = h \o d
  BY DEF Segment, DataItem
<1> HIDE DEF h, d
<1>6. /\ h \o d \in Seq(Item) /\ Len(h \o d) = Len(h) + Len(d)
      /\ \A j \in 1 .. Len(h) : (h \o d)[j] = h[j]
      /\ \A j \in 1 .. Len(d) : (h \o d)[Len(h) + j] = d[j]
  <2>1. h \in Seq(Item) /\ d \in Seq(Item)
    BY <1>2, <1>4
  <2> QED BY <2>1, Concat
<1>7. /\ Segment(ms, i)[1] = h[1] /\ Segment(ms, i)[2] = h[2]
      /\ \A j \in 1 .. Len(d) : Segment(ms, i)[2 + j] = d[j]
  BY <1>2, <1>5, <1>6
<1> QED
  BY <1>2, <1>4, <1>5, <1>6, <1>7

LEMMA TrafficAre ==
  ASSUME NEW ms \in Seq(I2cMsg)
  PROVE  /\ TrafficTo(ms) \in [0 .. Len(ms) -> Seq(Item)] /\ TrafficTo(ms)[0] = <<>>
         /\ \A i \in 1 .. Len(ms) : TrafficTo(ms)[i] = TrafficTo(ms)[i - 1] \o Segment(ms, i)
<1> DEFINE t == TrafficTo(ms)
<1>1. IsTraffic(ms, t, Len(ms)) /\ Len(ms) \in Nat
  BY TrafficExists
<1> HIDE DEF t
<1>2. /\ DOMAIN t = 0 .. Len(ms) /\ t[0] = <<>>
      /\ t = [i \in 0 .. Len(ms) |-> t[i]]
  BY <1>1 DEF IsTraffic
<1>a. \A i \in 1 .. Len(ms) : t[i] = With(t[i - 1], ms, i)
  BY <1>1 DEF IsTraffic
<1>b. t[0] \in Seq(Item)
  BY <1>2
<1> DEFINE A == {n \in 0 .. Len(ms) : \A i \in 0 .. n : t[i] \in Seq(Item)}
<1>3. ASSUME NEW m \in 0 .. Len(ms) PROVE t[m] \in Seq(Item)
  <2>1. 0 \in A /\ A \subseteq 0 .. Len(ms)
    BY <1>1, <1>b
  <2>2. \A n \in A : n < Len(ms) => n + 1 \in A
    <3> SUFFICES ASSUME NEW n \in A, n < Len(ms) PROVE \A i \in 0 .. n + 1 : t[i] \in Seq(Item)
      OBVIOUS
    <3>1. n \in Nat /\ n + 1 \in 1 .. Len(ms) /\ t[n] \in Seq(Item)
      BY <1>1
    <3>2. Segment(ms, n + 1) \in Seq(Item)
      BY <3>1, SegmentIs
    <3>3. t[n + 1] = t[n] \o Segment(ms, n + 1)
      <4>1. t[n + 1] = With(t[n], ms, n + 1)
        BY <1>a, <3>1
      <4> QED BY <4>1 DEF With
    <3>4. t[n + 1] \in Seq(Item)
      BY <3>1, <3>2, <3>3
    <3> QED BY <3>1, <3>4
  <2>3. Len(ms) \in A
    <3> HIDE DEF A
    <3> QED BY <1>1, <2>1, <2>2, SetInduction
  <2> QED BY <2>3
<1> QED
  BY <1>1, <1>2, <1>a, <1>3 DEF t, With

LEMMA TrafficGrows ==
  ASSUME NEW ms \in Seq(I2cMsg), NEW m \in 0 .. Len(ms)
  PROVE  /\ Len(TrafficTo(ms)[m]) <= Len(TrafficTo(ms)[Len(ms)])
         /\ \A x \in 1 .. Len(TrafficTo(ms)[m]) :
              TrafficTo(ms)[Len(ms)][x] = TrafficTo(ms)[m][x]
<1> DEFINE t == TrafficTo(ms)
           Grown(i) == /\ Len(t[i]) <= Len(t[Len(ms)])
                       /\ \A x \in 1 .. Len(t[i]) : t[Len(ms)][x] = t[i][x]
           A == {d \in 0 .. Len(ms) - m : Grown(Len(ms) - d)}
<1>1. /\ t \in [0 .. Len(ms) -> Seq(Item)] /\ Len(ms) \in Nat /\ Len(ms) - m \in Nat
      /\ \A i \in 1 .. Len(ms) : t[i] = t[i - 1] \o Segment(ms, i)
  BY TrafficAre
<1> HIDE DEF t
<1>2. 0 \in A /\ A \subseteq 0 .. Len(ms) - m
  BY <1>1
<1>3. \A d \in A : d < Len(ms) - m => d + 1 \in A
  <2> SUFFICES ASSUME NEW d \in A, d < Len(ms) - m PROVE Grown(Len(ms) - (d + 1))
    BY <1>1
  <2> DEFINE i == Len(ms) - d
  <2>1. i \in 1 .. Len(ms) /\ i - 1 = Len(ms) - (d + 1) /\ Grown(i) /\ i - 1 \in 0 .. Len(ms)
    BY <1>1
  <2> HIDE DEF i
  <2>2. t[i - 1] \in Seq(Item) /\ Segment(ms, i) \in Seq(Item) /\ t[i] = t[i - 1] \o Segment(ms, i)
    BY <1>1, <2>1, SegmentIs
  <2>3. /\ Len(t[i]) = Len(t[i - 1]) + Len(Segment(ms, i))
        /\ \A x \in 1 .. Len(t[i - 1]) : t[i][x] = t[i - 1][x]
    BY <2>2, Concat
  <2>4. Len(t[i - 1]) \in Nat /\ Len(Segment(ms, i)) \in Nat /\ Len(t[Len(ms)]) \in Nat
    BY <1>1, <2>2
  <2>5. Grown(i - 1)
    <3>1. Len(t[i]) <= Len(t[Len(ms)]) /\ \A x \in 1 .. Len(t[i]) : t[Len(ms)][x] = t[i][x]
      BY <2>1
    <3>2. Len(t[i - 1]) <= Len(t[i])
      BY <2>3, <2>4
    <3>3. Len(t[i]) \in Nat
      BY <2>3, <2>4
    <3>4. Len(t[i - 1]) <= Len(t[Len(ms)])
      BY <2>4, <3>1, <3>2, <3>3
    <3>5. ASSUME NEW x \in 1 .. Len(t[i - 1]) PROVE t[Len(ms)][x] = t[i - 1][x]
      <4>1. x \in 1 .. Len(t[i])
        BY <2>4, <3>2, <3>3
      <4> QED BY <2>3, <3>1, <4>1
    <3> QED BY <3>4, <3>5
  <2> QED BY <2>1, <2>5
<1>4. Len(ms) - m \in A
  <2> HIDE DEF A
  <2> QED BY <1>1, <1>2, <1>3, SetInduction
<1>5. Grown(m)
  BY <1>1, <1>4
<1> QED
  BY <1>5 DEF t

LEMMA AtEnd ==
  ASSUME NEW ms \in Seq(I2cMsg)
  PROVE  /\ Traffic(ms) \in Seq(Item) /\ Len(TrafficTo(ms)[Len(ms)]) \in Nat
         /\ Len(Traffic(ms)) = Len(TrafficTo(ms)[Len(ms)]) + 1
         /\ Traffic(ms)[Len(Traffic(ms))] = <<"P">>
         /\ \A x \in 1 .. Len(TrafficTo(ms)[Len(ms)]) :
              Traffic(ms)[x] = TrafficTo(ms)[Len(ms)][x]
<1> DEFINE t == TrafficTo(ms)[Len(ms)]
           p == << <<"P">> >>
<1>1. t \in Seq(Item)
  BY TrafficAre
<1>2. p \in Seq(Item) /\ Len(p) = 1 /\ p[1] = <<"P">>
  BY DEF Item
<1>3. Traffic(ms) = t \o p
  BY DEF Traffic
<1> HIDE DEF t, p
<1>4. p \in Seq(Item)
  BY <1>2
<1>5. /\ t \o p \in Seq(Item) /\ Len(t \o p) = Len(t) + Len(p)
      /\ \A x \in 1 .. Len(t) : (t \o p)[x] = t[x]
      /\ \A x \in 1 .. Len(p) : (t \o p)[Len(t) + x] = p[x]
  BY <1>1, <1>4, Concat
<1>6. Len(t) \in Nat
  BY <1>1
<1> QED
  BY <1>2, <1>3, <1>5, <1>6 DEF t

(* What the traffic has for message i, and where.                          *)
LEMMA AtMessage ==
  ASSUME NEW ms \in Seq(I2cMsg), NEW i \in 1 .. Len(ms)
  PROVE  /\ Len(TrafficTo(ms)[i - 1]) \in Nat /\ ms[i].len \in Nat
         /\ Len(TrafficTo(ms)[i]) = Len(TrafficTo(ms)[i - 1]) + 2 + ms[i].len
         /\ Len(TrafficTo(ms)[i - 1]) + 2 + ms[i].len < Len(Traffic(ms))
         /\ Traffic(ms)[Len(TrafficTo(ms)[i - 1]) + 1] = <<"S">>
         /\ Traffic(ms)[Len(TrafficTo(ms)[i - 1]) + 2] = <<"A", i>>
         /\ \A j \in 1 .. ms[i].len :
              Traffic(ms)[Len(TrafficTo(ms)[i - 1]) + 2 + j] = DataItem(ms, i, j)
<1> DEFINE t == TrafficTo(ms)
           s == Segment(ms, i)
           W == Traffic(ms)
<1>1. ms[i].len \in Nat
  <2>1. ms[i] \in I2cMsg
    OBVIOUS
  <2> QED BY <2>1 DEF I2cMsg
<1>2. t[i - 1] \in Seq(Item) /\ t[i] = t[i - 1] \o s /\ i \in 0 .. Len(ms)
  <2>1. i - 1 \in 0 .. Len(ms)
    OBVIOUS
  <2>2. t \in [0 .. Len(ms) -> Seq(Item)]
    BY TrafficAre
  <2>3. \A k \in 1 .. Len(ms) : t[k] = t[k - 1] \o Segment(ms, k)
    BY TrafficAre
  <2> HIDE DEF t
  <2>4. t[i - 1] \in Seq(Item)
    BY <2>1, <2>2
  <2>5. t[i] = t[i - 1] \o s
    BY <2>3
  <2>6. i \in 0 .. Len(ms)
    OBVIOUS
  <2> QED BY <2>4, <2>5, <2>6
<1>3. /\ s \in Seq(Item) /\ Len(s) = 2 + ms[i].len /\ s[1] = <<"S">> /\ s[2] = <<"A", i>>
      /\ \A j \in 1 .. ms[i].len : s[2 + j] = DataItem(ms, i, j)
  BY SegmentIs
<1>4. /\ Len(t[i]) <= Len(t[Len(ms)])
      /\ \A x \in 1 .. Len(t[i]) : t[Len(ms)][x] = t[i][x]
  BY <1>2, TrafficGrows
<1>5. /\ Len(W) = Len(t[Len(ms)]) + 1 /\ Len(t[Len(ms)]) \in Nat
      /\ \A x \in 1 .. Len(t[Len(ms)]) : W[x] = t[Len(ms)][x]
  BY AtEnd
<1> HIDE DEF t, s, W
<1>6. s \in Seq(Item) /\ t[i - 1] \in Seq(Item)
  BY <1>2, <1>3
<1>7. /\ Len(t[i]) = Len(t[i - 1]) + Len(s)
      /\ \A x \in 1 .. Len(s) : t[i][Len(t[i - 1]) + x] = s[x]
  BY <1>2, <1>6, Concat
<1>8. Len(t[i - 1]) \in Nat
  BY <1>6
<1> DEFINE b == Len(t[i - 1])
<1>9. b \in Nat /\ Len(t[i]) = b + 2 + ms[i].len /\ b + 2 + ms[i].len < Len(W)
  <2>1. b \in Nat /\ Len(s) = 2 + ms[i].len /\ Len(t[i]) = b + Len(s)
    BY <1>3, <1>7, <1>8
  <2>2. Len(t[i]) <= Len(t[Len(ms)]) /\ Len(W) = Len(t[Len(ms)]) + 1 /\ Len(t[Len(ms)]) \in Nat
    BY <1>4, <1>5
  <2> DEFINE x == ms[i].len
             y == Len(t[i])
             z == Len(t[Len(ms)])
             w == Len(W)
  <2>3. x \in Nat /\ b \in Nat /\ Len(s) = 2 + x /\ y = b + Len(s) /\ y <= z /\ w = z + 1 /\ z \in Nat
    BY <1>1, <2>1, <2>2
  <2> HIDE DEF b, x, y, z, w
  <2>4. b \in Nat /\ y = b + 2 + x /\ b + 2 + x < w
    BY <2>3
  <2> QED BY <2>4 DEF x, y, w
<1>10. \A x \in 1 .. 2 + ms[i].len : W[b + x] = s[x]
  <2> HIDE DEF b
  <2> SUFFICES ASSUME NEW x \in 1 .. 2 + ms[i].len PROVE W[b + x] = s[x]
    OBVIOUS
  <2>1. b + x \in 1 .. Len(t[i]) /\ b + x \in 1 .. Len(t[Len(ms)])
    BY <1>1, <1>4, <1>5, <1>9
  <2>2. t[i][b + x] = s[x]
    BY <1>3, <1>7 DEF b
  <2> QED BY <1>4, <1>5, <2>1, <2>2
<1>11. W[b + 1] = <<"S">> /\ W[b + 2] = <<"A", i>>
  <2> DEFINE x == ms[i].len
  <2>1. x \in Nat
    BY <1>1
  <2> HIDE DEF x
  <2>2. 1 \in 1 .. 2 + x /\ 2 \in 1 .. 2 + x
    BY <2>1
  <2>3. W[b + 1] = s[1] /\ W[b + 2] = s[2]
    BY <1>10, <2>2 DEF x
  <2> QED BY <1>3, <2>3
<1>12. \A j \in 1 .. ms[i].len : W[b + 2 + j] = DataItem(ms, i, j)
  <2> SUFFICES ASSUME NEW j \in 1 .. ms[i].len PROVE W[b + 2 + j] = DataItem(ms, i, j)
    OBVIOUS
  <2>1. 2 + j \in 1 .. 2 + ms[i].len /\ b + (2 + j) = b + 2 + j
    <3> HIDE DEF b
    <3> QED BY <1>1, <1>9
  <2>2. W[b + (2 + j)] = s[2 + j]
    BY <1>10, <2>1
  <2> QED BY <1>3, <2>1, <2>2
<1> QED
  BY <1>1, <1>9, <1>11, <1>12 DEF t, W, s

-----------------------------------------------------------------------------
(* A list of commands against the traffic W: where the bus, the bytes of   *)
(* the TX FIFO and the bytes read are before each command.                 *)

Point == [o : Nat, t : Nat, r : Nat]
Cmd == {<<"RSTART">>, <<"STOP">>, <<"END">>} \cup ({"WRITE"} \X Nat)
       \cup ({"READ"} \X Nat \X BOOLEAN)

Starts(W, c, a, b) == /\ c = <<"RSTART">> /\ W[a.o + 1] = <<"S">>
                      /\ b.o = a.o + 1 /\ b.t = a.t /\ b.r = a.r
BytesAre(W, tb, o, t, n) ==
  \A j \in 1 .. n : tb[t + j] = W[o + j] /\ W[o + j][1] # "R"
Writes(W, c, tb, a, b) == \E n \in Nat :
  /\ c = <<"WRITE", n>> /\ b.o = a.o + n /\ b.t = a.t + n /\ b.r = a.r
  /\ BytesAre(W, tb, a.o, a.t, n)
ReadsIn(W, c, a, b) == \E n \in Nat, ack \in BOOLEAN :
  /\ c = <<"READ", n, ack>> /\ b.o = a.o + n /\ b.t = a.t /\ b.r = a.r + n
  /\ \A j \in 1 .. n : W[a.o + j] = <<"R", a.r + j, ack>>
Stops(W, c, a, b) == /\ c = <<"STOP">> /\ W[a.o + 1] = <<"P">> /\ b.o = Len(W)
                     /\ b.o = a.o + 1 /\ b.t = a.t /\ b.r = a.r
Pauses(c, a, b) == c = <<"END">> /\ b = a

Runs(W, c, tb, a, b) ==
  /\ b.o <= Len(W) /\ b.t <= Len(tb)
  /\ \/ Starts(W, c, a, b) \/ Writes(W, c, tb, a, b) \/ ReadsIn(W, c, a, b)
     \/ Stops(W, c, a, b) \/ Pauses(c, a, b)

Climbs(p, n) == \A k \in 1 .. n, m \in 1 .. n :
                  k <= m => p[k].t <= p[m].t /\ p[k].r <= p[m].r

Plan(W, cm, tb, p) ==
  /\ p \in [1 .. Len(cm) + 1 -> Point]
  /\ \A k \in 1 .. Len(cm) : Runs(W, cm[k], tb, p[k], p[k + 1])
  /\ Climbs(p, Len(cm) + 1)

LEMMA PlusNext ==
  ASSUME NEW x \in Nat, NEW p \in Nat, NEW n \in Nat
  PROVE  x + (2 + (p + n)) = (x + (2 + p)) + n /\ x + (p + n) = (x + p) + n
OBVIOUS

LEMMA SumWithin ==
  ASSUME NEW p \in Nat, NEW n \in Nat, NEW l \in Nat, p + n <= l
  PROVE  p <= l /\ p + n \in Nat
OBVIOUS

LEMMA LeTrans == ASSUME NEW a \in Nat, NEW b \in Nat, NEW c \in Nat, a <= b, b <= c PROVE a <= c
OBVIOUS

LEMMA LeMinus ==
  ASSUME NEW a \in Nat, NEW b \in Nat, NEW x \in Nat, a <= b PROVE a - x <= b - x
OBVIOUS

LEMMA CutFront ==
  ASSUME NEW S, NEW s \in Seq(S), NEW x \in 0 .. Len(s)
  PROVE  /\ SubSeq(s, x + 1, Len(s)) \in Seq(S)
         /\ Len(SubSeq(s, x + 1, Len(s))) = Len(s) - x
         /\ \A i \in 1 .. Len(s) - x : SubSeq(s, x + 1, Len(s))[i] = s[x + i]
<1> DEFINE m == x + 1
           n == Len(s)
           t == SubSeq(s, m, n)
<1>1. n \in Nat /\ m \in Int /\ n \in Int /\ n - m + 1 = n - x /\ m \in 1 .. n + 1
  OBVIOUS
<1>2. \A i \in m .. n : s[i] \in S
  OBVIOUS
<1> HIDE DEF m, n
<1>3. /\ t \in Seq(S) /\ Len(t) = IF m <= n THEN n - m + 1 ELSE 0
      /\ \A i \in 1 .. n - m + 1 : t[i] = s[m + i - 1]
  BY <1>1, <1>2, SubSeqProperties
<1> HIDE DEF t
<1>4. Len(t) = n - x
  BY <1>1, <1>3
<1>5. ASSUME NEW i \in 1 .. n - x PROVE t[i] = s[x + i]
  <2>1. t[i] = s[m + i - 1]
    BY <1>1, <1>3
  <2>2. m + i - 1 = x + i
    BY DEF m
  <2> QED BY <2>1, <2>2
<1> QED BY <1>3, <1>4, <1>5 DEF t, m, n

LEMMA RunsForward ==
  ASSUME NEW W, NEW c, NEW tb, NEW a \in Point, NEW b \in Point, Runs(W, c, tb, a, b)
  PROVE  a.t <= b.t /\ a.r <= b.r
<1>1. a.t \in Nat /\ a.r \in Nat /\ a.o \in Nat
  BY DEF Point
<1>2. Starts(W, c, a, b) => a.t <= b.t /\ a.r <= b.r
  BY <1>1 DEF Starts
<1>3. Writes(W, c, tb, a, b) => a.t <= b.t /\ a.r <= b.r
  BY <1>1 DEF Writes
<1>4. ReadsIn(W, c, a, b) => a.t <= b.t /\ a.r <= b.r
  BY <1>1 DEF ReadsIn
<1>5. Stops(W, c, a, b) => a.t <= b.t /\ a.r <= b.r
  BY <1>1 DEF Stops
<1>6. Pauses(c, a, b) => a.t <= b.t /\ a.r <= b.r
  BY <1>1 DEF Pauses
<1> QED BY <1>2, <1>3, <1>4, <1>5, <1>6 DEF Runs

LEMMA RunsMoreBytes ==
  ASSUME NEW W, NEW c, NEW tb, NEW a \in Point, NEW b \in Point, Runs(W, c, tb, a, b),
         NEW tx2, Len(tb) \in Nat, Len(tx2) \in Nat, Len(tb) <= Len(tx2),
         \A i \in 1 .. Len(tb) : tx2[i] = tb[i]
  PROVE  Runs(W, c, tx2, a, b)
<1>1. a.t \in Nat /\ b.t \in Nat
  BY DEF Point
<1>2. b.t <= Len(tb)
  BY DEF Runs
<1>3. b.t <= Len(tx2)
  BY <1>1, <1>2
<1>4. ASSUME Writes(W, c, tb, a, b) PROVE Writes(W, c, tx2, a, b)
  <2>1. PICK n \in Nat :
          /\ c = <<"WRITE", n>> /\ b.o = a.o + n /\ b.t = a.t + n /\ b.r = a.r
          /\ BytesAre(W, tb, a.o, a.t, n)
    BY <1>4 DEF Writes
  <2>2. ASSUME NEW j \in 1 .. n PROVE tx2[a.t + j] = W[a.o + j] /\ W[a.o + j][1] # "R"
    <3>1. a.t + j \in 1 .. Len(tb)
      BY <1>1, <1>2, <2>1
    <3> QED BY <2>1, <3>1 DEF BytesAre
  <2> QED BY <2>1, <2>2 DEF Writes, BytesAre
<1> QED BY <1>3, <1>4 DEF Runs

Cut(tb, ts, x) == /\ Len(ts) = Len(tb) - x
                  /\ \A i \in 1 .. Len(tb) - x : ts[i] = tb[x + i]

LEMMA BytesShift ==
  ASSUME NEW W, NEW tb, NEW ts, NEW o \in Nat, NEW t \in Nat, NEW x \in Nat, NEW m \in Nat,
         Len(tb) \in Nat, x <= t, t + m <= Len(tb), BytesAre(W, tb, o, t, m), Cut(tb, ts, x)
  PROVE  BytesAre(W, ts, o, t - x, m)
<1> SUFFICES ASSUME NEW j \in 1 .. m PROVE ts[(t - x) + j] = W[o + j] /\ W[o + j][1] # "R"
  BY DEF BytesAre
<1>1. (t - x) + j \in 1 .. Len(tb) - x /\ x + ((t - x) + j) = t + j
  OBVIOUS
<1> QED BY <1>1 DEF BytesAre, Cut

(* The same bytes, without the first x of them.                            *)
LEMMA RunsShift ==
  ASSUME NEW W, NEW c, NEW tb \in Seq(Item), NEW a \in Point, NEW b \in Point,
         Runs(W, c, tb, a, b), NEW x \in Nat, x <= Len(tb), x <= a.t, x <= b.t
  PROVE  Runs(W, c, SubSeq(tb, x + 1, Len(tb)),
              [o |-> a.o, t |-> a.t - x, r |-> a.r], [o |-> b.o, t |-> b.t - x, r |-> b.r])
<1> DEFINE a2 == [o |-> a.o, t |-> a.t - x, r |-> a.r]
           b2 == [o |-> b.o, t |-> b.t - x, r |-> b.r]
           ts == SubSeq(tb, x + 1, Len(tb))
<1>1. /\ a.t \in Nat /\ b.t \in Nat /\ a.o \in Nat /\ b.o \in Nat
      /\ a.r \in Nat /\ b.r \in Nat /\ Len(tb) \in Nat
  BY DEF Point
<1>2. Cut(tb, ts, x) /\ Len(ts) = Len(tb) - x
  <2>1. x \in 0 .. Len(tb)
    BY <1>1
  <2> QED BY <2>1, CutFront DEF Cut
<1>3. b.o <= Len(W) /\ b.t <= Len(tb)
  BY DEF Runs
<1> HIDE DEF ts
<1>4. b2.o <= Len(W) /\ b2.t <= Len(ts)
  BY <1>1, <1>2, <1>3, LeMinus
<1>5. ASSUME Writes(W, c, tb, a, b) PROVE Writes(W, c, ts, a2, b2)
  <2>1. PICK m \in Nat :
          /\ c = <<"WRITE", m>> /\ b.o = a.o + m /\ b.t = a.t + m /\ b.r = a.r
          /\ BytesAre(W, tb, a.o, a.t, m)
    BY <1>5 DEF Writes
  <2>2. BytesAre(W, ts, a.o, a.t - x, m)
    BY <1>1, <1>2, <1>3, <2>1, BytesShift
  <2>3. b2.t = a2.t + m
    BY <1>1, <2>1
  <2> QED BY <2>1, <2>2, <2>3 DEF Writes
<1>6. Starts(W, c, a, b) => Starts(W, c, a2, b2)
  BY DEF Starts
<1>7. ReadsIn(W, c, a, b) => ReadsIn(W, c, a2, b2)
  BY DEF ReadsIn
<1>8. Stops(W, c, a, b) => Stops(W, c, a2, b2)
  BY DEF Stops
<1>9. Pauses(c, a, b) => Pauses(c, a2, b2)
  BY DEF Pauses
<1> HIDE DEF a2, b2
<1>10. Runs(W, c, ts, a2, b2)
  BY <1>4, <1>5, <1>6, <1>7, <1>8, <1>9 DEF Runs
<1> QED BY <1>10 DEF a2, b2, ts

LEMMA PlanAppend ==
  ASSUME NEW W, NEW cm \in Seq(Cmd), NEW tb, NEW p, Plan(W, cm, tb, p),
         NEW c \in Cmd, NEW tx2, NEW b \in Point,
         Len(tb) \in Nat, Len(tx2) \in Nat, Len(tb) <= Len(tx2),
         \A i \in 1 .. Len(tb) : tx2[i] = tb[i],
         Runs(W, c, tx2, p[Len(cm) + 1], b)
  PROVE  \E q : /\ Plan(W, Append(cm, c), tx2, q)
                /\ q[1] = p[1] /\ q[Len(cm) + 2] = b
<1> DEFINE n == Len(cm)
           cn == Append(cm, c)
           q == [k \in 1 .. n + 2 |-> IF k = n + 2 THEN b ELSE p[k]]
<1>1. n \in Nat /\ cn \in Seq(Cmd) /\ Len(cn) = n + 1 /\ cn[n + 1] = c
      /\ \A k \in 1 .. n : cn[k] = cm[k]
  OBVIOUS
<1>2. /\ p \in [1 .. n + 1 -> Point]
      /\ \A k \in 1 .. n : Runs(W, cm[k], tb, p[k], p[k + 1])
      /\ Climbs(p, n + 1)
  BY DEF Plan
<1>3. Runs(W, c, tx2, p[n + 1], b)
  OBVIOUS
<1> HIDE DEF n, cn
<1>4. q \in [1 .. n + 2 -> Point] /\ q[n + 2] = b /\ \A k \in 1 .. n + 1 : q[k] = p[k]
  BY <1>1, <1>2
<1> HIDE DEF q
<1>5. ASSUME NEW k \in 1 .. n + 1 PROVE Runs(W, cn[k], tx2, q[k], q[k + 1])
  <2>1. CASE k = n + 1
    BY <1>1, <1>3, <1>4, <2>1
  <2>2. CASE k # n + 1
    <3>1. k \in 1 .. n /\ k \in 1 .. n + 1 /\ k + 1 \in 1 .. n + 1
      BY <1>1, <2>2
    <3>2. Runs(W, cm[k], tb, p[k], p[k + 1]) /\ p[k] \in Point /\ p[k + 1] \in Point
      BY <1>2, <3>1
    <3>3. Runs(W, cm[k], tx2, p[k], p[k + 1])
      BY <3>2, RunsMoreBytes
    <3> QED BY <1>1, <1>4, <3>1, <3>3
  <2> QED BY <2>1, <2>2
<1>6. Climbs(q, n + 2)
  <2> SUFFICES ASSUME NEW k \in 1 .. n + 2, NEW m \in 1 .. n + 2, k <= m
               PROVE  q[k].t <= q[m].t /\ q[k].r <= q[m].r
    BY DEF Climbs
  <2>0. n + 1 \in 1 .. n + 1 /\ p[n + 1] \in Point
    BY <1>1, <1>2
  <2>1. p[n + 1].t <= b.t /\ p[n + 1].r <= b.r
    BY <1>3, <2>0, RunsForward
  <2>2. CASE m = n + 2 /\ k = n + 2
    <3>1. b.t \in Nat /\ b.r \in Nat
      BY DEF Point
    <3> QED BY <1>4, <2>2, <3>1
  <2>3. CASE m = n + 2 /\ k # n + 2
    <3>1. k \in 1 .. n + 1 /\ k <= n + 1
      BY <1>1, <2>3
    <3>2. p[k].t <= p[n + 1].t /\ p[k].r <= p[n + 1].r /\ p[k] \in Point
      BY <1>2, <2>0, <3>1 DEF Climbs
    <3>3. /\ p[k].t \in Nat /\ p[k].r \in Nat /\ b.t \in Nat /\ b.r \in Nat
          /\ p[n + 1].t \in Nat /\ p[n + 1].r \in Nat
      BY <2>0, <3>2 DEF Point
    <3>4. q[m] = b /\ q[k] = p[k]
      BY <1>4, <2>3, <3>1
    <3>5. p[k].t <= b.t
      BY <2>1, <3>2, <3>3, LeTrans
    <3>6. p[k].r <= b.r
      BY <2>1, <3>2, <3>3, LeTrans
    <3> QED BY <3>4, <3>5, <3>6
  <2>4. CASE m # n + 2
    <3>1. k \in 1 .. n + 1 /\ m \in 1 .. n + 1
      BY <1>1, <2>4
    <3> QED BY <1>2, <1>4, <3>1 DEF Climbs
  <2> QED BY <2>2, <2>3, <2>4
<1>7. Plan(W, cn, tx2, q)
  <2>1. Len(cn) = n + 1 /\ Len(cn) + 1 = n + 2
    BY <1>1
  <2> QED BY <1>4, <1>5, <1>6, <2>1 DEF Plan
<1>8. q[1] = p[1]
  BY <1>1, <1>4
<1> QED
  BY <1>4, <1>7, <1>8 DEF n, cn

LEMMA PlanTail ==
  ASSUME NEW W, NEW cm \in Seq(Cmd), cm # <<>>, NEW tb \in Seq(Item), NEW p,
         Plan(W, cm, tb, p), p[1].t = 0, NEW x, x = p[2].t
  PROVE  /\ x \in 0 .. Len(tb)
         /\ \E q : /\ Plan(W, Tail(cm), SubSeq(tb, x + 1, Len(tb)), q)
                   /\ q[1] = [o |-> p[2].o, t |-> 0, r |-> p[2].r]
                   /\ q[Len(cm)] = [o |-> p[Len(cm) + 1].o, t |-> p[Len(cm) + 1].t - x,
                                    r |-> p[Len(cm) + 1].r]
<1> DEFINE n == Len(cm)
           ct == Tail(cm)
           ts == SubSeq(tb, x + 1, Len(tb))
           q == [k \in 1 .. n |-> [o |-> p[k + 1].o, t |-> p[k + 1].t - x, r |-> p[k + 1].r]]
<1>1. n \in Nat /\ n >= 1 /\ Len(ct) = n - 1 /\ \A k \in 1 .. n - 1 : ct[k] = cm[k + 1]
  OBVIOUS
<1>2. /\ p \in [1 .. n + 1 -> Point]
      /\ \A k \in 1 .. n : Runs(W, cm[k], tb, p[k], p[k + 1])
      /\ Climbs(p, n + 1)
  BY DEF Plan
<1> HIDE DEF n, ct
<1>3. \A k \in 1 .. n + 1 : p[k].t \in Nat /\ p[k].o \in Nat /\ p[k].r \in Nat
  BY <1>2 DEF Point
<1>4. Len(tb) \in Nat /\ 2 \in 1 .. n + 1 /\ 1 \in 1 .. n
  BY <1>1
<1>5. x \in Nat /\ x <= Len(tb)
  BY <1>2, <1>3, <1>4 DEF Runs
<1>6. /\ Len(ts) = Len(tb) - x /\ ts \in Seq(Item)
      /\ \A i \in 1 .. Len(tb) - x : ts[i] = tb[x + i]
  <2>1. x \in 0 .. Len(tb)
    BY <1>4, <1>5
  <2> QED BY <2>1, CutFront
<1> HIDE DEF ts
<1>7. \A k \in 1 .. n : /\ p[k + 1].t - x \in Nat /\ k + 1 \in 1 .. n + 1 /\ p[k + 1].t >= x
                        /\ p[k + 1].o \in Nat /\ p[k + 1].r \in Nat
  <2> SUFFICES ASSUME NEW k \in 1 .. n
               PROVE /\ p[k + 1].t - x \in Nat /\ k + 1 \in 1 .. n + 1 /\ p[k + 1].t >= x
                     /\ p[k + 1].o \in Nat /\ p[k + 1].r \in Nat
    OBVIOUS
  <2>1. k + 1 \in 1 .. n + 1 /\ 2 <= k + 1
    BY <1>1
  <2>2. p[2].t <= p[k + 1].t
    BY <1>2, <1>4, <2>1 DEF Climbs
  <2> QED BY <1>3, <1>5, <2>1, <2>2
<1>8. q \in [1 .. n -> Point]
  BY <1>7 DEF Point
<1>9. ASSUME NEW k \in 1 .. n - 1
      PROVE  Runs(W, ct[k], ts, q[k], q[k + 1])
  <2>1. k \in 1 .. n /\ k + 1 \in 1 .. n /\ k + 1 \in 1 .. n + 1 /\ (k + 1) + 1 \in 1 .. n + 1
    BY <1>1
  <2>2. Runs(W, ct[k], tb, p[k + 1], p[(k + 1) + 1])
    BY <1>1, <1>2, <2>1
  <2>3. /\ q[k] = [o |-> p[k + 1].o, t |-> p[k + 1].t - x, r |-> p[k + 1].r]
        /\ q[k + 1] = [o |-> p[(k + 1) + 1].o, t |-> p[(k + 1) + 1].t - x,
                       r |-> p[(k + 1) + 1].r]
    BY <2>1
  <2>4. p[k + 1] \in Point /\ p[(k + 1) + 1] \in Point /\ x <= p[k + 1].t /\ x <= p[(k + 1) + 1].t
    BY <1>2, <1>7, <2>1
  <2> HIDE DEF q
  <2>5. Runs(W, ct[k], ts, [o |-> p[k + 1].o, t |-> p[k + 1].t - x, r |-> p[k + 1].r],
             [o |-> p[(k + 1) + 1].o, t |-> p[(k + 1) + 1].t - x, r |-> p[(k + 1) + 1].r])
    BY <1>5, <2>2, <2>4, RunsShift DEF ts
  <2> QED BY <2>3, <2>5
<1>10. Climbs(q, n)
  <2> SUFFICES ASSUME NEW k \in 1 .. n, NEW m \in 1 .. n, k <= m
               PROVE  q[k].t <= q[m].t /\ q[k].r <= q[m].r
    BY DEF Climbs
  <2>1. k + 1 \in 1 .. n + 1 /\ m + 1 \in 1 .. n + 1 /\ k + 1 <= m + 1
    BY <1>1
  <2>2. p[k + 1].t <= p[m + 1].t /\ p[k + 1].r <= p[m + 1].r
    BY <1>2, <2>1 DEF Climbs
  <2>3. q[k].t = p[k + 1].t - x /\ q[m].t = p[m + 1].t - x /\ q[k].r = p[k + 1].r /\ q[m].r = p[m + 1].r
    OBVIOUS
  <2>4. /\ p[k + 1].t \in Nat /\ p[m + 1].t \in Nat
    BY <1>3, <2>1
  <2>5. p[k + 1].t - x <= p[m + 1].t - x
    BY <1>5, <2>2, <2>4, LeMinus
  <2> HIDE DEF q
  <2> QED BY <2>2, <2>3, <2>5
<1>11. Plan(W, ct, ts, q)
  <2>1. Len(ct) = n - 1 /\ Len(ct) + 1 = n
    BY <1>1
  <2> HIDE DEF q
  <2> QED BY <1>8, <1>9, <1>10, <2>1 DEF Plan
<1>12. q[1] = [o |-> p[2].o, t |-> 0, r |-> p[2].r]
  BY <1>1, <1>5
<1>13. q[n] = [o |-> p[n + 1].o, t |-> p[n + 1].t - x, r |-> p[n + 1].r]
  BY <1>1
<1> HIDE DEF q
<1> QED
  BY <1>4, <1>5, <1>11, <1>12, <1>13 DEF n, ct, ts

-----------------------------------------------------------------------------
(* Where a cursor is in the traffic, and what its reads are.               *)

Cursor == [msg : Nat \ {0}, pos : Nat, addressed : BOOLEAN]
InRange(ms, c) == /\ c \in Cursor /\ c.msg <= Len(ms) + 1
                  /\ ~c.addressed => c.pos = 0
                  /\ c.addressed => c.msg <= Len(ms) /\ c.pos <= ms[c.msg].len
CursorOK(ms, c) == InRange(ms, c) /\ (c.addressed => c.pos < ms[c.msg].len)

Offset(ms, c) == Len(TrafficTo(ms)[c.msg - 1]) + (IF c.addressed THEN 2 + c.pos ELSE 0)
ReadsAt(ms, c) == ReadsTo(ms)[c.msg - 1]
                  + (IF c.addressed THEN IF ms[c.msg].rd THEN c.pos ELSE 0 ELSE 0)
Got(ms, c) == [i \in 1 .. Len(ms) |->
                 IF ~ms[i].rd \/ i > c.msg THEN 0
                 ELSE IF i < c.msg THEN ms[i].len ELSE c.pos]
PointAt(ms, c, t) == [o |-> Offset(ms, c), t |-> t, r |-> ReadsAt(ms, c)]

LEMMA MsgIs ==
  ASSUME NEW ms \in Seq(I2cMsg), NEW i \in 1 .. Len(ms)
  PROVE  ms[i] \in I2cMsg /\ ms[i].len \in Nat /\ ms[i].rd \in BOOLEAN /\ Len(ms) \in Nat
<1>1. ms[i] \in I2cMsg
  OBVIOUS
<1> QED BY <1>1 DEF I2cMsg

LEMMA CursorFacts ==
  ASSUME NEW ms \in Seq(I2cMsg), NEW c, InRange(ms, c)
  PROVE  /\ Offset(ms, c) \in Nat /\ ReadsAt(ms, c) \in Nat /\ Offset(ms, c) < Len(Traffic(ms))
         /\ Len(Traffic(ms)) \in Nat /\ \A t \in Nat : PointAt(ms, c, t) \in Point
         /\ Got(ms, c) \in [1 .. Len(ms) -> Nat]
<1>1. c.msg \in 1 .. Len(ms) + 1 /\ c.pos \in Nat /\ c.addressed \in BOOLEAN /\ Len(ms) \in Nat
      /\ c.msg - 1 \in 0 .. Len(ms)
  BY DEF InRange, Cursor
<1>2. ReadsTo(ms)[c.msg - 1] \in Nat
  <2>1. ReadsTo(ms) \in [0 .. Len(ms) -> Nat]
    BY ReadsAre
  <2> QED BY <1>1, <2>1
<1>3. ReadsAt(ms, c) \in Nat
  BY <1>1, <1>2 DEF ReadsAt
<1>4. Len(Traffic(ms)) \in Nat /\ Len(Traffic(ms)) = Len(TrafficTo(ms)[Len(ms)]) + 1
      /\ Len(TrafficTo(ms)[Len(ms)]) \in Nat
  BY AtEnd
<1>5. Offset(ms, c) \in Nat /\ Offset(ms, c) < Len(Traffic(ms))
  <2>1. CASE c.msg <= Len(ms)
    <3>1. c.msg \in 1 .. Len(ms)
      BY <1>1, <2>1
    <3> DEFINE b == Len(TrafficTo(ms)[c.msg - 1])
               l == ms[c.msg].len
               w == Len(Traffic(ms))
    <3>2. b \in Nat /\ l \in Nat /\ b + 2 + l < w
      BY <3>1, AtMessage
    <3>3. c.addressed => c.pos <= l
      BY DEF InRange
    <3>4. Offset(ms, c) = b + (IF c.addressed THEN 2 + c.pos ELSE 0)
      BY DEF Offset
    <3> HIDE DEF b, l, w
    <3>5. CASE c.addressed
      <4>1. Offset(ms, c) = b + 2 + c.pos /\ c.pos <= l
        BY <1>1, <3>2, <3>3, <3>4, <3>5
      <4>2. w \in Nat
        BY <1>4 DEF w
      <4>3. b + 2 + c.pos \in Nat /\ b + 2 + c.pos < w
        <5> DEFINE x == c.pos
        <5>1. x \in Nat /\ x <= l
          BY <1>1, <4>1
        <5> HIDE DEF x
        <5>2. b + 2 + x \in Nat /\ b + 2 + x < w
          BY <3>2, <4>2, <5>1
        <5> QED BY <5>2 DEF x
      <4> QED BY <4>1, <4>3 DEF w
    <3>6. CASE ~c.addressed
      <4>1. Offset(ms, c) = b
        BY <3>2, <3>4, <3>6
      <4> QED BY <1>4, <3>2, <4>1 DEF w
    <3> QED BY <1>1, <3>5, <3>6
  <2>2. CASE c.msg = Len(ms) + 1
    <3>1. ~c.addressed /\ c.msg - 1 = Len(ms)
      BY <1>1, <2>2 DEF InRange
    <3>2. Offset(ms, c) = Len(TrafficTo(ms)[Len(ms)])
      BY <1>4, <3>1 DEF Offset
    <3> QED BY <1>4, <3>2
  <2> QED BY <1>1, <2>1, <2>2
<1>6. \A t \in Nat : PointAt(ms, c, t) \in Point
  BY <1>3, <1>5 DEF PointAt, Point
<1>7. Got(ms, c) \in [1 .. Len(ms) -> Nat]
  <2> SUFFICES ASSUME NEW i \in 1 .. Len(ms)
               PROVE  (IF ~ms[i].rd \/ i > c.msg THEN 0
                       ELSE IF i < c.msg THEN ms[i].len ELSE c.pos) \in Nat
    BY DEF Got
  <2>1. ms[i].len \in Nat
    BY MsgIs
  <2> QED BY <1>1, <2>1
<1> QED BY <1>3, <1>4, <1>5, <1>6, <1>7

(* esp32s31_i2c_next_msg: the end of a message is the start of the next.   *)
LEMMA NextMsg ==
  ASSUME NEW ms \in Seq(I2cMsg), NEW c, InRange(ms, c), c.addressed,
         c.pos = ms[c.msg].len,
         NEW d, d = [msg |-> c.msg + 1, pos |-> 0, addressed |-> FALSE]
  PROVE  /\ CursorOK(ms, d) /\ Offset(ms, d) = Offset(ms, c)
         /\ ReadsAt(ms, d) = ReadsAt(ms, c) /\ Got(ms, d) = Got(ms, c)
<1>1. c.msg \in 1 .. Len(ms) /\ Len(ms) \in Nat
  BY DEF InRange, Cursor
<1>2. d.msg = c.msg + 1 /\ d.pos = 0 /\ d.addressed = FALSE /\ d.msg - 1 = c.msg
  BY <1>1
<1>3. CursorOK(ms, d)
  <2>1. d \in Cursor /\ d.msg <= Len(ms) + 1
    BY <1>1 DEF Cursor
  <2> QED BY <1>2, <2>1 DEF CursorOK, InRange
<1>4. ms[c.msg].len \in Nat /\ ms[c.msg].rd \in BOOLEAN
  BY <1>1, MsgIs
<1>5. Offset(ms, d) = Offset(ms, c)
  <2>1. /\ Len(TrafficTo(ms)[c.msg - 1]) \in Nat
        /\ Len(TrafficTo(ms)[c.msg]) = Len(TrafficTo(ms)[c.msg - 1]) + 2 + ms[c.msg].len
    BY <1>1, AtMessage
  <2>2. Offset(ms, d) = Len(TrafficTo(ms)[c.msg]) + 0
    BY <1>2 DEF Offset
  <2>3. Offset(ms, c) = Len(TrafficTo(ms)[c.msg - 1]) + (2 + ms[c.msg].len)
    BY DEF Offset
  <2> DEFINE b == Len(TrafficTo(ms)[c.msg - 1])
             e == Len(TrafficTo(ms)[c.msg])
             l == ms[c.msg].len
             x == Offset(ms, c)
             y == Offset(ms, d)
  <2>4. b \in Nat /\ l \in Nat /\ e = b + 2 + l /\ y = e + 0 /\ x = b + (2 + l)
    BY <1>4, <2>1, <2>2, <2>3
  <2> HIDE DEF b, e, l, x, y
  <2>5. x = y
    BY <2>4
  <2> QED BY <2>5 DEF x, y
<1>6. ReadsAt(ms, d) = ReadsAt(ms, c)
  <2>1. ReadsTo(ms)[c.msg] = ReadsTo(ms)[c.msg - 1] + (IF ms[c.msg].rd THEN ms[c.msg].len ELSE 0)
    BY <1>1, ReadsAre
  <2>2. ReadsTo(ms)[c.msg] \in Nat
    <3>1. ReadsTo(ms) \in [0 .. Len(ms) -> Nat] /\ c.msg \in 0 .. Len(ms)
      BY <1>1, ReadsAre
    <3> QED BY <3>1
  <2>3. ReadsAt(ms, d) = ReadsTo(ms)[c.msg] + 0
    BY <1>2 DEF ReadsAt
  <2> QED BY <2>1, <2>2, <2>3 DEF ReadsAt
<1>7. Got(ms, d) = Got(ms, c)
  <2> SUFFICES ASSUME NEW i \in 1 .. Len(ms)
               PROVE  (IF ~ms[i].rd \/ i > d.msg THEN 0
                       ELSE IF i < d.msg THEN ms[i].len ELSE d.pos)
                      = (IF ~ms[i].rd \/ i > c.msg THEN 0
                         ELSE IF i < c.msg THEN ms[i].len ELSE c.pos)
    BY DEF Got
  <2>1. CASE i < c.msg
    BY <1>1, <1>2, <2>1
  <2>2. CASE i = c.msg
    BY <1>1, <1>2, <2>2
  <2>3. CASE i > c.msg
    BY <1>1, <1>2, <2>3
  <2> QED BY <1>1, <2>1, <2>2, <2>3
<1> QED BY <1>3, <1>5, <1>6, <1>7

-----------------------------------------------------------------------------
(* The entries of rx against the cursor: what is in each buffer, and how   *)
(* many bytes of the RX FIFO are taken, before each entry.                 *)

RxEntry == [msg : Nat, n : Nat]
Takes(ms, rs, e, g, g2, v, v2) ==
  /\ e.msg \in 1 .. Len(ms) /\ v2 = v + e.n
  /\ g2 = [g EXCEPT ![e.msg] = @ + e.n]
  /\ rs + v = ReadsTo(ms)[e.msg - 1] + g[e.msg]

RxPlan(ms, rb, rs, g, v) ==
  /\ g \in [1 .. Len(rb) + 1 -> [1 .. Len(ms) -> Nat]]
  /\ v \in [1 .. Len(rb) + 1 -> Nat] /\ v[1] = 0
  /\ \A k \in 1 .. Len(rb) + 1 : v[k] <= v[Len(rb) + 1]
  /\ \A k \in 1 .. Len(rb) : Takes(ms, rs, rb[k], g[k], g[k + 1], v[k], v[k + 1])

LEMMA RxAppend ==
  ASSUME NEW ms \in Seq(I2cMsg), NEW rb \in Seq(RxEntry), NEW rs \in Nat, NEW g, NEW v,
         RxPlan(ms, rb, rs, g, v), NEW e \in RxEntry, NEW g2 \in [1 .. Len(ms) -> Nat],
         NEW v2 \in Nat, Takes(ms, rs, e, g[Len(rb) + 1], g2, v[Len(rb) + 1], v2)
  PROVE  \E gg, vv : /\ RxPlan(ms, Append(rb, e), rs, gg, vv)
                     /\ gg[1] = g[1] /\ gg[Len(rb) + 2] = g2 /\ vv[Len(rb) + 2] = v2
<1> DEFINE n == Len(rb)
           r2 == Append(rb, e)
           gg == [k \in 1 .. n + 2 |-> IF k = n + 2 THEN g2 ELSE g[k]]
           vv == [k \in 1 .. n + 2 |-> IF k = n + 2 THEN v2 ELSE v[k]]
           G == [1 .. Len(ms) -> Nat]
<1>1. n \in Nat /\ Len(r2) = n + 1 /\ r2[n + 1] = e /\ \A k \in 1 .. n : r2[k] = rb[k]
  OBVIOUS
<1>2. /\ g \in [1 .. n + 1 -> G] /\ v \in [1 .. n + 1 -> Nat] /\ v[1] = 0
      /\ \A k \in 1 .. n + 1 : v[k] <= v[n + 1]
      /\ \A k \in 1 .. n : Takes(ms, rs, rb[k], g[k], g[k + 1], v[k], v[k + 1])
  BY DEF RxPlan
<1>3. Takes(ms, rs, e, g[n + 1], g2, v[n + 1], v2) /\ g2 \in G
  OBVIOUS
<1>4. e.n \in Nat
  BY DEF RxEntry
<1> HIDE DEF n, r2, G
<1>5. /\ gg \in [1 .. n + 2 -> G] /\ gg[n + 2] = g2 /\ \A k \in 1 .. n + 1 : gg[k] = g[k]
  BY <1>1, <1>2, <1>3
<1>6. /\ vv \in [1 .. n + 2 -> Nat] /\ vv[n + 2] = v2 /\ \A k \in 1 .. n + 1 : vv[k] = v[k]
  BY <1>1, <1>2
<1> HIDE DEF gg, vv
<1>7. 1 \in 1 .. n + 1 /\ n + 1 \in 1 .. n + 1
  BY <1>1
<1>8. v[n + 1] \in Nat /\ v[n + 1] <= v2
  BY <1>2, <1>3, <1>4, <1>7 DEF Takes
<1>9. ASSUME NEW k \in 1 .. n + 2 PROVE vv[k] <= vv[n + 2]
  <2>1. CASE k = n + 2
    BY <1>6, <2>1
  <2>2. CASE k # n + 2
    <3>1. k \in 1 .. n + 1
      BY <1>1, <2>2
    <3>2. vv[k] = v[k] /\ v[k] \in Nat /\ v[k] <= v[n + 1]
      BY <1>2, <1>6, <3>1
    <3> QED BY <1>6, <1>8, <3>2, LeTrans
  <2> QED BY <2>1, <2>2
<1>10. ASSUME NEW k \in 1 .. n + 1
       PROVE  Takes(ms, rs, r2[k], gg[k], gg[k + 1], vv[k], vv[k + 1])
  <2>1. CASE k = n + 1
    BY <1>1, <1>3, <1>5, <1>6, <1>7, <2>1
  <2>2. CASE k # n + 1
    <3>1. k \in 1 .. n /\ k \in 1 .. n + 1 /\ k + 1 \in 1 .. n + 1
      BY <1>1, <2>2
    <3> QED BY <1>1, <1>2, <1>5, <1>6, <3>1
  <2> QED BY <2>1, <2>2
<1>11. vv[1] = 0 /\ gg[1] = g[1]
  BY <1>2, <1>5, <1>6, <1>7
<1>12. RxPlan(ms, r2, rs, gg, vv)
  <2>1. Len(r2) + 1 = n + 2 /\ Len(r2) = n + 1
    BY <1>1
  <2>2. \A k \in 1 .. n + 2 : vv[k] <= vv[n + 2]
    BY <1>9
  <2>3. \A k \in 1 .. n + 1 : Takes(ms, rs, r2[k], gg[k], gg[k + 1], vv[k], vv[k + 1])
    BY <1>10
  <2> QED BY <1>5, <1>6, <1>11, <2>1, <2>2, <2>3 DEF RxPlan, G
<1> QED
  BY <1>5, <1>6, <1>11, <1>12 DEF n, r2

-----------------------------------------------------------------------------
(* A batch that was begun at the cursor c0: its commands carry the bus     *)
(* from there to its cursor, and its rx entries store what they read.      *)

PlanTo(W, cm, tb, a, b) ==
  \E p : Plan(W, cm, tb, p) /\ p[1] = a /\ p[Len(cm) + 1] = b
Extends(tb, tx2) == Len(tb) <= Len(tx2) /\ \A i \in 1 .. Len(tb) : tx2[i] = tb[i]

LEMMA PlanToAppend ==
  ASSUME NEW W, NEW cm \in Seq(Cmd), NEW tb \in Seq(Item), NEW a, NEW b,
         PlanTo(W, cm, tb, a, b), NEW c \in Cmd, NEW tx2 \in Seq(Item), NEW b2 \in Point,
         Extends(tb, tx2), Runs(W, c, tx2, b, b2)
  PROVE  PlanTo(W, Append(cm, c), tx2, a, b2)
<1>1. PICK p : Plan(W, cm, tb, p) /\ p[1] = a /\ p[Len(cm) + 1] = b
  BY DEF PlanTo
<1>2. Len(tb) \in Nat /\ Len(tx2) \in Nat
  OBVIOUS
<1>3. /\ Runs(W, c, tx2, p[Len(cm) + 1], b2) /\ Len(tb) <= Len(tx2)
      /\ \A i \in 1 .. Len(tb) : tx2[i] = tb[i]
  BY <1>1 DEF Extends
<1>4. \E q : Plan(W, Append(cm, c), tx2, q) /\ q[1] = p[1] /\ q[Len(cm) + 2] = b2
  <2>1. Plan(W, cm, tb, p)
    BY <1>1
  <2> QED BY ONLY <1>2, <1>3, <2>1, cm \in Seq(Cmd), c \in Cmd, b2 \in Point, PlanAppend
<1>5. Len(Append(cm, c)) + 1 = Len(cm) + 2
  OBVIOUS
<1> QED BY <1>1, <1>4, <1>5 DEF PlanTo

LEMMA PlanToTail ==
  ASSUME NEW W, NEW cm \in Seq(Cmd), cm # <<>>, NEW tb \in Seq(Item), NEW a, NEW b,
         PlanTo(W, cm, tb, a, b), a.t = 0
  PROVE  \E m \in Point :
           /\ Runs(W, Head(cm), tb, a, m) /\ m.t \in 0 .. Len(tb) /\ a \in Point
           /\ PlanTo(W, Tail(cm), SubSeq(tb, m.t + 1, Len(tb)), [o |-> m.o, t |-> 0, r |-> m.r],
                     [o |-> b.o, t |-> b.t - m.t, r |-> b.r])
<1>1. PICK p : Plan(W, cm, tb, p) /\ p[1] = a /\ p[Len(cm) + 1] = b
  BY DEF PlanTo
<1>2. p[1].t = 0
  BY <1>1
<1> DEFINE x == p[2].t
<1>3. /\ x \in 0 .. Len(tb)
      /\ \E q : /\ Plan(W, Tail(cm), SubSeq(tb, x + 1, Len(tb)), q)
                /\ q[1] = [o |-> p[2].o, t |-> 0, r |-> p[2].r]
                /\ q[Len(cm)] = [o |-> p[Len(cm) + 1].o, t |-> p[Len(cm) + 1].t - x,
                                 r |-> p[Len(cm) + 1].r]
  BY <1>1, <1>2, PlanTail
<1>4. Len(cm) \in Nat /\ Len(cm) >= 1 /\ Len(Tail(cm)) + 1 = Len(cm) /\ Head(cm) = cm[1]
  OBVIOUS
<1>5. p[1] \in Point /\ p[2] \in Point /\ Runs(W, cm[1], tb, p[1], p[2])
  <2>1. p \in [1 .. Len(cm) + 1 -> Point] /\ \A k \in 1 .. Len(cm) : Runs(W, cm[k], tb, p[k], p[k + 1])
    BY <1>1 DEF Plan
  <2>2. 1 \in 1 .. Len(cm) + 1 /\ 2 \in 1 .. Len(cm) + 1 /\ 1 \in 1 .. Len(cm)
    BY <1>4
  <2>3. Runs(W, cm[1], tb, p[1], p[1 + 1])
    BY <2>1, <2>2
  <2> QED BY <2>1, <2>2, <2>3
<1>6. PlanTo(W, Tail(cm), SubSeq(tb, x + 1, Len(tb)), [o |-> p[2].o, t |-> 0, r |-> p[2].r],
             [o |-> b.o, t |-> b.t - x, r |-> b.r])
  BY <1>1, <1>3, <1>4 DEF PlanTo
<1> QED BY <1>1, <1>3, <1>4, <1>5, <1>6

RxPlanTo(ms, rb, rs, g0, g1, n) ==
  \E g, v : RxPlan(ms, rb, rs, g, v) /\ g[1] = g0 /\ g[Len(rb) + 1] = g1 /\ v[Len(rb) + 1] = n

LEMMA RxToAppend ==
  ASSUME NEW ms \in Seq(I2cMsg), NEW rb \in Seq(RxEntry), NEW rs \in Nat, NEW g0, NEW g1, NEW n,
         RxPlanTo(ms, rb, rs, g0, g1, n), NEW e \in RxEntry, NEW g2 \in [1 .. Len(ms) -> Nat],
         NEW n2 \in Nat, Takes(ms, rs, e, g1, g2, n, n2)
  PROVE  RxPlanTo(ms, Append(rb, e), rs, g0, g2, n2)
<1>1. PICK g, v : RxPlan(ms, rb, rs, g, v) /\ g[1] = g0 /\ g[Len(rb) + 1] = g1 /\ v[Len(rb) + 1] = n
  BY DEF RxPlanTo
<1>2. Takes(ms, rs, e, g[Len(rb) + 1], g2, v[Len(rb) + 1], n2)
  BY <1>1
<1>3. \E gg, vv : /\ RxPlan(ms, Append(rb, e), rs, gg, vv)
                  /\ gg[1] = g[1] /\ gg[Len(rb) + 2] = g2 /\ vv[Len(rb) + 2] = n2
  <2>1. RxPlan(ms, rb, rs, g, v)
    BY <1>1
  <2> QED BY ONLY <1>2, <2>1, ms \in Seq(I2cMsg), rb \in Seq(RxEntry), rs \in Nat, e \in RxEntry,
             g2 \in [1 .. Len(ms) -> Nat], n2 \in Nat, RxAppend
<1>4. Len(Append(rb, e)) + 1 = Len(rb) + 2
  OBVIOUS
<1> QED BY <1>1, <1>3, <1>4 DEF RxPlanTo

Ends == {"END", "STOP"}
NoEnd(cm) == \A k \in 1 .. Len(cm) : cm[k][1] \notin Ends
Carries(ms, c0, c, cm, tb) ==
  PlanTo(Traffic(ms), cm, tb, PointAt(ms, c0, 0), PointAt(ms, c, Len(tb)))
Stores(ms, c0, c, rb, n) ==
  /\ ReadsAt(ms, c) = ReadsAt(ms, c0) + n
  /\ RxPlanTo(ms, rb, ReadsAt(ms, c0), Got(ms, c0), Got(ms, c), n)
Fits(cm, tb, n, rb) ==
  /\ cm \in Seq(Cmd) /\ tb \in Seq(Item) /\ n \in Nat /\ rb \in Seq(RxEntry)
  /\ Len(cm) <= NCMDS - 1 /\ Len(tb) <= FIFO /\ n <= FIFO /\ Len(rb) <= Len(cm)
Sound(ms, c0, c, cm, tb, n, rb) ==
  /\ Fits(cm, tb, n, rb) /\ InRange(ms, c) /\ NoEnd(cm)
  /\ Carries(ms, c0, c, cm, tb) /\ Stores(ms, c0, c, rb, n)

LEMMA SoundStart ==
  ASSUME NEW ms \in Seq(I2cMsg), NEW c, InRange(ms, c)
  PROVE  Sound(ms, c, c, <<>>, <<>>, 0, <<>>)
<1> DEFINE p == [k \in 1 .. 1 |-> PointAt(ms, c, 0)]
           g == [k \in 1 .. 1 |-> Got(ms, c)]
           v == [k \in 1 .. 1 |-> 0]
<1>4. /\ ReadsAt(ms, c) \in Nat /\ PointAt(ms, c, 0) \in Point
      /\ Got(ms, c) \in [1 .. Len(ms) -> Nat]
  BY CursorFacts
<1>5. Carries(ms, c, c, <<>>, <<>>)
  <2>1. Plan(Traffic(ms), <<>>, <<>>, p)
    <3>1. p[1].t <= p[1].t /\ p[1].r <= p[1].r
      BY <1>4 DEF Point
    <3>2. p \in [1 .. Len(<<>>) + 1 -> Point]
      BY <1>4
    <3>3. Climbs(p, Len(<<>>) + 1)
      BY <3>1 DEF Climbs
    <3> HIDE DEF p
    <3> QED BY <3>2, <3>3 DEF Plan
  <2>2. p[1] = PointAt(ms, c, 0)
    OBVIOUS
  <2> HIDE DEF p
  <2> QED BY <2>1, <2>2 DEF Carries, PlanTo
<1>6. Stores(ms, c, c, <<>>, 0)
  <2>1. RxPlan(ms, <<>>, ReadsAt(ms, c), g, v)
    BY <1>4 DEF RxPlan
  <2>2. g[1] = Got(ms, c) /\ v[1] = 0 /\ Len(<<>>) + 1 = 1
    OBVIOUS
  <2> HIDE DEF g, v
  <2> QED BY <1>4, <2>1, <2>2 DEF Stores, RxPlanTo
<1>7. Fits(<<>>, <<>>, 0, <<>>)
  BY I2cAssumption DEF Fits
<1> QED BY <1>5, <1>6, <1>7 DEF Sound, NoEnd

LEMMA NoEndAppend ==
  ASSUME NEW cm \in Seq(Cmd), NEW c \in Cmd, NoEnd(cm), c[1] \notin Ends
  PROVE  NoEnd(Append(cm, c)) /\ Append(cm, c) \in Seq(Cmd) /\ Len(Append(cm, c)) = Len(cm) + 1
BY DEF NoEnd

(* The cursor inside message i.                                            *)
In(i, p) == [msg |-> i, pos |-> p, addressed |-> TRUE]
Base(ms, i) == Len(TrafficTo(ms)[i - 1])
ReadBefore(ms, i) == ReadsTo(ms)[i - 1]

InFacts(ms, i, p, t, a) ==
  /\ a = PointAt(ms, In(i, p), t)
  /\ InRange(ms, In(i, p)) /\ a \in Point
  /\ a.o = Base(ms, i) + (2 + p) /\ a.t = t /\ a.r = ReadsAt(ms, In(i, p))
  /\ ReadsAt(ms, In(i, p)) = ReadBefore(ms, i) + (IF ms[i].rd THEN p ELSE 0)
  /\ Base(ms, i) \in Nat /\ ReadBefore(ms, i) \in Nat /\ Len(Traffic(ms)) \in Nat
  /\ Base(ms, i) + (2 + p) <= Len(Traffic(ms))
Inside(ms, i, p) == p \in Nat /\ p <= ms[i].len

LEMMA InMessage ==
  ASSUME NEW ms \in Seq(I2cMsg), NEW i \in 1 .. Len(ms), NEW p, Inside(ms, i, p), NEW t \in Nat
  PROVE  InFacts(ms, i, p, t, PointAt(ms, In(i, p), t))
<1>0. p \in Nat /\ p <= ms[i].len
  BY DEF Inside
<1>1. ms[i].len \in Nat /\ ms[i].rd \in BOOLEAN /\ Len(ms) \in Nat
  BY MsgIs
<1> DEFINE c == In(i, p)
<1>2. c = [msg |-> i, pos |-> p, addressed |-> TRUE]
  BY DEF In
<1> HIDE DEF c
<1>3. c.msg = i /\ c.pos = p /\ c.addressed = TRUE /\ c \in Cursor
  BY <1>0, <1>2 DEF Cursor
<1>4. InRange(ms, c)
  BY <1>0, <1>1, <1>3 DEF InRange
<1>5. PointAt(ms, c, t) \in Point /\ Len(Traffic(ms)) \in Nat /\ Offset(ms, c) < Len(Traffic(ms))
  BY <1>4, CursorFacts
<1>6. Offset(ms, c) = Base(ms, i) + (2 + p)
  BY <1>3 DEF Offset, Base
<1>7. Base(ms, i) \in Nat
  BY AtMessage DEF Base
<1>8. ReadBefore(ms, i) \in Nat
  <2>1. ReadsTo(ms) \in [0 .. Len(ms) -> Nat] /\ i - 1 \in 0 .. Len(ms)
    BY <1>1, ReadsAre
  <2> QED BY <2>1 DEF ReadBefore
<1>9. ReadsAt(ms, c) = ReadBefore(ms, i) + (IF ms[i].rd THEN p ELSE 0)
  BY <1>3 DEF ReadsAt, ReadBefore
<1>10. /\ PointAt(ms, c, t).o = Offset(ms, c) /\ PointAt(ms, c, t).t = t
       /\ PointAt(ms, c, t).r = ReadsAt(ms, c)
  BY DEF PointAt
<1> DEFINE w == Len(Traffic(ms))
           x == Base(ms, i)
<1>11. x + (2 + p) <= w
  <2>1. x + (2 + p) < w /\ x \in Nat /\ w \in Nat
    BY <1>5, <1>6, <1>7
  <2> HIDE DEF x, w
  <2> QED BY <1>0, <2>1
<1> QED
  BY <1>4, <1>5, <1>6, <1>7, <1>8, <1>9, <1>10, <1>11 DEF c, InFacts

LEMMA InData ==
  ASSUME NEW ms \in Seq(I2cMsg), NEW i \in 1 .. Len(ms), NEW j \in Nat, 1 <= j, j <= ms[i].len
  PROVE  Traffic(ms)[Base(ms, i) + (2 + j)] = DataItem(ms, i, j)
<1>1. /\ \A k \in 1 .. ms[i].len :
             Traffic(ms)[Len(TrafficTo(ms)[i - 1]) + 2 + k] = DataItem(ms, i, k)
      /\ Len(TrafficTo(ms)[i - 1]) \in Nat /\ ms[i].len \in Nat
  BY AtMessage
<1> DEFINE b == Len(TrafficTo(ms)[i - 1])
           l == ms[i].len
<1>2. b + 2 + j = b + (2 + j) /\ j \in 1 .. l
  <2>1. b \in Nat /\ l \in Nat /\ j <= l
    BY <1>1
  <2> HIDE DEF b, l
  <2> QED BY <2>1
<1>3. Traffic(ms)[b + 2 + j] = DataItem(ms, i, j)
  BY <1>1, <1>2
<1> QED BY <1>2, <1>3 DEF Base

LEMMA ExtendsSame ==
  ASSUME NEW tb \in Seq(Item) PROVE Extends(tb, tb)
BY DEF Extends

(* A READ of n bytes of message i.                                         *)
LEMMA ReadCarries ==
  ASSUME NEW ms \in Seq(I2cMsg), NEW i \in 1 .. Len(ms), ms[i].rd, NEW p \in Nat, NEW n \in Nat,
         p + n <= ms[i].len, NEW ack \in BOOLEAN,
         \A j \in 1 .. n : ack = (p + j < ms[i].len),
         NEW c0, NEW cm \in Seq(Cmd), NEW tb \in Seq(Item), Carries(ms, c0, In(i, p), cm, tb)
  PROVE  Carries(ms, c0, In(i, p + n), Append(cm, <<"READ", n, ack>>), tb)
<1> DEFINE cd == <<"READ", n, ack>>
           t == Len(tb)
           a == PointAt(ms, In(i, p), t)
           b == PointAt(ms, In(i, p + n), t)
           W == Traffic(ms)
<1>1. t \in Nat /\ ms[i].len \in Nat /\ p <= ms[i].len /\ p + n \in Nat
  <2>1. ms[i].len \in Nat /\ t \in Nat
    BY MsgIs
  <2>2. p <= ms[i].len /\ p + n \in Nat
    BY ONLY <2>1, p \in Nat, n \in Nat, p + n <= ms[i].len, SumWithin
  <2> QED BY <2>1, <2>2
<1>0. Inside(ms, i, p) /\ Inside(ms, i, p + n)
  BY <1>1 DEF Inside
<1> DEFINE base == Base(ms, i)
           r0 == ReadBefore(ms, i)
<1>2. /\ a.o = base + (2 + p) /\ a.t = t /\ a.r = r0 + p /\ base \in Nat /\ r0 \in Nat
  <2>1. InFacts(ms, i, p, t, a)
    BY <1>0, <1>1, InMessage
  <2> HIDE DEF a, t
  <2> QED BY <2>1 DEF InFacts
<1>3. /\ b \in Point /\ b.o = base + (2 + (p + n)) /\ b.t = t /\ b.r = r0 + (p + n)
      /\ b.o <= Len(W)
  <2>1. InFacts(ms, i, p + n, t, b)
    BY <1>0, <1>1, InMessage
  <2> HIDE DEF b, t
  <2> QED BY <2>1 DEF InFacts
<1>4. ASSUME NEW j \in 1 .. n PROVE W[a.o + j] = <<"R", a.r + j, ack>>
  <2>1. p + j \in Nat /\ 1 <= p + j /\ p + j <= ms[i].len
    BY ONLY <1>1, j \in 1 .. n, p \in Nat, n \in Nat, p + n <= ms[i].len
  <2>2. W[base + (2 + (p + j))] = DataItem(ms, i, p + j)
    BY <2>1, InData
  <2>3. DataItem(ms, i, p + j) = <<"R", r0 + (p + j), p + j < ms[i].len>>
    BY DEF DataItem, ReadBefore
  <2>4. a.o + j = base + (2 + (p + j)) /\ a.r + j = r0 + (p + j)
    <3> HIDE DEF base, r0, a
    <3> QED BY <1>2
  <2>5. ack = (p + j < ms[i].len)
    OBVIOUS
  <2> QED BY <2>2, <2>3, <2>4, <2>5
<1>5. b.o = a.o + n /\ b.t = a.t /\ b.r = a.r + n
  <2> HIDE DEF base, r0, a, b
  <2>1. base \in Nat /\ r0 \in Nat
    BY <1>2
  <2>2. base + (2 + (p + n)) = (base + (2 + p)) + n /\ r0 + (p + n) = (r0 + p) + n
    BY ONLY <2>1, n \in Nat, p \in Nat, PlusNext
  <2>3. b.o = base + (2 + (p + n)) /\ b.t = t /\ b.r = r0 + (p + n)
    BY <1>3
  <2>4. a.o = base + (2 + p) /\ a.t = t /\ a.r = r0 + p
    BY <1>2
  <2> QED BY ONLY <2>2, <2>3, <2>4
<1>6. cd \in Cmd
  BY DEF Cmd
<1> HIDE DEF a, b, base, r0, W
<1>7. ReadsIn(W, cd, a, b)
  BY <1>4, <1>5 DEF ReadsIn
<1> HIDE DEF cd
<1>8. Runs(W, cd, tb, a, b)
  BY <1>1, <1>3, <1>7 DEF Runs
<1>9. PlanTo(W, cm, tb, PointAt(ms, c0, 0), a)
  BY DEF Carries, a, W
<1>10. PlanTo(W, Append(cm, cd), tb, PointAt(ms, c0, 0), b)
  BY <1>3, <1>6, <1>8, <1>9, ExtendsSame, PlanToAppend
<1> QED BY <1>10 DEF Carries, cd, b, W

LEMMA ReadStores ==
  ASSUME NEW ms \in Seq(I2cMsg), NEW i \in 1 .. Len(ms), ms[i].rd, NEW p \in Nat, NEW n \in Nat,
         p + n <= ms[i].len, NEW c0, InRange(ms, c0),
         NEW rb \in Seq(RxEntry), NEW m \in Nat, Stores(ms, c0, In(i, p), rb, m)
  PROVE  Stores(ms, c0, In(i, p + n), Append(rb, [msg |-> i, n |-> n]), m + n)
<1> DEFINE e == [msg |-> i, n |-> n]
           c == In(i, p)
           d == In(i, p + n)
           rs == ReadsAt(ms, c0)
           r0 == ReadBefore(ms, i)
<1>1. ms[i].len \in Nat /\ p <= ms[i].len /\ p + n \in Nat /\ Len(ms) \in Nat
  BY MsgIs
<1>2. Inside(ms, i, p) /\ Inside(ms, i, p + n)
  BY <1>1 DEF Inside
<1>3. ReadsAt(ms, c) = r0 + p /\ r0 \in Nat /\ InRange(ms, c)
  <2>1. InFacts(ms, i, p, 0, PointAt(ms, c, 0))
    BY <1>2, InMessage
  <2> HIDE DEF c
  <2> QED BY <2>1 DEF InFacts, c
<1>4. ReadsAt(ms, d) = r0 + (p + n) /\ InRange(ms, d)
  <2>1. InFacts(ms, i, p + n, 0, PointAt(ms, d, 0))
    BY <1>2, InMessage
  <2> HIDE DEF d
  <2> QED BY <2>1 DEF InFacts, d
<1>5. c.msg = i /\ c.pos = p /\ d.msg = i /\ d.pos = p + n
  BY DEF In
<1> HIDE DEF c, d
<1>6. /\ Got(ms, c) \in [1 .. Len(ms) -> Nat] /\ Got(ms, d) \in [1 .. Len(ms) -> Nat]
      /\ rs \in Nat
  BY <1>3, <1>4, CursorFacts
<1>7. ReadsAt(ms, c) = rs + m /\ RxPlanTo(ms, rb, rs, Got(ms, c0), Got(ms, c), m)
  BY DEF Stores, c
<1>8. Got(ms, c)[i] = p
  BY <1>1, <1>5 DEF Got
<1>9. Got(ms, d) = [Got(ms, c) EXCEPT ![i] = @ + n]
  <2>1. ASSUME NEW k \in 1 .. Len(ms)
        PROVE  Got(ms, d)[k] = IF k = i THEN p + n ELSE Got(ms, c)[k]
    <3>1. CASE k = i
      BY <1>1, <1>5, <3>1 DEF Got
    <3>2. CASE k # i
      BY <1>1, <1>5, <3>2 DEF Got
    <3> QED BY <3>1, <3>2
  <2> DEFINE G == Got(ms, c)
             H == Got(ms, d)
  <2>2. /\ G \in [1 .. Len(ms) -> Nat] /\ H \in [1 .. Len(ms) -> Nat] /\ G[i] = p
        /\ \A k \in 1 .. Len(ms) : H[k] = IF k = i THEN p + n ELSE G[k]
    BY <1>6, <1>8, <2>1
  <2> HIDE DEF G, H
  <2>3. H = [G EXCEPT ![i] = @ + n]
    BY <2>2
  <2> QED BY <2>3 DEF G, H
<1>10. e \in RxEntry /\ e.msg = i /\ e.n = n
  BY DEF RxEntry
<1> HIDE DEF e, rs
<1>11. Takes(ms, rs, e, Got(ms, c), Got(ms, d), m, m + n)
  BY <1>3, <1>7, <1>8, <1>9, <1>10 DEF Takes, ReadBefore, r0
<1>12. RxPlanTo(ms, Append(rb, e), rs, Got(ms, c0), Got(ms, d), m + n)
  <2>1. m + n \in Nat
    OBVIOUS
  <2> QED BY <1>6, <1>7, <1>10, <1>11, <2>1, RxToAppend
<1>13. ReadsAt(ms, d) = rs + (m + n)
  <2> DEFINE x == ReadsAt(ms, c)
             y == ReadsAt(ms, d)
  <2>1. x = r0 + p /\ x = rs + m /\ y = r0 + (p + n)
    BY <1>3, <1>4, <1>7
  <2> HIDE DEF x, y, r0
  <2> QED BY <1>3, <1>6, <2>1 DEF y
<1> QED BY <1>12, <1>13 DEF Stores, d, e, rs

Added(tb, by, tx2) ==
  /\ Extends(tb, tx2) /\ tx2 \in Seq(Item) /\ Len(tx2) = Len(tb) + Len(by)
  /\ \A j \in 1 .. Len(by) : tx2[Len(tb) + j] = by[j]

LEMMA AddBytes ==
  ASSUME NEW tb \in Seq(Item), NEW by \in Seq(Item) PROVE Added(tb, by, tb \o by)
<1> DEFINE tx2 == tb \o by
<1>1. /\ tx2 \in Seq(Item) /\ Len(tx2) = Len(tb) + Len(by) /\ \A j \in 1 .. Len(tb) : tx2[j] = tb[j]
      /\ \A j \in 1 .. Len(by) : tx2[Len(tb) + j] = by[j]
  BY Concat
<1>2. Len(tb) \in Nat /\ Len(by) \in Nat
  OBVIOUS
<1> HIDE DEF tx2
<1>3. Len(tb) <= Len(tx2)
  BY <1>1, <1>2
<1>4. Added(tb, by, tx2)
  BY <1>1, <1>3 DEF Added, Extends
<1> QED BY <1>4 DEF tx2

(* A WRITE of n bytes of message i.                                        *)
LEMMA WriteCarries ==
  ASSUME NEW ms \in Seq(I2cMsg), NEW i \in 1 .. Len(ms), ~ms[i].rd, NEW p \in Nat, NEW n \in Nat,
         p + n <= ms[i].len, NEW c0, NEW cm \in Seq(Cmd), NEW tb \in Seq(Item),
         Carries(ms, c0, In(i, p), cm, tb),
         NEW by \in Seq(Item), Len(by) = n, \A j \in 1 .. n : by[j] = <<"W", i, p + j>>
  PROVE  Carries(ms, c0, In(i, p + n), Append(cm, <<"WRITE", n>>), tb \o by)
<1> DEFINE cd == <<"WRITE", n>>
           t == Len(tb)
           tx2 == tb \o by
           a == PointAt(ms, In(i, p), t)
           b == PointAt(ms, In(i, p + n), t + n)
           W == Traffic(ms)
<1>1. /\ t \in Nat /\ ms[i].len \in Nat /\ p <= ms[i].len /\ p + n \in Nat /\ t + n \in Nat
  <2>1. ms[i].len \in Nat /\ t \in Nat
    BY MsgIs
  <2>2. p <= ms[i].len /\ p + n \in Nat
    BY ONLY <2>1, p \in Nat, n \in Nat, p + n <= ms[i].len, SumWithin
  <2>3. t + n \in Nat
    BY ONLY <2>1, n \in Nat
  <2> QED BY <2>1, <2>2, <2>3
<1>0. Inside(ms, i, p) /\ Inside(ms, i, p + n)
  BY <1>1 DEF Inside
<1> DEFINE base == Base(ms, i)
           r0 == ReadBefore(ms, i)
<1>2. /\ a.o = base + (2 + p) /\ a.t = t /\ a.r = r0 + 0 /\ base \in Nat /\ r0 \in Nat
  <2>1. InFacts(ms, i, p, t, a)
    BY <1>0, <1>1, InMessage
  <2> HIDE DEF a, t
  <2> QED BY <2>1 DEF InFacts
<1>3. /\ b \in Point /\ b.o = base + (2 + (p + n)) /\ b.t = t + n /\ b.r = r0 + 0
      /\ b.o <= Len(W)
  <2>1. InFacts(ms, i, p + n, t + n, b)
    BY <1>0, <1>1, InMessage
  <2> HIDE DEF b, t
  <2> QED BY <2>1 DEF InFacts
<1>4. /\ tx2 \in Seq(Item) /\ Len(tx2) = t + n /\ \A j \in 1 .. t : tx2[j] = tb[j]
      /\ \A j \in 1 .. n : tx2[t + j] = by[j]
  <2>1. Added(tb, by, tx2)
    BY AddBytes
  <2>2. Len(by) = n
    OBVIOUS
  <2> HIDE DEF tx2
  <2> QED BY ONLY <2>1, <2>2 DEF Added, Extends, t
<1>8. Extends(tb, tx2)
  <2>1. Added(tb, by, tx2)
    BY AddBytes
  <2> HIDE DEF tx2
  <2> QED BY <2>1 DEF Added
<1> HIDE DEF tx2
<1>5. ASSUME NEW j \in 1 .. n PROVE tx2[a.t + j] = W[a.o + j] /\ W[a.o + j][1] # "R"
  <2>1. p + j \in Nat /\ 1 <= p + j /\ p + j <= ms[i].len
    BY ONLY <1>1, j \in 1 .. n, p \in Nat, n \in Nat, p + n <= ms[i].len
  <2>2. W[base + (2 + (p + j))] = DataItem(ms, i, p + j)
    BY <2>1, InData
  <2>3. DataItem(ms, i, p + j) = <<"W", i, p + j>>
    BY DEF DataItem
  <2>4. a.o + j = base + (2 + (p + j))
    <3> HIDE DEF base, r0, a
    <3> QED BY <1>2
  <2>5. tx2[a.t + j] = <<"W", i, p + j>>
    BY <1>2, <1>4
  <2>6. <<"W", i, p + j>>[1] # "R"
    OBVIOUS
  <2> HIDE DEF a, base
  <2> QED BY <2>2, <2>3, <2>4, <2>5, <2>6
<1>6. b.o = a.o + n /\ b.t = a.t + n /\ b.r = a.r
  <2> HIDE DEF base, r0, a, b, t
  <2> QED BY <1>2, <1>3
<1>7. cd \in Cmd
  BY DEF Cmd
<1> HIDE DEF a, b, base, r0, W
<1>9. Writes(W, cd, tx2, a, b)
  BY <1>5, <1>6 DEF Writes, BytesAre
<1> HIDE DEF cd
<1>10. Runs(W, cd, tx2, a, b)
  BY <1>1, <1>3, <1>4, <1>9 DEF Runs
<1>11. PlanTo(W, cm, tb, PointAt(ms, c0, 0), a)
  BY DEF Carries, a, W
<1>12. PlanTo(W, Append(cm, cd), tx2, PointAt(ms, c0, 0), b)
  BY <1>3, <1>4, <1>7, <1>8, <1>10, <1>11, PlanToAppend
<1> QED BY <1>4, <1>12 DEF Carries, cd, b, W, tx2

LEMMA SameStores ==
  ASSUME NEW ms, NEW c0, NEW c, NEW d, NEW rb, NEW m, Stores(ms, c0, c, rb, m),
         ReadsAt(ms, d) = ReadsAt(ms, c), Got(ms, d) = Got(ms, c)
  PROVE  Stores(ms, c0, d, rb, m)
BY DEF Stores

LEMMA WriteStores ==
  ASSUME NEW ms \in Seq(I2cMsg), NEW i \in 1 .. Len(ms), ~ms[i].rd, NEW c, NEW p \in Nat,
         c.msg = i, ~c.addressed \/ c.pos \in Nat,
         NEW c0, NEW rb, NEW m, Stores(ms, c0, c, rb, m)
  PROVE  Stores(ms, c0, In(i, p), rb, m)
<1> DEFINE d == In(i, p)
<1>1. d.msg = i /\ d.pos = p /\ d.addressed = TRUE
  BY DEF In
<1>2. Len(ms) \in Nat /\ ReadsTo(ms)[i - 1] \in Nat
  <2>1. ReadsTo(ms) \in [0 .. Len(ms) -> Nat] /\ i - 1 \in 0 .. Len(ms) /\ Len(ms) \in Nat
    BY ReadsAre
  <2> QED BY <2>1
<1> HIDE DEF d
<1>3. Got(ms, d) = Got(ms, c)
  BY <1>1, <1>2 DEF Got
<1>4. ReadsAt(ms, d) = ReadsAt(ms, c)
  BY <1>1, <1>2 DEF ReadsAt
<1>5. Stores(ms, c0, d, rb, m)
  BY <1>3, <1>4, SameStores
<1> QED BY <1>5 DEF d

(* The start and the address of message i.                                 *)
LEMMA AddrCarries ==
  ASSUME NEW ms \in Seq(I2cMsg), NEW i \in 1 .. Len(ms), NEW c, c.msg = i, ~c.addressed,
         NEW c0, NEW cm \in Seq(Cmd), NEW tb \in Seq(Item), Carries(ms, c0, c, cm, tb)
  PROVE  Carries(ms, c0, In(i, 0), Append(Append(cm, <<"RSTART">>), <<"WRITE", 1>>),
                 Append(tb, <<"A", i>>))
<1> DEFINE cs == <<"RSTART">>
           cw == <<"WRITE", 1>>
           e == <<"A", i>>
           t == Len(tb)
           tx2 == Append(tb, e)
           W == Traffic(ms)
           a == PointAt(ms, c, t)
           base == Base(ms, i)
           r0 == ReadBefore(ms, i)
           a1 == [o |-> base + 1, t |-> t, r |-> r0]
           a2 == PointAt(ms, In(i, 0), t + 1)
<1>1. t \in Nat /\ t + 1 \in Nat /\ ms[i].len \in Nat
  BY MsgIs
<1>2. Inside(ms, i, 0)
  BY <1>1 DEF Inside
<1>3. /\ a2 \in Point /\ a2.o = base + (2 + 0) /\ a2.t = t + 1 /\ a2.r = r0 + 0
      /\ base \in Nat /\ r0 \in Nat /\ Len(W) \in Nat /\ base + (2 + 0) <= Len(W)
  <2>1. InFacts(ms, i, 0, t + 1, a2)
    BY <1>1, <1>2, InMessage
  <2> HIDE DEF a2, t
  <2> QED BY <2>1 DEF InFacts
<1>4. a.o = base + 0 /\ a.t = t /\ a.r = r0 + 0
  BY DEF PointAt, Offset, ReadsAt, Base, ReadBefore
<1>5. a1 \in Point /\ a1.o = base + 1 /\ a1.t = t /\ a1.r = r0
  BY <1>1, <1>3 DEF Point
<1>6. W[base + 1] = <<"S">> /\ W[base + 2] = e
  BY AtMessage DEF Base
<1>7. cs \in Cmd /\ cw \in Cmd /\ e \in Item /\ e[1] # "R"
  BY DEF Cmd, Item
<1> HIDE DEF e
<1>8. /\ tx2 \in Seq(Item) /\ Len(tx2) = t + 1 /\ tx2[t + 1] = e
      /\ \A k \in 1 .. t : tx2[k] = tb[k]
  BY <1>7
<1>9. Extends(tb, tx2)
  <2> HIDE DEF tx2
  <2> QED BY <1>1, <1>8 DEF Extends
<1> HIDE DEF a, a1, a2, base, r0, W, tx2
<1>10. Starts(W, cs, a, a1)
  BY <1>3, <1>4, <1>5, <1>6 DEF Starts
<1>11. Runs(W, cs, tb, a, a1)
  <2>1. a1.o <= Len(W) /\ a1.t <= Len(tb)
    <3> DEFINE w == Len(W)
    <3>1. w \in Nat /\ base + (2 + 0) <= w
      BY <1>3
    <3> HIDE DEF w
    <3>2. base + 1 <= w
      BY <1>3, <3>1
    <3> QED BY <1>1, <1>5, <3>2 DEF w
  <2> QED BY <1>10, <2>1 DEF Runs
<1>12. BytesAre(W, tx2, a1.o, a1.t, 1)
  <2>1. base + 1 + 1 = base + 2
    BY <1>3
  <2>2. W[(base + 1) + 1] = e /\ tx2[t + 1] = e
    BY <1>6, <1>8, <2>1
  <2> SUFFICES ASSUME NEW j \in 1 .. 1
               PROVE  tx2[a1.t + j] = W[a1.o + j] /\ W[a1.o + j][1] # "R"
    BY DEF BytesAre
  <2>3. j = 1
    OBVIOUS
  <2> QED BY <1>5, <1>7, <2>2, <2>3
<1>13. a2.o = a1.o + 1 /\ a2.t = a1.t + 1 /\ a2.r = a1.r
  <2> HIDE DEF t
  <2> QED BY <1>1, <1>3, <1>5
<1>14. Writes(W, cw, tx2, a1, a2)
  BY <1>12, <1>13 DEF Writes
<1>15. Runs(W, cw, tx2, a1, a2)
  BY <1>1, <1>3, <1>8, <1>14 DEF Runs
<1> HIDE DEF cs, cw
<1>16. PlanTo(W, cm, tb, PointAt(ms, c0, 0), a)
  BY DEF Carries, a, W
<1> DEFINE cm1 == Append(cm, cs)
<1>17. cm1 \in Seq(Cmd)
  BY <1>7
<1>18. PlanTo(W, cm1, tb, PointAt(ms, c0, 0), a1)
  BY <1>5, <1>7, <1>11, <1>16, ExtendsSame, PlanToAppend
<1> HIDE DEF cm1
<1>19. PlanTo(W, Append(cm1, cw), tx2, PointAt(ms, c0, 0), a2)
  BY <1>3, <1>7, <1>8, <1>9, <1>15, <1>17, <1>18, PlanToAppend
<1> QED BY <1>8, <1>19 DEF Carries, cm1, cs, cw, a2, W, tx2, e

LEMMA AddrStores ==
  ASSUME NEW ms \in Seq(I2cMsg), NEW i \in 1 .. Len(ms), NEW c, InRange(ms, c), c.msg = i,
         ~c.addressed, NEW c0, NEW rb, NEW m, Stores(ms, c0, c, rb, m)
  PROVE  Stores(ms, c0, In(i, 0), rb, m)
<1> DEFINE d == In(i, 0)
<1>1. d.msg = i /\ d.pos = 0 /\ d.addressed = TRUE
  BY DEF In
<1>2. c.pos = 0
  BY DEF InRange
<1> HIDE DEF d
<1>3. Got(ms, d) = Got(ms, c)
  BY <1>1, <1>2 DEF Got
<1>4. ReadsAt(ms, d) = ReadsAt(ms, c)
  BY <1>1, <1>2 DEF ReadsAt
<1>5. Stores(ms, c0, d, rb, m)
  BY <1>3, <1>4, SameStores
<1> QED BY <1>5 DEF d

-----------------------------------------------------------------------------
(* One turn of esp32s31_i2c_fill.                                          *)

LEMMA SoundAddr ==
  ASSUME NEW ms \in Seq(I2cMsg), NEW c0, NEW c, NEW cm, NEW tb, NEW n, NEW rb,
         Sound(ms, c0, c, cm, tb, n, rb), NEW i \in 1 .. Len(ms), c.msg = i, ~c.addressed,
         Len(cm) + 3 <= NCMDS - 1, Len(tb) # FIFO
  PROVE  Sound(ms, c0, In(i, 0), Append(Append(cm, <<"RSTART">>), <<"WRITE", 1>>),
               Append(tb, <<"A", i>>), n, rb)
<1> DEFINE cs == <<"RSTART">>
           cw == <<"WRITE", 1>>
           e == <<"A", i>>
           cm1 == Append(cm, cs)
           cm2 == Append(cm1, cw)
           tx2 == Append(tb, e)
<1>1. /\ Fits(cm, tb, n, rb) /\ InRange(ms, c) /\ NoEnd(cm)
      /\ Carries(ms, c0, c, cm, tb) /\ Stores(ms, c0, c, rb, n)
  BY DEF Sound
<1>2. cm \in Seq(Cmd) /\ tb \in Seq(Item) /\ n \in Nat
  BY <1>1 DEF Fits
<1>3. cs \in Cmd /\ cw \in Cmd /\ e \in Item /\ cs[1] \notin Ends /\ cw[1] \notin Ends
  BY DEF Cmd, Item, Ends
<1>4. Carries(ms, c0, In(i, 0), cm2, tx2)
  BY <1>1, <1>2, AddrCarries
<1>5. Stores(ms, c0, In(i, 0), rb, n)
  BY <1>1, AddrStores
<1>6. InRange(ms, In(i, 0))
  <2>1. Inside(ms, i, 0)
    BY MsgIs DEF Inside
  <2>2. InFacts(ms, i, 0, 0, PointAt(ms, In(i, 0), 0))
    BY <2>1, InMessage
  <2> QED BY <2>2 DEF InFacts
<1>7. Len(cm) + 3 <= NCMDS - 1 /\ Len(tb) # FIFO
  OBVIOUS
<1> HIDE DEF cs, cw, e
<1>8. NoEnd(cm1) /\ cm1 \in Seq(Cmd) /\ Len(cm1) = Len(cm) + 1
  BY <1>1, <1>2, <1>3, NoEndAppend
<1> HIDE DEF cm1
<1>9. NoEnd(cm2) /\ cm2 \in Seq(Cmd) /\ Len(cm2) = Len(cm1) + 1
  BY <1>3, <1>8, NoEndAppend
<1>10. tx2 \in Seq(Item) /\ Len(tx2) = Len(tb) + 1 /\ Len(tb) \in Nat /\ Len(cm) \in Nat
  BY <1>2, <1>3
<1> HIDE DEF cm2, tx2
<1>11. Fits(cm2, tx2, n, rb)
  <2>1. rb \in Seq(RxEntry) /\ Len(rb) <= Len(cm) /\ n <= FIFO /\ Len(tb) <= FIFO /\ Len(rb) \in Nat
    BY <1>1 DEF Fits
  <2>2. Len(cm2) = Len(cm) + 2
    BY <1>8, <1>9, <1>10
  <2>3. Len(cm2) <= NCMDS - 1 /\ Len(tx2) <= FIFO /\ Len(rb) <= Len(cm2)
    BY <1>7, <1>10, <2>1, <2>2, I2cAssumption
  <2> QED BY <1>2, <1>9, <1>10, <2>1, <2>3 DEF Fits
<1>12. Sound(ms, c0, In(i, 0), cm2, tx2, n, rb)
  BY <1>4, <1>5, <1>6, <1>9, <1>11 DEF Sound
<1> QED BY <1>12 DEF cm2, cm1, tx2, cs, cw, e

LEMMA SoundWrite ==
  ASSUME NEW ms \in Seq(I2cMsg), NEW i \in 1 .. Len(ms), ~ms[i].rd, NEW p \in Nat, NEW k \in Nat,
         p + k <= ms[i].len, NEW c0, NEW cm, NEW tb, NEW n, NEW rb,
         Sound(ms, c0, In(i, p), cm, tb, n, rb), Len(tb) + k <= FIFO, Len(cm) + 1 <= NCMDS - 1
  PROVE  Sound(ms, c0, In(i, p + k), Append(cm, <<"WRITE", k>>),
               tb \o [j \in 1 .. k |-> <<"W", i, p + j>>], n, rb)
<1> DEFINE cw == <<"WRITE", k>>
           It(j) == <<"W", i, p + j>>
           by == [j \in 1 .. k |-> It(j)]
           cm2 == Append(cm, cw)
           tx2 == tb \o by
           c == In(i, p)
           d == In(i, p + k)
<1>1. /\ Fits(cm, tb, n, rb) /\ NoEnd(cm)
      /\ Carries(ms, c0, c, cm, tb) /\ Stores(ms, c0, c, rb, n)
  BY DEF Sound
<1>2. cm \in Seq(Cmd) /\ tb \in Seq(Item) /\ n \in Nat
  BY <1>1 DEF Fits
<1>3. cw \in Cmd /\ cw[1] \notin Ends
  BY DEF Cmd, Ends
<1>4. by \in Seq(Item) /\ Len(by) = k /\ \A j \in 1 .. k : by[j] = <<"W", i, p + j>>
  <2>1. \A j \in 1 .. k : It(j) \in Item
    BY DEF Item
  <2> HIDE DEF It
  <2>2. by \in Seq(Item) /\ Len(by) = k /\ \A j \in 1 .. k : by[j] = It(j)
    BY <2>1
  <2> QED BY <2>2 DEF It
<1>5. p + k \in Nat /\ Inside(ms, i, p + k) /\ Len(tb) + k <= FIFO /\ Len(cm) + 1 <= NCMDS - 1
  BY MsgIs DEF Inside
<1>6. InRange(ms, d)
  <2>1. InFacts(ms, i, p + k, 0, PointAt(ms, d, 0))
    BY <1>5, InMessage
  <2> QED BY <2>1 DEF InFacts
<1> HIDE DEF by
<1>7. Carries(ms, c0, d, cm2, tx2)
  BY <1>1, <1>2, <1>4, WriteCarries
<1>8. Stores(ms, c0, d, rb, n)
  <2>1. c.msg = i /\ c.pos \in Nat
    BY DEF In
  <2> HIDE DEF c
  <2> QED BY <1>1, <1>5, <2>1, WriteStores
<1> HIDE DEF cw
<1>9. NoEnd(cm2) /\ cm2 \in Seq(Cmd) /\ Len(cm2) = Len(cm) + 1
  BY <1>1, <1>2, <1>3, NoEndAppend
<1>10. tx2 \in Seq(Item) /\ Len(tx2) = Len(tb) + k /\ Len(tb) \in Nat /\ Len(cm) \in Nat
  <2>1. Added(tb, by, tx2)
    BY <1>2, <1>4, AddBytes
  <2>2. Len(by) = k
    BY <1>4
  <2> HIDE DEF tx2
  <2> QED BY <1>2, <2>1, <2>2 DEF Added
<1> HIDE DEF cm2, tx2, d
<1>11. Fits(cm2, tx2, n, rb)
  <2>1. rb \in Seq(RxEntry) /\ Len(rb) <= Len(cm) /\ n <= FIFO /\ Len(rb) \in Nat
    BY <1>1 DEF Fits
  <2>2. Len(cm2) <= NCMDS - 1 /\ Len(tx2) <= FIFO /\ Len(rb) <= Len(cm2)
    BY <1>5, <1>9, <1>10, <2>1
  <2> QED BY <1>2, <1>9, <1>10, <2>1, <2>2 DEF Fits
<1>12. Sound(ms, c0, d, cm2, tx2, n, rb)
  BY <1>6, <1>7, <1>8, <1>9, <1>11 DEF Sound
<1> QED BY <1>12 DEF cm2, tx2, cw, by, d

(* The commands of one call of esp32s31_i2c_queue_read.                    *)
ReadList(ms, i, p, k, cm, cm2) ==
  /\ cm2 \in Seq(Cmd) /\ NoEnd(cm2) /\ Len(cm) <= Len(cm2) - 1
  /\ \A c0 : \A tb \in Seq(Item) :
       Carries(ms, c0, In(i, p), cm, tb) => Carries(ms, c0, In(i, p + k), cm2, tb)

LEMMA ReadOne ==
  ASSUME NEW ms \in Seq(I2cMsg), NEW i \in 1 .. Len(ms), ms[i].rd, NEW p \in Nat, NEW k \in Nat,
         p + k <= ms[i].len, NEW ack \in BOOLEAN,
         \A j \in 1 .. k : ack = (p + j < ms[i].len), NEW cm \in Seq(Cmd), NoEnd(cm)
  PROVE  ReadList(ms, i, p, k, cm, Append(cm, <<"READ", k, ack>>))
<1> DEFINE cd == <<"READ", k, ack>>
           cm2 == Append(cm, cd)
<1>1. cd \in Cmd /\ cd[1] \notin Ends
  BY DEF Cmd, Ends
<1>2. \A c0 : \A tb \in Seq(Item) :
        Carries(ms, c0, In(i, p), cm, tb) => Carries(ms, c0, In(i, p + k), cm2, tb)
  BY ReadCarries
<1> HIDE DEF cd
<1>3. NoEnd(cm2) /\ cm2 \in Seq(Cmd) /\ Len(cm2) = Len(cm) + 1
  BY <1>1, NoEndAppend
<1>4. Len(cm) \in Nat
  OBVIOUS
<1> HIDE DEF cm2
<1>5. Len(cm) <= Len(cm2) - 1
  BY <1>3, <1>4
<1>6. ReadList(ms, i, p, k, cm, cm2)
  BY <1>2, <1>3, <1>5 DEF ReadList
<1> QED BY <1>6 DEF cm2, cd

LEMMA SoundRead ==
  ASSUME NEW ms \in Seq(I2cMsg), NEW i \in 1 .. Len(ms), ms[i].rd, NEW p \in Nat, NEW k \in Nat,
         p + k <= ms[i].len, NEW c0, InRange(ms, c0), NEW cm, NEW tb, NEW n, NEW rb,
         Sound(ms, c0, In(i, p), cm, tb, n, rb), n + k <= FIFO,
         NEW cm2, ReadList(ms, i, p, k, cm, cm2), Len(cm2) <= NCMDS - 1
  PROVE  Sound(ms, c0, In(i, p + k), cm2, tb, n + k, Append(rb, [msg |-> i, n |-> k]))
<1> DEFINE e == [msg |-> i, n |-> k]
           rx2 == Append(rb, e)
           c == In(i, p)
           d == In(i, p + k)
<1>1. /\ Fits(cm, tb, n, rb) /\ NoEnd(cm)
      /\ Carries(ms, c0, c, cm, tb) /\ Stores(ms, c0, c, rb, n)
  BY DEF Sound
<1>2. /\ cm \in Seq(Cmd) /\ tb \in Seq(Item) /\ n \in Nat /\ rb \in Seq(RxEntry)
      /\ Len(rb) <= Len(cm) /\ Len(tb) <= FIFO
  BY <1>1 DEF Fits
<1>3. Carries(ms, c0, d, cm2, tb) /\ cm2 \in Seq(Cmd) /\ NoEnd(cm2) /\ Len(cm) <= Len(cm2) - 1
  BY <1>1, <1>2 DEF ReadList
<1>4. Stores(ms, c0, d, rx2, n + k)
  BY <1>1, <1>2, ReadStores
<1>5. p + k \in Nat /\ Inside(ms, i, p + k)
  BY MsgIs DEF Inside
<1>6. InRange(ms, d)
  <2>1. InFacts(ms, i, p + k, 0, PointAt(ms, d, 0))
    BY <1>5, InMessage
  <2> QED BY <2>1 DEF InFacts
<1>7. e \in RxEntry
  BY DEF RxEntry
<1> HIDE DEF e
<1>8. rx2 \in Seq(RxEntry) /\ Len(rx2) = Len(rb) + 1
  BY <1>2, <1>7
<1> HIDE DEF rx2, d
<1>9. Len(rx2) <= Len(cm2)
  <2>1. Len(rb) \in Nat /\ Len(cm) \in Nat /\ Len(cm2) \in Nat
    BY <1>2, <1>3
  <2> QED BY <1>2, <1>3, <1>8, <2>1
<1>10. Fits(cm2, tb, n + k, rx2)
  <2>1. n + k \in Nat /\ n + k <= FIFO /\ Len(cm2) <= NCMDS - 1
    BY <1>2
  <2> QED BY <1>2, <1>3, <1>8, <1>9, <2>1 DEF Fits
<1>11. Sound(ms, c0, d, cm2, tb, n + k, rx2)
  BY <1>3, <1>4, <1>6, <1>10 DEF Sound
<1> QED BY <1>11 DEF rx2, e, d

LEMMA ConcatOne ==
  ASSUME NEW S, NEW s \in Seq(S), NEW e \in S PROVE s \o <<e>> = Append(s, e)
OBVIOUS

LEMMA ConcatTwo ==
  ASSUME NEW S, NEW s \in Seq(S), NEW e \in S, NEW f \in S
  PROVE  s \o <<e, f>> = Append(Append(s, e), f)
OBVIOUS

Mk(ms, c, cm, tb, n, rb, q) ==
  [msgs |-> ms, cur |-> c, cmds |-> cm, tx |-> tb, nread |-> n, rx |-> rb, queued |-> q]
BatchInv(ms, c0, b) ==
  /\ b = Mk(ms, b.cur, b.cmds, b.tx, b.nread, b.rx, b.queued) /\ b.queued \in BOOLEAN
  /\ Sound(ms, c0, b.cur, b.cmds, b.tx, b.nread, b.rx)

Go == TRUE
Halt == FALSE

LEMMA MkFields ==
  ASSUME NEW ms, NEW c, NEW cm, NEW tb, NEW n, NEW rb, NEW q
  PROVE  /\ Mk(ms, c, cm, tb, n, rb, q).msgs = ms /\ Mk(ms, c, cm, tb, n, rb, q).cur = c
         /\ Mk(ms, c, cm, tb, n, rb, q).cmds = cm /\ Mk(ms, c, cm, tb, n, rb, q).tx = tb
         /\ Mk(ms, c, cm, tb, n, rb, q).nread = n /\ Mk(ms, c, cm, tb, n, rb, q).rx = rb
         /\ Mk(ms, c, cm, tb, n, rb, q).queued = q
BY DEF Mk

LEMMA MkQueued ==
  ASSUME NEW ms, NEW c, NEW cm, NEW tb, NEW n, NEW rb, NEW q, NEW q2, NEW b, NEW b2,
         b = Mk(ms, c, cm, tb, n, rb, q), b2 = [b EXCEPT !.queued = q2]
  PROVE  b2 = Mk(ms, c, cm, tb, n, rb, q2)
BY DEF Mk

LEMMA MkInv ==
  ASSUME NEW ms, NEW c, NEW cm, NEW tb, NEW n, NEW rb, NEW q \in BOOLEAN, NEW c0,
         Sound(ms, c0, c, cm, tb, n, rb)
  PROVE  BatchInv(ms, c0, Mk(ms, c, cm, tb, n, rb, q))
<1> DEFINE b == Mk(ms, c, cm, tb, n, rb, q)
<1>1. /\ b.msgs = ms /\ b.cur = c /\ b.cmds = cm /\ b.tx = tb /\ b.nread = n /\ b.rx = rb
      /\ b.queued = q
  BY MkFields
<1> HIDE DEF b
<1>2. b = Mk(ms, c, cm, tb, n, rb, q)
  BY DEF b
<1>3. BatchInv(ms, c0, b)
  BY <1>1, <1>2 DEF BatchInv
<1> QED BY <1>3 DEF b

LEMMA MkRefuse ==
  ASSUME NEW ms, NEW c, NEW cm, NEW tb, NEW n, NEW rb
  PROVE  Refuse(Mk(ms, c, cm, tb, n, rb, Go)) = Mk(ms, c, cm, tb, n, rb, Halt)
<1> DEFINE b == Mk(ms, c, cm, tb, n, rb, Go)
           b2 == Refuse(b)
<1>1. b2 = [b EXCEPT !.queued = Halt]
  BY DEF Refuse, Halt
<1>2. b = Mk(ms, c, cm, tb, n, rb, Go)
  OBVIOUS
<1> HIDE DEF b, b2
<1>3. b2 = Mk(ms, c, cm, tb, n, rb, Halt)
  BY <1>1, <1>2, MkQueued
<1> QED BY <1>3 DEF b2, b

(* What a turn makes of a batch: it has queued something of the message,   *)
(* or it has stopped.                                                      *)
Turned(ms, c0, c, b2) ==
  /\ BatchInv(ms, c0, b2)
  /\ \/ ~b2.queued /\ b2.cur = c
     \/ b2.queued /\ b2.cur.addressed /\ b2.cur.msg = c.msg

LEMMA TurnRefused ==
  ASSUME NEW ms, NEW c0, NEW c, NEW cm, NEW tb, NEW n, NEW rb, Sound(ms, c0, c, cm, tb, n, rb)
  PROVE  Turned(ms, c0, c, Refuse(Mk(ms, c, cm, tb, n, rb, Go)))
<1> DEFINE b == Mk(ms, c, cm, tb, n, rb, Halt)
<1>1. BatchInv(ms, c0, b)
  <2>1. Halt \in BOOLEAN
    BY DEF Halt
  <2> QED BY <2>1, MkInv
<1>2. ~b.queued /\ b.cur = c
  <2>1. b.queued = Halt /\ b.cur = c
    BY MkFields
  <2> HIDE DEF b
  <2> QED BY <2>1 DEF Halt
<1> HIDE DEF b
<1>3. Turned(ms, c0, c, b)
  BY <1>1, <1>2 DEF Turned
<1> QED BY <1>3, MkRefuse DEF b

LEMMA TurnQueued ==
  ASSUME NEW ms, NEW c0, NEW c, NEW i, c.msg = i, NEW p, NEW cm, NEW tb, NEW n, NEW rb,
         Sound(ms, c0, In(i, p), cm, tb, n, rb)
  PROVE  Turned(ms, c0, c, Mk(ms, In(i, p), cm, tb, n, rb, Go))
<1> DEFINE d == In(i, p)
           b == Mk(ms, d, cm, tb, n, rb, Go)
<1>1. d.addressed /\ d.msg = c.msg
  BY DEF In
<1> HIDE DEF d
<1>2. BatchInv(ms, c0, b)
  <2>1. Go \in BOOLEAN
    BY DEF Go
  <2> QED BY <2>1, MkInv DEF d
<1>3. b.queued /\ b.cur = d
  <2>1. b.queued = Go /\ b.cur = d
    BY MkFields
  <2> HIDE DEF b
  <2> QED BY <2>1 DEF Go
<1> HIDE DEF b
<1>4. Turned(ms, c0, c, b)
  BY <1>1, <1>2, <1>3 DEF Turned
<1> QED BY <1>4 DEF b, d

LEMMA CursorIn ==
  ASSUME NEW i, NEW p, NEW q, NEW c, c \in [msg : {i}, pos : {p}, addressed : BOOLEAN],
         NEW d, d = [c EXCEPT !.addressed = q]
  PROVE  d = [msg |-> i, pos |-> p, addressed |-> q]
OBVIOUS

LEMMA QueueAddr ==
  ASSUME NEW ms \in Seq(I2cMsg), NEW c0, NEW c, NEW cm, NEW tb, NEW n, NEW rb,
         Sound(ms, c0, c, cm, tb, n, rb), ~c.addressed, c.msg <= Len(ms)
  PROVE  /\ Turned(ms, c0, c, esp32s31_i2c_queue_addr(Mk(ms, c, cm, tb, n, rb, Go)))
         /\ cm = <<>> /\ tb = <<>> =>
              esp32s31_i2c_queue_addr(Mk(ms, c, cm, tb, n, rb, Go)).queued
<1> DEFINE b == Mk(ms, c, cm, tb, n, rb, Go)
           b2 == esp32s31_i2c_queue_addr(b)
<1>0. b.cur = c /\ b.cmds = cm /\ b.tx = tb
  BY MkFields
<1>1. CASE Len(cm) + 3 > NCMDS - 1 \/ Len(tb) = FIFO
  <2>1. b2 = Refuse(b)
    BY <1>0, <1>1 DEF esp32s31_i2c_queue_addr
  <2>2. ~(cm = <<>> /\ tb = <<>>)
    BY <1>1, I2cAssumption
  <2> QED BY <2>1, <2>2, TurnRefused
<1>2. CASE ~(Len(cm) + 3 > NCMDS - 1 \/ Len(tb) = FIFO)
  <2> DEFINE i == c.msg
             cs == <<"RSTART">>
             cw == <<"WRITE", 1>>
             e == <<"A", i>>
  <2>1. i \in 1 .. Len(ms) /\ c.pos = 0 /\ c \in [msg : {i}, pos : {0}, addressed : BOOLEAN]
    <3>1. InRange(ms, c)
      BY DEF Sound
    <3> QED BY <3>1 DEF InRange, Cursor
  <2>2. cm \in Seq(Cmd) /\ tb \in Seq(Item)
    BY DEF Sound, Fits
  <2>3. Len(cm) + 3 <= NCMDS - 1 /\ Len(tb) # FIFO
    <3>1. Len(cm) \in Nat
      BY <2>2
    <3> QED BY <1>2, <3>1, I2cAssumption
  <2>4. Sound(ms, c0, In(i, 0), Append(Append(cm, cs), cw), Append(tb, e), n, rb)
    BY <2>1, <2>3, SoundAddr
  <2>5. cs \in Cmd /\ cw \in Cmd
    BY DEF Cmd
  <2>6. b2 = [b EXCEPT !.cmds = @ \o <<cs, cw>>, !.tx = Append(@, e), !.cur.addressed = TRUE]
    BY <1>0, <1>2 DEF esp32s31_i2c_queue_addr
  <2>7. [c EXCEPT !.addressed = TRUE] = In(i, 0)
    <3>1. [c EXCEPT !.addressed = Go] = [msg |-> i, pos |-> 0, addressed |-> Go]
      BY <2>1, CursorIn
    <3> QED BY <3>1 DEF In, Go
  <2> HIDE DEF cs, cw, e
  <2>8. cm \o <<cs, cw>> = Append(Append(cm, cs), cw)
    BY <2>2, <2>5, ConcatTwo
  <2> DEFINE cm2 == Append(Append(cm, cs), cw)
             tx2 == Append(tb, e)
             d == In(i, 0)
  <2>9. b2 = Mk(ms, d, cm2, tx2, n, rb, Go)
    <3>1. b2 = [b EXCEPT !.cmds = cm2, !.tx = tx2, !.cur = d]
      <4> HIDE DEF cm2, d, tx2
      <4>1. b.cmds \o <<cs, cw>> = cm2 /\ Append(b.tx, e) = tx2 /\ [b.cur EXCEPT !.addressed = TRUE] = d
        BY <1>0, <2>7, <2>8 DEF cm2, d, tx2
      <4>2. b2 = [b EXCEPT !.cmds = b.cmds \o <<cs, cw>>, !.tx = Append(b.tx, e),
                           !.cur = [b.cur EXCEPT !.addressed = TRUE]]
        BY <2>6
      <4> QED BY <4>1, <4>2
    <3>2. b = Mk(ms, c, cm, tb, n, rb, Go)
      OBVIOUS
    <3> HIDE DEF b, b2, cm2, tx2, d
    <3> QED BY ONLY <3>1, <3>2 DEF Mk
  <2>10. Turned(ms, c0, c, Mk(ms, d, cm2, tx2, n, rb, Go))
    <3> HIDE DEF cm2, tx2
    <3> QED BY <2>4, TurnQueued DEF cm2, tx2
  <2>11. b2.queued
    <3> HIDE DEF b2, d, cm2, tx2
    <3>1. b2.queued = Go
      BY <2>9, MkFields
    <3> QED BY <3>1 DEF Go
  <2> QED BY <2>9, <2>10, <2>11
<1> QED BY <1>1, <1>2

LEMMA InFields ==
  ASSUME NEW i, NEW p PROVE In(i, p).msg = i /\ In(i, p).pos = p /\ In(i, p).addressed
BY DEF In

LEMMA InMove ==
  ASSUME NEW i, NEW p, NEW k, NEW c, c = In(i, p), NEW d, d = [c EXCEPT !.pos = k]
  PROVE  d = In(i, k)
<1> DEFINE q == TRUE
<1>1. c = [msg |-> i, pos |-> p, addressed |-> q]
  BY DEF In
<1> HIDE DEF q
<1>2. d = [msg |-> i, pos |-> k, addressed |-> q]
  BY <1>1
<1> QED BY <1>2 DEF In, q

LEMMA QueueWrite ==
  ASSUME NEW ms \in Seq(I2cMsg), NEW i \in 1 .. Len(ms), ~ms[i].rd, NEW p \in Nat, p < ms[i].len,
         NEW c0, NEW cm, NEW tb, NEW n, NEW rb, Sound(ms, c0, In(i, p), cm, tb, n, rb)
  PROVE  Turned(ms, c0, In(i, p), esp32s31_i2c_queue_write(Mk(ms, In(i, p), cm, tb, n, rb, Go)))
<1> DEFINE c == In(i, p)
           b == Mk(ms, c, cm, tb, n, rb, Go)
           b2 == esp32s31_i2c_queue_write(b)
           rest == ms[i].len - p
           k == IF rest < FIFO - Len(tb) THEN rest ELSE FIFO - Len(tb)
<1>1. b.cur = c /\ b.cmds = cm /\ b.tx = tb /\ b.msgs = ms
  BY MkFields
<1>2. c.msg = i /\ c.pos = p
  BY InFields
<1>3. /\ Len(tb) \in Nat /\ Len(tb) <= FIFO /\ Len(cm) \in Nat /\ cm \in Seq(Cmd)
  BY DEF Sound, Fits
<1>4. /\ k \in Nat /\ p + k <= ms[i].len /\ Len(tb) + k <= FIFO /\ k <= rest
  <2> DEFINE l == ms[i].len
             t == Len(tb)
  <2>1. l \in Nat /\ p < l /\ t \in Nat /\ t <= FIFO /\ FIFO \in Nat
    BY <1>3, MsgIs, I2cAssumption
  <2> HIDE DEF l, t
  <2>2. LET m == IF l - p < FIFO - t THEN l - p ELSE FIFO - t
        IN m \in Nat /\ p + m <= l /\ t + m <= FIFO /\ m <= l - p
    BY <2>1
  <2> QED BY <2>2 DEF l, t
<1>5. Left(b) = rest
  <2> HIDE DEF b, c
  <2> QED BY <1>1, <1>2 DEF Left
<1> HIDE DEF rest
<1>6. CASE k = 0 \/ Len(cm) + 1 > NCMDS - 1
  <2>1. b2 = Refuse(b)
    <3> HIDE DEF b
    <3> QED BY <1>1, <1>5, <1>6 DEF esp32s31_i2c_queue_write
  <2> QED BY <2>1, TurnRefused
<1>7. CASE ~(k = 0 \/ Len(cm) + 1 > NCMDS - 1)
  <2> DEFINE cw == <<"WRITE", k>>
             by == [j \in 1 .. k |-> <<"W", i, p + j>>]
             d == In(i, p + k)
             cm2 == Append(cm, cw)
             tx2 == tb \o by
  <2>1. Len(cm) + 1 <= NCMDS - 1
    BY <1>3, <1>7, I2cAssumption
  <2>2. b2 = [b EXCEPT !.cmds = Append(@, <<"WRITE", k>>),
                       !.tx = @ \o [j \in 1 .. k |-> <<"W", b.cur.msg, b.cur.pos + j>>],
                       !.cur.pos = @ + k]
    <3> HIDE DEF b
    <3> QED BY <1>1, <1>5, <1>7 DEF esp32s31_i2c_queue_write
  <2>3. b2 = [b EXCEPT !.cmds = cm2, !.tx = tx2, !.cur = [c EXCEPT !.pos = p + k]]
    <3> HIDE DEF b, c, k
    <3>1. b2 = [b EXCEPT !.cmds = Append(b.cmds, cw),
                         !.tx = b.tx \o [j \in 1 .. k |-> <<"W", b.cur.msg, b.cur.pos + j>>],
                         !.cur = [b.cur EXCEPT !.pos = b.cur.pos + k]]
      BY <2>2
    <3>2. [j \in 1 .. k |-> <<"W", b.cur.msg, b.cur.pos + j>>] = by
      BY <1>1, <1>2
    <3> HIDE DEF b2, by, cw
    <3> QED BY <1>1, <1>2, <3>1, <3>2
  <2>4. [c EXCEPT !.pos = p + k] = d
    <3> HIDE DEF d, k
    <3>1. c = In(i, p)
      OBVIOUS
    <3> HIDE DEF c
    <3> QED BY <3>1, InMove DEF d
  <2>5. b2 = Mk(ms, d, cm2, tx2, n, rb, Go)
    <3>1. b2 = [b EXCEPT !.cmds = cm2, !.tx = tx2, !.cur = d] /\ b = Mk(ms, c, cm, tb, n, rb, Go)
      BY <2>3, <2>4
    <3> HIDE DEF b, b2, c, d, cm2, tx2
    <3> QED BY ONLY <3>1 DEF Mk
  <2> HIDE DEF k
  <2>6. Sound(ms, c0, d, cm2, tx2, n, rb)
    BY <1>4, <2>1, SoundWrite
  <2> HIDE DEF cm2, tx2, b2, c
  <2>7. Turned(ms, c0, c, Mk(ms, d, cm2, tx2, n, rb, Go))
    BY <1>2, <2>6, TurnQueued
  <2> QED BY <2>5, <2>7 DEF b2, c
<1> QED BY <1>6, <1>7

LEMMA ReadTwo ==
  ASSUME NEW ms \in Seq(I2cMsg), NEW i \in 1 .. Len(ms), ms[i].rd, NEW p \in Nat, NEW k \in Nat,
         p + k = ms[i].len, k >= 2, NEW cm \in Seq(Cmd), NoEnd(cm)
  PROVE  ReadList(ms, i, p, k, cm,
                  Append(Append(cm, <<"READ", k - 1, TRUE>>), <<"READ", 1, FALSE>>))
<1> DEFINE cm1 == Append(cm, <<"READ", k - 1, TRUE>>)
           cm2 == Append(cm1, <<"READ", 1, FALSE>>)
           x == k - 1
<1>1. /\ x \in Nat /\ p + x \in Nat /\ p + x <= ms[i].len /\ (p + x) + 1 = p + k
      /\ (p + x) + 1 <= ms[i].len
  OBVIOUS
<1>2. ReadList(ms, i, p, x, cm, cm1)
  <2>1. \A j \in 1 .. x : TRUE = (p + j < ms[i].len)
    OBVIOUS
  <2> HIDE DEF x
  <2> QED BY <1>1, <2>1, ReadOne DEF x
<1> HIDE DEF cm1
<1>3. cm1 \in Seq(Cmd) /\ NoEnd(cm1) /\ Len(cm) <= Len(cm1) - 1
  BY <1>2 DEF ReadList
<1>4. ReadList(ms, i, p + x, 1, cm1, cm2)
  <2>1. \A j \in 1 .. 1 : FALSE = ((p + x) + j < ms[i].len)
    BY <1>1
  <2> HIDE DEF x
  <2> QED BY <1>1, <1>3, <2>1, ReadOne
<1> HIDE DEF cm2
<1>5. cm2 \in Seq(Cmd) /\ NoEnd(cm2) /\ Len(cm1) <= Len(cm2) - 1
  BY <1>4 DEF ReadList
<1>6. Len(cm) <= Len(cm2) - 1
  <2>1. Len(cm) \in Nat /\ Len(cm1) \in Nat /\ Len(cm2) \in Nat
    BY <1>3, <1>5
  <2> QED BY <1>3, <1>5, <2>1
<1>7. ASSUME NEW c0, NEW tb \in Seq(Item), Carries(ms, c0, In(i, p), cm, tb)
      PROVE  Carries(ms, c0, In(i, p + k), cm2, tb)
  <2> HIDE DEF x
  <2>1. Carries(ms, c0, In(i, p + x), cm1, tb)
    BY <1>2, <1>7 DEF ReadList
  <2>2. Carries(ms, c0, In(i, (p + x) + 1), cm2, tb)
    BY <1>4, <2>1 DEF ReadList
  <2> QED BY <1>1, <2>2
<1>8. ReadList(ms, i, p, k, cm, cm2)
  BY <1>5, <1>6, <1>7 DEF ReadList
<1> QED BY <1>8 DEF cm2, cm1

LEMMA Pair ==
  ASSUME NEW a \in Cmd, NEW b \in Cmd PROVE <<a>> \o <<b>> = <<a, b>> /\ Len(<<a, b>>) = 2
<1>1. <<a>> \in Seq(Cmd) /\ Len(<<a>>) = 1
  OBVIOUS
<1> DEFINE s == <<a>>
           u == Append(s, b)
           v == <<a, b>>
<1>2. <<a>> \o <<b>> = u
  BY <1>1, ConcatOne
<1>3. v \in Seq(Cmd) /\ Len(v) = 2 /\ v[1] = a /\ v[2] = b
  OBVIOUS
<1>4. s \in Seq(Cmd) /\ Len(s) = 1 /\ s[1] = a
  OBVIOUS
<1> HIDE DEF v, s
<1>5. u \in Seq(Cmd) /\ Len(u) = 2 /\ u[1] = a /\ u[2] = b
  <2>0. s \in Seq(Cmd)
    BY <1>4
  <2>1. /\ u \in Seq(Cmd) /\ Len(u) = Len(s) + 1 /\ u[Len(s) + 1] = b
        /\ \A k \in 1 .. Len(s) : u[k] = s[k]
    BY <2>0
  <2> HIDE DEF u
  <2> QED BY <1>4, <2>1
<1> HIDE DEF u
<1>6. u = v
  <2>1. \A k \in 1 .. 2 : u[k] = v[k]
    BY <1>3, <1>5
  <2> QED BY <1>3, <1>5, <2>1, SeqEqual
<1> QED BY <1>2, <1>3, <1>6 DEF v

LEMMA QueueRead ==
  ASSUME NEW ms \in Seq(I2cMsg), NEW i \in 1 .. Len(ms), ms[i].rd, NEW p \in Nat, p < ms[i].len,
         NEW c0, InRange(ms, c0),
         NEW cm, NEW tb, NEW n, NEW rb, Sound(ms, c0, In(i, p), cm, tb, n, rb)
  PROVE  Turned(ms, c0, In(i, p), esp32s31_i2c_queue_read(Mk(ms, In(i, p), cm, tb, n, rb, Go)))
<1> DEFINE c == In(i, p)
           b == Mk(ms, c, cm, tb, n, rb, Go)
           b2 == esp32s31_i2c_queue_read(b)
           rest == ms[i].len - p
           k == IF rest < FIFO - n THEN rest ELSE FIFO - n
           last == IF k = rest THEN 1 ELSE 0
           list == (IF k - last > 0 THEN << <<"READ", k - last, TRUE>> >> ELSE <<>>)
                   \o (IF last = 1 THEN << <<"READ", 1, FALSE>> >> ELSE <<>>)
           cm2 == cm \o list
<1>1. b.cur = c /\ b.cmds = cm /\ b.tx = tb /\ b.msgs = ms /\ b.nread = n /\ b.rx = rb
  BY MkFields
<1>2. c.msg = i /\ c.pos = p
  BY InFields
<1>3. n \in Nat /\ n <= FIFO /\ Len(cm) \in Nat /\ cm \in Seq(Cmd) /\ NoEnd(cm)
  BY DEF Sound, Fits
<1>4. /\ k \in Nat /\ p + k <= ms[i].len /\ n + k <= FIFO /\ k <= rest
      /\ rest \in Nat /\ rest = ms[i].len - p /\ (k = rest => p + k = ms[i].len)
      /\ (k # rest => p + k < ms[i].len)
  <2> DEFINE l == ms[i].len
  <2>1. l \in Nat /\ p < l /\ FIFO \in Nat
    BY MsgIs, I2cAssumption
  <2> HIDE DEF l
  <2>2. LET m == IF l - p < FIFO - n THEN l - p ELSE FIFO - n
        IN /\ m \in Nat /\ p + m <= l /\ n + m <= FIFO /\ m <= l - p
           /\ l - p \in Nat /\ (m = l - p => p + m = l) /\ (m # l - p => p + m < l)
    BY ONLY <1>3, <2>1, p \in Nat
  <2> QED BY <2>2 DEF l
<1>5. Left(b) = rest
  <2> HIDE DEF b, c
  <2> QED BY <1>1, <1>2 DEF Left
<1> HIDE DEF rest, list
<1>6. CASE k = 0 \/ Len(cm) + Len(list) > NCMDS - 1
  <2>1. b2 = Refuse(b)
    <3> HIDE DEF b
    <3> QED BY <1>1, <1>5, <1>6 DEF esp32s31_i2c_queue_read, list
  <2> QED BY <2>1, TurnRefused
<1>7. CASE ~(k = 0 \/ Len(cm) + Len(list) > NCMDS - 1)
  <2> DEFINE d == In(i, p + k)
             e == [msg |-> i, n |-> k]
             rx2 == Append(rb, e)
  <2>1. b2 = [b EXCEPT !.rx = Append(@, [msg |-> b.cur.msg, n |-> k]), !.cmds = @ \o list,
                       !.nread = @ + k, !.cur.pos = @ + k]
    <3> HIDE DEF b
    <3> QED BY <1>1, <1>5, <1>7 DEF esp32s31_i2c_queue_read, list
  <2> HIDE DEF k, last
  <2>2. ReadList(ms, i, p, k, cm, cm2) /\ Len(cm2) = Len(cm) + Len(list) /\ Len(list) \in Nat
    <3>1. CASE k # rest
      <4> DEFINE cr == <<"READ", k, TRUE>>
      <4>1. last = 0 /\ k - last = k /\ k > 0
        BY <1>4, <1>7, <3>1 DEF last, k
      <4>2. list = <<cr>> \o <<>>
        <5> DEFINE cx == <<"READ", k - last, TRUE>>
        <5>1. cx = cr
          BY <4>1
        <5>2. k - last > 0 /\ last # 1
          BY <4>1
        <5> HIDE DEF cx, cr
        <5>3. list = <<cx>> \o <<>>
          BY <5>2 DEF list, cx
        <5> QED BY <5>1, <5>3
      <4>3. cr \in Cmd
        BY <1>4 DEF Cmd
      <4>4. \A j \in 1 .. k : TRUE = (p + j < ms[i].len)
        <5> DEFINE l == ms[i].len
        <5>1. p + k < l /\ l \in Nat /\ k \in Nat
          BY <1>4, <3>1, MsgIs
        <5> HIDE DEF l, k
        <5>2. \A j \in 1 .. k : TRUE = (p + j < l)
          BY <5>1
        <5> QED BY <5>2 DEF l
      <4>5. ReadList(ms, i, p, k, cm, Append(cm, cr))
        BY <1>3, <1>4, <4>4, ReadOne
      <4> HIDE DEF cr
      <4>6. list = <<cr>> /\ cm \o <<cr>> = Append(cm, cr) /\ Len(list) = 1
            /\ Len(Append(cm, cr)) = Len(cm) + 1
        BY <1>3, <4>2, <4>3
      <4> QED BY <4>5, <4>6
    <3>2. CASE k = rest /\ k = 1
      <4> DEFINE cr == <<"READ", 1, FALSE>>
      <4>1. last = 1 /\ ~(k - last > 0)
        BY <3>2 DEF last, k
      <4>2. list = <<>> \o <<cr>>
        <5> HIDE DEF cr
        <5> QED BY <4>1 DEF list, cr
      <4>3. cr \in Cmd
        BY DEF Cmd
      <4>4. \A j \in 1 .. 1 : FALSE = (p + j < ms[i].len)
        BY <1>4, <3>2, MsgIs
      <4>5. ReadList(ms, i, p, 1, cm, Append(cm, cr))
        BY <1>3, <1>4, <3>2, <4>4, ReadOne
      <4> HIDE DEF cr
      <4>6. list = <<cr>> /\ cm \o <<cr>> = Append(cm, cr) /\ Len(list) = 1
            /\ Len(Append(cm, cr)) = Len(cm) + 1
        BY <1>3, <4>2, <4>3
      <4> QED BY <3>2, <4>5, <4>6
    <3>3. CASE k = rest /\ k # 1
      <4> DEFINE cr == <<"READ", k - 1, TRUE>>
                 cl == <<"READ", 1, FALSE>>
      <4>1. last = 1 /\ k - last > 0 /\ k - last = k - 1 /\ k >= 2 /\ k - 1 \in Nat
            /\ p + k = ms[i].len
        <5>1. k \in Nat /\ k # 0 /\ k # 1 /\ last = 1
          BY <1>4, <1>7, <3>3 DEF last, k
        <5> QED BY <1>4, <3>3, <5>1
      <4>2. list = <<cr>> \o <<cl>>
        <5> HIDE DEF cr, cl
        <5> QED BY <4>1 DEF list, cr, cl
      <4>3. cr \in Cmd /\ cl \in Cmd
        BY <4>1 DEF Cmd
      <4>4. ReadList(ms, i, p, k, cm, Append(Append(cm, cr), cl))
        BY <1>3, <1>4, <4>1, ReadTwo
      <4> HIDE DEF cr, cl
      <4>5. list = <<cr, cl>> /\ Len(list) = 2
        BY <4>2, <4>3, Pair
      <4>6. cm \o <<cr, cl>> = Append(Append(cm, cr), cl)
        BY <1>3, <4>3, ConcatTwo
      <4>7. Len(Append(Append(cm, cr), cl)) = Len(cm) + 2
        BY <1>3, <4>3
      <4> QED BY <4>4, <4>5, <4>6, <4>7
    <3> QED BY <3>1, <3>2, <3>3
  <2>3. Len(cm2) <= NCMDS - 1
    BY <1>3, <1>7, <2>2, I2cAssumption
  <2>4. b2 = [b EXCEPT !.rx = rx2, !.cmds = cm2, !.nread = n + k, !.cur = [c EXCEPT !.pos = p + k]]
    <3> HIDE DEF b, c
    <3>1. b2 = [b EXCEPT !.rx = Append(b.rx, [msg |-> b.cur.msg, n |-> k]), !.cmds = b.cmds \o list,
                         !.nread = b.nread + k, !.cur = [b.cur EXCEPT !.pos = b.cur.pos + k]]
      BY <2>1
    <3>2. [msg |-> b.cur.msg, n |-> k] = e
      BY <1>1, <1>2
    <3> HIDE DEF b2, e
    <3> QED BY <1>1, <1>2, <3>1, <3>2
  <2>5. [c EXCEPT !.pos = p + k] = d
    <3> HIDE DEF d
    <3>1. c = In(i, p)
      OBVIOUS
    <3> HIDE DEF c
    <3> QED BY <3>1, InMove DEF d
  <2>6. b2 = Mk(ms, d, cm2, tb, n + k, rx2, Go)
    <3>1. /\ b2 = [b EXCEPT !.rx = rx2, !.cmds = cm2, !.nread = n + k, !.cur = d]
          /\ b = Mk(ms, c, cm, tb, n, rb, Go)
      BY <2>4, <2>5
    <3> HIDE DEF b, b2, c, d, cm2, rx2
    <3> QED BY ONLY <3>1 DEF Mk
  <2>7. Sound(ms, c0, d, cm2, tb, n + k, rx2)
    <3> HIDE DEF cm2
    <3> QED BY <1>4, <2>2, <2>3, SoundRead
  <2> HIDE DEF cm2, rx2, b2, c
  <2>8. Turned(ms, c0, c, Mk(ms, d, cm2, tb, n + k, rx2, Go))
    BY <1>2, <2>7, TurnQueued
  <2> QED BY <2>6, <2>8 DEF b2, c
<1> QED BY <1>6, <1>7

TurnInv(ms, c0, b) == BatchInv(ms, c0, b) /\ CursorOK(ms, b.cur)

LEMMA NextMsgTurn ==
  ASSUME NEW ms \in Seq(I2cMsg), NEW c0, NEW c, CursorOK(ms, c), c.msg <= Len(ms),
         NEW b, Turned(ms, c0, c, b)
  PROVE  /\ TurnInv(ms, c0, esp32s31_i2c_next_msg(b))
         /\ b.queued \/ c # FirstByte => esp32s31_i2c_next_msg(b).cur # FirstByte
<1> DEFINE d == b.cur
           b2 == esp32s31_i2c_next_msg(b)
<1>1. /\ b = Mk(ms, d, b.cmds, b.tx, b.nread, b.rx, b.queued) /\ b.queued \in BOOLEAN
      /\ Sound(ms, c0, d, b.cmds, b.tx, b.nread, b.rx) /\ BatchInv(ms, c0, b)
  BY DEF Turned, BatchInv
<1>2. b.msgs = ms
  BY <1>1, MkFields
<1>3. InRange(ms, d) /\ (b.queued => d.addressed /\ d.msg = c.msg) /\ (~b.queued => d = c)
  BY <1>1 DEF Turned, Sound
<1>4. c.msg \in 1 .. Len(ms) /\ Len(ms) \in Nat
  BY DEF CursorOK, InRange, Cursor
<1>5. ms[c.msg].len \in Nat
  BY <1>4, MsgIs
<1>6. CASE ~(b.queued /\ Left(b) = 0)
  <2>1. b2 = b
    BY <1>6 DEF esp32s31_i2c_next_msg
  <2>2. CursorOK(ms, d)
    <3>1. CASE ~b.queued
      BY <1>3, <3>1
    <3>2. CASE b.queued
      <4>1. Left(b) # 0 /\ d.addressed /\ d.msg = c.msg
        BY <1>3, <1>6, <3>2
      <4>2. Left(b) = ms[d.msg].len - d.pos
        BY <1>2 DEF Left
      <4>3. d.pos <= ms[d.msg].len /\ d.pos \in Nat
        BY <1>3, <4>1 DEF InRange, Cursor
      <4> DEFINE l == ms[d.msg].len
                 p == d.pos
      <4>4. l \in Nat /\ p \in Nat /\ p <= l /\ l - p # 0
        BY <1>5, <4>1, <4>2, <4>3
      <4> HIDE DEF l, p
      <4>5. p < l
        BY <4>4
      <4> QED BY <1>3, <4>5 DEF CursorOK, l, p
    <3> QED BY <3>1, <3>2
  <2>3. b.queued \/ c # FirstByte => d # FirstByte
    <3>1. FirstByte.addressed = FALSE
      BY DEF FirstByte
    <3> QED BY <1>3, <3>1
  <2> QED BY <1>1, <2>1, <2>2, <2>3 DEF TurnInv
<1>7. CASE b.queued /\ Left(b) = 0
  <2> DEFINE off == FALSE
             d2 == [msg |-> d.msg + 1, pos |-> 0, addressed |-> off]
  <2>1. b2 = [b EXCEPT !.cur = d2]
    BY <1>7 DEF esp32s31_i2c_next_msg
  <2>2. d.addressed /\ d.msg = c.msg
    BY <1>3, <1>7
  <2>3. d.pos = ms[d.msg].len
    <3>1. ms[d.msg].len - d.pos = 0
      BY <1>2, <1>7 DEF Left
    <3>2. d.pos \in Nat
      BY <1>3 DEF InRange, Cursor
    <3> QED BY <1>5, <2>2, <3>1, <3>2
  <2>4. /\ CursorOK(ms, d2) /\ Offset(ms, d2) = Offset(ms, d)
        /\ ReadsAt(ms, d2) = ReadsAt(ms, d) /\ Got(ms, d2) = Got(ms, d)
    <3> HIDE DEF d
    <3> QED BY <1>3, <2>2, <2>3, NextMsg
  <2>5. d2 # FirstByte
    <3>1. d2.msg = c.msg + 1 /\ FirstByte.msg = 1
      BY <2>2 DEF FirstByte
    <3> HIDE DEF d2
    <3> QED BY <1>4, <3>1
  <2>a. BatchInv(ms, c0, b2) /\ b2.cur = d2
    <3> DEFINE cm == b.cmds
               tb == b.tx
               n == b.nread
               rb == b.rx
               q == b.queued
    <3>1. /\ b = Mk(ms, d, cm, tb, n, rb, q) /\ q \in BOOLEAN
          /\ Sound(ms, c0, d, cm, tb, n, rb)
      BY <1>1
    <3> HIDE DEF d, d2, b2, cm, tb, n, rb, q
    <3>2. b2 = Mk(ms, d2, cm, tb, n, rb, q)
      BY ONLY <2>1, <3>1 DEF Mk
    <3>3. Sound(ms, c0, d2, cm, tb, n, rb)
      <4>1. Carries(ms, c0, d2, cm, tb)
        BY <2>4, <3>1 DEF Sound, Carries, PointAt
      <4>2. Stores(ms, c0, d2, rb, n)
        BY <2>4, <3>1, SameStores DEF Sound
      <4> QED BY <2>4, <3>1, <4>1, <4>2 DEF Sound, CursorOK
    <3>4. BatchInv(ms, c0, Mk(ms, d2, cm, tb, n, rb, q))
      BY <3>1, <3>3, MkInv
    <3>5. b2.cur = d2
      BY <3>2, MkFields
    <3> QED BY <3>2, <3>4, <3>5
  <2> HIDE DEF d2, b2
  <2>6. TurnInv(ms, c0, b2) /\ b2.cur # FirstByte
    BY <2>4, <2>5, <2>a DEF TurnInv
  <2> QED BY <2>6 DEF b2
<1> QED BY <1>6, <1>7

LEMMA WasIn ==
  ASSUME NEW c \in Cursor, c.addressed PROVE c = In(c.msg, c.pos)
<1> DEFINE q == c.addressed
<1>1. c = [msg |-> c.msg, pos |-> c.pos, addressed |-> q]
  BY DEF Cursor
<1>2. q = TRUE
  BY DEF Cursor
<1> QED BY <1>1, <1>2 DEF In

LEMMA Turn ==
  ASSUME NEW ms \in Seq(I2cMsg), NEW c0, InRange(ms, c0), NEW b, TurnInv(ms, c0, b)
  PROVE  /\ TurnInv(ms, c0, QueueMore(b))
         /\ b.cur # FirstByte => QueueMore(b).cur # FirstByte
         /\ b.cmds = <<>> /\ b.tx = <<>> /\ b.queued /\ b.cur.msg <= Len(ms) =>
              QueueMore(b).cur # FirstByte
<1> DEFINE c == b.cur
           cm == b.cmds
           tb == b.tx
           n == b.nread
           rb == b.rx
           i == c.msg
<1>1. /\ b = Mk(ms, c, cm, tb, n, rb, b.queued) /\ b.queued \in BOOLEAN
      /\ Sound(ms, c0, c, cm, tb, n, rb) /\ CursorOK(ms, c) /\ InRange(ms, c)
  BY DEF TurnInv, BatchInv, Sound
<1>2. b.msgs = ms
  BY <1>1, MkFields
<1>3. CASE ~b.queued \/ i > Len(ms)
  <2>1. QueueMore(b) = b
    BY <1>2, <1>3 DEF QueueMore
  <2>2. i \in Nat /\ Len(ms) \in Nat
    BY <1>1 DEF InRange, Cursor
  <2> QED BY <1>3, <2>1, <2>2
<1>4. CASE ~(~b.queued \/ i > Len(ms))
  <2>1. i \in 1 .. Len(ms) /\ i <= Len(ms) /\ c.pos \in Nat
    BY <1>1, <1>4 DEF InRange, Cursor
  <2>2. b = Mk(ms, c, cm, tb, n, rb, Go)
    <3>1. b.queued = Go
      BY <1>1, <1>4 DEF Go
    <3> QED BY <1>1, <3>1
  <2> DEFINE b1 == IF ~c.addressed THEN esp32s31_i2c_queue_addr(b)
                   ELSE IF ms[i].rd THEN esp32s31_i2c_queue_read(b)
                   ELSE esp32s31_i2c_queue_write(b)
  <2>3. QueueMore(b) = esp32s31_i2c_next_msg(b1)
    BY <1>2, <1>4 DEF QueueMore
  <2>4. CASE ~c.addressed
    <3>1. /\ Turned(ms, c0, c, esp32s31_i2c_queue_addr(Mk(ms, c, cm, tb, n, rb, Go)))
          /\ cm = <<>> /\ tb = <<>> =>
               esp32s31_i2c_queue_addr(Mk(ms, c, cm, tb, n, rb, Go)).queued
      <4> HIDE DEF c, cm, tb, n, rb
      <4> QED BY <1>1, <2>1, <2>4, QueueAddr DEF i
    <3>2. b1 = esp32s31_i2c_queue_addr(b)
      BY <2>4
    <3> HIDE DEF b1
    <3>3. Turned(ms, c0, c, b1) /\ (cm = <<>> /\ tb = <<>> => b1.queued)
      BY <2>2, <3>1, <3>2
    <3> HIDE DEF c
    <3>4. /\ TurnInv(ms, c0, esp32s31_i2c_next_msg(b1))
          /\ b1.queued \/ c # FirstByte => esp32s31_i2c_next_msg(b1).cur # FirstByte
      BY <1>1, <2>1, <3>3, NextMsgTurn DEF i
    <3> QED BY <2>3, <3>3, <3>4 DEF c
  <2>5. CASE c.addressed
    <3>1. Turned(ms, c0, c, b1)
      <4> DEFINE p == c.pos
      <4>1. p < ms[i].len /\ p \in Nat
        BY <1>1, <2>1, <2>5 DEF CursorOK
      <4>2. c = In(i, p)
        <5>1. c \in Cursor /\ c.addressed
          BY <1>1, <2>5 DEF InRange
        <5> HIDE DEF c
        <5> QED BY <5>1, WasIn DEF i, p
      <4> HIDE DEF c, cm, tb, n, rb, p, i
      <4>3. Sound(ms, c0, In(i, p), cm, tb, n, rb)
        BY <1>1, <4>2
      <4>4. CASE ms[i].rd
        <5>1. Turned(ms, c0, In(i, p), esp32s31_i2c_queue_read(Mk(ms, In(i, p), cm, tb, n, rb, Go)))
          BY <2>1, <4>1, <4>3, <4>4, QueueRead
        <5> QED BY <2>2, <2>5, <4>2, <4>4, <5>1
      <4>5. CASE ~ms[i].rd
        <5>1. Turned(ms, c0, In(i, p), esp32s31_i2c_queue_write(Mk(ms, In(i, p), cm, tb, n, rb, Go)))
          BY <2>1, <4>1, <4>3, <4>5, QueueWrite
        <5> QED BY <2>2, <2>5, <4>2, <4>5, <5>1
      <4> QED BY <4>4, <4>5
    <3>2. c # FirstByte
      BY <2>5 DEF FirstByte
    <3> HIDE DEF b1, c
    <3>3. /\ TurnInv(ms, c0, esp32s31_i2c_next_msg(b1))
          /\ b1.queued \/ c # FirstByte => esp32s31_i2c_next_msg(b1).cur # FirstByte
      BY <1>1, <2>1, <3>1, NextMsgTurn DEF i
    <3> QED BY <2>3, <3>2, <3>3
  <2> QED BY <2>4, <2>5
<1> QED BY <1>3, <1>4

-----------------------------------------------------------------------------
(* esp32s31_i2c_fill: the turns of its loop, and its last command.         *)

IsTurns(b, t, n) == t = [k \in 0 .. n |-> IF k = 0 THEN b ELSE QueueMore(t[k - 1])]
Turns(b) ==
  LET turn[k \in 0 .. NCMDS] == IF k = 0 THEN b ELSE QueueMore(turn[k - 1]) IN turn

LEMMA TurnsExist == ASSUME NEW b PROVE IsTurns(b, Turns(b), NCMDS)
<1> DEFINE A == {n \in 0 .. NCMDS : \E t : IsTurns(b, t, n)}
<1>1. 0 \in A
  <2>1. IsTurns(b, [i \in 0 .. 0 |-> b], 0)
    BY DEF IsTurns
  <2> QED BY <2>1, I2cAssumption
<1>2. \A n \in A : n < NCMDS => n + 1 \in A
  <2> SUFFICES ASSUME NEW n \in A, n < NCMDS PROVE \E t : IsTurns(b, t, n + 1)
    BY I2cAssumption
  <2>1. PICK t : IsTurns(b, t, n)
    OBVIOUS
  <2> DEFINE v == QueueMore(t[n])
             q == [i \in 0 .. n + 1 |-> IF i = n + 1 THEN v ELSE t[i]]
  <2>2. IsTurns(b, q, n + 1)
    BY <2>1 DEF IsTurns
  <2> QED BY <2>2
<1>3. NCMDS \in A
  <2>1. A \subseteq 0 .. NCMDS /\ NCMDS \in Nat
    BY I2cAssumption
  <2> HIDE DEF A
  <2> QED BY <1>1, <1>2, <2>1, SetInduction
<1> QED
  BY <1>3 DEF IsTurns, Turns

LastCommand(ms, c) == IF c.msg > Len(ms) THEN <<"STOP">> ELSE <<"END">>

LEMMA FillIs ==
  ASSUME NEW b
  PROVE  esp32s31_i2c_fill(b) =
           [Turns(b)[NCMDS] EXCEPT !.cmds = Append(Turns(b)[NCMDS].cmds,
              LastCommand(Turns(b)[NCMDS].msgs, Turns(b)[NCMDS].cur))]
BY DEF esp32s31_i2c_fill, Turns, LastCommand

LEMMA TurnsSound ==
  ASSUME NEW ms \in Seq(I2cMsg), ms # <<>>, NEW c, CursorOK(ms, c),
         NEW f, f = Turns(Batch(ms, c))[NCMDS]
  PROVE  TurnInv(ms, c, f) /\ f.cur # FirstByte
<1> DEFINE b == Batch(ms, c)
           t == Turns(b)
           Good(k) == TurnInv(ms, c, t[k]) /\ (k > 0 => t[k].cur # FirstByte)
           A == {n \in 0 .. NCMDS : Good(n)}
<1>0. InRange(ms, c)
  BY DEF CursorOK
<1>1. b = Mk(ms, c, <<>>, <<>>, 0, <<>>, Go)
  BY DEF Batch, Mk, Go
<1>2. TurnInv(ms, c, b) /\ b.cur = c /\ b.cmds = <<>> /\ b.tx = <<>> /\ b.queued
  <2>1. Go \in BOOLEAN
    BY DEF Go
  <2>2. BatchInv(ms, c, b)
    BY <1>0, <1>1, <2>1, SoundStart, MkInv
  <2>3. b.cur = c /\ b.cmds = <<>> /\ b.tx = <<>> /\ b.queued = Go
    <3> HIDE DEF b
    <3> QED BY <1>1, MkFields
  <2> HIDE DEF b
  <2> QED BY <2>2, <2>3 DEF TurnInv, Go
<1>3. /\ t[0] = b /\ \A k \in 1 .. NCMDS : t[k] = QueueMore(t[k - 1])
  <2>1. IsTurns(b, t, NCMDS) /\ NCMDS \in Nat
    BY TurnsExist, I2cAssumption
  <2> HIDE DEF t, b
  <2>2. t[0] = b
    BY <2>1 DEF IsTurns
  <2>3. \A k \in 1 .. NCMDS : t[k] = QueueMore(t[k - 1])
    BY <2>1 DEF IsTurns
  <2> QED BY <2>2, <2>3
<1>4. c # FirstByte \/ c.msg <= Len(ms)
  <2>1. FirstByte.msg = 1 /\ Len(ms) \in Nat /\ Len(ms) # 0
    BY DEF FirstByte
  <2> QED BY <2>1
<1> HIDE DEF t, b
<1>5. 0 \in A
  BY <1>2, <1>3, I2cAssumption
<1>6. \A n \in A : n < NCMDS => n + 1 \in A
  <2> SUFFICES ASSUME NEW n \in A, n < NCMDS PROVE Good(n + 1)
    BY I2cAssumption
  <2> DEFINE x == t[n]
             y == t[n + 1]
  <2>1. y = QueueMore(x) /\ TurnInv(ms, c, x) /\ (n > 0 => x.cur # FirstByte) /\ n \in Nat
        /\ n + 1 > 0
    <3>1. n \in Nat /\ NCMDS \in Nat /\ n + 1 \in 1 .. NCMDS /\ (n + 1) - 1 = n
      BY I2cAssumption
    <3> QED BY <1>3, <3>1
  <2>2. n = 0 => x = b
    BY <1>3
  <2> HIDE DEF x, y
  <2>3. /\ TurnInv(ms, c, QueueMore(x))
        /\ x.cur # FirstByte => QueueMore(x).cur # FirstByte
        /\ x.cmds = <<>> /\ x.tx = <<>> /\ x.queued /\ x.cur.msg <= Len(ms) =>
             QueueMore(x).cur # FirstByte
    BY <1>0, <2>1, Turn
  <2>4. QueueMore(x).cur # FirstByte
    <3>1. CASE n = 0
      <4>1. x = b
        BY <2>2, <3>1
      <4> QED BY <1>2, <1>4, <2>3, <4>1
    <3>2. CASE n # 0
      BY <2>1, <2>3, <3>2
    <3> QED BY <3>1, <3>2
  <2> QED BY <2>1, <2>3, <2>4 DEF y
<1>7. NCMDS \in A
  <2>1. A \subseteq 0 .. NCMDS /\ NCMDS \in Nat
    BY I2cAssumption
  <2> HIDE DEF A
  <2> QED BY <1>5, <1>6, <2>1, SetInduction
<1>8. NCMDS > 0
  BY I2cAssumption
<1> QED BY <1>7, <1>8 DEF t, b

EndsLast(cm) == \A k \in DOMAIN cm : cm[k][1] \in Ends <=> k = Len(cm)
Goal(ms, c, t) == IF c.msg > Len(ms)
                  THEN [o |-> Len(Traffic(ms)), t |-> t, r |-> ReadsAt(ms, c)]
                  ELSE PointAt(ms, c, t)

(* A list that is ready for the controller.                                *)
Listed(ms, c0, c, cm, tb, rb, n) ==
  /\ CursorOK(ms, c) /\ c # FirstByte
  /\ cm \in Seq(Cmd) /\ cm # <<>> /\ Len(cm) <= NCMDS /\ EndsLast(cm)
  /\ cm[Len(cm)] = LastCommand(ms, c)
  /\ tb \in Seq(Item) /\ Len(tb) <= FIFO /\ rb \in Seq(RxEntry) /\ Len(rb) <= NCMDS
  /\ n \in Nat /\ n <= FIFO
  /\ PlanTo(Traffic(ms), cm, tb, PointAt(ms, c0, 0), Goal(ms, c, Len(tb)))
  /\ Stores(ms, c0, c, rb, n)

LEMMA LastOne ==
  ASSUME NEW cm \in Seq(Cmd), NoEnd(cm), NEW e \in Cmd, e[1] \in Ends
  PROVE  /\ Append(cm, e) \in Seq(Cmd) /\ Append(cm, e) # <<>> /\ EndsLast(Append(cm, e))
         /\ Len(Append(cm, e)) = Len(cm) + 1 /\ Append(cm, e)[Len(Append(cm, e))] = e
<1> DEFINE d == Append(cm, e)
<1>1. /\ d \in Seq(Cmd) /\ Len(d) = Len(cm) + 1 /\ d[Len(cm) + 1] = e /\ DOMAIN d = 1 .. Len(cm) + 1
      /\ \A k \in 1 .. Len(cm) : d[k] = cm[k]
  OBVIOUS
<1>2. Len(cm) \in Nat
  OBVIOUS
<1> HIDE DEF d
<1>3. d # <<>>
  BY <1>1, <1>2
<1>4. EndsLast(d)
  <2> SUFFICES ASSUME NEW k \in 1 .. Len(cm) + 1 PROVE d[k][1] \in Ends <=> k = Len(cm) + 1
    BY <1>1 DEF EndsLast
  <2>1. CASE k = Len(cm) + 1
    BY <1>1, <2>1
  <2>2. CASE k # Len(cm) + 1
    <3>1. k \in 1 .. Len(cm)
      BY <1>2, <2>2
    <3> QED BY <1>1, <2>2, <3>1 DEF NoEnd
  <2> QED BY <2>1, <2>2
<1> QED BY <1>1, <1>3, <1>4 DEF d

LEMMA GoalReached ==
  ASSUME NEW ms \in Seq(I2cMsg), NEW c, CursorOK(ms, c), NEW tb \in Seq(Item)
  PROVE  /\ Goal(ms, c, Len(tb)) \in Point
         /\ Runs(Traffic(ms), LastCommand(ms, c), tb, PointAt(ms, c, Len(tb)), Goal(ms, c, Len(tb)))
<1> DEFINE W == Traffic(ms)
           t == Len(tb)
           a == PointAt(ms, c, t)
           b == Goal(ms, c, t)
           l == LastCommand(ms, c)
<1>1. t \in Nat /\ InRange(ms, c) /\ Len(ms) \in Nat /\ c.msg \in Nat /\ c.msg <= Len(ms) + 1
  BY DEF CursorOK, InRange, Cursor
<1>2. /\ Offset(ms, c) \in Nat /\ ReadsAt(ms, c) \in Nat /\ Offset(ms, c) < Len(W) /\ Len(W) \in Nat
      /\ a \in Point
  BY <1>1, CursorFacts
<1>3. CASE c.msg > Len(ms)
  <2>1. c.msg - 1 = Len(ms) /\ ~c.addressed
    BY <1>1, <1>3 DEF InRange
  <2>2. /\ Len(W) = Len(TrafficTo(ms)[Len(ms)]) + 1 /\ Len(TrafficTo(ms)[Len(ms)]) \in Nat
        /\ W[Len(W)] = <<"P">>
    BY AtEnd
  <2>3. a.o + 1 = Len(W) /\ a.t = t /\ a.r = ReadsAt(ms, c)
    BY <2>1, <2>2 DEF PointAt, Offset
  <2>4. b = [o |-> Len(W), t |-> t, r |-> ReadsAt(ms, c)] /\ l = <<"STOP">>
    BY <1>3 DEF Goal, LastCommand
  <2>5. b \in Point /\ b.o = Len(W) /\ b.t = t /\ b.r = ReadsAt(ms, c)
    <3> HIDE DEF b, t, W
    <3> QED BY <1>1, <1>2, <2>4 DEF Point
  <2> HIDE DEF a, b, W, l, t
  <2>6. Stops(W, l, a, b)
    BY <2>2, <2>3, <2>4, <2>5 DEF Stops
  <2>7. b.o <= Len(W) /\ b.t <= Len(tb)
    BY <1>1, <1>2, <2>5 DEF t
  <2>8. Runs(W, l, tb, a, b)
    BY <2>6, <2>7 DEF Runs
  <2> QED BY <2>5, <2>8 DEF W, l, a, b, t
<1>4. CASE ~(c.msg > Len(ms))
  <2>1. b = a /\ l = <<"END">>
    BY <1>4 DEF Goal, LastCommand
  <2>2. a.o = Offset(ms, c) /\ a.t = t
    BY DEF PointAt
  <2> HIDE DEF a, b, W, l, t
  <2>3. b.o <= Len(W) /\ b.t <= Len(tb)
    BY <1>1, <1>2, <2>1, <2>2 DEF t
  <2>4. Runs(W, l, tb, a, b)
    BY <2>1, <2>3 DEF Runs, Pauses
  <2> QED BY <1>2, <2>1, <2>4 DEF W, l, a, b, t
<1> QED BY <1>3, <1>4

LEMMA Filled ==
  ASSUME NEW ms \in Seq(I2cMsg), ms # <<>>, NEW c0, CursorOK(ms, c0),
         NEW l, l = esp32s31_i2c_fill(Batch(ms, c0))
  PROVE  \E n : Listed(ms, c0, l.cur, l.cmds, l.tx, l.rx, n)
<1> DEFINE f == Turns(Batch(ms, c0))[NCMDS]
           c == f.cur
           cm == f.cmds
           tb == f.tx
           n == f.nread
           rb == f.rx
           e == LastCommand(ms, c)
           cm2 == Append(cm, e)
<1>1. TurnInv(ms, c0, f) /\ c # FirstByte
  BY TurnsSound
<1>2. /\ f = Mk(ms, c, cm, tb, n, rb, f.queued) /\ Sound(ms, c0, c, cm, tb, n, rb)
      /\ CursorOK(ms, c)
  BY <1>1 DEF TurnInv, BatchInv
<1>3. f.msgs = ms
  BY <1>2, MkFields
<1>4. l = [f EXCEPT !.cmds = Append(f.cmds, LastCommand(f.msgs, f.cur))]
  BY FillIs
<1> HIDE DEF f
<1>5. l.cur = c /\ l.cmds = cm2 /\ l.tx = tb /\ l.rx = rb
  <2>1. l = [f EXCEPT !.cmds = cm2]
    BY <1>3, <1>4
  <2> DEFINE q == f.queued
  <2>2. f = Mk(ms, c, cm, tb, n, rb, q)
    BY <1>2
  <2> HIDE DEF c, cm, tb, n, rb, cm2, q
  <2>3. l = Mk(ms, c, cm2, tb, n, rb, q)
    BY ONLY <2>1, <2>2 DEF Mk
  <2> QED BY <2>3, MkFields
<1>6. e \in Cmd /\ e[1] \in Ends
  BY DEF LastCommand, Cmd, Ends
<1> HIDE DEF c, cm, tb, n, rb, e
<1>7. /\ cm \in Seq(Cmd) /\ tb \in Seq(Item) /\ n \in Nat /\ rb \in Seq(RxEntry)
      /\ Len(cm) <= NCMDS - 1 /\ Len(tb) <= FIFO /\ n <= FIFO /\ Len(rb) <= Len(cm) /\ NoEnd(cm)
      /\ Carries(ms, c0, c, cm, tb) /\ Stores(ms, c0, c, rb, n)
  BY <1>2 DEF Sound, Fits
<1>8. /\ cm2 \in Seq(Cmd) /\ cm2 # <<>> /\ EndsLast(cm2) /\ Len(cm2) = Len(cm) + 1
      /\ cm2[Len(cm2)] = e
  BY <1>6, <1>7, LastOne
<1> HIDE DEF cm2
<1>9. Len(cm2) <= NCMDS /\ Len(rb) <= NCMDS
  <2>1. Len(cm) \in Nat /\ Len(rb) \in Nat
    BY <1>7
  <2> QED BY <1>7, <1>8, <2>1, I2cAssumption
<1>10. PlanTo(Traffic(ms), cm2, tb, PointAt(ms, c0, 0), Goal(ms, c, Len(tb)))
  <2>1. /\ Goal(ms, c, Len(tb)) \in Point
        /\ Runs(Traffic(ms), e, tb, PointAt(ms, c, Len(tb)), Goal(ms, c, Len(tb)))
    BY <1>2, <1>7, GoalReached DEF e
  <2>2. PlanTo(Traffic(ms), cm, tb, PointAt(ms, c0, 0), PointAt(ms, c, Len(tb)))
    BY <1>7 DEF Carries
  <2> QED BY <1>6, <1>7, <2>1, <2>2, ExtendsSame, PlanToAppend DEF cm2
<1>11. Listed(ms, c0, c, cm2, tb, rb, n)
  BY <1>1, <1>2, <1>7, <1>8, <1>9, <1>10 DEF Listed, e, c
<1> QED BY <1>5, <1>11

-----------------------------------------------------------------------------
(* The end of a plan, and the bytes read from the bus so far.              *)

LEMMA PlanToEnds ==
  ASSUME NEW W, NEW cm \in Seq(Cmd), NEW tb, NEW a, NEW b, PlanTo(W, cm, tb, a, b)
  PROVE  /\ a \in Point /\ b \in Point /\ a.t <= b.t /\ a.r <= b.r
         /\ cm = <<>> => a = b
<1>1. PICK p : Plan(W, cm, tb, p) /\ p[1] = a /\ p[Len(cm) + 1] = b
  BY DEF PlanTo
<1>2. p \in [1 .. Len(cm) + 1 -> Point] /\ Climbs(p, Len(cm) + 1)
  BY <1>1 DEF Plan
<1>3. Len(cm) \in Nat /\ 1 \in 1 .. Len(cm) + 1 /\ Len(cm) + 1 \in 1 .. Len(cm) + 1
      /\ 1 <= Len(cm) + 1
  OBVIOUS
<1>4. p[1].t <= p[Len(cm) + 1].t /\ p[1].r <= p[Len(cm) + 1].r
  BY <1>2, <1>3 DEF Climbs
<1>5. cm = <<>> => Len(cm) + 1 = 1
  OBVIOUS
<1> QED BY <1>1, <1>2, <1>3, <1>4, <1>5

ReadsOf(s) == Cardinality({i \in DOMAIN s : s[i][1] = "R"})
NoReads(t) == \A j \in 1 .. Len(t) : t[j][1] # "R"
AllReads(t) == \A j \in 1 .. Len(t) : t[j][1] = "R"

LEMMA ReadsMore ==
  ASSUME NEW s \in Seq(Item), NEW t \in Seq(Item)
  PROVE  /\ ReadsOf(s) \in Nat
         /\ NoReads(t) => ReadsOf(s \o t) = ReadsOf(s)
         /\ AllReads(t) => ReadsOf(s \o t) = ReadsOf(s) + Len(t)
<1> DEFINE u == s \o t
           X == {i \in DOMAIN s : s[i][1] = "R"}
           Y == {i \in DOMAIN u : u[i][1] = "R"}
           m == Len(s)
           n == Len(t)
<1>1. /\ u \in Seq(Item) /\ Len(u) = m + n /\ DOMAIN u = 1 .. m + n /\ DOMAIN s = 1 .. m
      /\ \A i \in 1 .. m : u[i] = s[i]
      /\ \A i \in 1 .. n : u[m + i] = t[i]
  BY Concat
<1>2. m \in Nat /\ n \in Nat
  OBVIOUS
<1> HIDE DEF u, m, n
<1>3. IsFiniteSet(X) /\ Cardinality(X) \in Nat
  <2>1. IsFiniteSet(1 .. m) /\ X \subseteq 1 .. m
    BY <1>1, <1>2, FS_Interval
  <2> HIDE DEF X
  <2>2. IsFiniteSet(X)
    BY <2>1, FS_Subset
  <2> QED BY <2>2, FS_CardinalityType
<1>4. \A i \in 1 .. m + n : i \in 1 .. m \/ (i - m \in 1 .. n /\ m + (i - m) = i)
  BY <1>2
<1>5. ASSUME NoReads(t) PROVE Y = X
  <2>1. ASSUME NEW i \in 1 .. m + n, u[i][1] = "R" PROVE i \in 1 .. m
    <3>1. CASE i - m \in 1 .. n /\ m + (i - m) = i
      <4>1. u[i] = t[i - m] /\ t[i - m][1] # "R"
        BY <1>1, <1>5, <3>1 DEF NoReads, n
      <4> QED BY <2>1, <4>1
    <3> QED BY <1>4, <3>1
  <2>2. 1 .. m \subseteq 1 .. m + n
    BY <1>2
  <2> QED BY <1>1, <2>1, <2>2
<1>6. ASSUME AllReads(t) PROVE Cardinality(Y) = Cardinality(X) + n
  <2> DEFINE Z == m + 1 .. m + n
  <2>1. Y = X \cup Z
    <3>1. ASSUME NEW i \in Z PROVE i \in Y
      <4>1. i - m \in 1 .. n /\ m + (i - m) = i /\ i \in 1 .. m + n
        BY <1>2
      <4>2. u[i] = t[i - m] /\ t[i - m][1] = "R"
        BY <1>1, <1>6, <4>1 DEF AllReads, n
      <4> QED BY <1>1, <4>1, <4>2
    <3>2. ASSUME NEW i \in Y PROVE i \in X \cup Z
      <4>1. i \in 1 .. m + n /\ u[i][1] = "R"
        BY <1>1
      <4>2. CASE i \in 1 .. m
        BY <1>1, <4>1, <4>2
      <4>3. CASE i \notin 1 .. m
        BY <1>2, <4>1, <4>3
      <4> QED BY <4>2, <4>3
    <3>3. X \subseteq Y
      <4>1. 1 .. m \subseteq 1 .. m + n
        BY <1>2
      <4> QED BY <1>1, <4>1
    <3> HIDE DEF X, Y, Z
    <3> QED BY <3>1, <3>2, <3>3
  <2>2. IsFiniteSet(Z) /\ Cardinality(Z) = n
    <3>1. m + 1 \in Int /\ m + n \in Int
      BY <1>2
    <3>2. IsFiniteSet(Z) /\ Cardinality(Z) = IF m + 1 > m + n THEN 0 ELSE (m + n) - (m + 1) + 1
      BY <3>1, FS_Interval
    <3> QED BY <1>2, <3>2
  <2>3. X \cap Z = {}
    BY <1>1, <1>2
  <2> HIDE DEF X, Y, Z
  <2>4. Cardinality(X \cup Z) = Cardinality(X) + Cardinality(Z) - Cardinality(X \cap Z)
    BY <1>3, <2>2, FS_Union
  <2>5. Cardinality({}) = 0
    BY FS_EmptySet
  <2> DEFINE cx == Cardinality(X)
             cy == Cardinality(Y)
  <2>6. cy = cx + n - 0
    BY <2>1, <2>2, <2>3, <2>4, <2>5
  <2>7. cx \in Nat
    BY <1>3
  <2> HIDE DEF cx, cy
  <2>8. cy = cx + n
    BY <1>2, <2>6, <2>7
  <2> QED BY <2>8 DEF cx, cy
<1> QED BY <1>3, <1>5, <1>6 DEF ReadsOf, u, n

-----------------------------------------------------------------------------
(* esp32s31_i2c_drain: the bytes that were read go where the rx entries    *)
(* say.                                                                    *)

Holds(ms, bf, g) ==
  /\ bf \in [1 .. Len(ms) -> Seq(Nat)]
  /\ \A i \in 1 .. Len(ms) : /\ Len(bf[i]) = g[i]
                             /\ \A j \in 1 .. g[i] : bf[i][j] = ReadBefore(ms, i) + j
Fifo(f, x, k) == f \in Seq(Nat) /\ Len(f) = k /\ \A j \in 1 .. k : f[j] = x + j

LEMMA FifoCut ==
  ASSUME NEW f, NEW x \in Nat, NEW k \in Nat, Fifo(f, x, k), NEW n \in Nat, n <= k
  PROVE  Fifo(SubSeq(f, n + 1, Len(f)), x + n, k - n)
<1> DEFINE h == SubSeq(f, n + 1, Len(f))
<1>1. f \in Seq(Nat) /\ Len(f) = k /\ n \in 0 .. Len(f)
  BY DEF Fifo
<1>2. /\ h \in Seq(Nat) /\ Len(h) = k - n
      /\ \A j \in 1 .. k - n : h[j] = f[n + j]
  <2>1. /\ h \in Seq(Nat) /\ Len(h) = Len(f) - n
        /\ \A j \in 1 .. Len(f) - n : h[j] = f[n + j]
    BY <1>1, CutFront
  <2> HIDE DEF h
  <2> QED BY <1>1, <2>1
<1> HIDE DEF h
<1>3. ASSUME NEW j \in 1 .. k - n PROVE h[j] = (x + n) + j
  <2>1. n + j \in 1 .. k /\ x + (n + j) = (x + n) + j
    OBVIOUS
  <2> QED BY <1>2, <2>1 DEF Fifo
<1>4. Fifo(h, x + n, k - n)
  BY <1>2, <1>3 DEF Fifo
<1> QED BY <1>4 DEF h

LEMMA BytesAdded ==
  ASSUME NEW s \in Seq(Nat), NEW x \in Nat, \A j \in 1 .. Len(s) : s[j] = x + j,
         NEW h \in Seq(Nat), \A j \in 1 .. Len(h) : h[j] = (x + Len(s)) + j
  PROVE  /\ s \o h \in Seq(Nat) /\ Len(s \o h) = Len(s) + Len(h)
         /\ \A j \in 1 .. Len(s) + Len(h) : (s \o h)[j] = x + j
<1> DEFINE u == s \o h
           m == Len(s)
           n == Len(h)
<1>1. /\ u \in Seq(Nat) /\ Len(u) = m + n
      /\ \A i \in 1 .. m : u[i] = s[i]
      /\ \A i \in 1 .. n : u[m + i] = h[i]
  BY Concat
<1>2. m \in Nat /\ n \in Nat
  OBVIOUS
<1>3. (\A j \in 1 .. m : s[j] = x + j) /\ (\A j \in 1 .. n : h[j] = (x + m) + j)
  OBVIOUS
<1> HIDE DEF u, m, n
<1>4. ASSUME NEW j \in 1 .. m + n PROVE u[j] = x + j
  <2>1. CASE j \in 1 .. m
    BY <1>1, <1>3, <2>1
  <2>2. CASE j \notin 1 .. m
    <3> DEFINE i == j - m
    <3>1. i \in 1 .. n /\ m + i = j /\ (x + m) + i = x + j
      BY <1>2, <2>2
    <3> HIDE DEF i
    <3>2. u[m + i] = h[i] /\ h[i] = (x + m) + i
      BY <1>1, <1>3, <3>1
    <3> QED BY <3>1, <3>2
  <2> QED BY <2>1, <2>2
<1> QED BY <1>1, <1>4 DEF u, m, n

(* One entry of rx: its message gets the next bytes of the FIFO.           *)
LEMMA DrainEntry ==
  ASSUME NEW ms \in Seq(I2cMsg), NEW rs \in Nat, NEW e \in RxEntry,
         NEW g \in [1 .. Len(ms) -> Nat], NEW g2, NEW v \in Nat, NEW v2 \in Nat,
         Takes(ms, rs, e, g, g2, v, v2), NEW d, NEW k \in Nat,
         Holds(ms, d.buf, g), Fifo(d.fifo, rs + v, k), e.n <= k
  PROVE  Holds(ms, Drain(d, e).buf, g2) /\ Fifo(Drain(d, e).fifo, rs + v2, k - e.n)
<1> DEFINE f == d.fifo
           bf == d.buf
           m == e.msg
           n == e.n
           got == [j \in 1 .. n |-> IF j <= Len(f) THEN f[j] ELSE 0]
           x == ReadBefore(ms, m)
           s == bf[m]
           bf2 == [bf EXCEPT ![m] = s \o got]
           f2 == SubSeq(f, n + 1, Len(f))
<1>1. Drain(d, e).buf = bf2 /\ Drain(d, e).fifo = f2
  BY DEF Drain
<1>2. /\ m \in 1 .. Len(ms) /\ v2 = v + n /\ n \in Nat /\ n <= k
      /\ g2 = [g EXCEPT ![m] = g[m] + n] /\ rs + v = x + g[m]
  BY DEF Takes, RxEntry, ReadBefore
<1>3. x \in Nat
  <2>1. ReadsTo(ms) \in [0 .. Len(ms) -> Nat] /\ m - 1 \in 0 .. Len(ms)
    BY <1>2, ReadsAre
  <2> QED BY <2>1 DEF ReadBefore
<1>4. Fifo(f, rs + v, k) /\ Holds(ms, bf, g)
  OBVIOUS
<1>5. /\ bf \in [1 .. Len(ms) -> Seq(Nat)] /\ s \in Seq(Nat) /\ Len(s) = g[m]
      /\ \A j \in 1 .. Len(s) : s[j] = x + j
  BY <1>2, <1>4 DEF Holds
<1>6. /\ f \in Seq(Nat) /\ Len(f) = k /\ \A j \in 1 .. k : f[j] = (rs + v) + j
  BY <1>4 DEF Fifo
<1>7. Fifo(f2, rs + v2, k - n)
  <2>1. rs + v \in Nat /\ (rs + v) + n = rs + v2
    BY <1>2
  <2>2. Fifo(SubSeq(f, n + 1, Len(f)), (rs + v) + n, k - n)
    <3> HIDE DEF f, n
    <3> QED BY ONLY <1>2, <1>4, <2>1, FifoCut, k \in Nat
  <2> QED BY <2>1, <2>2
<1>8. got \in Seq(Nat) /\ Len(got) = n /\ \A j \in 1 .. n : got[j] = (x + Len(s)) + j
  <2> HIDE DEF f, n, s, x
  <2>1. \A j \in 1 .. n : j \in 1 .. k /\ j <= Len(f) /\ f[j] \in Nat
    BY <1>2, <1>6
  <2>2. got \in [1 .. n -> Nat]
    BY <2>1
  <2>3. got \in Seq(Nat) /\ Len(got) = n
    BY <1>2, <2>2, SeqDef
  <2>4. ASSUME NEW j \in 1 .. n PROVE got[j] = (x + Len(s)) + j
    <3>1. got[j] = f[j] /\ f[j] = (rs + v) + j
      BY <1>6, <2>1
    <3>2. rs + v = x + Len(s)
      BY <1>2, <1>5
    <3> QED BY <3>1, <3>2
  <2> HIDE DEF got
  <2> QED BY <2>3, <2>4
<1> HIDE DEF got, s, x
<1>9. /\ s \o got \in Seq(Nat) /\ Len(s \o got) = Len(s) + n
      /\ \A j \in 1 .. Len(s) + n : (s \o got)[j] = x + j
  <2>1. \A j \in 1 .. Len(got) : got[j] = (x + Len(s)) + j
    BY <1>8
  <2>2. /\ s \o got \in Seq(Nat) /\ Len(s \o got) = Len(s) + Len(got)
        /\ \A j \in 1 .. Len(s) + Len(got) : (s \o got)[j] = x + j
    BY ONLY <1>3, <1>5, <1>8, <2>1, BytesAdded
  <2> QED BY <1>8, <2>2
<1> HIDE DEF bf, f, n, m
<1>10. Holds(ms, bf2, g2)
  <2> DEFINE w == s \o got
  <2>0. w \in Seq(Nat) /\ Len(w) = g[m] + n /\ \A j \in 1 .. g[m] + n : w[j] = x + j
    BY <1>5, <1>9
  <2> HIDE DEF w
  <2>1. bf2 = [bf EXCEPT ![m] = w]
    BY DEF w
  <2> HIDE DEF bf2
  <2>2. bf2 \in [1 .. Len(ms) -> Seq(Nat)]
    BY <1>2, <1>5, <2>0, <2>1
  <2>3. ASSUME NEW i \in 1 .. Len(ms)
        PROVE  Len(bf2[i]) = g2[i] /\ \A j \in 1 .. g2[i] : bf2[i][j] = ReadBefore(ms, i) + j
    <3>1. CASE i = m
      <4>1. bf2[i] = w /\ g2[i] = g[m] + n /\ ReadBefore(ms, i) = x
        BY <1>2, <1>5, <2>1, <3>1 DEF x
      <4> QED BY <2>0, <4>1
    <3>2. CASE i # m
      <4>1. bf2[i] = bf[i] /\ g2[i] = g[i]
        BY <1>2, <1>5, <2>1, <3>2
      <4> QED BY <1>4, <4>1 DEF Holds
    <3> QED BY <3>1, <3>2
  <2> QED BY <2>2, <2>3 DEF Holds
<1> QED BY <1>1, <1>7, <1>10 DEF n

Drains(rb, f, bf) ==
  LET d[k \in 0 .. Len(rb)] == IF k = 0 THEN [fifo |-> f, buf |-> bf] ELSE Drain(d[k - 1], rb[k])
  IN d
IsDrains(rb, b, d, n) == d = [k \in 0 .. n |-> IF k = 0 THEN b ELSE Drain(d[k - 1], rb[k])]

LEMMA DrainsExist ==
  ASSUME NEW rb, Len(rb) \in Nat, NEW f, NEW bf
  PROVE  IsDrains(rb, [fifo |-> f, buf |-> bf], Drains(rb, f, bf), Len(rb))
<1> DEFINE b == [fifo |-> f, buf |-> bf]
           A == {n \in 0 .. Len(rb) : \E d : IsDrains(rb, b, d, n)}
<1>1. 0 \in A
  <2>1. IsDrains(rb, b, [i \in 0 .. 0 |-> b], 0)
    BY DEF IsDrains
  <2> QED BY <2>1
<1>2. \A n \in A : n < Len(rb) => n + 1 \in A
  <2> SUFFICES ASSUME NEW n \in A, n < Len(rb) PROVE \E d : IsDrains(rb, b, d, n + 1)
    OBVIOUS
  <2>1. PICK d : IsDrains(rb, b, d, n)
    OBVIOUS
  <2> DEFINE v == Drain(d[n], rb[n + 1])
             q == [i \in 0 .. n + 1 |-> IF i = n + 1 THEN v ELSE d[i]]
  <2>2. IsDrains(rb, b, q, n + 1)
    BY <2>1 DEF IsDrains
  <2> QED BY <2>2
<1>3. Len(rb) \in A
  <2>1. A \subseteq 0 .. Len(rb)
    OBVIOUS
  <2> HIDE DEF A
  <2> QED BY <1>1, <1>2, <2>1, SetInduction
<1> QED
  BY <1>3 DEF IsDrains, Drains

(* All of them: the buffers have what the plan of the rx entries says.     *)
LEMMA Drained ==
  ASSUME NEW ms \in Seq(I2cMsg), NEW rs \in Nat, NEW rb \in Seq(RxEntry), NEW g0, NEW g1,
         NEW n, RxPlanTo(ms, rb, rs, g0, g1, n), NEW bf, Holds(ms, bf, g0),
         NEW f, Fifo(f, rs, n)
  PROVE  Holds(ms, esp32s31_i2c_drain(rb, f, bf), g1)
<1>1. PICK g, v : RxPlan(ms, rb, rs, g, v) /\ g[1] = g0 /\ g[Len(rb) + 1] = g1 /\ v[Len(rb) + 1] = n
  BY DEF RxPlanTo
<1> DEFINE d == Drains(rb, f, bf)
           l == Len(rb)
           Good(k) == Holds(ms, d[k].buf, g[k + 1]) /\ Fifo(d[k].fifo, rs + v[k + 1], n - v[k + 1])
           A == {k \in 0 .. l : Good(k)}
<1>2. l \in Nat
  OBVIOUS
<1>3. d[0] = [fifo |-> f, buf |-> bf] /\ \A k \in 1 .. l : d[k] = Drain(d[k - 1], rb[k])
  <2>1. IsDrains(rb, [fifo |-> f, buf |-> bf], d, l)
    BY <1>2, DrainsExist
  <2> HIDE DEF d, l
  <2> QED BY <1>2, <2>1 DEF IsDrains
<1>4. d[l].buf = esp32s31_i2c_drain(rb, f, bf)
  BY DEF esp32s31_i2c_drain, Drains
<1>5. /\ \A k \in 1 .. l + 1 : g[k] \in [1 .. Len(ms) -> Nat] /\ v[k] \in Nat /\ v[k] <= n
      /\ v[1] = 0 /\ n \in Nat
      /\ \A k \in 1 .. l : Takes(ms, rs, rb[k], g[k], g[k + 1], v[k], v[k + 1])
  <2>1. /\ g \in [1 .. l + 1 -> [1 .. Len(ms) -> Nat]] /\ v \in [1 .. l + 1 -> Nat] /\ v[1] = 0
        /\ \A k \in 1 .. l + 1 : v[k] <= v[l + 1]
        /\ \A k \in 1 .. l : Takes(ms, rs, rb[k], g[k], g[k + 1], v[k], v[k + 1])
    BY <1>1 DEF RxPlan
  <2>2. v[l + 1] = n
    BY <1>1
  <2>3. l + 1 \in 1 .. l + 1
    BY <1>2
  <2> HIDE DEF l
  <2> QED BY <2>1, <2>2, <2>3
<1>6. \A k \in 1 .. l : rb[k] \in RxEntry
  OBVIOUS
<1> HIDE DEF d, l
<1>7. 0 \in A
  <2>1. rs + v[0 + 1] = rs /\ n - v[0 + 1] = n /\ g[0 + 1] = g0
    BY <1>1, <1>5
  <2>2. d[0].buf = bf /\ d[0].fifo = f
    BY <1>3
  <2> QED BY <1>2, <2>1, <2>2
<1>8. \A k \in A : k < l => k + 1 \in A
  <2> SUFFICES ASSUME NEW k \in A, k < l PROVE Good(k + 1)
    BY <1>2
  <2> DEFINE x == d[k]
             y == d[k + 1]
             e == rb[k + 1]
             v1 == v[k + 1]
             v2 == v[(k + 1) + 1]
             ga == g[k + 1]
             gb == g[(k + 1) + 1]
  <2>1. k \in Nat /\ k + 1 \in 1 .. l /\ (k + 1) - 1 = k /\ k + 1 \in 1 .. l + 1
        /\ (k + 1) + 1 \in 1 .. l + 1
    BY <1>2
  <2>2. y = Drain(x, e) /\ e \in RxEntry /\ Takes(ms, rs, e, ga, gb, v1, v2)
    BY <1>3, <1>5, <1>6, <2>1
  <2>3. /\ v1 \in Nat /\ v2 \in Nat /\ v1 <= n /\ v2 <= n
        /\ ga \in [1 .. Len(ms) -> Nat]
    BY <1>5, <2>1
  <2>4. Holds(ms, x.buf, ga) /\ Fifo(x.fifo, rs + v1, n - v1)
    OBVIOUS
  <2> HIDE DEF x, y, e, v1, v2, ga, gb
  <2>5. v2 = v1 + e.n /\ e.n \in Nat
    BY <2>2 DEF Takes, RxEntry
  <2>6. n - v1 \in Nat /\ e.n <= n - v1 /\ (n - v1) - e.n = n - v2
    BY <1>5, <2>3, <2>5
  <2>7. Holds(ms, Drain(x, e).buf, gb) /\ Fifo(Drain(x, e).fifo, rs + v2, (n - v1) - e.n)
    BY ONLY <2>2, <2>3, <2>4, <2>6, DrainEntry, ms \in Seq(I2cMsg), rs \in Nat
  <2>8. Holds(ms, y.buf, gb) /\ Fifo(y.fifo, rs + v2, n - v2)
    BY <2>2, <2>6, <2>7
  <2> QED BY <2>8 DEF y, v2, gb
<1>9. l \in A
  <2>1. A \subseteq 0 .. l
    OBVIOUS
  <2> HIDE DEF A
  <2> QED BY <1>2, <1>7, <1>8, <2>1, SetInduction
<1> QED BY <1>1, <1>4, <1>9 DEF l

-----------------------------------------------------------------------------
(* The bus and the list that runs: what the commands left put on the bus   *)
(* is what the traffic has next, up to the cursor.                         *)

Here(bu) == [o |-> Len(bu), t |-> 0, r |-> ReadsOf(bu)]
OnTraffic(W, bu) == Len(bu) <= Len(W) /\ \A i \in 1 .. Len(bu) : bu[i] = W[i]
OnLine(ms, c, bu, cm, tb) ==
  PlanTo(Traffic(ms), cm, tb, Here(bu), Goal(ms, c, Len(tb)))

LogOf(c, tb, bu) ==
  CASE c[1] = "RSTART" -> << <<"S">> >>
    [] c[1] = "WRITE"  -> SubSeq(tb, 1, c[2])
    [] c[1] = "READ"   -> [j \in 1 .. c[2] |-> <<"R", ReadsOf(bu) + j, c[3]>>]
    [] c[1] = "STOP"   -> << <<"P">> >>
    [] OTHER           -> <<>>
Unsent(c, tb) == IF c[1] = "WRITE" THEN SubSeq(tb, c[2] + 1, Len(tb)) ELSE tb

Logged(W, bu, lg, m) ==
  /\ lg \in Seq(Item) /\ m.o = Len(bu) + Len(lg) /\ ReadsOf(bu \o lg) = m.r
  /\ \A j \in 1 .. Len(lg) : lg[j] = W[Len(bu) + j]
Moved(c, tb, bu, m) ==
  /\ Unsent(c, tb) = SubSeq(tb, m.t + 1, Len(tb))
  /\ c[1] = "READ" => c[2] \in Nat /\ m.r = ReadsOf(bu) + c[2]
  /\ c[1] # "READ" => m.r = ReadsOf(bu)

LEMMA AllOf == ASSUME NEW tb \in Seq(Item) PROVE SubSeq(tb, 0 + 1, Len(tb)) = tb
<1>1. Len(tb) \in Nat /\ 0 \in 0 .. Len(tb) /\ Len(tb) - 0 = Len(tb)
  OBVIOUS
<1>2. /\ SubSeq(tb, 0 + 1, Len(tb)) \in Seq(Item)
      /\ Len(SubSeq(tb, 0 + 1, Len(tb))) = Len(tb) - 0
      /\ \A i \in 1 .. Len(tb) - 0 : SubSeq(tb, 0 + 1, Len(tb))[i] = tb[0 + i]
  BY ONLY <1>1, CutFront, tb \in Seq(Item)
<1> DEFINE s == SubSeq(tb, 0 + 1, Len(tb))
<1>3. s \in Seq(Item) /\ Len(s) = Len(tb) /\ \A i \in 1 .. Len(tb) : s[i] = tb[i]
  BY <1>1, <1>2
<1> HIDE DEF s
<1>4. s = tb
  BY <1>3, SeqEqual
<1> QED BY <1>4 DEF s

LEMMA HereIs ==
  ASSUME NEW bu \in Seq(Item)
  PROVE  /\ Here(bu) \in Point /\ Here(bu).o = Len(bu) /\ Here(bu).t = 0
         /\ Here(bu).r = ReadsOf(bu)
<1>1. ReadsOf(bu) \in Nat
  BY ReadsMore, <<>> \in Seq(Item)
<1> QED BY <1>1 DEF Here, Point

(* One item that is no read.                                               *)
LEMMA LogOne ==
  ASSUME NEW W, NEW bu \in Seq(Item), NEW it \in Item, it[1] # "R", W[Len(bu) + 1] = it,
         NEW m, m.o = Len(bu) + 1, m.r = ReadsOf(bu), NEW lg, lg = <<it>>
  PROVE  Logged(W, bu, lg, m)
<1>1. lg \in Seq(Item) /\ Len(lg) = 1 /\ lg[1] = it
  OBVIOUS
<1>2. \A j \in 1 .. 1 : j = 1
  OBVIOUS
<1>3. NoReads(lg)
  BY <1>1, <1>2 DEF NoReads
<1>4. ReadsOf(bu \o lg) = ReadsOf(bu)
  BY <1>1, <1>3, ReadsMore
<1> QED BY <1>1, <1>2, <1>4 DEF Logged

LEMMA LogBytes ==
  ASSUME NEW W, NEW bu \in Seq(Item), NEW tb \in Seq(Item), NEW n \in Nat, n <= Len(tb),
         BytesAre(W, tb, Len(bu), 0, n),
         NEW m, m.o = Len(bu) + n, m.r = ReadsOf(bu), NEW lg, lg = SubSeq(tb, 1, n)
  PROVE  Logged(W, bu, lg, m)
<1>1. Len(tb) \in Nat /\ 1 .. n \subseteq 1 .. Len(tb)
  OBVIOUS
<1>2. lg \in Seq(Item) /\ Len(lg) = n /\ \A j \in 1 .. n : lg[j] = tb[j]
  BY <1>1, SubSeqProperties
<1>3. ASSUME NEW j \in 1 .. n PROVE lg[j] = W[Len(bu) + j] /\ lg[j][1] # "R"
  <2>1. tb[0 + j] = W[Len(bu) + j] /\ W[Len(bu) + j][1] # "R" /\ 0 + j = j
    BY DEF BytesAre
  <2> QED BY <1>2, <2>1
<1>4. NoReads(lg)
  BY <1>2, <1>3 DEF NoReads
<1>5. ReadsOf(bu \o lg) = ReadsOf(bu)
  BY <1>2, <1>4, ReadsMore
<1> QED BY <1>2, <1>3, <1>5 DEF Logged

LEMMA LogReads ==
  ASSUME NEW W, NEW bu \in Seq(Item), NEW n \in Nat, NEW ack \in BOOLEAN,
         \A j \in 1 .. n : W[Len(bu) + j] = <<"R", ReadsOf(bu) + j, ack>>,
         NEW m, m.o = Len(bu) + n, m.r = ReadsOf(bu) + n,
         NEW lg, lg = [j \in 1 .. n |-> <<"R", ReadsOf(bu) + j, ack>>]
  PROVE  Logged(W, bu, lg, m)
<1>1. ReadsOf(bu) \in Nat
  BY ReadsMore, <<>> \in Seq(Item)
<1>2. ASSUME NEW j \in 1 .. n
      PROVE  /\ <<"R", ReadsOf(bu) + j, ack>> \in Item
             /\ lg[j] = <<"R", ReadsOf(bu) + j, ack>> /\ lg[j][1] = "R"
  BY <1>1 DEF Item
<1>3. lg \in Seq(Item) /\ Len(lg) = n
  <2>1. lg \in [1 .. n -> Item]
    BY <1>2
  <2> QED BY ONLY <2>1, n \in Nat
<1>4. AllReads(lg)
  BY <1>2, <1>3 DEF AllReads
<1>5. ReadsOf(bu \o lg) = ReadsOf(bu) + n
  BY <1>3, <1>4, ReadsMore
<1> QED BY <1>2, <1>3, <1>5 DEF Logged

LEMMA LogNothing ==
  ASSUME NEW W, NEW bu \in Seq(Item), NEW m, m.o = Len(bu), m.r = ReadsOf(bu)
  PROVE  Logged(W, bu, <<>>, m)
<1>1. bu \o <<>> = bu /\ <<>> \in Seq(Item) /\ Len(<<>>) = 0 /\ 1 .. 0 = {}
  OBVIOUS
<1> QED BY <1>1 DEF Logged

(* What one command of the list puts on the bus.                           *)
LEMMA CommandLogs ==
  ASSUME NEW W, NEW bu \in Seq(Item), NEW tb \in Seq(Item), NEW c, NEW m \in Point,
         Runs(W, c, tb, Here(bu), m)
  PROVE  Logged(W, bu, LogOf(c, tb, bu), m) /\ Moved(c, tb, bu, m)
<1>0. /\ Here(bu) \in Point /\ Here(bu).o = Len(bu) /\ Here(bu).t = 0
      /\ Here(bu).r = ReadsOf(bu) /\ SubSeq(tb, 0 + 1, Len(tb)) = tb
  BY HereIs, AllOf
<1>1. m.t <= Len(tb) /\ m.o <= Len(W)
  BY DEF Runs
<1> DEFINE a == Here(bu)
<1> HIDE DEF a
<1>2. ASSUME Starts(W, c, a, m)
      PROVE  Logged(W, bu, LogOf(c, tb, bu), m) /\ Moved(c, tb, bu, m)
  <2>1. c = <<"RSTART">> /\ W[Len(bu) + 1] = <<"S">> /\ m.o = Len(bu) + 1 /\ m.t = 0
        /\ m.r = ReadsOf(bu)
    BY <1>0, <1>2 DEF Starts, a
  <2>2. c[1] = "RSTART"
    BY <2>1
  <2>3. LogOf(c, tb, bu) = << <<"S">> >> /\ Unsent(c, tb) = tb
    BY <2>2 DEF LogOf, Unsent
  <2>4. <<"S">> \in Item /\ <<"S">>[1] # "R"
    BY DEF Item
  <2>5. Logged(W, bu, LogOf(c, tb, bu), m)
    BY ONLY <2>1, <2>3, <2>4, LogOne, bu \in Seq(Item)
  <2> QED BY <1>0, <2>1, <2>2, <2>3, <2>5 DEF Moved
<1>3. ASSUME Stops(W, c, a, m)
      PROVE  Logged(W, bu, LogOf(c, tb, bu), m) /\ Moved(c, tb, bu, m)
  <2>1. c = <<"STOP">> /\ W[Len(bu) + 1] = <<"P">> /\ m.o = Len(bu) + 1 /\ m.t = 0
        /\ m.r = ReadsOf(bu)
    BY <1>0, <1>3 DEF Stops, a
  <2>2. c[1] = "STOP"
    BY <2>1
  <2>3. LogOf(c, tb, bu) = << <<"P">> >> /\ Unsent(c, tb) = tb
    BY <2>2 DEF LogOf, Unsent
  <2>4. <<"P">> \in Item /\ <<"P">>[1] # "R"
    BY DEF Item
  <2>5. Logged(W, bu, LogOf(c, tb, bu), m)
    BY ONLY <2>1, <2>3, <2>4, LogOne, bu \in Seq(Item)
  <2> QED BY <1>0, <2>1, <2>2, <2>3, <2>5 DEF Moved
<1>4. ASSUME Writes(W, c, tb, a, m)
      PROVE  Logged(W, bu, LogOf(c, tb, bu), m) /\ Moved(c, tb, bu, m)
  <2>1. PICK n \in Nat : /\ c = <<"WRITE", n>> /\ m.o = a.o + n /\ m.t = a.t + n /\ m.r = a.r
                         /\ BytesAre(W, tb, a.o, a.t, n)
    BY <1>4 DEF Writes
  <2>2. /\ m.o = Len(bu) + n /\ m.t = n /\ m.r = ReadsOf(bu)
        /\ BytesAre(W, tb, Len(bu), 0, n) /\ n <= Len(tb)
    BY <1>0, <1>1, <2>1 DEF a
  <2>3. c[1] = "WRITE" /\ c[2] = n
    BY <2>1
  <2>4. LogOf(c, tb, bu) = SubSeq(tb, 1, n) /\ Unsent(c, tb) = SubSeq(tb, n + 1, Len(tb))
    BY <2>3 DEF LogOf, Unsent
  <2>5. Logged(W, bu, LogOf(c, tb, bu), m)
    BY ONLY <2>2, <2>4, LogBytes, bu \in Seq(Item), tb \in Seq(Item), n \in Nat
  <2> QED BY <2>2, <2>3, <2>4, <2>5 DEF Moved
<1>5. ASSUME ReadsIn(W, c, a, m)
      PROVE  Logged(W, bu, LogOf(c, tb, bu), m) /\ Moved(c, tb, bu, m)
  <2>1. PICK n \in Nat, ack \in BOOLEAN :
          /\ c = <<"READ", n, ack>> /\ m.o = a.o + n /\ m.t = a.t /\ m.r = a.r + n
          /\ \A j \in 1 .. n : W[a.o + j] = <<"R", a.r + j, ack>>
    BY <1>5 DEF ReadsIn
  <2>2. /\ m.o = Len(bu) + n /\ m.t = 0 /\ m.r = ReadsOf(bu) + n
        /\ \A j \in 1 .. n : W[Len(bu) + j] = <<"R", ReadsOf(bu) + j, ack>>
    BY <1>0, <2>1 DEF a
  <2>3. c[1] = "READ" /\ c[2] = n /\ c[3] = ack
    BY <2>1
  <2>4. LogOf(c, tb, bu) = [j \in 1 .. n |-> <<"R", ReadsOf(bu) + j, ack>>] /\ Unsent(c, tb) = tb
    BY <2>3 DEF LogOf, Unsent
  <2>5. Logged(W, bu, LogOf(c, tb, bu), m)
    BY ONLY <2>2, <2>4, LogReads, bu \in Seq(Item), n \in Nat, ack \in BOOLEAN
  <2> QED BY <1>0, <2>2, <2>3, <2>4, <2>5 DEF Moved
<1>6. ASSUME Pauses(c, a, m)
      PROVE  Logged(W, bu, LogOf(c, tb, bu), m) /\ Moved(c, tb, bu, m)
  <2>1. c = <<"END">> /\ m.o = Len(bu) /\ m.t = 0 /\ m.r = ReadsOf(bu)
    BY <1>0, <1>6 DEF Pauses, a
  <2>2. c[1] = "END"
    BY <2>1
  <2>3. LogOf(c, tb, bu) = <<>> /\ Unsent(c, tb) = tb
    BY <2>2 DEF LogOf, Unsent
  <2>4. Logged(W, bu, LogOf(c, tb, bu), m)
    BY ONLY <2>1, <2>3, LogNothing, bu \in Seq(Item)
  <2> QED BY <1>0, <2>1, <2>2, <2>3, <2>4 DEF Moved
<1> QED BY <1>2, <1>3, <1>4, <1>5, <1>6 DEF Runs, a

LEMMA BusGrows ==
  ASSUME NEW W, NEW bu \in Seq(Item), OnTraffic(W, bu), Len(W) \in Nat, NEW lg, NEW m,
         Logged(W, bu, lg, m), m.o <= Len(W)
  PROVE  bu \o lg \in Seq(Item) /\ Len(bu \o lg) = m.o /\ OnTraffic(W, bu \o lg)
<1> DEFINE u == bu \o lg
           x == Len(bu)
           y == Len(lg)
<1>1. /\ lg \in Seq(Item) /\ m.o = x + y /\ \A j \in 1 .. y : lg[j] = W[x + j]
  BY DEF Logged
<1>2. /\ u \in Seq(Item) /\ Len(u) = x + y
      /\ \A i \in 1 .. x : u[i] = bu[i]
      /\ \A i \in 1 .. y : u[x + i] = lg[i]
  BY <1>1, Concat
<1>3. x \in Nat /\ y \in Nat /\ \A i \in 1 .. x : bu[i] = W[i]
  BY <1>1 DEF OnTraffic
<1> HIDE DEF u, x, y
<1>4. ASSUME NEW i \in 1 .. x + y PROVE u[i] = W[i]
  <2>1. CASE i \in 1 .. x
    BY <1>2, <1>3, <2>1
  <2>2. CASE i \notin 1 .. x
    <3> DEFINE j == i - x
    <3>1. j \in 1 .. y /\ x + j = i
      BY <1>3, <2>2
    <3> HIDE DEF j
    <3>2. u[x + j] = lg[j] /\ lg[j] = W[x + j]
      BY <1>1, <1>2, <3>1
    <3> QED BY <3>1, <3>2
  <2> QED BY <2>1, <2>2
<1>5. OnTraffic(W, u)
  BY <1>1, <1>2, <1>4 DEF OnTraffic
<1> QED BY <1>1, <1>2, <1>5 DEF u

GoalAt(ms, c) == IF c.msg > Len(ms) THEN Len(Traffic(ms)) ELSE Offset(ms, c)
LEMMA GoalIs ==
  ASSUME NEW ms, NEW c, NEW t
  PROVE  Goal(ms, c, t) = [o |-> GoalAt(ms, c), t |-> t, r |-> ReadsAt(ms, c)]
BY DEF Goal, GoalAt, PointAt

(* A command of the list runs.                                             *)
LineRan(ms, c, cm, tb, bu, bu2, tx2) ==
  /\ bu2 \in Seq(Item) /\ OnTraffic(Traffic(ms), bu2)
  /\ tx2 \in Seq(Item) /\ Len(tx2) <= Len(tb) /\ OnLine(ms, c, bu2, Tail(cm), tx2)
  /\ Head(cm)[1] = "READ" => /\ Head(cm)[2] \in Nat
                             /\ ReadsOf(bu2) = ReadsOf(bu) + Head(cm)[2]
  /\ Head(cm)[1] # "READ" => ReadsOf(bu2) = ReadsOf(bu)
  /\ ReadsOf(bu2) <= ReadsAt(ms, c)

LEMMA LineRuns ==
  ASSUME NEW ms \in Seq(I2cMsg), NEW c, NEW cm \in Seq(Cmd), cm # <<>>,
         NEW tb \in Seq(Item), NEW bu \in Seq(Item),
         OnTraffic(Traffic(ms), bu), OnLine(ms, c, bu, cm, tb),
         NEW bu2, bu2 = bu \o LogOf(Head(cm), tb, bu), NEW tx2, tx2 = Unsent(Head(cm), tb)
  PROVE  LineRan(ms, c, cm, tb, bu, bu2, tx2)
<1> DEFINE W == Traffic(ms)
           a == Here(bu)
           b == Goal(ms, c, Len(tb))
           hd == Head(cm)
           tl == Tail(cm)
           lg == LogOf(hd, tb, bu)
<1>1. W \in Seq(Item) /\ Len(W) \in Nat
  BY AtEnd
<1>2. a.t = 0 /\ PlanTo(W, cm, tb, a, b) /\ tl \in Seq(Cmd)
  BY HereIs DEF OnLine
<1>3. b = [o |-> GoalAt(ms, c), t |-> Len(tb), r |-> ReadsAt(ms, c)]
  BY GoalIs
<1>4. OnTraffic(W, bu) /\ bu2 = bu \o lg /\ tx2 = Unsent(hd, tb)
  OBVIOUS
<1>5. Len(tb) \in Nat
  OBVIOUS
<1> HIDE DEF W, b
<1>6. PICK m \in Point :
           /\ Runs(W, hd, tb, a, m) /\ m.t \in 0 .. Len(tb)
           /\ PlanTo(W, tl, SubSeq(tb, m.t + 1, Len(tb)), [o |-> m.o, t |-> 0, r |-> m.r],
                     [o |-> b.o, t |-> b.t - m.t, r |-> b.r])
  BY <1>2, PlanToTail
<1>7. Logged(W, bu, lg, m) /\ Moved(hd, tb, bu, m)
  BY <1>6, CommandLogs
<1> HIDE DEF lg, hd, tl, a
<1>8. bu2 \in Seq(Item) /\ Len(bu2) = m.o /\ OnTraffic(W, bu2) /\ ReadsOf(bu2) = m.r
  <2>1. m.o <= Len(W)
    BY <1>6 DEF Runs
  <2>2. bu \o lg \in Seq(Item) /\ Len(bu \o lg) = m.o /\ OnTraffic(W, bu \o lg)
    BY <1>1, <1>4, <1>7, <2>1, BusGrows
  <2>3. ReadsOf(bu \o lg) = m.r
    BY <1>7 DEF Logged
  <2> QED BY <1>4, <2>2, <2>3
<1>9. /\ tx2 = SubSeq(tb, m.t + 1, Len(tb)) /\ tx2 \in Seq(Item) /\ Len(tx2) = Len(tb) - m.t
      /\ Len(tx2) <= Len(tb)
  <2>1. tx2 = SubSeq(tb, m.t + 1, Len(tb))
    BY <1>4, <1>7 DEF Moved
  <2>2. tx2 \in Seq(Item) /\ Len(tx2) = Len(tb) - m.t
    BY <1>6, <2>1, CutFront
  <2> QED BY <1>5, <1>6, <2>1, <2>2
<1>10. OnLine(ms, c, bu2, tl, tx2)
  <2>1. Here(bu2) = [o |-> m.o, t |-> 0, r |-> m.r]
    BY <1>8 DEF Here
  <2>2. Goal(ms, c, Len(tx2)) = [o |-> b.o, t |-> b.t - m.t, r |-> b.r]
    BY <1>3, <1>9, GoalIs
  <2> QED BY <1>6, <1>9, <2>1, <2>2 DEF OnLine, W
<1>11. ReadsOf(bu2) <= ReadsAt(ms, c)
  <2>1. [o |-> m.o, t |-> 0, r |-> m.r].r <= [o |-> b.o, t |-> b.t - m.t, r |-> b.r].r
    BY <1>2, <1>6, PlanToEnds
  <2> QED BY <1>3, <1>8, <2>1
<1> QED BY <1>7, <1>8, <1>9, <1>10, <1>11 DEF LineRan, Moved, W, hd, tl

(* The device refuses byte k of the WRITE at the head.                     *)
LEMMA LineStops ==
  ASSUME NEW ms \in Seq(I2cMsg), NEW c, NEW cm \in Seq(Cmd), cm # <<>>,
         NEW tb \in Seq(Item), NEW bu \in Seq(Item),
         OnTraffic(Traffic(ms), bu), OnLine(ms, c, bu, cm, tb), Head(cm)[1] = "WRITE",
         NEW k \in 1 .. Head(cm)[2]
  PROVE  /\ bu \o SubSeq(tb, 1, k) \in Seq(Item)
         /\ OnTraffic(Traffic(ms), bu \o SubSeq(tb, 1, k))
         /\ ReadsOf(bu \o SubSeq(tb, 1, k)) = ReadsOf(bu)
         /\ SubSeq(tb, k + 1, Len(tb)) \in Seq(Item) /\ Len(SubSeq(tb, k + 1, Len(tb))) <= Len(tb)
<1> DEFINE W == Traffic(ms)
           a == Here(bu)
           hd == Head(cm)
           lg == SubSeq(tb, 1, k)
<1>1. W \in Seq(Item) /\ Len(W) \in Nat
  BY AtEnd
<1>2. a.t = 0 /\ a.o = Len(bu) /\ a.r = ReadsOf(bu) /\ PlanTo(W, cm, tb, a, Goal(ms, c, Len(tb)))
  BY HereIs DEF OnLine
<1>3. OnTraffic(W, bu) /\ hd[1] = "WRITE" /\ k \in 1 .. hd[2]
  OBVIOUS
<1> HIDE DEF W, a
<1>4. PICK m \in Point : Runs(W, hd, tb, a, m) /\ m.t \in 0 .. Len(tb)
  BY <1>2, PlanToTail
<1> HIDE DEF hd
<1>5. Writes(W, hd, tb, a, m) /\ m.o <= Len(W)
  BY <1>3, <1>4 DEF Runs, Starts, ReadsIn, Stops, Pauses
<1>6. PICK n \in Nat : /\ hd = <<"WRITE", n>> /\ m.o = a.o + n /\ m.t = a.t + n
                       /\ BytesAre(W, tb, a.o, a.t, n)
  BY <1>5 DEF Writes
<1>7. n \in Nat /\ k \in 1 .. n /\ m.o = Len(bu) + n /\ m.t = n /\ BytesAre(W, tb, Len(bu), 0, n)
  BY <1>2, <1>3, <1>6
<1>8. k \in Nat /\ k <= Len(tb) /\ Len(tb) \in Nat /\ BytesAre(W, tb, Len(bu), 0, k)
  <2>1. 1 .. k \subseteq 1 .. n
    BY <1>7
  <2> QED BY <1>4, <1>7, <2>1 DEF BytesAre
<1> DEFINE q == [o |-> Len(bu) + k, r |-> ReadsOf(bu)]
<1>9. q.o = Len(bu) + k /\ q.r = ReadsOf(bu)
  OBVIOUS
<1> HIDE DEF q
<1>10. Logged(W, bu, lg, q)
  BY <1>8, <1>9, LogBytes
<1>11. q.o <= Len(W)
  BY <1>1, <1>5, <1>7, <1>9
<1> HIDE DEF lg
<1>12. bu \o lg \in Seq(Item) /\ OnTraffic(W, bu \o lg) /\ ReadsOf(bu \o lg) = ReadsOf(bu)
  BY <1>1, <1>3, <1>9, <1>10, <1>11, BusGrows DEF Logged
<1>13. SubSeq(tb, k + 1, Len(tb)) \in Seq(Item) /\ Len(SubSeq(tb, k + 1, Len(tb))) <= Len(tb)
  <2>1. k \in 0 .. Len(tb)
    BY <1>8
  <2>2. SubSeq(tb, k + 1, Len(tb)) \in Seq(Item) /\ Len(SubSeq(tb, k + 1, Len(tb))) = Len(tb) - k
    BY <2>1, CutFront
  <2> QED BY <1>8, <2>2
<1> QED BY <1>12, <1>13 DEF W, lg

(* The list that ran is empty: the bus is where the cursor is.             *)
LEMMA LineEmpty ==
  ASSUME NEW ms, NEW c, NEW bu \in Seq(Item), NEW tb \in Seq(Item), OnLine(ms, c, bu, <<>>, tb)
  PROVE  tb = <<>> /\ Len(bu) = GoalAt(ms, c) /\ ReadsOf(bu) = ReadsAt(ms, c)
<1>1. Here(bu) = Goal(ms, c, Len(tb))
  BY PlanToEnds, <<>> \in Seq(Cmd) DEF OnLine
<1>2. /\ [o |-> GoalAt(ms, c), t |-> Len(tb), r |-> ReadsAt(ms, c)].t = Here(bu).t
      /\ [o |-> GoalAt(ms, c), t |-> Len(tb), r |-> ReadsAt(ms, c)].o = Here(bu).o
      /\ [o |-> GoalAt(ms, c), t |-> Len(tb), r |-> ReadsAt(ms, c)].r = Here(bu).r
  BY <1>1, GoalIs
<1>3. Len(tb) = 0 /\ Len(bu) = GoalAt(ms, c) /\ ReadsOf(bu) = ReadsAt(ms, c)
  BY <1>2, HereIs
<1> QED BY <1>3

-----------------------------------------------------------------------------
(* The bytes read, between the buffers, the FIFO and the list that runs.   *)

Stored(ms, c, bu, bf, r, f) ==
  \E rs, g :
    /\ rs \in Nat /\ Holds(ms, bf, g) /\ Fifo(f, rs, Len(f)) /\ ReadsOf(bu) = rs + Len(f)
    /\ ReadsAt(ms, c) - rs \in 0 .. FIFO
    /\ RxPlanTo(ms, r, rs, g, Got(ms, c), ReadsAt(ms, c) - rs)

LEMMA StoredMore ==
  ASSUME NEW ms, NEW c, NEW bu, NEW bf, NEW r, NEW f, Stored(ms, c, bu, bf, r, f),
         ReadsAt(ms, c) \in Nat, NEW n \in Nat,
         NEW bu2, ReadsOf(bu2) = ReadsOf(bu) + n, ReadsOf(bu2) <= ReadsAt(ms, c),
         NEW f2, f2 = f \o [j \in 1 .. n |-> ReadsOf(bu) + j]
  PROVE  Stored(ms, c, bu2, bf, r, f2) /\ f2 \in Seq(Nat) /\ Len(f2) <= FIFO
<1>1. PICK rs, g :
    /\ rs \in Nat /\ Holds(ms, bf, g) /\ Fifo(f, rs, Len(f)) /\ ReadsOf(bu) = rs + Len(f)
    /\ ReadsAt(ms, c) - rs \in 0 .. FIFO
    /\ RxPlanTo(ms, r, rs, g, Got(ms, c), ReadsAt(ms, c) - rs)
  BY DEF Stored
<1> DEFINE h == [j \in 1 .. n |-> ReadsOf(bu) + j]
<1>2. f \in Seq(Nat) /\ \A j \in 1 .. Len(f) : f[j] = rs + j
  BY <1>1 DEF Fifo
<1>3. Len(f) \in Nat /\ ReadsOf(bu) \in Nat
  BY <1>1, <1>2
<1>4. h \in Seq(Nat) /\ Len(h) = n /\ \A j \in 1 .. Len(h) : h[j] = (rs + Len(f)) + j
  <2>1. h \in [1 .. n -> Nat] /\ \A j \in 1 .. n : h[j] = ReadsOf(bu) + j
    BY <1>3
  <2> HIDE DEF h
  <2>2. h \in Seq(Nat) /\ Len(h) = n
    BY <2>1, SeqDef
  <2> QED BY <1>1, <2>1, <2>2
<1>5. f2 = f \o h
  OBVIOUS
<1> HIDE DEF h
<1>6. /\ f2 \in Seq(Nat) /\ Len(f2) = Len(f) + n
      /\ \A j \in 1 .. Len(f) + n : f2[j] = rs + j
  <2>1. /\ f \o h \in Seq(Nat) /\ Len(f \o h) = Len(f) + Len(h)
        /\ \A j \in 1 .. Len(f) + Len(h) : (f \o h)[j] = rs + j
    BY ONLY <1>1, <1>2, <1>4, BytesAdded
  <2> QED BY <1>4, <1>5, <2>1
<1>7. Fifo(f2, rs, Len(f2)) /\ ReadsOf(bu2) = rs + Len(f2)
  BY <1>1, <1>3, <1>6 DEF Fifo
<1>8. Len(f2) <= FIFO
  <2> DEFINE x == ReadsAt(ms, c)
             l == Len(f2)
             y == ReadsOf(bu2)
  <2>1. l \in Nat /\ y = rs + l /\ y <= x /\ x - rs \in 0 .. FIFO /\ x \in Nat /\ FIFO \in Nat
    BY <1>1, <1>6, <1>7, I2cAssumption
  <2> HIDE DEF x, l, y
  <2>2. l <= FIFO
    BY ONLY <2>1, <1>1, rs \in Nat
  <2> QED BY <2>2 DEF l
<1> QED BY <1>1, <1>6, <1>7, <1>8 DEF Stored

LEMMA StoredSame ==
  ASSUME NEW ms, NEW c, NEW bu, NEW bf, NEW r, NEW f, Stored(ms, c, bu, bf, r, f),
         NEW bu2, ReadsOf(bu2) = ReadsOf(bu)
  PROVE  Stored(ms, c, bu2, bf, r, f)
BY DEF Stored

(* The list has run: draining the FIFO stores all it read.                 *)
LEMMA StoredDrained ==
  ASSUME NEW ms \in Seq(I2cMsg), NEW c, NEW bu, NEW bf, NEW r \in Seq(RxEntry), NEW f,
         Stored(ms, c, bu, bf, r, f), ReadsOf(bu) = ReadsAt(ms, c)
  PROVE  Holds(ms, esp32s31_i2c_drain(r, f, bf), Got(ms, c))
<1>1. PICK rs, g :
    /\ rs \in Nat /\ Holds(ms, bf, g) /\ Fifo(f, rs, Len(f)) /\ ReadsOf(bu) = rs + Len(f)
    /\ RxPlanTo(ms, r, rs, g, Got(ms, c), ReadsAt(ms, c) - rs)
  BY DEF Stored
<1>2. Len(f) \in Nat
  BY <1>1 DEF Fifo
<1>3. ReadsAt(ms, c) - rs = Len(f)
  BY <1>1, <1>2
<1>4. RxPlanTo(ms, r, rs, g, Got(ms, c), Len(f))
  BY <1>1, <1>3
<1> QED BY ONLY <1>1, <1>4, Drained, ms \in Seq(I2cMsg), r \in Seq(RxEntry)

(* A new list starts when all was stored.                                  *)
LEMMA StoredFrom ==
  ASSUME NEW ms, NEW c0, NEW c, NEW r, NEW n, n \in Nat, n <= FIFO, Stores(ms, c0, c, r, n),
         ReadsAt(ms, c0) \in Nat, NEW bf, Holds(ms, bf, Got(ms, c0)),
         NEW bu, ReadsOf(bu) = ReadsAt(ms, c0)
  PROVE  Stored(ms, c, bu, bf, r, <<>>)
<1> DEFINE rs == ReadsAt(ms, c0)
           g == Got(ms, c0)
<1>1. ReadsAt(ms, c) - rs = n /\ ReadsAt(ms, c) - rs \in 0 .. FIFO
  <2> DEFINE x == ReadsAt(ms, c)
  <2>1. x = rs + n /\ rs \in Nat /\ FIFO \in Nat
    BY I2cAssumption DEF Stores
  <2> HIDE DEF x, rs
  <2>2. x - rs = n /\ n \in 0 .. FIFO
    BY <2>1
  <2> QED BY <2>2 DEF x
<1>2. RxPlanTo(ms, r, rs, g, Got(ms, c), ReadsAt(ms, c) - rs)
  BY <1>1 DEF Stores
<1>3. Fifo(<<>>, rs, 0) /\ Len(<<>>) = 0 /\ ReadsOf(bu) = rs + 0
  BY DEF Fifo
<1>4. Holds(ms, bf, g) /\ rs \in Nat
  OBVIOUS
<1> HIDE DEF rs, g
<1>5. Fifo(<<>>, rs, Len(<<>>)) /\ ReadsOf(bu) = rs + Len(<<>>)
  BY <1>3
<1> QED BY <1>1, <1>2, <1>4, <1>5 DEF Stored

LEMMA StoredDone ==
  ASSUME NEW ms \in Seq(I2cMsg), NEW c, InRange(ms, c), NEW bf, Holds(ms, bf, Got(ms, c)),
         NEW bu, ReadsOf(bu) = ReadsAt(ms, c)
  PROVE  Stored(ms, c, bu, bf, <<>>, <<>>)
<1>1. Sound(ms, c, c, <<>>, <<>>, 0, <<>>)
  BY SoundStart
<1>2. Stores(ms, c, c, <<>>, 0) /\ ReadsAt(ms, c) \in Nat /\ 0 \in Nat /\ 0 <= FIFO
  BY <1>1, CursorFacts, I2cAssumption DEF Sound
<1> QED BY <1>2, StoredFrom

AllRead(ms, bf) ==
  \A i \in DOMAIN ms : ms[i].rd => bf[i] = [j \in 1 .. ms[i].len |-> ReadsTo(ms)[i - 1] + j]

LEMMA AllIsRead ==
  ASSUME NEW ms \in Seq(I2cMsg), NEW c, CursorOK(ms, c), c.msg > Len(ms),
         NEW bf, Holds(ms, bf, Got(ms, c))
  PROVE  AllRead(ms, bf)
<1> SUFFICES ASSUME NEW i \in 1 .. Len(ms), ms[i].rd
             PROVE  bf[i] = [j \in 1 .. ms[i].len |-> ReadsTo(ms)[i - 1] + j]
  BY DEF AllRead
<1> DEFINE s == bf[i]
           n == ms[i].len
           x == ReadsTo(ms)[i - 1]
           w == [j \in 1 .. n |-> x + j]
<1>1. n \in Nat /\ Got(ms, c)[i] = n
  <2>1. c.msg \in Nat /\ Len(ms) \in Nat /\ i < c.msg /\ ~(i > c.msg)
    BY DEF CursorOK, InRange, Cursor
  <2> QED BY <2>1, MsgIs DEF Got
<1>2. s \in Seq(Nat) /\ Len(s) = n /\ \A j \in 1 .. n : s[j] = x + j
  BY <1>1 DEF Holds, ReadBefore
<1> HIDE DEF s, n, x
<1>3. s = w
  BY <1>1, <1>2, SeqDef
<1> QED BY <1>3 DEF s, n, x

-----------------------------------------------------------------------------
(* The transfer in its states.                                             *)

UseInv ==
    /\ ena \in BOOLEAN /\ done \in BOOLEAN
    /\ xpc \in {"idle", "wait", "sync", "clean"}
    /\ xpc \in {"idle", "clean"} => handler = "none" /\ ~ena
    /\ xpc = "sync" => ~ena
    /\ done => handler = "none" /\ ~ena

KindInv ==
    /\ msgs \in Seq(I2cMsg) /\ (xpc # "idle" => msgs # <<>>)
    /\ cmds \in Seq(Cmd) /\ txf \in Seq(Item) /\ bus \in Seq(Item)
    /\ rx \in Seq(RxEntry) /\ rxf \in Seq(Nat)
    /\ hw \in {"idle", "run", "held", "stopped"}
    /\ handler \in {"none", "fail", "refill", "complete"}
    /\ raw \subseteq {"END_DETECT", "TRANS_COMPLETE", "NACK", "ARB_LOST", "TIME_OUT"}
    /\ err \in {"none", "ENXIO", "EAGAIN", "ETIMEDOUT"}
    /\ handler = "fail" => err # "none"
    /\ xpc = "clean" /\ err = "none" => done

SizeInv ==
    /\ Len(cmds) <= NCMDS /\ Len(rx) <= NCMDS /\ Len(txf) <= FIFO /\ Len(rxf) <= FIFO
    /\ EndsLast(cmds)
    /\ xpc # "idle" => cur # FirstByte /\ CursorOK(msgs, cur)

(* How far the list is, and where the cursor then is: a list that ends     *)
(* with END leaves messages, the last one none.                            *)
ProgressInv ==
    /\ xpc = "idle" => hw = "idle"
    /\ hw = "run" => cmds # <<>>
    /\ hw = "held" => cmds = <<>>
    /\ xpc # "idle" =>
         /\ hw = "idle" => cmds = <<>> /\ cur.msg > Len(msgs)
         /\ hw \in {"held", "stopped"} /\ cmds = <<>> => cur.msg <= Len(msgs)
         /\ hw = "run" => cmds[Len(cmds)] = LastCommand(msgs, cur)

(* A status bit or a handler tells where the list is: no END is taken for  *)
(* the end of the transfer, and none is seen twice.                        *)
IrqInv ==
    /\ xpc # "idle" =>
         /\ "END_DETECT" \in raw \/ handler = "refill" =>
              hw \in {"held", "stopped"} /\ cmds = <<>>
         /\ "TRANS_COMPLETE" \in raw \/ handler = "complete" \/ (done /\ err = "none") =>
              hw = "idle"
    /\ handler \in {"refill", "complete"} =>
         "END_DETECT" \notin raw /\ "TRANS_COMPLETE" \notin raw

ControlInv == UseInv /\ KindInv /\ SizeInv /\ ProgressInv /\ IrqInv

LineInv == xpc # "idle" =>
    /\ OnTraffic(Traffic(msgs), bus)
    /\ ~(hw = "stopped" /\ cmds # <<>>) => OnLine(msgs, cur, bus, cmds, txf)
StoreInv == xpc # "idle" => Stored(msgs, cur, bus, buf, rx, rxf)
FullInv == (xpc # "idle" /\ done /\ err = "none") \/ (xpc = "idle" /\ ret = "num") =>
    bus = Traffic(msgs) /\ AllRead(msgs, buf)

I2cInv == ControlInv /\ LineInv /\ StoreInv /\ FullInv

LEMMA NoItems ==
  /\ <<>> \in Seq(I2cMsg) /\ <<>> \in Seq(Cmd) /\ <<>> \in Seq(Item)
  /\ <<>> \in Seq(RxEntry) /\ <<>> \in Seq(Nat)
  /\ Len(<<>>) = 0 /\ 0 <= NCMDS /\ 0 <= FIFO /\ EndsLast(<<>>)
<1>1. NCMDS \in Nat /\ FIFO \in Nat
  BY I2cAssumption
<1> QED BY <1>1 DEF EndsLast

LEMMA I2cInvInit == I2cInit => I2cInv
<1> SUFFICES ASSUME I2cInit PROVE I2cInv
  OBVIOUS
<1>1. ControlInv
  <2>1. UseInv /\ ProgressInv /\ IrqInv
    BY DEF I2cInit, UseInv, ProgressInv, IrqInv
  <2>2. KindInv
    BY NoItems DEF I2cInit, KindInv
  <2>3. SizeInv
    BY NoItems DEF I2cInit, SizeInv
  <2> QED BY <2>1, <2>2, <2>3 DEF ControlInv
<1>2. LineInv /\ StoreInv /\ FullInv
  BY DEF I2cInit, LineInv, StoreInv, FullInv
<1> QED BY <1>1, <1>2 DEF I2cInv

(* What the thread does without the messages.                              *)
LEMMA ThreadSteps ==
  ASSUME I2cInv, UNCHANGED <<msgs, cur, bus, buf, rx>>,
         WaitDone \/ WaitTimeout \/ SynchronizeIrq \/ XferReturn \/ IrqEnter \/ UNCHANGED i2cVars
         \/ \E ms : XferRefused(ms)
  PROVE  I2cInv'
<1> USE DEF I2cInv
<1>1. CASE WaitDone
  BY <1>1 DEF WaitDone, device, ControlInv, UseInv, KindInv, SizeInv, ProgressInv, IrqInv, LineInv,
     StoreInv, FullInv
<1>2. CASE WaitTimeout
  BY <1>2 DEF WaitTimeout, device, ControlInv, UseInv, KindInv, SizeInv, ProgressInv, IrqInv, LineInv,
     StoreInv, FullInv
<1>3. CASE SynchronizeIrq
  BY <1>3 DEF SynchronizeIrq, device, ControlInv, UseInv, KindInv, SizeInv, ProgressInv, IrqInv,
     LineInv, StoreInv, FullInv
<1>4. CASE XferReturn
  <2>1. xpc = "clean" /\ xpc' = "idle" /\ handler = "none" /\ ~ena /\ (err = "none" => hw = "idle")
    BY <1>4 DEF XferReturn, ControlInv, UseInv, KindInv, IrqInv
  <2>2. hw' = "idle" /\ UNCHANGED <<msgs, cur, err, done, rx, buf, handler, bus>>
    BY <1>4, <2>1 DEF XferReturn
  <2>3. /\ cmds' \in {cmds, <<>>} /\ txf' \in {txf, <<>>} /\ rxf' \in {rxf, <<>>}
        /\ raw' \in {raw, {}} /\ ena' = FALSE
    BY <1>4, <2>1 DEF XferReturn, ControlInv, UseInv
  <2>4. /\ cmds' \in Seq(Cmd) /\ Len(cmds') <= NCMDS /\ EndsLast(cmds')
        /\ txf' \in Seq(Item) /\ Len(txf') <= FIFO /\ rxf' \in Seq(Nat) /\ Len(rxf') <= FIFO
    <3>1. CASE cmds' = cmds /\ txf' = txf /\ rxf' = rxf
      BY <3>1 DEF ControlInv, KindInv, SizeInv
    <3>2. CASE cmds' = <<>> /\ txf' = <<>> /\ rxf' = <<>>
      BY <3>2, NoItems
    <3> QED BY <1>4, <3>1, <3>2 DEF XferReturn
  <2>5. FullInv'
    BY <1>4, <2>1, <2>2 DEF XferReturn, ControlInv, KindInv, FullInv
  <2>6. UseInv'
    BY <2>1, <2>2, <2>3 DEF ControlInv, UseInv
  <2>9. ProgressInv' /\ IrqInv'
    BY <2>1, <2>2, <2>3 DEF ProgressInv, IrqInv
  <2>7. KindInv'
    BY <2>1, <2>2, <2>3, <2>4 DEF ControlInv, KindInv
  <2>8. SizeInv'
    BY <2>1, <2>2, <2>4 DEF ControlInv, SizeInv
  <2> QED BY <2>1, <2>5, <2>6, <2>7, <2>8, <2>9 DEF ControlInv, LineInv, StoreInv
<1>5. CASE IrqEnter
  <2>1. xpc = "wait" /\ ~done
    BY <1>5 DEF IrqEnter, ControlInv, UseInv
  <2>2. /\ handler' \in {"fail", "refill", "complete"} /\ raw' = {}
        /\ handler' = "fail" <=> err' # "none"
        /\ handler' = "refill" => "END_DETECT" \in raw
        /\ handler' = "complete" => "TRANS_COMPLETE" \in raw
        /\ err' \in {"none", "ENXIO", "EAGAIN", "ETIMEDOUT"}
    BY <1>5 DEF IrqEnter, Status, ControlInv, KindInv
  <2>3. UNCHANGED <<xpc, done, ena, ret, cmds, hw, txf, rxf>>
    BY <1>5 DEF IrqEnter, device
  <2>4. UseInv'
    BY <2>1, <2>2, <2>3 DEF ControlInv, UseInv
  <2>5. KindInv'
    BY <2>1, <2>2, <2>3 DEF ControlInv, KindInv
  <2>6. SizeInv' /\ ProgressInv'
    BY <2>1, <2>2, <2>3 DEF ControlInv, SizeInv, ProgressInv
  <2>7. IrqInv'
    BY <2>1, <2>2, <2>3 DEF ControlInv, IrqInv
  <2>8. LineInv' /\ StoreInv' /\ FullInv'
    BY <2>1, <2>2, <2>3 DEF LineInv, StoreInv, FullInv
  <2> QED BY <2>4, <2>5, <2>6, <2>7, <2>8 DEF ControlInv
<1>6. CASE UNCHANGED i2cVars
  BY <1>6 DEF i2cVars, driver, device, ControlInv, UseInv, KindInv, SizeInv, ProgressInv, IrqInv,
     LineInv, StoreInv, FullInv
<1>7. ASSUME NEW ms, XferRefused(ms) PROVE I2cInv'
  BY <1>7 DEF XferRefused, device, ControlInv, UseInv, KindInv, SizeInv, ProgressInv, IrqInv,
     LineInv, StoreInv, FullInv
<1> QED BY <1>1, <1>2, <1>3, <1>4, <1>5, <1>6, <1>7

(* A list of the driver goes to an idle or held controller.                *)
ListInv(ms, c0, l) == \E n : Listed(ms, c0, l.cur, l.cmds, l.tx, l.rx, n)

LEMMA ListGoes ==
  ASSUME NEW ms \in Seq(I2cMsg), NEW c0, CursorOK(ms, c0), NEW l, ListInv(ms, c0, l),
         NEW bu \in Seq(Item), Here(bu) = PointAt(ms, c0, 0), NEW bf, Holds(ms, bf, Got(ms, c0))
  PROVE  /\ OnLine(ms, l.cur, bu, l.cmds, l.tx) /\ Stored(ms, l.cur, bu, bf, l.rx, <<>>)
         /\ CursorOK(ms, l.cur) /\ l.cur # FirstByte
         /\ l.cmds \in Seq(Cmd) /\ l.cmds # <<>> /\ Len(l.cmds) <= NCMDS /\ EndsLast(l.cmds)
         /\ l.cmds[Len(l.cmds)] = LastCommand(ms, l.cur)
         /\ l.tx \in Seq(Item) /\ Len(l.tx) <= FIFO /\ l.rx \in Seq(RxEntry) /\ Len(l.rx) <= NCMDS
<1>1. PICK n : Listed(ms, c0, l.cur, l.cmds, l.tx, l.rx, n)
  BY DEF ListInv
<1>2. OnLine(ms, l.cur, bu, l.cmds, l.tx)
  BY <1>1 DEF Listed, OnLine
<1>3. ReadsOf(bu) = ReadsAt(ms, c0)
  <2>1. [o |-> Offset(ms, c0), t |-> 0, r |-> ReadsAt(ms, c0)].r = Here(bu).r
    BY DEF PointAt
  <2> QED BY <2>1, HereIs
<1>4. ReadsAt(ms, c0) \in Nat
  BY CursorFacts DEF CursorOK
<1>5. n \in Nat /\ n <= FIFO /\ Stores(ms, c0, l.cur, l.rx, n)
  BY <1>1 DEF Listed
<1>6. Stored(ms, l.cur, bu, bf, l.rx, <<>>)
  BY ONLY <1>3, <1>4, <1>5, Holds(ms, bf, Got(ms, c0)), StoredFrom
<1> QED BY <1>1, <1>2, <1>6 DEF Listed

LEMMA FirstByteOK ==
  ASSUME NEW ms \in Seq(I2cMsg), ms # <<>>
  PROVE  /\ CursorOK(ms, FirstByte) /\ Here(<<>>) = PointAt(ms, FirstByte, 0)
         /\ Holds(ms, [i \in DOMAIN ms |-> <<>>], Got(ms, FirstByte))
         /\ OnTraffic(Traffic(ms), <<>>)
<1>1. /\ FirstByte \in Cursor /\ FirstByte.msg = 1 /\ FirstByte.pos = 0 /\ ~FirstByte.addressed
      /\ FirstByte.msg - 1 = 0
  BY DEF FirstByte, Cursor
<1>2. Len(ms) \in Nat /\ Len(ms) >= 1 /\ DOMAIN ms = 1 .. Len(ms)
  OBVIOUS
<1>3. CursorOK(ms, FirstByte)
  BY <1>1, <1>2 DEF CursorOK, InRange
<1>4. TrafficTo(ms)[0] = <<>> /\ ReadsTo(ms)[0] = 0
  BY TrafficAre, ReadsAre
<1>5. ReadsOf(<<>>) = 0
  <2>1. {i \in DOMAIN <<>> : <<>>[i][1] = "R"} = {}
    OBVIOUS
  <2> QED BY <2>1, FS_EmptySet DEF ReadsOf
<1>6. Here(<<>>) = PointAt(ms, FirstByte, 0)
  <2>1. Offset(ms, FirstByte) = 0
    BY <1>1, <1>4 DEF Offset
  <2>2. ReadsAt(ms, FirstByte) = 0
    BY <1>1, <1>4 DEF ReadsAt
  <2> QED BY <1>5, <2>1, <2>2 DEF Here, PointAt
<1>7. \A i \in 1 .. Len(ms) : Got(ms, FirstByte)[i] = 0
  BY <1>1, <1>2 DEF Got
<1>8. Holds(ms, [i \in DOMAIN ms |-> <<>>], Got(ms, FirstByte))
  <2> DEFINE bf == [i \in DOMAIN ms |-> <<>>]
  <2>1. bf \in [1 .. Len(ms) -> Seq(Nat)] /\ \A i \in 1 .. Len(ms) : bf[i] = <<>>
    BY <1>2
  <2> HIDE DEF bf
  <2>2. ASSUME NEW i \in 1 .. Len(ms)
        PROVE  /\ Len(bf[i]) = Got(ms, FirstByte)[i]
               /\ \A j \in 1 .. Got(ms, FirstByte)[i] : bf[i][j] = ReadBefore(ms, i) + j
    <3>1. 1 .. Got(ms, FirstByte)[i] = {} /\ Len(<<>>) = Got(ms, FirstByte)[i]
      BY <1>7
    <3> QED BY <2>1, <3>1
  <2>3. Holds(ms, bf, Got(ms, FirstByte))
    BY <2>1, <2>2 DEF Holds
  <2> QED BY <2>3 DEF bf
<1>9. OnTraffic(Traffic(ms), <<>>)
  <2>1. Len(<<>>) = 0 /\ 1 .. 0 = {} /\ Len(Traffic(ms)) \in Nat
    BY AtEnd
  <2> QED BY <2>1 DEF OnTraffic
<1> QED BY <1>3, <1>6, <1>8, <1>9

LEMMA XferStartStep ==
  ASSUME I2cInv, NEW ms \in Transfers \cup Again, XferStart(ms)
  PROVE  I2cInv'
<1> DEFINE l == esp32s31_i2c_fill(Batch(ms, FirstByte))
           bf == [i \in DOMAIN ms |-> <<>>]
<1>1. ms \in Seq(I2cMsg) /\ ms # <<>>
  BY I2cAssumption DEF I2cMsg
<1>2. /\ cur' = l.cur /\ rx' = l.rx /\ cmds' = l.cmds /\ txf' = l.tx /\ rxf' = <<>>
      /\ xpc' = "wait" /\ msgs' = ms /\ buf' = bf /\ err' = "none" /\ done' = FALSE
      /\ raw' = {} /\ ena' = TRUE /\ bus' = <<>> /\ hw' = "run" /\ handler' = handler
      /\ handler = "none"
  BY DEF XferStart, I2cInv, ControlInv, UseInv
<1>3. /\ CursorOK(ms, FirstByte) /\ Here(<<>>) = PointAt(ms, FirstByte, 0)
      /\ Holds(ms, bf, Got(ms, FirstByte)) /\ OnTraffic(Traffic(ms), <<>>)
  BY <1>1, FirstByteOK
<1>4. ListInv(ms, FirstByte, l)
  BY <1>1, <1>3, Filled DEF ListInv
<1> HIDE DEF l, bf
<1>5. /\ OnLine(ms, l.cur, <<>>, l.cmds, l.tx) /\ Stored(ms, l.cur, <<>>, bf, l.rx, <<>>)
      /\ CursorOK(ms, l.cur) /\ l.cur # FirstByte
      /\ l.cmds \in Seq(Cmd) /\ l.cmds # <<>> /\ Len(l.cmds) <= NCMDS /\ EndsLast(l.cmds)
      /\ l.cmds[Len(l.cmds)] = LastCommand(ms, l.cur)
      /\ l.tx \in Seq(Item) /\ Len(l.tx) <= FIFO /\ l.rx \in Seq(RxEntry) /\ Len(l.rx) <= NCMDS
  BY <1>1, <1>3, <1>4, NoItems, ListGoes
<1>6. UseInv' /\ ProgressInv' /\ IrqInv' /\ FullInv'
  BY <1>2, <1>5 DEF UseInv, ProgressInv, IrqInv, FullInv
<1>7. KindInv'
  BY <1>1, <1>2, <1>5, NoItems DEF KindInv
<1>8. SizeInv'
  BY <1>2, <1>5, NoItems DEF SizeInv
<1>9. LineInv' /\ StoreInv'
  BY <1>2, <1>3, <1>5 DEF LineInv, StoreInv
<1> QED BY <1>6, <1>7, <1>8, <1>9 DEF I2cInv, ControlInv

(* What the handler finds when a list has run.                             *)
LEMMA ListRan ==
  ASSUME I2cInv, xpc # "idle", cmds = <<>>
  PROVE  /\ txf = <<>> /\ Len(bus) = GoalAt(msgs, cur) /\ ReadsOf(bus) = ReadsAt(msgs, cur)
         /\ Holds(msgs, esp32s31_i2c_drain(rx, rxf, buf), Got(msgs, cur))
<1>1. /\ OnLine(msgs, cur, bus, <<>>, txf) /\ Stored(msgs, cur, bus, buf, rx, rxf)
      /\ bus \in Seq(Item) /\ txf \in Seq(Item) /\ msgs \in Seq(I2cMsg) /\ rx \in Seq(RxEntry)
  BY DEF I2cInv, LineInv, StoreInv, ControlInv, KindInv
<1>2. txf = <<>> /\ Len(bus) = GoalAt(msgs, cur) /\ ReadsOf(bus) = ReadsAt(msgs, cur)
  BY <1>1, LineEmpty
<1> QED BY <1>1, <1>2, StoredDrained

LEMMA NextListStep ==
  ASSUME I2cInv, IrqNextList
  PROVE  I2cInv'
<1> DEFINE l == esp32s31_i2c_fill(Batch(msgs, cur))
           bf == esp32s31_i2c_drain(rx, rxf, buf)
<1>1. /\ xpc # "idle" /\ handler = "refill" /\ hw \in {"held", "stopped"} /\ cmds = <<>> /\ ~done
      /\ xpc # "clean"
  BY DEF IrqNextList, I2cInv, ControlInv, UseInv, KindInv, IrqInv
<1>2. /\ msgs \in Seq(I2cMsg) /\ msgs # <<>> /\ CursorOK(msgs, cur) /\ cur.msg <= Len(msgs)
      /\ bus \in Seq(Item) /\ "END_DETECT" \notin raw /\ "TRANS_COMPLETE" \notin raw
  BY <1>1 DEF I2cInv, ControlInv, KindInv, SizeInv, ProgressInv, IrqInv
<1>3. txf = <<>> /\ Len(bus) = GoalAt(msgs, cur) /\ ReadsOf(bus) = ReadsAt(msgs, cur)
      /\ Holds(msgs, bf, Got(msgs, cur))
  BY <1>1, ListRan
<1>4. ListInv(msgs, cur, l)
  BY <1>2, Filled DEF ListInv
<1>5. /\ buf' = bf /\ rxf' = <<>> /\ cur' = l.cur /\ rx' = l.rx /\ cmds' = l.cmds
      /\ txf' = txf \o l.tx /\ hw' = "run" /\ handler' = "none"
      /\ UNCHANGED <<xpc, msgs, err, done, ret, xfers, ena, raw, bus>>
  BY DEF IrqNextList, NextList
<1> HIDE DEF l, bf
<1>6. Here(bus) = PointAt(msgs, cur, 0)
  <2>1. GoalAt(msgs, cur) = Offset(msgs, cur)
    <3>1. ~(cur.msg > Len(msgs))
      BY <1>2 DEF CursorOK, InRange, Cursor
    <3> QED BY <3>1 DEF GoalAt
  <2> QED BY <1>3, <2>1 DEF Here, PointAt
<1>7. /\ OnLine(msgs, l.cur, bus, l.cmds, l.tx) /\ Stored(msgs, l.cur, bus, bf, l.rx, <<>>)
      /\ CursorOK(msgs, l.cur) /\ l.cur # FirstByte
      /\ l.cmds \in Seq(Cmd) /\ l.cmds # <<>> /\ Len(l.cmds) <= NCMDS /\ EndsLast(l.cmds)
      /\ l.cmds[Len(l.cmds)] = LastCommand(msgs, l.cur)
      /\ l.tx \in Seq(Item) /\ Len(l.tx) <= FIFO /\ l.rx \in Seq(RxEntry) /\ Len(l.rx) <= NCMDS
  BY ONLY <1>2, <1>3, <1>4, <1>6, ListGoes
<1>8. txf' = l.tx
  BY <1>3, <1>5, <1>7
<1>9. UseInv'
  BY <1>5, <1>1 DEF I2cInv, ControlInv, UseInv
<1>10. KindInv'
  BY <1>1, <1>5, <1>7, <1>8, NoItems DEF I2cInv, ControlInv, KindInv
<1>11. SizeInv'
  BY <1>5, <1>7, <1>8, NoItems DEF SizeInv
<1>12. ProgressInv' /\ IrqInv' /\ FullInv'
  BY <1>1, <1>2, <1>5, <1>7 DEF ProgressInv, IrqInv, FullInv
<1>13. LineInv' /\ StoreInv'
  BY <1>1, <1>5, <1>7, <1>8 DEF I2cInv, LineInv, StoreInv
<1> QED BY <1>9, <1>10, <1>11, <1>12, <1>13 DEF I2cInv, ControlInv

LEMMA CompleteStep ==
  ASSUME I2cInv, IrqComplete
  PROVE  I2cInv'
<1>1. xpc # "idle" /\ xpc # "clean" /\ handler \in {"complete", "fail"} /\ ~done
      /\ (handler = "fail" => err # "none") /\ (handler = "complete" => hw = "idle")
  BY DEF IrqComplete, I2cInv, ControlInv, UseInv, KindInv, IrqInv
<1>2. /\ ena' = FALSE /\ done' = TRUE /\ handler' = "none"
      /\ UNCHANGED <<xpc, msgs, cur, err, ret, xfers, raw, bus, cmds, hw, txf>>
  BY DEF IrqComplete
<1>3. CASE handler = "fail"
  <2>1. UNCHANGED <<buf, rxf, rx>>
    BY <1>3 DEF IrqComplete
  <2>2. UseInv' /\ KindInv' /\ SizeInv'
    BY <1>1, <1>2, <2>1 DEF I2cInv, ControlInv, UseInv, KindInv, SizeInv
  <2>3. ProgressInv' /\ IrqInv'
    BY <1>1, <1>2, <1>3 DEF I2cInv, ControlInv, ProgressInv, IrqInv
  <2>4. LineInv' /\ StoreInv' /\ FullInv'
    BY <1>1, <1>2, <1>3, <2>1 DEF I2cInv, LineInv, StoreInv, FullInv
  <2> QED BY <2>2, <2>3, <2>4 DEF I2cInv, ControlInv
<1>4. CASE handler = "complete"
  <2> DEFINE bf == esp32s31_i2c_drain(rx, rxf, buf)
  <2>1. buf' = bf /\ rxf' = <<>> /\ rx' = <<>>
    BY <1>4 DEF IrqComplete
  <2>2. hw = "idle" /\ cmds = <<>> /\ cur.msg > Len(msgs)
    BY <1>1, <1>4 DEF I2cInv, ControlInv, ProgressInv
  <2>3. /\ Len(bus) = GoalAt(msgs, cur) /\ ReadsOf(bus) = ReadsAt(msgs, cur)
        /\ Holds(msgs, bf, Got(msgs, cur))
    BY <1>1, <2>2, ListRan
  <2>4. /\ msgs \in Seq(I2cMsg) /\ bus \in Seq(Item) /\ CursorOK(msgs, cur)
        /\ OnTraffic(Traffic(msgs), bus) /\ Len(bus) = Len(Traffic(msgs))
    BY <1>1, <2>2, <2>3 DEF I2cInv, ControlInv, KindInv, SizeInv, LineInv, GoalAt
  <2> HIDE DEF bf
  <2>5. bus = Traffic(msgs)
    <3>1. Traffic(msgs) \in Seq(Item)
      BY <2>4, AtEnd
    <3>2. \A i \in 1 .. Len(bus) : bus[i] = Traffic(msgs)[i]
      BY <2>4 DEF OnTraffic
    <3> QED BY <2>4, <3>1, <3>2, SeqEqual
  <2>6. AllRead(msgs, bf)
    BY <2>2, <2>3, <2>4, AllIsRead
  <2>7. Stored(msgs, cur, bus, bf, <<>>, <<>>)
    BY <2>3, <2>4, StoredDone DEF CursorOK
  <2>8. UseInv' /\ KindInv'
    BY <1>1, <1>2, <2>1, NoItems DEF I2cInv, ControlInv, UseInv, KindInv
  <2>9. SizeInv'
    BY <1>1, <1>2, <2>1, NoItems DEF I2cInv, ControlInv, SizeInv
  <2>10. ProgressInv' /\ IrqInv'
    BY <1>1, <1>2, <2>2 DEF I2cInv, ControlInv, ProgressInv, IrqInv
  <2>11. LineInv' /\ StoreInv' /\ FullInv'
    BY <1>1, <1>2, <2>1, <2>5, <2>6, <2>7 DEF I2cInv, LineInv, StoreInv, FullInv
  <2> QED BY <2>8, <2>9, <2>10, <2>11 DEF I2cInv, ControlInv
<1> QED BY <1>1, <1>3, <1>4

LEMMA EndsLastTail ==
  ASSUME NEW cm \in Seq(Cmd), cm # <<>>, EndsLast(cm)
  PROVE  /\ Tail(cm) \in Seq(Cmd) /\ Len(Tail(cm)) = Len(cm) - 1 /\ EndsLast(Tail(cm))
         /\ Head(cm)[1] \in Ends => Tail(cm) = <<>> /\ cm[Len(cm)] = Head(cm)
         /\ Head(cm)[1] \notin Ends =>
              Tail(cm) # <<>> /\ Tail(cm)[Len(Tail(cm))] = cm[Len(cm)]
<1> DEFINE tl == Tail(cm)
           n == Len(cm)
<1>1. /\ tl \in Seq(Cmd) /\ Len(tl) = n - 1 /\ n \in Nat /\ n >= 1 /\ Head(cm) = cm[1]
      /\ \A i \in 1 .. n - 1 : tl[i] = cm[i + 1]
  OBVIOUS
<1>2. \A k \in 1 .. n : cm[k][1] \in Ends <=> k = n
  BY DEF EndsLast
<1> HIDE DEF tl, n
<1>3. DOMAIN tl = 1 .. n - 1
  BY <1>1
<1>4. ASSUME NEW k \in 1 .. n - 1 PROVE tl[k][1] \in Ends <=> k = n - 1
  <2>1. k + 1 \in 1 .. n /\ (k + 1 = n <=> k = n - 1)
    BY <1>1
  <2> QED BY <1>1, <1>2, <2>1
<1>5. EndsLast(tl)
  BY <1>1, <1>3, <1>4 DEF EndsLast
<1>6. 1 \in 1 .. n
  BY <1>1
<1>7. ASSUME cm[1][1] \in Ends PROVE tl = <<>> /\ cm[n] = cm[1]
  <2>1. n = 1
    BY <1>2, <1>6, <1>7
  <2>2. Len(tl) = 0
    BY <1>1, <2>1
  <2> QED BY <1>1, <2>1, <2>2
<1>8. ASSUME cm[1][1] \notin Ends PROVE tl # <<>> /\ tl[Len(tl)] = cm[n]
  <2>1. n # 1
    BY <1>2, <1>6, <1>8
  <2>2. n - 1 \in 1 .. n - 1 /\ (n - 1) + 1 = n /\ n - 1 # 0
    BY <1>1, <2>1
  <2> QED BY <1>1, <2>2
<1> QED BY <1>1, <1>5, <1>7, <1>8 DEF tl, n

(* The controller runs: it sends what is next, and only the last command   *)
(* of a list makes it stop or wait.                                        *)
LEMMA RunCommandStep ==
  ASSUME I2cInv, RunCommand
  PROVE  I2cInv'
<1> DEFINE c == Head(cmds)
           tl == Tail(cmds)
           bu2 == bus \o LogOf(c, txf, bus)
<1>1. /\ hw = "run" /\ cmds # <<>> /\ xpc # "idle"
      /\ msgs \in Seq(I2cMsg) /\ cmds \in Seq(Cmd) /\ txf \in Seq(Item) /\ bus \in Seq(Item)
      /\ rxf \in Seq(Nat)
      /\ CursorOK(msgs, cur) /\ EndsLast(cmds) /\ OnTraffic(Traffic(msgs), bus)
      /\ OnLine(msgs, cur, bus, cmds, txf) /\ Stored(msgs, cur, bus, buf, rx, rxf)
      /\ cmds[Len(cmds)] = LastCommand(msgs, cur)
      /\ ~(done /\ err = "none") /\ handler \notin {"refill", "complete"}
      /\ "END_DETECT" \notin raw /\ "TRANS_COMPLETE" \notin raw
  BY DEF RunCommand, I2cInv, ControlInv, KindInv, SizeInv, ProgressInv, IrqInv, LineInv, StoreInv
<1>2. bus' = bu2 /\ txf' = Unsent(c, txf) /\ cmds' = tl
  BY DEF RunCommand, LogOf, Log, Unsent, Bytes, ReadSoFar, ReadsOf
<1>3. /\ rxf' = IF c[1] = "READ" THEN rxf \o [j \in 1 .. c[2] |-> ReadsOf(bus) + j] ELSE rxf
      /\ UNCHANGED <<xpc, msgs, cur, err, done, rx, buf, ret, xfers, handler, ena>>
  BY DEF RunCommand, ReadSoFar, ReadsOf, driver
<1>4. /\ c[1] = "END" => hw' = "held" /\ raw' = raw \cup {"END_DETECT"}
      /\ c[1] = "STOP" => hw' = "idle" /\ raw' = raw \cup {"TRANS_COMPLETE"}
      /\ c[1] \notin Ends => hw' = "run" /\ raw' = raw
  BY DEF RunCommand, Ends
<1>5. /\ bu2 \in Seq(Item) /\ OnTraffic(Traffic(msgs), bu2)
      /\ txf' \in Seq(Item) /\ Len(txf') <= Len(txf) /\ OnLine(msgs, cur, bu2, tl, txf')
      /\ c[1] = "READ" => c[2] \in Nat /\ ReadsOf(bu2) = ReadsOf(bus) + c[2]
      /\ c[1] # "READ" => ReadsOf(bu2) = ReadsOf(bus)
      /\ ReadsOf(bu2) <= ReadsAt(msgs, cur)
  <2> DEFINE t2 == txf'
  <2>1. bu2 = bus \o LogOf(Head(cmds), txf, bus) /\ t2 = Unsent(Head(cmds), txf)
    BY <1>2
  <2>2. /\ msgs \in Seq(I2cMsg) /\ cmds \in Seq(Cmd) /\ cmds # <<>> /\ txf \in Seq(Item)
        /\ bus \in Seq(Item) /\ OnTraffic(Traffic(msgs), bus)
        /\ OnLine(msgs, cur, bus, cmds, txf)
    BY <1>1
  <2> HIDE DEF bu2, t2
  <2>3. LineRan(msgs, cur, cmds, txf, bus, bu2, t2)
    BY ONLY <2>1, <2>2, LineRuns
  <2> QED BY <2>3 DEF LineRan, t2
<1>6. /\ tl \in Seq(Cmd) /\ Len(tl) = Len(cmds) - 1 /\ EndsLast(tl)
      /\ c[1] \in Ends => tl = <<>> /\ cmds[Len(cmds)] = c
      /\ c[1] \notin Ends => tl # <<>> /\ tl[Len(tl)] = cmds[Len(cmds)]
  BY ONLY <1>1, EndsLastTail
<1> HIDE DEF c, tl, bu2
<1>7. Stored(msgs, cur, bu2, buf, rx, rxf') /\ rxf' \in Seq(Nat) /\ Len(rxf') <= FIFO
  <2>1. CASE c[1] = "READ"
    <3>1. ReadsAt(msgs, cur) \in Nat
      BY <1>1, CursorFacts DEF CursorOK
    <3>2. rxf' = rxf \o [j \in 1 .. c[2] |-> ReadsOf(bus) + j]
      BY <1>3, <2>1
    <3>3. /\ Stored(msgs, cur, bus, buf, rx, rxf) /\ c[2] \in Nat
          /\ ReadsOf(bu2) = ReadsOf(bus) + c[2] /\ ReadsOf(bu2) <= ReadsAt(msgs, cur)
      BY <1>1, <1>5, <2>1
    <3> QED BY ONLY <3>1, <3>2, <3>3, StoredMore
  <2>2. CASE c[1] # "READ"
    <3>1. rxf' = rxf /\ ReadsOf(bu2) = ReadsOf(bus)
      BY <1>3, <1>5, <2>2
    <3>2. Stored(msgs, cur, bu2, buf, rx, rxf)
      BY ONLY <1>1, <3>1, StoredSame
    <3> QED BY <1>1, <3>1, <3>2 DEF I2cInv, ControlInv, SizeInv
  <2> QED BY <2>1, <2>2
<1>8. /\ c[1] = "END" => cur.msg <= Len(msgs)
      /\ c[1] = "STOP" => cur.msg > Len(msgs)
  <2>1. cur.msg \in Nat /\ Len(msgs) \in Nat
    BY <1>1 DEF CursorOK, InRange, Cursor
  <2>2. c[1] \in Ends => c = LastCommand(msgs, cur)
    BY <1>1, <1>6
  <2>3. "END" \in Ends /\ "STOP" \in Ends
    BY DEF Ends
  <2>4. ASSUME c[1] = "END" PROVE cur.msg <= Len(msgs)
    <3>1. LastCommand(msgs, cur)[1] = "END"
      BY <2>2, <2>3, <2>4
    <3>2. cur.msg > Len(msgs) => LastCommand(msgs, cur)[1] = "STOP"
      BY DEF LastCommand
    <3> QED BY <2>1, <3>1, <3>2
  <2>5. ASSUME c[1] = "STOP" PROVE cur.msg > Len(msgs)
    <3>1. LastCommand(msgs, cur)[1] = "STOP"
      BY <2>2, <2>3, <2>5
    <3>2. ~(cur.msg > Len(msgs)) => LastCommand(msgs, cur)[1] = "END"
      BY DEF LastCommand
    <3> QED BY <3>1, <3>2
  <2> QED BY <2>4, <2>5
<1>9. c[1] = "END" \/ c[1] = "STOP" \/ c[1] \notin Ends
  BY DEF Ends
<1>10. "END" \in Ends /\ "STOP" \in Ends
  BY DEF Ends
<1>11. UseInv'
  BY <1>3 DEF I2cInv, ControlInv, UseInv
<1>12. KindInv'
  <2>1. hw' \in {"idle", "run", "held", "stopped"}
    BY <1>4, <1>9
  <2>2. raw' \subseteq {"END_DETECT", "TRANS_COMPLETE", "NACK", "ARB_LOST", "TIME_OUT"}
    BY <1>4, <1>9 DEF I2cInv, ControlInv, KindInv
  <2> QED BY <1>2, <1>3, <1>5, <1>6, <1>7, <2>1, <2>2 DEF I2cInv, ControlInv, KindInv
<1>13. SizeInv'
  <2>1. /\ Len(cmds) <= NCMDS /\ Len(rx) <= NCMDS /\ Len(txf) <= FIFO
        /\ (xpc # "idle" => cur # FirstByte /\ CursorOK(msgs, cur))
    BY DEF I2cInv, ControlInv, SizeInv
  <2>2. Len(tl) <= NCMDS /\ Len(txf') <= FIFO
    <3> DEFINE x == Len(cmds)
               y == Len(tl)
               z == Len(txf)
               w == Len(txf')
    <3>1. /\ x \in Nat /\ y = x - 1 /\ x <= NCMDS /\ z \in Nat /\ w \in Nat /\ w <= z /\ z <= FIFO
          /\ NCMDS \in Nat /\ FIFO \in Nat
      BY <1>1, <1>5, <1>6, <2>1, I2cAssumption
    <3> HIDE DEF x, y, z, w
    <3>2. y <= NCMDS /\ w <= FIFO
      BY <3>1
    <3> QED BY <3>2 DEF y, w
  <2> QED BY <1>2, <1>3, <1>6, <1>7, <2>1, <2>2 DEF SizeInv
<1>14. ProgressInv'
  BY <1>1, <1>2, <1>3, <1>4, <1>6, <1>8, <1>9, <1>10 DEF ProgressInv
<1>15. IrqInv'
  BY <1>1, <1>2, <1>3, <1>4, <1>6, <1>9, <1>10 DEF IrqInv
<1>16. LineInv' /\ StoreInv'
  BY <1>1, <1>2, <1>3, <1>5, <1>7 DEF LineInv, StoreInv
<1>17. FullInv'
  BY <1>1, <1>3 DEF FullInv
<1> QED BY <1>11, <1>12, <1>13, <1>14, <1>15, <1>16, <1>17 DEF I2cInv, ControlInv

LEMMA NackStep ==
  ASSUME I2cInv, Nack
  PROVE  I2cInv'
<1>1. /\ hw = "run" /\ cmds # <<>> /\ xpc # "idle" /\ Head(cmds)[1] = "WRITE"
      /\ msgs \in Seq(I2cMsg) /\ cmds \in Seq(Cmd) /\ txf \in Seq(Item) /\ bus \in Seq(Item)
      /\ OnTraffic(Traffic(msgs), bus)
      /\ OnLine(msgs, cur, bus, cmds, txf) /\ Stored(msgs, cur, bus, buf, rx, rxf)
      /\ ~(done /\ err = "none") /\ handler \notin {"refill", "complete"}
      /\ "END_DETECT" \notin raw /\ "TRANS_COMPLETE" \notin raw
  BY DEF Nack, I2cInv, ControlInv, KindInv, SizeInv, ProgressInv, IrqInv, LineInv, StoreInv
<1>2. PICK k \in 1 .. Head(cmds)[2] :
           bus' = bus \o SubSeq(txf, 1, k) /\ txf' = SubSeq(txf, k + 1, Len(txf))
  BY DEF Nack, Bytes
<1>3. /\ raw' = raw \cup {"NACK"} /\ hw' = "stopped"
      /\ UNCHANGED <<xpc, msgs, cur, err, done, rx, buf, ret, xfers, handler, ena, cmds, rxf>>
  BY DEF Nack, driver
<1>4. /\ bus' \in Seq(Item) /\ OnTraffic(Traffic(msgs), bus') /\ ReadsOf(bus') = ReadsOf(bus)
      /\ txf' \in Seq(Item) /\ Len(txf') <= Len(txf)
  <2>1. /\ bus \o SubSeq(txf, 1, k) \in Seq(Item)
        /\ OnTraffic(Traffic(msgs), bus \o SubSeq(txf, 1, k))
        /\ ReadsOf(bus \o SubSeq(txf, 1, k)) = ReadsOf(bus)
        /\ SubSeq(txf, k + 1, Len(txf)) \in Seq(Item)
        /\ Len(SubSeq(txf, k + 1, Len(txf))) <= Len(txf)
    BY ONLY <1>1, k \in 1 .. Head(cmds)[2], LineStops
  <2> QED BY <1>2, <2>1
<1>5. Stored(msgs, cur, bus', buf, rx, rxf)
  BY ONLY <1>1, <1>4, StoredSame
<1>6. UseInv' /\ KindInv'
  BY <1>1, <1>3, <1>4 DEF I2cInv, ControlInv, UseInv, KindInv
<1>7. SizeInv'
  <2>1. Len(txf) <= FIFO
    BY DEF I2cInv, ControlInv, SizeInv
  <2>2. Len(txf') <= FIFO
    <3> DEFINE z == Len(txf)
               w == Len(txf')
    <3>1. z \in Nat /\ w \in Nat /\ w <= z /\ z <= FIFO /\ FIFO \in Nat
      BY <1>1, <1>4, <2>1, I2cAssumption
    <3> HIDE DEF z, w
    <3>2. w <= FIFO
      BY <3>1
    <3> QED BY <3>2 DEF w
  <2> QED BY <1>3, <2>2 DEF I2cInv, ControlInv, SizeInv
<1>8. ProgressInv' /\ IrqInv'
  BY <1>1, <1>3 DEF ProgressInv, IrqInv
<1>9. LineInv' /\ StoreInv' /\ FullInv'
  BY <1>1, <1>3, <1>4, <1>5 DEF LineInv, StoreInv, FullInv
<1> QED BY <1>6, <1>7, <1>8, <1>9 DEF I2cInv, ControlInv

LEMMA BusFaultStep ==
  ASSUME I2cInv, BusFault
  PROVE  I2cInv'
<1>1. /\ hw \in {"run", "held"} /\ xpc # "idle" /\ hw' = "stopped"
      /\ UNCHANGED <<xpc, msgs, cur, err, done, rx, buf, ret, xfers, handler, ena,
                     bus, cmds, txf, rxf>>
  BY DEF BusFault, driver, I2cInv, ControlInv, ProgressInv
<1>2. PICK bit \in {"ARB_LOST", "TIME_OUT"} : raw' = raw \cup {bit}
  BY DEF BusFault
<1>3. UseInv' /\ KindInv'
  BY <1>1, <1>2 DEF I2cInv, ControlInv, UseInv, KindInv
<1>4. SizeInv' /\ ProgressInv'
  BY <1>1 DEF I2cInv, ControlInv, SizeInv, ProgressInv
<1>5. IrqInv'
  BY <1>1, <1>2 DEF I2cInv, ControlInv, IrqInv, ProgressInv
<1>6. LineInv' /\ StoreInv' /\ FullInv'
  BY <1>1 DEF I2cInv, ControlInv, ProgressInv, LineInv, StoreInv, FullInv
<1> QED BY <1>3, <1>4, <1>5, <1>6 DEF I2cInv, ControlInv

LEMMA I2cInvStep ==
  ASSUME I2cInv, [I2cNext]_i2cVars
  PROVE  I2cInv'
<1>1. ASSUME NEW ms, XferRefused(ms) PROVE I2cInv'
  <2>1. UNCHANGED <<msgs, cur, bus, buf, rx>>
    BY <1>1 DEF XferRefused, device
  <2> QED BY <1>1, <2>1, ThreadSteps
<1>2. ASSUME NEW ms \in Transfers \cup Again, XferStart(ms) PROVE I2cInv'
  BY <1>2, XferStartStep
<1>3. CASE WaitDone \/ WaitTimeout \/ SynchronizeIrq \/ XferReturn \/ IrqEnter \/ UNCHANGED i2cVars
  <2>1. UNCHANGED <<msgs, cur, bus, buf, rx>>
    BY <1>3 DEF WaitDone, WaitTimeout, SynchronizeIrq, XferReturn, IrqEnter, i2cVars, driver, device
  <2> QED BY <1>3, <2>1, ThreadSteps
<1>4. CASE IrqNextList
  BY <1>4, NextListStep
<1>5. CASE IrqComplete
  BY <1>5, CompleteStep
<1>6. CASE RunCommand
  BY <1>6, RunCommandStep
<1>7. CASE Nack
  BY <1>7, NackStep
<1>8. CASE BusFault
  BY <1>8, BusFaultStep
<1>9. ASSUME NEW ms \in IF xfers = 0 THEN Transfers ELSE Again PROVE ms \in Transfers \cup Again
  OBVIOUS
<1> QED
  BY <1>1, <1>2, <1>3, <1>4, <1>5, <1>6, <1>7, <1>8, <1>9 DEF I2cNext

LEMMA BusIsCarried == ASSUME I2cInv PROVE BusCarriesMessages
<1>1. ListsFit
  BY DEF I2cInv, ControlInv, SizeInv, ListsFit, EndsLast, Ends
<1>2. ASSUME xpc # "idle" PROVE IsPrefix(bus, Traffic(msgs))
  <2> DEFINE W == Traffic(msgs)
             n == Len(bus)
  <2>1. /\ W \in Seq(Item) /\ bus \in Seq(Item) /\ n <= Len(W) /\ n \in Nat /\ Len(W) \in Nat
        /\ \A i \in 1 .. n : bus[i] = W[i]
    <3>1. OnTraffic(W, bus) /\ bus \in Seq(Item) /\ msgs \in Seq(I2cMsg)
      BY <1>2 DEF I2cInv, ControlInv, KindInv, LineInv
    <3> QED BY <3>1, AtEnd DEF OnTraffic
  <2> HIDE DEF W
  <2>2. SubSeq(bus, 1, n) = [i \in 1 .. n |-> bus[i]] /\ SubSeq(W, 1, n) = [i \in 1 .. n |-> W[i]]
    BY <2>1
  <2> QED BY <2>1, <2>2 DEF IsPrefix, W
<1>3. ASSUME xpc = "idle", ret = "num"
      PROVE  /\ bus = Traffic(msgs)
             /\ \A i \in DOMAIN msgs : msgs[i].rd =>
                   buf[i] = [j \in 1 .. msgs[i].len |-> ReadsTo(msgs)[i - 1] + j]
  BY <1>3 DEF I2cInv, FullInv, AllRead
<1> QED BY <1>1, <1>2, <1>3 DEF BusCarriesMessages

(* The bus carries the messages of a transfer, each start, address and     *)
(* byte once and in order, and a transfer that succeeds has stored every   *)
(* byte it read where its message wants it: for all messages, every size   *)
(* of the list and the FIFOs, and every error and timeout.                 *)
THEOREM TransfersCorrect == I2cInit /\ [][I2cNext]_i2cVars => []BusCarriesMessages
<1>1. I2cInv /\ [I2cNext]_i2cVars => I2cInv'
  BY I2cInvStep
<1> QED
  BY <1>1, I2cInvInit, BusIsCarried, PTL

LEMMA UseStep ==
  ASSUME I2cInv, [I2cNext]_i2cVars
  PROVE  [xpc = "idle" => buf' = buf \/ xpc' = "wait"]_i2cVars
<1> SUFFICES ASSUME xpc = "idle", I2cNext PROVE buf' = buf \/ xpc' = "wait"
  OBVIOUS
<1>1. handler = "none"
  BY DEF I2cInv, ControlInv, UseInv
<1>2. ~IrqNextList /\ ~IrqComplete
  BY <1>1 DEF IrqNextList, IrqComplete
<1> QED
  BY <1>2 DEF I2cNext, XferRefused, XferStart, WaitDone, WaitTimeout, SynchronizeIrq,
     XferReturn, IrqEnter, RunCommand, Nack, BusFault, driver

(* Nothing touches the buffers of a transfer that has returned, for every  *)
(* size of the lists and FIFOs, all messages and every race of the timeout *)
(* with the handler.                                                       *)
THEOREM BuffersGivenBack == I2cInit /\ [][I2cNext]_i2cVars => NoUseAfterReturn
<1>1. I2cInv /\ [I2cNext]_i2cVars => I2cInv'
  BY I2cInvStep
<1>2. I2cInv /\ [I2cNext]_i2cVars => [xpc = "idle" => buf' = buf \/ xpc' = "wait"]_i2cVars
  BY UseStep
<1> QED
  BY <1>1, <1>2, I2cInvInit, PTL DEF NoUseAfterReturn
=============================================================================
