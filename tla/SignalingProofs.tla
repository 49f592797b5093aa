-------------------------- MODULE SignalingProofs --------------------------
(***************************************************************************)
(* TLAPS proofs about SignalingServer composed with the registry, for      *)
(* every set of sockets and ids and every cap: once main()'s shutdown has  *)
(* cleared the registry it stays empty, and when main() returns every      *)
(* socket create_peer admitted is closed.                                  *)
(***************************************************************************)
EXTENDS Signaling, TLAPS

\* The strengthening.  The listener accepts only between start() and the
\* end of stop(); once stop() has joined the listener's thread, no
\* on_client_connected is left before its create_peer; before start() the
\* registry is empty too; and the property.
ShutdownInv ==
    /\ server \in ServerStates
    /\ at \in [Clients -> Points]
    /\ reg \in [PeerIds -> Reg!Stages \cup {Reg!Free}]
    /\ server = "new" => \A id \in PeerIds : reg[id] = Reg!Free
    /\ listening => server \in {"running", "stopping"}
    /\ server \in {"new", "stopped", "cleared", "exited"} =>
           \A c \in Clients : at[c] \in {"idle", "rejected", "done"}
    /\ RegistryStaysCleared

\* Each admitted client's socket is closed, or its session is in clients_
\* (where stop() will close it), or on_client_connected has not stored it
\* yet; ids are handed out once; a reported close is a closed socket.
SocketInv ==
    /\ ws \in [Clients -> WsStates]
    /\ pid \in [Clients -> PeerIds \cup {NoId}]
    /\ clients \in [PeerIds -> Clients \cup {NoClient}]
    /\ closing \in [Clients -> BOOLEAN]
    /\ handlers \in [Clients -> BOOLEAN]
    /\ \A c \in Clients : at[c] = "idle" => ws[c] = "none"
    /\ \A c \in Clients :
           pid[c] = NoId <=> at[c] \in {"idle", "accepted", "refused", "rejected"}
    /\ server = "new" => \A c \in Clients : pid[c] = NoId
    /\ \A c, d \in Clients : c # d /\ pid[c] # NoId => pid[c] # pid[d]
    /\ \A id \in PeerIds : clients[id] # NoClient => pid[clients[id]] = id
    /\ \A c \in Clients : closing[c] => ws[c] = "closed"
    /\ \A c \in Clients : pid[c] # NoId =>
           \/ ws[c] = "closed"
           \/ clients[pid[c]] = c
           \/ at[c] \in {"created", "welcomed"}
    /\ AdmittedSocketsClosedAtExit

USE DEF Reg!Free, Reg!Stages, ServerStates, Points

LEMMA InitShutdownInv == Init => ShutdownInv
BY DEF Init, Reg!Init, ShutdownInv, RegistryStaysCleared, ServerStates,
       Points

\* A step of one socket's on_client_connected, past create_peer, that
\* leaves main(), the listener and the registry alone.
LEMMA SocketStep ==
    ASSUME ShutdownInv, NEW c \in Clients, NEW p \in Points \ {"accepted"},
           at[c] \notin {"idle", "rejected", "done"},
           at' = [at EXCEPT ![c] = p],
           UNCHANGED <<server, listening, reg>>
    PROVE  ShutdownInv'
BY DEF ShutdownInv, RegistryStaysCleared

\* A step that changes neither main(), the listener, the program points
\* nor any live session: the registry at most frees sessions.
LEMMA QuietStep ==
    ASSUME ShutdownInv,
           UNCHANGED <<server, listening, at>>,
           reg' \in [PeerIds -> Reg!Stages \cup {Reg!Free}],
           \A id \in PeerIds : reg[id] = Reg!Free => reg'[id] = Reg!Free
    PROVE  ShutdownInv'
BY DEF ShutdownInv, RegistryStaysCleared

LEMMA NextShutdownInv == ShutdownInv /\ [Next]_vars => ShutdownInv'
<1> SUFFICES ASSUME ShutdownInv, [Next]_vars PROVE ShutdownInv'
    OBVIOUS
<1>1. ASSUME NEW c \in Clients, Accept(c) PROVE ShutdownInv'
  <2>1. listening /\ server \in {"running", "stopping"}
    BY <1>1 DEF Accept, ShutdownInv
  <2>2. QED
    BY <1>1, <2>1 DEF Accept, ShutdownInv, RegistryStaysCleared, Points
<1>2. ASSUME NEW c \in Clients, NEW id \in PeerIds, NEW ok \in BOOLEAN,
             Connect(c, id, ok)
      PROVE  ShutdownInv'
  <2>1. at[c] = "accepted" /\ UNCHANGED <<server, listening>>
    BY <1>2 DEF Connect
  <2>2. server \notin {"new", "stopped", "cleared", "exited"}
    BY <2>1 DEF ShutdownInv
  <2>3. at' = [at EXCEPT ![c] = "created"] \/ at' = [at EXCEPT ![c] = "refused"]
    BY <1>2 DEF Connect
  <2>4. reg' \in [PeerIds -> Reg!Stages \cup {Reg!Free}]
    BY <1>2 DEF Connect, Reg!Admit, ShutdownInv
  <2>5. QED
    BY <2>1, <2>2, <2>3, <2>4 DEF ShutdownInv, RegistryStaysCleared
<1>3. ASSUME NEW c \in Clients, Reject(c) \/ Welcome(c) \/ Store(c)
      PROVE  ShutdownInv'
  BY <1>3, SocketStep DEF Reject, Welcome, Store, Points
<1>16. ASSUME NEW c \in Clients, InstallHandlers(c) PROVE ShutdownInv'
  <2>1. /\ at[c] = "stored"
        /\ at' = [at EXCEPT ![c] = "handled"]
        /\ UNCHANGED <<server, listening>>
    BY <1>16 DEF InstallHandlers
  <2>2. /\ reg' \in [PeerIds -> Reg!Stages \cup {Reg!Free}]
        /\ \A id \in PeerIds : reg[id] = Reg!Free => reg'[id] = Reg!Free
    BY <1>16 DEF InstallHandlers, Disconnect, Reg!Remove, ShutdownInv
  <2>3. QED
    BY <2>1, <2>2 DEF ShutdownInv, RegistryStaysCleared
<1>4. ASSUME NEW c \in Clients, StartOffer(c) PROVE ShutdownInv'
  <2>1. CASE reg[pid[c]] = "created"
    <3>1. reg' = [reg EXCEPT ![pid[c]] = "offered"]
          /\ at' = [at EXCEPT ![c] = "done"]
          /\ UNCHANGED <<server, listening>>
      BY <1>4, <2>1 DEF StartOffer, Reg!Offer
    <3>2. QED
      BY <2>1, <3>1 DEF ShutdownInv, RegistryStaysCleared, Reg!Free, Points
  <2>2. CASE reg[pid[c]] # "created"
    BY <1>4, <2>2, SocketStep DEF StartOffer, Points
  <2>3. QED
    BY <2>1, <2>2
<1>5. ASSUME NEW c \in Clients, NEW valid \in BOOLEAN,
             OnClientMessage(c, valid)
      PROVE  ShutdownInv'
  <2>1. /\ reg' \in [PeerIds -> Reg!Stages \cup {Reg!Free}]
        /\ \A id \in PeerIds : reg[id] = Reg!Free => reg'[id] = Reg!Free
    BY <1>5 DEF OnClientMessage, Reg!Answer, ShutdownInv
  <2>2. QED
    BY <1>5, <2>1, QuietStep DEF OnClientMessage
<1>6. ASSUME NEW c \in Clients, OnClientDisconnected(c) PROVE ShutdownInv'
  <2>1. /\ reg' \in [PeerIds -> Reg!Stages \cup {Reg!Free}]
        /\ \A id \in PeerIds : reg[id] = Reg!Free => reg'[id] = Reg!Free
    BY <1>6 DEF OnClientDisconnected, Disconnect, Reg!Remove, ShutdownInv
  <2>2. QED
    BY <1>6, <2>1, QuietStep DEF OnClientDisconnected
<1>7. ASSUME NEW id \in PeerIds, TransportFailed(id) PROVE ShutdownInv'
  <2>1. /\ reg' \in [PeerIds -> Reg!Stages \cup {Reg!Free}]
        /\ \A j \in PeerIds : reg[j] = Reg!Free => reg'[j] = Reg!Free
    BY <1>7 DEF TransportFailed, Reg!Reap, ShutdownInv
  <2>2. QED
    BY <1>7, <2>1, QuietStep DEF TransportFailed
<1>8. ASSUME NEW c \in Clients, SendOffer(c) \/ Handshake(c) \/ SocketClosed(c)
      PROVE  ShutdownInv'
  <2>1. UNCHANGED <<server, listening, at, reg>>
    BY <1>8 DEF SendOffer, Handshake, SocketClosed, Send, Close
  <2>2. QED
    BY <2>1, QuietStep DEF ShutdownInv
<1>9. ASSUME NEW ok \in BOOLEAN, StartServer(ok) PROVE ShutdownInv'
  BY <1>9 DEF StartServer, ShutdownInv, RegistryStaysCleared, ServerStates
<1>10. CASE Stop
  BY <1>10 DEF Stop, CloseStored, ShutdownInv, RegistryStaysCleared,
               ServerStates
<1>11. CASE StopListener
  <2>1. \A c \in Clients : at[c] \in {"idle", "rejected", "done"}
    BY <1>11 DEF StopListener, InCallback
  <2>2. QED
    BY <1>11, <2>1 DEF StopListener, ShutdownInv, RegistryStaysCleared,
                       ServerStates
<1>12. CASE RegistryStop
  BY <1>12 DEF RegistryStop, Reg!Clear, ShutdownInv, RegistryStaysCleared,
               ServerStates
<1>13. CASE Exit
  BY <1>13 DEF Exit, CloseStored, ShutdownInv, RegistryStaysCleared,
               ServerStates
<1>14. CASE UNCHANGED vars
  BY <1>14 DEF vars, ShutdownInv, RegistryStaysCleared
<1>15. QED
  BY <1>1, <1>2, <1>3, <1>4, <1>5, <1>6, <1>7, <1>8, <1>9, <1>10, <1>11,
     <1>12, <1>13, <1>14, <1>16 DEF Next

-----------------------------------------------------------------------------
(* Admitted sockets are closed when main() returns                         *)

LEMMA InitSocketInv == Init => SocketInv
BY NoneAssumption DEF Init, SocketInv, AdmittedSocketsClosedAtExit, WsStates

\* A step that moves no socket, id, session or program point: main()'s
\* steps between the two stop() calls, the callbacks that only touch the
\* registry or the browser's inbox, and start().
LEMMA SocketQuiet ==
    ASSUME SocketInv,
           UNCHANGED <<ws, pid, clients, closing, handlers, at>>,
           \/ server' = server
           \/ server' \notin {"new", "exited"}
           \/ \A c \in Clients : pid[c] = NoId
    PROVE  SocketInv'
BY DEF SocketInv, AdmittedSocketsClosedAtExit

\* stop()'s loop (the first call, or the destructor's): every session in
\* clients_ has its socket closed before the map is cleared.
LEMMA CloseStoredStep ==
    ASSUME SocketInv, CloseStored, UNCHANGED <<pid, handlers, at>>,
           NEW s \in ServerStates \ {"new"}, server' = s,
           s = "exited" => \A c \in Clients : at[c] \notin {"created", "welcomed"}
    PROVE  SocketInv'
<1> DEFINE S == {clients[id] : id \in {k \in PeerIds : clients[k] # NoClient}}
<1>1. \A c \in Clients : pid[c] # NoId /\ clients[pid[c]] = c => c \in S
  BY NoneAssumption DEF SocketInv
<1>2. /\ ws' = [c \in Clients |-> IF c \in S THEN "closed" ELSE ws[c]]
      /\ closing' = [c \in Clients |->
                       closing[c] \/ (c \in S /\ handlers[c] /\ ws[c] # "closed")]
      /\ clients' = [id \in PeerIds |-> NoClient]
  BY DEF CloseStored
<1>3. \A c \in Clients : pid[c] # NoId => ws'[c] = "closed" \/ at[c] \in {"created", "welcomed"}
  BY <1>1, <1>2 DEF SocketInv
<1>4. \A c \in Clients : closing'[c] => ws'[c] = "closed"
  BY <1>2 DEF SocketInv
<1>5. ws' \in [Clients -> WsStates] /\ closing' \in [Clients -> BOOLEAN]
  BY <1>2 DEF SocketInv, WsStates
<1>6. \A c \in Clients : at[c] = "idle" => ws'[c] = "none"
  <2>1. SUFFICES ASSUME NEW c \in Clients, at[c] = "idle" PROVE c \notin S
    BY <1>2 DEF SocketInv
  <2>2. pid[c] = NoId
    BY <2>1 DEF SocketInv
  <2>3. QED
    BY <2>2, NoneAssumption DEF SocketInv
<1>7. QED
  BY <1>2, <1>3, <1>4, <1>5, <1>6 DEF SocketInv, AdmittedSocketsClosedAtExit

LEMMA NextSocketInv == ShutdownInv /\ SocketInv /\ [Next]_vars => SocketInv'
<1> SUFFICES ASSUME ShutdownInv, SocketInv, [Next]_vars PROVE SocketInv'
    OBVIOUS
<1> USE NoneAssumption
<1>0. at \in [Clients -> Points]
  BY DEF ShutdownInv
<1>1. ASSUME NEW c \in Clients, Accept(c) PROVE SocketInv'
  <2>1. /\ at[c] = "idle"
        /\ ws' = [ws EXCEPT ![c] = "connecting"]
        /\ at' = [at EXCEPT ![c] = "accepted"]
        /\ UNCHANGED <<pid, clients, closing, handlers, server>>
    BY <1>1 DEF Accept
  <2>2. pid[c] = NoId /\ ~closing[c]
    BY <2>1 DEF SocketInv
  <2>3. QED
    BY <1>0, <2>1, <2>2 DEF SocketInv, AdmittedSocketsClosedAtExit, WsStates
<1>2. ASSUME NEW c \in Clients, NEW id \in PeerIds \ UsedIds,
             NEW ok \in BOOLEAN, Connect(c, id, ok)
      PROVE  SocketInv'
  <2>1. at[c] = "accepted" /\ server \notin {"new", "exited"}
    BY <1>2 DEF Connect, ShutdownInv
  <2>2. CASE ok /\ Cardinality(Reg!Members) < MaxPeers
    <3>1. /\ pid' = [pid EXCEPT ![c] = id]
          /\ at' = [at EXCEPT ![c] = "created"]
          /\ UNCHANGED <<ws, clients, closing, handlers, server>>
      BY <1>2, <2>2 DEF Connect
    <3>2. \A d \in Clients : pid[d] # id
      BY DEF UsedIds
    <3>3. pid[c] = NoId /\ id # NoId
      BY <2>1 DEF SocketInv
    <3>4. pid' \in [Clients -> PeerIds \cup {NoId}]
      BY <3>1 DEF SocketInv
    <3>5. \A d, e \in Clients : d # e /\ pid'[d] # NoId => pid'[d] # pid'[e]
      BY <3>1, <3>2, <3>3 DEF SocketInv
    <3>6. \A d \in Clients :
            pid'[d] = NoId <=> at'[d] \in {"idle", "accepted", "refused", "rejected"}
      BY <1>0, <3>1, <3>3 DEF SocketInv
    <3>7. \A d \in Clients : pid'[d] # NoId =>
            \/ ws'[d] = "closed"
            \/ clients'[pid'[d]] = d
            \/ at'[d] \in {"created", "welcomed"}
      BY <1>0, <3>1 DEF SocketInv
    <3>8. \A j \in PeerIds : clients'[j] # NoClient => pid'[clients'[j]] = j
      BY <3>1, <3>3 DEF SocketInv
    <3>9. QED
      BY <2>1, <3>1, <3>4, <3>5, <3>6, <3>7, <3>8 DEF SocketInv,
         AdmittedSocketsClosedAtExit
  <2>3. CASE ~(ok /\ Cardinality(Reg!Members) < MaxPeers)
    <3>1. /\ at' = [at EXCEPT ![c] = "refused"]
          /\ UNCHANGED <<ws, pid, clients, closing, handlers, server>>
      BY <1>2, <2>3 DEF Connect
    <3>2. QED
      BY <2>1, <3>1 DEF SocketInv, AdmittedSocketsClosedAtExit
  <2>4. QED
    BY <2>2, <2>3
<1>3. ASSUME NEW c \in Clients, Reject(c) PROVE SocketInv'
  <2>1. /\ at[c] = "refused"
        /\ at' = [at EXCEPT ![c] = "rejected"]
        /\ UNCHANGED <<pid, clients, handlers, server>>
    BY <1>3 DEF Reject
  <2>2. server # "exited"
    BY <2>1 DEF ShutdownInv
  <2>3. \/ /\ ws' = [ws EXCEPT ![c] = "closed"]
           /\ closing' = [closing EXCEPT ![c] = @ \/ (handlers[c] /\ ws[c] # "closed")]
        \/ UNCHANGED <<ws, closing>>
    BY <1>3 DEF Reject, Close
  <2>4. QED
    BY <2>1, <2>2, <2>3 DEF SocketInv, AdmittedSocketsClosedAtExit, WsStates
<1>4. ASSUME NEW c \in Clients, Welcome(c) PROVE SocketInv'
  BY <1>4 DEF Welcome, SocketInv, AdmittedSocketsClosedAtExit
<1>5. ASSUME NEW c \in Clients, Store(c) PROVE SocketInv'
  <2>1. /\ at[c] = "welcomed"
        /\ at' = [at EXCEPT ![c] = "stored"]
        /\ clients' = [clients EXCEPT ![pid[c]] = c]
        /\ UNCHANGED <<ws, pid, closing, handlers, server>>
    BY <1>5 DEF Store
  <2>2. pid[c] \in PeerIds
    BY <2>1 DEF SocketInv
  <2>3. \A d \in Clients \ {c} : pid[d] # NoId => pid[d] # pid[c]
    BY DEF SocketInv
  <2>4. QED
    BY <2>1, <2>2, <2>3 DEF SocketInv, AdmittedSocketsClosedAtExit
<1>6. ASSUME NEW c \in Clients, InstallHandlers(c) PROVE SocketInv'
  <2>1. /\ at[c] = "stored"
        /\ at' = [at EXCEPT ![c] = "handled"]
        /\ handlers' = [handlers EXCEPT ![c] = TRUE]
        /\ UNCHANGED <<ws, pid, closing, server>>
    BY <1>6 DEF InstallHandlers
  <2>2. \/ ws[c] = "closed" /\ clients' = [clients EXCEPT ![pid[c]] = NoClient]
        \/ UNCHANGED clients
    BY <1>6 DEF InstallHandlers, Disconnect
  <2>3. \A d \in Clients \ {c} : pid[d] # NoId => pid[d] # pid[c]
    BY DEF SocketInv
  <2>4. QED
    BY <2>1, <2>2, <2>3 DEF SocketInv, AdmittedSocketsClosedAtExit
<1>7. ASSUME NEW c \in Clients, StartOffer(c) PROVE SocketInv'
  BY <1>7 DEF StartOffer, SocketInv, AdmittedSocketsClosedAtExit
<1>8. ASSUME NEW c \in Clients,
             \/ SendOffer(c)
             \/ \E valid \in BOOLEAN : OnClientMessage(c, valid)
      PROVE  SocketInv'
  BY <1>8, SocketQuiet DEF SendOffer, OnClientMessage
<1>9. ASSUME NEW c \in Clients, OnClientDisconnected(c) PROVE SocketInv'
  <2>1. /\ closing[c]
        /\ clients' = [clients EXCEPT ![pid[c]] = NoClient]
        /\ closing' = [closing EXCEPT ![c] = FALSE]
        /\ UNCHANGED <<ws, pid, handlers, at, server>>
    BY <1>9 DEF OnClientDisconnected, Disconnect
  <2>2. \A d \in Clients \ {c} : pid[d] # NoId => pid[d] # pid[c]
    BY DEF SocketInv
  <2>3. ws[c] = "closed"
    BY <2>1 DEF SocketInv
  <2>4. \A d \in Clients : pid'[d] # NoId =>
          \/ ws'[d] = "closed"
          \/ clients'[pid'[d]] = d
          \/ at'[d] \in {"created", "welcomed"}
    BY <2>1, <2>2, <2>3 DEF SocketInv
  <2>5. \A d \in Clients : closing'[d] => ws'[d] = "closed"
    BY <2>1 DEF SocketInv
  <2>6. /\ clients' \in [PeerIds -> Clients \cup {NoClient}]
        /\ \A j \in PeerIds : clients'[j] # NoClient => pid'[clients'[j]] = j
    BY <2>1 DEF SocketInv
  <2>7. QED
    BY <2>1, <2>4, <2>5, <2>6 DEF SocketInv, AdmittedSocketsClosedAtExit
<1>10. ASSUME NEW c \in Clients, Handshake(c) PROVE SocketInv'
  BY <1>10 DEF Handshake, SocketInv, AdmittedSocketsClosedAtExit, WsStates
<1>11. ASSUME NEW c \in Clients, SocketClosed(c) PROVE SocketInv'
  BY <1>11 DEF SocketClosed, Close, SocketInv, AdmittedSocketsClosedAtExit,
               WsStates
<1>12. ASSUME NEW id \in PeerIds, TransportFailed(id) PROVE SocketInv'
  BY <1>12, SocketQuiet DEF TransportFailed
<1>13. ASSUME NEW ok \in BOOLEAN, StartServer(ok) PROVE SocketInv'
  BY <1>13, SocketQuiet DEF StartServer, SocketInv
<1>14. CASE Stop
  BY <1>14, CloseStoredStep DEF Stop
<1>15. CASE StopListener \/ RegistryStop
  BY <1>15, SocketQuiet DEF StopListener, RegistryStop
<1>16. CASE Exit
  <2>1. server = "cleared"
    BY <1>16 DEF Exit
  <2>2. \A c \in Clients : at[c] \notin {"created", "welcomed"}
    BY <2>1 DEF ShutdownInv
  <2>3. QED
    BY <1>16, <2>2, CloseStoredStep DEF Exit
<1>17. CASE UNCHANGED vars
  BY <1>17, SocketQuiet DEF vars
<1>18. QED
  BY <1>1, <1>2, <1>3, <1>4, <1>5, <1>6, <1>7, <1>8, <1>9, <1>10, <1>11,
     <1>12, <1>13, <1>14, <1>15, <1>16, <1>17 DEF Next

\* When main() returns, every socket create_peer admitted is closed:
\* stop()'s loop closes what clients_ holds, a session on_client_connected
\* stores after the first stop() cleared clients_ is closed by the
\* destructor's second stop(), and the listener was joined before the
\* registry was cleared, so no session is still being stored at the end.
THEOREM AdmittedSocketsClosedAtExitHolds == Spec => []AdmittedSocketsClosedAtExit
<1>1. ShutdownInv /\ SocketInv => AdmittedSocketsClosedAtExit
  BY DEF SocketInv
<1>2. QED
  BY <1>1, InitShutdownInv, NextShutdownInv, InitSocketInv, NextSocketInv,
     PTL DEF Spec

\* Once webrtc_server.stop() has cleared the registry during main()'s
\* shutdown, no session is ever created in it again: signaling_server.stop()
\* has stopped the listener and joined the thread that runs
\* on_client_connected, so no create_peer can follow the clear.
THEOREM RegistryStaysClearedHolds == Spec => []RegistryStaysCleared
<1>1. ShutdownInv => RegistryStaysCleared
  BY DEF ShutdownInv
<1>2. QED
  BY <1>1, InitShutdownInv, NextShutdownInv, PTL DEF Spec

=============================================================================
