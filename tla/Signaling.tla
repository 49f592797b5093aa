----------------------------- MODULE Signaling -----------------------------
(***************************************************************************)
(* SignalingServer (src/src/signaling_server.cpp) composed with the peer   *)
(* registry it drives, taken as the abstract registry Sessions (which      *)
(* PeerRegistry is proved to implement, module RegistryRefinement).        *)
(*                                                                         *)
(* libdatachannel hands on_client_connected a WebSocket whose handshake    *)
(* has not completed: send() throws unless the socket is open, and a       *)
(* close that happens before onClosed is installed is stored and reported  *)
(* when it is (a stored callback).  Each step of on_client_connected is    *)
(* one action, so the handshake, the browser and socket closes interleave  *)
(* with it.                                                                *)
(***************************************************************************)
EXTENDS Naturals, Sequences, FiniteSets

CONSTANTS Clients,   \* WebSocket connections, in the order of acceptance
          PeerIds,   \* peer ids create_peer may draw
          MaxPeers   \* config webrtc.max_peers

ASSUME ClientsAssumption == IsFiniteSet(Clients) /\ Clients # {}
ASSUME SignalingPeersAssumption == MaxPeers \in Nat

NoId == "none"        \* the empty peer_id create_peer returns on refusal
NoClient == "none"    \* a key of clients_ that holds no session

\* generate_peer_id never returns the empty id, and a session always holds
\* a socket.
ASSUME NoneAssumption == NoId \notin PeerIds /\ NoClient \notin Clients

\* main(): before signaling_server.start(), serving, inside
\* signaling_server.stop() (clients_ cleared, listener not yet stopped),
\* after it, after webrtc_server.stop(), and returned (the SignalingServer
\* and WebRtcServer destroyed).
ServerStates == {"new", "running", "stopping", "stopped", "cleared", "exited"}

\* Socket states: not yet accepted, handshake pending, open, closed.
WsStates == {"none", "connecting", "open", "closed"}

\* Program points of on_client_connected: before the call, called (62),
\* after create_peer refused (91), after the reject (102), after create_peer
\* (91), the welcome (129), the store (135), the handlers (152) and
\* start_offer (156).
Points == {"idle", "accepted", "refused", "rejected", "created", "welcomed", "stored",
           "handled", "done"}

\* What the browser can receive on its socket.
Msgs == {"error", "welcome", "offer"}

VARIABLES
    reg,           \* webrtc_server_'s sessions (module Sessions)
    server,        \* main()'s progress through the server's life
    ws,            \* state of each client's rtc::WebSocket
    at,            \* where each client's on_client_connected is
    pid,           \* the peer_id create_peer returned to it
    handlers,      \* onMessage/onClosed/onError installed on its socket
    closing,       \* its close was reported: on_client_disconnected due
    offerPending,  \* its offer is set, onLocalDescription not yet run
    answerSent,    \* its browser has sent the answer
    clients,       \* clients_: peer_id -> session
    inbox,         \* the messages its browser received, in order
    listening      \* ws_server_ accepts connections

vars == <<reg, server, ws, at, pid, handlers, closing, offerPending,
          answerSent, clients, inbox, listening>>

Reg == INSTANCE Sessions

\* ws->send(m): delivered if the socket is open; otherwise it throws, and
\* every caller catches the exception and drops the message.
Send(c, m) ==
    inbox' = IF ws[c] = "open" THEN [inbox EXCEPT ![c] = Append(@, m)]
                               ELSE inbox

\* ws->close(): a socket that is not already closed closes; the close is
\* reported now if the handlers are installed, and otherwise when they are.
Close(c) ==
    /\ ws' = [ws EXCEPT ![c] = "closed"]
    /\ closing' = [closing EXCEPT ![c] = @ \/ (handlers[c] /\ ws[c] # "closed")]

\* Ids create_peer has already handed to a client.  Ids are assumed not to
\* collide here; PeerRegistry draws them from all of PeerIds.
UsedIds == {pid[c] : c \in Clients}

\* Sockets whose on_client_connected is running.  libdatachannel calls
\* onClient on the listener's own thread, one connection at a time, and
\* ws_server_->stop() joins that thread.
InCallback ==
    {c \in Clients : at[c] \notin {"idle", "rejected", "done"}}

\* stop()'s loop over clients_ under clients_mutex_: close every stored
\* socket, then clear the map.
CloseStored ==
    LET S == {clients[id] : id \in {k \in PeerIds : clients[k] # NoClient}}
    IN  /\ ws' = [c \in Clients |-> IF c \in S THEN "closed" ELSE ws[c]]
        /\ closing' = [c \in Clients |->
                         closing[c] \/ (c \in S /\ handlers[c]
                                                /\ ws[c] # "closed")]
        /\ clients' = [id \in PeerIds |-> NoClient]


Init ==
    /\ Reg!Init
    /\ server = "new"
    /\ ws = [c \in Clients |-> "none"]
    /\ at = [c \in Clients |-> "idle"]
    /\ pid = [c \in Clients |-> NoId]
    /\ handlers = [c \in Clients |-> FALSE]
    /\ closing = [c \in Clients |-> FALSE]
    /\ offerPending = [c \in Clients |-> FALSE]
    /\ answerSent = [c \in Clients |-> FALSE]
    /\ clients = [id \in PeerIds |-> NoClient]
    /\ inbox = [c \in Clients |-> <<>>]
    /\ listening = FALSE

-----------------------------------------------------------------------------
(* on_client_connected, one action per step                                *)

\* The listener accepts a socket (handshake still pending) and, on its
\* own thread, calls on_client_connected.
Accept(c) ==
    /\ listening
    /\ InCallback = {}
    /\ at[c] = "idle"
    /\ ws' = [ws EXCEPT ![c] = "connecting"]
    /\ at' = [at EXCEPT ![c] = "accepted"]
    /\ UNCHANGED <<reg, server, pid, handlers, closing, offerPending,
                   answerSent, clients, inbox, listening>>

\* on_client_connected builds sig_cb and calls create_peer: it returns a
\* fresh id, or "" at the cap or when the constructor threw.
Connect(c, id, ok) ==
    /\ at[c] = "accepted"
    /\ IF ok /\ Cardinality(Reg!Members) < MaxPeers
         THEN /\ Reg!Admit(id)
              /\ pid' = [pid EXCEPT ![c] = id]
              /\ at' = [at EXCEPT ![c] = "created"]
         ELSE /\ at' = [at EXCEPT ![c] = "refused"]
              /\ UNCHANGED <<reg, pid>>
    /\ UNCHANGED <<server, ws, handlers, closing, offerPending, answerSent,
                   clients, inbox, listening>>

\* Empty peer_id: send the error, then close, both inside one try whose
\* catch(...) swallows a throwing send -- and with it the close.
Reject(c) ==
    /\ at[c] = "refused"
    /\ Send(c, "error")
    /\ IF ws[c] = "open" THEN Close(c) ELSE UNCHANGED <<ws, closing>>
    /\ at' = [at EXCEPT ![c] = "rejected"]
    /\ UNCHANGED <<reg, server, pid, handlers, offerPending, answerSent,
                   clients, listening>>

\* Send the welcome; a throwing send is caught and logged.
Welcome(c) ==
    /\ at[c] = "created"
    /\ Send(c, "welcome")
    /\ at' = [at EXCEPT ![c] = "welcomed"]
    /\ UNCHANGED <<reg, server, ws, pid, handlers, closing, offerPending,
                   answerSent, clients, listening>>

\* clients_[peer_id] = ClientSession{ws, peer_id} under clients_mutex_.
Store(c) ==
    /\ at[c] = "welcomed"
    /\ clients' = [clients EXCEPT ![pid[c]] = c]
    /\ at' = [at EXCEPT ![c] = "stored"]
    /\ UNCHANGED <<reg, server, ws, pid, handlers, closing, offerPending,
                   answerSent, inbox, listening>>

\* Handlers set through a callback that drops a close it missed.
InstallHandlersNoReplay(c) ==
    /\ at[c] = "stored"
    /\ handlers' = [handlers EXCEPT ![c] = TRUE]
    /\ at' = [at EXCEPT ![c] = "handled"]
    /\ UNCHANGED <<reg, server, ws, pid, closing, offerPending, answerSent,
                   clients, inbox, listening>>

\* on_client_disconnected's body: erase clients_[peer_id] under
\* clients_mutex_, then remove_peer (which only logs an unknown id).
Disconnect(c) ==
    /\ clients' = [clients EXCEPT ![pid[c]] = NoClient]
    /\ IF reg[pid[c]] # Reg!Free THEN Reg!Remove(pid[c]) ELSE UNCHANGED reg

\* Install onMessage, onClosed and onError.  onClosed is a stored callback:
\* setting it on a socket that already closed runs the close it missed at
\* once, on this thread, so on_client_disconnected runs here.
InstallHandlers(c) ==
    /\ at[c] = "stored"
    /\ handlers' = [handlers EXCEPT ![c] = TRUE]
    /\ at' = [at EXCEPT ![c] = "handled"]
    /\ IF ws[c] = "closed" THEN Disconnect(c) ELSE UNCHANGED <<reg, clients>>
    /\ UNCHANGED <<server, ws, pid, closing, offerPending, answerSent,
                   inbox, listening>>

\* webrtc_server_.start_offer(peer_id): a known peer sets its local offer,
\* which the stack later hands to onLocalDescription; an unknown one (the
\* close handler already removed it) is only logged.
StartOffer(c) ==
    /\ at[c] = "handled"
    /\ IF reg[pid[c]] = "created"
         THEN /\ Reg!Offer(pid[c])
              /\ offerPending' = [offerPending EXCEPT ![c] = TRUE]
         ELSE UNCHANGED <<reg, offerPending>>
    /\ at' = [at EXCEPT ![c] = "done"]
    /\ UNCHANGED <<server, ws, pid, handlers, closing, answerSent, clients,
                   inbox, listening>>

-----------------------------------------------------------------------------
(* Callbacks                                                               *)

\* onLocalDescription -> sig_cb: ws_weak.lock() succeeds (the socket's own
\* onMessage handler holds it), the offer is sent, a throw is caught.
SendOffer(c) ==
    /\ offerPending[c]
    /\ reg[pid[c]] = "offered"
    /\ Send(c, "offer")
    /\ offerPending' = [offerPending EXCEPT ![c] = FALSE]
    /\ UNCHANGED <<reg, server, ws, at, pid, handlers, closing, answerSent,
                   clients, listening>>

\* on_client_message for the browser's answer: handle_answer on a peer with
\* a pending offer; an SDP the stack rejects throws an exception that
\* escapes on_client_message (only json::exception is caught) and is
\* dropped by the library; an unknown peer is only logged.
OnClientMessage(c, valid) ==
    /\ handlers[c]
    /\ ws[c] = "open"
    /\ ~answerSent[c]
    /\ \E i \in 1 .. Len(inbox[c]) : inbox[c][i] = "offer"
    /\ answerSent' = [answerSent EXCEPT ![c] = TRUE]
    /\ IF valid /\ reg[pid[c]] = "offered"
         THEN Reg!Answer(pid[c])
         ELSE UNCHANGED reg
    /\ UNCHANGED <<server, ws, at, pid, handlers, closing, offerPending,
                   clients, inbox, listening>>

\* on_client_disconnected that only erases clients_ (remove_peer dropped).
OnClientDisconnectedEraseOnly(c) ==
    /\ closing[c]
    /\ clients' = [clients EXCEPT ![pid[c]] = NoClient]
    /\ closing' = [closing EXCEPT ![c] = FALSE]
    /\ offerPending' = [offerPending EXCEPT ![c] = FALSE]
    /\ UNCHANGED <<reg, server, ws, at, pid, handlers, answerSent, inbox,
                   listening>>

\* onClosed / onError -> on_client_disconnected.
OnClientDisconnected(c) ==
    /\ closing[c]
    /\ Disconnect(c)
    /\ closing' = [closing EXCEPT ![c] = FALSE]
    /\ offerPending' = [offerPending EXCEPT ![c] = FALSE]
    /\ UNCHANGED <<server, ws, at, pid, handlers, answerSent, inbox,
                   listening>>


\* main() starts the registry, then start(): create the listener and set
\* running_; if the listener cannot be created, start() returns false and
\* main() returns 1.
StartServer(ok) ==
    /\ server = "new"
    /\ server' = IF ok THEN "running" ELSE "exited"
    /\ listening' = ok
    /\ UNCHANGED <<reg, ws, at, pid, handlers, closing, offerPending,
                   answerSent, clients, inbox>>

\* stop(), lines 42-52: clear running_, close every stored socket and
\* clear clients_ (the close handlers run afterwards on the library's
\* threads, taking the mutex in turn).  The listener still accepts.
Stop ==
    /\ server = "running"
    /\ CloseStored
    /\ server' = "stopping"
    /\ UNCHANGED <<reg, at, pid, handlers, offerPending, answerSent, inbox,
                   listening>>

\* A ws_server_->stop() that does not wait for the listener's thread.
StopListenerNoJoin ==
    /\ server = "stopping"
    /\ listening' = FALSE
    /\ server' = "stopped"
    /\ UNCHANGED <<reg, ws, at, pid, handlers, closing, offerPending,
                   answerSent, clients, inbox>>

\* stop(), lines 54-57: ws_server_->stop() closes the listener and joins
\* its thread, so it returns once on_client_connected has returned.
StopListener ==
    /\ server = "stopping"
    /\ InCallback = {}
    /\ listening' = FALSE
    /\ server' = "stopped"
    /\ UNCHANGED <<reg, ws, at, pid, handlers, closing, offerPending,
                   answerSent, clients, inbox>>

\* main()'s shutdown, after signaling_server.stop(): webrtc_server.stop()
\* joins the reaper and clears the registry.
RegistryStop ==
    /\ server = "stopped"
    /\ Reg!Clear
    /\ server' = "cleared"
    /\ UNCHANGED <<ws, at, pid, handlers, closing, offerPending, answerSent,
                   clients, inbox, listening>>

\* A destructor whose stop() returns at once when the server is already
\* stopped, leaving the sockets stored since the first stop() open.
ExitStopOnce ==
    /\ server = "cleared"
    /\ server' = "exited"
    /\ UNCHANGED <<reg, ws, at, pid, handlers, closing, offerPending,
                   answerSent, clients, inbox, listening>>

\* main() returns: the SignalingServer's destructor calls stop() again,
\* which closes the sockets stored after the first call cleared clients_,
\* and the WebRtcServer is destroyed.
Exit ==
    /\ server = "cleared"
    /\ CloseStored
    /\ server' = "exited"
    /\ UNCHANGED <<reg, at, pid, handlers, offerPending, answerSent, inbox,
                   listening>>

-----------------------------------------------------------------------------
(* The environment: handshakes, the browser closing, transport failures    *)

\* The WebSocket handshake completes.
Handshake(c) ==
    /\ ws[c] = "connecting"
    /\ ws' = [ws EXCEPT ![c] = "open"]
    /\ UNCHANGED <<reg, server, at, pid, handlers, closing, offerPending,
                   answerSent, clients, inbox, listening>>

\* The browser or the network closes the socket, at any time.
SocketClosed(c) ==
    /\ ws[c] \in {"connecting", "open"}
    /\ Close(c)
    /\ UNCHANGED <<reg, server, at, pid, handlers, offerPending, answerSent,
                   clients, inbox, listening>>

\* The registry's reaper erases a session whose transport failed.
TransportFailed(id) ==
    /\ Reg!Reap({id})
    /\ UNCHANGED <<server, ws, at, pid, handlers, closing, offerPending,
                   answerSent, clients, inbox, listening>>

-----------------------------------------------------------------------------
Next ==
    \/ \E c \in Clients :
          \/ Accept(c)
          \/ \E id \in PeerIds \ UsedIds, ok \in BOOLEAN : Connect(c, id, ok)
          \/ Reject(c) \/ Welcome(c) \/ Store(c) \/ InstallHandlers(c)
          \/ StartOffer(c) \/ SendOffer(c)
          \/ \E valid \in BOOLEAN : OnClientMessage(c, valid)
          \/ OnClientDisconnected(c)
          \/ Handshake(c) \/ SocketClosed(c)
    \/ \E id \in PeerIds : TransportFailed(id)
    \/ \E ok \in BOOLEAN : StartServer(ok)
    \/ Stop \/ StopListener \/ RegistryStop \/ Exit

\* on_client_connected runs to completion on the listener's thread, the
\* stack delivers the local description, the library runs a close
\* handler it owes, and a stop() that has begun returns; the browser, the
\* network and the call of stop() are never forced.
Fairness ==
    /\ WF_vars(StopListener)
    /\ \A c \in Clients :
        /\ WF_vars(\/ \E id \in PeerIds \ UsedIds, ok \in BOOLEAN :
                        Connect(c, id, ok)
                   \/ Reject(c) \/ Welcome(c) \/ Store(c)
                   \/ InstallHandlers(c) \/ StartOffer(c))
        /\ WF_vars(SendOffer(c))
        /\ WF_vars(OnClientDisconnected(c))

Spec == Init /\ [][Next]_vars

FairSpec == Spec /\ Fairness

-----------------------------------------------------------------------------
(* Properties                                                              *)

\* Section 4.4 item 4: once the library reports a socket's close (or error)
\* to the handlers installed on it -- by the browser, the network or
\* stop() -- on_client_disconnected eventually drops the session from
\* clients_ and removes its peer from the registry, freeing its slot.
PeerReleasedAfterClose ==
    \A c \in Clients :
        closing[c] ~> /\ pid[c] # NoId
                      /\ reg[pid[c]] = Reg!Free
                      /\ clients[pid[c]] = NoClient

\* Section 4.4 item 4, as the spec states it: whenever an admitted client's
\* socket closes, its peer is eventually removed from the registry.
ClosedSocketReleasesPeer ==
    \A c \in Clients :
        (ws[c] = "closed" /\ pid[c] # NoId)
            ~> (pid[c] # NoId /\ reg[pid[c]] = Reg!Free)

\* Section 5: on each socket the welcome precedes the offer.
WelcomePrecedesOffer ==
    \A c \in Clients : \A i \in 1 .. Len(inbox[c]) :
        inbox[c][i] = "offer" =>
            \E j \in 1 .. (i - 1) : inbox[c][j] = "welcome"

\* Section 5 and stop(): when main() returns, the socket of every client
\* create_peer admitted is closed -- by the browser, by the first stop(), or,
\* for a session on_client_connected stored after that stop() cleared
\* clients_, by the destructor's second stop().
AdmittedSocketsClosedAtExit ==
    server = "exited" => \A c \in Clients : pid[c] # NoId => ws[c] = "closed"

\* Section 5's shutdown order: signaling_server.stop() stops the listener
\* and joins the thread that runs on_client_connected before
\* webrtc_server.stop() clears the registry, so once the registry is
\* cleared no create_peer can run and it stays empty until main returns.
RegistryStaysCleared ==
    server \in {"cleared", "exited"} => \A id \in PeerIds : reg[id] = Reg!Free

=============================================================================
