----------------------------- MODULE HttpServer -----------------------------
(***************************************************************************)
(* The static viewer host (src/src/http_server.cpp): the listener's life   *)
(* (start, the accept loop, stop) and handle_client with resolve_path, run *)
(* on a detached thread per connection.                                    *)
(*                                                                         *)
(* The file system is abstracted to sets of canonical paths (no symbolic   *)
(* links); a path is a sequence of names and a name a short sequence of    *)
(* characters, so that what resolve_path compares as strings is compared   *)
(* as strings here.  fs::canonical is modelled by what it does: it walks   *)
(* the '/'-separated segments, dropping "" and ".", popping on "..", and   *)
(* fails when a segment is missing or a file is used as a directory.       *)
(* Response formatting and MIME types are left out.                        *)
(***************************************************************************)
EXTENDS Naturals, Sequences, SequencesExt, FiniteSets

CONSTANTS
    Chars,        \* characters a request target is built from
    MaxUri,       \* bound: length of a request target
    MaxAccepts,   \* bound: connections the accept loop takes
    WebRoot,      \* fs::canonical(web_root_), a path
    Dirs,         \* canonical paths of the directories
    Files         \* canonical paths of the regular files

ASSUME HttpBoundsAssumption == MaxUri \in Nat /\ MaxAccepts \in Nat
ASSUME WebRootAssumption == WebRoot \in Dirs /\ << >> \in Dirs

Slash == "/"
Space == " "

\* "/index.html", with the name index.html abstracted to "x".
IndexUri == <<Slash, "x">>

\* A request as recv() delivers it: the peer closed or sent nothing
\* ("closed"), no complete first line ("partial"), or a first line with a
\* method and what follows it up to the CRLF.
Requests ==
    [kind : {"closed", "partial"}, method : {"GET"}, target : {<< >>}]
    \cup [kind : {"line"}, method : {"GET", "POST"},
          target : BoundedSeq(Chars, MaxUri)]

VARIABLES
    running,     \* running_
    fd,          \* server_fd_: "none" (-1) or "open"
    thread,      \* thread_: "none" (not joinable), at the loop head,
                 \* blocked in accept(), or returned ("exited")
    accepted,    \* connections accepted so far
    handlers,    \* requests whose detached handler has not finished
    served,      \* responses sent: [req, status, file]
    aborted,     \* an exception escaped a handler: std::terminate
    mainAt       \* main(): before start() (124), serving, in stop() (173),
                 \* after it

vars == <<running, fd, thread, accepted, handlers, served, aborted, mainAt>>

-----------------------------------------------------------------------------
(* resolve_path and what it calls                                          *)

\* The prefix of s before the first occurrence of c (all of s if none).
UpTo(s, c) ==
    LET at == {i \in 1 .. Len(s) : s[i] = c}
    IN  IF at = {} THEN s ELSE SubSeq(s, 1, Min(at) - 1)

\* Lines 127-129: the uri runs from after "GET " to the next space.
RequestUri(target) == UpTo(target, Space)

\* Lines 131-135: strip the query string.
StripQuery(uri) == UpTo(uri, "?")

\* Split a string on '/': "a//b" is <<"a", "", "b">>, "/a" is <<"", "a">>.
SplitStep(acc, ch) ==
    IF ch = Slash THEN Append(acc, << >>)
                  ELSE [acc EXCEPT ![Len(acc)] = Append(@, ch)]
Segments(s) == FoldLeft(SplitStep, << << >> >>, s)

\* One segment of fs::canonical's walk from the path p, as the set of
\* results ({} once it has failed).
WalkSegment(p, seg) ==
    IF p \notin Dirs THEN {}
    ELSE IF seg \in {<< >>, <<".">>} THEN {p}
    ELSE IF seg = <<".", ".">> THEN {IF p = << >> THEN p ELSE Front(p)}
    ELSE {Append(p, seg)} \cap (Dirs \cup Files)

\* fs::canonical(base / s) for a relative s: {} if it throws.
Canonical(base, s) ==
    FoldLeft(LAMBDA S, seg : UNION {WalkSegment(p, seg) : p \in S},
             {base}, Segments(s))

\* path.string(): "/" for the root, "/a/b" otherwise.
PathStr(p) ==
    IF p = << >> THEN <<Slash>>
    ELSE FlattenSeq([i \in 1 .. Len(p) |-> <<Slash>> \o p[i]])

\* Lines 148-178 for a non-empty path: "/" means "/index.html"; drop the
\* first character and append the rest to web_root_ (an absolute rest
\* replaces it: operator/); canonicalize; refuse what does not start with
\* the root's string; return it if it is a regular file.  {} is "".
ResolvePath(uri) ==
    LET path == IF uri = <<Slash>> THEN IndexUri ELSE uri
        rel  == Tail(path)
        base == IF rel # << >> /\ rel[1] = Slash THEN << >> ELSE WebRoot
    IN  {c \in Canonical(base, rel) :
            /\ IsPrefix(PathStr(WebRoot), PathStr(c))
            /\ c \in Files}

-----------------------------------------------------------------------------
Init ==
    /\ running = FALSE
    /\ fd = "none"
    /\ thread = "none"
    /\ accepted = 0
    /\ handlers = {}
    /\ served = {}
    /\ aborted = FALSE
    /\ mainAt = "start"

\* start(): socket, bind, listen; any failure closes the socket and
\* returns false (main only warns and goes on); otherwise running_ and the
\* accept loop.
Start(ok) ==
    /\ ~aborted
    /\ mainAt = "start"
    /\ IF ok THEN /\ running' = TRUE
                  /\ fd' = "open"
                  /\ thread' = "head"
             ELSE UNCHANGED <<running, fd, thread>>
    /\ mainAt' = "serving"
    /\ UNCHANGED <<accepted, handlers, served, aborted>>

\* server_thread, line 89: loop while running_, else return.
LoopHead ==
    /\ ~aborted
    /\ thread = "head"
    /\ thread' = IF running THEN "accept" ELSE "exited"
    /\ UNCHANGED <<running, fd, accepted, handlers, served, aborted, mainAt>>

\* server_thread, lines 93-106: accept() on the open socket returns a
\* connection, and a detached thread is started to handle it.
Accept(req) ==
    /\ ~aborted
    /\ thread = "accept" /\ fd = "open"
    /\ accepted < MaxAccepts
    /\ accepted' = accepted + 1
    /\ handlers' = handlers \cup {req}
    /\ thread' = "head"
    /\ UNCHANGED <<running, fd, served, aborted, mainAt>>

\* server_thread, lines 94-98: accept() fails once the socket is shut
\* down; continue to the loop head.
AcceptFails ==
    /\ ~aborted
    /\ thread = "accept" /\ fd = "none"
    /\ thread' = "head"
    /\ UNCHANGED <<running, fd, accepted, handlers, served, aborted, mainAt>>

\* stop() that clears running_ but leaves the socket open (no shutdown).
StopCloseNoShutdown ==
    /\ ~aborted
    /\ mainAt = "serving"
    /\ running' = FALSE
    /\ mainAt' = "stopping"
    /\ UNCHANGED <<fd, thread, accepted, handlers, served, aborted>>

\* main's shutdown calls stop(), lines 77-82: clear running_, shut down
\* and close the socket.
StopClose ==
    /\ ~aborted
    /\ mainAt = "serving"
    /\ running' = FALSE
    /\ fd' = "none"
    /\ mainAt' = "stopping"
    /\ UNCHANGED <<thread, accepted, handlers, served, aborted>>

\* stop(), lines 83-85: join the accept loop if joinable (detached
\* handlers are not waited for).
StopJoin ==
    /\ ~aborted
    /\ mainAt = "stopping"
    /\ thread \in {"none", "exited"}
    /\ thread' = "none"
    /\ mainAt' = "stopped"
    /\ UNCHANGED <<running, fd, accepted, handlers, served, aborted>>

\* handle_client, lines 109-146, with send_file's open (207-212): no
\* response for a closed or partial request, 405 for another method, 404
\* when resolve_path returns "", 500 when the file cannot be opened, 200
\* with the file.  An empty path makes path.substr(1) (line 157, outside
\* the try) throw std::out_of_range out of the detached thread.
HandleClient(req) ==
    /\ ~aborted
    /\ req \in handlers
    /\ handlers' = handlers \ {req}
    /\ LET uri == StripQuery(RequestUri(req.target)) IN
       CASE req.kind # "line" ->
              UNCHANGED <<served, aborted>>
         [] req.method # "GET" ->
              /\ served' = served \cup {[req |-> req, status |-> 405,
                                         file |-> << >>]}
              /\ UNCHANGED aborted
         [] uri = << >> ->
              /\ aborted' = TRUE
              /\ UNCHANGED served
         [] ResolvePath(uri) = {} ->
              /\ served' = served \cup {[req |-> req, status |-> 404,
                                         file |-> << >>]}
              /\ UNCHANGED aborted
         [] OTHER ->
              /\ \E f \in ResolvePath(uri), opened \in BOOLEAN :
                   served' = served \cup
                       {[req |-> req, status |-> IF opened THEN 200 ELSE 500,
                         file |-> IF opened THEN f ELSE << >>]}
              /\ UNCHANGED aborted
    /\ UNCHANGED <<running, fd, thread, accepted, mainAt>>

Next ==
    \/ \E ok \in BOOLEAN : Start(ok)
    \/ LoopHead \/ \E req \in Requests : Accept(req) \/ AcceptFails
    \/ StopClose \/ StopJoin
    \/ \E req \in handlers : HandleClient(req)

\* The accept loop's own steps and the join are bounded in time; the
\* network (connections), the handlers and the signal that starts the
\* shutdown are never forced.
Fairness == WF_vars(LoopHead) /\ WF_vars(AcceptFails) /\ WF_vars(StopJoin)

Spec == Init /\ [][Next]_vars

FairSpec == Spec /\ Fairness

-----------------------------------------------------------------------------
(* Properties                                                              *)

\* Spec section 6: the viewer host serves a single web-root directory and
\* rejects path traversal: every file resolve_path lets handle_client send
\* lies under web_root_ (its canonical path extends the root's by whole
\* names).
ServedInsideRoot ==
    \A r \in served : r.status = 200 => IsPrefix(WebRoot, r.file)

\* The shutdown's http_server.stop() returns: shutting the socket down
\* wakes the accept loop blocked in accept(), which then sees running_
\* false and returns, so the join completes -- unless the process was
\* already terminated by a handler.
StopReturns == mainAt = "stopping" ~> (mainAt = "stopped" \/ aborted)

\* No request, however malformed, takes the process down: nothing a
\* detached handle_client thread does lets an exception escape it.
NoHandlerAborts == ~aborted

=============================================================================
