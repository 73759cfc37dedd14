--------------------------- MODULE SslClientHello ---------------------------
(***************************************************************************)
(* The ssl_client_hello_by_lua callback (src/unnamed/part_000):           *)
(* njt_http_lua_ssl_client_hello_handler, which OpenSSL calls for every   *)
(* ClientHello and again on every SSL_do_handshake until it stops         *)
(* returning -1 (retry), and the two pool cleanups that end a yielded Lua *)
(* handler: njt_http_lua_ssl_client_hello_done on the fake connection's   *)
(* pool, njt_http_lua_ssl_client_hello_aborted on the client connection's *)
(* pool.                                                                   *)
(*                                                                         *)
(* Each client connection of the set Conns has its own cctx, fake request *)
(* and cleanup slot; the event loop interleaves their events.  The        *)
(* environment of a connection acts at will: the Lua chunk finishes       *)
(* whenever it likes with an exit code of its choice,                     *)
(* the client sends data (which makes OpenSSL call the callback again) or *)
(* closes the connection, and every allocation may fail.                  *)
(***************************************************************************)
EXTENDS Integers

CONSTANTS
    Conns,          \* client connections
    MaxHellos       \* ClientHellos per handshake (2 with a HelloRetryRequest)

VARIABLE
    conns   \* conns[c]: the state of connection c, a Conn record (below)

vars == <<conns>>

NotCalled == 2   \* not a value the callback returns

LuaExit(code) == IF code = 1 THEN "exit1" ELSE "exit0"

(***************************************************************************)
(* A connection: ret is the callback's last return for the current       *)
(* ClientHello (-1 retry, 0 fail, 1 proceed, or NotCalled); open is false  *)
(* once c->pool is destroyed; cctx is njt_http_lua_ssl_ctx_t in the SSL    *)
(* ex data; slot is the c->pool cleanup cctx->cleanup points at ("absent" *)
(* or its handler, "null" or "aborted"); req is the fake request and      *)
(* connection ("none", "alive", "freed"); fcDone says client_hello_done is *)
(* registered on the fake connection's pool; posted says c->write is in   *)
(* njt_posted_events; hellos counts ClientHellos.  luaExit is history:    *)
(* the chunk's outcome ("none", "running", "killed", or LuaExit(code)).   *)
(***************************************************************************)
Ctx == [entered : BOOLEAN, done : BOOLEAN, aborted : BOOLEAN, exit_code : {0, 1}]

Conn == [ret : {NotCalled, -1, 0, 1}, open : BOOLEAN, cctx : Ctx,
         slot : {"absent", "null", "aborted"}, req : {"none", "alive", "freed"},
         fcDone : BOOLEAN, posted : BOOLEAN, hellos : 1..MaxHellos,
         luaExit : {"none", "running", "killed", "exit0", "exit1"}]

NoCtx == [entered |-> FALSE, done |-> FALSE, aborted |-> FALSE, exit_code |-> 1]

NewConn == [ret |-> NotCalled, open |-> TRUE, cctx |-> NoCtx, slot |-> "absent",
            req |-> "none", fcDone |-> FALSE, posted |-> FALSE, hellos |-> 1,
            luaExit |-> "none"]

(***************************************************************************)
(* njt_http_lua_ssl_client_hello_by_chunk runs the chunk in a new         *)
(* coroutine and returns NJT_OK or NJT_ERROR once it has finished (a      *)
(* failed ctx or coroutine allocation is NJT_ERROR too), having finalized *)
(* the fake request, or NJT_DONE when it yielded.  "load_error": the file *)
(* or inline loader (handler_file, handler_inline) could not load the     *)
(* chunk and returns NJT_ERROR before by_chunk, with nothing finalized.   *)
(***************************************************************************)
ChunkResults == {"ok", "error", "done", "load_error"}

\* Allocation or setup steps of the first call that can fail.
FailPoints == {"fc", "r", "cctx", "ex_data", "fc_cleanup", "c_cleanup"}

\* Seeded fault: the cleanup finishes the handshake even after the client
\* connection aborted it.
ClientHelloDoneNoAbortCheck(x) ==
    [x EXCEPT !.cctx.done = TRUE, !.slot = IF @ = "absent" THEN @ ELSE "null",
              !.posted = TRUE]

\* Seeded fault: the cleanup marks cctx done but does not post c->write.
ClientHelloDoneNoPost(x) ==
    IF x.cctx.aborted THEN x
    ELSE [x EXCEPT !.cctx.done = TRUE, !.slot = IF @ = "absent" THEN @ ELSE "null"]

(***************************************************************************)
(* njt_http_lua_ssl_client_hello_done, run when the fake connection's pool *)
(* is destroyed: unless the handshake was aborted, mark cctx done, clear   *)
(* the c->pool slot and post c->write so that OpenSSL calls again.         *)
(***************************************************************************)
ClientHelloDone(x) ==
    IF x.cctx.aborted THEN x
    ELSE [x EXCEPT !.cctx.done = TRUE, !.slot = IF @ = "absent" THEN @ ELSE "null",
                   !.posted = TRUE]

\* Freeing the fake request and connection destroys the fake pool, which
\* runs the cleanups registered on it.
FreeFake(x) ==
    LET y == IF x.fcDone THEN ClientHelloDone(x) ELSE x
    IN  [y EXCEPT !.req = "freed", !.fcDone = FALSE]

(***************************************************************************)
(* njt_http_lua_ssl_client_hello_aborted, run when c->pool is destroyed    *)
(* with the slot still holding it: unless the chunk already finished, mark *)
(* cctx aborted and finalize the fake request (cctx->request), killing the *)
(* chunk.                                                                  *)
(***************************************************************************)
ClientHelloAborted(x) ==
    IF x.cctx.done THEN x
    ELSE [FreeFake([x EXCEPT !.cctx.aborted = TRUE]) EXCEPT !.luaExit = "killed"]

----------------------------------------------------------------------------
(***************************************************************************)
(* The callback when cctx->entered_client_hello_handler is already set:   *)
(* the exit code once done, -1 (retry) until then.                        *)
(***************************************************************************)
\* Seeded fault: the exit code is returned without waiting for done.
ReEntryResultNoDoneCheck(x) == x.cctx.exit_code

ReEntryResult(x) == IF x.cctx.done THEN x.cctx.exit_code ELSE -1

\* The first call fails before the chunk runs: goto failed frees the fake
\* request and connection built so far and returns 0.  cctx, if it was
\* allocated, is not reachable (SSL_set_ex_data failed or never ran).
SetupFails(x, fail) ==
    [x EXCEPT !.ret = 0, !.req = IF fail = "fc" THEN @ ELSE "freed"]

\* The chunk finished within the call: by_chunk already finalized the fake
\* request (no cleanup was registered on its pool yet); mark cctx done and
\* return cctx->exit_code as the chunk left it.
Finished(s, rc, code) ==
    [s EXCEPT !.cctx.done = TRUE, !.cctx.exit_code = code,
              !.slot = IF @ = "absent" THEN @ ELSE "null",
              !.ret = code, !.req = "freed",
              !.luaExit = LuaExit(code)]

\* The loader failed: the handler takes NJT_ERROR like a finished chunk
\* (done, slot cleared) and returns cctx->exit_code, still the 1 it was set
\* to before the call, but nothing finalizes the fake request or closes
\* the fake connection, and the chunk never ran.
LoadFailed(s) ==
    [s EXCEPT !.cctx.done = TRUE,
              !.slot = IF @ = "absent" THEN @ ELSE "null",
              !.ret = s.cctx.exit_code]

\* Seeded fault: goto failed frees the fake request but does not close the
\* fake connection, so its pool and the cleanup on it live on.
YieldNoCloseFc(s, fail) ==
    CASE fail = "fc_cleanup" ->
           [s EXCEPT !.ret = 0, !.req = "freed", !.luaExit = "killed"]
      [] fail = "c_cleanup" ->
           [s EXCEPT !.fcDone = TRUE, !.req = "freed", !.ret = 0, !.luaExit = "killed"]
      [] OTHER ->
           [s EXCEPT !.fcDone = TRUE, !.slot = "aborted", !.ret = -1,
                     !.req = "alive", !.luaExit = "running"]

\* Seeded fault: the c->pool slot is pointed at client_hello_aborted before
\* client_hello_done is registered on the fake pool.
YieldArmFirst(s, fail) ==
    CASE fail = "fc_cleanup" ->
           [s EXCEPT !.slot = "aborted", !.ret = 0, !.req = "freed",
                     !.luaExit = "killed"]
      [] fail = "c_cleanup" ->
           [FreeFake([s EXCEPT !.fcDone = TRUE]) EXCEPT !.ret = 0, !.luaExit = "killed"]
      [] OTHER ->
           [s EXCEPT !.fcDone = TRUE, !.slot = "aborted", !.ret = -1,
                     !.req = "alive", !.luaExit = "running"]

(***************************************************************************)
(* The chunk yielded (NJT_DONE): register client_hello_done on the fake   *)
(* pool, create the c->pool slot if cctx has none, point it at            *)
(* client_hello_aborted, return -1.  A failed cleanup allocation goes to  *)
(* failed, which frees the fake request (running the cleanups already     *)
(* registered on its pool) and returns 0.                                 *)
(***************************************************************************)
Yield(s, fail) ==
    CASE fail = "fc_cleanup" ->
           [s EXCEPT !.ret = 0, !.req = "freed", !.luaExit = "killed"]
      [] fail = "c_cleanup" ->
           [FreeFake([s EXCEPT !.fcDone = TRUE]) EXCEPT !.ret = 0, !.luaExit = "killed"]
      [] OTHER ->
           [s EXCEPT !.fcDone = TRUE, !.slot = "aborted", !.ret = -1,
                     !.req = "alive", !.luaExit = "running"]

(***************************************************************************)
(* njt_http_lua_ssl_client_hello_handler: the first call builds the fake   *)
(* connection and request and cctx (exit_code 1, entered, not done), then  *)
(* runs the chunk.  Which allocation fails and what the chunk returns are  *)
(* inputs.                                                                 *)
(***************************************************************************)
HandlerCall(x, fail, rc, code) ==
    IF x.cctx.entered THEN [x EXCEPT !.ret = ReEntryResult(x)]
    ELSE LET s == [x EXCEPT !.cctx.entered = TRUE, !.cctx.done = FALSE,
                            !.cctx.exit_code = 1, !.req = "alive"]
         IN  CASE fail \in {"fc", "r", "cctx", "ex_data"} -> SetupFails(x, fail)
               [] rc = "done" -> Yield(s, fail)
               [] rc = "load_error" -> LoadFailed(s)
               [] OTHER -> Finished(s, rc, code)

\* The inputs that can occur together: the cleanup allocations are made
\* only after the chunk yielded, the c->pool one only if cctx has no slot.
Possible(x, fail, rc) ==
    /\ fail \in {"fc_cleanup", "c_cleanup"} => rc = "done"
    /\ fail = "c_cleanup" => x.slot = "absent"

Handler(c) ==
    LET x == conns[c] IN
    /\ x.open /\ x.ret \in {NotCalled, -1}
    /\ \E fail \in FailPoints \cup {"none"}, rc \in ChunkResults, code \in {0, 1} :
          /\ Possible(x, fail, rc)
          /\ conns' = [conns EXCEPT ![c] = HandlerCall(x, fail, rc, code)]

----------------------------------------------------------------------------
(***************************************************************************)
(* The environment of connection c.                                        *)
(***************************************************************************)

\* The yielded chunk finishes with exit code `code`; its fake request is
\* finalized.
LuaFinish(c, code) ==
    /\ conns[c].req = "alive" /\ conns[c].luaExit = "running"
    /\ conns' = [conns EXCEPT ![c] =
                   [FreeFake([@ EXCEPT !.cctx.exit_code = code])
                      EXCEPT !.luaExit = LuaExit(code)]]

\* The client connection is closed (peer close, timeout, failed handshake):
\* njt_close_connection drops its posted events, then c->pool is destroyed
\* and runs the handler in the slot.
CloseConnection(x) ==
    LET y == [x EXCEPT !.open = FALSE, !.posted = FALSE]
    IN  IF y.slot = "aborted" THEN ClientHelloAborted(y) ELSE y

ConnClose(c) ==
    /\ conns[c].open
    /\ conns' = [conns EXCEPT ![c] = CloseConnection(@)]

\* The event loop runs the posted c->write handler, which calls
\* SSL_do_handshake; OpenSSL calls the callback again if it is retrying.
Resume(c) ==
    /\ conns[c].posted /\ conns[c].open
    /\ conns' = [conns EXCEPT ![c].posted = FALSE,
                              ![c].ret = IF @ = -1 THEN ReEntryResult(conns[c]) ELSE @]

\* After a HelloRetryRequest, OpenSSL calls the callback for the second
\* ClientHello.
NextHello(c) ==
    /\ conns[c].ret = 1 /\ conns[c].open /\ conns[c].hellos < MaxHellos
    /\ conns' = [conns EXCEPT ![c].ret = NotCalled, ![c].hellos = @ + 1]

Init == conns = [c \in Conns |-> NewConn]

Next ==
    \E c \in Conns :
        \/ Handler(c) \/ Resume(c) \/ ConnClose(c) \/ NextHello(c)
        \/ \E code \in {0, 1} : LuaFinish(c, code)

\* Only the event loop's own step is fair: a posted event is eventually
\* processed.  The client, the Lua chunk and the allocator are not.
Spec == Init /\ [][Next]_vars /\ \A c \in Conns : WF_vars(Resume(c))

----------------------------------------------------------------------------
\* Besides the types: client_hello_done is registered only on a fake pool
\* that still exists.
TypeOK ==
    /\ conns \in [Conns -> Conn]
    /\ \A c \in Conns : conns[c].fcDone => conns[c].req = "alive"

\* No event is posted for a closed connection: njt_close_connection has
\* already removed c->write from the posted queue when c->pool is
\* destroyed, so the cleanups this triggers (client_hello_aborted and the
\* fake pool's client_hello_done after it) must not post it again.
NoPostAfterClose == \A c \in Conns : conns[c].posted => conns[c].open

\* Whenever closing the connection would make client_hello_aborted
\* finalize cctx->request (the connection is open, its c->pool slot holds
\* the handler and the chunk is not done), that fake request is still
\* alive: no path frees the fake request and leaves the slot armed.
AbortTargetsLiveRequest ==
    \A c \in Conns :
        conns[c].open /\ conns[c].slot = "aborted" /\ ~conns[c].cctx.done
            => conns[c].req = "alive"

\* Once the callback has answered for good (0 or 1), the fake request and
\* connection it built are released, as the goto failed path and the
\* finalization in by_chunk release them: none is left allocated for a
\* handshake that has moved on.
FakeRequestReleased ==
    \A c \in Conns : conns[c].ret \in {0, 1} => conns[c].req # "alive"

\* Once the chunk has finished, a callback that answered "retry" is called
\* again and the handshake leaves the retry state, unless the connection
\* closes first.  Relies only on the event loop running posted events.
HandshakeResumes ==
    \A c \in Conns :
        (conns[c].ret = -1 /\ conns[c].luaExit \in {"exit0", "exit1"})
            ~> (conns[c].ret \in {0, 1} \/ ~conns[c].open)

====
