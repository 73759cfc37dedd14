--------------------------- MODULE ClientHelloFfi ---------------------------
(***************************************************************************)
(* Two FFI functions that ssl_client_hello_by_lua code calls              *)
(* (src/unnamed/part_000), checked over every input of a bounded set.     *)
(* A state is one call: fn names the function, and the inputs of the      *)
(* other function keep a fixed value.  Only a build with OpenSSL 1.1.1 or *)
(* later (SSL_ERROR_WANT_CLIENT_HELLO_CB and every SSL_OP_NO_* defined) is *)
(* modelled.                                                               *)
(*                                                                         *)
(* njt_http_lua_ffi_ssl_get_client_hello_server_name reads the SNI host   *)
(* name before OpenSSL has parsed the extensions.  It takes the raw       *)
(* server_name extension from SSL_client_hello_get0_ext and walks it      *)
(* byte by byte:                                                           *)
(*                                                                         *)
(*   list length (2) | name type (1) | name length (2) | name | ...        *)
(*                                                                         *)
(* and returns a pointer into the ClientHello and a length.  Byte values  *)
(* are abstracted to what the parser tells apart: a high byte 0 or 1 (so   *)
(* the shift by 8 matters), low bytes in Lows, a name type, and the        *)
(* Filler byte of names and later entries.                                 *)
(*                                                                         *)
(* njt_http_lua_ffi_ssl_set_protocols picks the protocol versions of this *)
(* handshake.  The SSL object starts with the SSL_OP_NO_* options it      *)
(* inherited from the server's SSL_CTX (the ssl_protocols directive); the *)
(* function clears and sets them from the NJT_SSL_* bits of `protocols`.  *)
(* Options are the set of versions whose SSL_OP_NO_* bit is set.           *)
(***************************************************************************)
EXTENDS Integers, Sequences, Bitwise

CONSTANTS
    Lows,       \* low byte values of the two length fields
    MaxTail     \* bytes after the 5-byte prefix

VARIABLES
    fn,         \* "server_name" or "set_protocols"
    conn,       \* "ok", "no_ssl" (r->connection or its ssl is NULL), "no_ssl_conn"
    present,    \* SSL_client_hello_get0_ext found the server_name extension
    ext,        \* its bytes
    options,    \* versions disabled on the SSL object before the call
    protocols   \* the int passed from Lua

vars == <<fn, conn, present, ext, options, protocols>>

HostNameType == 0   \* TLSEXT_NAMETYPE_host_name
Filler == 9         \* a byte of a name or of a later entry

\* The ClientHello bytes that follow the extension in memory: what a read
\* past the extension sees.
Beyond == <<Filler, Filler, Filler, Filler, Filler>>

Prefixes(s) == {SubSeq(s, 1, k) : k \in 0..Len(s)}

Headers == {<<h1, l1, t, h2, l2>> :
              h1 \in {0, 1}, l1 \in Lows, t \in {HostNameType, 1},
              h2 \in {0, 1}, l2 \in Lows}

\* Every extension body the parser can be handed, up to the bound.
Exts == UNION {Prefixes(h) : h \in Headers}
          \cup {h \o [i \in 1..k |-> Filler] : h \in Headers, k \in 1..MaxTail}

\* The result: rc (NJT_OK, NJT_ERROR, NJT_DECLINED), read (how far p has
\* advanced past the start of the extension), and *name (as an offset)
\* and *namelen when rc is "ok".
Fail(read) == [rc |-> "error", read |-> read, name |-> 0, namelen |-> 0]

\* The rejection `len + 2 > remaining` of the name length.
NameFitsStrict(len, remaining) == len + 2 < remaining
NameFitsLoose(len, remaining) == len <= remaining
NameFits(len, remaining) == len + 2 <= remaining

GetServerName(c, found, e) ==
    LET mem == e \o Beyond
        U16(i) == mem[i + 1] * 256 + mem[i + 2]
        listLen == U16(0)
        nameLen == U16(3)
    IN  CASE c # "ok" -> Fail(0)
          [] ~found -> [rc |-> "declined", read |-> 0, name |-> 0, namelen |-> 0]
          [] Len(e) <= 2 -> Fail(0)
          [] listLen + 2 # Len(e) -> Fail(2)
          [] listLen = 0 -> Fail(2)
          [] mem[3] # HostNameType -> Fail(3)
          [] listLen - 1 <= 2 -> Fail(3)
          [] ~NameFits(nameLen, listLen - 1) -> Fail(5)
          [] OTHER -> [rc |-> "ok", read |-> 5, name |-> 5, namelen |-> nameLen]

\* NJT_SSL_SSLv2 .. NJT_SSL_TLSv1_3
Bit == [SSLv2 |-> 2, SSLv3 |-> 4, TLSv1 |-> 8, TLSv1_1 |-> 16,
        TLSv1_2 |-> 32, TLSv1_3 |-> 64]

Versions == DOMAIN Bit

\* The versions the first SSL_clear_options call covers.
Legacy == {"SSLv2", "SSLv3", "TLSv1"}

Requested(v, p) == (p & Bit[v]) # 0

\* SSL_set_options(ssl_conn, SSL_OP_NO_v) unless v is requested.
SetUnlessRequested(o, v, p) == IF Requested(v, p) THEN o ELSE o \cup {v}

\* Seeded fault: the TLSv1.3 option is set but never cleared.
ClearAndSetNoClear(o, v, p) == IF v = "TLSv1_3" THEN SetUnlessRequested(o, v, p)
                               ELSE SetUnlessRequested(o \ {v}, v, p)

\* SSL_clear_options of one of TLSv1.1, 1.2, 1.3 followed by its set.
ClearAndSet(o, v, p) == SetUnlessRequested(o \ {v}, v, p)

SetProtocols(o, p) ==
    LET legacy == o \ Legacy
        l1 == SetUnlessRequested(legacy, "SSLv2", p)
        l2 == SetUnlessRequested(l1, "SSLv3", p)
        l3 == SetUnlessRequested(l2, "TLSv1", p)
        t1 == ClearAndSet(l3, "TLSv1_1", p)
        t2 == ClearAndSet(t1, "TLSv1_2", p)
    IN  ClearAndSet(t2, "TLSv1_3", p)

\* The call: NJT_ERROR with the options untouched when the request has no
\* SSL connection, NJT_OK with the new options otherwise.
ProtocolsResult(c, o, p) ==
    IF c # "ok" THEN [rc |-> "error", options |-> o]
    ELSE [rc |-> "ok", options |-> SetProtocols(o, p)]

NameResult == GetServerName(conn, present, ext)

Init ==
    /\ fn \in {"server_name", "set_protocols"}
    /\ conn \in {"ok", "no_ssl", "no_ssl_conn"}
    /\ present \in IF fn = "server_name" THEN BOOLEAN ELSE {FALSE}
    /\ ext \in IF present THEN Exts ELSE {<<>>}
    /\ options \in IF fn = "set_protocols" THEN SUBSET Versions ELSE {{}}
    /\ protocols \in IF fn = "set_protocols" THEN 0..127 ELSE {0}

\* The inputs do not change; every state is one call.
Next == UNCHANGED vars

Spec == Init /\ [][Next]_vars

----------------------------------------------------------------------------
(***************************************************************************)
(* RFC 6066: the extension is a ServerNameList whose 2-byte length covers  *)
(* the rest of the extension; its first entry is a name type and a         *)
(* HostName<1..2^16-1>.  FirstHostName(e) is the set of name lengths n    *)
(* for which e is such a list whose first entry is a host name of n bytes *)
(* (empty or a singleton).                                                 *)
(***************************************************************************)
FirstHostName(e) ==
    {n \in 1..Len(e) :
        /\ Len(e) >= 5
        /\ e[1] * 256 + e[2] = Len(e) - 2
        /\ e[3] = HostNameType
        /\ e[4] * 256 + e[5] = n
        /\ 5 + n <= Len(e)}

\* The parser never reads a byte past the end of the extension, and the
\* name it hands to Lua (a pointer and a length into the ClientHello) lies
\* inside the extension.
NoOverRead ==
    fn = "server_name" =>
        /\ NameResult.read <= Len(ext)
        /\ NameResult.rc = "ok" => NameResult.name + NameResult.namelen <= Len(ext)

\* Every extension whose first entry is a well-framed, non-empty host name
\* is accepted with exactly that name, and a non-empty name is returned
\* only for such an extension.
ReturnsFirstHostName ==
    LET named == NameResult.rc = "ok" /\ NameResult.namelen >= 1
    IN  /\ fn = "server_name" /\ conn = "ok" /\ present => (named <=> FirstHostName(ext) # {})
        /\ named => NameResult.namelen \in FirstHostName(ext) /\ NameResult.name = 5

\* A name handed to Lua is never empty (RFC 6066: HostName<1..2^16-1>).
NonEmptyHostName == fn = "server_name" /\ NameResult.rc = "ok" => NameResult.namelen >= 1

\* After a successful set_protocols the handshake may use exactly the
\* versions the Lua code requested, whatever options the SSL object
\* inherited from the server configuration: none stays disabled, none
\* stays enabled.
ExactlyRequested ==
    LET r == ProtocolsResult(conn, options, protocols)
    IN  fn = "set_protocols" /\ r.rc = "ok" =>
            \A v \in Versions : v \in r.options <=> ~Requested(v, protocols)

====
