------------------------------- MODULE Stream -------------------------------
(***************************************************************************)
(* What is between the socket of a Client and the lines of the stratum     *)
(* protocol (common/net/Client.cpp, common/net/Tls.cpp): the buffer that   *)
(* lines are cut from, the session of TLS, and the next connection of the  *)
(* same Client.                                                            *)
(*                                                                         *)
(* The pool writes lines of one piece or more.  TCP keeps the order and    *)
(* delivers any number of pieces at once; TLS has records, and a record is *)
(* read when all of it has come.  Of the buffer the last piece stands for  *)
(* the 8 bytes that are never used.  OpenSSL and the pool are external.    *)
(***************************************************************************)
EXTENDS Integers, Sequences, SequencesExt

CONSTANTS
    LineSizes,          \* the pieces of each line that a pool writes
    InputBuffer,        \* kInputBufferSize, in pieces
    TlsBuffer,          \* the size of Tls::m_buf, in pieces
    MaxConnections      \* bound: connections of the Client

ASSUME StreamAssumption ==
    /\ LineSizes \in Seq(Nat \ {0}) /\ LineSizes # <<>>
    /\ InputBuffer \in Nat \ {0, 1} /\ TlsBuffer \in Nat \ {0}
    /\ MaxConnections \in Nat

VARIABLES
    pool,       \* how it is configured, and how the server behaves
    socket,     \* "lookup", "connecting", "handshake", "up", "closing"
    connection, \* how many there have been
    verified,   \* m_ready of the Tls
    unwritten,  \* the pieces the pool has still to write
    wire,       \* the pieces that are on their way, each with its record
    recvBuf,    \* m_recvBuf up to m_recvBufPos
    readBio,    \* m_readBio: what has come of a record that is not complete
    heard,      \* history: the lines of this connection that were parsed
    garbled,    \* history: something was parsed that is no line
    loggedIn    \* history: the login of this connection has been sent

streamVars == <<pool, socket, connection, verified, unwritten, wire, recvBuf, readBio, heard,
                garbled, loggedIn>>

-----------------------------------------------------------------------------
Piece(c, l, p) == [connection |-> c, line |-> l, part |-> p]
LineOf(c, l) == [p \in 1..LineSizes[l] |-> Piece(c, l, p)]
AllLines(c) == FoldLeft(LAMBDA text, l : text \o LineOf(c, l), <<>>, [l \in DOMAIN LineSizes |-> l])
EndsLine(piece) == piece.part = LineSizes[piece.line]

(* With fingerprint: what is configured, or none; genuine: the certificate
   has it; records: "lines" when each line is a record, or "any". *)
PoolKinds ==
    [secure : {TRUE}, fingerprint : BOOLEAN, genuine : BOOLEAN, records : {"lines", "any"}]
        \cup [secure : {FALSE}, fingerprint : {FALSE}, genuine : {TRUE}, records : {"any"}]

Fresh ==
    /\ socket' = "lookup" /\ verified' = FALSE
    /\ unwritten' = <<>> /\ wire' = <<>> /\ readBio' = <<>>
    /\ heard' = <<>> /\ loggedIn' = FALSE

StreamInit ==
    /\ pool \in PoolKinds
    /\ socket = "lookup" /\ connection = 0 /\ verified = FALSE
    /\ unwritten = <<>> /\ wire = <<>> /\ recvBuf = <<>> /\ readBio = <<>>
    /\ heard = <<>> /\ garbled = FALSE /\ loggedIn = FALSE

-----------------------------------------------------------------------------
(* The pool: a record of the pieces that come next. *)
Writable(n) ==
    /\ n \in 1..Len(unwritten)
    /\ pool.records = "lines" =>
        /\ n = LineSizes[unwritten[1].line]
        /\ EndsLine(unwritten[n])

PoolWrites ==
    /\ socket \in {"handshake", "up"}
    /\ \E n \in 1..Len(unwritten) :
        /\ Writable(n)
        /\ wire' = wire \o [i \in 1..n |-> [piece |-> unwritten[i], last |-> i = n]]
        /\ unwritten' = SubSeq(unwritten, n + 1, Len(unwritten))
    /\ UNCHANGED <<pool, socket, connection, verified, recvBuf, readBio, heard, garbled, loggedIn>>

-----------------------------------------------------------------------------
(* Mutant: what was left of the last connection stays in the buffer. *)
KeptBuffer(buffer) == buffer
EmptiedBuffer(buffer) == <<>>

(* connect, resolve, onResolved: a new Tls, and an empty buffer. *)
Connect ==
    /\ socket = "lookup" /\ connection < MaxConnections
    /\ socket' = "connecting" /\ connection' = connection + 1
    /\ verified' = FALSE /\ readBio' = <<>> /\ recvBuf' = EmptiedBuffer(recvBuf)
    /\ unwritten' = AllLines(connection + 1)
    /\ UNCHANGED <<pool, wire, heard, garbled, loggedIn>>

(* onConnect and handshake(): without TLS the login is sent at once. *)
OnConnect ==
    /\ socket = "connecting"
    /\ socket' = IF pool.secure THEN "handshake" ELSE "up"
    /\ loggedIn' = ~pool.secure
    /\ UNCHANGED <<pool, connection, verified, unwritten, wire, recvBuf, readBio, heard, garbled>>

AfterVerify(ok) == IF ok THEN "up" ELSE "closing"

verifyFingerprint == ~pool.fingerprint \/ pool.genuine

(* Tls::read that ends the handshake.  Lines that have come with its last
   message wait for the next read; an error of it waits for the time-out. *)
HandshakeRead(n) ==
    /\ socket = "handshake" /\ n < InputBuffer
    /\ verified' = verifyFingerprint /\ loggedIn' = verifyFingerprint
    /\ socket' = AfterVerify(verifyFingerprint)
    /\ readBio' = SubSeq(wire, 1, n) /\ wire' = SubSeq(wire, n + 1, Len(wire))
    /\ UNCHANGED <<pool, connection, unwritten, recvBuf, heard, garbled>>

-----------------------------------------------------------------------------
(* parse: a line is heard when what is given is one whole line. *)
IsLine(c, text) == text # <<>> /\ text = LineOf(c, text[1].line)
Parsed(c, lines, text) == IF IsLine(c, text) THEN Append(lines, text[1].line) ELSE lines
AllParsed(c, lines, texts) == FoldLeft(LAMBDA parsed, text : Parsed(c, parsed, text), lines, texts)
Given(texts) ==
    /\ heard' = AllParsed(connection, heard, texts)
    /\ garbled' = (garbled \/ \E i \in DOMAIN texts : ~IsLine(connection, texts[i]))

(* Client::read: every line of the buffer, each up to its end; what remains
   is moved to the front. *)
CutAt(cut, piece) ==
    IF EndsLine(piece)
    THEN [lines |-> Append(cut.lines, Append(cut.rest, piece)), rest |-> <<>>]
    ELSE [cut EXCEPT !.rest = Append(@, piece)]
Cut(buffer) == FoldLeft(CutAt, [lines |-> <<>>, rest |-> <<>>], buffer)

(* Tls::read: every record that is complete, in parts of m_buf. *)
InBuffers(record) ==
    [i \in 1..((Len(record) + TlsBuffer - 1) \div TlsBuffer) |->
        SubSeq(record, (i - 1) * TlsBuffer + 1,
               IF i * TlsBuffer < Len(record) THEN i * TlsBuffer ELSE Len(record))]
Decrypted(cut, byte) ==
    IF byte.last
    THEN [texts |-> cut.texts \o InBuffers(Append(cut.plain, byte.piece)), plain |-> <<>>, rest |-> <<>>]
    ELSE [texts |-> cut.texts, plain |-> Append(cut.plain, byte.piece), rest |-> Append(cut.rest, byte)]
Records(bio) == FoldLeft(Decrypted, [texts |-> <<>>, plain |-> <<>>, rest |-> <<>>], bio)

Came(n) == SubSeq(wire, 1, n)
Pieces(bytes) == [i \in DOMAIN bytes |-> bytes[i].piece]

(* onRead of n pieces, into the room that is left.  One that would use the   *)
(* last of the buffer closes the connection.                                *)
OnRead(n) ==
    /\ socket = "up"
    /\ n < InputBuffer - Len(recvBuf)
    /\ wire' = SubSeq(wire, n + 1, Len(wire))
    /\ IF pool.secure
       THEN LET r == Records(readBio \o Came(n))
            IN  Given(r.texts) /\ readBio' = r.rest /\ UNCHANGED recvBuf
       ELSE LET cut == Cut(recvBuf \o Pieces(Came(n)))
            IN  Given(cut.lines) /\ recvBuf' = cut.rest /\ UNCHANGED readBio
    /\ UNCHANGED <<pool, socket, connection, verified, unwritten, loggedIn>>

OnReadFull(n) ==
    /\ socket = "up"
    /\ n = InputBuffer - Len(recvBuf)
    /\ socket' = "closing"
    /\ UNCHANGED <<pool, connection, verified, unwritten, wire, recvBuf, readBio, heard, garbled, loggedIn>>

(* A failed lookup or connection, an error of a read or a write, a time-out. *)
Close ==
    /\ socket \in {"connecting", "handshake", "up"}
    /\ socket' = "closing"
    /\ UNCHANGED <<pool, connection, verified, unwritten, wire, recvBuf, readBio, heard, garbled, loggedIn>>

(* Client::onClose: the socket and the Tls are deleted. *)
OnClose ==
    /\ socket = "closing"
    /\ Fresh
    /\ UNCHANGED <<pool, connection, recvBuf, garbled>>

StreamNext ==
    \/ PoolWrites \/ Connect \/ OnConnect
    \/ \E n \in 0..Len(wire) : HandshakeRead(n)
    \/ \E n \in 1..Len(wire) : OnRead(n) \/ OnReadFull(n)
    \/ Close \/ OnClose

StreamSpec == StreamInit /\ [][StreamNext]_streamVars

-----------------------------------------------------------------------------
(* However the pieces arrive, and whatever the connection before left, the   *)
(* lines that are parsed are those the pool wrote, in their order, and       *)
(* nothing else is.  Over TLS this needs a pool that writes each line in a   *)
(* record of its own, none longer than the buffer.                           *)
Framed == ~pool.secure \/ (pool.records = "lines" /\ \A l \in DOMAIN LineSizes : LineSizes[l] <= TlsBuffer)
LinesInOrder ==
    Framed => ~garbled /\ heard = [l \in 1..Len(heard) |-> l]

(* Nothing is heard from a server with another certificate than the one that *)
(* is configured, and it is not told the login.                              *)
HeardOnlyVerified ==
    pool.fingerprint /\ ~pool.genuine => heard = <<>> /\ ~garbled /\ ~loggedIn

(* A Client hears what its own pool says. *)
HearsItsPool == LinesInOrder /\ HeardOnlyVerified
=============================================================================
