-------------------------------- MODULE Thtp --------------------------------
(***************************************************************************)
(* HTTP over a channel (modules/_thtp/server.go, round_tripper.go): a      *)
(* request and its response are each a length, a JSON header of that       *)
(* length and a body, through a buffered writer on one side and a buffered *)
(* reader on the other.  The channel delivers its packets in order, or     *)
(* breaks (Channel).  A byte of a header or body is one unit.              *)
(***************************************************************************)
EXTENDS Integers, Sequences, SequencesExt

CONSTANTS
  None,
  BufSize,     \* 1200: the size of the writers' buffers
  Wrap,        \* 2^16: the length of a header is a uint16
  Requests,    \* [head, body]: the length of the header, the body or None
  Codes,       \* statuses a handler sets
  HeadLens,    \* lengths of a response's header
  MaxWrites    \* bound: calls of a handler

VARIABLES
  req,                  \* the request of the client
  client,               \* "idle", "reading", "response", "done", "failed", "panicked"
  up, down,             \* packets to the server, to the client
  broken, upEnd, downEnd,   \* the channel broke; closed by the client; by the server
  got, response,        \* units the client has read; the response it returned
  server,               \* "waiting", "handler", "flush", "closed"
  sgot, srequest,       \* units the server has read; the request of the handler
  buf, code,            \* responseWriter
  asked, wrote, writes  \* the first status and the body of the handler; its calls

chanVars == <<up, down, broken, upEnd, downEnd>>
clientVars == <<req, client, got, response>>
serverVars == <<server, sgot, srequest, buf, code, asked, wrote, writes>>
vars == <<clientVars, chanVars, serverVars>>

-----------------------------------------------------------------------------
(* bufio (external): what a write leaves in the buffer and sends.          *)

Write(w, p) ==
  LET all == w \o p
      rest == SubSeq(all, BufSize + 1, Len(all))
  IN IF Len(all) <= BufSize THEN [buf |-> all, out |-> <<>>]
     ELSE IF w = <<>> THEN [buf |-> <<>>, out |-> <<p>>]
     ELSE IF Len(rest) > BufSize
       THEN [buf |-> <<>>, out |-> <<SubSeq(all, 1, BufSize), rest>>]
     ELSE [buf |-> rest, out |-> <<SubSeq(all, 1, BufSize)>>]

Flush(w) == IF w = <<>> THEN <<>> ELSE <<w>>

Copy(w, p) ==
  LET all == w \o p
  IN [i \in 1..((Len(all) + BufSize - 1) \div BufSize) |->
        SubSeq(all, (i - 1) * BufSize + 1, IF i * BufSize < Len(all) THEN i * BufSize ELSE Len(all))]

-----------------------------------------------------------------------------
(* Frames.                                                                 *)

\* Two writes: the length, which wraps, and the header; a response's has the status.
Header(w, kind, n) ==
  LET l == Write(w, <<[len |-> n % Wrap]>>)
      h == Write(l.buf, [i \in 1..n |-> [head |-> kind, at |-> i]])
  IN [buf |-> h.buf, out |-> l.out \o h.out]

\* io.ReadFull of the length and of the header: what they leave, or None to read on.
Parsed(units) ==
  IF units = <<>> \/ Len(units) < 1 + units[1].len THEN None
  ELSE [head |-> SubSeq(units, 2, 1 + units[1].len),
        body |-> SubSeq(units, 2 + units[1].len, Len(units))]

\* json.Unmarshal takes a header that is whole.
Whole(head, n) == Len(head) = n /\ \A i \in 1..n : "head" \in DOMAIN head[i] /\ head[i].at = i

-----------------------------------------------------------------------------
(* RoundTripper.                                                           *)

writeRequest(r) ==
  LET w == Header(<<>>, "request", r.head)
  IN IF r.body = None THEN w.out           \* nothing flushes the buffer
     ELSE w.out \o Copy(w.buf, r.body)

\* No exchange: an error is returned.  No channel: the nil channel is closed, a panic.
RoundTrip(r) ==
  /\ client = "idle"
  /\ req' = r
  /\ \/ client' \in {"failed", "panicked"} /\ UNCHANGED chanVars
     \/ /\ client' = "reading"
        /\ up' = writeRequest(r)
        /\ UNCHANGED <<down, broken, upEnd, downEnd>>
  /\ UNCHANGED <<got, response, serverVars>>

\* Before the header is whole an end of the stream or an error closes the channel; a
\* response without a status fails.  Afterwards the body is read by the client's user.
\* Headers that are strings with a text do not reach the response: they are left out.
readResponse ==
  /\ client \in {"reading", "response"}
  /\ \/ /\ down # <<>>
        /\ got' = got \o Head(down)
        /\ down' = Tail(down)
        /\ LET p == Parsed(got')
           IN \/ /\ p = None
                 /\ UNCHANGED <<client, response, upEnd>>
              \/ /\ p # None /\ ~(p.head # <<>> /\ Whole(p.head, Len(p.head)))
                 /\ client' = "failed" /\ upEnd' = TRUE /\ UNCHANGED response
              \/ /\ p # None /\ p.head # <<>> /\ Whole(p.head, Len(p.head))
                 /\ client' = "response" /\ UNCHANGED upEnd
                 /\ response' = [status |-> p.head[1].head, body |-> p.body]
     \/ /\ (down = <<>> /\ downEnd) \/ broken
        /\ client' = IF client = "reading" THEN "failed" ELSE "done"
        /\ upEnd' = TRUE
        /\ UNCHANGED <<got, response, down>>
  /\ UNCHANGED <<req, up, broken, downEnd, serverVars>>

\* The user closes the body.
CloseBody ==
  /\ client = "response"
  /\ client' = "done" /\ upEnd' = TRUE
  /\ UNCHANGED <<req, got, response, up, down, broken, downEnd, serverVars>>

-----------------------------------------------------------------------------
(* module: the first packet opens the channel, run accepts it and          *)
(* serveTelehash reads the header; the body is read by the handler.        *)

readRequest ==
  /\ server = "waiting"
  /\ \/ /\ up # <<>>
        /\ sgot' = sgot \o Head(up)
        /\ up' = Tail(up)
        /\ LET p == Parsed(sgot')
           IN \/ p = None /\ UNCHANGED <<server, srequest, downEnd>>
              \/ /\ p # None /\ Whole(p.head, Len(p.head))
                 /\ server' = "handler" /\ UNCHANGED downEnd
                 /\ srequest' = [head |-> Len(p.head), body |-> p.body]
              \/ /\ p # None /\ ~Whole(p.head, Len(p.head))
                 /\ server' = "closed" /\ downEnd' = TRUE /\ UNCHANGED srequest
     \/ /\ (up = <<>> /\ upEnd) \/ (broken /\ sgot # <<>>)
        /\ server' = "closed" /\ downEnd' = TRUE
        /\ UNCHANGED <<sgot, srequest, up>>
  /\ UNCHANGED <<clientVars, down, broken, upEnd, buf, code, asked, wrote, writes>>

Working == server = "handler" /\ writes < MaxWrites /\ writes' = writes + 1

ReadBody ==
  /\ server = "handler" /\ up # <<>>
  /\ srequest' = [srequest EXCEPT !.body = @ \o Head(up)]
  /\ sgot' = sgot \o Head(up)
  /\ up' = Tail(up)
  /\ UNCHANGED <<clientVars, down, broken, upEnd, downEnd, server, buf, code, asked, wrote, writes>>

\* What WriteHeader writes; later calls write nothing.
Start(c, n) ==
  IF code = 0 THEN Header(buf, c, n) ELSE [buf |-> buf, out |-> <<>>]

\* Mutant of WriteHeader: it writes a header whenever it is called.
WriteHeaderAgain(c, n) ==
  /\ Working
  /\ LET w == Header(buf, c, n) IN buf' = w.buf /\ down' = down \o w.out
  /\ code' = IF code = 0 THEN c ELSE code
  /\ asked' = IF asked = 0 THEN c ELSE asked
  /\ UNCHANGED <<clientVars, up, broken, upEnd, downEnd, server, sgot, srequest, wrote>>

WriteHeader(c, n) ==
  /\ Working
  /\ LET w == Start(c, n) IN buf' = w.buf /\ down' = down \o w.out
  /\ code' = IF code = 0 THEN c ELSE code
  /\ asked' = IF asked = 0 THEN c ELSE asked
  /\ UNCHANGED <<clientVars, up, broken, upEnd, downEnd, server, sgot, srequest, wrote>>

\* A body before a status has status 200.
WriteBody(p, n) ==
  /\ Working
  /\ LET w == Start(200, n)
         v == Write(w.buf, p)
     IN buf' = v.buf /\ down' = down \o w.out \o v.out
  /\ code' = IF code = 0 THEN 200 ELSE code
  /\ asked' = IF asked = 0 THEN 200 ELSE asked
  /\ wrote' = wrote \o p
  /\ UNCHANGED <<clientVars, up, broken, upEnd, downEnd, server, sgot, srequest>>

\* The handler returns or panics: what is in the buffer goes out, then the channel is
\* closed.
serveTelehash ==
  /\ server = "handler"
  /\ server' = "closed"
  /\ down' = down \o Flush(buf)
  /\ buf' = <<>>
  /\ downEnd' = TRUE
  /\ UNCHANGED <<clientVars, up, broken, upEnd, sgot, srequest, code, asked, wrote, writes>>

\* The listener is closed before the channel is accepted: run returns, and the channel is
\* dropped.
Stop ==
  /\ server = "waiting" /\ sgot = <<>>
  /\ server' = "closed" /\ broken' = TRUE
  /\ UNCHANGED <<up, down, upEnd, downEnd, clientVars, sgot, srequest, buf, code, asked, wrote, writes>>

Break ==
  /\ client # "idle" /\ ~broken
  /\ broken' = TRUE
  /\ UNCHANGED <<up, down, upEnd, downEnd, clientVars, serverVars>>

-----------------------------------------------------------------------------
Init ==
  /\ req = None /\ client = "idle" /\ got = <<>> /\ response = None
  /\ up = <<>> /\ down = <<>> /\ broken = FALSE /\ upEnd = FALSE /\ downEnd = FALSE
  /\ server = "waiting" /\ sgot = <<>> /\ srequest = None
  /\ buf = <<>> /\ code = 0 /\ asked = 0 /\ wrote = <<>> /\ writes = 0

Next ==
  \/ \E r \in Requests : RoundTrip(r)
  \/ readResponse \/ CloseBody \/ readRequest \/ ReadBody \/ serveTelehash \/ Stop \/ Break
  \/ \E c \in Codes, n \in HeadLens : WriteHeader(c, n)
  \/ \E i \in 1..BufSize + 1, n \in HeadLens :
       WriteBody([j \in 1..i |-> [body |-> writes, at |-> j]], n)

Spec == Init /\ [][Next]_vars

-----------------------------------------------------------------------------
\* However the writers and readers cut the stream, the handler gets the request's header
\* and the beginning of its body, and the client the handler's first status and the
\* beginning of the handler's body, nothing of a header left in it (writeRequest,
\* readRequest, WriteHeader, readResponse).
MessagesArrive ==
  /\ srequest # None =>
       /\ srequest.head = req.head
       /\ IsPrefix(srequest.body, IF req.body = None THEN <<>> ELSE req.body)
  /\ response # None => response.status = asked /\ IsPrefix(response.body, wrote)
=============================================================================
