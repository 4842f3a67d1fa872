------------------------------ MODULE AdminSocket ----------------------------
(***************************************************************************)
(* The two ways to administer a running proxai: the admin socket           *)
(* (admin.rs, client.rs), one request and one answer per connection, and   *)
(* the dashboard's key endpoints (webui.rs).  Both end in the operations   *)
(* of KeyStore.  Handlers, clients and the process itself may stop at any  *)
(* point in between.                                                       *)
(***************************************************************************)
EXTENDS KeyStore

CONSTANTS
    Clients,
    Wants       \* what a client asks for: [op, arg]

ASSUME WantsAssumption ==
    \A want \in Wants:
        /\ want.op \in {"generate", "revoke", "list", "stats", "junk"}
        /\ want.op = "generate" => want.arg \in Names
        /\ want.op = "revoke" => want.arg \in Names \cup Ids

VARIABLES
    conn,       \* per client, its connection
    reply       \* per client, what its handler answers, heard when it is "over"

socketVars == <<vars, conn, reply>>

\* A connection is "closed" before it is made, "open" when accepted, "sent"
\* with a request in it, "revoking" between the two statements of a revocation,
\* "answering" when the operation is done, and "over".
Conn == [at: {"closed", "open", "sent", "revoking", "answering", "over"}, want: Wants]

\* What a handler answers: the row of a key made or revoked (its hash stands
\* for the key itself), a listing, an error, or the end of the stream.
Answered(kind, row) == [kind |-> kind, row |-> row]

NoRow == [id |-> NoKey, name |-> NoKey, key |-> NoKey]
Silence == Answered("none", NoRow)
Failure == Answered("error", NoRow)
Eof == Answered("eof", NoRow)

SocketInit ==
    /\ Init
    /\ conn \in [Clients -> {c \in Conn: c.at = "closed"}]
    /\ reply = [c \in Clients |-> Silence]

------------------------------------------------------------------------------
(* The client.                                                             *)

Move(c, at) == conn' = [conn EXCEPT ![c].at = at]

Told(c, answer) == reply' = [reply EXCEPT ![c] = answer]

\* Accepted, and handed to a task of its own; without a server the connection
\* is refused and the client gives up.
Connect(c) ==
    /\ conn[c].at = "closed"
    /\ IF phase = "up"
       THEN Move(c, "open") /\ UNCHANGED reply
       ELSE Move(c, "over") /\ Told(c, Eof)
    /\ UNCHANGED vars

\* Length and payload; a client may also never send them.
Send(c) ==
    /\ conn[c].at = "open"
    /\ Move(c, "sent")
    /\ UNCHANGED <<vars, reply>>

\* The client is killed before it has sent all.
Leave(c) ==
    /\ conn[c].at = "open"
    /\ Move(c, "over")
    /\ UNCHANGED <<vars, reply>>

------------------------------------------------------------------------------
(* The server.                                                             *)

\* Bug: connections handled in the accept loop itself, one after the other.
Served_Inline(c) == \A d \in Clients \ {c}: conn[d].at \in {"closed", "over"}

\* A connection's task waits for its own client only.
Served(c) == phase = "up"

\* Bug: the key is announced, and inserted by a task that may not get to it.
ProcessGenerate_Early(c, want) ==
    \E k \in Ungenerated, i \in Fresh:
        /\ Told(c, Answered("generate", [id |-> i, name |-> want.arg, key |-> k]))
        /\ Generate(k, want.arg, i) \/ UNCHANGED vars

\* km.generate, which fails with an error of the database.
ProcessGenerate(c, want) ==
    \/ \E k \in Ungenerated, i \in Fresh:
        /\ Generate(k, want.arg, i)
        /\ Told(c, Answered("generate", [id |-> i, name |-> want.arg, key |-> k]))
    \/ Told(c, Failure) /\ UNCHANGED vars

\* The first half of km.revoke: the row that will be reported.
ProcessRevoke(c, want) ==
    \E n \in Matches(want.arg):
        /\ Find(want.arg, store[n])
        /\ Told(c, Answered("revoke", store[n]))

\* km.list, or the active set and the snapshot DashboardStats reads, or an
\* error of the database.
ProcessRead(c, want) ==
    /\ UNCHANGED vars
    /\ Told(c, Answered(want.op, NoRow)) \/ Told(c, Failure)

\* process_request, as far as its first statement.  Ok(None) and an error of
\* the database (which the search swallows) are both an Error.  A length of 0
\* or over a megabyte, or a payload that is no request, closes the connection.
Handle(c) ==
    LET want == conn[c].want
    IN  /\ conn[c].at = "sent" /\ Served(c)
        /\ \/ want.op = "junk" /\ Move(c, "over") /\ Told(c, Eof) /\ UNCHANGED vars
           \/ want.op = "revoke" /\ Move(c, "revoking") /\ ProcessRevoke(c, want)
           \/ /\ want.op # "junk" /\ Unlocked /\ Move(c, "answering")
              /\ \/ want.op = "generate" /\ ProcessGenerate(c, want)
                 \/ want.op = "revoke" /\ Told(c, Failure) /\ UNCHANGED vars
                 \/ want.op \in {"list", "stats"} /\ ProcessRead(c, want)

\* The second half of km.revoke.
FinishRevoke(c) ==
    /\ conn[c].at = "revoking"
    /\ Move(c, "answering")
    /\ \/ Delete(reply[c].row) /\ UNCHANGED reply
       \/ DeleteFails(reply[c].row) /\ Told(c, Failure)

\* The answer is written, to a client that prints it or is gone by now.
Answer(c) ==
    /\ conn[c].at = "answering"
    /\ Move(c, "over")
    /\ UNCHANGED reply \/ Told(c, Silence)
    /\ UNCHANGED vars

\* The dashboard's generate and revoke, behind check_auth.
DashboardGenerate ==
    /\ \E k \in Keys, n \in Names, i \in Fresh: Generate(k, n, i)
    /\ UNCHANGED <<conn, reply>>

DashboardFind ==
    /\ \E target \in Names \cup Ids, n \in DOMAIN store: Find(target, store[n])
    /\ UNCHANGED <<conn, reply>>

DashboardDelete ==
    /\ \E row \in selected:
        /\ \A c \in Clients: ~ (conn[c].at = "revoking" /\ reply[c].row = row)
        /\ Delete(row) \/ DeleteFails(row)
    /\ UNCHANGED <<conn, reply>>

\* Connections a process that dies takes with it; what their handlers did so
\* far stays done, and the client reads the end of the stream.
Lost(c) == conn[c].at \in {"open", "sent", "revoking", "answering"}

Die ==
    /\ Crash
    /\ conn' = [c \in Clients |-> IF Lost(c) THEN [conn[c] EXCEPT !.at = "over"] ELSE conn[c]]
    /\ reply' = [c \in Clients |-> IF Lost(c) THEN Eof ELSE reply[c]]

\* serve opens keys.db, and binds the socket only then.
Start ==
    /\ Opening
    /\ UNCHANGED <<conn, reply>>

SocketNext ==
    \/ \E c \in Clients:
        Connect(c) \/ Send(c) \/ Leave(c) \/ Handle(c) \/ FinishRevoke(c) \/ Answer(c)
    \/ DashboardGenerate \/ DashboardFind \/ DashboardDelete
    \/ Die \/ Start

\* The runtime runs each connection's task and each handler of the dashboard,
\* and who waits for the mutex gets it if it is released again and again.
SocketFairness ==
    /\ \A c \in Clients:
        SF_socketVars(Handle(c)) /\ WF_socketVars(FinishRevoke(c)) /\ WF_socketVars(Answer(c))
    /\ WF_socketVars(DashboardDelete)

SocketSpec == SocketInit /\ [][SocketNext]_socketVars /\ SocketFairness

------------------------------------------------------------------------------

Heard(c, kind) == conn[c].at = "over" /\ reply[c].kind = kind

\* "API key generated (save it - shown only once!)": a key that was announced
\* is in the table, through every later crash, until it is revoked, and no two
\* requests were given the same.
AnnouncedKeyIsReal ==
    \A c \in Clients:
        Heard(c, "generate") =>
            /\ reply[c].row.key \in KeysOf(store) \cup revoked
            /\ \A d \in Clients \ {c}:
                  Heard(d, "generate") => reply[d].row.key # reply[c].row.key

\* "Key revoked: #id name": the key a client was told of is out of the table
\* from then on (unless keys.json has it), and it was this request that took it
\* out: no other client was told of the same, however the two raced.
ConfirmedRevocationHolds ==
    \A c \in Clients:
        (Heard(c, "revoke") /\ reply[c].row.key \notin JsonKeys) =>
            /\ reply[c].row.key \notin KeysOf(store)
            /\ \A d \in Clients \ {c}:
                  Heard(d, "revoke") => reply[d].row.key # reply[c].row.key

\* A request that has been sent is answered, or the process died, although
\* another connection stays open without ever sending its own.
SentIsAnswered ==
    \A c \in Clients:
        conn[c].at = "sent" ~> (conn[c].at \notin {"sent", "revoking", "answering"})
=============================================================================
