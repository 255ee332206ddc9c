-------------------------- MODULE RedfishSessions --------------------------
(***************************************************************************)
(* tools/redfish-ec2/redfish_ec2.py: authentication, the session table and *)
(* the routing of a request, on connections that are kept alive.  Each     *)
(* connection has a thread (ThreadingHTTPServer); a thread is cut where it *)
(* takes the lock of SessionStore and where the client reads the answer.   *)
(* What a power request does is RedfishShim's; here it only ends.  Tokens  *)
(* and session ids are drawn together, so a token stands for both.         *)
(***************************************************************************)
EXTENDS Naturals, FiniteSets

CONSTANTS
    Connections,    \* kept-alive connections, each with its thread
    Tokens,         \* tokens that can be minted, in the life of the file
    NoToken

ASSUME TokensAssumption == NoToken \notin Tokens

VARIABLES
    up,             \* the process runs
    table,          \* SessionStore._tokens
    minted,         \* tokens drawn so far: token_urlsafe(32) never repeats one
    known,          \* tokens whose login was answered to a client
    over,           \* tokens whose logout was answered, or that a restart ended
    pc,             \* where the connection's thread is
    req,            \* the request in hand
    late,           \* its token was over before the request came in
    answer,         \* the status the thread sends
    left            \* an unread body lies in front of the next request

vars == <<up, table, minted, known, over, pc, req, late, answer, left>>

-----------------------------------------------------------------------------
(* Requests.  "right" is the configured user and password, "raises" a pair *)
(* that compare_digest refuses with a TypeError because it is not ASCII,   *)
(* and "wrong" every other header, or none; a client sends a token or the  *)
(* header.  A reset whose body is JSON but no object is "odd".             *)

Kinds == {"healthz", "read", "reset", "odd", "login", "logout", "other"}
Posts == {"reset", "odd", "login", "other"}
Basic == {"right", "wrong", "raises"}

Requests ==
    {r \in [kind : Kinds, token : known \cup {NoToken}, basic : Basic,
            body : BOOLEAN, names : known \cup {NoToken}] :
        /\ r.kind = "healthz" => r.token = NoToken
        /\ r.basic # "wrong" => r.token = NoToken /\ r.kind # "healthz"
        /\ r.basic = "raises" => r.kind = "reset"
        /\ r.body => r.kind \in Posts
        /\ r.kind = "odd" => r.body
        /\ r.names # NoToken => r.kind = "logout"}

AnyRequest == [kind : Kinds, token : Tokens \cup {NoToken}, basic : Basic,
               body : BOOLEAN, names : Tokens \cup {NoToken}]

NoRequest == [kind |-> "healthz", token |-> NoToken, basic |-> "wrong",
              body |-> FALSE, names |-> NoToken]

\* "garbled" is http.server's own 400 or 501 for a request line it cannot read.
Answers == {"none", "200", "201", "400", "401", "404", "500", "garbled"}

TypeOK ==
    /\ up \in BOOLEAN
    /\ table \subseteq Tokens /\ minted \subseteq Tokens
    /\ known \subseteq Tokens /\ over \subseteq Tokens
    /\ pc \in [Connections -> {"idle", "auth", "act", "reply"}]
    /\ req \in [Connections -> AnyRequest]
    /\ late \in [Connections -> BOOLEAN]
    /\ answer \in [Connections -> Answers]
    /\ left \in [Connections -> BOOLEAN]

Init ==
    /\ up = TRUE
    /\ table = {} /\ minted = {} /\ known = {} /\ over = {}
    /\ pc = [c \in Connections |-> "idle"]
    /\ req = [c \in Connections |-> NoRequest]
    /\ late = [c \in Connections |-> FALSE]
    /\ answer = [c \in Connections |-> "none"]
    /\ left = [c \in Connections |-> FALSE]

sessions == <<up, table, minted, known, over>>

Goto(c, from, to) ==
    /\ pc[c] = from
    /\ pc' = [pc EXCEPT ![c] = to]

Reply(c, from, a) ==
    /\ Goto(c, from, "reply")
    /\ answer' = [answer EXCEPT ![c] = a]

\* The thread ends without an answer and the connection with it.
Hangup(c, from) ==
    /\ Goto(c, from, "idle")
    /\ req' = [req EXCEPT ![c] = NoRequest]
    /\ late' = [late EXCEPT ![c] = FALSE]
    /\ left' = [left EXCEPT ![c] = FALSE]
    /\ UNCHANGED answer

-----------------------------------------------------------------------------
(* The handlers.                                                           *)

\* A bound: no login comes in without a token left for it.
Supply(r) ==
    r.kind = "login" =>
        Cardinality({d \in Connections : req[d].kind = "login" /\ req[d].names = NoToken})
            < Cardinality(Tokens \ minted)

\* A request comes in.  Behind an unread body its first line makes no sense
\* and http.server refuses it; /healthz is answered without credentials.
Receive(c, r) ==
    /\ up
    /\ Supply(r)
    /\ req' = [req EXCEPT ![c] = r]
    /\ late' = [late EXCEPT ![c] = r.token \in over]
    /\ \/ left[c] /\ Reply(c, "idle", "garbled")
       \/ ~left[c] /\ r.kind = "healthz" /\ Reply(c, "idle", "200")
       \/ ~left[c] /\ r.kind # "healthz" /\ Goto(c, "idle", "auth") /\ UNCHANGED answer
    /\ UNCHANGED <<sessions, left>>

\* Mutant: any token that was ever handed out opens the door.
EverMinted(r) == r.token \in minted

HasSession(r) == r.token \in table

\* _authenticated: the token first, under the lock, then the Basic header.  A
\* refusal leaves the body of the request on the connection.
Authenticate(c) ==
    LET r == req[c] IN
    /\ UNCHANGED sessions
    /\ \/ /\ HasSession(r) \/ r.basic = "right"
          /\ Goto(c, "auth", "act")
          /\ UNCHANGED <<req, late, answer, left>>
       \/ /\ ~HasSession(r) /\ r.basic = "wrong"
          /\ Reply(c, "auth", "401")
          /\ left' = [left EXCEPT ![c] = r.body]
          /\ UNCHANGED <<req, late>>
       \/ /\ ~HasSession(r) /\ r.basic = "raises"
          /\ Hangup(c, "auth")

\* ServiceRoot and the collection of systems are made from the configuration.
Discover(c) == Reply(c, "act", "200")

\* do_GET behind the authentication: a system is RedfishShim's matter, any other
\* path a 404.
Read(c) ==
    /\ req[c].kind = "read"
    /\ Discover(c) \/ Reply(c, "act", "404") \/ Reply(c, "act", "500")
    /\ UNCHANGED <<sessions, req, late, left>>

\* _read_body answers with what the JSON is; the handler asks it for a key, which
\* a list or a number does not have.
Unusable(r) == r.kind = "odd"

\* A reset reads its body after the 404 of an unknown system.
Reset(c) ==
    /\ req[c].kind \in {"reset", "odd"}
    /\ UNCHANGED sessions
    /\ \/ /\ Reply(c, "act", "404")
          /\ left' = [left EXCEPT ![c] = req[c].body]
          /\ UNCHANGED <<req, late>>
       \/ /\ ~Unusable(req[c])
          /\ Reply(c, "act", "200") \/ Reply(c, "act", "400") \/ Reply(c, "act", "500")
          /\ UNCHANGED <<req, late, left>>
       \/ Unusable(req[c]) /\ Hangup(c, "act")

Other(c) ==
    /\ req[c].kind = "other"
    /\ Reply(c, "act", "404")
    /\ left' = [left EXCEPT ![c] = req[c].body]
    /\ UNCHANGED <<sessions, req, late>>

\* Mutant: one session at a time.
MintOnly(k) ==
    /\ k \notin minted
    /\ minted' = minted \cup {k}
    /\ table' = {k}

Mint(k) ==
    /\ k \notin minted
    /\ minted' = minted \cup {k}
    /\ table' = table \cup {k}

Revoke(k) == table' = table \ {k}

\* POST of a session: its body is never read, so credentials in it count for
\* nothing; the new token is in the table before the answer is sent.
Create(c, k) ==
    /\ req[c].kind = "login"
    /\ Reply(c, "act", "201")
    /\ Mint(k)
    /\ req' = [req EXCEPT ![c].names = k]
    /\ left' = [left EXCEPT ![c] = req[c].body]
    /\ UNCHANGED <<up, known, over, late>>

\* DELETE of a session, whoever's it is; 200 whether or not there was one.
Delete(c) ==
    /\ req[c].kind = "logout"
    /\ Reply(c, "act", "200")
    /\ Revoke(req[c].names)
    /\ UNCHANGED <<up, minted, known, over, req, late, left>>

\* Mutant: the connection is kept after a line that made no sense.
CloseNever(c) == FALSE

Close(c) == answer[c] = "garbled"

Finished(c) ==
    /\ req' = [req EXCEPT ![c] = NoRequest]
    /\ late' = [late EXCEPT ![c] = FALSE]
    /\ answer' = [answer EXCEPT ![c] = "none"]

\* The client reads the answer.  After a garbled request http.server closes
\* the connection, and what was left on it is gone.
Deliver(c) ==
    /\ Goto(c, "reply", "idle")
    /\ Finished(c)
    /\ left' = [left EXCEPT ![c] = @ /\ ~Close(c)]
    /\ known' = IF answer[c] = "201" THEN known \cup {req[c].names} ELSE known
    /\ over' = IF answer[c] = "200" /\ req[c].kind = "logout"
               THEN over \cup ({req[c].names} \ {NoToken}) ELSE over
    /\ UNCHANGED <<up, table, minted>>

\* The client drops the connection between two requests and opens another.
Reconnect(c) ==
    /\ pc[c] = "idle" /\ left[c]
    /\ left' = [left EXCEPT ![c] = FALSE]
    /\ UNCHANGED <<sessions, pc, req, late, answer>>

\* The process dies: table and connections are gone.
Crash ==
    /\ up
    /\ up' = FALSE
    /\ table' = {} /\ over' = minted
    /\ pc' = [c \in Connections |-> "idle"]
    /\ req' = [c \in Connections |-> NoRequest]
    /\ late' = [c \in Connections |-> FALSE]
    /\ answer' = [c \in Connections |-> "none"]
    /\ left' = [c \in Connections |-> FALSE]
    /\ UNCHANGED <<minted, known>>

\* systemd starts it again (Restart=always), with an empty SessionStore.
Restart ==
    /\ ~up
    /\ up' = TRUE
    /\ UNCHANGED <<table, minted, known, over, pc, req, late, answer, left>>

Serve(c) ==
    \/ Authenticate(c) \/ Read(c) \/ Reset(c) \/ Other(c)
    \/ \E k \in Tokens : Create(c, k)
    \/ Delete(c) \/ Deliver(c)

Next ==
    \/ \E c \in Connections : \E r \in Requests : Receive(c, r)
    \/ \E c \in Connections : Serve(c) \/ Reconnect(c)
    \/ Crash \/ Restart

\* Threads run; nobody is obliged to send a request.
Spec == Init /\ [][Next]_vars /\ \A c \in Connections : WF_vars(Serve(c))
-----------------------------------------------------------------------------
(* Properties.                                                             *)

\* Sessions whose logout has been carried out and is being answered.
Leaving ==
    {req[c].names : c \in {d \in Connections :
        pc[d] = "reply" /\ req[d].kind = "logout" /\ answer[d] = "200"}}

\* Whatever order logins, logouts and restarts come in, the table holds the
\* tokens that were handed out and not taken back: no login loses another's
\* session and no logout ends another's (SessionStore, lines 179-196).
TableIsOpenSessions == table = minted \ (over \cup Leaving)

\* A request that comes in after the logout of its token was answered, or after
\* the restart of the shim that had issued it, is not let in by that token; one
\* that was let in before the logout goes on (_authenticated, lines 247-262).
LateIsRefused ==
    \A c \in Connections :
        late[c] /\ req[c].basic # "right" =>
            /\ pc[c] # "act"
            /\ pc[c] = "reply" /\ req[c].kind # "healthz" => answer[c] \in {"401", "garbled"}

Good(c) == req[c].kind = "reset" /\ req[c].basic = "right"

\* A fence agent that goes on sending resets with the right credentials over one
\* connection gets through to the handler, whatever bodies were left unread on
\* it, unless the shim keeps crashing (do_POST, lines 288-317).
GoodGetsThrough ==
    \A c \in Connections :
        /\ <>[]up
        /\ <>[](pc[c] # "idle" => Good(c))
        /\ []<>(pc[c] # "idle")
        => []<>(Good(c) /\ answer[c] \in {"200", "400", "404", "500"})
=============================================================================
