------------------------ MODULE RedfishServiceProofs ------------------------
(***************************************************************************)
(* Proofs about the shim as a service: the session table and the door it   *)
(* guards, for any number of connections and tokens, and what the role     *)
(* that installs the shim has established where it is, for any settings.   *)
(***************************************************************************)
EXTENDS RedfishSessions, ShimDeploy, TLAPS

\* What a request names was minted, and so was what is over or answered to a login.
NamesAreMinted ==
    /\ known \subseteq minted /\ over \subseteq minted
    /\ \A c \in Connections : req[c].names \in minted \cup {NoToken}
    /\ \A c \in Connections : answer[c] = "201" => pc[c] = "reply" /\ req[c].names \in minted

\* A late token stays over.
LateIsOver == \A c \in Connections : late[c] => req[c].token \in over

IInv == TypeOK /\ NamesAreMinted /\ LateIsOver /\ TableIsOpenSessions /\ LateIsRefused

IsLeaving(c) == pc[c] = "reply" /\ req[c].kind = "logout" /\ answer[c] = "200"

LEMMA LeavingIsNames == \A k : k \in Leaving <=> \E c \in Connections : IsLeaving(c) /\ req[c].names = k
  BY DEF Leaving, IsLeaving

LEMMA RequestsAreTyped == TypeOK => Requests \subseteq AnyRequest /\ NoRequest \in AnyRequest
  BY DEF TypeOK, Requests, AnyRequest, NoRequest, Kinds, Basic

LEMMA BodyIsBoolean == ASSUME TypeOK, NEW c \in Connections PROVE req[c].body \in BOOLEAN
  BY DEF TypeOK, AnyRequest

LEMMA FlagSet ==
    ASSUME NEW f \in [Connections -> BOOLEAN], NEW c \in Connections, NEW b \in BOOLEAN
    PROVE  [f EXCEPT ![c] = b] \in [Connections -> BOOLEAN]
  BY Zenon

\* A step that neither begins nor ends an answer to a logout, nor touches the
\* table, keeps the table what it should be.
LEMMA TableKept ==
    ASSUME TableIsOpenSessions, UNCHANGED <<table, minted, over>>,
           \A c \in Connections : /\ IsLeaving(c)' <=> IsLeaving(c)
                                  /\ IsLeaving(c) => req'[c].names = req[c].names
    PROVE  TableIsOpenSessions'
<1>1. Leaving' = Leaving
  BY DEF Leaving, IsLeaving
<1>2. QED
  BY <1>1 DEF TableIsOpenSessions

LEMMA InitIInv == Init => IInv
<1> SUFFICES ASSUME Init PROVE IInv
  OBVIOUS
<1>1. TypeOK
  BY DEF Init, TypeOK, NoRequest, AnyRequest, Kinds, Basic, Answers
<1>2. NamesAreMinted /\ LateIsOver /\ TableIsOpenSessions /\ LateIsRefused
  BY DEF Init, NamesAreMinted, LateIsOver, TableIsOpenSessions, LateIsRefused, Leaving, NoRequest
<1>3. QED
  BY <1>1, <1>2 DEF IInv

LEMMA ReceiveInv ==
    ASSUME IInv, NEW c \in Connections, NEW r \in Requests, Receive(c, r)
    PROVE  IInv'
<1>1. TypeOK'
  BY RequestsAreTyped DEF IInv, TypeOK, Receive, sessions, Goto, Reply, Answers
<1>2. NamesAreMinted'
  BY DEF IInv, TypeOK, NamesAreMinted, Receive, Goto, Reply, sessions, Requests
<1>3. LateIsOver'
  BY DEF IInv, TypeOK, LateIsOver, Receive, sessions
<1>4. TableIsOpenSessions'
  <2>1. \A d \in Connections : IsLeaving(d)' <=> IsLeaving(d)
    BY DEF IInv, TypeOK, Receive, IsLeaving, Goto, Reply
  <2>2. \A d \in Connections : IsLeaving(d) => req'[d].names = req[d].names
    BY DEF IInv, TypeOK, Receive, IsLeaving, Goto, Reply
  <2>3. QED
    BY <2>1, <2>2, TableKept DEF IInv, Receive, sessions
<1>5. LateIsRefused'
  BY DEF IInv, TypeOK, LateIsRefused, Receive, Goto, Reply
<1>6. QED
  BY <1>1, <1>2, <1>3, <1>4, <1>5 DEF IInv

LEMMA AuthenticateInv == ASSUME IInv, NEW c \in Connections, Authenticate(c) PROVE IInv'
<1>1. TypeOK'
  <2>1. req[c].body \in BOOLEAN
    BY BodyIsBoolean DEF IInv
  <2>2. left' \in [Connections -> BOOLEAN] /\ late' \in [Connections -> BOOLEAN]
    BY <2>1, FlagSet DEF IInv, TypeOK, Authenticate, Hangup
  <2>3. /\ pc' \in [Connections -> {"idle", "auth", "act", "reply"}]
        /\ req' \in [Connections -> AnyRequest]
        /\ answer' \in [Connections -> Answers]
    BY RequestsAreTyped DEF IInv, TypeOK, Authenticate, Goto, Reply, Answers, Hangup
  <2>4. QED
    BY <2>2, <2>3 DEF IInv, TypeOK, Authenticate, sessions
<1>2. NamesAreMinted'
  BY DEF IInv, TypeOK, NamesAreMinted, Authenticate, sessions, Goto, Reply, Hangup, HasSession, NoRequest
<1>3. LateIsOver'
  BY DEF IInv, TypeOK, LateIsOver, Authenticate, sessions, Goto, Reply, Hangup, HasSession
<1>4. TableIsOpenSessions'
  <2>1. \A d \in Connections : IsLeaving(d)' <=> IsLeaving(d)
    BY DEF IInv, TypeOK, Authenticate, IsLeaving, Goto, Reply, Hangup, HasSession
  <2>2. \A d \in Connections : IsLeaving(d) => req'[d].names = req[d].names
    BY DEF IInv, TypeOK, Authenticate, IsLeaving, Goto, Reply, Hangup, HasSession
  <2>3. QED
    BY <2>1, <2>2, TableKept DEF IInv, Authenticate, sessions
<1>5. LateIsRefused'
  BY DEF IInv, TypeOK, TableIsOpenSessions, LateIsOver, LateIsRefused, Authenticate, sessions, Goto,
     Reply, Hangup, HasSession, NoRequest
<1>6. QED
  BY <1>1, <1>2, <1>3, <1>4, <1>5 DEF IInv

LEMMA ReadInv == ASSUME IInv, NEW c \in Connections, Read(c) PROVE IInv'
<1>1. TypeOK'
  BY RequestsAreTyped DEF IInv, TypeOK, Read, sessions, Goto, Reply, Discover, Answers
<1>2. NamesAreMinted'
  BY DEF IInv, TypeOK, NamesAreMinted, Read, sessions, Goto, Reply, Discover, NoRequest
<1>3. LateIsOver'
  BY DEF IInv, TypeOK, LateIsOver, Read, sessions, Goto, Reply, Discover
<1>4. TableIsOpenSessions'
  <2>1. \A d \in Connections : IsLeaving(d)' <=> IsLeaving(d)
    BY DEF IInv, TypeOK, Read, IsLeaving, Goto, Reply, Discover
  <2>2. \A d \in Connections : IsLeaving(d) => req'[d].names = req[d].names
    BY DEF IInv, TypeOK, Read, IsLeaving, Goto, Reply, Discover
  <2>3. QED
    BY <2>1, <2>2, TableKept DEF IInv, Read, sessions
<1>5. LateIsRefused'
  BY DEF IInv, TypeOK, TableIsOpenSessions, LateIsOver, LateIsRefused, Read, sessions, Goto,
     Reply, Discover, NoRequest
<1>6. QED
  BY <1>1, <1>2, <1>3, <1>4, <1>5 DEF IInv

LEMMA ResetInv == ASSUME IInv, NEW c \in Connections, Reset(c) PROVE IInv'
<1>1. TypeOK'
  <2>1. req[c].body \in BOOLEAN
    BY BodyIsBoolean DEF IInv
  <2>2. left' \in [Connections -> BOOLEAN] /\ late' \in [Connections -> BOOLEAN]
    BY <2>1, FlagSet DEF IInv, TypeOK, Reset, Hangup
  <2>3. /\ pc' \in [Connections -> {"idle", "auth", "act", "reply"}]
        /\ req' \in [Connections -> AnyRequest]
        /\ answer' \in [Connections -> Answers]
    BY RequestsAreTyped DEF IInv, TypeOK, Reset, Goto, Reply, Answers, Hangup
  <2>4. QED
    BY <2>2, <2>3 DEF IInv, TypeOK, Reset, sessions
<1>2. NamesAreMinted'
  BY DEF IInv, TypeOK, NamesAreMinted, Reset, sessions, Goto, Reply, Hangup, Unusable, NoRequest
<1>3. LateIsOver'
  BY DEF IInv, TypeOK, LateIsOver, Reset, sessions, Goto, Reply, Hangup, Unusable
<1>4. TableIsOpenSessions'
  <2>1. \A d \in Connections : IsLeaving(d)' <=> IsLeaving(d)
    BY DEF IInv, TypeOK, Reset, IsLeaving, Goto, Reply, Hangup, Unusable
  <2>2. \A d \in Connections : IsLeaving(d) => req'[d].names = req[d].names
    BY DEF IInv, TypeOK, Reset, IsLeaving, Goto, Reply, Hangup, Unusable
  <2>3. QED
    BY <2>1, <2>2, TableKept DEF IInv, Reset, sessions
<1>5. LateIsRefused'
  BY DEF IInv, TypeOK, TableIsOpenSessions, LateIsOver, LateIsRefused, Reset, sessions, Goto,
     Reply, Hangup, Unusable, NoRequest
<1>6. QED
  BY <1>1, <1>2, <1>3, <1>4, <1>5 DEF IInv

LEMMA OtherInv == ASSUME IInv, NEW c \in Connections, Other(c) PROVE IInv'
<1>1. TypeOK'
  <2>1. req[c].body \in BOOLEAN
    BY BodyIsBoolean DEF IInv
  <2>2. left' \in [Connections -> BOOLEAN] /\ late' \in [Connections -> BOOLEAN]
    BY <2>1, FlagSet DEF IInv, TypeOK, Other
  <2>3. /\ pc' \in [Connections -> {"idle", "auth", "act", "reply"}]
        /\ req' \in [Connections -> AnyRequest]
        /\ answer' \in [Connections -> Answers]
    BY RequestsAreTyped DEF IInv, TypeOK, Other, Goto, Reply, Answers
  <2>4. QED
    BY <2>2, <2>3 DEF IInv, TypeOK, Other, sessions
<1>2. NamesAreMinted'
  BY DEF IInv, TypeOK, NamesAreMinted, Other, sessions, Goto, Reply, NoRequest
<1>3. LateIsOver'
  BY DEF IInv, TypeOK, LateIsOver, Other, sessions, Goto, Reply
<1>4. TableIsOpenSessions'
  <2>1. \A d \in Connections : IsLeaving(d)' <=> IsLeaving(d)
    BY DEF IInv, TypeOK, Other, IsLeaving, Goto, Reply
  <2>2. \A d \in Connections : IsLeaving(d) => req'[d].names = req[d].names
    BY DEF IInv, TypeOK, Other, IsLeaving, Goto, Reply
  <2>3. QED
    BY <2>1, <2>2, TableKept DEF IInv, Other, sessions
<1>5. LateIsRefused'
  BY DEF IInv, TypeOK, TableIsOpenSessions, LateIsOver, LateIsRefused, Other, sessions, Goto,
     Reply, NoRequest
<1>6. QED
  BY <1>1, <1>2, <1>3, <1>4, <1>5 DEF IInv

LEMMA ReconnectInv == ASSUME IInv, NEW c \in Connections, Reconnect(c) PROVE IInv'
<1>1. TypeOK'
  BY RequestsAreTyped DEF IInv, TypeOK, Reconnect, sessions, Goto, Reply, Answers
<1>2. NamesAreMinted'
  BY DEF IInv, TypeOK, NamesAreMinted, Reconnect, sessions, Goto, Reply, NoRequest
<1>3. LateIsOver'
  BY DEF IInv, TypeOK, LateIsOver, Reconnect, sessions, Goto, Reply
<1>4. TableIsOpenSessions'
  <2>1. \A d \in Connections : IsLeaving(d)' <=> IsLeaving(d)
    BY DEF IInv, TypeOK, Reconnect, IsLeaving, Goto, Reply
  <2>2. \A d \in Connections : IsLeaving(d) => req'[d].names = req[d].names
    BY DEF IInv, TypeOK, Reconnect, IsLeaving, Goto, Reply
  <2>3. QED
    BY <2>1, <2>2, TableKept DEF IInv, Reconnect, sessions
<1>5. LateIsRefused'
  BY DEF IInv, TypeOK, TableIsOpenSessions, LateIsOver, LateIsRefused, Reconnect, sessions, Goto,
     Reply, NoRequest
<1>6. QED
  BY <1>1, <1>2, <1>3, <1>4, <1>5 DEF IInv

LEMMA CreateInv ==
    ASSUME IInv, NEW c \in Connections, NEW k \in Tokens, Create(c, k)
    PROVE  IInv'
<1>1. TypeOK'
  <2>1. req' \in [Connections -> AnyRequest]
    BY DEF IInv, TypeOK, Create, AnyRequest
  <2>2. req[c].body \in BOOLEAN
    BY BodyIsBoolean DEF IInv
  <2>3. left' \in [Connections -> BOOLEAN]
    BY <2>2, FlagSet DEF IInv, TypeOK, Create
  <2>4. QED
    BY <2>1, <2>3 DEF IInv, TypeOK, Create, Goto, Reply, Mint, Answers
<1>2. NamesAreMinted'
  BY DEF IInv, TypeOK, NamesAreMinted, Create, Goto, Reply, Mint, AnyRequest
<1>3. LateIsOver'
  BY DEF IInv, TypeOK, LateIsOver, Create, AnyRequest
<1>4. TableIsOpenSessions'
  <2>1. \A d \in Connections : /\ IsLeaving(d)' <=> IsLeaving(d)
                               /\ IsLeaving(d) => req'[d].names = req[d].names
    BY DEF IInv, TypeOK, Create, IsLeaving, Goto, Reply, AnyRequest
  <2>2. Leaving' = Leaving
    BY <2>1 DEF Leaving, IsLeaving
  <2>3. k \notin over /\ k \notin Leaving
    BY TokensAssumption DEF IInv, NamesAreMinted, Create, Mint, Leaving
  <2>4. QED
    BY <2>2, <2>3 DEF IInv, TableIsOpenSessions, Create, Mint
<1>5. LateIsRefused'
  BY DEF IInv, TypeOK, LateIsRefused, Create, Goto, Reply, AnyRequest
<1>6. QED
  BY <1>1, <1>2, <1>3, <1>4, <1>5 DEF IInv

LEMMA DeleteInv == ASSUME IInv, NEW c \in Connections, Delete(c) PROVE IInv'
<1>1. TypeOK'
  BY DEF IInv, TypeOK, Delete, Goto, Reply, Revoke, Answers
<1>2. NamesAreMinted'
  BY DEF IInv, NamesAreMinted, Delete, Goto, Reply, TypeOK
<1>3. LateIsOver'
  BY DEF IInv, LateIsOver, Delete
<1>4. TableIsOpenSessions'
  <2>1. \A d \in Connections : IsLeaving(d)' <=> IsLeaving(d) \/ d = c
    BY DEF IInv, TypeOK, Delete, IsLeaving, Goto, Reply
  <2>2. Leaving' = Leaving \cup {req[c].names}
    BY <2>1 DEF Leaving, IsLeaving, Delete
  <2>3. QED
    BY <2>2 DEF IInv, TableIsOpenSessions, Delete, Revoke
<1>5. LateIsRefused'
  BY DEF IInv, TypeOK, LateIsRefused, Delete, Goto, Reply
<1>6. QED
  BY <1>1, <1>2, <1>3, <1>4, <1>5 DEF IInv

\* The client of a login learns its token, that of a logout that its token is over.
LEMMA DeliverInv == ASSUME IInv, NEW c \in Connections, Deliver(c) PROVE IInv'
<1>1. TypeOK'
  <2>1. known' \subseteq Tokens /\ over' \subseteq Tokens
    BY DEF IInv, TypeOK, NamesAreMinted, Deliver
  <2>2. left' \in [Connections -> BOOLEAN] /\ late' \in [Connections -> BOOLEAN]
    BY DEF IInv, TypeOK, Deliver, Finished, Close
  <2>3. /\ pc' \in [Connections -> {"idle", "auth", "act", "reply"}]
        /\ req' \in [Connections -> AnyRequest]
        /\ answer' \in [Connections -> Answers]
    BY RequestsAreTyped DEF IInv, TypeOK, Deliver, Finished, Goto, Answers
  <2>4. QED
    BY <2>1, <2>2, <2>3 DEF IInv, TypeOK, Deliver
<1>2. NamesAreMinted'
  BY DEF IInv, TypeOK, NamesAreMinted, Deliver, Finished, Goto, NoRequest
<1>3. LateIsOver'
  BY DEF IInv, TypeOK, LateIsOver, Deliver, Finished
<1>4. TableIsOpenSessions'
  <2>1. \A d \in Connections : IsLeaving(d)' <=> IsLeaving(d) /\ d # c
    BY DEF IInv, TypeOK, Deliver, Finished, IsLeaving, Goto
  <2>2. \A d \in Connections : d # c => req'[d] = req[d]
    BY DEF IInv, TypeOK, Deliver, Finished
  <2>3. \A k \in minted : k \in over' \cup Leaving' <=> k \in over \cup Leaving
    <3>1. \A k : k \in Leaving' <=> \E d \in Connections : IsLeaving(d)' /\ req'[d].names = k
      BY DEF Leaving, IsLeaving
    <3>2. \A k : k \in Leaving' <=>
             \E d \in Connections : IsLeaving(d) /\ d # c /\ req[d].names = k
      BY <2>1, <2>2, <3>1
    <3>3. over' = IF IsLeaving(c) THEN over \cup ({req[c].names} \ {NoToken}) ELSE over
      BY DEF Deliver, IsLeaving, Goto
    <3>4. NoToken \notin minted
      BY TokensAssumption DEF IInv, TypeOK
    <3>5. QED
      BY <3>2, <3>3, <3>4, LeavingIsNames
  <2>4. QED
    BY <2>3 DEF IInv, TableIsOpenSessions, Deliver
<1>5. LateIsRefused'
  BY DEF IInv, TypeOK, LateIsRefused, Deliver, Finished, Goto
<1>6. QED
  BY <1>1, <1>2, <1>3, <1>4, <1>5 DEF IInv

LEMMA CrashInv == ASSUME IInv, Crash PROVE IInv'
<1>1. TypeOK'
  BY RequestsAreTyped DEF IInv, TypeOK, Crash, Answers
<1>2. NamesAreMinted' /\ LateIsOver' /\ LateIsRefused'
  BY DEF IInv, NamesAreMinted, LateIsOver, LateIsRefused, Crash, NoRequest
<1>3. TableIsOpenSessions'
  BY DEF TableIsOpenSessions, Leaving, Crash
<1>4. QED
  BY <1>1, <1>2, <1>3 DEF IInv

LEMMA RestartInv == ASSUME IInv, Restart PROVE IInv'
  BY DEF IInv, TypeOK, NamesAreMinted, LateIsOver, TableIsOpenSessions, LateIsRefused, Leaving,
     Restart

LEMMA Inductive == IInv /\ [Next]_vars => IInv'
<1> SUFFICES ASSUME IInv, [Next]_vars PROVE IInv'
  OBVIOUS
<1>1. ASSUME NEW c \in Connections, NEW r \in Requests, Receive(c, r) PROVE IInv'
  BY <1>1, ReceiveInv
<1>2. ASSUME NEW c \in Connections, Serve(c) PROVE IInv'
  BY <1>2, AuthenticateInv, ReadInv, ResetInv, OtherInv, CreateInv, DeleteInv, DeliverInv
     DEF Serve
<1>3. ASSUME NEW c \in Connections, Reconnect(c) PROVE IInv'
  BY <1>3, ReconnectInv
<1>4. CASE Crash \/ Restart
  BY <1>4, CrashInv, RestartInv
<1>5. CASE UNCHANGED vars
  BY <1>5 DEF vars, IInv, TypeOK, NamesAreMinted, LateIsOver, TableIsOpenSessions, LateIsRefused,
     Leaving
<1>6. QED
  BY <1>1, <1>2, <1>3, <1>4, <1>5 DEF Next

LEMMA Invariance == Spec => []IInv
<1>1. Init => IInv
  BY InitIInv
<1>2. IInv /\ [Next]_vars => IInv'
  BY Inductive
<1>3. QED
  BY <1>1, <1>2, PTL DEF Spec

\* The session table and the connections keep their types.
THEOREM TypeCorrect == Spec => []TypeOK
<1>1. IInv => TypeOK
  BY DEF IInv
<1>2. QED
  BY <1>1, Invariance, PTL

\* However many clients log in and out at once, and whenever the process dies, the
\* table holds exactly the tokens that were handed out and not taken back.
THEOREM NoSessionLost == Spec => []TableIsOpenSessions
<1>1. IInv => TableIsOpenSessions
  BY DEF IInv
<1>2. QED
  BY <1>1, Invariance, PTL

\* A token whose logout was answered, or that a dead process had issued, opens
\* nothing to a request that comes in afterwards.
THEOREM LateTokensRefused == Spec => []LateIsRefused
<1>1. IInv => LateIsRefused
  BY DEF IInv
<1>2. QED
  BY <1>1, Invariance, PTL

-----------------------------------------------------------------------------
(* The role and the process it installs.                                   *)

Started == proc \in {"certificate", "newkey", "bind", "up"}

\* What the run has installed at each task.
DeployInstalled ==
    /\ run \notin {"idle", "failed", "code"} => code = want
    /\ run \notin {"idle", "failed", "code", "conf"} => conf = want
    /\ Checking => ~notified

\* A process that is behind what is installed is owed a restart, or was.
DeployRestartOwed ==
    Started /\ ~notified /\ ~lost => ran = [code |-> code, conf |-> conf]

\* A restart after the end of the role keeps to the password.
DeployPassword == run = "done" /\ Started => PasswordOf[ran.conf] = PasswordOf[want]

DeployIInv == DeployTypeOK /\ DeployInstalled /\ DeployRestartOwed /\ DeployPassword

USE DEF files, service, play, Started, Checking, Running, Advance

LEMMA DeployInitIInv == DeployInit => DeployIInv
<1> SUFFICES ASSUME DeployInit PROVE DeployIInv
  OBVIOUS
<1>1. DeployTypeOK
  BY DEF DeployInit, DeployTypeOK, Tasks, Makers
<1>2. DeployInstalled /\ DeployRestartOwed /\ DeployPassword
  BY DEF DeployInit, DeployInstalled, DeployRestartOwed, DeployPassword
<1>3. QED
  BY <1>1, <1>2 DEF DeployIInv

LEMMA DeployMakeTnfInv == ASSUME DeployIInv, MakeTnf PROVE DeployIInv'
  BY DEF DeployIInv, DeployTypeOK, Tasks, Makers, DeployInstalled, DeployRestartOwed,
     DeployPassword, MakeTnf

LEMMA DeployCopyShimInv == ASSUME DeployIInv, CopyShim PROVE DeployIInv'
<1>1. DeployTypeOK'
  <2>1. notified' \in BOOLEAN /\ lost' \in BOOLEAN
    BY DEF DeployIInv, DeployTypeOK, CopyShim
  <2>2. QED
    BY <2>1 DEF DeployIInv, DeployTypeOK, CopyShim, Tasks, Makers
<1>2. DeployInstalled' /\ DeployRestartOwed' /\ DeployPassword'
  BY DEF DeployIInv, DeployInstalled, DeployRestartOwed, DeployPassword, CopyShim
<1>3. QED
  BY <1>1, <1>2 DEF DeployIInv

LEMMA DeployWriteConfigInv == ASSUME DeployIInv, WriteConfig PROVE DeployIInv'
<1>1. DeployTypeOK'
  <2>1. notified' \in BOOLEAN /\ lost' \in BOOLEAN
    BY DEF DeployIInv, DeployTypeOK, WriteConfig
  <2>2. QED
    BY <2>1 DEF DeployIInv, DeployTypeOK, WriteConfig, Tasks, Makers
<1>2. DeployInstalled' /\ DeployRestartOwed' /\ DeployPassword'
  BY DEF DeployIInv, DeployInstalled, DeployRestartOwed, DeployPassword, WriteConfig
<1>3. QED
  BY <1>1, <1>2 DEF DeployIInv

LEMMA DeployGenerateKeyInv == ASSUME DeployIInv, GenerateKey PROVE DeployIInv'
  BY DEF DeployIInv, DeployTypeOK, Tasks, Makers, DeployInstalled, DeployRestartOwed,
     DeployPassword, GenerateKey

LEMMA DeployGenerateCertInv == ASSUME DeployIInv, GenerateCert PROVE DeployIInv'
  BY DEF DeployIInv, DeployTypeOK, Tasks, Makers, DeployInstalled, DeployRestartOwed,
     DeployPassword, GenerateCert

LEMMA DeployOwnCertificateInv == ASSUME DeployIInv, OwnCertificate PROVE DeployIInv'
  BY DEF DeployIInv, DeployTypeOK, Tasks, Makers, DeployInstalled, DeployRestartOwed,
     DeployPassword, OwnCertificate

LEMMA DeployStartShimInv == ASSUME DeployIInv, StartShim PROVE DeployIInv'
  BY DEF DeployIInv, DeployTypeOK, Tasks, Makers, DeployInstalled, DeployRestartOwed,
     DeployPassword, StartShim

LEMMA DeployFlushInv == ASSUME DeployIInv, Flush PROVE DeployIInv'
<1>1. DeployTypeOK'
  <2>1. notified' \in BOOLEAN /\ lost' \in BOOLEAN
    BY DEF DeployIInv, DeployTypeOK, Flush
  <2>2. proc' \in {"absent", "down", "exit", "certificate", "newkey", "bind", "up"}
    BY DEF DeployIInv, DeployTypeOK, Flush
  <2>3. QED
    BY <2>1, <2>2 DEF DeployIInv, DeployTypeOK, Flush, Tasks, Makers
<1>2. DeployInstalled'
  BY DEF DeployIInv, DeployInstalled, Flush
<1>3. DeployRestartOwed'
  BY DEF DeployIInv, DeployRestartOwed, Flush
<1>4. DeployPassword'
  BY DEF DeployIInv, DeployInstalled, DeployPassword, Flush
<1>5. QED
  BY <1>1, <1>2, <1>3, <1>4 DEF DeployIInv

LEMMA DeployWaitForShimInv == ASSUME DeployIInv, WaitForShim PROVE DeployIInv'
  BY DEF DeployIInv, DeployTypeOK, Tasks, Makers, DeployInstalled, DeployRestartOwed,
     DeployPassword, WaitForShim

LEMMA DeployConfirmSystemsInv == ASSUME DeployIInv, ConfirmSystems PROVE DeployIInv'
  BY DEF DeployIInv, DeployTypeOK, Tasks, Makers, DeployInstalled, DeployRestartOwed,
     DeployPassword, ConfirmSystems

LEMMA DeployVerifyCredentialsInv == ASSUME DeployIInv, VerifyCredentials PROVE DeployIInv'
  BY DEF DeployIInv, DeployTypeOK, Tasks, Makers, DeployInstalled, DeployRestartOwed,
     DeployPassword, VerifyCredentials

LEMMA DeployDieInv == ASSUME DeployIInv, Die PROVE DeployIInv'
<1>1. DeployTypeOK'
  <2>1. notified' \in BOOLEAN /\ lost' \in BOOLEAN
    BY DEF DeployIInv, DeployTypeOK, Die, EndPlay
  <2>2. QED
    BY <2>1 DEF DeployIInv, DeployTypeOK, Die, EndPlay, Tasks, Makers
<1>2. DeployInstalled' /\ DeployRestartOwed' /\ DeployPassword'
  BY DEF DeployIInv, DeployInstalled, DeployRestartOwed, DeployPassword, Die, EndPlay
<1>3. QED
  BY <1>1, <1>2 DEF DeployIInv

LEMMA DeployFailInv == ASSUME DeployIInv, Fail PROVE DeployIInv'
<1>1. DeployTypeOK'
  <2>1. notified' \in BOOLEAN /\ lost' \in BOOLEAN
    BY DEF DeployIInv, DeployTypeOK, Fail, EndPlay
  <2>2. QED
    BY <2>1 DEF DeployIInv, DeployTypeOK, Fail, EndPlay, Tasks, Makers
<1>2. DeployInstalled' /\ DeployRestartOwed' /\ DeployPassword'
  BY DEF DeployIInv, DeployInstalled, DeployRestartOwed, DeployPassword, Fail, EndPlay
<1>3. QED
  BY <1>1, <1>2 DEF DeployIInv

LEMMA DeployLoadInv == ASSUME DeployIInv, Load PROVE DeployIInv'
<1>1. DeployTypeOK'
  <2>1. notified' \in BOOLEAN /\ lost' \in BOOLEAN
    BY DEF DeployIInv, DeployTypeOK, Load
  <2>2. ran' \in [code : Settings \cup {Nothing}, conf : Settings \cup {Nothing}]
    BY DEF DeployIInv, DeployTypeOK, Load
  <2>3. proc' \in {"absent", "down", "exit", "certificate", "newkey", "bind", "up"}
    BY DEF Load
  <2>4. QED
    BY <2>1, <2>2, <2>3 DEF DeployIInv, DeployTypeOK, Load
<1>2. DeployInstalled'
  BY DEF DeployIInv, DeployInstalled, Load
<1>3. DeployRestartOwed'
  BY DEF DeployIInv, DeployRestartOwed, Load
<1>4. DeployPassword'
  BY DEF DeployIInv, DeployInstalled, DeployPassword, Load
<1>5. QED
  BY <1>1, <1>2, <1>3, <1>4 DEF DeployIInv

LEMMA DeployEnsureKeyInv == ASSUME DeployIInv, EnsureKey PROVE DeployIInv'
<1>1. DeployTypeOK'
  <2>1. owned' \subseteq {"key", "cert"}
    BY DEF DeployIInv, DeployTypeOK, EnsureKey, BothExist
  <2>2. QED
    BY <2>1 DEF DeployIInv, DeployTypeOK, EnsureKey, BothExist, Tasks, Makers
<1>2. DeployInstalled' /\ DeployRestartOwed' /\ DeployPassword'
  BY DEF DeployIInv, DeployInstalled, DeployRestartOwed, DeployPassword, EnsureKey, BothExist
<1>3. QED
  BY <1>1, <1>2 DEF DeployIInv

LEMMA DeployEnsureCertInv == ASSUME DeployIInv, EnsureCert PROVE DeployIInv'
<1>1. DeployTypeOK'
  <2>1. owned' \subseteq {"key", "cert"}
    BY DEF DeployIInv, DeployTypeOK, EnsureCert
  <2>2. QED
    BY <2>1 DEF DeployIInv, DeployTypeOK, EnsureCert, Tasks, Makers
<1>2. DeployInstalled' /\ DeployRestartOwed' /\ DeployPassword'
  BY DEF DeployIInv, DeployInstalled, DeployRestartOwed, DeployPassword, EnsureCert
<1>3. QED
  BY <1>1, <1>2 DEF DeployIInv

LEMMA DeployListenInv == ASSUME DeployIInv, Listen PROVE DeployIInv'
  BY DEF DeployIInv, DeployTypeOK, Tasks, Makers, DeployInstalled, DeployRestartOwed,
     DeployPassword, Listen

LEMMA DeployProcessDiesInv == ASSUME DeployIInv, ProcessDies PROVE DeployIInv'
  BY DEF DeployIInv, DeployTypeOK, Tasks, Makers, DeployInstalled, DeployRestartOwed,
     DeployPassword, ProcessDies

LEMMA DeployChangeInv == ASSUME DeployIInv, Change PROVE DeployIInv'
  BY DEF DeployIInv, DeployTypeOK, Tasks, Makers, DeployInstalled, DeployRestartOwed,
     DeployPassword, Change

LEMMA DeployRemovePairInv == ASSUME DeployIInv, RemovePair PROVE DeployIInv'
  BY DEF DeployIInv, DeployTypeOK, Tasks, Makers, DeployInstalled, DeployRestartOwed,
     DeployPassword, RemovePair, BothExist

LEMMA DeployNextIInv == DeployIInv /\ [DeployNext]_deployVars => DeployIInv'
<1> SUFFICES ASSUME DeployIInv, [DeployNext]_deployVars PROVE DeployIInv'
  OBVIOUS
<1>1. CASE Task
  BY <1>1, DeployCopyShimInv, DeployWriteConfigInv, DeployGenerateKeyInv,
     DeployGenerateCertInv, DeployOwnCertificateInv, DeployStartShimInv,
     DeployFlushInv, DeployWaitForShimInv, DeployConfirmSystemsInv,
     DeployVerifyCredentialsInv, DeployFailInv DEF Task
<1>2. CASE Process
  BY <1>2, DeployLoadInv, DeployEnsureKeyInv, DeployEnsureCertInv, DeployListenInv
     DEF Process
<1>3. CASE MakeTnf \/ Die \/ ProcessDies \/ Change \/ RemovePair
  BY <1>3, DeployMakeTnfInv, DeployDieInv, DeployProcessDiesInv, DeployChangeInv,
     DeployRemovePairInv
<1>4. CASE UNCHANGED deployVars
  BY <1>4 DEF deployVars, DeployIInv, DeployTypeOK, DeployInstalled, DeployRestartOwed,
     DeployPassword
<1>5. QED
  BY <1>1, <1>2, <1>3, <1>4 DEF DeployNext

LEMMA DeployInvariance == DeploySpec => []DeployIInv
  BY DeployInitIInv, DeployNextIInv, PTL DEF DeploySpec

\* Whatever runs, starts or is up from the flush on was started from what the run
\* installed, unless a dead run owed a restart; and a run that succeeds leaves a
\* shim that takes the run's BMC password, however often it restarts.
THEOREM WhatRunsIsInstalled == DeploySpec => []RunsWhatWasInstalled
<1>1. DeployIInv => RunsWhatWasInstalled
  BY DEF DeployIInv, DeployInstalled, DeployRestartOwed, DeployPassword,
     RunsWhatWasInstalled, ChecksTestCurrent, DoneTakesThePassword
<1>2. QED
  BY <1>1, DeployInvariance, PTL
=============================================================================
