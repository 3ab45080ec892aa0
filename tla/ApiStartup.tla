----------------------------- MODULE ApiStartup -----------------------------
(***************************************************************************)
(* How the daemon's API gets its listeners (api/server/server.go): the job *)
(* serveapi starts a goroutine for each address, which makes the socket    *)
(* and serves it, and the job acceptconnections, which the daemon runs     *)
(* when the rest of it is installed, opens the lock they wait for.         *)
(***************************************************************************)
EXTENDS Naturals, Sequences, FiniteSets

CONSTANTS
  Fd, Unix, Tcp,    \* the addresses of each protocol
  BufferRequests,   \* the job's option: connections are accepted and held back
  ServeApiFirst     \* whether serveapi has set the lock before acceptconnections runs

ASSUME StartupAssumption ==
  BufferRequests \in BOOLEAN /\ ServeApiFirst \in BOOLEAN /\ (Fd \union Unix \union Tcp) # {}

Addrs == Fd \union Unix \union Tcp

\* An address has one protocol.
ASSUME ProtocolAssumption ==
  IsFiniteSet(Addrs) /\ Fd \intersect Unix = {} /\ Fd \intersect Tcp = {} /\ Unix \intersect Tcp = {}

VARIABLES
  lock,      \* activationLock: "nil", "made" or "closed"
  at,        \* where each listener's goroutine is
  umask,     \* of the process: "normal" or "0777"
  oldmask,   \* a local of each ListenAndServe
  chErrors,  \* the addresses whose goroutine has returned, with an error always
  serveapi,  \* the job: "no", "running", "error"
  installed, \* the daemon has run acceptconnections
  ready      \* READY=1 has been sent

apiVars == <<lock, at, umask, oldmask, chErrors, serveapi, installed, ready>>

ApiInit ==
  /\ lock = "nil" /\ at = [a \in Addrs |-> "none"] /\ umask = "normal"
  /\ oldmask = [a \in Addrs |-> "normal"] /\ chErrors = <<>>
  /\ serveapi = "no" /\ installed = FALSE /\ ready = FALSE

Move(a, to) == at' = [at EXCEPT ![a] = to]

\* A call of ListenAndServe or ServeFd fails, and the error is sent; the channel
\* has room for all of them.
Fails(a) ==
  /\ Move(a, "over") /\ chErrors' = Append(chErrors, a)
  /\ UNCHANGED <<lock, umask, oldmask, serveapi, installed, ready>>

-----------------------------------------------------------------------------
(* Slips: what a plausible mistake would do.                               *)

\* The sockets that came from systemd are served at once.
ServeFdAtOnce(a) ==
  /\ a \in Fd /\ at[a] = "wait" /\ Move(a, "serving")
  /\ UNCHANGED <<lock, umask, oldmask, chErrors, serveapi, installed, ready>>

\* The results are taken in the order of the addresses.
TakeErrorInOrder ==
  /\ serveapi = "running" /\ chErrors # <<>>
  /\ Head(chErrors) = CHOOSE a \in Addrs : TRUE
  /\ serveapi' = "error" /\ chErrors' = Tail(chErrors)
  /\ UNCHANGED <<lock, at, umask, oldmask, installed, ready>>

-----------------------------------------------------------------------------
(* The jobs.                                                               *)

ServeApi ==
  /\ serveapi = "no"
  /\ serveapi' = "running" /\ lock' = "made"
  /\ at' = [a \in Addrs |-> "begin"]
  /\ UNCHANGED <<umask, oldmask, chErrors, installed, ready>>

\* The first goroutine that returns ends the job.
TakeError ==
  /\ serveapi = "running" /\ chErrors # <<>>
  /\ serveapi' = "error" /\ chErrors' = Tail(chErrors)
  /\ UNCHANGED <<lock, at, umask, oldmask, installed, ready>>

AcceptConnections ==
  /\ ~installed /\ (ServeApiFirst => lock # "nil")
  /\ installed' = TRUE
  /\ lock' = IF lock = "nil" THEN "nil" ELSE "closed"
  /\ UNCHANGED <<at, umask, oldmask, chErrors, serveapi, ready>>

\* go systemd.SdNotify("READY=1")
SdNotify ==
  /\ installed /\ ~ready /\ ready' = TRUE
  /\ UNCHANGED <<lock, at, umask, oldmask, chErrors, serveapi, installed>>

-----------------------------------------------------------------------------
(* One goroutine.                                                          *)

\* The router, and for a socket of systemd's ListenFD, for a path Unlink.
Begin(a) ==
  /\ at[a] = "begin"
  /\ \/ /\ Move(a, CASE a \in Fd -> "wait" [] a \in Unix -> "mask" [] OTHER -> "listen")
        /\ UNCHANGED <<lock, umask, oldmask, chErrors, serveapi, installed, ready>>
     \/ Fails(a)

Mask(a) ==
  /\ at[a] = "mask" /\ Move(a, "listen")
  /\ oldmask' = [oldmask EXCEPT ![a] = umask] /\ umask' = "0777"
  /\ UNCHANGED <<lock, chErrors, serveapi, installed, ready>>

\* net.Listen or NewListenBuffer; its error is looked at after the mask.
Listen(a) ==
  /\ at[a] = "listen"
  /\ \E ok \in BOOLEAN :
       Move(a, CASE a \in Unix -> (IF ok THEN "unmask" ELSE "unmaskFailed") [] OTHER -> (IF ok THEN "secure" ELSE "failed"))
  /\ UNCHANGED <<lock, umask, oldmask, chErrors, serveapi, installed, ready>>

Unmask(a) ==
  /\ at[a] \in {"unmask", "unmaskFailed"}
  /\ Move(a, IF at[a] = "unmask" THEN "secure" ELSE "failed")
  /\ umask' = oldmask[a]
  /\ UNCHANGED <<lock, oldmask, chErrors, serveapi, installed, ready>>

Failed(a) == at[a] = "failed" /\ Fails(a)

\* The certificates, or the group and the mode of the socket.
Secure(a) ==
  /\ at[a] = "secure"
  /\ \/ /\ Move(a, IF BufferRequests THEN "held" ELSE "serving")
        /\ UNCHANGED <<lock, umask, oldmask, chErrors, serveapi, installed, ready>>
     \/ Fails(a)

\* The first Accept of a listener that holds connections back.
Accept(a) ==
  /\ at[a] = "held" /\ lock = "closed" /\ Move(a, "serving")
  /\ UNCHANGED <<lock, umask, oldmask, chErrors, serveapi, installed, ready>>

\* <-activationLock: one that is nil is waited for for ever.
ServeFd(a) ==
  /\ a \in Fd /\ at[a] = "wait" /\ lock = "closed" /\ Move(a, "serving")
  /\ UNCHANGED <<lock, umask, oldmask, chErrors, serveapi, installed, ready>>

\* Serve returns when the listener fails.
Serve(a) == at[a] = "serving" /\ Fails(a)

Step(a) == Begin(a) \/ Mask(a) \/ Listen(a) \/ Unmask(a) \/ Failed(a) \/ Secure(a) \/ Accept(a) \/ ServeFd(a)
ApiNext ==
  \/ ServeApi \/ TakeError \/ AcceptConnections \/ SdNotify
  \/ \E a \in Addrs : Step(a) \/ Serve(a)

\* Goroutines run, and the daemon gets installed; a listener need not fail.
ApiFairness ==
  /\ WF_apiVars(ServeApi) /\ WF_apiVars(TakeError) /\ WF_apiVars(AcceptConnections) /\ WF_apiVars(SdNotify)
  /\ \A a \in Addrs : WF_apiVars(Step(a))

ApiSpec == ApiInit /\ [][ApiNext]_apiVars /\ ApiFairness

-----------------------------------------------------------------------------
(* Properties.                                                             *)

ApiTypeOK ==
  /\ lock \in {"nil", "made", "closed"} /\ umask \in {"normal", "0777"}
  /\ at \in [Addrs -> {"none", "begin", "mask", "listen", "unmask", "unmaskFailed", "failed", "secure", "held", "wait", "serving", "over"}]
  /\ oldmask \in [Addrs -> {"normal", "0777"}] /\ Len(chErrors) <= Cardinality(Addrs)
  /\ serveapi \in {"no", "running", "error"} /\ installed \in BOOLEAN /\ ready \in BOOLEAN

\* The variables keep to their types.  A socket of systemd's, or one that holds
\* connections back, is served only when the daemon is installed and its handlers
\* are there (server.go:1197).
NotBeforeInstalled ==
  /\ ApiTypeOK
  /\ \A a \in Addrs : at[a] = "serving" /\ (a \in Fd \/ BufferRequests) => installed

\* A listener that cannot be made, or fails later, ends serveapi while the others
\* wait or serve; "close the lock so the listeners start accepting connections"
\* (server.go:1374): once installed, every listener that is waiting gets to serve.
\* The process gets its file mode mask back, whatever fails, with one path to
\* listen on.
ServedOrTold ==
  /\ \A a \in Addrs : at[a] = "over" ~> serveapi = "error"
  /\ \A a \in Addrs : installed /\ at[a] \in {"wait", "held"} ~> at[a] = "serving"
  /\ umask = "0777" ~> umask = "normal"
=============================================================================
