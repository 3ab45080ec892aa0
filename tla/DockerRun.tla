----------------------------- MODULE DockerRun -----------------------------
(***************************************************************************)
(* docker run, docker start -a and docker attach (api/client/commands.go), *)
(* with the goroutine that hijacks a connection for the container's        *)
(* streams (hijack.go), the one that forwards signals, and the daemon.     *)
(* Each command of Cmds has a container of its own; they may share the     *)
(* file of --cidfile.                                                      *)
(***************************************************************************)
EXTENDS Integers, Sequences, FiniteSets, SequencesExt

CONSTANTS
  Cmds,        \* the commands
  Scenarios,   \* what is run, and in which circumstances
  Codes,       \* exit codes of a container
  Signals,     \* signals the user sends
  Unsupported  \* those SignalMap does not know

None == "none"
Failed == "error"
NoCode == "-1"

Kinds == {"run", "start", "attach", "none"}
Flags == {"tty", "in", "out", "rm", "cid", "sig", "term"}

\* What can go wrong: a request, the dial of the hijack, the image is not there,
\* somebody removes the container.
AllFaults == {"call", "dial", "image", "rm"}

ASSUME CodesAssumption == "0" \in Codes /\ {None, Failed, NoCode} \intersect Codes = {}
ASSUME CmdsAssumption == Cmds \intersect {"absent", "empty"} = {}
ASSUME UnsupportedAssumption == Unsupported \subseteq Signals
ASSUME ScenariosAssumption ==
  \A s \in Scenarios :
    /\ s.kind \in [Cmds -> Kinds] /\ s.flags \in [Cmds -> SUBSET Flags]
    /\ s.faults \subseteq AllFaults /\ s.maxSignals \in Nat
    /\ \A r \in Cmds : s.kind[r] # "run" =>
         s.flags[r] \intersect {"rm", "cid"} = {} /\ "out" \in s.flags[r]

VARIABLES
  scene,     \* the scenario
  pc, ret,   \* the command's own goroutine and what it returns
  hijacked,  \* the channel: "open", "sending" (a closer), "taken", "closed"
  errCh,     \* the channel of utils.Go: "none", "nil" or "error"
  hj,        \* the goroutine in hijack(): "none", "dial", "ask", "started", "copy", "end", "fail", "gone"
  conn,      \* its connection: "none", "asked", "answered", "attached", "ended", "closed"
  receiveStdout, sendStdin,  \* its goroutines: "none", "copy", "done"
  input,     \* the standard input: "silent", "ended"
  sigc, sent,    \* signals in the channel; history: all of them
  box,       \* the container
  image,     \* the image is there
  file       \* the cidfile: "absent", "empty" or the command whose id it holds

cli == <<scene, pc, ret>>
chans == <<hijacked, errCh>>
streams == <<hj, conn, receiveStdout, sendStdin, input>>
sigs == <<sigc, sent>>
vars == <<cli, chans, streams, sigs, box, image, file>>

kind == scene.kind
flags == scene.flags

\* got: the signals it received; wrote, seen: its output and whether it arrived
NoBox == [state |-> "none", code |-> "0", wrote |-> FALSE, seen |-> FALSE, got |-> <<>>]

Init ==
  /\ scene \in Scenarios
  /\ pc = [r \in Cmds |-> CASE kind[r] = "run" -> "stat" [] kind[r] = "none" -> "done"
                             [] OTHER -> "inspect"]
  /\ ret = [r \in Cmds |-> IF kind[r] = "none" THEN "0" ELSE None]
  /\ hijacked = [r \in Cmds |-> "open"] /\ errCh = [r \in Cmds |-> None]
  /\ hj = [r \in Cmds |-> None] /\ conn = [r \in Cmds |-> None]
  /\ receiveStdout = [r \in Cmds |-> None] /\ sendStdin = [r \in Cmds |-> None]
  /\ input = [r \in Cmds |-> "silent"]
  /\ sigc = [r \in Cmds |-> <<>>] /\ sent = [r \in Cmds |-> <<>>]
  /\ box = [r \in Cmds |-> [NoBox EXCEPT !.state =
              CASE kind[r] = "start" -> "exited" [] kind[r] = "attach" -> "running" [] OTHER -> "none"]]
  /\ image \in BOOLEAN /\ ("image" \notin scene.faults => image)
  /\ file = "absent"

At(r, l) == pc[r] = l
Is(r, f) == f \in flags[r]
Attached(r) == Is(r, "in") \/ Is(r, "out")
Proxies(r) == ~Is(r, "tty") /\ (kind[r] = "start" \/ Is(r, "sig"))
Caught(r) == Proxies(r) /\ pc[r] \in {"select", "start", "errCh", "wait", "exit", "delete"}
Goes(r, l) == pc' = [pc EXCEPT ![r] = l] /\ UNCHANGED <<scene, ret>>
Returns(r, v) ==   \* on to the deferred calls
  /\ pc' = [pc EXCEPT ![r] = "defers"] /\ ret' = [ret EXCEPT ![r] = v]
  /\ UNCHANGED scene
Becomes(r, s) == box' = [box EXCEPT ![r].state = s]
CallFails(r) == "call" \in scene.faults /\ Returns(r, Failed)

\* A signal SignalMap does not know is sent as no signal at all, and the server
\* then runs the job without one: SIGKILL.
SentAs(s) == IF s \in Unsupported THEN "KILL" ELSE s

KillBox(r, s) ==
  IF s = "CHLD" \/ box[r].state # "running" THEN UNCHANGED box
  ELSE box' = [box EXCEPT ![r].got = Append(@, SentAs(s))]

-----------------------------------------------------------------------------
(* Slips: what a plausible mistake would do.                               *)

\* The exit code is taken from the inspection, as with a terminal.
AfterStreamsInspects(r) == IF Is(r, "rm") THEN "wait" ELSE "exit"

\* The file is removed when the creation fails, not in a deferred call.
FinishKeepsFile(r) ==
  /\ At(r, "finish") /\ Goes(r, "done")
  /\ kind[r] = "run" /\ box[r].state # "none" => hijacked[r] = "closed"
  /\ UNCHANGED <<chans, streams, sigs, box, image, file>>

\* The closer is not closed when docker run returns.
CloseNot(r) ==
  /\ At(r, "defers") /\ Goes(r, "finish")
  /\ UNCHANGED <<chans, streams, sigs, box, image, file>>

\* A goroutine for each signal.
ForwardAny(r) ==
  \E i \in 1..Len(sigc[r]) :
    /\ sigc' = [sigc EXCEPT ![r] = RemoveAt(@, i)]
    /\ KillBox(r, sigc[r][i])
    /\ UNCHANGED <<cli, chans, streams, sent, image, file>>

-----------------------------------------------------------------------------
(* CmdRun up to the hijack.                                                *)

\* os.Stat, then os.Create, which truncates.
CidStat(r) ==
  /\ At(r, "stat")
  /\ IF Is(r, "cid") /\ file # "absent"
     THEN pc' = [pc EXCEPT ![r] = "done"] /\ ret' = [ret EXCEPT ![r] = Failed] /\ UNCHANGED scene
     ELSE Goes(r, "cidCreate")
  /\ UNCHANGED <<chans, streams, sigs, box, image, file>>

CidCreate(r) ==
  /\ At(r, "cidCreate") /\ Goes(r, "create")
  /\ file' = IF Is(r, "cid") THEN "empty" ELSE file
  /\ UNCHANGED <<chans, streams, sigs, box, image>>

Create(r) ==
  /\ pc[r] \in {"create", "retry"}
  /\ \/ image /\ Becomes(r, "created") /\ Goes(r, "cid")
     \/ ~image /\ At(r, "create") /\ Goes(r, "pull") /\ UNCHANGED box   \* 404
     \/ ~image /\ At(r, "retry") /\ Returns(r, Failed) /\ UNCHANGED box
     \/ CallFails(r) /\ UNCHANGED box
  /\ UNCHANGED <<chans, streams, sigs, image, file>>

PullImage(r) ==
  /\ At(r, "pull")
  /\ \/ image' = TRUE /\ Goes(r, "retry")
     \/ CallFails(r) /\ UNCHANGED image
  /\ UNCHANGED <<chans, streams, sigs, box, file>>

\* The id is written; the signals are caught and the goroutine is started.
CidWrite(r) ==
  /\ At(r, "cid") /\ Goes(r, "select")
  /\ file' = IF Is(r, "cid") THEN r ELSE file
  /\ IF Attached(r)
     THEN hj' = [hj EXCEPT ![r] = "dial"] /\ UNCHANGED hijacked
     ELSE hijacked' = [hijacked EXCEPT ![r] = "closed"] /\ UNCHANGED hj
  /\ UNCHANGED <<errCh, conn, receiveStdout, sendStdin, input, sigs, box, image>>

\* Acknowledge the hijack before starting.
Select(r) ==
  /\ At(r, "select")
  /\ \/ hijacked[r] = "sending" /\ hijacked' = [hijacked EXCEPT ![r] = "taken"]
        /\ Goes(r, "start") /\ UNCHANGED errCh
     \/ hijacked[r] = "closed" /\ Goes(r, "start") /\ UNCHANGED chans
     \/ errCh[r] # None /\ errCh' = [errCh EXCEPT ![r] = None] /\ UNCHANGED hijacked
        /\ IF errCh[r] = Failed THEN Returns(r, Failed) ELSE Goes(r, "start")
  /\ UNCHANGED <<streams, sigs, box, image, file>>

-----------------------------------------------------------------------------
(* CmdStart and CmdAttach up to the hijack.                                *)

Inspect(r) ==
  /\ At(r, "inspect")
  /\ \/ CallFails(r) /\ UNCHANGED hj
     \/ /\ box[r].state = "gone" \/ (kind[r] = "attach" /\ box[r].state # "running")
        /\ Returns(r, Failed) /\ UNCHANGED hj
     \/ /\ box[r].state # "gone" /\ (kind[r] = "attach" => box[r].state = "running")
        /\ hj' = [hj EXCEPT ![r] = "dial"]
        /\ Goes(r, IF kind[r] = "attach" THEN "errCh" ELSE "start")
  /\ UNCHANGED <<chans, conn, receiveStdout, sendStdin, input, sigs, box, image, file>>

-----------------------------------------------------------------------------
(* From the start of the container to the end of the command.              *)

\* POST /start
Started(r) ==
  /\ box[r].state \in {"created", "exited"}
  /\ \E c \in Codes : box' = [box EXCEPT ![r].state = "running", ![r].code = c]
  /\ Goes(r, "errCh")

NotStarted(r) == (box[r].state = "gone" \/ "call" \in scene.faults) /\ UNCHANGED box

Start(r) ==
  /\ At(r, "start") /\ kind[r] = "run"
  /\ Started(r) \/ (NotStarted(r) /\ Returns(r, Failed))
  /\ UNCHANGED <<chans, streams, sigs, image, file>>

\* After a failure cli.in.Close(), which may be too late for a read that has begun,
\* and then the wait for the streams all the same.
CmdStart(r) ==
  /\ At(r, "start") /\ kind[r] = "start"
  /\ \/ Started(r) /\ UNCHANGED input
     \/ /\ NotStarted(r)
        /\ pc' = [pc EXCEPT ![r] = "errCh"] /\ ret' = [ret EXCEPT ![r] = Failed] /\ UNCHANGED scene
        /\ \/ input' = [input EXCEPT ![r] = "ended"]
           \/ sendStdin[r] = "copy" /\ UNCHANGED input
  /\ UNCHANGED <<chans, hj, conn, receiveStdout, sendStdin, sigs, image, file>>

\* Where CmdRun goes once the streams have ended.
AfterStreams(r) == IF Is(r, "rm") THEN "wait" ELSE IF Is(r, "tty") THEN "exit" ELSE "waitExit"

WaitStreams(r) ==
  /\ At(r, "errCh")
  /\ Attached(r) => errCh[r] # None
  /\ errCh' = [errCh EXCEPT ![r] = None]
  /\ IF errCh[r] = Failed \/ ret[r] = Failed THEN Returns(r, Failed)
     ELSE CASE kind[r] = "attach" -> Goes(r, "exit")
            [] kind[r] = "start" \/ ~Is(r, "out") -> Returns(r, "0")
            [] OTHER -> Goes(r, AfterStreams(r))
  /\ UNCHANGED <<hijacked, streams, sigs, box, image, file>>

\* POST /wait, for the code or before the removal.
WaitForExit(r) ==
  /\ pc[r] \in {"wait", "waitExit"}
  /\ \/ /\ box[r].state = "exited"
        /\ IF At(r, "wait") THEN Goes(r, "exit") ELSE Returns(r, box[r].code)
     \/ box[r].state = "gone" /\ Returns(r, Failed)
     \/ CallFails(r)
  /\ UNCHANGED <<chans, streams, sigs, box, image, file>>

\* The state of a container that has just died says that it runs, with code 0; a
\* refused connection is no error and no code.
CodeTold(r) ==
  (IF box[r].state # "gone" THEN {IF box[r].state = "exited" THEN box[r].code ELSE "0"} ELSE {})
  \union (IF "call" \in scene.faults THEN {NoCode} ELSE {})

GetExitCode(r) ==
  /\ At(r, "exit")
  /\ \/ \E code \in CodeTold(r) :
          IF Is(r, "rm") THEN pc' = [pc EXCEPT ![r] = "delete"] /\ ret' = [ret EXCEPT ![r] = code]
                              /\ UNCHANGED scene
          ELSE Returns(r, code)
     \/ box[r].state = "gone" /\ Returns(r, Failed)
     \/ CallFails(r)
  /\ UNCHANGED <<chans, streams, sigs, box, image, file>>

Delete(r) ==
  /\ At(r, "delete")
  /\ \/ box[r].state = "exited" /\ Becomes(r, "gone") /\ Returns(r, ret[r])
     \/ box[r].state = "gone" /\ Returns(r, Failed) /\ UNCHANGED box
     \/ CallFails(r) /\ UNCHANGED box
  /\ UNCHANGED <<chans, streams, sigs, image, file>>

\* closer.Close(), then the wait for the hijack to finish, then the empty file.
Close(r) ==
  /\ At(r, "defers") /\ Goes(r, "finish")
  /\ conn' = [conn EXCEPT ![r] = IF hijacked[r] = "taken" THEN "closed" ELSE @]
  /\ UNCHANGED <<chans, hj, receiveStdout, sendStdin, input, sigs, box, image, file>>

Finish(r) ==
  /\ At(r, "finish") /\ Goes(r, "done")
  /\ kind[r] = "run" /\ box[r].state # "none" => hijacked[r] = "closed"
  /\ file' = IF Is(r, "cid") /\ file = "empty" THEN "absent" ELSE file
  /\ UNCHANGED <<chans, streams, sigs, box, image>>

-----------------------------------------------------------------------------
(* hijack.                                                                 *)

\* "started" is closed in a deferred call, before Go sends the error.
Dial(r) ==
  /\ hj[r] = "dial"
  /\ \/ hj' = [hj EXCEPT ![r] = "ask"] /\ conn' = [conn EXCEPT ![r] = "asked"] /\ UNCHANGED hijacked
     \/ /\ "dial" \in scene.faults
        /\ hj' = [hj EXCEPT ![r] = "fail"]
        /\ hijacked' = [hijacked EXCEPT ![r] = "closed"] /\ UNCHANGED conn
  /\ UNCHANGED <<cli, errCh, receiveStdout, sendStdin, input, sigs, box, image, file>>

\* The answer has come; CmdRun has a channel to be told, the others have none.
Hijack(r) ==
  /\ hj[r] = "ask" /\ conn[r] \in {"answered", "attached", "ended"}
  /\ IF kind[r] = "run"
     THEN /\ hj' = [hj EXCEPT ![r] = "started"]
          /\ hijacked' = [hijacked EXCEPT ![r] = "sending"]
     ELSE hj' = [hj EXCEPT ![r] = "spawn"] /\ UNCHANGED hijacked
  /\ UNCHANGED <<cli, errCh, conn, receiveStdout, sendStdin, input, sigs, box, image, file>>

Spawn(r) ==
  /\ hj[r] = "spawn" \/ (hj[r] = "started" /\ hijacked[r] = "taken")
  /\ hj' = [hj EXCEPT ![r] = "copy"]
  /\ receiveStdout' = [receiveStdout EXCEPT ![r] = IF Is(r, "out") THEN "copy" ELSE "done"]
  /\ sendStdin' = [sendStdin EXCEPT ![r] = IF Is(r, "in") THEN "copy" ELSE "done"]
  /\ UNCHANGED <<cli, chans, conn, input, sigs, box, image, file>>

\* The stream has ended.  in.Close() may come too late for a read that has begun.
ReceiveStdout(r) ==
  /\ receiveStdout[r] = "copy" /\ conn[r] \in {"ended", "closed"}
  /\ receiveStdout' = [receiveStdout EXCEPT ![r] = "done"]
  /\ input' \in {input, [input EXCEPT ![r] = "ended"]}
  /\ UNCHANGED <<cli, chans, hj, conn, sendStdin, sigs, box, image, file>>

SendStdin(r) ==
  /\ sendStdin[r] = "copy" /\ input[r] = "ended"
  /\ sendStdin' = [sendStdin EXCEPT ![r] = "done"]
  /\ UNCHANGED <<cli, chans, hj, conn, receiveStdout, input, sigs, box, image, file>>

\* A terminal does not wait for its input.
HijackEnds(r) ==
  /\ hj[r] = "copy" /\ receiveStdout[r] = "done"
  /\ Is(r, "term") \/ sendStdin[r] = "done"
  /\ hj' = [hj EXCEPT ![r] = "end"]
  /\ hijacked' = [hijacked EXCEPT ![r] = "closed"]
  /\ conn' = [conn EXCEPT ![r] = "closed"]
  /\ UNCHANGED <<cli, errCh, receiveStdout, sendStdin, input, sigs, box, image, file>>

GoSends(r) ==
  /\ hj[r] \in {"end", "fail"}
  /\ errCh' = [errCh EXCEPT ![r] = IF hj[r] = "end" THEN "nil" ELSE Failed]
  /\ hj' = [hj EXCEPT ![r] = "gone"]
  /\ UNCHANGED <<cli, hijacked, conn, receiveStdout, sendStdin, input, sigs, box, image, file>>

-----------------------------------------------------------------------------
(* forwardAllSignals, and what the user does.                              *)

Signal(r, s) ==
  /\ Caught(r) /\ Len(sent[r]) < scene.maxSignals
  /\ sigc' = [sigc EXCEPT ![r] = Append(@, s)] /\ sent' = [sent EXCEPT ![r] = Append(@, s)]
  /\ UNCHANGED <<cli, chans, streams, box, image, file>>

Forward(r) ==
  /\ sigc[r] # <<>> /\ ~At(r, "done")
  /\ sigc' = [sigc EXCEPT ![r] = Tail(@)]
  /\ KillBox(r, Head(sigc[r]))
  /\ UNCHANGED <<cli, chans, streams, sent, image, file>>

EndOfInput(r) ==
  /\ input[r] = "silent"
  /\ input' = [input EXCEPT ![r] = "ended"]
  /\ UNCHANGED <<cli, chans, hj, conn, receiveStdout, sendStdin, sigs, box, image, file>>

-----------------------------------------------------------------------------
(* The daemon (the handlers are those of api/server/server.go).            *)

\* postContainersAttach answers before it runs the job that attaches.
Answer(r) ==
  /\ conn[r] = "asked" /\ conn' = [conn EXCEPT ![r] = "answered"]
  /\ UNCHANGED <<cli, chans, hj, receiveStdout, sendStdin, input, sigs, box, image, file>>

\* A container that is still to be started is waited for, whether anybody will or not.
AttachJob(r) ==
  /\ conn[r] = "answered"
  /\ LET waiting == At(r, "start") \/ ret[r] = Failed
         over == box[r].state = "gone" \/ (box[r].state \in {"dead", "exited"} /\ ~waiting)
     IN conn' = [conn EXCEPT ![r] = IF over THEN "ended" ELSE "attached"]
  /\ UNCHANGED <<cli, chans, hj, receiveStdout, sendStdin, input, sigs, box, image, file>>

Output(r) ==
  /\ box[r].state = "running" /\ ~box[r].wrote
  /\ box' = [box EXCEPT ![r].wrote = TRUE, ![r].seen = conn[r] = "attached"]
  /\ UNCHANGED <<cli, chans, streams, sigs, image, file>>

Dies(r) ==
  /\ box[r].state = "running" /\ box[r].wrote
  /\ Becomes(r, "dead")
  /\ conn' = [conn EXCEPT ![r] = IF @ = "attached" THEN "ended" ELSE @]
  /\ UNCHANGED <<cli, chans, hj, receiveStdout, sendStdin, input, sigs, image, file>>

Recorded(r) ==
  /\ box[r].state = "dead" /\ Becomes(r, "exited")
  /\ UNCHANGED <<cli, chans, streams, sigs, image, file>>

RemovedByHand(r) ==
  /\ "rm" \in scene.faults /\ box[r].state \in {"created", "exited"}
  /\ Becomes(r, "gone")
  /\ conn' = [conn EXCEPT ![r] = IF @ = "attached" THEN "ended" ELSE @]
  /\ UNCHANGED <<cli, chans, hj, receiveStdout, sendStdin, input, sigs, image, file>>

-----------------------------------------------------------------------------
CliStep(r) ==
  \/ CidStat(r) \/ CidCreate(r) \/ Create(r) \/ PullImage(r) \/ CidWrite(r) \/ Select(r) \/ Inspect(r)
  \/ Start(r) \/ CmdStart(r) \/ WaitStreams(r) \/ WaitForExit(r) \/ GetExitCode(r) \/ Delete(r) \/ Close(r) \/ Finish(r)

HijackStep(r) == Dial(r) \/ Hijack(r) \/ Spawn(r) \/ HijackEnds(r) \/ GoSends(r)

DaemonStep(r) == Answer(r) \/ AttachJob(r) \/ Output(r) \/ Dies(r) \/ Recorded(r)

Next ==
  \E r \in Cmds :
    \/ CliStep(r) \/ HijackStep(r) \/ ReceiveStdout(r) \/ SendStdin(r) \/ Forward(r)
    \/ DaemonStep(r) \/ RemovedByHand(r) \/ EndOfInput(r)
    \/ \E s \in Signals : Signal(r, s)

Spec == Init /\ [][Next]_vars

\* Every goroutine goes on, and a container comes to its end.
FairSpec ==
  /\ Spec
  /\ \A r \in Cmds :
       WF_vars(CliStep(r)) /\ WF_vars(HijackStep(r)) /\ WF_vars(ReceiveStdout(r))
       /\ WF_vars(SendStdin(r)) /\ WF_vars(DaemonStep(r))

-----------------------------------------------------------------------------
(* Properties.                                                             *)

\* Every variable keeps to its type; what has returned has a result, and leaves
\* no hijack behind.
TypeOK ==
  /\ ret \in [Cmds -> Codes \union {None, Failed, NoCode}]
  /\ hijacked \in [Cmds -> {"open", "sending", "taken", "closed"}]
  /\ errCh \in [Cmds -> {None, "nil", Failed}]
  /\ conn \in [Cmds -> {None, "asked", "answered", "attached", "ended", "closed"}]
  /\ file \in Cmds \union {"absent", "empty"}
  /\ sigc \in [Cmds -> Seq(Signals)]
  /\ \A r \in Cmds : At(r, "done") => ret[r] # None /\ hj[r] \in {None, "end", "fail", "gone"}

\* "retrieve the exit code and remove the container" and "In non-tty mode, we
\* can't dettach, so we know we need to wait" (commands.go:2184 and :2197): a
\* docker run that has waited returns the code of the container, and with --rm,
\* when it does not fail, nothing is left of it.  Only with --rm, and when the
\* connection for the code is refused, does it return no code, -1, in its place: and
\* it removes the container even then.
RunTellsTheCode ==
  \A r \in Cmds :
    kind[r] = "run" /\ Is(r, "out") /\ At(r, "done") /\ ret[r] # Failed =>
      /\ Is(r, "rm") \/ ~Is(r, "tty") =>
           ret[r] = box[r].code \/ (Is(r, "rm") /\ ret[r] = NoCode /\ "call" \in scene.faults)
      /\ Is(r, "rm") => box[r].state = "gone"

\* The container gets the signals in the order the user sent them, however they
\* come between the steps of the start; one that has no name comes as SIGKILL.
SignalsInOrder ==
  \A r \in Cmds : \E of \in [DOMAIN box[r].got -> DOMAIN sent[r]] :
    /\ \A i, j \in DOMAIN box[r].got : i < j => of[i] < of[j]
    /\ \A i \in DOMAIN box[r].got : box[r].got[i] = SentAs(sent[r][of[i]])

\* The variables keep to their types, and no empty --cidfile is left behind by
\* commands that have come to their end.
NoEmptyCidFile ==
  /\ TypeOK
  /\ (\A r \in Cmds : At(r, "done")) => file # "empty"

\* All but the input has ended.
WaitsForInput(r) ==
  ~Is(r, "term") /\ receiveStdout[r] = "done" /\ sendStdin[r] = "copy" /\ input[r] = "silent"

\* The start was lost: the daemon holds the stream of a container that does not run.
WaitsUnheard(r) == kind[r] = "start" /\ ret[r] = Failed /\ conn[r] = "attached"

\* A command comes to an end whatever has failed: when its input does, or when it has
\* none or the terminal's.  Only a start -a whose request to start is lost waits for
\* ever (commands.go:683-687).
Ends == \A r \in Cmds : <>At(r, "done") \/ <>[]WaitsForInput(r) \/ <>[]WaitsUnheard(r)
=============================================================================
