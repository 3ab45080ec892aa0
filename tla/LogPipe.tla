------------------------------ MODULE LogPipe ------------------------------
(***************************************************************************)
(* mainWithArgs of main.go from its arguments to its end, with the         *)
(* goroutine that pipes the container's log to the journal.  How the       *)
(* container is found, moved and announced is in SystemdDocker; here it is *)
(* one step, and the log, the removal and the restarts of the unit are     *)
(* what matters.                                                           *)
(***************************************************************************)
EXTENDS ParseArgs

CONSTANTS
  CommandLines,  \* the arguments of the unit's ExecStart
  MaxLines,      \* bound on the lines a container writes
  MaxRuns,       \* bound on the starts of the unit
  Env            \* a subset of Disturbances

Disturbances ==
  { "call",   \* a call fails
    "kill",   \* systemd-docker is killed
    "hand" }  \* somebody starts or removes the container

ASSUME EnvAssumption == Env \subseteq Disturbances

ASSUME BoundsAssumption == MaxLines \in Nat /\ MaxRuns \in Nat \ {0}

VARIABLES
  args, socket,  \* os.Args and whether NOTIFY_SOCKET is set
  c,         \* the Context
  pc,        \* what mainWithArgs does next
  pipe,      \* what pipeLogs does: "none", "call", "copy", "over"
  copied,    \* the lines it has copied
  box,       \* the container: its state and the lines in its log
  journal,   \* line -> how often it is in the journal
  runs,      \* how often the unit has been started
  calm       \* history: no disturbance so far

unit == <<args, socket, c, runs>>
goroutine == <<pipe, copied>>
host == <<box, journal>>
vars == <<unit, pc, goroutine, host, calm>>

Lines == 1..MaxLines
NewBox == [state |-> "running", lines |-> 0]
NoBox == [state |-> "none", lines |-> 0]
Nowhere == [l \in Lines |-> 0]

Init ==
  /\ args \in CommandLines /\ socket \in BOOLEAN
  /\ c = NoContext
  /\ pc = "parse" /\ pipe = "none" /\ copied = 0
  /\ box = NoBox /\ journal = Nowhere
  /\ runs = 1 /\ calm = TRUE

\* The end of main ends the goroutine, wherever it is.
Ends(how) == pc' = how /\ pipe' = "none" /\ copied' = 0
Goes(l) == pc' = l /\ UNCHANGED goroutine

-----------------------------------------------------------------------------
(* Slips: what a plausible mistake would do.                               *)

\* The log is asked for with tail=0.
PipeLogsFromNow ==
  /\ pipe = "call"
  /\ pipe' = "copy" /\ copied' = box.lines
  /\ UNCHANGED <<unit, pc, host, calm>>

\* Without follow.
LogsEndUnfollowed ==
  /\ pipe = "copy" /\ copied = box.lines
  /\ pipe' = "over"
  /\ UNCHANGED <<unit, pc, copied, host, calm>>

\* The loop of keepAlive starts the goroutine.
WaitContainerPipes ==
  /\ pc = "wait" /\ box.state # "running"
  /\ pc' = "inspect"
  /\ pipe' = (IF c.Logs THEN "call" ELSE "over") /\ copied' = 0
  /\ UNCHANGED <<unit, host, calm>>

-----------------------------------------------------------------------------
(* mainWithArgs.                                                           *)

\* Of c.Args only what docker run will make of them matters from here on.
Asked(context) == LET run == DockerRun(context.Args) IN [ok |-> run.ok, detach |-> run.detach]

ParseContext ==
  /\ pc = "parse"
  /\ LET context == parseContext(args, socket)
     IN IF context.ok THEN c' = [context EXCEPT !.Args = Asked(context)] /\ Goes("run")
                      ELSE c' = NoContext /\ Goes("refused")
  /\ args' = <<>> /\ socket' = FALSE
  /\ UNCHANGED <<runs, host, calm>>

\* With --name a container that runs is taken over, and one that does not is
\* removed with --rm, or started.
TakesOver == c.Name # "" /\ (box.state = "running" \/ (box.state = "exited" /\ ~c.Rm))

RunContainer ==
  /\ pc = "run"
  /\ CASE TakesOver -> box' = [box EXCEPT !.state = "running"] /\ UNCHANGED journal /\ Goes("notify")
       [] ~TakesOver /\ ~c.Args.ok -> UNCHANGED host /\ Ends("failed")
       [] OTHER -> box' = NewBox /\ journal' = Nowhere /\ Goes(IF c.Args.detach THEN "notify" ELSE "output")
  /\ UNCHANGED <<unit, calm>>

\* docker run stays in the foreground, and what the container writes is taken for
\* its id.
OutputEnds ==
  /\ pc = "output" /\ box.state # "running"
  /\ Ends("failed")
  /\ UNCHANGED <<unit, host, calm>>

\* moveCgroups, notify and pidFile, which fail when the container has ended in
\* the wrong moment; go pipeLogs(c).
Notify ==
  /\ pc = "notify"
  /\ \/ /\ pc' = "inspect"
        /\ pipe' = IF c.Logs THEN "call" ELSE "over"
        /\ copied' = 0
     \/ /\ box.state # "running"
        /\ Ends("failed")
  /\ UNCHANGED <<unit, host, calm>>

KeepAlive ==
  /\ pc = "inspect"
  /\ CASE ~(c.Logs \/ c.Rm)        -> Goes("rm")
       [] box.state = "running"    -> Goes("wait")
       [] box.state = "exited"     -> Goes("rm")
       [] OTHER                    -> Ends("failed")
  /\ UNCHANGED <<unit, host, calm>>

\* The error of WaitContainer is ignored.
WaitContainer ==
  /\ pc = "wait" /\ box.state # "running"
  /\ Goes("inspect")
  /\ UNCHANGED <<unit, host, calm>>

RmContainer ==
  /\ pc = "rm"
  /\ IF c.Rm /\ box.state = "none" THEN Ends("failed") ELSE Ends("done")
  /\ box' = IF c.Rm THEN [box EXCEPT !.state = "none"] ELSE box
  /\ UNCHANGED <<unit, journal, calm>>

\* A call to docker or to the kernel fails: most end the program.
CallFails ==
  /\ "call" \in Env
  /\ IF pc = "wait" THEN Goes("inspect") ELSE pc \in {"run", "notify", "inspect", "rm"} /\ Ends("failed")
  /\ calm' = FALSE
  /\ UNCHANGED <<unit, host>>

-----------------------------------------------------------------------------
(* pipeLogs, whose error nobody looks at.                                  *)

\* GET /containers/(id)/logs with follow and tail=all.
PipeLogs ==
  /\ pipe = "call"
  /\ pipe' = IF box.state = "none" THEN "over" ELSE "copy"
  /\ UNCHANGED <<unit, pc, copied, host, calm>>

LogsFail ==
  /\ "call" \in Env
  /\ pipe \in {"call", "copy"}
  /\ pipe' = "over" /\ calm' = FALSE
  /\ UNCHANGED <<unit, pc, copied, host>>

CopyLine ==
  /\ pipe = "copy" /\ copied < box.lines
  /\ copied' = copied + 1
  /\ journal' = [journal EXCEPT ![copied + 1] = @ + 1]
  /\ UNCHANGED <<unit, pc, pipe, box, calm>>

\* The stream ends with the container, or is cut by its removal.
LogsEnd ==
  /\ pipe = "copy" /\ box.state # "running"
  /\ copied = box.lines \/ box.state = "none"
  /\ pipe' = "over"
  /\ UNCHANGED <<unit, pc, copied, host, calm>>

-----------------------------------------------------------------------------
(* The container, systemd and people.                                      *)

WriteLine ==
  /\ box.state = "running" /\ box.lines < MaxLines
  /\ box' = [box EXCEPT !.lines = @ + 1]
  /\ UNCHANGED <<unit, pc, goroutine, journal, calm>>

Exit ==
  /\ box.state = "running"
  /\ box' = [box EXCEPT !.state = "exited"]
  /\ UNCHANGED <<unit, pc, goroutine, journal, calm>>

\* The container may or may not be in the unit's cgroup already.
Kill ==
  /\ "kill" \in Env /\ pc \notin {"parse", "refused", "done", "failed"}
  /\ Ends("failed")
  /\ box' = box \/ (box.state = "running" /\ box' = [box EXCEPT !.state = "exited"])
  /\ calm' = FALSE
  /\ UNCHANGED <<unit, journal>>

\* Restart=always, once the main process, which may be the container's, is gone.
Restart ==
  /\ \/ pc = "failed"
     \/ pc = "done" /\ box.state # "running"
  /\ runs < MaxRuns
  /\ runs' = runs + 1
  /\ Goes("run")
  /\ UNCHANGED <<args, socket, c, host, calm>>

ByHand ==
  /\ "hand" \in Env
  /\ \/ box.state = "exited" /\ box' = [box EXCEPT !.state = "running"]
     \/ box.state # "none" /\ box' = [box EXCEPT !.state = "none"]
  /\ calm' = FALSE
  /\ UNCHANGED <<unit, pc, goroutine, journal>>

Main == RunContainer \/ OutputEnds \/ Notify \/ KeepAlive \/ WaitContainer \/ RmContainer
Pipe == PipeLogs \/ CopyLine \/ LogsEnd

Next == ParseContext \/ Main \/ CallFails \/ Pipe \/ LogsFail \/ WriteLine \/ Exit \/ Kill \/ Restart \/ ByHand

Spec == Init /\ [][Next]_vars

\* The goroutine gets its turn.
FairSpec == Spec /\ WF_vars(Pipe)

-----------------------------------------------------------------------------
(* Properties.                                                             *)

\* Every variable keeps to its type; the goroutine runs only beside keepAlive and
\* rmContainer.
TypeOK ==
  /\ pc \in {"parse", "refused", "run", "output", "notify", "inspect", "wait", "rm", "done", "failed"}
  /\ pipe \in {"none", "call", "copy", "over"} /\ (pipe # "none" <=> pc \in {"inspect", "wait", "rm"})
  /\ copied \in 0..MaxLines /\ runs \in 1..MaxRuns /\ calm \in BOOLEAN
  /\ box \in [state : {"none", "running", "exited"}, lines : 0..MaxLines]
  /\ journal \in [Lines -> 0..MaxRuns]

\* What is looked for in the command line of docker run is looked for in all of
\* it.  As long as --rm, -d and all words that begin with -name or --name are options
\* there, and no part of the container's command or another option's value, and --rm
\* and -d go without =, docker run is asked for what it would have been without
\* systemd-docker, but detached and without --rm, which is systemd-docker's own, and
\* the name that systemd-docker looks for is the one docker run gives.
Special(w) == IsRm(w) \/ IsDetach(w) \/ IsName(w)
            \/ <<Word(w).dash, Word(w).name>> \in {<<"-", "rm">>, <<"--", "rm">>, <<"-", "d">>, <<"--", "detach">>}

AsOptions(runArgs, asked) ==
  /\ \A i \in DOMAIN asked.command : ~Special(asked.command[i])
  /\ \A i \in DOMAIN asked.set : ~Special(asked.set[i].val)
  /\ \A i \in DOMAIN runArgs : Special(runArgs[i]) => IsRm(runArgs[i]) \/ IsDetach(runArgs[i]) \/ IsName(runArgs[i])

OtherOptions(read) == SelectSeq(read.set, LAMBDA s : s.var \notin {"Rm", "Detach"})

\* What comes behind run is docker's: none of it, not even an option of the same
\* name, changes what systemd-docker itself does (main_test.go:87 and :107).
RunEndsOptions(context, own) ==
  context.ok => \A f \in {"Logs", "Notify", "Env", "PidFile", "Cgroups", "AllCgroups"} : context[f] = own[f]

AsAsked(context, runArgs, asked, run) ==
  context.ok /\ ~context.Env /\ asked.read /\ AsOptions(runArgs, asked) =>
    /\ run.ok /\ run.detach
    /\ run.command = asked.command /\ OtherOptions(run) = OtherOptions(asked)
    /\ context.Rm = asked.rm /\ context.Name = asked.name

\* The command line is understood as its user meant it, on both sides of run.
RunUnderstood ==
  pc = "parse" =>
    LET own == ParseOwn(args)
        run == Tail(own.args)
        before == SubSeq(args, 1, Len(args) - Len(run))
    IN /\ AsAsked(ContextOf(own, FALSE), run, DockerRun(run), DockerRun(ContextOf(own, FALSE).Args))
       /\ RunEndsOptions(ContextOf(own, socket), parseContext(before, socket))

\* The variables keep to their types, and no line is missing before one that is in
\* the journal, however late the log is asked for, and whatever fails: only the
\* end of a log can be lost.
OnlyTheEndIsLost ==
  /\ TypeOK
  /\ \A l \in Lines : l > 1 => journal[l - 1] >= journal[l]

\* With --rm, or without a name, no line is there twice as long as nothing fails
\* and nobody interferes: the log is asked for once in a container's life.
LinesOnce ==
  calm /\ c.ok => (c.Rm \/ c.Name = "" => \A l \in Lines : journal[l] <= 1)

\* "By default the container's stdout/stderr will be piped to the journal"
\* (README.md:61): a line that is there while systemd-docker looks after the
\* container arrives, unless a call fails or the program ends first.
Piped ==
  \A l \in Lines :
    pc \in {"inspect", "wait"} /\ c.Logs /\ box.lines >= l
      ~> journal[l] > 0 \/ ~calm \/ pc \in {"done", "failed"}
=============================================================================
