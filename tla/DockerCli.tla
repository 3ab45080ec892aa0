----------------------------- MODULE DockerCli -----------------------------
(***************************************************************************)
(* The commands of the docker client (api/client/commands.go) against the  *)
(* handlers of the server: what a command makes of its options and of the  *)
(* answers, one request after the other.  docker run, start -a and attach  *)
(* are in DockerRun; login and the credentials others send are left out.   *)
(***************************************************************************)
EXTENDS ApiServer

CONSTANTS
  Commands,  \* the commands there are
  Names,     \* sequences of arguments
  Versions,  \* versions of the API a client asks for
  Rooted,    \* the repositories without a user in their name
  Published  \* the ports that a container publishes

None == [status |-> 0, body |-> "none", json |-> FALSE]

Options ==  \* the options of each command
  [ stop |-> {"time"}, restart |-> {"time"}, kill |-> {"signal"}, start |-> {}, pause |-> {}, unpause |-> {},
    wait |-> {}, rm |-> {"volumes", "link", "force"}, rmi |-> {"force", "no-prune"}, inspect |-> {}, top |-> {"ps_args"},
    port |-> {}, history |-> {}, import |-> {"repo"}, push |-> {"tag"}, pull |-> {"tag"},
    images |-> {"all", "filter", "tree", "name"}, ps |-> {"all", "size", "latest", "since", "before", "n", "filter"},
    commit |-> {"pause=false", "message", "author", "repo", "run"}, events |-> {"since", "until"}, export |-> {}, diff |-> {},
    logs |-> {"follow", "timestamps", "tail"}, search |-> {}, tag |-> {"force", "tag"}, cp |-> {}, save |-> {}, load |-> {},
    build |-> {"tag", "quiet", "no-cache", "rm=false", "force-rm", "remote"}, version |-> {}, info |-> {}, run |-> {"name"} ]

ASSUME CommandsAssumption == Commands \subseteq DOMAIN Options

\* Every command has the arguments it needs.
ASSUME NamesAssumption == \A a \in Names : a \in Seq(STRING \ {""}) /\ a # <<>>

VARIABLES
  cmd, args, opts, version,
  todo,     \* the steps that are left
  answer,   \* the answer that has come and has not been read, or "none"
  exit,     \* "" while it runs, "ok" or "error"
  failed,   \* encounteredError
  printed,  \* the arguments printed as done
  jobs      \* history: the jobs that were run, with their outcome

vars == <<cmd, args, opts, version, todo, answer, exit, failed, printed, jobs>>

-----------------------------------------------------------------------------
(* A step is a request to a handler and the way its answer is read:        *)
(*   "body"    readBody(call), of which only the error matters             *)
(*   "env"     call, and one object is decoded                             *)
(*   "list"    readBody(call) and ReadListFrom                             *)
(*   "json"    readBody(call) and json.Indent                              *)
(*   "output"  readBody(call), written to an Output with AddEnv            *)
(*   "stream"  stream: messages if the answer is JSON, else copied         *)
(*   "untar"   call and archive.Untar                                      *)
(* and then says what is next when it fails.                               *)

Step(h, read) == [h |-> h, read |-> read, arg |-> "", next |-> "stop"]
One(h, read) == <<Step(h, read)>>
\* Slip: the first name that fails ends the command.
EachStops(names, h, read) ==
  [i \in 1..Len(names) |-> [Step(h, read) EXCEPT !.arg = names[i], !.next = "stop"]]

\* for _, name := range cmd.Args(), with encounteredError
Each(names, h, read) ==
  [i \in 1..Len(names) |-> [Step(h, read) EXCEPT !.arg = names[i], !.next = "continue"]]

Set(o, name, param, value) == IF name \in o THEN {<<param, value>>} ELSE {}
Val(o, name, value, default) == IF name \in o THEN value ELSE default

CmdStop(o, a)    == Each(a, postContainersStop({<<"t", Val(o, "time", "1", "10")>>}), "body")
CmdRestart(o, a) == Each(a, postContainersRestart({<<"t", Val(o, "time", "1", "10")>>}), "body")
CmdKill(o, a)    == Each(a, postContainersKill({<<"signal", Val(o, "signal", "HUP", "KILL")>>}), "body")
CmdStart(o, a)   == Each(a, postContainersStart({}), "body")
CmdPause(o, a)   == Each(<<a[1]>>, postContainersPause({}), "body")
CmdUnpause(o, a) == Each(<<a[1]>>, postContainersUnpause({}), "body")
CmdWait(o, a)    == Each(a, postContainersWait({}), "env")
CmdRm(o, a) ==
  Each(a, deleteContainers(Set(o, "volumes", "v", "1") \union Set(o, "link", "link", "1") \union Set(o, "force", "force", "1")), "body")
CmdRmi(o, a) == Each(a, deleteImages(Set(o, "force", "force", "1") \union Set(o, "no-prune", "noprune", "1")), "list")

\* For each name a container, and if there is none an image.
CmdInspect(v, o, a) ==
  [i \in 1..(2 * Len(a)) |->
     IF i % 2 = 1 THEN [Step(getContainersByName(v, {}), "json") EXCEPT !.arg = a[(i + 1) \div 2], !.next = "else"]
     ELSE [Step(getImagesByName(v, {}), "json") EXCEPT !.arg = a[i \div 2], !.next = "continue"]]

CmdTop(v, o)     == One(getContainersTop(v, Set(o, "ps_args", "ps_args", "aux")), "env")
CmdPort(v, o)    == One(getContainersByName(v, {}), "env")
CmdDiff(o)       == One(getContainersChanges({}), "list")
CmdExport(o)     == One(getContainersExport({}), "stream")
CmdLogs(v, o) ==
  One(getContainersByName(v, {}), "env")
  \o One(getContainersLogs({<<"stdout", "1">>, <<"stderr", "1">>, <<"tail", Val(o, "tail", "5", "all")>>}
           \union Set(o, "timestamps", "timestamps", "1") \union Set(o, "follow", "follow", "1")), "stream")
CmdCp(o)         == One(postContainersCopy({<<"Resource", "path">>}), "untar")
CmdPs(v, o) ==
  LET limit == IF "n" \in o THEN {<<"limit", "3">>} ELSE Set(o, "latest", "limit", "1")
  IN  One(getContainersJSON(v, limit \union Set(o, "all", "all", "1") \union Set(o, "since", "since", "x")
            \union Set(o, "before", "before", "x") \union Set(o, "size", "size", "1") \union Set(o, "filter", "filters", "x")), "list")

CmdHistory(o)    == One(getImagesHistory({}), "list")
CmdSearch(o)     == One(getImagesSearch({<<"term", "x">>}), "list")
CmdSave(o)       == One(getImagesGet({}), "stream")
CmdLoad(o)       == One(postImagesLoad({}), "stream")
CmdTag(o)        == One(postImagesTag({<<"repo", "x">>} \union Set(o, "tag", "tag", "x") \union Set(o, "force", "force", "1")), "body")
CmdImport(o)     == One(postImagesCreate({<<"fromSrc", "x">>} \union Set(o, "repo", "repo", "x")), "stream")
CmdPush(o)       == One(postImagesPush(Set(o, "tag", "tag", "x")), "stream")
\* The tag of the option is set when it is empty.
CmdPull(o)       == One(postImagesCreate({<<"fromImage", "x">>}), "stream")
CmdImages(v, o) ==
  One(getImagesJSON(v, Set(o, "filter", "filters", "x")
        \union (IF "tree" \in o THEN {<<"all", "1">>} ELSE Set(o, "all", "all", "1") \union Set(o, "name", "filter", "x"))), "list")
CmdCommit(v, o) ==
  One(postCommit(v, {<<"container", "x">>} \union Set(o, "repo", "repo", "x") \union Set(o, "message", "comment", "x")
        \union Set(o, "author", "author", "x") \union Set(o, "pause=false", "pause", "0") \union Set(o, "run", "config", "x")), "env")
\* Slip: the option is read after the query has been made.
CmdBuildEarly(v, o) == One(postBuild(v, {<<"rm", Val(o, "rm=false", "0", "1")>>}), "stream")

CmdBuild(v, o) ==
  One(postBuild(v, {<<"rm", Val(o, "rm=false", "0", "1")>>} \union Set(o, "tag", "t", "x") \union Set(o, "quiet", "q", "1")
        \union Set(o, "remote", "remote", "x") \union Set(o, "no-cache", "nocache", "1") \union Set(o, "force-rm", "forcerm", "1")), "stream")
CmdEvents(o)     == One(getEvents(Set(o, "since", "since", "x") \union Set(o, "until", "until", "x")), "stream")
CmdVersion(o)    == One(getVersion({}), "output")
CmdInfo(o)       == One(getInfo({}), "output")
\* The creation in CmdRun: a 404 is taken for an image that is not there.
CmdRun(o) ==
  <<[Step(postContainersCreate(Set(o, "name", "name", "x")), "env") EXCEPT !.next = "pull"]>>
  \o One(postImagesCreate({<<"fromImage", "x">>, <<"tag", "latest">>}), "stream")
  \o One(postContainersCreate(Set(o, "name", "name", "x")), "env")

StepsOf(c, v, o, a) ==
  CASE c = "stop" -> CmdStop(o, a) [] c = "restart" -> CmdRestart(o, a) [] c = "kill" -> CmdKill(o, a)
    [] c = "start" -> CmdStart(o, a) [] c = "pause" -> CmdPause(o, a) [] c = "unpause" -> CmdUnpause(o, a)
    [] c = "wait" -> CmdWait(o, a) [] c = "rm" -> CmdRm(o, a) [] c = "rmi" -> CmdRmi(o, a)
    [] c = "inspect" -> CmdInspect(v, o, a) [] c = "top" -> CmdTop(v, o) [] c = "port" -> CmdPort(v, o)
    [] c = "diff" -> CmdDiff(o) [] c = "export" -> CmdExport(o) [] c = "logs" -> CmdLogs(v, o)
    [] c = "cp" -> CmdCp(o) [] c = "ps" -> CmdPs(v, o) [] c = "history" -> CmdHistory(o)
    [] c = "search" -> CmdSearch(o) [] c = "save" -> CmdSave(o) [] c = "load" -> CmdLoad(o)
    [] c = "tag" -> CmdTag(o) [] c = "import" -> CmdImport(o) [] c = "push" -> CmdPush(o)
    [] c = "pull" -> CmdPull(o) [] c = "images" -> CmdImages(v, o) [] c = "commit" -> CmdCommit(v, o)
    [] c = "build" -> CmdBuild(v, o) [] c = "events" -> CmdEvents(o) [] c = "version" -> CmdVersion(o)
    [] c = "info" -> CmdInfo(o) [] c = "run" -> CmdRun(o)

\* The errors of the client itself, with nothing amiss: docker push of a root
\* repository, before the request, and docker port of a port that is not published,
\* once the container has been inspected.
RootRepository == cmd = "push" /\ args[1] \in Rooted
NoPublicPort == cmd = "port" /\ args[2] \notin Published

-----------------------------------------------------------------------------
(* Slips: what a plausible mistake would do.                               *)

\* The error in the stream of messages is displayed, not returned.
GarbledUntold(read, a) ==
  read \in {"env", "list", "json", "untar"} /\ a.body \in {"garbled", "empty"}

-----------------------------------------------------------------------------
(* call, readBody, stream.                                                 *)

CallFails(a) == a.status \notin 200..399

\* What is wrong with the body of an answer whose status is good.
Garbled(read, a) ==
  \/ read \in {"env", "list", "json"} /\ a.body \in {"garbled", "empty"}
  \/ read = "stream" /\ a.json /\ a.body \in {"garbled", "told"}
  \/ read = "untar" /\ a.body = "garbled"

Init ==
  /\ cmd \in Commands /\ args \in Names /\ version \in Versions
  /\ opts \in SUBSET Options[cmd]
  /\ todo = StepsOf(cmd, version, opts, args)
  /\ answer = None /\ exit = "" /\ failed = FALSE /\ printed = <<>> /\ jobs = <<>>

Ran(job, env, o) == [job |-> job, arg |-> Head(todo).arg, env |-> env, o |-> o]
Lost == [ok |-> FALSE, wrote |-> FALSE, err |-> {}]

Serve(o) ==
  /\ exit = "" /\ todo # <<>> /\ answer = None /\ ~RootRepository
  /\ LET h == Head(todo).h IN
     IF Rejects(version, h)
     THEN answer' = Reject(version, h) /\ jobs' = Append(jobs, Ran("none", {}, Lost))
     ELSE answer' = AnswerOf(h, o) /\ jobs' = Append(jobs, Ran(h.job, h.env, o))
  /\ UNCHANGED <<cmd, args, opts, version, todo, exit, failed, printed>>

\* The daemon cannot be reached.
Unreachable ==
  /\ exit = "" /\ todo # <<>> /\ answer = None /\ ~RootRepository
  /\ answer' = Answer(-1, "error", FALSE)
  /\ jobs' = Append(jobs, Ran("none", {}, Lost))
  /\ UNCHANGED <<cmd, args, opts, version, todo, exit, failed, printed>>

ReadError ==
  LET s == Head(todo) bad == CallFails(answer) IN
  /\ answer # None /\ (bad \/ Garbled(s.read, answer))
  /\ answer' = None
  /\ \/ s.next = "continue" /\ failed' = TRUE /\ todo' = Tail(todo) /\ UNCHANGED exit
     \/ s.next = "else" /\ bad /\ todo' = Tail(todo) /\ UNCHANGED <<exit, failed>>
     \/ s.next = "else" /\ ~bad /\ failed' = TRUE /\ todo' = Tail(Tail(todo)) /\ UNCHANGED exit
     \/ s.next = "pull" /\ answer.status = 404 /\ todo' = Tail(todo) /\ UNCHANGED <<exit, failed>>
     \/ /\ s.next = "stop" \/ (s.next = "pull" /\ answer.status # 404)
        /\ exit' = "error" /\ UNCHANGED <<todo, failed>>
  /\ UNCHANGED <<cmd, args, opts, version, printed, jobs>>

ReadOk ==
  LET s == Head(todo) IN
  /\ answer # None /\ ~CallFails(answer) /\ ~Garbled(s.read, answer) /\ ~NoPublicPort
  /\ answer' = None
  /\ printed' = IF s.arg = "" THEN printed ELSE Append(printed, s.arg)
  /\ todo' = CASE s.next = "pull" -> <<>> [] s.next = "else" -> Tail(Tail(todo)) [] OTHER -> Tail(todo)
  /\ UNCHANGED <<cmd, args, opts, version, exit, failed, jobs>>

\* The command fails for a reason of its own.
Refuse ==
  /\ \/ exit = "" /\ RootRepository
     \/ answer # None /\ ~CallFails(answer) /\ ~Garbled(Head(todo).read, answer) /\ NoPublicPort
  /\ answer' = None /\ exit' = "error"
  /\ UNCHANGED <<cmd, args, opts, version, todo, failed, printed, jobs>>

Finish ==
  /\ exit = "" /\ todo = <<>> /\ answer = None
  /\ exit' = IF failed THEN "error" ELSE "ok"
  /\ UNCHANGED <<cmd, args, opts, version, todo, answer, failed, printed, jobs>>

Next == (\E o \in Outcomes : Serve(o)) \/ Unreachable \/ ReadError \/ ReadOk \/ Refuse \/ Finish

Spec == Init /\ [][Next]_vars

-----------------------------------------------------------------------------
(* Properties.                                                             *)

\* Every variable keeps to its type, and no command sends more requests than it has.
TypeOK ==
  /\ cmd \in Commands /\ opts \subseteq Options[cmd] /\ exit \in {"", "ok", "error"}
  /\ failed \in BOOLEAN /\ printed \in Seq(STRING)
  /\ Len(jobs) <= Len(StepsOf(cmd, version, opts, args))

Done(j) == j.o.ok \/ (j.job \in {"start", "stop"} /\ "already" \in j.o.err)
LastFor(i) == \A j \in DOMAIN jobs : jobs[j].arg = jobs[i].arg => j <= i

\* What these print is not JSON, or is not told from an error (engine/http.go:35).
Unsure == {"export", "save", "logs", "cp", "version", "info"}

\* The variables keep to their types, and the exit status is true.  A command that
\* succeeds has done what it was asked to: an error of a job, of
\* the first name or the last, before its output or behind it, is an error of the
\* command; a container that is already started, or stopped, is none.  A command fails only if
\* something has failed, or what it was asked for is a root repository or a port
\* that is not published, and with these it never succeeds.
StatusTold ==
  /\ TypeOK
  /\ exit = "ok" /\ cmd \notin Unsure => \A i \in DOMAIN jobs : LastFor(i) => Done(jobs[i])
  /\ exit = "ok" => ~RootRepository /\ ~NoPublicPort
  /\ exit = "error" => RootRepository \/ NoPublicPort \/ \E i \in DOMAIN jobs : ~Done(jobs[i])

Several == {"stop", "restart", "kill", "start", "wait", "rm", "rmi"}

\* A command with several names tries each of them once, whatever became of those
\* before, and prints the ones it has done, in their order.
EachTried ==
  exit # "" /\ cmd \in Several =>
    /\ [i \in DOMAIN jobs |-> jobs[i].arg] = args
    /\ \E of \in [DOMAIN printed -> { i \in DOMAIN jobs : Done(jobs[i]) }] :
         /\ \A i, j \in DOMAIN printed : i < j => of[i] < of[j]
         /\ \A i \in DOMAIN printed : printed[i] = args[of[i]]
         /\ \A k \in DOMAIN jobs : Done(jobs[k]) => \E i \in DOMAIN printed : of[i] = k

\* A command that has succeeded has asked for something else than it asks for
\* without its options.
OptionsReach ==
  exit = "ok" /\ opts # {} /\ cmd # "pull" =>
    LET default == StepsOf(cmd, version, {}, args)
    IN  \E i \in 1..Len(jobs) : jobs[i].env # default[i].h.env
=============================================================================
