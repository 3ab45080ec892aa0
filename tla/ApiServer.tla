----------------------------- MODULE ApiServer -----------------------------
(***************************************************************************)
(* The handlers of the docker remote API (api/server/server.go): what each *)
(* makes of a request, a set of <<parameter, value>>, and of the outcome   *)
(* of the job it runs.  A job gets an environment, a set of <<name,        *)
(* value>>, and its output is answered in one of these ways:               *)
(*   "none"    there is none, only a status                                *)
(*   "buffer"  it is collected and answered when the job is done           *)
(*   "json"    it goes to the client as it comes                           *)
(*   "raw"     the same, and is not JSON                                   *)
(*   "used"    as "json", and an error that comes late is sent in it       *)
(*   "engine"  the engine itself serves it and sends no error              *)
(*   "logs", "copy"  the handlers of that name                             *)
(***************************************************************************)
EXTENDS Integers, Sequences, FiniteSets, FiniteSetsExt

CONSTANT
  Errors  \* the errors a job may end with, each a set of words it contains

APIVERSION == <<1, 14>>

-----------------------------------------------------------------------------
(* Versions (pkg/version).                                                 *)

compareTo(me, other) ==
  LET part(v, i) == IF i <= Len(v) THEN v[i] ELSE 0
      differ == { i \in 1..(Len(me) + Len(other)) : part(me, i) # part(other, i) }
  IN  IF differ = {} THEN 0
      ELSE IF part(me, Min(differ)) > part(other, Min(differ)) THEN 1 ELSE -1

LessThan(me, other) == compareTo(me, other) = -1
GreaterThan(me, other) == compareTo(me, other) = 1
GreaterThanOrEqualTo(me, other) == compareTo(me, other) >= 0

-----------------------------------------------------------------------------
(* Requests and answers.                                                   *)

Get(q, p) == IF \E x \in q : x[1] = p THEN (CHOOSE x \in q : x[1] = p)[2] ELSE ""
Setenv(q, names) == { <<p, Get(q, p)>> : p \in names }
SetenvAs(q, names) == { <<names[p], Get(q, p)>> : p \in DOMAIN names }

Job(name, env, out, ok) == [job |-> name, env |-> env, out |-> out, ok |-> ok, same |-> "", refused |-> FALSE]
Plain(name, env) == Job(name, env, "none", 204)
Refused(h, cond) == [h EXCEPT !.refused = cond]

\* The outcomes of a job: done, or failed, having written to its output or not.
Outcomes == [ok : {TRUE}, wrote : {TRUE}, err : {{}}] \union [ok : {FALSE}, wrote : BOOLEAN, err : Errors]

Answer(status, body, json) == [status |-> status, body |-> body, json |-> json]

\* The first of these words decides.
httpError(err) ==
  Answer(IF "No such" \in err THEN 404
         ELSE IF "Bad parameter" \in err THEN 400
         ELSE IF "Conflict" \in err THEN 409
         ELSE IF "Impossible" \in err THEN 406
         ELSE IF "Wrong login/password" \in err THEN 401
         ELSE IF "hasn't been activated" \in err THEN 403
         ELSE 500, "error", FALSE)

-----------------------------------------------------------------------------
(* Containers.                                                             *)

postContainersKill(q)    == Plain("kill", Setenv(q, {"signal"}))
postContainersPause(q)   == Plain("pause", {})
postContainersUnpause(q) == Plain("unpause", {})
postContainersRestart(q) == Plain("restart", Setenv(q, {"t"}))
deleteContainers(q) ==
  Plain("delete", SetenvAs(q, [force |-> "forceRemove", v |-> "removeVolume", link |-> "removeLink"]))
postContainersStart(q) == [Plain("start", {}) EXCEPT !.same = "already"]
postContainersStop(q)  == [Plain("stop", Setenv(q, {"t"})) EXCEPT !.same = "already"]
postContainersWait(q)  == Job("wait", {}, "buffer", 200)
postContainersCreate(q) == Job("create", Setenv(q, {"name"}), "buffer", 201)
postContainersCopy(q)  == Job("container_copy", Setenv(q, {"Resource"}), "copy", 200)
getContainersExport(q) == Job("export", {}, "raw", 200)
getContainersChanges(q) == Job("container_changes", {}, "json", 200)
getContainersTop(v, q) ==
  Refused(Job("top", Setenv(q, {"ps_args"}), "json", 200), LessThan(v, <<1, 4>>))
getContainersByName(v, q) ==
  Job("container_inspect", IF LessThan(v, <<1, 12>>) THEN {<<"raw", "1">>} ELSE {}, "json", 200)
getContainersLogs(q) ==
  Refused(Job("logs", Setenv(q, {"follow", "tail", "stdout", "stderr", "timestamps"}), "logs", 200),
          Get(q, "stdout") = "" /\ Get(q, "stderr") = "")
getContainersJSON(v, q) ==
  Job("containers", Setenv(q, {"all", "size", "since", "before", "limit", "filters"}),
      IF GreaterThanOrEqualTo(v, <<1, 5>>) THEN "json" ELSE "buffer", 200)

-----------------------------------------------------------------------------
(* Images and the rest.                                                    *)

getImagesJSON(v, q) ==
  Job("images", Setenv(q, {"filters", "filter", "all"}),
      IF GreaterThanOrEqualTo(v, <<1, 7>>) THEN "json" ELSE "buffer", 200)
getImagesHistory(q) == Job("history", {}, "json", 200)
getImagesByName(v, q) ==
  Job("image_inspect", IF LessThan(v, <<1, 12>>) THEN {<<"raw", "1">>} ELSE {}, "json", 200)
getImagesSearch(q) == Job("search", Setenv(q, {"term"}), "json", 200)
getImagesGet(q)    == Job("image_export", {}, "raw", 200)
postImagesLoad(q)  == Job("load", {}, "none", 200)
postImagesTag(q)   == Job("tag", Setenv(q, {"repo", "tag", "force"}), "none", 201)
deleteImages(q)    == Job("image_delete", Setenv(q, {"force", "noprune"}), "json", 200)
postImagesPush(q)  == Job("push", Setenv(q, {"tag"}), "used", 200)
\* A tag that is not given is taken from the name of the image.
postImagesCreate(q) ==
  IF Get(q, "fromImage") # "" THEN Job("pull", Setenv(q, {"fromImage", "tag"}), "used", 200)
  ELSE Job("import", Setenv(q, {"fromSrc", "repo", "tag"}), "used", 200)
postCommit(v, q) ==
  LET pause == IF Get(q, "pause") = "" /\ GreaterThanOrEqualTo(v, <<1, 13>>) THEN "1" ELSE Get(q, "pause")
  IN  Job("commit", Setenv(q, {"container", "repo", "tag", "author", "comment", "config"})
                    \union {<<"pause", pause>>}, "buffer", 201)
postBuild(v, q) ==
  LET new == GreaterThanOrEqualTo(v, <<1, 12>>)
      rm  == IF new /\ (Get(q, "forcerm") = "1" \/ Get(q, "rm") = "") THEN "1" ELSE Get(q, "rm")
  IN  Refused(Job("build", Setenv(q, {"remote", "t", "q", "nocache", "forcerm"}) \union {<<"rm", rm>>}, "used", 200),
              LessThan(v, <<1, 3>>))
getEvents(q)  == Job("events", Setenv(q, {"since", "until"}), "json", 200)
getVersion(q) == Job("version", {}, "engine", 200)
getInfo(q)    == Job("info", {}, "engine", 200)

-----------------------------------------------------------------------------
(* From the outcome of the job to the answer.                              *)

\* streamJSON, and job.Stdout.Add(w): once output has been sent the status is
\* 200 and the error is text behind it.
Streamed(h, o) ==
  IF o.ok THEN Answer(200, "done", h.out # "raw")
  ELSE IF o.wrote THEN Answer(200, "garbled", h.out # "raw") ELSE httpError(o.err)

\* The same with !job.Stdout.Used() and FormatError.
Used(o) ==
  IF o.ok THEN Answer(200, "done", TRUE)
  ELSE IF o.wrote THEN Answer(200, "told", TRUE) ELSE httpError(o.err)

ServeHTTP(o) == Answer(200, IF o.ok THEN "done" ELSE "garbled", TRUE)

\* The container is looked up first; then "Error running logs job" is part of
\* the log.
LogsAnswer(o) ==
  IF {"No such", "container"} \subseteq o.err /\ ~o.wrote THEN httpError(o.err)
  ELSE Answer(200, IF o.ok THEN "done" ELSE "garbled", FALSE)

CopyAnswer(o) ==
  IF o.ok THEN Answer(200, "done", FALSE)
  ELSE IF o.wrote THEN Answer(200, "garbled", FALSE)
  ELSE IF {"No such", "container"} \subseteq o.err THEN Answer(404, "empty", FALSE)
  ELSE IF "no such file or directory" \in o.err THEN httpError({"other"})
  ELSE Answer(200, "empty", FALSE)

AnswerOf(h, o) ==
  CASE h.out = "engine" -> ServeHTTP(o)
    [] h.out = "logs"   -> LogsAnswer(o)
    [] h.out = "copy"   -> CopyAnswer(o)
    [] h.out = "used"   -> Used(o)
    [] h.out \in {"json", "raw"} -> Streamed(h, o)
    [] h.out = "none" /\ h.same # "" /\ h.same \in o.err -> Answer(304, "empty", FALSE)
    [] OTHER -> IF o.ok THEN Answer(h.ok, IF h.out = "buffer" THEN "done" ELSE "empty", h.out = "buffer")
                ELSE httpError(o.err)

\* makeHttpHandler and the checks the handlers begin with.
Rejects(v, h) == GreaterThan(v, APIVERSION) \/ h.refused
Reject(v, h) ==
  IF GreaterThan(v, APIVERSION) THEN Answer(404, "error", FALSE)
  ELSE httpError(IF h.out = "logs" THEN {"Bad parameter"} ELSE {"other"})
=============================================================================
