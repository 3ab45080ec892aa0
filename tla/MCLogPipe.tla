----------------------------- MODULE MCLogPipe -----------------------------
(***************************************************************************)
(* Values for the constants of LogPipe that TLC's runs use.                *)
(***************************************************************************)
EXTENDS LogPipe, TLC

Flag(dash, name, val) == [dash |-> dash, name |-> name, val |-> val]

MCWords ==
  "-l" :> Flag("-", "l", NoValue) @@ "--logs" :> Flag("--", "logs", NoValue)
  @@ "--logs=false" :> Flag("--", "logs", "false") @@ "--logs=x" :> Flag("--", "logs", "x")
  @@ "-n" :> Flag("-", "n", NoValue) @@ "--env" :> Flag("--", "env", NoValue)
  @@ "-en" :> Flag("-", "en", NoValue) @@ "-rm" :> Flag("-", "rm", NoValue)
  @@ "-p" :> Flag("-", "p", NoValue) @@ "--cgroups=all" :> Flag("--", "cgroups", "all")
  @@ "-c" :> Flag("-", "c", NoValue) @@ "--" :> Flag("--", "", NoValue) @@ "-h" :> Flag("-", "h", NoValue)
  @@ "--rm" :> Flag("--", "rm", NoValue) @@ "--rm=true" :> Flag("--", "rm", "true")
  @@ "-d" :> Flag("-", "d", NoValue) @@ "--detach" :> Flag("--", "detach", NoValue)
  @@ "-d=false" :> Flag("-", "d", "false") @@ "-dt" :> Flag("-", "dt", NoValue)
  @@ "-name" :> Flag("-", "name", NoValue) @@ "--name=b" :> Flag("--", "name", "b")
  @@ "--name-only" :> Flag("--", "name-only", NoValue) @@ "-names=c" :> Flag("-", "names", "c")
  @@ "-t" :> Flag("-", "t", NoValue) @@ "-e" :> Flag("-", "e", NoValue)

MCNameLike == {"name", "name-only", "names"}
MCLetters == "en" :> <<"-e", "-n">> @@ "dt" :> <<"-d", "-t">> @@ "rm" :> <<"-r", "-m">>
MCEnviron == <<"NOTIFY_SOCKET", "LANG">>

OwnWords == {"-l", "--logs", "--logs=false", "--logs=x", "-n", "--env", "-en", "-rm", "-p", "--cgroups=all",
             "-c", "--", "-h", "cpu", "run"}
RunWords == {"--logs=false", "-rm", "--rm", "--rm=true", "-d", "--detach", "-d=false", "-dt", "-name",
             "--name=b", "--name-only", "-names=c", "-t", "-e", "--env", "img", "sh"}

UpTo(S, n) == UNION { [1..k -> S] : k \in 0..n }

\* Every two options of systemd-docker before a short docker run, and every three
\* words of docker run after few options.
MCCommandLines ==
  { own \o <<"run">> \o run : own \in UpTo(OwnWords, 2), run \in { <<"img">>, <<"--rm", "img">>, <<"--name=b", "img">> } }
  \union { own \o <<"run">> \o run : own \in { <<>>, <<"--logs=false">> }, run \in UpTo(RunWords, 3) }
  \union { <<"run", "-name", "b">> \o run : run \in UpTo(RunWords, 3) }
  \union UpTo(OwnWords, 2)
=============================================================================
