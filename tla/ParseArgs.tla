----------------------------- MODULE ParseArgs -----------------------------
(***************************************************************************)
(* parseContext and setupEnvironment of main.go, with the flag package     *)
(* they use (docker/pkg/mflag) and what docker run itself makes of the     *)
(* command line it is given.  The words of a command line are strings;     *)
(* Words takes them apart.                                                 *)
(***************************************************************************)
EXTENDS Integers, SequencesExt, TLC

CONSTANTS
  Words,    \* word -> its dashes, what comes before "=", and what comes after
  NameLike, \* what begins with "name", as "name" and "name-only" do
  Letters,  \* what comes after one dash -> the same with one dash per letter
  Environ   \* os.Environ() without HOME and PATH, NOTIFY_SOCKET included

NoValue == "no ="

ASSUME WordsAssumption ==
  \A w \in DOMAIN Words : Words[w].dash \in {"", "-", "--"} /\ Words[w].name \in STRING

ASSUME NameLikeAssumption == "name" \in NameLike

Word(w) == IF w \in DOMAIN Words THEN Words[w] ELSE [dash |-> "", name |-> w, val |-> NoValue]

-----------------------------------------------------------------------------
(* mflag: what a name stands for, and whether it is a Boolean.             *)

Names(names, var, bool) == [n \in names |-> [var |-> var, bool |-> bool]]

SystemdDockerFlags ==
  Names({<<"-", "p">>, <<"--", "pid-file">>}, "PidFile", FALSE)
  @@ Names({<<"-", "l">>, <<"--", "logs">>}, "Logs", TRUE)
  @@ Names({<<"-", "n">>, <<"--", "notify">>}, "Notify", TRUE)
  @@ Names({<<"-", "e">>, <<"--", "env">>}, "Env", TRUE)
  @@ Names({<<"-", "c">>, <<"--", "cgroups">>}, "Cgroups", FALSE)

DockerRunFlags ==
  Names({<<"-", "d">>, <<"--", "detach">>}, "Detach", TRUE)
  @@ Names({<<"-", "rm">>, <<"--", "rm">>}, "Rm", TRUE)
  @@ Names({<<"-", "t">>, <<"--", "tty">>}, "Tty", TRUE)
  @@ Names({<<"-", "name">>, <<"--", "name">>}, "Name", FALSE)
  @@ Names({<<"-", "e">>, <<"--", "env">>}, "Env", FALSE)
  @@ Names({<<"-", "v">>, <<"--", "volume">>}, "Volume", FALSE)

Seen(rest, var, val) == [what |-> "seen", rest |-> rest, set |-> <<[var |-> var, val |-> val]>>]
Not(what, rest) == [what |-> what, rest |-> rest, set |-> <<>>]

Stops(args) ==
  args = <<>> \/ Word(args[1]).dash = "" \/ Word(args[1]) = [dash |-> "-", name |-> "", val |-> NoValue]

\* The word w, and the rest behind it.
OneFlag(flags, w, rest) ==
  LET key == <<w.dash, w.name>>
  IN CASE w = [dash |-> "--", name |-> "", val |-> NoValue] -> Not("end", rest)
       [] key \notin DOMAIN flags ->
            Not(IF w.dash = "--" \/ w.name \in {"h", "help", ""} THEN "error" ELSE "retry", rest)
       [] flags[key].bool ->
            IF w.val \in {NoValue, "true", "false"}
              THEN Seen(rest, flags[key].var, IF w.val = NoValue THEN "true" ELSE w.val)
              ELSE Not("error", rest)
       [] w.val # NoValue -> Seen(rest, flags[key].var, w.val)
       [] rest # <<>>     -> Seen(Tail(rest), flags[key].var, rest[1])
       [] OTHER           -> Not("error", rest)

parseOne(flags, args) ==
  IF Stops(args) THEN Not("end", args) ELSE OneFlag(flags, Word(args[1]), Tail(args))

\* Several letters after one dash are tried one by one, each before what follows;
\* every error ends the parsing.
LettersOf(w) == IF Word(w).name \in DOMAIN Letters THEN Letters[Word(w).name] ELSE <<>>

ParseLetters(flags, letters, rest) ==
  FoldLeft(LAMBDA sofar, letter :
             LET one == parseOne(flags, <<letter>> \o sofar.rest)
             IN IF sofar.what # "seen" THEN sofar
                ELSE IF one.what # "seen" THEN Not("error", sofar.rest)
                ELSE [one EXCEPT !.set = sofar.set \o @],
           Not("seen", rest), letters)

OneOrLetters(flags, one, letters) ==
  IF one.what # "retry" THEN one
  ELSE IF letters = <<>> THEN Not("error", one.rest)
  ELSE ParseLetters(flags, letters, one.rest)

\* parsed[n] is what the last n words come to.
Parse(flags, args) ==
  LET Left(n) == SubSeq(args, Len(args) - n + 1, Len(args))
      Next(n) == OneOrLetters(flags, parseOne(flags, Left(n)), LettersOf(Head(Left(n))))
      parsed[n \in 0..Len(args)] ==
        LET next == Next(n)
        IN IF next.what = "seen" THEN [parsed[Len(next.rest)] EXCEPT !.set = next.set \o @]
           ELSE [ok |-> next.what = "end", set |-> <<>>, args |-> next.rest]
  IN parsed[Len(args)]

\* All values that were set, and the last of them.
GetAll(parsed, var) ==
  LET mine == SelectSeq(parsed.set, LAMBDA s : s.var = var) IN [i \in DOMAIN mine |-> mine[i].val]
Get(parsed, var, default) == LET all == GetAll(parsed, var) IN IF all = <<>> THEN default ELSE Last(all)
Is(parsed, var, default) == Get(parsed, var, default) = "true"

-----------------------------------------------------------------------------
(* Slips: what a plausible mistake would do.                               *)

IsRm(w) == w \in {"-rm", "--rm"}
IsDetach(w) == w \in {"-d", "-detach", "--detach"}
\* strings.HasPrefix, for one dash and for two
IsName(w) == Word(w).name \in NameLike /\ Word(w).dash # ""

\* -d is appended.
WithDetachLast(runArgs) ==
  SelectSeq(runArgs, LAMBDA w : ~IsRm(w))
  \o IF \E i \in DOMAIN runArgs : IsDetach(runArgs[i]) THEN <<>> ELSE <<"-d">>

-----------------------------------------------------------------------------
(* parseContext.                                                           *)

ParseOwn(args) == Parse(SystemdDockerFlags, args)

\* The last name counts, which goes with = or is the next word if there is one;
\* a word that only begins like the option is taken for it, wherever it stands.
NameIn(runArgs) ==
  LET ValueAt(i) == Word(runArgs[i]).val
      named == { i \in DOMAIN runArgs :
                   IsName(runArgs[i]) /\ (ValueAt(i) # NoValue \/ i < Len(runArgs)) }
      last == Max(named)
  IN IF named = {} THEN ""
     ELSE IF ValueAt(last) # NoValue THEN ValueAt(last) ELSE runArgs[last + 1]

WithDetach(runArgs) ==
  (IF \E i \in DOMAIN runArgs : IsDetach(runArgs[i]) THEN <<>> ELSE <<"-d">>)
  \o SelectSeq(runArgs, LAMBDA w : ~IsRm(w))

\* What is put before the arguments: the socket of systemd, and its environment.
Socket == <<"-e", "NOTIFY_SOCKET", "-v", "NOTIFY_SOCKET">>
setupEnvironment(notify, env) ==
  (IF notify THEN Socket ELSE <<>>)
  \o IF env THEN FlattenSeq([i \in DOMAIN Environ |-> <<"-e", Environ[i]>>]) ELSE <<>>

NoContext == [ok |-> FALSE]

ContextOf(own, socket) ==
  LET runArgs == Tail(own.args)
      notify == Is(own, "Notify", "false") /\ socket
      env == Is(own, "Env", "false")
      cgroups == ToSet(GetAll(own, "Cgroups"))
  IN IF ~own.ok \/ own.args = <<>> \/ own.args[1] # "run" THEN NoContext
     ELSE [ok |-> TRUE,
           Logs |-> Is(own, "Logs", "true"), Notify |-> notify, Env |-> env,
           PidFile |-> Get(own, "PidFile", ""),
           Cgroups |-> IF "all" \in cgroups THEN {} ELSE cgroups,
           AllCgroups |-> "all" \in cgroups,
           Rm |-> \E i \in DOMAIN runArgs : IsRm(runArgs[i]),
           Name |-> NameIn(runArgs),
           Args |-> setupEnvironment(notify, env) \o WithDetach(runArgs)]

parseContext(args, socket) == ContextOf(ParseOwn(args), socket)

\* docker run, which is not part of the repository: what it is asked for, and the
\* image and the command.  It refuses --rm with -d.
RunOf(parsed) ==
  [ok |-> parsed.ok /\ parsed.args # <<>>
          /\ ~(Is(parsed, "Rm", "false") /\ Is(parsed, "Detach", "false")),
   read |-> parsed.ok /\ parsed.args # <<>>,
   set |-> parsed.set, detach |-> Is(parsed, "Detach", "false"), rm |-> Is(parsed, "Rm", "false"),
   name |-> Get(parsed, "Name", ""), command |-> parsed.args]

DockerRun(args) == RunOf(Parse(DockerRunFlags, args))
=============================================================================
