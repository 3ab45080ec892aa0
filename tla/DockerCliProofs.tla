-------------------------- MODULE DockerCliProofs --------------------------
(***************************************************************************)
(* Proofs that the exit status of the docker client is true, that a        *)
(* command with several names tries each of them, and that its options     *)
(* reach the daemon: for any names, versions of the API and errors of the  *)
(* daemon, whatever options are given.                                     *)
(***************************************************************************)
EXTENDS DockerCli, SequenceTheorems, TLAPS

(* What an answer says of the job.                                         *)

IsGood(read, a) == ~CallFails(a) /\ ~Garbled(read, a)
IsDone(h, o) == o.ok \/ (h.job \in {"start", "stop"} /\ "already" \in o.err)

\* A handler whose answer tells whether its job was done, to one who reads it so.
Tells(job, out, ok, same, read) ==
  /\ ok \in {200, 201, 204}
  /\ \/ out = "none" /\ read \in {"body", "stream"}
     \/ out = "buffer" /\ read \in {"env", "list"}
     \/ out = "json" /\ read \in {"env", "list", "json", "stream"}
     \/ out = "used" /\ read = "stream"
  /\ \/ same = "" /\ job \notin {"start", "stop"}
     \/ same = "already" /\ job \in {"start", "stop"} /\ out = "none" /\ read = "body"

Telling(h, read) == Tells(h.job, h.out, h.ok, h.same, read)

\* The others do not take one that is done for a failure.
Vague(h, read) ==
  /\ h.job \notin {"start", "stop"}
  /\ \/ h.out \in {"raw", "logs"} /\ read = "stream"
     \/ h.out = "copy" /\ read = "untar"
     \/ h.out = "engine" /\ read = "output"

LEMMA ErrorStatus ==
  ASSUME NEW err
  PROVE  httpError(err).status \in {404, 400, 409, 406, 401, 403, 500}
  BY DEF httpError, Answer

LEMMA ErrorIsBad ==
  ASSUME NEW err, NEW read
  PROVE  ~IsGood(read, httpError(err)) /\ httpError(err) # None
<1>1. httpError(err).status \in {404, 400, 409, 406, 401, 403, 500}
  BY ErrorStatus
<1>2. CallFails(httpError(err)) /\ httpError(err).status # 0
  BY <1>1 DEF CallFails
<1>3. None.status = 0
  BY DEF None
<1> QED
  BY <1>2, <1>3 DEF IsGood

\* The body that goes with a good status.
LEMMA WellAnswered ==
  ASSUME NEW read, NEW a, a.status \in {200, 201, 204, 304}
  PROVE  (IsGood(read, a) <=> ~Garbled(read, a)) /\ a # None
<1>1. a.status \in 200..399 /\ a.status # 0
  OBVIOUS
<1>2. None.status = 0
  BY DEF None
<1> QED
  BY <1>1, <1>2 DEF IsGood, CallFails

LEMMA DoneIsGood ==
  ASSUME NEW read, NEW a, a.status \in {200, 201, 204, 304}, a.body = "done"
  PROVE  IsGood(read, a) /\ a # None
<1>1. ~Garbled(read, a)
  BY DEF Garbled
<1> QED
  BY <1>1, WellAnswered

LEMMA EmptyIsGood ==
  ASSUME NEW read \in {"body", "stream"}, NEW a, a.status \in {200, 201, 204, 304}, a.body = "empty"
  PROVE  IsGood(read, a) /\ a # None
<1>1. ~Garbled(read, a)
  BY DEF Garbled
<1> QED
  BY <1>1, WellAnswered

LEMMA GarbledIsBad ==
  ASSUME NEW read \in {"env", "list", "json", "stream"}, NEW a, a.status = 200, a.body = "garbled", a.json
  PROVE  ~IsGood(read, a) /\ a # None
<1>1. Garbled(read, a)
  BY DEF Garbled
<1> QED
  BY <1>1, WellAnswered

LEMMA ToldIsBad ==
  ASSUME NEW a, a.status = 200, a.body = "told", a.json
  PROVE  ~IsGood("stream", a) /\ a # None
<1>1. Garbled("stream", a)
  BY DEF Garbled
<1> QED
  BY <1>1, WellAnswered

LEMMA TellingAnswer ==
  ASSUME NEW h, NEW read, Telling(h, read), NEW o \in Outcomes
  PROVE  (IsGood(read, AnswerOf(h, o)) <=> IsDone(h, o)) /\ AnswerOf(h, o) # None
<1>1. o.ok \in BOOLEAN /\ (o.ok => o.err = {})
  BY DEF Outcomes
<1>2. CASE h.out = "used"
  <2>1. AnswerOf(h, o) = Used(o) /\ read = "stream" /\ (IsDone(h, o) <=> o.ok)
    BY <1>2 DEF Telling, Tells, AnswerOf, IsDone
  <2>2. CASE o.ok
    <3>1. Used(o).status = 200 /\ Used(o).body = "done"
      BY <2>2 DEF Used, Answer
    <3> QED
      BY <2>1, <2>2, <3>1, DoneIsGood
  <2>3. CASE ~o.ok /\ o.wrote
    <3>1. Used(o).status = 200 /\ Used(o).body = "told" /\ Used(o).json
      BY <2>3 DEF Used, Answer
    <3> QED
      BY <2>1, <2>3, <3>1, ToldIsBad
  <2>4. CASE ~o.ok /\ ~o.wrote
    BY <2>1, <2>4, ErrorIsBad DEF Used
  <2> QED
    BY <2>2, <2>3, <2>4
<1>3. CASE h.out = "json"
  <2>1. /\ AnswerOf(h, o) = Streamed(h, o) /\ read \in {"env", "list", "json", "stream"}
        /\ IsDone(h, o) <=> o.ok
    BY <1>3 DEF Telling, Tells, AnswerOf, IsDone
  <2>2. CASE o.ok
    <3>1. Streamed(h, o).status = 200 /\ Streamed(h, o).body = "done"
      BY <2>2 DEF Streamed, Answer
    <3> QED
      BY <2>1, <2>2, <3>1, DoneIsGood
  <2>3. CASE ~o.ok /\ o.wrote
    <3>1. Streamed(h, o).status = 200 /\ Streamed(h, o).body = "garbled" /\ Streamed(h, o).json
      BY <1>3, <2>3 DEF Streamed, Answer
    <3> QED
      BY <2>1, <2>3, <3>1, GarbledIsBad
  <2>4. CASE ~o.ok /\ ~o.wrote
    BY <2>1, <2>4, ErrorIsBad DEF Streamed
  <2> QED
    BY <2>2, <2>3, <2>4
<1>4. CASE h.out = "buffer"
  <2>0. AnswerOf(h, o) = IF o.ok THEN Answer(h.ok, "done", TRUE) ELSE httpError(o.err)
    BY <1>4 DEF Telling, Tells, AnswerOf
  <2>1. read \in {"env", "list"} /\ (IsDone(h, o) <=> o.ok)
    BY <1>4 DEF Telling, Tells, IsDone
  <2>2. CASE o.ok
    <3>1. AnswerOf(h, o).status = h.ok /\ AnswerOf(h, o).body = "done"
      BY <2>0, <2>2 DEF Answer
    <3>2. AnswerOf(h, o).status \in {200, 201, 204, 304}
      <4>1. h.ok \in {200, 201, 204}
        BY Zenon DEF Telling, Tells
      <4> QED
        BY <3>1, <4>1
    <3> QED
      BY <2>1, <2>2, <3>1, <3>2, DoneIsGood
  <2>3. CASE ~o.ok
    BY <2>0, <2>1, <2>3, ErrorIsBad
  <2> QED
    BY <2>2, <2>3
<1>5. CASE h.out = "none"
  <2>0. read \in {"body", "stream"}
    BY <1>5 DEF Telling, Tells
  <2>1. IsDone(h, o) <=> o.ok \/ (h.same # "" /\ h.same \in o.err)
    BY <1>5 DEF Telling, Tells, IsDone
  <2>2. CASE h.same # "" /\ h.same \in o.err
    <3>1. AnswerOf(h, o) = Answer(304, "empty", FALSE)
      BY <1>5, <2>2 DEF AnswerOf
    <3>2. AnswerOf(h, o).status \in {200, 201, 204, 304} /\ AnswerOf(h, o).body = "empty"
      BY <3>1 DEF Answer
    <3>3. IsDone(h, o)
      BY <2>1, <2>2
    <3>4. IsGood(read, AnswerOf(h, o)) /\ AnswerOf(h, o) # None
      BY <2>0, <3>2, EmptyIsGood
    <3> QED
      BY <3>3, <3>4
  <2>3. CASE ~(h.same # "" /\ h.same \in o.err)
    <3>1. AnswerOf(h, o) = IF o.ok THEN Answer(h.ok, "empty", FALSE) ELSE httpError(o.err)
      BY <1>5, <2>3 DEF AnswerOf
    <3>2. CASE o.ok
      <4>1. AnswerOf(h, o).status = h.ok /\ AnswerOf(h, o).body = "empty"
        BY <3>1, <3>2 DEF Answer
      <4>2. AnswerOf(h, o).status \in {200, 201, 204, 304}
        <5>1. h.ok \in {200, 201, 204}
          BY Zenon DEF Telling, Tells
        <5> QED
          BY <4>1, <5>1
      <4> QED
        BY <2>0, <2>1, <3>2, <4>1, <4>2, EmptyIsGood
    <3>3. CASE ~o.ok
      BY <2>1, <2>3, <3>1, <3>3, ErrorIsBad
    <3> QED
      BY <3>2, <3>3
  <2> QED
    BY <2>2, <2>3
<1> QED
  BY <1>2, <1>3, <1>4, <1>5 DEF Telling, Tells

LEMMA VagueAnswer ==
  ASSUME NEW h, NEW read, Vague(h, read), NEW o \in Outcomes
  PROVE  (IsDone(h, o) => IsGood(read, AnswerOf(h, o))) /\ AnswerOf(h, o) # None
<1>1. o.ok \in BOOLEAN /\ (o.ok => o.err = {})
  BY DEF Outcomes
<1>2. CASE o.ok
  <2>1. AnswerOf(h, o).status = 200 /\ AnswerOf(h, o).body = "done"
    BY <1>1, <1>2 DEF Vague, AnswerOf, Streamed, LogsAnswer, CopyAnswer, ServeHTTP, Answer
  <2> QED
    BY <2>1, DoneIsGood
<1>3. CASE ~o.ok
  <2>1. ~IsDone(h, o)
    BY <1>3 DEF IsDone, Vague
  <2>2. AnswerOf(h, o).status # 0
    <3>1. httpError(o.err).status # 0 /\ httpError({"other"}).status # 0
      BY ErrorStatus
    <3>2. CASE h.out = "raw"
      <4>1. AnswerOf(h, o) = Streamed(h, o)
        BY <3>2, Zenon DEF AnswerOf
      <4>2. Streamed(h, o).status # 0
        BY <1>3, <3>1 DEF Streamed, Answer
      <4> QED
        BY <4>1, <4>2
    <3>3. CASE h.out = "logs"
      <4>1. AnswerOf(h, o) = LogsAnswer(o)
        BY <3>3 DEF AnswerOf
      <4>2. LogsAnswer(o).status # 0
        <5>1. CASE {"No such", "container"} \subseteq o.err /\ ~o.wrote
          BY <3>1, <5>1 DEF LogsAnswer
        <5>2. CASE ~({"No such", "container"} \subseteq o.err /\ ~o.wrote)
          <6>1. LogsAnswer(o) = Answer(200, IF o.ok THEN "done" ELSE "garbled", FALSE)
            BY <5>2, Zenon DEF LogsAnswer
          <6> QED
            BY <6>1 DEF Answer
        <5> QED
          BY <5>1, <5>2
      <4> QED
        BY <4>1, <4>2
    <3>4. CASE h.out = "copy"
      <4>1. AnswerOf(h, o) = CopyAnswer(o)
        BY <3>4 DEF AnswerOf
      <4>2. CopyAnswer(o).status # 0
        <5>1. CASE o.wrote
          BY <1>3, <5>1 DEF CopyAnswer, Answer
        <5>2. CASE ~o.wrote /\ {"No such", "container"} \subseteq o.err
          <6>1. CopyAnswer(o) = Answer(404, "empty", FALSE)
            BY <1>3, <5>2, Zenon DEF CopyAnswer
          <6> QED
            BY <6>1 DEF Answer
        <5>3. CASE ~o.wrote /\ ~({"No such", "container"} \subseteq o.err) /\ "no such file or directory" \in o.err
          BY <1>3, <3>1, <5>3 DEF CopyAnswer
        <5>4. CASE ~o.wrote /\ ~({"No such", "container"} \subseteq o.err) /\ "no such file or directory" \notin o.err
          <6>1. CopyAnswer(o) = Answer(200, "empty", FALSE)
            BY <1>3, <5>4, Zenon DEF CopyAnswer
          <6> QED
            BY <6>1 DEF Answer
        <5> QED
          BY <5>1, <5>2, <5>3, <5>4
      <4> QED
        BY <4>1, <4>2
    <3>5. CASE h.out = "engine"
      <4>1. AnswerOf(h, o) = ServeHTTP(o)
        BY <3>5 DEF AnswerOf
      <4>2. ServeHTTP(o).status # 0
        BY DEF ServeHTTP, Answer
      <4> QED
        BY <4>1, <4>2
    <3> QED
      BY <3>2, <3>3, <3>4, <3>5 DEF Vague
  <2>3. None.status = 0
    BY DEF None
  <2> QED
    BY <2>1, <2>2, <2>3
<1> QED
  BY <1>2, <1>3

\* A request that is refused is one that has failed.
LEMMA RejectIsBad ==
  ASSUME NEW v, NEW h, NEW read
  PROVE  ~IsGood(read, Reject(v, h)) /\ Reject(v, h) # None
<1>1. CASE GreaterThan(v, APIVERSION)
  <2>1. Reject(v, h) = Answer(404, "error", FALSE)
    BY <1>1 DEF Reject
  <2>2. Reject(v, h).status = 404
    BY <2>1 DEF Answer
  <2>3. None.status = 0
    BY DEF None
  <2> QED
    BY <2>2, <2>3 DEF IsGood, CallFails
<1>2. CASE ~GreaterThan(v, APIVERSION)
  BY <1>2, ErrorIsBad DEF Reject
<1> QED
  BY <1>1, <1>2

LEMMA UnreachedIsBad ==
  ASSUME NEW read
  PROVE  ~IsGood(read, Answer(-1, "error", FALSE)) /\ Answer(-1, "error", FALSE) # None
  BY DEF IsGood, CallFails, Answer, None

-----------------------------------------------------------------------------
(* The steps of a command.                                                 *)

SeqOf(q) == q \in Seq({ q[i] : i \in DOMAIN q })

\* A step is read as its handler answers.
Reads(c, s) == Telling(s.h, s.read) \/ (c \in Unsure /\ Vague(s.h, s.read))

Arguments == STRING \union {""}

WellFormed(c, q) ==
  /\ SeqOf(q)
  /\ \A i \in 1..Len(q) :
       /\ Reads(c, q[i]) /\ q[i].arg \in Arguments /\ q[i].next \in {"stop", "continue", "else", "pull"}
       /\ q[i].next \in {"else", "pull"} => i < Len(q) /\ q[i + 1].arg = q[i].arg

LEMMA SeqOfFunction ==
  ASSUME NEW q, NEW n \in Nat, DOMAIN q = 1..n, q = [i \in 1..n |-> q[i]]
  PROVE  SeqOf(q) /\ Len(q) = n
  BY DEF SeqOf

LEMMA SeqOfSet ==
  ASSUME NEW S, NEW q \in Seq(S)
  PROVE  SeqOf(q)
<1>1. Len(q) \in Nat /\ DOMAIN q = 1..Len(q) /\ q = [i \in 1..Len(q) |-> q[i]]
  OBVIOUS
<1> QED
  BY <1>1, SeqOfFunction

LEMMA SeqOfFacts ==
  ASSUME NEW q, SeqOf(q)
  PROVE  Len(q) \in Nat /\ DOMAIN q = 1..Len(q) /\ (q = <<>> <=> Len(q) = 0)
  BY DEF SeqOf

LEMMA SeqOfTail ==
  ASSUME NEW q, SeqOf(q), q # <<>>
  PROVE  /\ SeqOf(Tail(q)) /\ Len(Tail(q)) = Len(q) - 1 /\ Head(q) = q[1]
         /\ \A i \in 1..Len(Tail(q)) : Tail(q)[i] = q[i + 1]
<1> DEFINE S == { q[i] : i \in DOMAIN q }
<1>1. q \in Seq(S)
  BY DEF SeqOf
<1> HIDE DEF S
<1>2. /\ Tail(q) \in Seq(S) /\ Len(Tail(q)) = Len(q) - 1 /\ Head(q) = q[1]
      /\ \A i \in 1..Len(Tail(q)) : Tail(q)[i] = q[i + 1]
  BY <1>1, HeadTailProperties
<1> QED
  BY <1>2, SeqOfSet

LEMMA SeqOfAppend ==
  ASSUME NEW q, SeqOf(q), NEW x
  PROVE  /\ SeqOf(Append(q, x)) /\ Len(Append(q, x)) = Len(q) + 1
         /\ \A i \in 1..Len(q) : Append(q, x)[i] = q[i]
         /\ Append(q, x)[Len(q) + 1] = x
<1> DEFINE S == { q[i] : i \in DOMAIN q } \union {x}
<1>1. q \in Seq(S)
  BY DEF SeqOf
<1>2. x \in S
  OBVIOUS
<1> HIDE DEF S
<1>3. /\ Append(q, x) \in Seq(S) /\ Len(Append(q, x)) = Len(q) + 1
      /\ \A i \in 1..Len(q) : Append(q, x)[i] = q[i]
      /\ Append(q, x)[Len(q) + 1] = x
  BY <1>1, <1>2
<1> QED
  BY <1>3, SeqOfSet

LEMMA TailWellFormed ==
  ASSUME NEW c, NEW q, WellFormed(c, q), q # <<>>
  PROVE  WellFormed(c, Tail(q))
<1>1. SeqOf(q)
  BY DEF WellFormed
<1>2. Len(q) \in Nat /\ Len(q) # 0
  BY <1>1, SeqOfFacts
<1>3. /\ SeqOf(Tail(q)) /\ Len(Tail(q)) = Len(q) - 1
      /\ \A i \in 1..Len(Tail(q)) : Tail(q)[i] = q[i + 1]
  BY <1>1, SeqOfTail
<1> SUFFICES ASSUME NEW i \in 1..Len(Tail(q))
             PROVE  /\ Reads(c, Tail(q)[i]) /\ Tail(q)[i].arg \in Arguments
                    /\ Tail(q)[i].next \in {"stop", "continue", "else", "pull"}
                    /\ Tail(q)[i].next \in {"else", "pull"} =>
                         i < Len(Tail(q)) /\ Tail(q)[i + 1].arg = Tail(q)[i].arg
  BY <1>3, Zenon DEF WellFormed
<1>4. i + 1 \in 1..Len(q) /\ Tail(q)[i] = q[i + 1]
  BY <1>2, <1>3
<1>5. /\ Reads(c, q[i + 1]) /\ q[i + 1].arg \in Arguments
      /\ q[i + 1].next \in {"stop", "continue", "else", "pull"}
      /\ q[i + 1].next \in {"else", "pull"} => i + 1 < Len(q) /\ q[i + 1 + 1].arg = q[i + 1].arg
  BY <1>4, Zenon DEF WellFormed
<1>6. Tail(q)[i].next \in {"else", "pull"} => i < Len(Tail(q)) /\ Tail(q)[i + 1].arg = Tail(q)[i].arg
  BY <1>2, <1>3, <1>4, <1>5
<1> QED
  BY <1>4, <1>5, <1>6

LEMMA ConcatWellFormed ==
  ASSUME NEW c, NEW p, NEW q, WellFormed(c, p), WellFormed(c, q)
  PROVE  WellFormed(c, p \o q) /\ Len(p \o q) = Len(p) + Len(q)
<1> DEFINE S == { p[i] : i \in DOMAIN p } \union { q[i] : i \in DOMAIN q }
<1>0. SeqOf(p) /\ SeqOf(q)
  BY DEF WellFormed
<1>1. p \in Seq(S) /\ q \in Seq(S)
  BY <1>0 DEF SeqOf
<1> HIDE DEF S
<1>2. /\ p \o q \in Seq(S) /\ Len(p \o q) = Len(p) + Len(q) /\ Len(p) \in Nat /\ Len(q) \in Nat
      /\ \A i \in 1..Len(p) : (p \o q)[i] = p[i]
      /\ \A i \in 1..Len(q) : (p \o q)[Len(p) + i] = q[i]
  BY <1>1, ConcatProperties
<1>3. SeqOf(p \o q)
  BY <1>2, SeqOfSet
<1> DEFINE r == p \o q
<1>4. ASSUME NEW i \in 1..Len(r)
      PROVE  /\ Reads(c, r[i]) /\ r[i].arg \in Arguments /\ r[i].next \in {"stop", "continue", "else", "pull"}
             /\ r[i].next \in {"else", "pull"} => i < Len(r) /\ r[i + 1].arg = r[i].arg
  <2>1. CASE i \in 1..Len(p)
    <3>1. r[i] = p[i] /\ (i < Len(p) => r[i + 1] = p[i + 1])
      BY <1>2, <2>1
    <3>2. /\ Reads(c, p[i]) /\ p[i].arg \in Arguments /\ p[i].next \in {"stop", "continue", "else", "pull"}
          /\ p[i].next \in {"else", "pull"} => i < Len(p) /\ p[i + 1].arg = p[i].arg
      BY <2>1, Zenon DEF WellFormed
    <3>3. i < Len(p) => i < Len(r)
      BY <1>2, <2>1
    <3> HIDE DEF r
    <3> QED
      BY <3>1, <3>2, <3>3
  <2>2. CASE i \notin 1..Len(p)
    <3> DEFINE k == i - Len(p)
    <3>1. k \in 1..Len(q) /\ i = Len(p) + k
      BY <1>2, <2>2
    <3>2. r[i] = q[k] /\ (k < Len(q) => r[i + 1] = q[k + 1])
      <4>1. r[Len(p) + k] = q[k]
        BY <1>2, <3>1
      <4>2. k < Len(q) => r[Len(p) + (k + 1)] = q[k + 1]
        BY <1>2, <3>1
      <4>3. i + 1 = Len(p) + (k + 1)
        BY <1>2, <3>1
      <4> QED
        BY <3>1, <4>1, <4>2, <4>3
    <3>3. /\ Reads(c, q[k]) /\ q[k].arg \in Arguments /\ q[k].next \in {"stop", "continue", "else", "pull"}
          /\ q[k].next \in {"else", "pull"} => k < Len(q) /\ q[k + 1].arg = q[k].arg
      BY <3>1, Zenon DEF WellFormed
    <3>4. k < Len(q) => i < Len(r)
      BY <1>2, <3>1
    <3> HIDE DEF r, k
    <3> QED
      BY <3>2, <3>3, <3>4
  <2> QED
    BY <2>1, <2>2
<1> QED
  BY <1>2, <1>3, <1>4, Zenon DEF WellFormed

LEMMA OneWellFormed ==
  ASSUME NEW c, NEW h, NEW read, Telling(h, read) \/ (c \in Unsure /\ Vague(h, read))
  PROVE  WellFormed(c, One(h, read)) /\ Len(One(h, read)) = 1
<1>1. /\ Step(h, read).h = h /\ Step(h, read).read = read /\ Step(h, read).arg = ""
      /\ Step(h, read).next = "stop"
  BY DEF Step
<1> DEFINE s == Step(h, read)
<1>2. One(h, read) = <<s>>
  BY DEF One
<1> HIDE DEF s
<1>3. <<s>> \in Seq({s}) /\ Len(<<s>>) = 1 /\ <<s>>[1] = s
  OBVIOUS
<1>4. SeqOf(<<s>>)
  BY <1>3, SeqOfSet
<1>5. Reads(c, s)
  BY <1>1 DEF Reads, s
<1>6. s.arg = "" /\ s.next = "stop"
  BY <1>1 DEF s
<1> DEFINE q == <<s>>
<1>7. SeqOf(q) /\ Len(q) = 1 /\ q[1] = s
  BY <1>3, <1>4
<1> HIDE DEF q
<1>8. WellFormed(c, q)
  <2>1. ASSUME NEW i \in 1..Len(q) PROVE q[i] = s
    BY <1>7, i = 1
  <2>2. s.arg \in Arguments /\ s.next \in {"stop", "continue", "else", "pull"} /\ s.next \notin {"else", "pull"}
    BY <1>6 DEF Arguments
  <2> QED
    BY <1>5, <1>7, <2>1, <2>2, Zenon DEF WellFormed
<1> QED
  BY <1>2, <1>7, <1>8 DEF q

\* One step for each name, whatever becomes of the others.
ForEach(q, names) ==
  /\ Len(q) = Len(names)
  /\ \A i \in 1..Len(q) : q[i].arg = names[i] /\ q[i].next = "continue"

LEMMA EachWellFormed ==
  ASSUME NEW c, NEW h, NEW read, Telling(h, read), NEW names \in Seq(STRING)
  PROVE  WellFormed(c, Each(names, h, read)) /\ ForEach(Each(names, h, read), names)
<1> DEFINE q == Each(names, h, read)
<1>1. Len(names) \in Nat /\ \A i \in 1..Len(names) : names[i] \in Arguments
  <2>1. Len(names) \in Nat /\ \A i \in 1..Len(names) : names[i] \in STRING
    OBVIOUS
  <2>2. STRING \subseteq Arguments
    BY DEF Arguments
  <2> QED
    BY <2>1, <2>2
<1>2. DOMAIN q = 1..Len(names) /\ q = [i \in 1..Len(names) |-> q[i]]
  BY DEF Each
<1>3. SeqOf(q) /\ Len(q) = Len(names)
  <2> HIDE DEF q
  <2> QED
    BY <1>1, <1>2, SeqOfFunction
<1>4. ASSUME NEW i \in 1..Len(names)
      PROVE  q[i].h = h /\ q[i].read = read /\ q[i].arg = names[i] /\ q[i].next = "continue"
  BY DEF Each, Step
<1> HIDE DEF q
<1>5. \A i \in 1..Len(q) : Reads(c, q[i])
  BY <1>3, <1>4 DEF Reads
<1>6. WellFormed(c, q)
  BY <1>1, <1>3, <1>4, <1>5 DEF WellFormed
<1>7. ForEach(q, names)
  BY <1>3, <1>4 DEF ForEach
<1> QED
  BY <1>6, <1>7 DEF q

-----------------------------------------------------------------------------
(* The handlers of each command.                                           *)

\* How a command may read the answer of a handler.
Answered(c, h, read) == Telling(h, read) \/ (c \in Unsure /\ Vague(h, read))

\* Of a handler only these matter here, whatever its refusal and its environment.
LEMMA TellingJob ==
  ASSUME NEW name, name \notin {"start", "stop"}, NEW env, NEW ok \in {200, 201, 204}, NEW read, NEW out,
         \/ out = "none" /\ read \in {"body", "stream"}
         \/ out = "buffer" /\ read \in {"env", "list"}
         \/ out = "json" /\ read \in {"env", "list", "json", "stream"}
         \/ out = "used" /\ read = "stream"
  PROVE  Telling(Job(name, env, out, ok), read)
<1> DEFINE h == Job(name, env, out, ok)
<1>1. h.job = name /\ h.out = out /\ h.ok = ok /\ h.same = ""
  BY DEF Job
<1> HIDE DEF h
<1>2. Tells(name, out, ok, "", read)
  BY Zenon DEF Tells
<1>3. Telling(h, read)
  BY <1>1, <1>2, Zenon DEF Telling
<1> QED
  BY <1>3, Zenon DEF h

LEMMA TellingRefused ==
  ASSUME NEW h, NEW g, NEW read, Telling(h, read),
         h.job = g.job, h.out = g.out, h.ok = g.ok, h.same = g.same
  PROVE  Telling(g, read)
  BY DEF Telling

\* A handler that refuses nothing tells what became of its job.
LEMMA TellingHandlers ==
  ASSUME NEW q, NEW v
  PROVE  /\ Telling(postContainersKill(q), "body")
         /\ Telling(postContainersPause(q), "body")
         /\ Telling(postContainersUnpause(q), "body")
         /\ Telling(postContainersRestart(q), "body")
         /\ Telling(deleteContainers(q), "body")
         /\ Telling(postContainersWait(q), "env")
         /\ Telling(postContainersCreate(q), "env")
         /\ Telling(getContainersChanges(q), "list")
         /\ Telling(getContainersByName(v, q), "env")
         /\ Telling(getContainersByName(v, q), "json")
         /\ Telling(getImagesHistory(q), "list")
         /\ Telling(getImagesByName(v, q), "json")
         /\ Telling(getImagesSearch(q), "list")
         /\ Telling(postImagesLoad(q), "stream")
         /\ Telling(postImagesTag(q), "body")
         /\ Telling(deleteImages(q), "list")
         /\ Telling(postImagesPush(q), "stream")
         /\ Telling(getEvents(q), "stream")
<1>1. Telling(postContainersKill(q), "body")
  BY TellingJob DEF postContainersKill, Plain
<1>2. Telling(postContainersPause(q), "body")
  BY TellingJob DEF postContainersPause, Plain
<1>3. Telling(postContainersUnpause(q), "body")
  BY TellingJob DEF postContainersUnpause, Plain
<1>4. Telling(postContainersRestart(q), "body")
  BY TellingJob DEF postContainersRestart, Plain
<1>5. Telling(deleteContainers(q), "body")
  BY TellingJob DEF deleteContainers, Plain
<1>6. Telling(postContainersWait(q), "env")
  BY TellingJob DEF postContainersWait
<1>7. Telling(postContainersCreate(q), "env")
  BY TellingJob DEF postContainersCreate
<1>8. Telling(getContainersChanges(q), "list")
  BY TellingJob DEF getContainersChanges
<1>9. Telling(getContainersByName(v, q), "env")
  <2> DEFINE g == getContainersByName(v, q)
  <2>1. g.job = "container_inspect" /\ g.out = "json" /\ g.ok = 200 /\ g.same = ""
    BY DEF getContainersByName, Job
  <2> HIDE DEF g
  <2>2. Telling(g, "env")
    BY <2>1 DEF Telling, Tells
  <2> QED
    BY <2>2 DEF g
<1>10. Telling(getContainersByName(v, q), "json")
  <2> DEFINE g == getContainersByName(v, q)
  <2>1. g.job = "container_inspect" /\ g.out = "json" /\ g.ok = 200 /\ g.same = ""
    BY DEF getContainersByName, Job
  <2> HIDE DEF g
  <2>2. Telling(g, "json")
    BY <2>1 DEF Telling, Tells
  <2> QED
    BY <2>2 DEF g
<1>11. Telling(getImagesHistory(q), "list")
  BY TellingJob DEF getImagesHistory
<1>12. Telling(getImagesByName(v, q), "json")
  BY TellingJob DEF getImagesByName
<1>13. Telling(getImagesSearch(q), "list")
  BY TellingJob DEF getImagesSearch
<1>14. Telling(postImagesLoad(q), "stream")
  BY TellingJob DEF postImagesLoad
<1>15. Telling(postImagesTag(q), "body")
  BY TellingJob DEF postImagesTag
<1>16. Telling(deleteImages(q), "list")
  BY TellingJob DEF deleteImages
<1>17. Telling(postImagesPush(q), "stream")
  <2> DEFINE g == postImagesPush(q)
  <2>1. g.job = "push" /\ g.out = "used" /\ g.ok = 200 /\ g.same = ""
    BY DEF postImagesPush, Job
  <2> HIDE DEF g
  <2>2. Telling(g, "stream")
    BY <2>1 DEF Telling, Tells
  <2> QED
    BY <2>2 DEF g
<1>18. Telling(getEvents(q), "stream")
  BY TellingJob DEF getEvents
<1> QED
  BY <1>1, <1>2, <1>3, <1>4, <1>5, <1>6, <1>7, <1>8, <1>9, <1>10, <1>11, <1>12, <1>13, <1>14, <1>15, <1>16, <1>17, <1>18

LEMMA TellingStartStop ==
  ASSUME NEW q
  PROVE  Telling(postContainersStart(q), "body") /\ Telling(postContainersStop(q), "body")
<1>1. ASSUME NEW name \in {"start", "stop"}, NEW env
      PROVE  Telling([Plain(name, env) EXCEPT !.same = "already"], "body")
  <2> DEFINE h == [Plain(name, env) EXCEPT !.same = "already"]
  <2>1. h.job = name /\ h.out = "none" /\ h.ok = 204 /\ h.same = "already"
    BY DEF Plain, Job
  <2> HIDE DEF h
  <2>2. Telling(h, "body")
    BY <2>1 DEF Telling, Tells
  <2> QED
    BY <2>2 DEF h
<1> QED
  BY <1>1 DEF postContainersStart, postContainersStop

LEMMA TellingLists ==
  ASSUME NEW q, NEW v
  PROVE  Telling(getContainersJSON(v, q), "list") /\ Telling(getImagesJSON(v, q), "list")
<1> DEFINE out(w) == IF GreaterThanOrEqualTo(v, w) THEN "json" ELSE "buffer"
<1>1. ASSUME NEW w, NEW name \in {"containers", "images"}, NEW env
      PROVE  Telling(Job(name, env, out(w), 200), "list")
  <2>1. out(w) \in {"json", "buffer"}
    OBVIOUS
  <2> HIDE DEF out
  <2> QED
    BY <2>1, TellingJob
<1> QED
  BY <1>1 DEF getContainersJSON, getImagesJSON

LEMMA TellingTopAndBuild ==
  ASSUME NEW q, NEW v
  PROVE  /\ Telling(getContainersTop(v, q), "env") /\ Telling(postBuild(v, q), "stream")
         /\ Telling(postCommit(v, q), "env") /\ Telling(postImagesCreate(q), "stream")
<1>1. Telling(getContainersTop(v, q), "env")
  <2> DEFINE h == Job("top", Setenv(q, {"ps_args"}), "json", 200)
  <2>1. Telling(h, "env")
    BY TellingJob
  <2>2. LET g == getContainersTop(v, q)
        IN  h.job = g.job /\ h.out = g.out /\ h.ok = g.ok /\ h.same = g.same
    BY DEF getContainersTop, Refused, Job
  <2> HIDE DEF h
  <2> QED
    BY <2>1, <2>2, TellingRefused
<1>2. Telling(postBuild(v, q), "stream")
  <2> DEFINE g == postBuild(v, q)
  <2>1. g.job = "build" /\ g.out = "used" /\ g.ok = 200 /\ g.same = ""
    BY DEF postBuild, Refused, Job
  <2> HIDE DEF g
  <2>2. Telling(g, "stream")
    BY <2>1 DEF Telling, Tells
  <2> QED
    BY <2>2 DEF g
<1>3. Telling(postCommit(v, q), "env")
  <2> DEFINE g == postCommit(v, q)
  <2>1. g.job = "commit" /\ g.out = "buffer" /\ g.ok = 201 /\ g.same = ""
    BY DEF postCommit, Job
  <2> HIDE DEF g
  <2>2. Telling(g, "env")
    BY <2>1 DEF Telling, Tells
  <2> QED
    BY <2>2 DEF g
<1>4. Telling(postImagesCreate(q), "stream")
  <2> DEFINE g == postImagesCreate(q)
  <2>1. g.job \in {"pull", "import"} /\ g.out = "used" /\ g.ok = 200 /\ g.same = ""
    BY DEF postImagesCreate, Job
  <2> HIDE DEF g
  <2>2. Telling(g, "stream")
    BY <2>1 DEF Telling, Tells
  <2> QED
    BY <2>2 DEF g
<1> QED
  BY <1>1, <1>2, <1>3, <1>4

\* The answers of these are not told from an error, or only from some.
LEMMA VagueHandlers ==
  ASSUME NEW q
  PROVE  /\ Vague(getContainersExport(q), "stream") /\ Vague(getImagesGet(q), "stream")
         /\ Vague(getContainersLogs(q), "stream") /\ Vague(postContainersCopy(q), "untar")
         /\ Vague(getVersion(q), "output") /\ Vague(getInfo(q), "output")
<1>1. Vague(getContainersExport(q), "stream") /\ Vague(getImagesGet(q), "stream")
  BY DEF Vague, getContainersExport, getImagesGet, Job
<1>2. Vague(postContainersCopy(q), "untar")
  BY DEF Vague, postContainersCopy, Job
<1>3. Vague(getVersion(q), "output") /\ Vague(getInfo(q), "output")
  BY DEF Vague, getVersion, getInfo, Job
<1>4. Vague(getContainersLogs(q), "stream")
  <2> DEFINE g == getContainersLogs(q)
  <2>1. g.job = "logs" /\ g.out = "logs"
    BY DEF getContainersLogs, Refused, Job
  <2> HIDE DEF g
  <2>2. Vague(g, "stream")
    BY <2>1 DEF Vague
  <2> QED
    BY <2>2 DEF g
<1> QED
  BY <1>1, <1>2, <1>3, <1>4

-----------------------------------------------------------------------------
(* The steps of each command are well formed.                              *)

LEMMA SeveralSteps ==
  ASSUME NEW c \in Several, NEW v, NEW o, NEW a \in Seq(STRING)
  PROVE  WellFormed(c, StepsOf(c, v, o, a)) /\ ForEach(StepsOf(c, v, o, a), a)
<1>1. CASE c = "stop"
  <2>1. StepsOf(c, v, o, a) = CmdStop(o, a)
    BY <1>1 DEF StepsOf
  <2>2. WellFormed(c, CmdStop(o, a)) /\ ForEach(CmdStop(o, a), a)
    BY TellingStartStop, EachWellFormed DEF CmdStop
  <2> QED
    BY <2>1, <2>2
<1>2. CASE c = "restart"
  <2>1. StepsOf(c, v, o, a) = CmdRestart(o, a)
    BY <1>2 DEF StepsOf
  <2>2. WellFormed(c, CmdRestart(o, a)) /\ ForEach(CmdRestart(o, a), a)
    BY TellingHandlers, EachWellFormed DEF CmdRestart
  <2> QED
    BY <2>1, <2>2
<1>3. CASE c = "kill"
  <2>1. StepsOf(c, v, o, a) = CmdKill(o, a)
    BY <1>3 DEF StepsOf
  <2>2. WellFormed(c, CmdKill(o, a)) /\ ForEach(CmdKill(o, a), a)
    BY TellingHandlers, EachWellFormed DEF CmdKill
  <2> QED
    BY <2>1, <2>2
<1>4. CASE c = "start"
  <2>1. StepsOf(c, v, o, a) = CmdStart(o, a)
    BY <1>4 DEF StepsOf
  <2>2. WellFormed(c, CmdStart(o, a)) /\ ForEach(CmdStart(o, a), a)
    BY TellingStartStop, EachWellFormed DEF CmdStart
  <2> QED
    BY <2>1, <2>2
<1>5. CASE c = "wait"
  <2>1. StepsOf(c, v, o, a) = CmdWait(o, a)
    BY <1>5 DEF StepsOf
  <2>2. WellFormed(c, CmdWait(o, a)) /\ ForEach(CmdWait(o, a), a)
    BY TellingHandlers, EachWellFormed DEF CmdWait
  <2> QED
    BY <2>1, <2>2
<1>6. CASE c = "rm"
  <2>1. StepsOf(c, v, o, a) = CmdRm(o, a)
    BY <1>6 DEF StepsOf
  <2>2. WellFormed(c, CmdRm(o, a)) /\ ForEach(CmdRm(o, a), a)
    BY TellingHandlers, EachWellFormed DEF CmdRm
  <2> QED
    BY <2>1, <2>2
<1>7. CASE c = "rmi"
  <2>1. StepsOf(c, v, o, a) = CmdRmi(o, a)
    BY <1>7 DEF StepsOf
  <2>2. WellFormed(c, CmdRmi(o, a)) /\ ForEach(CmdRmi(o, a), a)
    BY TellingHandlers, EachWellFormed DEF CmdRmi
  <2> QED
    BY <2>1, <2>2
<1> QED
  BY <1>1, <1>2, <1>3, <1>4, <1>5, <1>6, <1>7 DEF Several

LEMMA SingleSteps ==
  ASSUME NEW c, NEW v, NEW o, NEW a \in Seq(STRING), a # <<>>,
         c \in {"pause", "unpause", "top", "port", "diff", "export", "cp", "ps", "history", "search", "save", "load", "tag", "import", "push", "pull", "images", "commit", "build", "events", "version", "info"}
  PROVE  WellFormed(c, StepsOf(c, v, o, a))
<1>a. a[1] \in STRING /\ <<a[1]>> \in Seq(STRING)
  OBVIOUS
<1>1. CASE c = "pause"
  <2>1. StepsOf(c, v, o, a) = CmdPause(o, a)
    BY <1>1 DEF StepsOf
  <2>2. WellFormed(c, CmdPause(o, a))
    BY <1>a, TellingHandlers, EachWellFormed DEF CmdPause
  <2> QED
    BY <2>1, <2>2
<1>2. CASE c = "unpause"
  <2>1. StepsOf(c, v, o, a) = CmdUnpause(o, a)
    BY <1>2 DEF StepsOf
  <2>2. WellFormed(c, CmdUnpause(o, a))
    BY <1>a, TellingHandlers, EachWellFormed DEF CmdUnpause
  <2> QED
    BY <2>1, <2>2
<1>3. CASE c = "top"
  <2>1. StepsOf(c, v, o, a) = CmdTop(v, o)
    BY <1>3 DEF StepsOf
  <2>2. WellFormed(c, CmdTop(v, o))
    BY TellingTopAndBuild, OneWellFormed DEF CmdTop
  <2> QED
    BY <2>1, <2>2
<1>4. CASE c = "port"
  <2>1. StepsOf(c, v, o, a) = CmdPort(v, o)
    BY <1>4 DEF StepsOf
  <2>2. WellFormed(c, CmdPort(v, o))
    BY TellingHandlers, OneWellFormed DEF CmdPort
  <2> QED
    BY <2>1, <2>2
<1>5. CASE c = "diff"
  <2>1. StepsOf(c, v, o, a) = CmdDiff(o)
    BY <1>5 DEF StepsOf
  <2>2. WellFormed(c, CmdDiff(o))
    BY TellingHandlers, OneWellFormed DEF CmdDiff
  <2> QED
    BY <2>1, <2>2
<1>6. CASE c = "export"
  <2>1. StepsOf(c, v, o, a) = CmdExport(o)
    BY <1>6 DEF StepsOf
  <2>2. WellFormed(c, CmdExport(o))
    BY <1>6, VagueHandlers, OneWellFormed DEF CmdExport, Unsure
  <2> QED
    BY <2>1, <2>2
<1>7. CASE c = "cp"
  <2>1. StepsOf(c, v, o, a) = CmdCp(o)
    BY <1>7 DEF StepsOf
  <2>2. WellFormed(c, CmdCp(o))
    BY <1>7, VagueHandlers, OneWellFormed DEF CmdCp, Unsure
  <2> QED
    BY <2>1, <2>2
<1>8. CASE c = "ps"
  <2>1. StepsOf(c, v, o, a) = CmdPs(v, o)
    BY <1>8 DEF StepsOf
  <2>2. WellFormed(c, CmdPs(v, o))
    BY TellingLists, OneWellFormed DEF CmdPs
  <2> QED
    BY <2>1, <2>2
<1>9. CASE c = "history"
  <2>1. StepsOf(c, v, o, a) = CmdHistory(o)
    BY <1>9 DEF StepsOf
  <2>2. WellFormed(c, CmdHistory(o))
    BY TellingHandlers, OneWellFormed DEF CmdHistory
  <2> QED
    BY <2>1, <2>2
<1>10. CASE c = "search"
  <2>1. StepsOf(c, v, o, a) = CmdSearch(o)
    BY <1>10 DEF StepsOf
  <2>2. WellFormed(c, CmdSearch(o))
    BY TellingHandlers, OneWellFormed DEF CmdSearch
  <2> QED
    BY <2>1, <2>2
<1>11. CASE c = "save"
  <2>1. StepsOf(c, v, o, a) = CmdSave(o)
    BY <1>11 DEF StepsOf
  <2>2. WellFormed(c, CmdSave(o))
    BY <1>11, VagueHandlers, OneWellFormed DEF CmdSave, Unsure
  <2> QED
    BY <2>1, <2>2
<1>12. CASE c = "load"
  <2>1. StepsOf(c, v, o, a) = CmdLoad(o)
    BY <1>12 DEF StepsOf
  <2>2. WellFormed(c, CmdLoad(o))
    BY TellingHandlers, OneWellFormed DEF CmdLoad
  <2> QED
    BY <2>1, <2>2
<1>13. CASE c = "tag"
  <2>1. StepsOf(c, v, o, a) = CmdTag(o)
    BY <1>13 DEF StepsOf
  <2>2. WellFormed(c, CmdTag(o))
    BY TellingHandlers, OneWellFormed DEF CmdTag
  <2> QED
    BY <2>1, <2>2
<1>14. CASE c = "import"
  <2>1. StepsOf(c, v, o, a) = CmdImport(o)
    BY <1>14 DEF StepsOf
  <2>2. WellFormed(c, CmdImport(o))
    BY TellingTopAndBuild, OneWellFormed DEF CmdImport
  <2> QED
    BY <2>1, <2>2
<1>15. CASE c = "push"
  <2>1. StepsOf(c, v, o, a) = CmdPush(o)
    BY <1>15 DEF StepsOf
  <2>2. WellFormed(c, CmdPush(o))
    BY TellingHandlers, OneWellFormed DEF CmdPush
  <2> QED
    BY <2>1, <2>2
<1>16. CASE c = "pull"
  <2>1. StepsOf(c, v, o, a) = CmdPull(o)
    BY <1>16 DEF StepsOf
  <2>2. WellFormed(c, CmdPull(o))
    BY TellingTopAndBuild, OneWellFormed DEF CmdPull
  <2> QED
    BY <2>1, <2>2
<1>17. CASE c = "images"
  <2>1. StepsOf(c, v, o, a) = CmdImages(v, o)
    BY <1>17 DEF StepsOf
  <2>2. WellFormed(c, CmdImages(v, o))
    BY TellingLists, OneWellFormed DEF CmdImages
  <2> QED
    BY <2>1, <2>2
<1>18. CASE c = "commit"
  <2>1. StepsOf(c, v, o, a) = CmdCommit(v, o)
    BY <1>18 DEF StepsOf
  <2>2. WellFormed(c, CmdCommit(v, o))
    BY TellingTopAndBuild, OneWellFormed DEF CmdCommit
  <2> QED
    BY <2>1, <2>2
<1>19. CASE c = "build"
  <2>1. StepsOf(c, v, o, a) = CmdBuild(v, o)
    BY <1>19 DEF StepsOf
  <2>2. WellFormed(c, CmdBuild(v, o))
    BY TellingTopAndBuild, OneWellFormed DEF CmdBuild
  <2> QED
    BY <2>1, <2>2
<1>20. CASE c = "events"
  <2>1. StepsOf(c, v, o, a) = CmdEvents(o)
    BY <1>20 DEF StepsOf
  <2>2. WellFormed(c, CmdEvents(o))
    BY TellingHandlers, OneWellFormed DEF CmdEvents
  <2> QED
    BY <2>1, <2>2
<1>21. CASE c = "version"
  <2>1. StepsOf(c, v, o, a) = CmdVersion(o)
    BY <1>21 DEF StepsOf
  <2>2. WellFormed(c, CmdVersion(o))
    BY <1>21, VagueHandlers, OneWellFormed DEF CmdVersion, Unsure
  <2> QED
    BY <2>1, <2>2
<1>22. CASE c = "info"
  <2>1. StepsOf(c, v, o, a) = CmdInfo(o)
    BY <1>22 DEF StepsOf
  <2>2. WellFormed(c, CmdInfo(o))
    BY <1>22, VagueHandlers, OneWellFormed DEF CmdInfo, Unsure
  <2> QED
    BY <2>1, <2>2
<1> QED
  BY <1>1, <1>2, <1>3, <1>4, <1>5, <1>6, <1>7, <1>8, <1>9, <1>10, <1>11, <1>12, <1>13, <1>14, <1>15, <1>16, <1>17, <1>18, <1>19, <1>20, <1>21, <1>22

LEMMA LogsSteps ==
  ASSUME NEW v, NEW o
  PROVE  WellFormed("logs", CmdLogs(v, o))
<1>1. WellFormed("logs", One(getContainersByName(v, {}), "env"))
  BY TellingHandlers, OneWellFormed
<1>2. ASSUME NEW q PROVE WellFormed("logs", One(getContainersLogs(q), "stream"))
  BY VagueHandlers, OneWellFormed DEF Unsure
<1> QED
  BY <1>1, <1>2, ConcatWellFormed DEF CmdLogs

\* An image is looked for after each container.
LEMMA InspectSteps ==
  ASSUME NEW v, NEW o, NEW a \in Seq(STRING)
  PROVE  WellFormed("inspect", CmdInspect(v, o, a))
<1> DEFINE q == CmdInspect(v, o, a)
           n == 2 * Len(a)
<1>1. Len(a) \in Nat /\ n \in Nat /\ \A i \in 1..Len(a) : a[i] \in Arguments
  <2>1. Len(a) \in Nat /\ \A i \in 1..Len(a) : a[i] \in STRING
    OBVIOUS
  <2>2. STRING \subseteq Arguments
    BY DEF Arguments
  <2>3. \A i \in 1..Len(a) : a[i] \in Arguments
    BY <2>1, <2>2, Zenon
  <2>4. n \in Nat
    BY <2>1
  <2> QED
    BY <2>1, <2>3, <2>4
<1>2. DOMAIN q = 1..n /\ q = [i \in 1..n |-> q[i]]
  BY DEF CmdInspect
<1>3. SeqOf(q) /\ Len(q) = n
  <2> HIDE DEF q, n
  <2> QED
    BY <1>1, <1>2, SeqOfFunction
<1>4. ASSUME NEW i \in 1..n, i % 2 = 1
      PROVE  /\ q[i].h = getContainersByName(v, {}) /\ q[i].read = "json"
             /\ q[i].arg = a[(i + 1) \div 2] /\ q[i].next = "else"
  BY <1>4 DEF CmdInspect, Step
<1>5. ASSUME NEW i \in 1..n, i % 2 # 1
      PROVE  /\ q[i].h = getImagesByName(v, {}) /\ q[i].read = "json"
             /\ q[i].arg = a[i \div 2] /\ q[i].next = "continue"
  BY <1>5 DEF CmdInspect, Step
<1> HIDE DEF q
<1>6. ASSUME NEW i \in 1..n
      PROVE  /\ Reads("inspect", q[i]) /\ q[i].arg \in Arguments
             /\ q[i].next \in {"stop", "continue", "else", "pull"}
             /\ q[i].next \in {"else", "pull"} => i < n /\ q[i + 1].arg = q[i].arg
  <2>1. CASE i % 2 = 1
    <3>1. (i + 1) \div 2 \in 1..Len(a) /\ i < n /\ (i + 1) % 2 # 1 /\ i + 1 \in 1..n
      BY <1>1, <2>1
    <3>2. q[i + 1].arg = a[(i + 1) \div 2]
      BY <1>5, <3>1
    <3>3. Reads("inspect", q[i])
      BY <1>4, <2>1, TellingHandlers DEF Reads
    <3> QED
      BY <1>1, <1>4, <2>1, <3>1, <3>2, <3>3
  <2>2. CASE i % 2 # 1
    <3>1. i \div 2 \in 1..Len(a)
      BY <1>1, <2>2
    <3>2. Reads("inspect", q[i])
      BY <1>5, <2>2, TellingHandlers DEF Reads
    <3> QED
      BY <1>1, <1>5, <2>2, <3>1, <3>2
  <2> QED
    BY <2>1, <2>2
<1>7. WellFormed("inspect", q)
  <2> HIDE DEF n
  <2> QED
    BY <1>3, <1>6 DEF WellFormed
<1> QED
  BY <1>7 DEF q

\* The creation is tried again when the image has been pulled.
LEMMA RunSteps ==
  ASSUME NEW v, NEW o
  PROVE  WellFormed("run", CmdRun(o))
<1> DEFINE h == postContainersCreate(Set(o, "name", "name", "x"))
           g == postImagesCreate({<<"fromImage", "x">>, <<"tag", "latest">>})
           s == [Step(h, "env") EXCEPT !.next = "pull"]
           r == Step(g, "stream")
           z == Step(h, "env")
           q == <<s>> \o One(g, "stream") \o One(h, "env")
<1>1. Telling(h, "env") /\ Telling(g, "stream")
  BY TellingHandlers, TellingTopAndBuild
<1>2. CmdRun(o) = q /\ One(g, "stream") = <<r>> /\ One(h, "env") = <<z>>
  BY DEF CmdRun, One
<1>3. /\ s.h = h /\ s.read = "env" /\ s.arg = "" /\ s.next = "pull"
      /\ r.h = g /\ r.read = "stream" /\ r.arg = "" /\ r.next = "stop"
      /\ z.h = h /\ z.read = "env" /\ z.arg = "" /\ z.next = "stop"
  BY DEF Step
<1> HIDE DEF h, g, s, r, z
<1>4. q = (<<s>> \o <<r>>) \o <<z>>
  BY <1>2, Zenon DEF q
<1> HIDE DEF q
<1>5. q \in Seq({s, r, z}) /\ Len(q) = 3 /\ q[1] = s /\ q[2] = r /\ q[3] = z
  <2> DEFINE S == {s, r, z}
             x == <<s>>
             y == <<r>>
             w == <<z>>
             xy == x \o y
  <2>1. /\ x \in Seq(S) /\ Len(x) = 1 /\ x[1] = s
        /\ y \in Seq(S) /\ Len(y) = 1 /\ y[1] = r
        /\ w \in Seq(S) /\ Len(w) = 1 /\ w[1] = z
    OBVIOUS
  <2> HIDE DEF S, x, y, w
  <2>2. xy \in Seq(S) /\ Len(xy) = 2 /\ xy[1] = s /\ xy[1 + 1] = r
    <3>1. xy \in Seq(S) /\ Len(xy) = Len(x) + Len(y)
      BY <2>1, ConcatProperties
    <3>2. (\A i \in 1..Len(x) : xy[i] = x[i]) /\ (\A i \in 1..Len(y) : xy[Len(x) + i] = y[i])
      <4>1. x \in Seq(S) /\ y \in Seq(S)
        BY <2>1
      <4> QED
        BY <4>1, ConcatProperties
    <3> HIDE DEF xy
    <3>3. xy[1] = x[1] /\ xy[1 + 1] = y[1]
      BY <2>1, <3>2
    <3> QED
      BY <2>1, <3>1, <3>3
  <2> HIDE DEF xy
  <2>3. xy \o w \in Seq(S) /\ Len(xy \o w) = 3 /\ (xy \o w)[1] = s /\ (xy \o w)[2] = r /\ (xy \o w)[2 + 1] = z
    BY <2>1, <2>2, ConcatProperties
  <2>4. q = xy \o w
    BY <1>4 DEF xy, x, y, w
  <2> QED
    BY <2>3, <2>4 DEF S
<1>6. SeqOf(q)
  BY <1>5, SeqOfSet
<1>7. Reads("run", s) /\ Reads("run", r) /\ Reads("run", z)
  BY <1>1, <1>3 DEF Reads
<1>8. WellFormed("run", q)
  <2>1. s.arg \in Arguments /\ r.arg \in Arguments /\ z.arg \in Arguments
    BY <1>3 DEF Arguments
  <2>2. ASSUME NEW i \in 1..Len(q)
        PROVE  /\ Reads("run", q[i]) /\ q[i].arg \in Arguments
               /\ q[i].next \in {"stop", "continue", "else", "pull"}
               /\ q[i].next \in {"else", "pull"} => i < Len(q) /\ q[i + 1].arg = q[i].arg
    <3>1. CASE i = 1
      <4>1. q[i] = s /\ q[i + 1] = r /\ i < Len(q)
        BY <1>5, <3>1
      <4> QED
        BY <1>3, <1>7, <2>1, <4>1
    <3>2. CASE i = 2
      BY <1>3, <1>5, <1>7, <2>1, <3>2
    <3>3. CASE i = 3
      BY <1>3, <1>5, <1>7, <2>1, <3>3
    <3> QED
      BY <1>5, <3>1, <3>2, <3>3
  <2> QED
    BY <1>6, <2>2 DEF WellFormed
<1> QED
  BY <1>2, <1>8

LEMMA EveryCommand ==
  DOMAIN Options = Several \union {"inspect", "logs", "run"} \union
    {"pause", "unpause", "top", "port", "diff", "export", "cp", "ps", "history", "search", "save", "load",
     "tag", "import", "push", "pull", "images", "commit", "build", "events", "version", "info"}
  BY DEF Options, Several

LEMMA StepsWellFormed ==
  ASSUME NEW c \in DOMAIN Options, NEW v, NEW o, NEW a \in Seq(STRING), a # <<>>
  PROVE  WellFormed(c, StepsOf(c, v, o, a))
<1>1. CASE c \in Several
  BY <1>1, SeveralSteps
<1>2. CASE c = "logs"
  <2>1. StepsOf(c, v, o, a) = CmdLogs(v, o)
    BY <1>2 DEF StepsOf
  <2> QED
    BY <1>2, <2>1, LogsSteps
<1>3. CASE c = "inspect"
  <2>1. StepsOf(c, v, o, a) = CmdInspect(v, o, a)
    BY <1>3 DEF StepsOf
  <2> QED
    BY <1>3, <2>1, InspectSteps
<1>4. CASE c = "run"
  <2>1. StepsOf(c, v, o, a) = CmdRun(o)
    BY <1>4 DEF StepsOf
  <2> QED
    BY <1>4, <2>1, RunSteps
<1>5. CASE c \notin Several /\ c \notin {"inspect", "logs", "run"}
  BY <1>5, EveryCommand, SingleSteps
<1> QED
  BY <1>1, <1>2, <1>3, <1>4, <1>5

-----------------------------------------------------------------------------
(* The inductive invariant.                                                *)

\* How many jobs there are whose answer has been read.
Settled == IF answer = None THEN Len(jobs) ELSE Len(jobs) - 1

Types ==
  /\ cmd \in Commands /\ args \in Names /\ opts \subseteq Options[cmd]
  /\ exit \in {"", "ok", "error"} /\ failed \in BOOLEAN /\ printed \in Seq(STRING)
  /\ SeqOf(jobs) /\ WellFormed(cmd, todo)

\* A request is sent for a step that is left, and no more.
Counted ==
  /\ Len(jobs) <= Len(StepsOf(cmd, version, opts, args))
  /\ exit = "" => Settled + Len(todo) <= Len(StepsOf(cmd, version, opts, args))

\* The answer is to the last job, and is read as the first step says.
Awaited ==
  answer # None =>
    /\ exit = "" /\ todo # <<>> /\ Len(jobs) # 0
    /\ jobs[Len(jobs)].arg = Head(todo).arg
    /\ Done(jobs[Len(jobs)]) => IsGood(Head(todo).read, answer)
    /\ cmd \notin Unsure /\ IsGood(Head(todo).read, answer) => Done(jobs[Len(jobs)])

Ended ==
  /\ exit # "" => answer = None
  /\ exit = "ok" => todo = <<>> /\ ~failed

\* Another job was run, or will be, for the argument of this one.
Retried(i) ==
  \/ \E j \in 1..Len(jobs) : j > i /\ jobs[j].arg = jobs[i].arg
  \/ i = Len(jobs) /\ todo # <<>> /\ Head(todo).arg = jobs[i].arg

Denied == RootRepository \/ NoPublicPort

Blamed == failed \/ exit = "error" => Denied \/ \E i \in 1..Len(jobs) : ~Done(jobs[i])

Vouched ==
  ~failed /\ exit # "error" /\ cmd \notin Unsure => \A i \in 1..Len(jobs) : Done(jobs[i]) \/ Retried(i)

\* Of several names, the settled ones have been tried and the rest is left.
InOrder ==
  cmd \in Several =>
    /\ \A i \in 1..Len(jobs) : jobs[i].arg = args[i]
    /\ Settled + Len(todo) = Len(args)
    /\ \A i \in 1..Len(todo) : todo[i].arg = args[Settled + i] /\ todo[i].next = "continue"
    /\ exit # "" => todo = <<>>

\* of says to which job each argument that was printed belongs.
Prints(of, n) ==
  /\ of \in [1..Len(printed) -> 1..n]
  /\ \A i, j \in 1..Len(printed) : i < j => of[i] < of[j]
  /\ \A i \in 1..Len(printed) : printed[i] = args[of[i]] /\ Done(jobs[of[i]])
  /\ \A k \in 1..n : Done(jobs[k]) => \E i \in 1..Len(printed) : of[i] = k

Printed == cmd \in Several => \E of \in [1..Len(printed) -> 1..Settled] : Prints(of, Settled)

IInv == Types /\ Counted /\ Awaited /\ Ended /\ Blamed /\ Vouched /\ InOrder /\ Printed

\* What is asked for does not change.
LEMMA DeniedKept ==
  ASSUME cmd' = cmd, args' = args
  PROVE  Denied' <=> Denied
  BY DEF Denied, RootRepository, NoPublicPort

LEMMA SeqOfMore ==
  ASSUME NEW S, NEW T, S \subseteq T, NEW q \in Seq(S)
  PROVE  q \in Seq(T)
  OBVIOUS

LEMMA InitInv == Init => IInv
<1> SUFFICES ASSUME Init PROVE IInv
  OBVIOUS
<1>1. jobs = <<>> /\ Len(jobs) = 0 /\ printed = <<>> /\ Len(printed) = 0 /\ answer = None /\ Settled = 0
  BY DEF Init, Settled
<1>2. cmd \in DOMAIN Options /\ args \in Seq(STRING) /\ args # <<>> /\ cmd \in Commands /\ args \in Names
  <2>1. args \in Seq(STRING \ {""}) /\ args # <<>> /\ args \in Names
    BY NamesAssumption DEF Init
  <2>2. args \in Seq(STRING)
    <3>1. STRING \ {""} \subseteq STRING
      OBVIOUS
    <3> QED
      BY <2>1, <3>1, SeqOfMore
  <2> QED
    BY <2>1, <2>2, CommandsAssumption DEF Init
<1>3. todo = StepsOf(cmd, version, opts, args)
  BY DEF Init
<1>4. WellFormed(cmd, todo)
  BY <1>2, <1>3, StepsWellFormed
<1>5. SeqOf(jobs)
  BY <1>1 DEF SeqOf
<1>a. exit = "" /\ ~failed /\ failed \in BOOLEAN /\ todo = StepsOf(cmd, version, opts, args)
  BY Zenon DEF Init
<1>6. Types
  <2>1. printed \in Seq(STRING)
    BY <1>1
  <2>2. opts \subseteq Options[cmd]
    BY DEF Init
  <2> QED
    BY <1>2, <1>4, <1>5, <1>a, <2>1, <2>2 DEF Types
<1>7. Len(todo) \in Nat
  BY <1>4, SeqOfFacts DEF WellFormed
<1>8. Counted
  BY <1>1, <1>3, <1>7 DEF Counted
<1>9. Awaited /\ Ended /\ Blamed /\ Vouched
  <2>1. Awaited /\ Ended
    BY <1>1, <1>a DEF Awaited, Ended
  <2>2. Blamed
    BY <1>a DEF Blamed
  <2>3. Vouched
    BY <1>1 DEF Vouched
  <2> QED
    BY <2>1, <2>2, <2>3
<1>10. InOrder
  <2> SUFFICES ASSUME cmd \in Several PROVE InOrder
    BY DEF InOrder
  <2>1. ForEach(todo, args)
    BY <1>2, <1>3, SeveralSteps
  <2> QED
    <3>1. Len(todo) = Len(args) /\ \A i \in 1..Len(todo) : todo[i].arg = args[i] /\ todo[i].next = "continue"
      BY <2>1 DEF ForEach
    <3>2. Settled + Len(todo) = Len(args) /\ \A i \in 1..Len(todo) : Settled + i = i
      BY <1>1, <1>7, <3>1
    <3>3. \A i \in 1..Len(jobs) : FALSE
      BY <1>1
    <3> QED
      BY <1>a, <3>1, <3>2, <3>3, Zenon DEF InOrder
<1>11. Printed
  <2> DEFINE of == [i \in 1..0 |-> 0]
  <2>1. of \in [1..0 -> 1..0] /\ Prints(of, 0)
    BY <1>1 DEF Prints
  <2> QED
    BY <1>1, <2>1 DEF Printed
<1> QED
  BY <1>6, <1>8, <1>9, <1>10, <1>11 DEF IInv

-----------------------------------------------------------------------------
(* A request and its answer.                                               *)

\* What a request does, whoever answers it.
Asked(j) ==
  /\ exit = "" /\ todo # <<>> /\ answer = None /\ answer' # None
  /\ jobs' = Append(jobs, j) /\ j.arg = Head(todo).arg
  /\ Done(j) => IsGood(Head(todo).read, answer')
  /\ cmd \notin Unsure /\ IsGood(Head(todo).read, answer') => Done(j)
  /\ UNCHANGED <<cmd, args, opts, version, todo, exit, failed, printed>>

LEMMA HeadFacts ==
  ASSUME NEW c, NEW q, WellFormed(c, q), q # <<>>
  PROVE  /\ Reads(c, Head(q)) /\ Head(q).arg \in Arguments
         /\ Head(q).next \in {"stop", "continue", "else", "pull"}
         /\ Head(q).next \in {"else", "pull"} => Tail(q) # <<>> /\ Head(Tail(q)).arg = Head(q).arg
<1>1. SeqOf(q)
  BY DEF WellFormed
<1>2. Len(q) \in Nat /\ Len(q) # 0 /\ Head(q) = q[1] /\ 1 \in 1..Len(q)
  BY <1>1, SeqOfFacts, SeqOfTail
<1>3. /\ Reads(c, q[1]) /\ q[1].arg \in Arguments /\ q[1].next \in {"stop", "continue", "else", "pull"}
      /\ q[1].next \in {"else", "pull"} => 1 < Len(q) /\ q[1 + 1].arg = q[1].arg
  BY <1>2, Zenon DEF WellFormed
<1>4. ASSUME 1 < Len(q) PROVE Tail(q) # <<>> /\ Head(Tail(q)) = q[1 + 1]
  <2>1. SeqOf(Tail(q)) /\ Len(Tail(q)) = Len(q) - 1 /\ \A i \in 1..Len(Tail(q)) : Tail(q)[i] = q[i + 1]
    BY <1>1, <1>2, SeqOfFacts, SeqOfTail
  <2>2. Tail(q) # <<>> /\ 1 \in 1..Len(Tail(q))
    BY <1>2, <1>4, <2>1, SeqOfFacts
  <2> QED
    BY <2>1, <2>2, SeqOfTail
<1> QED
  BY <1>2, <1>3, <1>4

LEMMA RanFields ==
  ASSUME NEW job, NEW env, NEW o
  PROVE  /\ Ran(job, env, o).job = job /\ Ran(job, env, o).o = o /\ Ran(job, env, o).arg = Head(todo).arg
  BY DEF Ran

LEMMA ServeAsks ==
  ASSUME Types, NEW o \in Outcomes, Serve(o)
  PROVE  \E j : Asked(j)
<1> DEFINE s == Head(todo)
<1>1. exit = "" /\ todo # <<>> /\ answer = None /\ UNCHANGED <<cmd, args, opts, version, todo, exit, failed, printed>>
  BY DEF Serve
<1>2. Reads(cmd, s)
  BY <1>1, HeadFacts DEF Types
<1>3. CASE Rejects(version, s.h)
  <2> DEFINE j == Ran("none", {}, Lost)
  <2>1. answer' = Reject(version, s.h) /\ jobs' = Append(jobs, j)
    BY <1>3, Zenon DEF Serve
  <2>2. ~IsGood(s.read, answer') /\ answer' # None
    BY <2>1, RejectIsBad
  <2>3. j.arg = s.arg /\ j.job = "none" /\ j.o = Lost
    BY RanFields
  <2>4. ~Done(j)
    BY <2>3 DEF Done, Lost
  <2> HIDE DEF j
  <2>5. Asked(j)
    BY <1>1, <2>1, <2>2, <2>3, <2>4 DEF Asked
  <2> QED
    BY <2>5
<1>4. CASE ~Rejects(version, s.h)
  <2> DEFINE j == Ran(s.h.job, s.h.env, o)
  <2>1. answer' = AnswerOf(s.h, o) /\ jobs' = Append(jobs, j)
    BY <1>4, Zenon DEF Serve
  <2>2. j.arg = s.arg /\ j.job = s.h.job /\ j.o = o
    BY RanFields
  <2>3. Done(j) <=> IsDone(s.h, o)
    BY <2>2 DEF Done, IsDone
  <2> HIDE DEF j
  <2>4. CASE Telling(s.h, s.read)
    <3>1. (IsGood(s.read, answer') <=> Done(j)) /\ answer' # None
      BY <2>1, <2>3, <2>4, TellingAnswer
    <3>2. Asked(j)
      BY <1>1, <2>1, <2>2, <3>1 DEF Asked
    <3> QED
      BY <3>2
  <2>5. CASE cmd \in Unsure /\ Vague(s.h, s.read)
    <3>1. (Done(j) => IsGood(s.read, answer')) /\ answer' # None
      BY <2>1, <2>3, <2>5, VagueAnswer
    <3>2. Asked(j)
      BY <1>1, <2>1, <2>2, <2>5, <3>1 DEF Asked
    <3> QED
      BY <3>2
  <2> QED
    BY <1>2, <2>4, <2>5 DEF Reads
<1> QED
  BY <1>3, <1>4

LEMMA UnreachableAsks ==
  ASSUME Unreachable
  PROVE  \E j : Asked(j)
<1> DEFINE j == Ran("none", {}, Lost)
<1>1. /\ exit = "" /\ todo # <<>> /\ answer = None /\ UNCHANGED <<cmd, args, opts, version, todo, exit, failed, printed>>
      /\ answer' = Answer(-1, "error", FALSE) /\ jobs' = Append(jobs, j)
  BY Zenon DEF Unreachable
<1>2. ~IsGood(Head(todo).read, answer') /\ answer' # None
  BY <1>1, UnreachedIsBad
<1>3. j.arg = Head(todo).arg /\ j.job = "none" /\ j.o = Lost
  BY RanFields
<1>4. ~Done(j)
  BY <1>3 DEF Done, Lost
<1> HIDE DEF j
<1>5. Asked(j)
  BY <1>1, <1>2, <1>3, <1>4 DEF Asked
<1> QED
  BY <1>5

LEMMA AllSteps ==
  ASSUME Types
  PROVE  Len(StepsOf(cmd, version, opts, args)) \in Nat
<1>1. cmd \in DOMAIN Options /\ args \in Seq(STRING \ {""}) /\ args # <<>>
  BY CommandsAssumption, NamesAssumption DEF Types
<1>2. args \in Seq(STRING)
  <2>1. STRING \ {""} \subseteq STRING
    OBVIOUS
  <2> QED
    BY <1>1, <2>1, SeqOfMore
<1> QED
  BY <1>1, <1>2, StepsWellFormed, SeqOfFacts DEF WellFormed

\* The jobs there were are still there, and the new one is the last.
LEMMA AskedJobs ==
  ASSUME Types, Awaited, NEW j, Asked(j)
  PROVE  /\ Len(jobs) \in Nat /\ Len(jobs') = Len(jobs) + 1 /\ SeqOf(jobs')
         /\ \A i \in 1..Len(jobs) : jobs'[i] = jobs[i]
         /\ jobs'[Len(jobs) + 1] = j
         /\ Settled = Len(jobs) /\ Settled' = Len(jobs)
         /\ Len(todo) \in Nat /\ Len(todo) # 0 /\ Head(todo) = todo[1]
<1>1. SeqOf(jobs) /\ SeqOf(todo) /\ todo # <<>> /\ jobs' = Append(jobs, j) /\ answer = None /\ answer' # None
  BY DEF Types, WellFormed, Asked
<1>2. Len(jobs) \in Nat /\ Len(todo) \in Nat /\ Len(todo) # 0 /\ Head(todo) = todo[1]
  BY <1>1, SeqOfFacts, SeqOfTail
<1>3. /\ Len(jobs') = Len(jobs) + 1 /\ SeqOf(jobs')
      /\ \A i \in 1..Len(jobs) : jobs'[i] = jobs[i]
      /\ jobs'[Len(jobs) + 1] = j
  BY <1>1, SeqOfAppend
<1>4. Settled = Len(jobs) /\ Settled' = Len(jobs)
  BY <1>1, <1>2, <1>3 DEF Settled
<1> QED
  BY <1>2, <1>3, <1>4

LEMMA AskedKeeps ==
  ASSUME IInv, NEW j, Asked(j)
  PROVE  IInv'
<1>1. Types /\ Counted /\ Awaited /\ Ended /\ Blamed /\ Vouched /\ InOrder /\ Printed
  BY DEF IInv
<1>2. /\ Len(jobs) \in Nat /\ Len(jobs') = Len(jobs) + 1 /\ SeqOf(jobs')
      /\ \A i \in 1..Len(jobs) : jobs'[i] = jobs[i]
      /\ jobs'[Len(jobs) + 1] = j
      /\ Settled = Len(jobs) /\ Settled' = Len(jobs)
      /\ Len(todo) \in Nat /\ Len(todo) # 0 /\ Head(todo) = todo[1]
  BY <1>1, AskedJobs
<1>3. /\ exit = "" /\ todo # <<>> /\ answer = None /\ answer' # None /\ j.arg = Head(todo).arg
      /\ UNCHANGED <<cmd, args, opts, version, todo, exit, failed, printed>>
  BY DEF Asked
<1>4. Types'
  BY <1>1, <1>2, <1>3 DEF Types
<1>5. Counted'
  <2> DEFINE n == Len(StepsOf(cmd, version, opts, args))
  <2>1. Len(jobs) <= n /\ Len(jobs) + Len(todo) <= n
    BY <1>1, <1>2, <1>3 DEF Counted
  <2>2. n' = n
    BY <1>3
  <2> HIDE DEF n
  <2>3. n \in Nat
    BY <1>1, AllSteps DEF n
  <2>4. Len(jobs) + 1 <= n
    BY <1>2, <2>1, <2>3
  <2> QED
    BY <1>2, <1>3, <2>1, <2>2, <2>4 DEF Counted, n
<1>6. Awaited'
  <2>1. jobs'[Len(jobs')] = j /\ Len(jobs') # 0
    BY <1>2
  <2>2. Done(j) => IsGood(Head(todo).read, answer')
    BY DEF Asked
  <2>3. cmd \notin Unsure /\ IsGood(Head(todo).read, answer') => Done(j)
    BY DEF Asked
  <2> QED
    BY <1>3, <2>1, <2>2, <2>3 DEF Awaited
<1>7. Ended'
  BY <1>1, <1>3 DEF Ended
<1>8. Blamed'
  <2>0. Denied' <=> Denied
    BY <1>3, DeniedKept
  <2> SUFFICES ASSUME failed \/ exit = "error", ~Denied PROVE \E i \in 1..Len(jobs') : ~Done(jobs'[i])
    BY <1>3, <2>0, Zenon DEF Blamed
  <2>1. PICK i \in 1..Len(jobs) : ~Done(jobs[i])
    BY <1>1 DEF Blamed
  <2>2. i \in 1..Len(jobs') /\ jobs'[i] = jobs[i]
    BY <1>2
  <2> QED
    BY <2>1, <2>2
<1>9. Vouched'
  <2> SUFFICES ASSUME ~failed, exit # "error", cmd \notin Unsure, NEW i \in 1..Len(jobs')
               PROVE  Done(jobs'[i]) \/ Retried(i)'
    BY <1>3 DEF Vouched
  <2>1. CASE i = Len(jobs) + 1
    BY <1>2, <1>3, <2>1 DEF Retried
  <2>2. CASE i # Len(jobs) + 1
    <3>1. i \in 1..Len(jobs) /\ jobs'[i] = jobs[i]
      BY <1>2, <2>2
    <3>2. Done(jobs[i]) \/ Retried(i)
      BY <1>1, <3>1 DEF Vouched
    <3>3. ASSUME NEW k \in 1..Len(jobs), k > i, jobs[k].arg = jobs[i].arg
          PROVE  Retried(i)'
      <4>1. k \in 1..Len(jobs') /\ jobs'[k].arg = jobs'[i].arg
        BY <1>2, <3>1, <3>3
      <4> QED
        BY <3>3, <4>1 DEF Retried
    <3>4. ASSUME i = Len(jobs), Head(todo).arg = jobs[i].arg
          PROVE  Retried(i)'
      <4>1. /\ Len(jobs) + 1 \in 1..Len(jobs') /\ Len(jobs) + 1 > i
            /\ jobs'[Len(jobs) + 1].arg = jobs'[i].arg
        <5>1. jobs'[Len(jobs) + 1].arg = Head(todo).arg
          BY <1>2, <1>3, Zenon
        <5>2. Head(todo).arg = jobs'[i].arg
          BY <3>1, <3>4, Zenon
        <5> QED
          BY <1>2, <3>1, <5>1, <5>2
      <4> QED
        BY <4>1 DEF Retried
    <3> QED
      BY <3>1, <3>2, <3>3, <3>4 DEF Retried
  <2> QED
    BY <2>1, <2>2
<1>10. InOrder'
  <2> SUFFICES ASSUME cmd \in Several PROVE InOrder'
    BY <1>3 DEF InOrder
  <2>1. /\ \A i \in 1..Len(jobs) : jobs[i].arg = args[i]
        /\ Settled + Len(todo) = Len(args)
        /\ \A i \in 1..Len(todo) : todo[i].arg = args[Settled + i] /\ todo[i].next = "continue"
    BY <1>1 DEF InOrder
  <2>2. j.arg = args[Len(jobs) + 1]
    <3>1. todo[1].arg = args[Settled + 1]
      BY <1>2, <2>1
    <3> QED
      BY <1>2, <1>3, <3>1, Zenon
  <2>3. \A i \in 1..Len(jobs') : jobs'[i].arg = args[i]
    BY <1>2, <2>1, <2>2
  <2>4. Settled' = Settled
    BY <1>2
  <2> QED
    BY <1>3, <2>1, <2>3, <2>4, Zenon DEF InOrder
<1>11. Printed'
  <2> SUFFICES ASSUME cmd \in Several PROVE Printed'
    BY <1>3 DEF Printed
  <2>1. PICK of \in [1..Len(printed) -> 1..Settled] : Prints(of, Settled)
    BY <1>1 DEF Printed
  <2>2. of \in [1..Len(printed') -> 1..Settled'] /\ Settled' = Settled
    BY <1>2, <1>3, <2>1
  <2>3. \A k \in 1..Settled : jobs'[k] = jobs[k]
    BY <1>2
  <2>4. \A i \in 1..Len(printed) : of[i] \in 1..Settled
    BY <2>1
  <2>5. Prints(of, Settled)'
    BY <1>3, <2>1, <2>2, <2>3, <2>4 DEF Prints
  <2> QED
    BY <2>2, <2>5 DEF Printed
<1> QED
  BY <1>4, <1>5, <1>6, <1>7, <1>8, <1>9, <1>10, <1>11 DEF IInv

-----------------------------------------------------------------------------
(* The reading of an answer.                                               *)

\* What every reading does: the answer is gone, and a step or the command is over.
Taken ==
  /\ answer # None /\ answer' = None
  /\ UNCHANGED <<cmd, args, opts, version, jobs>>
  /\ \/ exit' = "" /\ todo' = Tail(todo)
     \/ exit' = "" /\ Head(todo).next = "else" /\ todo' = Tail(Tail(todo))
     \/ exit' = "" /\ Head(todo).next = "pull" /\ todo' = <<>>
     \/ exit' = "error" /\ Head(todo).next \in {"stop", "pull"} /\ todo' = todo

LEMMA TakenFacts ==
  ASSUME Types, Awaited, Taken
  PROVE  /\ exit = "" /\ todo # <<>> /\ Len(jobs) # 0 /\ SeqOf(jobs) /\ SeqOf(todo)
         /\ jobs[Len(jobs)].arg = Head(todo).arg /\ answer # None /\ answer' = None /\ jobs' = jobs
<1>1. SeqOf(jobs) /\ SeqOf(todo)
  BY DEF Types, WellFormed
<1> QED
  BY <1>1, Zenon DEF Awaited, Taken

LEMMA TakenCounts ==
  ASSUME Types, Awaited, Taken
  PROVE  /\ Len(jobs) \in Nat /\ Len(todo) \in Nat /\ Settled \in Nat
         /\ Len(jobs) = Settled + 1 /\ Settled' = Settled + 1
<1>1. Len(jobs) # 0 /\ answer # None /\ answer' = None /\ jobs' = jobs
  BY TakenFacts
<1>2. Len(jobs) \in Nat /\ Len(todo) \in Nat
  BY TakenFacts, SeqOfFacts
<1>3. Settled = Len(jobs) - 1 /\ Settled' = Len(jobs)
  BY <1>1 DEF Settled
<1>4. Len(jobs) # 0
  BY <1>1
<1> QED
  BY <1>2, <1>3, <1>4

LEMMA TakenTodo ==
  ASSUME Types, Awaited, Taken
  PROVE  /\ WellFormed(cmd, todo')
         /\ exit' = "error" \/ (Len(todo') < Len(todo) /\ Len(todo') \in Nat)
<1> DEFINE t == Tail(todo)
           u == Tail(t)
<1>1. WellFormed(cmd, todo) /\ todo # <<>>
  BY TakenFacts DEF Types
<1>2. SeqOf(todo) /\ Len(todo) \in Nat /\ Len(todo) # 0
  BY <1>1, SeqOfFacts DEF WellFormed
<1>3. WellFormed(cmd, t) /\ Len(t) = Len(todo) - 1
  BY <1>1, <1>2, TailWellFormed, SeqOfTail
<1>4. \/ todo' = t
      \/ Head(todo).next = "else" /\ todo' = u
      \/ todo' = <<>>
      \/ exit' = "error" /\ todo' = todo
  BY Zenon DEF Taken
<1>5. CASE todo' = t
  <2> HIDE DEF t
  <2>1. Len(todo') < Len(todo) /\ Len(todo') \in Nat
    <3>1. Len(todo') = Len(todo) - 1
      BY <1>3, <1>5
    <3> QED
      BY <1>2, <3>1
  <2> QED
    BY <1>3, <1>5, <2>1
<1>6. CASE Head(todo).next = "else" /\ todo' = u
  <2>1. t # <<>>
    BY <1>1, <1>6, HeadFacts
  <2> HIDE DEF t
  <2>2. WellFormed(cmd, u) /\ Len(u) = Len(t) - 1 /\ Len(t) # 0 /\ Len(t) \in Nat
    <3>1. SeqOf(t)
      BY <1>3 DEF WellFormed
    <3>2. Len(t) # 0 /\ Len(t) \in Nat
      BY <2>1, <3>1, SeqOfFacts
    <3>3. Len(u) = Len(t) - 1
      BY <2>1, <3>1, SeqOfTail
    <3> QED
      BY <1>3, <2>1, <3>2, <3>3, TailWellFormed
  <2> HIDE DEF u
  <2>3. Len(todo') = Len(u)
    BY <1>6
  <2>4. Len(todo') < Len(todo) /\ Len(todo') \in Nat
    BY <1>2, <1>3, <2>2, <2>3
  <2> QED
    BY <1>6, <2>2, <2>4
<1>7. CASE todo' = <<>>
  <2>1. Len(<<>>) = 0 /\ SeqOf(<<>>)
    BY DEF SeqOf
  <2>2. WellFormed(cmd, <<>>)
    BY <2>1 DEF WellFormed
  <2>3. Len(todo') = 0
    BY <1>7
  <2>4. Len(todo') < Len(todo) /\ Len(todo') \in Nat
    BY <1>2, <2>3
  <2> QED
    BY <1>7, <2>2, <2>4
<1>8. CASE exit' = "error" /\ todo' = todo
  BY <1>1, <1>8
<1> QED
  BY <1>4, <1>5, <1>6, <1>7, <1>8, Zenon

\* What does not depend on whether the answer was good.
LEMMA TakenKeeps ==
  ASSUME IInv, Taken, failed' \in BOOLEAN, printed' \in Seq(STRING)
  PROVE  Types' /\ Counted' /\ Awaited' /\ Ended'
<1>1. Types /\ Counted /\ Awaited
  BY DEF IInv
<1>2. /\ Len(jobs) \in Nat /\ Len(todo) \in Nat /\ Settled \in Nat
      /\ Len(jobs) = Settled + 1 /\ Settled' = Settled + 1
  BY <1>1, TakenCounts
<1>3. WellFormed(cmd, todo') /\ (exit' = "error" \/ (Len(todo') < Len(todo) /\ Len(todo') \in Nat))
  BY <1>1, TakenTodo
<1>4. answer' = None /\ exit' \in {"", "error"} /\ UNCHANGED <<cmd, args, opts, version, jobs>>
  BY DEF Taken
<1>5. Types'
  BY <1>1, <1>3, <1>4 DEF Types
<1>6. Counted'
  <2> DEFINE n == Len(StepsOf(cmd, version, opts, args))
  <2>1. n \in Nat
    BY <1>1, AllSteps
  <2>2. Len(jobs) <= n /\ Settled + Len(todo) <= n
    BY <1>1, TakenFacts DEF Counted
  <2>3. n' = n
    BY <1>4
  <2> HIDE DEF n
  <2>4. ASSUME Len(todo') < Len(todo), Len(todo') \in Nat PROVE Settled' + Len(todo') <= n
    BY <1>2, <2>1, <2>2, <2>4
  <2>5. exit' = "" => Settled' + Len(todo') <= n
    BY <1>3, <2>4
  <2> QED
    BY <1>4, <2>2, <2>3, <2>5 DEF Counted, n
<1>7. Awaited' /\ Ended'
  BY <1>4 DEF Awaited, Ended
<1> QED
  BY <1>5, <1>6, <1>7

\* Of several names the next one is left, whatever became of this one.
LEMMA TakenInOrder ==
  ASSUME IInv, Taken
  PROVE  InOrder'
<1> SUFFICES ASSUME cmd \in Several PROVE InOrder'
  BY DEF InOrder, Taken
<1> DEFINE t == Tail(todo)
<1>1. Types /\ Awaited /\ InOrder
  BY DEF IInv
<1>2. /\ Len(jobs) \in Nat /\ Len(todo) \in Nat /\ Settled \in Nat
      /\ Len(jobs) = Settled + 1 /\ Settled' = Settled + 1
  BY <1>1, TakenCounts
<1>3. /\ \A i \in 1..Len(jobs) : jobs[i].arg = args[i]
      /\ \A i \in 1..Len(todo) : todo[i].arg = args[Settled + i] /\ todo[i].next = "continue"
  BY <1>1 DEF InOrder
<1>4. Settled + Len(todo) = Len(args)
  BY <1>1 DEF InOrder
<1>5. SeqOf(todo) /\ todo # <<>>
  BY <1>1, TakenFacts
<1>6. Len(todo) # 0 /\ 1 \in 1..Len(todo)
  <2>1. Len(todo) # 0
    BY <1>5, SeqOfFacts
  <2> QED
    BY <1>2, <2>1
<1>7. Len(t) = Len(todo) - 1 /\ Head(todo) = todo[1] /\ \A i \in 1..Len(t) : t[i] = todo[i + 1]
  BY <1>5, SeqOfTail
<1> HIDE DEF t
<1>8. Head(todo).next = "continue"
  BY <1>3, <1>6, <1>7, Zenon
<1>9. exit' = "" /\ todo' = t /\ UNCHANGED <<cmd, args, jobs>>
  BY <1>8 DEF Taken, t
<1>10. Settled' + Len(todo') = Len(args)
  <2>1. Len(todo') = Len(todo) - 1
    BY <1>7, <1>9
  <2> QED
    BY <1>2, <1>4, <2>1
<1>11. ASSUME NEW i \in 1..Len(todo')
       PROVE  todo'[i].arg = args[Settled' + i] /\ todo'[i].next = "continue"
  <2>1. Len(todo') = Len(todo) - 1
    BY <1>7, <1>9
  <2>2. i + 1 \in 1..Len(todo) /\ Settled' + i = Settled + (i + 1)
    BY <1>2, <2>1
  <2>3. i \in 1..Len(t)
    BY <1>9
  <2>4. todo'[i] = todo[i + 1]
    BY <1>7, <1>9, <2>3
  <2> QED
    BY <1>3, <2>2, <2>4, Zenon
<1> QED
  BY <1>3, <1>9, <1>10, <1>11, Zenon DEF InOrder

LEMMA ErrorTaken ==
  ASSUME IInv, ReadError
  PROVE  /\ Taken /\ ~Done(jobs[Len(jobs)]) /\ printed' = printed /\ failed' \in BOOLEAN
         /\ failed => failed'
         /\ failed' \/ exit' = "error" \/ (Head(todo).next \in {"else", "pull"} /\ todo' = Tail(todo))
<1> DEFINE s == Head(todo)
<1>1. Types /\ Awaited
  BY DEF IInv
<1>2. /\ answer # None /\ answer' = None /\ (CallFails(answer) \/ Garbled(s.read, answer))
      /\ UNCHANGED <<cmd, args, opts, version, printed, jobs>>
  BY Zenon DEF ReadError
<1>3. exit = "" /\ failed \in BOOLEAN /\ (Done(jobs[Len(jobs)]) => IsGood(s.read, answer))
  BY <1>1, <1>2, Zenon DEF Awaited, Types
<1>4. ~Done(jobs[Len(jobs)])
  BY <1>2, <1>3 DEF IsGood
<1>5. \/ s.next = "continue" /\ failed' = TRUE /\ todo' = Tail(todo) /\ UNCHANGED exit
      \/ s.next = "else" /\ todo' = Tail(todo) /\ UNCHANGED <<exit, failed>>
      \/ s.next = "else" /\ failed' = TRUE /\ todo' = Tail(Tail(todo)) /\ UNCHANGED exit
      \/ s.next = "pull" /\ todo' = Tail(todo) /\ UNCHANGED <<exit, failed>>
      \/ s.next \in {"stop", "pull"} /\ exit' = "error" /\ UNCHANGED <<todo, failed>>
  <2> HIDE DEF s
  <2>1. s = Head(todo)
    BY DEF s
  <2> QED
    BY <2>1, Zenon DEF ReadError
<1> HIDE DEF s
<1>6. CASE s.next = "continue" /\ failed' = TRUE /\ todo' = Tail(todo) /\ UNCHANGED exit
  <2>1. Taken
    BY <1>2, <1>3, <1>6 DEF Taken
  <2> QED
    BY <1>2, <1>4, <1>6, <2>1, Zenon
<1>7. CASE s.next = "else" /\ todo' = Tail(todo) /\ UNCHANGED <<exit, failed>>
  <2>1. Taken
    BY <1>2, <1>3, <1>7 DEF Taken
  <2>2. Head(todo).next \in {"else", "pull"} /\ failed' = failed
    BY <1>7 DEF s
  <2>3. failed' \in BOOLEAN /\ (failed => failed')
    BY <1>3, <2>2, Zenon
  <2>4. printed' = printed /\ todo' = Tail(todo)
    BY <1>2, <1>7
  <2> QED
    BY <1>4, <2>1, <2>2, <2>3, <2>4, Zenon
<1>8. CASE s.next = "else" /\ failed' = TRUE /\ todo' = Tail(Tail(todo)) /\ UNCHANGED exit
  <2>1. Taken
    BY <1>2, <1>3, <1>8 DEF Taken, s
  <2> QED
    BY <1>2, <1>4, <1>8, <2>1, Zenon
<1>9. CASE s.next = "pull" /\ todo' = Tail(todo) /\ UNCHANGED <<exit, failed>>
  <2>1. Taken
    BY <1>2, <1>3, <1>9 DEF Taken
  <2>2. Head(todo).next \in {"else", "pull"} /\ failed' = failed
    BY <1>9 DEF s
  <2>3. failed' \in BOOLEAN /\ (failed => failed')
    BY <1>3, <2>2, Zenon
  <2>4. printed' = printed /\ todo' = Tail(todo)
    BY <1>2, <1>9
  <2> QED
    BY <1>4, <2>1, <2>2, <2>3, <2>4, Zenon
<1>10. CASE s.next \in {"stop", "pull"} /\ exit' = "error" /\ UNCHANGED <<todo, failed>>
  <2>1. Taken
    BY <1>2, <1>3, <1>10 DEF Taken, s
  <2>2. failed' = failed
    BY <1>10
  <2>3. failed' \in BOOLEAN /\ (failed => failed')
    BY <1>3, <2>2, Zenon
  <2>4. printed' = printed /\ exit' = "error"
    BY <1>2, <1>10
  <2> QED
    BY <1>4, <2>1, <2>2, <2>3, <2>4, Zenon
<1> QED
  BY <1>5, <1>6, <1>7, <1>8, <1>9, <1>10, Zenon

LEMMA ErrorKeeps ==
  ASSUME IInv, ReadError
  PROVE  IInv'
<1>1. Types /\ Awaited /\ Blamed /\ Vouched /\ InOrder /\ Printed
  BY DEF IInv
<1>2. /\ Taken /\ ~Done(jobs[Len(jobs)]) /\ printed' = printed /\ failed' \in BOOLEAN
      /\ failed => failed'
      /\ failed' \/ exit' = "error" \/ (Head(todo).next \in {"else", "pull"} /\ todo' = Tail(todo))
  BY ErrorTaken
<1>3. printed' \in Seq(STRING)
  BY <1>1, <1>2 DEF Types
<1>4. Types' /\ Counted' /\ Awaited' /\ Ended' /\ InOrder'
  BY <1>2, <1>3, TakenKeeps, TakenInOrder
<1>5. /\ Len(jobs) \in Nat /\ Settled \in Nat /\ Len(jobs) = Settled + 1 /\ Settled' = Settled + 1
  BY <1>1, <1>2, TakenCounts
<1>6. cmd' = cmd /\ args' = args /\ jobs' = jobs
  BY <1>2 DEF Taken
<1>7. exit = "" /\ todo # <<>> /\ jobs[Len(jobs)].arg = Head(todo).arg
  BY <1>1, <1>2, TakenFacts
<1>8. Len(jobs) \in 1..Len(jobs)
  BY <1>5
<1>9. Blamed'
  BY <1>2, <1>6, <1>8, Zenon DEF Blamed
<1>10. Vouched'
  <2> SUFFICES ASSUME ~failed', exit' # "error", cmd \notin Unsure, NEW i \in 1..Len(jobs)
               PROVE  Done(jobs'[i]) \/ Retried(i)'
    BY <1>6, Zenon DEF Vouched
  <2>1. Head(todo).next \in {"else", "pull"} /\ todo' = Tail(todo)
    BY <1>2
  <2>2. todo' # <<>> /\ Head(todo').arg = Head(todo).arg
    BY <1>1, <1>7, <2>1, HeadFacts DEF Types
  <2>3. ~failed /\ exit # "error"
    BY <1>2, <1>7
  <2>4. Done(jobs[i]) \/ Retried(i)
    BY <1>1, <2>3, Zenon DEF Vouched
  <2>5. Retried(i) => Retried(i)'
    BY <1>6, <2>2 DEF Retried
  <2> QED
    BY <1>6, <2>4, <2>5
<1>11. Printed'
  <2> SUFFICES ASSUME cmd \in Several PROVE Printed'
    BY <1>6 DEF Printed
  <2>1. PICK of \in [1..Len(printed) -> 1..Settled] : Prints(of, Settled)
    BY <1>1 DEF Printed
  <2>2. 1..Settled \subseteq 1..Settled'
    BY <1>5
  <2>3. of \in [1..Len(printed) -> 1..Settled']
    BY <2>1, <2>2
  <2>4. ASSUME NEW k \in 1..Settled', Done(jobs[k]) PROVE \E i \in 1..Len(printed) : of[i] = k
    <3>1. k # Len(jobs)
      BY <1>2, <2>4
    <3>2. k \in 1..Settled
      BY <1>5, <3>1
    <3> QED
      BY <2>1, <2>4, <3>2, Zenon DEF Prints
  <2>5. Prints(of, Settled)'
    BY <1>2, <1>6, <2>1, <2>3, <2>4, Zenon DEF Prints
  <2> QED
    BY <1>2, <2>3, <2>5, Zenon DEF Printed
<1> QED
  BY <1>4, <1>9, <1>10, <1>11 DEF IInv

LEMMA OkTaken ==
  ASSUME IInv, ReadOk
  PROVE  /\ Taken /\ (cmd \notin Unsure => Done(jobs[Len(jobs)])) /\ failed' = failed /\ exit' = ""
         /\ printed' = IF Head(todo).arg = "" THEN printed ELSE Append(printed, Head(todo).arg)
<1> DEFINE s == Head(todo)
<1>1. Types /\ Awaited
  BY DEF IInv
<1>2. /\ answer # None /\ answer' = None /\ ~CallFails(answer) /\ ~Garbled(s.read, answer)
      /\ UNCHANGED <<cmd, args, opts, version, exit, failed, jobs>>
      /\ printed' = IF s.arg = "" THEN printed ELSE Append(printed, s.arg)
      /\ todo' = CASE s.next = "pull" -> <<>> [] s.next = "else" -> Tail(Tail(todo)) [] OTHER -> Tail(todo)
  BY Zenon DEF ReadOk
<1>3. IsGood(s.read, answer)
  BY <1>2 DEF IsGood
<1>4. exit = "" /\ (cmd \notin Unsure => Done(jobs[Len(jobs)]))
  BY <1>1, <1>2, <1>3, Zenon DEF Awaited
<1>5. \/ todo' = Tail(todo)
      \/ s.next = "else" /\ todo' = Tail(Tail(todo))
      \/ s.next = "pull" /\ todo' = <<>>
  <2> DEFINE t == Tail(todo)
             u == Tail(Tail(todo))
  <2>1. todo' = CASE s.next = "pull" -> <<>> [] s.next = "else" -> u [] OTHER -> t
    BY <1>2
  <2> HIDE DEF s, t, u
  <2>2. \/ todo' = t
        \/ s.next = "else" /\ todo' = u
        \/ s.next = "pull" /\ todo' = <<>>
    BY <2>1
  <2> QED
    BY <2>2 DEF t, u
<1>6. Taken
  BY <1>2, <1>4, <1>5, Zenon DEF Taken
<1> QED
  BY <1>2, <1>4, <1>6

\* One that is printed is the last, and the answer to its job was good.
LEMMA PrintsMore ==
  ASSUME NEW of, NEW n \in Nat, of \in [1..Len(printed) -> 1..n], Prints(of, n), printed \in Seq(STRING),
         NEW x, printed' = Append(printed, x), x = args[n + 1], Done(jobs[n + 1]), UNCHANGED <<args, jobs>>,
         Settled' = n + 1
  PROVE  \E g \in [1..Len(printed') -> 1..Settled'] : Prints(g, Settled)'
<1> DEFINE m == Len(printed)
           G == [i \in 1..(m + 1) |-> IF i = m + 1 THEN n + 1 ELSE of[i]]
<1>1. m \in Nat /\ Len(printed') = m + 1
  OBVIOUS
<1>2. (\A i \in 1..m : printed'[i] = printed[i]) /\ printed'[m + 1] = x
  OBVIOUS
<1> HIDE DEF m
<1>0. PICK g : g = G
  OBVIOUS
<1>3. of \in [1..m -> 1..n] /\ \A i \in 1..m : of[i] \in 1..n
  BY DEF m
<1>4. g[m + 1] = n + 1 /\ (\A i \in 1..m : g[i] = of[i]) /\ DOMAIN g = 1..(m + 1)
  BY <1>0, <1>1
<1>5. \A i \in 1..(m + 1) : i = m + 1 \/ i \in 1..m
  BY <1>1
<1>6. g \in [1..(m + 1) -> 1..(n + 1)]
  <2>1. \A i \in 1..(m + 1) : (IF i = m + 1 THEN n + 1 ELSE of[i]) \in 1..(n + 1)
    BY <1>1, <1>3, <1>5
  <2> QED
    BY <1>0, <2>1
<1> HIDE DEF G
<1>7. ASSUME NEW i \in 1..(m + 1), NEW j \in 1..(m + 1), i < j PROVE g[i] < g[j]
  <2>1. i \in 1..m
    BY <1>1, <1>7
  <2>2. CASE j = m + 1
    <3>1. g[i] \in 1..n /\ g[j] = n + 1
      BY <1>3, <1>4, <2>1, <2>2
    <3> QED
      BY <3>1
  <2>3. CASE j \in 1..m
    <3>1. g[i] = of[i] /\ g[j] = of[j] /\ of[i] < of[j]
      BY <1>4, <1>7, <2>1, <2>3 DEF Prints, m
    <3> QED
      BY <3>1
  <2> QED
    BY <1>5, <2>2, <2>3
<1>8. ASSUME NEW i \in 1..(m + 1) PROVE printed'[i] = args[g[i]] /\ Done(jobs[g[i]])
  <2>1. CASE i = m + 1
    BY <1>2, <1>4, <2>1
  <2>2. CASE i \in 1..m
    <3>1. printed[i] = args[of[i]] /\ Done(jobs[of[i]])
      BY <2>2 DEF Prints, m
    <3> QED
      BY <1>2, <1>4, <2>2, <3>1
  <2> QED
    BY <1>5, <2>1, <2>2
<1>9. ASSUME NEW k \in 1..(n + 1), Done(jobs[k]) PROVE \E i \in 1..(m + 1) : g[i] = k
  <2>1. CASE k = n + 1
    <3>1. m + 1 \in 1..(m + 1)
      BY <1>1
    <3> QED
      BY <1>4, <2>1, <3>1
  <2>2. CASE k # n + 1
    <3>1. k \in 1..n
      BY <2>2
    <3>2. PICK i \in 1..m : of[i] = k
      BY <1>9, <3>1 DEF Prints, m
    <3>3. i \in 1..(m + 1) /\ g[i] = k
      BY <1>1, <1>4, <3>2
    <3> QED
      BY <3>3
  <2> QED
    BY <2>1, <2>2
<1>10. g \in [1..Len(printed') -> 1..Settled']
  BY <1>1, <1>6
<1>11. Prints(g, Settled)'
  <2>1. 1..Len(printed') = 1..(m + 1) /\ 1..Settled' = 1..(n + 1)
    BY <1>1
  <2>2. \A i \in 1..(m + 1) : printed'[i] = args'[g[i]] /\ Done(jobs'[g[i]])
    BY <1>8
  <2>3. \A k \in 1..(n + 1) : Done(jobs'[k]) => \E i \in 1..(m + 1) : g[i] = k
    BY <1>9
  <2> QED
    BY <1>7, <1>10, <2>1, <2>2, <2>3, Zenon DEF Prints
<1> QED
  BY <1>10, <1>11, Zenon

LEMMA OkKeeps ==
  ASSUME IInv, ReadOk
  PROVE  IInv'
<1> DEFINE x == Head(todo).arg
<1>1. Types /\ Awaited /\ Blamed /\ Vouched /\ InOrder /\ Printed
  BY DEF IInv
<1>2. /\ Taken /\ (cmd \notin Unsure => Done(jobs[Len(jobs)])) /\ failed' = failed /\ exit' = ""
      /\ printed' = IF x = "" THEN printed ELSE Append(printed, x)
  BY OkTaken
<1>3. failed \in BOOLEAN /\ printed \in Seq(STRING) /\ WellFormed(cmd, todo) /\ args \in Names
  BY <1>1 DEF Types
<1>4. exit = "" /\ todo # <<>> /\ jobs[Len(jobs)].arg = x /\ jobs' = jobs
  BY <1>1, <1>2, TakenFacts
<1>5. printed' \in Seq(STRING)
  <2>1. x \in Arguments
    BY <1>3, <1>4, HeadFacts
  <2> HIDE DEF x
  <2>2. CASE x = ""
    BY <1>2, <1>3, <2>2
  <2>3. CASE x # ""
    <3>1. x \in STRING
      BY <2>1, <2>3 DEF Arguments
    <3>2. printed' = Append(printed, x)
      BY <1>2, <2>3
    <3> QED
      BY <1>3, <3>1, <3>2, AppendProperties
  <2> QED
    BY <2>2, <2>3
<1> HIDE DEF x
<1>6. Types' /\ Counted' /\ Awaited' /\ Ended' /\ InOrder'
  BY <1>2, <1>3, <1>5, TakenKeeps, TakenInOrder
<1>7. /\ Len(jobs) \in Nat /\ Settled \in Nat /\ Len(jobs) = Settled + 1 /\ Settled' = Settled + 1
  BY <1>1, <1>2, TakenCounts
<1>8. cmd' = cmd /\ args' = args
  BY <1>2 DEF Taken
<1>9. Blamed'
  BY <1>1, <1>2, <1>4, <1>8, DeniedKept, Zenon DEF Blamed
<1>10. Vouched'
  <2> SUFFICES ASSUME ~failed, cmd \notin Unsure, NEW i \in 1..Len(jobs)
               PROVE  Done(jobs'[i]) \/ Retried(i)'
    BY <1>2, <1>4, <1>8, Zenon DEF Vouched
  <2>1. exit # "error"
    BY <1>4
  <2>2. Done(jobs[i]) \/ Retried(i)
    BY <1>1, <2>1, Zenon DEF Vouched
  <2>3. CASE i = Len(jobs)
    BY <1>2, <1>4, <2>3
  <2>4. CASE i # Len(jobs)
    <3>1. Retried(i) => Retried(i)'
      BY <1>4, <2>4 DEF Retried
    <3> QED
      BY <1>4, <2>2, <3>1
  <2> QED
    BY <2>3, <2>4
<1>11. Printed'
  <2> SUFFICES ASSUME cmd \in Several PROVE \E of \in [1..Len(printed') -> 1..Settled'] : Prints(of, Settled)'
    BY <1>8, Zenon DEF Printed
  <2>1. PICK of \in [1..Len(printed) -> 1..Settled] : Prints(of, Settled)
    BY <1>1 DEF Printed
  <2>2. Len(jobs) \in 1..Len(jobs)
    BY <1>7
  <2>3. x = args[Settled + 1]
    <3>1. jobs[Len(jobs)].arg = args[Len(jobs)]
      BY <1>1, <2>2, Zenon DEF InOrder
    <3> QED
      BY <1>4, <1>7, <3>1
  <2>4. x # ""
    <3>1. Settled + Len(todo) = Len(args)
      BY <1>1 DEF InOrder
    <3>2. Len(todo) \in Nat /\ Len(todo) # 0
      BY <1>3, <1>4, SeqOfFacts DEF WellFormed
    <3>3. Settled + 1 \in 1..Len(args)
      BY <1>7, <3>1, <3>2
    <3>4. args \in Seq(STRING \ {""})
      BY <1>3, NamesAssumption
    <3>5. args[Settled + 1] \in STRING \ {""}
      BY <3>3, <3>4, ElementOfSeq
    <3> QED
      BY <2>3, <3>5
  <2>5. Done(jobs[Settled + 1])
    <3>1. cmd \notin Unsure
      BY DEF Several, Unsure
    <3>2. Done(jobs[Len(jobs)])
      BY <1>2, <3>1
    <3> QED
      BY <1>7, <3>2
  <2>6. printed' = Append(printed, x)
    BY <1>2, <2>4
  <2>7. UNCHANGED <<args, jobs>>
    BY <1>4, <1>8
  <2> QED
    BY <1>3, <1>7, <2>1, <2>3, <2>5, <2>6, <2>7, PrintsMore
<1> QED
  BY <1>6, <1>9, <1>10, <1>11 DEF IInv

LEMMA PrintedKept ==
  ASSUME Printed, cmd' = cmd, args' = args, printed' = printed, jobs' = jobs, answer' = answer
  PROVE  Printed'
<1> SUFFICES ASSUME cmd \in Several PROVE Printed'
  BY DEF Printed
<1>1. PICK of \in [1..Len(printed) -> 1..Settled] : Prints(of, Settled)
  BY DEF Printed
<1>2. Settled' = Settled
  BY DEF Settled
<1>3. Prints(of, Settled)'
  BY <1>1, <1>2 DEF Prints
<1>4. of \in [1..Len(printed') -> 1..Settled']
  BY <1>1, <1>2
<1> QED
  BY <1>3, <1>4, Zenon DEF Printed

LEMMA FinishKeeps ==
  ASSUME IInv, Finish
  PROVE  IInv'
<1>1. Types /\ Counted /\ Awaited /\ Ended /\ Blamed /\ Vouched /\ InOrder /\ Printed
  BY DEF IInv
<1>2. /\ exit = "" /\ todo = <<>> /\ answer = None /\ exit' = IF failed THEN "error" ELSE "ok"
      /\ UNCHANGED <<cmd, args, opts, version, todo, answer, failed, printed, jobs>>
  BY Zenon DEF Finish
<1>3. /\ cmd' = cmd /\ args' = args /\ opts' = opts /\ version' = version /\ todo' = todo /\ answer' = answer
      /\ failed' = failed /\ printed' = printed /\ jobs' = jobs
  BY <1>2, Zenon
<1>4. exit' \in {"ok", "error"} /\ (exit' = "error" => failed) /\ (exit' = "ok" => ~failed)
  <2>1. CASE failed
    BY <1>2, <2>1
  <2>2. CASE ~failed
    BY <1>2, <2>2
  <2> QED
    BY <2>1, <2>2
<1>5. Settled' = Settled
  BY <1>3 DEF Settled
<1>6. Types'
  <2>1. exit' \in {"", "ok", "error"}
    BY <1>4
  <2> QED
    BY <1>1, <1>3, <2>1, Zenon DEF Types
<1>7. Counted'
  <2>1. exit' # ""
    BY <1>4
  <2> QED
    BY <1>1, <1>3, <2>1, Zenon DEF Counted
<1>8. Awaited' /\ Ended'
  <2>1. answer' = None /\ todo' = <<>>
    BY <1>2, <1>3
  <2>2. exit' = "ok" => ~failed'
    BY <1>3, <1>4
  <2> QED
    BY <2>1, <2>2, Zenon DEF Awaited, Ended
<1>9. Blamed'
  BY <1>1, <1>3, <1>4, DeniedKept, Zenon DEF Blamed
<1>10. Vouched'
  <2>1. \A i : Retried(i)' <=> Retried(i)
    BY <1>3, Zenon DEF Retried
  <2>2. exit # "error"
    BY <1>2
  <2> QED
    BY <1>1, <1>3, <2>1, <2>2, Zenon DEF Vouched
<1>11. InOrder'
  BY <1>1, <1>2, <1>3, <1>5, Zenon DEF InOrder
<1>12. Printed'
  BY <1>1, <1>3, PrintedKept
<1> QED
  BY <1>6, <1>7, <1>8, <1>9, <1>10, <1>11, <1>12 DEF IInv

\* It is neither docker stop nor one of the others with several names.
LEMMA DeniedOnce ==
  ASSUME Denied
  PROVE  cmd \in {"push", "port"} /\ cmd \notin Several
  BY DEF Denied, RootRepository, NoPublicPort, Several

LEMMA RefuseKeeps ==
  ASSUME IInv, Refuse
  PROVE  IInv'
<1>1. Types /\ Counted /\ Awaited /\ Ended /\ Blamed /\ Vouched /\ InOrder /\ Printed
  BY DEF IInv
<1>2. /\ cmd' = cmd /\ args' = args /\ opts' = opts /\ version' = version /\ todo' = todo /\ answer' = None
      /\ failed' = failed /\ printed' = printed /\ jobs' = jobs /\ exit' = "error"
  BY Zenon DEF Refuse
<1>3. Denied
  BY Zenon DEF Refuse, Denied
<1>4. cmd' \notin Several
  BY <1>2, <1>3, DeniedOnce
<1>5. Types' /\ Counted'
  BY <1>1, <1>2 DEF Types, Counted
<1>6. Awaited' /\ Ended' /\ Vouched'
  BY <1>2 DEF Awaited, Ended, Vouched
<1>7. Blamed'
  BY <1>2, <1>3, DeniedKept, Zenon DEF Blamed
<1>8. InOrder' /\ Printed'
  BY <1>4, Zenon DEF InOrder, Printed
<1> QED
  BY <1>5, <1>6, <1>7, <1>8 DEF IInv

LEMMA StutterKeeps ==
  ASSUME IInv, UNCHANGED vars
  PROVE  IInv'
<1>1. /\ cmd' = cmd /\ args' = args /\ opts' = opts /\ version' = version /\ todo' = todo /\ answer' = answer
      /\ failed' = failed /\ printed' = printed /\ jobs' = jobs /\ exit' = exit
  BY DEF vars
<1>2. Types /\ Counted /\ Awaited /\ Ended /\ Blamed /\ Vouched /\ InOrder /\ Printed
  BY DEF IInv
<1>3. Settled' = Settled /\ \A i : Retried(i)' <=> Retried(i)
  BY <1>1, Zenon DEF Settled, Retried
<1>4. Types' /\ Counted' /\ Ended' /\ Blamed'
  BY <1>1, <1>2, <1>3, DeniedKept, Zenon DEF Types, Counted, Ended, Blamed
<1>5. Awaited'
  BY <1>1, <1>2, Zenon DEF Awaited
<1>6. Vouched'
  BY <1>1, <1>2, <1>3, Zenon DEF Vouched
<1>7. InOrder'
  BY <1>1, <1>2, <1>3, Zenon DEF InOrder
<1>8. Printed'
  BY <1>1, <1>2, PrintedKept
<1> QED
  BY <1>4, <1>5, <1>6, <1>7, <1>8 DEF IInv

LEMMA InvStep == IInv /\ [Next]_vars => IInv'
<1> SUFFICES ASSUME IInv, [Next]_vars PROVE IInv'
  OBVIOUS
<1>1. Types
  BY DEF IInv
<1>2. CASE \E o \in Outcomes : Serve(o)
  <2>1. PICK j : Asked(j)
    BY <1>1, <1>2, ServeAsks
  <2> QED
    BY <2>1, AskedKeeps
<1>3. CASE Unreachable
  <2>1. PICK j : Asked(j)
    BY <1>3, UnreachableAsks
  <2> QED
    BY <2>1, AskedKeeps
<1>4. CASE ReadError
  BY <1>4, ErrorKeeps
<1>5. CASE ReadOk
  BY <1>5, OkKeeps
<1>6. CASE Finish
  BY <1>6, FinishKeeps
<1>7. CASE Refuse
  BY <1>7, RefuseKeeps
<1>8. CASE UNCHANGED vars
  BY <1>8, StutterKeeps
<1> QED
  BY <1>2, <1>3, <1>4, <1>5, <1>6, <1>7, <1>8 DEF Next

THEOREM SpecInv == Spec => []IInv
  BY InitInv, InvStep, PTL DEF Spec

-----------------------------------------------------------------------------
(* The properties.                                                         *)

\* What is refused is never done: the request is not sent, or its answer not taken.
Undone ==
  /\ Denied => todo # <<>> /\ Head(todo).next = "stop" /\ exit # "ok"
  /\ RootRepository => answer = None

LEMMA InitUndone == Init => Undone
<1> SUFFICES ASSUME Init PROVE Undone
  OBVIOUS
<1>1. todo = StepsOf(cmd, version, opts, args) /\ answer = None /\ exit = ""
  BY DEF Init
<1>0. ASSUME NEW h, NEW read PROVE One(h, read) # <<>> /\ Head(One(h, read)).next = "stop"
  <2>1. Step(h, read).next = "stop"
    BY DEF Step
  <2>2. PICK x : x = Step(h, read)
    OBVIOUS
  <2>3. One(h, read) = <<x>>
    BY <2>2 DEF One
  <2>4. <<x>> # <<>> /\ Head(<<x>>) = x
    OBVIOUS
  <2> QED
    BY <2>1, <2>2, <2>3, <2>4, Zenon
<1>2. CASE cmd = "push"
  <2>1. todo = CmdPush(opts)
    BY <1>1, <1>2 DEF StepsOf
  <2> QED
    BY <1>0, <1>1, <2>1, Zenon DEF Undone, CmdPush
<1>3. CASE cmd = "port"
  <2>1. todo = CmdPort(version, opts)
    BY <1>1, <1>3 DEF StepsOf
  <2> QED
    BY <1>0, <1>1, <2>1, Zenon DEF Undone, CmdPort
<1>4. Denied => cmd \in {"push", "port"}
  BY DEF Denied, RootRepository, NoPublicPort
<1> QED
  BY <1>1, <1>2, <1>3, <1>4 DEF Undone

LEMMA UndoneStep == Undone /\ [Next]_vars => Undone'
<1> SUFFICES ASSUME Undone, [Next]_vars PROVE Undone'
  OBVIOUS
<1>1. cmd' = cmd /\ args' = args
  BY Zenon DEF Next, vars, Serve, Unreachable, ReadError, ReadOk, Refuse, Finish
<1>2. (Denied' <=> Denied) /\ (RootRepository' <=> RootRepository)
  BY <1>1, DeniedKept DEF RootRepository
<1>3. CASE (\E o \in Outcomes : Serve(o)) \/ Unreachable
  <2>1. ~RootRepository /\ todo' = todo /\ exit' = exit
    BY <1>3, Zenon DEF Serve, Unreachable
  <2> QED
    BY <1>2, <2>1 DEF Undone
<1>4. CASE ReadError
  <2>1. answer # None /\ answer' = None
    BY <1>4, Zenon DEF ReadError
  <2> SUFFICES ASSUME Denied PROVE todo' # <<>> /\ Head(todo').next = "stop" /\ exit' # "ok"
    BY <1>2, <2>1 DEF Undone
  <2>2. todo # <<>> /\ Head(todo).next = "stop"
    BY DEF Undone
  <2>3. exit' = "error" /\ todo' = todo
    BY <1>4, <2>2 DEF ReadError
  <2> QED
    BY <2>2, <2>3
<1>5. CASE ReadOk
  <2>1. answer # None /\ answer' = None /\ ~NoPublicPort
    BY <1>5, Zenon DEF ReadOk
  <2>2. ~Denied
    BY <2>1 DEF Undone, Denied
  <2> QED
    BY <1>2, <2>1, <2>2 DEF Undone
<1>6. CASE Refuse
  <2>1. answer' = None /\ todo' = todo /\ exit' = "error"
    BY <1>6, Zenon DEF Refuse
  <2> QED
    BY <1>2, <2>1 DEF Undone
<1>7. CASE Finish
  <2>1. todo = <<>> /\ answer = None /\ answer' = answer
    BY <1>7, Zenon DEF Finish
  <2>2. ~Denied
    BY <2>1 DEF Undone
  <2> QED
    BY <1>2, <2>1, <2>2 DEF Undone
<1>8. CASE UNCHANGED vars
  <2>1. todo' = todo /\ exit' = exit /\ answer' = answer
    BY <1>8 DEF vars
  <2> QED
    BY <1>2, <2>1 DEF Undone
<1> QED
  BY <1>3, <1>4, <1>5, <1>6, <1>7, <1>8 DEF Next

\* StatusTold (commands.go): a command that succeeds has done what it was
\* asked to, and one that fails has met with a failure or has been asked for a root
\* repository or a port that is not published, whatever the commands, names, ports,
\* versions and errors are.
THEOREM SpecStatusTold == Spec => []StatusTold
<1>1. IInv /\ Undone => StatusTold
  <2> SUFFICES ASSUME IInv, Undone PROVE StatusTold
    OBVIOUS
  <2>1. Types /\ Counted /\ Ended /\ Blamed /\ Vouched
    BY DEF IInv
  <2>2. TypeOK
    BY <2>1 DEF TypeOK, Types, Counted
  <2>3. DOMAIN jobs = 1..Len(jobs)
    BY <2>1, SeqOfFacts DEF Types
  <2>4. ASSUME exit = "ok", cmd \notin Unsure, NEW i \in DOMAIN jobs, LastFor(i)
        PROVE  Done(jobs[i])
    <3>1. ~failed /\ todo = <<>> /\ exit # "error"
      BY <2>1, <2>4 DEF Ended
    <3>2. Done(jobs[i]) \/ Retried(i)
      BY <2>1, <2>3, <2>4, <3>1, Zenon DEF Vouched
    <3>3. ASSUME NEW j \in 1..Len(jobs), j > i, jobs[j].arg = jobs[i].arg PROVE FALSE
      <4>1. j <= i
        BY <2>3, <2>4, <3>3 DEF LastFor
      <4> QED
        BY <2>3, <3>3, <4>1
    <3> QED
      BY <3>1, <3>2, <3>3, Zenon DEF Retried
  <2>5. exit = "error" => RootRepository \/ NoPublicPort \/ \E i \in DOMAIN jobs : ~Done(jobs[i])
    BY <2>1, <2>3, Zenon DEF Blamed, Denied
  <2>6. exit = "ok" => ~RootRepository /\ ~NoPublicPort
    BY DEF Undone, Denied
  <2> QED
    BY <2>2, <2>4, <2>5, <2>6, Zenon DEF StatusTold
<1>2. Spec => []Undone
  BY InitUndone, UndoneStep, PTL DEF Spec
<1> QED
  BY <1>1, <1>2, SpecInv, PTL

LEMMA AllTried ==
  ASSUME Types, InOrder, cmd \in Several, todo = <<>>, answer = None
  PROVE  /\ Len(jobs) = Len(args) /\ args = [i \in 1..Len(args) |-> args[i]]
         /\ DOMAIN printed = 1..Len(printed)
<1>1. Len(jobs) \in Nat /\ Len(todo) = 0
  BY SeqOfFacts DEF Types
<1>2. Settled = Len(jobs) /\ Settled + Len(todo) = Len(args)
  BY DEF InOrder, Settled
<1>3. Len(jobs) = Len(args)
  BY <1>1, <1>2
<1>4. args \in Seq(STRING \ {""}) /\ printed \in Seq(STRING)
  BY NamesAssumption DEF Types
<1>5. ASSUME NEW S, NEW q \in Seq(S) PROVE q = [i \in 1..Len(q) |-> q[i]] /\ DOMAIN q = 1..Len(q)
  OBVIOUS
<1> QED
  BY <1>3, <1>4, <1>5, Zenon

\* EachTried (commands.go): a command with several names tries each of them
\* once, in their order, and prints the ones it has done.
THEOREM SpecEachTried == Spec => []EachTried
<1>1. IInv => EachTried
  <2> SUFFICES ASSUME IInv, exit # "", cmd \in Several PROVE EachTried
    BY DEF EachTried
  <2> DEFINE D == { i \in DOMAIN jobs : Done(jobs[i]) }
  <2>1. Types /\ Ended /\ InOrder /\ Printed
    BY DEF IInv
  <2>2. answer = None /\ todo = <<>> /\ Settled = Len(jobs)
    BY <2>1, Zenon DEF Ended, InOrder, Settled
  <2>3. DOMAIN jobs = 1..Len(jobs) /\ Len(jobs) \in Nat
    BY <2>1, SeqOfFacts DEF Types
  <2>4. /\ \A i \in 1..Len(jobs) : jobs[i].arg = args[i]
        /\ Settled + Len(todo) = Len(args)
    BY <2>1 DEF InOrder
  <2>5. Len(jobs) = Len(args) /\ args = [i \in 1..Len(args) |-> args[i]] /\ DOMAIN printed = 1..Len(printed)
    BY <2>1, <2>2, AllTried
  <2>7. [i \in DOMAIN jobs |-> jobs[i].arg] = args
    BY <2>3, <2>4, <2>5
  <2>8. PICK of \in [1..Len(printed) -> 1..Len(jobs)] : Prints(of, Len(jobs))
    BY <2>1, <2>2 DEF Printed
  <2>10. of \in [DOMAIN printed -> D]
    BY <2>3, <2>5, <2>8 DEF Prints
  <2>11. /\ \A i, j \in DOMAIN printed : i < j => of[i] < of[j]
         /\ \A i \in DOMAIN printed : printed[i] = args[of[i]]
         /\ \A k \in DOMAIN jobs : Done(jobs[k]) => \E i \in DOMAIN printed : of[i] = k
    BY <2>3, <2>5, <2>8, Zenon DEF Prints
  <2> QED
    BY <2>7, <2>10, <2>11, Zenon DEF EachTried
<1> QED
  BY <1>1, SpecInv, PTL

-----------------------------------------------------------------------------
(* What the options of a command change.                                   *)

\* A parameter has one value in a query, or it is not there.
Gives(q, p, v) == <<p, v>> \in q /\ \A x \in q : x[1] = p => x[2] = v
Lacks(q, p) == \A x \in q : x[1] # p
Says(q, p, v) == Gives(q, p, v) \/ (Lacks(q, p) /\ v = "")

LEMMA SaidIsGot ==
  ASSUME NEW q, NEW p, NEW v, Says(q, p, v)
  PROVE  Get(q, p) = v
  BY DEF Says, Gives, Lacks, Get

LEMMA LacksSays ==
  ASSUME NEW q, NEW p, Lacks(q, p)
  PROVE  Says(q, p, "")
  BY DEF Says

\* What the queries say differently of a parameter, the job is told differently.
LEMMA SetenvTells ==
  ASSUME NEW q, NEW r, NEW p, NEW names, p \in names, NEW v, NEW w, v # w, Says(q, p, v), Says(r, p, w)
  PROVE  Setenv(q, names) # Setenv(r, names)
<1>1. Get(q, p) = v /\ Get(r, p) = w
  BY SaidIsGot
<1>2. <<p, v>> \in Setenv(q, names)
  BY <1>1 DEF Setenv
<1>3. <<p, v>> \notin Setenv(r, names)
  BY <1>1 DEF Setenv
<1> QED
  BY <1>2, <1>3

\* The values that options give parameters.
Values == {"1", "3", "x", "aux"}

LEMMA SetenvMore ==
  ASSUME NEW q, NEW r, NEW names, \E p \in names, w \in Values : Gives(q, p, w) /\ Lacks(r, p)
  PROVE  Setenv(q, names) # Setenv(r, names)
<1>1. PICK p \in names, w \in Values : Gives(q, p, w) /\ Lacks(r, p)
  OBVIOUS
<1>2. Says(q, p, w) /\ Says(r, p, "") /\ w # ""
  BY <1>1 DEF Says, Values
<1> QED
  BY <1>2, SetenvTells

\* The i-th requests of two commands give their jobs different environments.
Differ(s, t, i) == s[i].h.env # t[i].h.env

LEMMA EachTells ==
  ASSUME NEW names \in Seq(STRING), NEW h, NEW g, NEW read, h.env # g.env,
         NEW i \in 1..Len(Each(names, h, read))
  PROVE  Differ(Each(names, h, read), Each(names, g, read), i)
<1>1. ASSUME NEW f
      PROVE  /\ DOMAIN Each(names, f, read) = 1..Len(names)
             /\ Each(names, f, read) = [j \in 1..Len(names) |-> Each(names, f, read)[j]]
             /\ \A j \in 1..Len(names) : Each(names, f, read)[j].h = f
  BY DEF Each, Step
<1>2. Len(names) \in Nat
  OBVIOUS
<1>3. Len(Each(names, h, read)) = Len(names)
  BY <1>1, <1>2, SeqOfFunction
<1> QED
  BY <1>1, <1>3 DEF Differ

LEMMA OneIs ==
  ASSUME NEW h, NEW read
  PROVE  Len(One(h, read)) = 1 /\ One(h, read)[1].h = h
  BY DEF One, Step

LEMMA OneTells ==
  ASSUME NEW h, NEW g, NEW read, h.env # g.env, NEW i \in 1..Len(One(h, read))
  PROVE  Differ(One(h, read), One(g, read), i)
<1>1. Len(One(h, read)) = 1
  BY OneIs
<1>2. i = 1
  BY <1>1
<1> QED
  BY <1>2, OneIs DEF Differ

LEMMA StopTells ==
  ASSUME NEW o, NEW a \in Seq(STRING), o # {}, o \subseteq {"time"}, NEW i \in 1..Len(CmdStop(o, a))
  PROVE  Differ(CmdStop(o, a), CmdStop({}, a), i)
<1> DEFINE q(x) == {<<"t", Val(x, "time", "1", "10")>>}
<1>1. Val(o, "time", "1", "10") = "1" /\ Val({}, "time", "1", "10") = "10"
  BY DEF Val
<1>2. Says(q(o), "t", "1") /\ Says(q({}), "t", "10")
  BY <1>1 DEF Says, Gives
<1>3. /\ CmdStop(o, a) = Each(a, postContainersStop(q(o)), "body")
      /\ CmdStop({}, a) = Each(a, postContainersStop(q({})), "body")
  BY DEF CmdStop
<1> HIDE DEF q
<1>4. \A r : postContainersStop(r).env = Setenv(r, {"t"})
  BY DEF postContainersStop, Plain, Job
<1>5. Setenv(q(o), {"t"}) # Setenv(q({}), {"t"})
  BY <1>2, SetenvTells
<1>6. postContainersStop(q(o)).env # postContainersStop(q({})).env
  BY <1>4, <1>5
<1> QED
  BY <1>3, <1>6, EachTells

LEMMA RestartTells ==
  ASSUME NEW o, NEW a \in Seq(STRING), o # {}, o \subseteq {"time"}, NEW i \in 1..Len(CmdRestart(o, a))
  PROVE  Differ(CmdRestart(o, a), CmdRestart({}, a), i)
<1> DEFINE q(x) == {<<"t", Val(x, "time", "1", "10")>>}
<1>1. Val(o, "time", "1", "10") = "1" /\ Val({}, "time", "1", "10") = "10"
  BY DEF Val
<1>2. Says(q(o), "t", "1") /\ Says(q({}), "t", "10")
  BY <1>1 DEF Says, Gives
<1>3. /\ CmdRestart(o, a) = Each(a, postContainersRestart(q(o)), "body")
      /\ CmdRestart({}, a) = Each(a, postContainersRestart(q({})), "body")
  BY DEF CmdRestart
<1> HIDE DEF q
<1>4. \A r : postContainersRestart(r).env = Setenv(r, {"t"})
  BY DEF postContainersRestart, Plain, Job
<1>5. Setenv(q(o), {"t"}) # Setenv(q({}), {"t"})
  BY <1>2, SetenvTells
<1>6. postContainersRestart(q(o)).env # postContainersRestart(q({})).env
  BY <1>4, <1>5
<1> QED
  BY <1>3, <1>6, EachTells

LEMMA KillTells ==
  ASSUME NEW o, NEW a \in Seq(STRING), o # {}, o \subseteq {"signal"}, NEW i \in 1..Len(CmdKill(o, a))
  PROVE  Differ(CmdKill(o, a), CmdKill({}, a), i)
<1> DEFINE q(x) == {<<"signal", Val(x, "signal", "HUP", "KILL")>>}
<1>1. Val(o, "signal", "HUP", "KILL") = "HUP" /\ Val({}, "signal", "HUP", "KILL") = "KILL"
  BY DEF Val
<1>2. Says(q(o), "signal", "HUP") /\ Says(q({}), "signal", "KILL")
  BY <1>1 DEF Says, Gives
<1>3. /\ CmdKill(o, a) = Each(a, postContainersKill(q(o)), "body")
      /\ CmdKill({}, a) = Each(a, postContainersKill(q({})), "body")
  BY DEF CmdKill
<1> HIDE DEF q
<1>4. \A r : postContainersKill(r).env = Setenv(r, {"signal"})
  BY DEF postContainersKill, Plain, Job
<1>5. Setenv(q(o), {"signal"}) # Setenv(q({}), {"signal"})
  BY <1>2, SetenvTells
<1>6. postContainersKill(q(o)).env # postContainersKill(q({})).env
  BY <1>4, <1>5
<1> QED
  BY <1>3, <1>6, EachTells

LEMMA RmTells ==
  ASSUME NEW o, NEW a \in Seq(STRING), o # {}, o \subseteq {"volumes", "link", "force"},
         NEW i \in 1..Len(CmdRm(o, a))
  PROVE  Differ(CmdRm(o, a), CmdRm({}, a), i)
<1> DEFINE q(x) == Set(x, "volumes", "v", "1") \union Set(x, "link", "link", "1") \union Set(x, "force", "force", "1")
           as == [force |-> "forceRemove", v |-> "removeVolume", link |-> "removeLink"]
           names == {"v", "link", "force"}
<1>1. \A p \in names : Lacks(q({}), p)
  BY DEF Lacks, Set
<1>2. \E p \in names : Says(q(o), p, "1")
  <2>1. "volumes" \in o => Says(q(o), "v", "1")
    BY DEF Says, Gives, Set
  <2>2. "link" \in o => Says(q(o), "link", "1")
    BY DEF Says, Gives, Set
  <2>3. "force" \in o => Says(q(o), "force", "1")
    BY DEF Says, Gives, Set
  <2> HIDE DEF q
  <2> QED
    BY <2>1, <2>2, <2>3
<1>3. /\ CmdRm(o, a) = Each(a, deleteContainers(q(o)), "body")
      /\ CmdRm({}, a) = Each(a, deleteContainers(q({})), "body")
  BY DEF CmdRm
<1> HIDE DEF q
<1>4. PICK p \in names : Get(q(o), p) = "1"
  BY <1>2, SaidIsGot
<1>5. \A n \in names : Get(q({}), n) = ""
  BY <1>1, LacksSays, SaidIsGot
<1>6. <<as[p], "1">> \in SetenvAs(q(o), as) /\ <<as[p], "1">> \notin SetenvAs(q({}), as)
  BY <1>4, <1>5 DEF SetenvAs
<1>7. \A r : deleteContainers(r).env = SetenvAs(r, as)
  BY DEF deleteContainers, Plain, Job
<1>8. deleteContainers(q(o)).env # deleteContainers(q({})).env
  BY <1>6, <1>7
<1> QED
  BY <1>3, <1>8, EachTells

LEMMA RmiTells ==
  ASSUME NEW o, NEW a \in Seq(STRING), o # {}, o \subseteq {"force", "no-prune"},
         NEW i \in 1..Len(CmdRmi(o, a))
  PROVE  Differ(CmdRmi(o, a), CmdRmi({}, a), i)
<1> DEFINE q(x) == Set(x, "force", "force", "1") \union Set(x, "no-prune", "noprune", "1")
           names == {"force", "noprune"}
<1>1. \A p \in names : Lacks(q({}), p)
  BY DEF Lacks, Set
<1>2. \E p \in names, w \in Values : Gives(q(o), p, w)
  <2>1. "force" \in o => Gives(q(o), "force", "1")
    BY DEF Gives, Set
  <2>2. "no-prune" \in o => Gives(q(o), "noprune", "1")
    BY DEF Gives, Set
  <2> HIDE DEF q
  <2> QED
    BY <2>1, <2>2 DEF Values
<1>3. CmdRmi(o, a) = Each(a, deleteImages(q(o)), "list") /\ CmdRmi({}, a) = Each(a, deleteImages(q({})), "list")
  BY DEF CmdRmi
<1> HIDE DEF q
<1>4. \A r : deleteImages(r).env = Setenv(r, names)
  BY DEF deleteImages, Job
<1>5. deleteImages(q(o)).env # deleteImages(q({})).env
  BY <1>1, <1>2, <1>4, SetenvMore
<1> QED
  BY <1>3, <1>5, EachTells

LEMMA TopTells ==
  ASSUME NEW v, NEW o, o # {}, o \subseteq {"ps_args"},
         NEW i \in 1..Len(CmdTop(v, o))
  PROVE  Differ(CmdTop(v, o), CmdTop(v, {}), i)
<1> DEFINE q(x) == Set(x, "ps_args", "ps_args", "aux")
           names == {"ps_args"}
<1>1. \A p \in names : Lacks(q({}), p)
  BY DEF Lacks, Set
<1>2. \E p \in names, w \in Values : Gives(q(o), p, w)
  <2>1. "ps_args" \in o => Gives(q(o), "ps_args", "aux")
    BY DEF Gives, Set
  <2> HIDE DEF q
  <2> QED
    BY <2>1 DEF Values
<1>3. CmdTop(v, o) = One(getContainersTop(v, q(o)), "env") /\ CmdTop(v, {}) = One(getContainersTop(v, q({})), "env")
  BY DEF CmdTop
<1> HIDE DEF q
<1>4. \A r : getContainersTop(v, r).env = Setenv(r, names)
  BY DEF getContainersTop, Refused, Job
<1>5. getContainersTop(v, q(o)).env # getContainersTop(v, q({})).env
  BY <1>1, <1>2, <1>4, SetenvMore
<1> QED
  BY <1>3, <1>5, OneTells

LEMMA PushTells ==
  ASSUME NEW o, o # {}, o \subseteq {"tag"},
         NEW i \in 1..Len(CmdPush(o))
  PROVE  Differ(CmdPush(o), CmdPush({}), i)
<1> DEFINE q(x) == Set(x, "tag", "tag", "x")
           names == {"tag"}
<1>1. \A p \in names : Lacks(q({}), p)
  BY DEF Lacks, Set
<1>2. \E p \in names, w \in Values : Gives(q(o), p, w)
  <2>1. "tag" \in o => Gives(q(o), "tag", "x")
    BY DEF Gives, Set
  <2> HIDE DEF q
  <2> QED
    BY <2>1 DEF Values
<1>3. CmdPush(o) = One(postImagesPush(q(o)), "stream") /\ CmdPush({}) = One(postImagesPush(q({})), "stream")
  BY DEF CmdPush
<1> HIDE DEF q
<1>4. \A r : postImagesPush(r).env = Setenv(r, names)
  BY DEF postImagesPush, Job
<1>5. postImagesPush(q(o)).env # postImagesPush(q({})).env
  BY <1>1, <1>2, <1>4, SetenvMore
<1> QED
  BY <1>3, <1>5, OneTells

LEMMA EventsTells ==
  ASSUME NEW o, o # {}, o \subseteq {"since", "until"},
         NEW i \in 1..Len(CmdEvents(o))
  PROVE  Differ(CmdEvents(o), CmdEvents({}), i)
<1> DEFINE q(x) == Set(x, "since", "since", "x") \union Set(x, "until", "until", "x")
           names == {"since", "until"}
<1>1. \A p \in names : Lacks(q({}), p)
  BY DEF Lacks, Set
<1>2. \E p \in names, w \in Values : Gives(q(o), p, w)
  <2>1. "since" \in o => Gives(q(o), "since", "x")
    BY DEF Gives, Set
  <2>2. "until" \in o => Gives(q(o), "until", "x")
    BY DEF Gives, Set
  <2> HIDE DEF q
  <2> QED
    BY <2>1, <2>2 DEF Values
<1>3. CmdEvents(o) = One(getEvents(q(o)), "stream") /\ CmdEvents({}) = One(getEvents(q({})), "stream")
  BY DEF CmdEvents
<1> HIDE DEF q
<1>4. \A r : getEvents(r).env = Setenv(r, names)
  BY DEF getEvents, Job
<1>5. getEvents(q(o)).env # getEvents(q({})).env
  BY <1>1, <1>2, <1>4, SetenvMore
<1> QED
  BY <1>3, <1>5, OneTells

LEMMA PsTells ==
  ASSUME NEW v, NEW o, o # {}, o \subseteq {"all", "size", "latest", "since", "before", "n", "filter"},
         NEW i \in 1..Len(CmdPs(v, o))
  PROVE  Differ(CmdPs(v, o), CmdPs(v, {}), i)
<1> DEFINE q(x) == (IF "n" \in x THEN {<<"limit", "3">>} ELSE Set(x, "latest", "limit", "1"))
                     \union Set(x, "all", "all", "1") \union Set(x, "since", "since", "x")
                     \union Set(x, "before", "before", "x") \union Set(x, "size", "size", "1")
                     \union Set(x, "filter", "filters", "x")
           names == {"all", "size", "since", "before", "limit", "filters"}
<1>1. \A p \in names : Lacks(q({}), p)
  BY DEF Lacks, Set
<1>2. \E p \in names, w \in Values : Gives(q(o), p, w)
  <2>1. "n" \in o => Gives(q(o), "limit", "3")
    BY DEF Gives, Set
  <2>2. "latest" \in o /\ "n" \notin o => Gives(q(o), "limit", "1")
    BY DEF Gives, Set
  <2>3. "all" \in o => Gives(q(o), "all", "1")
    BY DEF Gives, Set
  <2>4. "size" \in o => Gives(q(o), "size", "1")
    BY DEF Gives, Set
  <2>5. "since" \in o => Gives(q(o), "since", "x")
    BY DEF Gives, Set
  <2>6. "before" \in o => Gives(q(o), "before", "x")
    BY DEF Gives, Set
  <2>7. "filter" \in o => Gives(q(o), "filters", "x")
    BY DEF Gives, Set
  <2> HIDE DEF q
  <2> QED
    BY <2>1, <2>2, <2>3, <2>4, <2>5, <2>6, <2>7 DEF Values
<1>3. CmdPs(v, o) = One(getContainersJSON(v, q(o)), "list") /\ CmdPs(v, {}) = One(getContainersJSON(v, q({})), "list")
  BY DEF CmdPs
<1> HIDE DEF q
<1>4. \A r : getContainersJSON(v, r).env = Setenv(r, names)
  BY DEF getContainersJSON, Job
<1>5. getContainersJSON(v, q(o)).env # getContainersJSON(v, q({})).env
  BY <1>1, <1>2, <1>4, SetenvMore
<1> QED
  BY <1>3, <1>5, OneTells

LEMMA ImagesTell ==
  ASSUME NEW v, NEW o, o # {}, o \subseteq {"all", "filter", "tree", "name"},
         NEW i \in 1..Len(CmdImages(v, o))
  PROVE  Differ(CmdImages(v, o), CmdImages(v, {}), i)
<1> DEFINE q(x) == Set(x, "filter", "filters", "x")
                     \union (IF "tree" \in x THEN {<<"all", "1">>}
                             ELSE Set(x, "all", "all", "1") \union Set(x, "name", "filter", "x"))
           names == {"filters", "filter", "all"}
<1>1. \A p \in names : Lacks(q({}), p)
  BY DEF Lacks, Set
<1>2. \E p \in names, w \in Values : Gives(q(o), p, w)
  <2>1. "filter" \in o => Gives(q(o), "filters", "x")
    BY DEF Gives, Set
  <2>2. "tree" \in o => Gives(q(o), "all", "1")
    BY DEF Gives, Set
  <2>3. "all" \in o => Gives(q(o), "all", "1")
    BY DEF Gives, Set
  <2>4. "name" \in o /\ "tree" \notin o => Gives(q(o), "filter", "x")
    BY DEF Gives, Set
  <2> HIDE DEF q
  <2> QED
    BY <2>1, <2>2, <2>3, <2>4 DEF Values
<1>3. CmdImages(v, o) = One(getImagesJSON(v, q(o)), "list") /\ CmdImages(v, {}) = One(getImagesJSON(v, q({})), "list")
  BY DEF CmdImages
<1> HIDE DEF q
<1>4. \A r : getImagesJSON(v, r).env = Setenv(r, names)
  BY DEF getImagesJSON, Job
<1>5. getImagesJSON(v, q(o)).env # getImagesJSON(v, q({})).env
  BY <1>1, <1>2, <1>4, SetenvMore
<1> QED
  BY <1>3, <1>5, OneTells

LEMMA TagTells ==
  ASSUME NEW o, o # {}, o \subseteq {"force", "tag"}, NEW i \in 1..Len(CmdTag(o))
  PROVE  Differ(CmdTag(o), CmdTag({}), i)
<1> DEFINE q(x) == {<<"repo", "x">>} \union Set(x, "tag", "tag", "x") \union Set(x, "force", "force", "1")
           names == {"repo", "tag", "force"}
<1>1. Lacks(q({}), "tag") /\ Lacks(q({}), "force")
  BY DEF Lacks, Set
<1>2. \E p \in names, w \in Values : Gives(q(o), p, w) /\ Lacks(q({}), p)
  <2>1. "tag" \in o => Gives(q(o), "tag", "x")
    BY DEF Gives, Set
  <2>2. "force" \in o => Gives(q(o), "force", "1")
    BY DEF Gives, Set
  <2> HIDE DEF q
  <2> QED
    BY <1>1, <2>1, <2>2 DEF Values
<1>3. CmdTag(o) = One(postImagesTag(q(o)), "body") /\ CmdTag({}) = One(postImagesTag(q({})), "body")
  BY DEF CmdTag
<1> HIDE DEF q
<1>4. \A r : postImagesTag(r).env = Setenv(r, names)
  BY DEF postImagesTag, Job
<1>5. postImagesTag(q(o)).env # postImagesTag(q({})).env
  BY <1>2, <1>4, SetenvMore
<1> QED
  BY <1>3, <1>5, OneTells

LEMMA ImportTells ==
  ASSUME NEW o, o # {}, o \subseteq {"repo"}, NEW i \in 1..Len(CmdImport(o))
  PROVE  Differ(CmdImport(o), CmdImport({}), i)
<1> DEFINE q(x) == {<<"fromSrc", "x">>} \union Set(x, "repo", "repo", "x")
           names == {"fromSrc", "repo", "tag"}
<1>1. Lacks(q({}), "repo") /\ Lacks(q({}), "fromImage") /\ Lacks(q(o), "fromImage")
  BY DEF Lacks, Set
<1>2. Gives(q(o), "repo", "x")
  <2>1. "repo" \in o
    OBVIOUS
  <2> QED
    BY <2>1 DEF Gives, Set
<1>3. CmdImport(o) = One(postImagesCreate(q(o)), "stream") /\ CmdImport({}) = One(postImagesCreate(q({})), "stream")
  BY DEF CmdImport
<1> HIDE DEF q
<1>4. \A r : Get(r, "fromImage") = "" => postImagesCreate(r).env = Setenv(r, names)
  BY DEF postImagesCreate, Job
<1>5. \E p \in names, w \in Values : Gives(q(o), p, w) /\ Lacks(q({}), p)
  BY <1>1, <1>2 DEF Values
<1>6. Get(q(o), "fromImage") = "" /\ Get(q({}), "fromImage") = ""
  BY <1>1, LacksSays, SaidIsGot
<1>7. postImagesCreate(q(o)).env # postImagesCreate(q({})).env
  BY <1>4, <1>5, <1>6, SetenvMore
<1> QED
  BY <1>3, <1>7, OneTells

\* With "pause=false" the job is told so, from which version on it would pause or not.
LEMMA CommitTells ==
  ASSUME NEW v, NEW o, o # {}, o \subseteq {"pause=false", "message", "author", "repo", "run"},
         NEW i \in 1..Len(CmdCommit(v, o))
  PROVE  Differ(CmdCommit(v, o), CmdCommit(v, {}), i)
<1> DEFINE q(x) == {<<"container", "x">>} \union Set(x, "repo", "repo", "x") \union Set(x, "message", "comment", "x")
                     \union Set(x, "author", "author", "x") \union Set(x, "pause=false", "pause", "0")
                     \union Set(x, "run", "config", "x")
           names == {"container", "repo", "tag", "author", "comment", "config"}
           told == {"repo", "author", "comment", "config"}
           pause(r) == IF Get(r, "pause") = "" /\ GreaterThanOrEqualTo(v, <<1, 13>>) THEN "1" ELSE Get(r, "pause")
<1>1. Says(q({}), "pause", "") /\ \A p \in told : Says(q({}), p, "")
  <2>1. Lacks(q({}), "pause") /\ \A p \in told : Lacks(q({}), p)
    BY DEF Lacks, Set
  <2> HIDE DEF q
  <2> QED
    BY <2>1, LacksSays
<1>2. "pause=false" \in o => Says(q(o), "pause", "0")
  BY DEF Says, Gives, Set
<1>3. "pause=false" \notin o => \E p \in told : Says(q(o), p, "x")
  <2>1. "repo" \in o => Says(q(o), "repo", "x")
    BY DEF Says, Gives, Set
  <2>2. "message" \in o => Says(q(o), "comment", "x")
    BY DEF Says, Gives, Set
  <2>3. "author" \in o => Says(q(o), "author", "x")
    BY DEF Says, Gives, Set
  <2>4. "run" \in o => Says(q(o), "config", "x")
    BY DEF Says, Gives, Set
  <2> HIDE DEF q
  <2> QED
    BY <2>1, <2>2, <2>3, <2>4
<1>4. /\ CmdCommit(v, o) = One(postCommit(v, q(o)), "env")
      /\ CmdCommit(v, {}) = One(postCommit(v, q({})), "env")
  BY DEF CmdCommit
<1> HIDE DEF q
<1>5. \A r : postCommit(v, r).env = Setenv(r, names) \union {<<"pause", pause(r)>>}
  BY DEF postCommit, Job
<1>6. CASE "pause=false" \in o
  <2>1. pause(q(o)) = "0" /\ pause(q({})) # "0"
    BY <1>1, <1>2, <1>6, SaidIsGot
  <2> HIDE DEF pause
  <2>2. <<"pause", "0">> \notin Setenv(q({}), names)
    BY DEF Setenv
  <2>3. postCommit(v, q(o)).env # postCommit(v, q({})).env
    BY <1>5, <2>1, <2>2
  <2> QED
    BY <1>4, <2>3, OneTells
<1>7. CASE "pause=false" \notin o
  <2>1. PICK p \in told : Get(q(o), p) = "x" /\ Get(q({}), p) = ""
    BY <1>1, <1>3, <1>7, SaidIsGot
  <2> HIDE DEF pause
  <2>2. <<p, "x">> \in Setenv(q(o), names) /\ <<p, "x">> \notin Setenv(q({}), names)
    BY <2>1 DEF Setenv
  <2>3. postCommit(v, q(o)).env # postCommit(v, q({})).env
    BY <1>5, <2>2
  <2> QED
    BY <1>4, <2>3, OneTells
<1> QED
  BY <1>6, <1>7

\* A job that is told to remove more than "rm=false" spares is told so.
LEMMA BuildTells ==
  ASSUME NEW v, NEW o, o # {}, o \subseteq {"tag", "quiet", "no-cache", "rm=false", "force-rm", "remote"},
         NEW i \in 1..Len(CmdBuild(v, o))
  PROVE  Differ(CmdBuild(v, o), CmdBuild(v, {}), i)
<1> DEFINE q(x) == {<<"rm", Val(x, "rm=false", "0", "1")>>} \union Set(x, "tag", "t", "x") \union Set(x, "quiet", "q", "1")
                     \union Set(x, "remote", "remote", "x") \union Set(x, "no-cache", "nocache", "1")
                     \union Set(x, "force-rm", "forcerm", "1")
           names == {"remote", "t", "q", "nocache", "forcerm"}
           rm(r) == IF GreaterThanOrEqualTo(v, <<1, 12>>) /\ (Get(r, "forcerm") = "1" \/ Get(r, "rm") = "") THEN "1"
                    ELSE Get(r, "rm")
<1>1. \A p \in names : Says(q({}), p, "")
  <2>1. \A p \in names : Lacks(q({}), p)
    BY DEF Lacks, Set
  <2> HIDE DEF q
  <2> QED
    BY <2>1, LacksSays
<1>2. /\ Says(q({}), "rm", "1")
      /\ "rm=false" \in o => Says(q(o), "rm", "0")
      /\ "force-rm" \notin o => Says(q(o), "forcerm", "")
  <2>1. Val({}, "rm=false", "0", "1") = "1" /\ ("rm=false" \in o => Val(o, "rm=false", "0", "1") = "0")
    BY DEF Val
  <2>2. Says(q({}), "rm", "1")
    BY <2>1 DEF Says, Gives, Set
  <2>3. "rm=false" \in o => Says(q(o), "rm", "0")
    BY <2>1 DEF Says, Gives, Set
  <2>4. "force-rm" \notin o => Lacks(q(o), "forcerm")
    BY DEF Lacks, Set
  <2> HIDE DEF q
  <2> QED
    BY <2>2, <2>3, <2>4, LacksSays
<1>3. o \subseteq {"rm=false"} \/ \E p \in names, w \in Values : Says(q(o), p, w)
  <2>1. "tag" \in o => Says(q(o), "t", "x")
    BY DEF Says, Gives, Set
  <2>2. "quiet" \in o => Says(q(o), "q", "1")
    BY DEF Says, Gives, Set
  <2>3. "remote" \in o => Says(q(o), "remote", "x")
    BY DEF Says, Gives, Set
  <2>4. "no-cache" \in o => Says(q(o), "nocache", "1")
    BY DEF Says, Gives, Set
  <2>5. "force-rm" \in o => Says(q(o), "forcerm", "1")
    BY DEF Says, Gives, Set
  <2> HIDE DEF q
  <2> QED
    BY <2>1, <2>2, <2>3, <2>4, <2>5 DEF Values
<1>4. CmdBuild(v, o) = One(postBuild(v, q(o)), "stream") /\ CmdBuild(v, {}) = One(postBuild(v, q({})), "stream")
  BY DEF CmdBuild
<1> HIDE DEF q
<1>5. \A r : postBuild(v, r).env = Setenv(r, names) \union {<<"rm", rm(r)>>}
  BY DEF postBuild, Refused, Job
<1>6. CASE o \subseteq {"rm=false"}
  <2>1. rm(q(o)) = "0" /\ rm(q({})) = "1"
    BY <1>1, <1>2, <1>6, SaidIsGot
  <2> HIDE DEF rm
  <2>2. <<"rm", "0">> \notin Setenv(q({}), names)
    BY DEF Setenv
  <2>3. postBuild(v, q(o)).env # postBuild(v, q({})).env
    BY <1>5, <2>1, <2>2
  <2> QED
    BY <1>4, <2>3, OneTells
<1>7. CASE ~(o \subseteq {"rm=false"})
  <2>1. PICK p \in names, w \in Values : Get(q(o), p) = w /\ Get(q({}), p) = ""
    BY <1>1, <1>3, <1>7, SaidIsGot
  <2> HIDE DEF rm
  <2>2. <<p, w>> \in Setenv(q(o), names) /\ <<p, w>> \notin Setenv(q({}), names) /\ p # "rm"
    BY <2>1 DEF Setenv, Values
  <2>3. postBuild(v, q(o)).env # postBuild(v, q({})).env
    BY <1>5, <2>2
  <2> QED
    BY <1>4, <2>3, OneTells
<1> QED
  BY <1>6, <1>7

\* The request for the logs is the second of two.
LEMMA LogsTell ==
  ASSUME NEW v, NEW o, o # {}, o \subseteq {"follow", "timestamps", "tail"},
         NEW i \in 1..Len(CmdLogs(v, o)), i = Len(CmdLogs(v, o)) \/ CmdLogs(v, o)[i].next = "pull"
  PROVE  Differ(CmdLogs(v, o), CmdLogs(v, {}), i)
<1> DEFINE q(x) == {<<"stdout", "1">>, <<"stderr", "1">>, <<"tail", Val(x, "tail", "5", "all")>>}
                     \union Set(x, "timestamps", "timestamps", "1") \union Set(x, "follow", "follow", "1")
           names == {"follow", "tail", "stdout", "stderr", "timestamps"}
           s == Step(getContainersByName(v, {}), "env")
           t(x) == Step(getContainersLogs(q(x)), "stream")
<1>1. Lacks(q({}), "follow") /\ Lacks(q({}), "timestamps")
  BY DEF Lacks, Set
<1>2. Says(q({}), "tail", "all") /\ ("tail" \in o => Says(q(o), "tail", "5"))
  <2>1. Val({}, "tail", "5", "all") = "all" /\ ("tail" \in o => Val(o, "tail", "5", "all") = "5")
    BY DEF Val
  <2> QED
    BY <2>1 DEF Says, Gives, Set
<1>3. CmdLogs(v, o) = <<s>> \o <<t(o)>> /\ CmdLogs(v, {}) = <<s>> \o <<t({})>>
  BY DEF CmdLogs, One
<1>4. s.next = "stop" /\ \A x : t(x).h = getContainersLogs(q(x))
  BY DEF Step
<1> HIDE DEF q, s, t
<1>5. ASSUME NEW x PROVE Len(<<s>> \o <<t(x)>>) = 2 /\ (<<s>> \o <<t(x)>>)[1] = s /\ (<<s>> \o <<t(x)>>)[2] = t(x)
  OBVIOUS
<1>6. i = 2
  BY <1>3, <1>4, <1>5
<1>7. \A r : getContainersLogs(r).env = Setenv(r, names)
  BY DEF getContainersLogs, Refused, Job
<1>8. Setenv(q(o), names) # Setenv(q({}), names)
  <2>1. "follow" \in o => Gives(q(o), "follow", "1")
    BY DEF Gives, Set, q
  <2>2. "timestamps" \in o => Gives(q(o), "timestamps", "1")
    BY DEF Gives, Set, q
  <2>3. CASE "follow" \in o \/ "timestamps" \in o
    <3>1. \E p \in names, w \in Values : Gives(q(o), p, w) /\ Lacks(q({}), p)
      BY <1>1, <2>1, <2>2, <2>3 DEF Values
    <3> QED
      BY <3>1, SetenvMore
  <2>4. CASE "tail" \in o
    <3>1. Says(q(o), "tail", "5") /\ Says(q({}), "tail", "all") /\ "tail" \in names
      BY <1>2, <2>4
    <3> QED
      BY <3>1, SetenvTells
  <2> QED
    BY <2>3, <2>4
<1> QED
  BY <1>3, <1>4, <1>5, <1>6, <1>7, <1>8 DEF Differ

\* The creation of a container comes before the pull and again after it.
LEMMA RunRequests ==
  ASSUME NEW o
  PROVE  LET h == postContainersCreate(Set(o, "name", "name", "x"))
             q == CmdRun(o)
         IN  /\ Len(q) = 3 /\ q[1].h = h /\ q[3].h = h
             /\ q[1].next = "pull" /\ q[2].next = "stop" /\ q[3].next = "stop"
<1> DEFINE h == postContainersCreate(Set(o, "name", "name", "x"))
           g == postImagesCreate({<<"fromImage", "x">>, <<"tag", "latest">>})
           s == [Step(h, "env") EXCEPT !.next = "pull"]
           r == Step(g, "stream")
           z == Step(h, "env")
<1>1. CmdRun(o) = <<s>> \o <<r>> \o <<z>>
  BY DEF CmdRun, One
<1>2. s.h = h /\ z.h = h /\ s.next = "pull" /\ r.next = "stop" /\ z.next = "stop"
  BY DEF Step
<1> HIDE DEF h, g, s, r, z
<1>3. LET q == <<s>> \o <<r>> \o <<z>> IN Len(q) = 3 /\ q[1] = s /\ q[2] = r /\ q[3] = z
  OBVIOUS
<1> QED
  BY <1>1, <1>2, <1>3 DEF h

\* The container is created by the first request or by the third.
LEMMA RunTells ==
  ASSUME NEW o, o # {}, o \subseteq {"name"},
         NEW i \in 1..Len(CmdRun(o)), i = Len(CmdRun(o)) \/ CmdRun(o)[i].next = "pull"
  PROVE  Differ(CmdRun(o), CmdRun({}), i)
<1> DEFINE h(x) == postContainersCreate(Set(x, "name", "name", "x"))
<1>1. h(o).env # h({}).env
  <2> DEFINE q(x) == Set(x, "name", "name", "x")
  <2>1. Lacks(q({}), "name")
    BY DEF Lacks, Set
  <2>2. Gives(q(o), "name", "x")
    <3>1. "name" \in o
      OBVIOUS
    <3> QED
      BY <3>1 DEF Gives, Set
  <2> HIDE DEF q
  <2>3. Setenv(q(o), {"name"}) # Setenv(q({}), {"name"})
    BY <2>1, <2>2, SetenvMore DEF Values
  <2> QED
    BY <2>3 DEF q, postContainersCreate, Job
<1>2. ASSUME NEW x
      PROVE  /\ Len(CmdRun(x)) = 3 /\ CmdRun(x)[1].h = h(x) /\ CmdRun(x)[3].h = h(x)
             /\ CmdRun(x)[2].next = "stop"
  BY RunRequests
<1>3. i \in {1, 3}
  BY <1>2
<1> QED
  BY <1>1, <1>2, <1>3 DEF Differ

\* The request that a command ends with, if it ends well: the last one, or one that
\* leaves out the rest.
Closes(q, i) == i \in 1..Len(q) /\ (i = Len(q) \/ q[i].next = "pull")

LEMMA OptionsTell ==
  ASSUME NEW c \in DOMAIN Options, c # "pull", NEW v, NEW o, o # {}, o \subseteq Options[c],
         NEW a \in Seq(STRING), NEW i, Closes(StepsOf(c, v, o, a), i)
  PROVE  Differ(StepsOf(c, v, o, a), StepsOf(c, v, {}, a), i)
<1>1. CASE c = "stop"
  <2>1. \A x : StepsOf(c, v, x, a) = CmdStop(x, a)
    BY <1>1 DEF StepsOf
  <2>2. o \subseteq {"time"}
    BY <1>1 DEF Options
  <2> QED
    BY <2>1, <2>2, StopTells DEF Closes
<1>2. CASE c = "restart"
  <2>1. \A x : StepsOf(c, v, x, a) = CmdRestart(x, a)
    BY <1>2 DEF StepsOf
  <2>2. o \subseteq {"time"}
    BY <1>2 DEF Options
  <2> QED
    BY <2>1, <2>2, RestartTells DEF Closes
<1>3. CASE c = "kill"
  <2>1. \A x : StepsOf(c, v, x, a) = CmdKill(x, a)
    BY <1>3 DEF StepsOf
  <2>2. o \subseteq {"signal"}
    BY <1>3 DEF Options
  <2> QED
    BY <2>1, <2>2, KillTells DEF Closes
<1>4. CASE c = "rm"
  <2>1. \A x : StepsOf(c, v, x, a) = CmdRm(x, a)
    BY <1>4 DEF StepsOf
  <2>2. o \subseteq {"volumes", "link", "force"}
    BY <1>4 DEF Options
  <2> QED
    BY <2>1, <2>2, RmTells DEF Closes
<1>5. CASE c = "rmi"
  <2>1. \A x : StepsOf(c, v, x, a) = CmdRmi(x, a)
    BY <1>5 DEF StepsOf
  <2>2. o \subseteq {"force", "no-prune"}
    BY <1>5 DEF Options
  <2> QED
    BY <2>1, <2>2, RmiTells DEF Closes
<1>6. CASE c = "top"
  <2>1. \A x : StepsOf(c, v, x, a) = CmdTop(v, x)
    BY <1>6 DEF StepsOf
  <2>2. o \subseteq {"ps_args"}
    BY <1>6 DEF Options
  <2> QED
    BY <2>1, <2>2, TopTells DEF Closes
<1>7. CASE c = "import"
  <2>1. \A x : StepsOf(c, v, x, a) = CmdImport(x)
    BY <1>7 DEF StepsOf
  <2>2. o \subseteq {"repo"}
    BY <1>7 DEF Options
  <2> QED
    BY <2>1, <2>2, ImportTells DEF Closes
<1>8. CASE c = "push"
  <2>1. \A x : StepsOf(c, v, x, a) = CmdPush(x)
    BY <1>8 DEF StepsOf
  <2>2. o \subseteq {"tag"}
    BY <1>8 DEF Options
  <2> QED
    BY <2>1, <2>2, PushTells DEF Closes
<1>9. CASE c = "images"
  <2>1. \A x : StepsOf(c, v, x, a) = CmdImages(v, x)
    BY <1>9 DEF StepsOf
  <2>2. o \subseteq {"all", "filter", "tree", "name"}
    BY <1>9 DEF Options
  <2> QED
    BY <2>1, <2>2, ImagesTell DEF Closes
<1>10. CASE c = "ps"
  <2>1. \A x : StepsOf(c, v, x, a) = CmdPs(v, x)
    BY <1>10 DEF StepsOf
  <2>2. o \subseteq {"all", "size", "latest", "since", "before", "n", "filter"}
    BY <1>10 DEF Options
  <2> QED
    BY <2>1, <2>2, PsTells DEF Closes
<1>11. CASE c = "commit"
  <2>1. \A x : StepsOf(c, v, x, a) = CmdCommit(v, x)
    BY <1>11 DEF StepsOf
  <2>2. o \subseteq {"pause=false", "message", "author", "repo", "run"}
    BY <1>11 DEF Options
  <2> QED
    BY <2>1, <2>2, CommitTells DEF Closes
<1>12. CASE c = "events"
  <2>1. \A x : StepsOf(c, v, x, a) = CmdEvents(x)
    BY <1>12 DEF StepsOf
  <2>2. o \subseteq {"since", "until"}
    BY <1>12 DEF Options
  <2> QED
    BY <2>1, <2>2, EventsTells DEF Closes
<1>13. CASE c = "logs"
  <2>1. \A x : StepsOf(c, v, x, a) = CmdLogs(v, x)
    BY <1>13 DEF StepsOf
  <2>2. o \subseteq {"follow", "timestamps", "tail"}
    BY <1>13 DEF Options
  <2> QED
    BY <2>1, <2>2, LogsTell DEF Closes
<1>14. CASE c = "tag"
  <2>1. \A x : StepsOf(c, v, x, a) = CmdTag(x)
    BY <1>14 DEF StepsOf
  <2>2. o \subseteq {"force", "tag"}
    BY <1>14 DEF Options
  <2> QED
    BY <2>1, <2>2, TagTells DEF Closes
<1>15. CASE c = "build"
  <2>1. \A x : StepsOf(c, v, x, a) = CmdBuild(v, x)
    BY <1>15 DEF StepsOf
  <2>2. o \subseteq {"tag", "quiet", "no-cache", "rm=false", "force-rm", "remote"}
    BY <1>15 DEF Options
  <2> QED
    BY <2>1, <2>2, BuildTells DEF Closes
<1>16. CASE c = "run"
  <2>1. \A x : StepsOf(c, v, x, a) = CmdRun(x)
    BY <1>16 DEF StepsOf
  <2>2. o \subseteq {"name"}
    BY <1>16 DEF Options
  <2> QED
    BY <2>1, <2>2, RunTells DEF Closes
<1> QED
  BY <1>1, <1>2, <1>3, <1>4, <1>5, <1>6, <1>7, <1>8, <1>9, <1>10, <1>11, <1>12, <1>13, <1>14, <1>15, <1>16 DEF Options

LEMMA OneRequest ==
  ASSUME NEW v, NEW o, NEW a,
         NEW c \in {"top", "import", "push", "pull", "images", "ps", "commit", "events", "tag", "build"}
  PROVE  \E h, read : StepsOf(c, v, o, a) = One(h, read)
<1>1. CASE c = "top"
  BY <1>1 DEF StepsOf, CmdTop
<1>2. CASE c = "import"
  BY <1>2 DEF StepsOf, CmdImport
<1>3. CASE c = "push"
  BY <1>3 DEF StepsOf, CmdPush
<1>4. CASE c = "pull"
  BY <1>4 DEF StepsOf, CmdPull
<1>5. CASE c = "images"
  BY <1>5 DEF StepsOf, CmdImages
<1>6. CASE c = "ps"
  BY <1>6 DEF StepsOf, CmdPs
<1>7. CASE c = "commit"
  BY <1>7 DEF StepsOf, CmdCommit
<1>8. CASE c = "events"
  BY <1>8 DEF StepsOf, CmdEvents
<1>9. CASE c = "tag"
  BY <1>9 DEF StepsOf, CmdTag
<1>10. CASE c = "build"
  BY <1>10 DEF StepsOf, CmdBuild
<1> QED
  BY <1>1, <1>2, <1>3, <1>4, <1>5, <1>6, <1>7, <1>8, <1>9, <1>10

\* Only inspect, which has no options, has requests that stand for each other.
LEMMA NoneElse ==
  ASSUME NEW c \in DOMAIN Options, NEW v, NEW o, o # {}, o \subseteq Options[c],
         NEW a \in Seq(STRING), a # <<>>
  PROVE  LET q == StepsOf(c, v, o, a)
         IN  Len(q) # 0 /\ \A i \in 1..Len(q) : q[i].next # "else"
<1> DEFINE q == StepsOf(c, v, o, a)
<1>1. CASE c \in Several
  <2>1. ForEach(q, a)
    BY <1>1, SeveralSteps
  <2>2. Len(a) # 0
    OBVIOUS
  <2> HIDE DEF q
  <2>3. Len(q) # 0 /\ \A i \in 1..Len(q) : q[i].next # "else"
    BY <2>1, <2>2 DEF ForEach
  <2> QED
    BY <2>3 DEF q
<1>2. CASE c \in {"top", "import", "push", "pull", "images", "ps", "commit", "events", "tag", "build"}
  <2>1. PICK h, read : q = One(h, read)
    BY <1>2, OneRequest
  <2>2. Len(One(h, read)) = 1 /\ One(h, read)[1].next = "stop"
    BY DEF One, Step
  <2> HIDE DEF q
  <2>3. Len(q) = 1 /\ q[1].next = "stop"
    BY <2>1, <2>2
  <2>4. Len(q) # 0 /\ \A i \in 1..Len(q) : q[i].next # "else"
    BY <2>3
  <2> QED
    BY <2>4 DEF q
<1>3. CASE c = "logs"
  <2> DEFINE s == Step(getContainersByName(v, {}), "env")
             r == Step(getContainersLogs({<<"stdout", "1">>, <<"stderr", "1">>, <<"tail", Val(o, "tail", "5", "all")>>}
                         \union Set(o, "timestamps", "timestamps", "1") \union Set(o, "follow", "follow", "1")), "stream")
  <2>1. q = <<s>> \o <<r>>
    BY <1>3 DEF StepsOf, CmdLogs, One
  <2>2. s.next = "stop" /\ r.next = "stop"
    BY DEF Step
  <2> HIDE DEF q, s, r
  <2>3. Len(q) = 2 /\ q[1] = s /\ q[2] = r
    BY <2>1
  <2>4. Len(q) # 0 /\ \A i \in 1..Len(q) : q[i].next # "else"
    BY <2>2, <2>3
  <2> QED
    BY <2>4 DEF q
<1>4. CASE c = "run"
  <2>1. q = CmdRun(o)
    BY <1>4 DEF StepsOf
  <2> HIDE DEF q
  <2>2. Len(q) = 3 /\ q[1].next = "pull" /\ q[2].next = "stop" /\ q[3].next = "stop"
    BY <2>1, RunRequests
  <2>3. Len(q) # 0 /\ \A i \in 1..Len(q) : q[i].next # "else"
    BY <2>2
  <2> QED
    BY <2>3 DEF q
<1> QED
  BY <1>1, <1>2, <1>3, <1>4 DEF Options, Several

-----------------------------------------------------------------------------
(* What a command that succeeds has asked for.                             *)

All == StepsOf(cmd, version, opts, args)

\* The steps that are left are the last ones of the command, a good answer is to the
\* job of its step, and a command that has got through has run the job of a request
\* that closes it.
Follows ==
  opts # {} =>
    /\ exit = "" /\ todo # <<>> =>
         /\ Settled + Len(todo) = Len(All)
         /\ \A i \in 1..Len(todo) : todo[i] = All[Settled + i]
    /\ answer # None /\ IsGood(Head(todo).read, answer) => jobs[Len(jobs)].env = Head(todo).h.env
    /\ todo = <<>> /\ ~failed /\ exit # "error" =>
         Closes(All, Len(jobs)) /\ jobs[Len(jobs)].env = All[Len(jobs)].h.env

LEMMA AllFacts ==
  ASSUME cmd \in Commands, args \in Names, opts \subseteq Options[cmd], opts # {}
  PROVE  /\ cmd \in DOMAIN Options /\ args \in Seq(STRING) /\ args # <<>>
         /\ SeqOf(All) /\ Len(All) \in Nat /\ Len(All) # 0
         /\ \A i \in 1..Len(All) : All[i].next # "else"
<1>1. cmd \in DOMAIN Options /\ args \in Seq(STRING \ {""}) /\ args # <<>>
  BY CommandsAssumption, NamesAssumption
<1>2. args \in Seq(STRING)
  <2>1. STRING \ {""} \subseteq STRING
    OBVIOUS
  <2> QED
    BY <1>1, <2>1, SeqOfMore
<1>3. SeqOf(All) /\ Len(All) \in Nat
  BY <1>1, <1>2, StepsWellFormed, SeqOfFacts DEF WellFormed, All
<1>4. Len(All) # 0 /\ \A i \in 1..Len(All) : All[i].next # "else"
  BY <1>1, <1>2, NoneElse DEF All
<1> QED
  BY <1>1, <1>2, <1>3, <1>4

LEMMA InitFollows == Init => Follows
<1> SUFFICES ASSUME Init, opts # {}
             PROVE  Follows
  BY DEF Follows
<1>1. /\ todo = All /\ answer = None /\ exit = "" /\ jobs = <<>>
      /\ cmd \in Commands /\ args \in Names /\ opts \subseteq Options[cmd]
  BY DEF Init, All
<1>2. SeqOf(All) /\ Len(All) \in Nat /\ Len(All) # 0
  BY <1>1, AllFacts
<1>3. todo # <<>> /\ Settled = 0
  BY <1>1, <1>2, SeqOfFacts DEF Settled
<1>a. todo = All /\ Settled = 0 /\ Len(All) \in Nat
  BY <1>1, <1>2, <1>3
<1>4. Settled + Len(todo) = Len(All)
  BY <1>a
<1>5. ASSUME NEW i \in 1..Len(todo) PROVE todo[i] = All[Settled + i]
  <2>1. Settled + i = i
    BY <1>a
  <2> QED
    BY <1>1, <2>1
<1> QED
  BY <1>1, <1>3, <1>4, <1>5 DEF Follows

\* A job gets the environment of its step, unless the request is refused or does not
\* arrive; neither has a good answer.
LEMMA AskedFor ==
  ASSUME Types, (\E o \in Outcomes : Serve(o)) \/ Unreachable
  PROVE  \E j : jobs' = Append(jobs, j) /\ (IsGood(Head(todo).read, answer') => j.env = Head(todo).h.env)
<1> DEFINE s == Head(todo)
<1>1. ASSUME NEW o \in Outcomes, Serve(o)
      PROVE  \E j : jobs' = Append(jobs, j) /\ (IsGood(s.read, answer') => j.env = s.h.env)
  <2>1. CASE Rejects(version, s.h)
    <3>1. answer' = Reject(version, s.h) /\ jobs' = Append(jobs, Ran("none", {}, Lost))
      BY <1>1, <2>1, Zenon DEF Serve
    <3>2. ~IsGood(s.read, answer')
      BY <3>1, RejectIsBad
    <3> QED
      BY <3>1, <3>2
  <2>2. CASE ~Rejects(version, s.h)
    <3>1. jobs' = Append(jobs, Ran(s.h.job, s.h.env, o))
      BY <1>1, <2>2, Zenon DEF Serve
    <3>2. Ran(s.h.job, s.h.env, o).env = s.h.env
      BY DEF Ran
    <3> QED
      BY <3>1, <3>2
  <2> QED
    BY <2>1, <2>2
<1>2. ASSUME Unreachable
      PROVE  \E j : jobs' = Append(jobs, j) /\ (IsGood(s.read, answer') => j.env = s.h.env)
  <2>1. answer' = Answer(-1, "error", FALSE) /\ jobs' = Append(jobs, Ran("none", {}, Lost))
    BY <1>2, Zenon DEF Unreachable
  <2>2. ~IsGood(s.read, answer')
    BY <2>1, UnreachedIsBad
  <2> QED
    BY <2>1, <2>2
<1> QED
  BY <1>1, <1>2

LEMMA AskedFollows ==
  ASSUME IInv, Follows, (\E o \in Outcomes : Serve(o)) \/ Unreachable
  PROVE  Follows'
<1>1. Types /\ Awaited
  BY DEF IInv
<1>2. PICK j : jobs' = Append(jobs, j) /\ (IsGood(Head(todo).read, answer') => j.env = Head(todo).h.env)
  BY <1>1, AskedFor
<1>3. PICK k : Asked(k)
  BY <1>1, ServeAsks, UnreachableAsks
<1>4. /\ exit = "" /\ todo # <<>> /\ exit' = exit /\ todo' = todo
      /\ cmd' = cmd /\ args' = args /\ opts' = opts /\ version' = version
  BY <1>3 DEF Asked
<1>5. Settled' = Settled /\ jobs'[Len(jobs')] = j
  <2>1. Settled' = Len(jobs) /\ Settled = Len(jobs) /\ Len(jobs') = Len(jobs) + 1
    BY <1>1, <1>3, AskedJobs
  <2>2. SeqOf(jobs)
    BY <1>1 DEF Types
  <2>3. Append(jobs, j)[Len(jobs) + 1] = j
    BY <2>2, SeqOfAppend
  <2> QED
    BY <1>2, <2>1, <2>3
<1>6. All' = All
  BY <1>4 DEF All
<1> QED
  BY <1>2, <1>4, <1>5, <1>6, Zenon DEF Follows

LEMMA TakenFollows ==
  ASSUME IInv, Follows, Taken,
         todo' = <<>> /\ ~failed' /\ exit' # "error" =>
           /\ IsGood(Head(todo).read, answer)
           /\ Head(todo).next = "pull" \/ todo' = Tail(todo)
  PROVE  Follows'
<1> SUFFICES ASSUME opts' # {}
             PROVE  Follows'
  BY DEF Follows
<1>1. Types /\ Awaited
  BY DEF IInv
<1>2. /\ exit = "" /\ todo # <<>> /\ SeqOf(todo) /\ answer # None /\ answer' = None
      /\ cmd' = cmd /\ args' = args /\ opts' = opts /\ version' = version /\ jobs' = jobs
  BY <1>1, TakenFacts DEF Taken
<1>3. Len(todo) \in Nat /\ Settled \in Nat /\ Len(jobs) = Settled + 1 /\ Settled' = Settled + 1
  BY <1>1, TakenCounts
<1>4. All' = All
  BY <1>2 DEF All
<1>5. /\ SeqOf(All) /\ Len(All) \in Nat /\ \A i \in 1..Len(All) : All[i].next # "else"
  BY <1>1, <1>2, AllFacts DEF Types
<1>6. /\ Settled + Len(todo) = Len(All) /\ \A i \in 1..Len(todo) : todo[i] = All[Settled + i]
      /\ IsGood(Head(todo).read, answer) => jobs[Len(jobs)].env = Head(todo).h.env
  BY <1>2, Zenon DEF Follows
<1>7. /\ SeqOf(Tail(todo)) /\ Len(Tail(todo)) = Len(todo) - 1 /\ Head(todo) = todo[1] /\ Len(todo) # 0
      /\ \A i \in 1..Len(Tail(todo)) : Tail(todo)[i] = todo[i + 1]
  <2>1. Len(todo) # 0
    BY <1>2, SeqOfFacts
  <2> QED
    BY <1>2, <2>1, SeqOfTail
<1>8. Head(todo) = All[Len(jobs)] /\ Len(jobs) \in 1..Len(All)
  <2>1. 1 \in 1..Len(todo)
    BY <1>3, <1>7
  <2>2. todo[1] = All[Settled + 1]
    BY <1>6, <2>1
  <2> QED
    BY <1>3, <1>6, <1>7, <2>2
<1>9. ASSUME exit' = "", todo' # <<>>
      PROVE  Settled' + Len(todo') = Len(All) /\ \A i \in 1..Len(todo') : todo'[i] = All[Settled' + i]
  <2>1. Head(todo).next # "else"
    BY <1>5, <1>8
  <2>2. todo' = Tail(todo)
    BY <1>9, <2>1, Zenon DEF Taken
  <2>3. ASSUME NEW i \in 1..Len(Tail(todo))
        PROVE  Tail(todo)[i] = All[Settled' + i]
    <3>1. i + 1 \in 1..Len(todo) /\ Settled + (i + 1) = Settled' + i
      BY <1>3, <1>7
    <3>2. todo[i + 1] = All[Settled + (i + 1)]
      BY <1>6, <3>1
    <3> QED
      BY <1>7, <3>1, <3>2
  <2>4. Settled' + Len(Tail(todo)) = Len(All)
    BY <1>3, <1>6, <1>7
  <2> QED
    BY <2>2, <2>3, <2>4
<1>10. ASSUME todo' = <<>>, ~failed', exit' # "error"
       PROVE  Closes(All, Len(jobs)) /\ jobs[Len(jobs)].env = All[Len(jobs)].h.env
  <2>1. Head(todo).next = "pull" \/ todo' = Tail(todo)
    BY <1>10
  <2>2. todo' = Tail(todo) => Len(jobs) = Len(All)
    <3> DEFINE t == Tail(todo)
    <3> SUFFICES ASSUME todo' = t
                 PROVE  Len(jobs) = Len(All)
      OBVIOUS
    <3>1. SeqOf(t) /\ Len(t) = Len(todo) - 1
      BY <1>7
    <3> HIDE DEF t
    <3>2. Len(t) = 0
      BY <1>10, <3>1, SeqOfFacts
    <3>3. Settled + Len(todo) = Len(All)
      BY <1>6
    <3>4. Len(todo) = 1
      BY <1>3, <3>1, <3>2
    <3> QED
      BY <1>3, <3>3, <3>4
  <2>3. Closes(All, Len(jobs))
    BY <1>8, <2>1, <2>2 DEF Closes
  <2> QED
    BY <1>6, <1>8, <1>10, <2>3
<1> QED
  BY <1>2, <1>4, <1>9, <1>10, Zenon DEF Follows

LEMMA ErrorFollows ==
  ASSUME IInv, Follows, ReadError
  PROVE  Follows'
<1>1. Taken
  BY ErrorTaken
<1>2. failed' \/ exit' = "error" \/ (Head(todo).next \in {"else", "pull"} /\ todo' = Tail(todo))
  BY ErrorTaken
<1>3. Head(todo).next \in {"else", "pull"} => Tail(todo) # <<>>
  <2>1. WellFormed(cmd, todo) /\ todo # <<>>
    BY <1>1, TakenFacts DEF IInv, Types
  <2> QED
    BY <2>1, HeadFacts
<1> QED
  BY <1>1, <1>2, <1>3, TakenFollows

LEMMA OkFollows ==
  ASSUME IInv, Follows, ReadOk
  PROVE  Follows'
<1>1. Taken
  BY OkTaken
<1>2. IsGood(Head(todo).read, answer) /\ UNCHANGED <<cmd, args, opts, version>>
  BY Zenon DEF ReadOk, IsGood
<1>3. CASE opts = {}
  BY <1>2, <1>3 DEF Follows
<1>4. CASE opts # {}
  <2>1. Types /\ Awaited
    BY DEF IInv
  <2>2. exit = "" /\ todo # <<>> /\ SeqOf(todo)
    BY <1>1, <2>1, TakenFacts
  <2>3. Head(todo).next # "else"
    <3>1. todo[1] = All[Settled + 1] /\ Settled + Len(todo) = Len(All) /\ Len(todo) # 0 /\ Len(todo) \in Nat
      <4>0. Len(todo) # 0 /\ Len(todo) \in Nat
        BY <2>2, SeqOfFacts
      <4>1. 1 \in 1..Len(todo)
        BY <4>0
      <4> QED
        BY <1>4, <2>2, <4>0, <4>1, Zenon DEF Follows
    <3>2. Settled + 1 \in 1..Len(All)
      BY <1>1, <2>1, <3>1, TakenCounts
    <3>3. All[Settled + 1].next # "else"
      BY <1>4, <2>1, <3>2, AllFacts DEF Types
    <3> QED
      BY <2>2, <3>1, <3>3, SeqOfTail
  <2>4. Head(todo).next = "pull" \/ todo' = Tail(todo)
    BY <2>3, Zenon DEF ReadOk
  <2> QED
    BY <1>1, <1>2, <2>4, TakenFollows
<1> QED
  BY <1>3, <1>4

LEMMA RefuseFollows ==
  ASSUME Refuse
  PROVE  Follows'
<1>1. answer' = None /\ exit' = "error"
  BY Zenon DEF Refuse
<1> QED
  BY <1>1 DEF Follows

LEMMA RestFollows ==
  ASSUME IInv, Follows, Finish \/ UNCHANGED vars
  PROVE  Follows'
<1>1. /\ cmd' = cmd /\ args' = args /\ opts' = opts /\ version' = version /\ todo' = todo /\ answer' = answer
      /\ failed' = failed /\ jobs' = jobs
  BY Zenon DEF Finish, vars
<1>2. Settled' = Settled /\ All' = All
  BY <1>1 DEF Settled, All
<1>3. \/ exit' = exit
      \/ exit = "" /\ exit' # ""
  BY Zenon DEF Finish, vars
<1>4. exit' = "" => exit = ""
  BY <1>3
<1>5. exit' # "error" /\ ~failed => exit # "error"
  BY <1>3
<1> QED
  BY <1>1, <1>2, <1>4, <1>5, Zenon DEF Follows

\* OptionsReach (commands.go): a command that succeeds has asked for something else
\* than it asks for without its options, whatever the options, names, versions and
\* errors are.
THEOREM SpecOptionsReach == Spec => []OptionsReach
<1>1. Init => IInv /\ Follows
  BY InitInv, InitFollows
<1>2. IInv /\ Follows /\ [Next]_vars => IInv' /\ Follows'
  BY InvStep, AskedFollows, ErrorFollows, OkFollows, RefuseFollows, RestFollows DEF Next
<1>3. IInv /\ Follows => OptionsReach
  <2> SUFFICES ASSUME IInv, Follows, exit = "ok", opts # {}, cmd # "pull"
               PROVE  \E i \in 1..Len(jobs) : jobs[i].env # StepsOf(cmd, version, {}, args)[i].h.env
    BY DEF OptionsReach
  <2>1. Types /\ Counted /\ Ended
    BY DEF IInv
  <2>2. todo = <<>> /\ ~failed /\ exit # "error"
    BY <2>1 DEF Ended
  <2>3. Closes(All, Len(jobs)) /\ jobs[Len(jobs)].env = All[Len(jobs)].h.env
    BY <2>2, Zenon DEF Follows
  <2>4. cmd \in DOMAIN Options /\ args \in Seq(STRING) /\ opts \subseteq Options[cmd]
    BY <2>1, AllFacts DEF Types
  <2>5. Differ(All, StepsOf(cmd, version, {}, args), Len(jobs))
    BY <2>3, <2>4, OptionsTell DEF All
  <2>6. Len(jobs) \in 1..Len(jobs)
    <3>1. Len(jobs) \in Nat
      BY <2>1, SeqOfFacts DEF Types
    <3> QED
      BY <2>3, <3>1 DEF Closes
  <2> QED
    BY <2>3, <2>5, <2>6 DEF Differ
<1> QED
  BY <1>1, <1>2, <1>3, PTL DEF Spec
=============================================================================
