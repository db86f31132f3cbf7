--------------------------- MODULE ToolCallsProofs ---------------------------
(***************************************************************************)
(* ToolCalls for any paths, texts, sizes and numbers of calls: what a call   *)
(* tells its emitter, its session, its exit code and the paths it asks for;  *)
(* and what a scripted answer tells of its text.                             *)
(***************************************************************************)
EXTENDS ToolCalls, SequenceTheorems, WellFoundedInduction, TLAPS

Steps == {"idle", "fetching", "opening", "running", "chunks", "cleaning",
          "sizing", "reading", "uploading"}
ToolEvents == {Start, Update, End(TRUE), End(FALSE)}

\* The fields of a call; what is in them is said below.
CallShape ==
  call = [at |-> call.at, req |-> call.req, chunks |-> call.chunks,
          pending |-> call.pending, result |-> call.result, place |-> call.place,
          ended |-> call.ended, late |-> call.late]

\* Each tool has steps of its own, and the tool has the turn just while it is at one.
StepsOK ==
  /\ call.at \in Steps /\ turn \in {"model", "tool", "over"} /\ n \in Nat
  /\ turn = "tool" <=> call.at # "idle"
  /\ n = 0 => call = NoCall /\ log = <<>>
  /\ turn = "tool" => n > 0 /\ call.req \in Requests
  /\ call.at \in {"opening", "running", "chunks", "cleaning"} => call.req.tool = "bash"
  /\ call.at \in {"sizing", "reading", "uploading"} => call.req.tool # "bash"
  /\ last.role = "user" => last.asks \in Requests \cup {None}

Chunk == {"stdout", "stderr", "exit 0", "exit 1"}

\* The chunks of a command: perhaps output, then the exit code, which is not 0 when
\* the command failed.
Exits(chunks, ended) ==
  LET code == chunks[Len(chunks)] IN
  /\ chunks \in Seq(Chunk) /\ Len(chunks) \in {1, 2}
  /\ code \in {"exit 0", "exit 1"}
  /\ code = "exit 0" => ended \in {"zero", "missing"}
  /\ Len(chunks) = 2 => chunks[1] \in {"stdout", "stderr"}

\* A success of bash is one of a command that ended in time, with the code it says.
Honest(result) ==
  result.success => ~call.late /\ (result.value = 0 => call.ended \in {"zero", "missing"})

OutcomeOK ==
  /\ call.late => aborted
  /\ call.at = "chunks" => Exits(call.chunks, call.ended)
  /\ call.at = "cleaning" => Honest(call.pending)
  /\ turn # "tool" /\ n > 0 /\ call.req.tool = "bash" => Honest(call.result)

\* What is told: the end of a call that is not over yet was told by its cancellation.
Bracketed(s) ==
  \A i \in 1..Len(s) :
    /\ s[i].type = "start" => i = 1
    /\ s[i].type = "end" => i = Len(s)
    /\ s[i].type = "update" => i > 1

LogOK ==
  /\ log \in Seq(ToolEvents) /\ Bracketed(log)
  /\ turn = "tool" =>
       /\ Len(log) > 0 /\ log[1] = Start
       /\ log[Len(log)].type = "end" =>
            call.at = "cleaning" /\ log[Len(log)] = EndOf(call.pending)
  /\ turn # "tool" /\ n > 0 =>
       /\ Len(log) > 0 /\ log[Len(log)] = EndOf(call.result)
       /\ Len(log) = 1 => call.result = Failure("VALIDATION_ERROR")

SessionOK == session = "open" => call.at \in {"running", "chunks", "cleaning"}

FilesOK ==
  /\ fs = [place \in Places |-> fs[place]]
  /\ call.at \in {"sizing", "reading", "uploading"} => Inside(call.place)

CallInv ==
  /\ CallShape /\ StepsOK /\ OutcomeOK /\ LogOK /\ SessionOK
  /\ FilesOK /\ Confined

-----------------------------------------------------------------------------
(* The chunks of a command.                                                  *)

LEMMA ShortSequences ==
  ASSUME NEW S, NEW x \in S, NEW y \in S
  PROVE  /\ Append(<<>>, x) \in Seq(S)
         /\ Len(Append(<<>>, x)) \in {1, 2} /\ Len(Append(<<>>, x)) # 2
         /\ Append(<<>>, x)[Len(Append(<<>>, x))] = x
         /\ Append(<<y>>, x) \in Seq(S) /\ Len(Append(<<y>>, x)) = 2
         /\ Append(<<y>>, x)[1] = y /\ Append(<<y>>, x)[2] = x
<1>1. <<>> \in Seq(S) /\ Len(<<>>) = 0
  BY EmptySeq
<1>2. <<y>> \in Seq(S) /\ Len(<<y>>) = 1 /\ <<y>>[1] = y
  OBVIOUS
<1>3. \A s \in Seq(S) : /\ Append(s, x) \in Seq(S) /\ Len(Append(s, x)) = Len(s) + 1
        /\ Append(s, x)[Len(s) + 1] = x /\ \A i \in 1..Len(s) : Append(s, x)[i] = s[i]
  BY AppendProperties
<1> DEFINE one == <<y>>
           two == Append(one, x)
<1>4. one \in Seq(S) /\ Len(one) = 1 /\ one[1] = y
  BY <1>2
<1>5. Len(two) = Len(one) + 1 /\ two[Len(one) + 1] = x /\ two[1] = one[1] /\ two \in Seq(S)
  <2> HIDE DEF one
  <2>1. QED
    BY <1>3, <1>4
<1>6. Len(two) = 2 /\ two[2] = x /\ two[1] = y /\ two \in Seq(S)
  <2> HIDE DEF two, one
  <2>1. QED
    BY <1>4, <1>5
<1> DEFINE none == <<>>
           single == Append(none, x)
<1>7. single \in Seq(S) /\ Len(single) = Len(none) + 1 /\ single[Len(none) + 1] = x /\ Len(none) = 0
  <2>1. none \in Seq(S) /\ Len(none) = 0
    BY <1>1
  <2> HIDE DEF none
  <2>2. QED
    BY <1>3, <2>1
<1>8. single \in Seq(S) /\ Len(single) \in {1, 2} /\ Len(single) # 2 /\ single[Len(single)] = x
  <2> HIDE DEF single, none
  <2>1. QED
    BY <1>7
<1>9. QED
  BY <1>6, <1>8

\* What a command answered with ends in its exit code.
LEMMA AnswerExits ==
  ASSUME NEW x \in {"exit 0", "exit 1"}, NEW ended \in {"zero", "one", "missing"},
         x = "exit 0" => ended \in {"zero", "missing"}
  PROVE  Exits(Append(<<>>, x), ended) /\ Exits(Append(<<"stdout">>, x), ended)
<1> DEFINE none == Append(<<>>, x)
           some == Append(<<"stdout">>, x)
<1>1. x \in Chunk /\ "stdout" \in Chunk /\ "stdout" \in {"stdout", "stderr"}
  BY DEF Chunk
<1>2. \A y \in Chunk :
        /\ Append(<<>>, x) \in Seq(Chunk)
        /\ Len(Append(<<>>, x)) \in {1, 2} /\ Len(Append(<<>>, x)) # 2
        /\ Append(<<>>, x)[Len(Append(<<>>, x))] = x
        /\ Append(<<y>>, x) \in Seq(Chunk) /\ Len(Append(<<y>>, x)) = 2
        /\ Append(<<y>>, x)[1] = y /\ Append(<<y>>, x)[2] = x
  BY <1>1, ShortSequences
<1>3. some \in Seq(Chunk) /\ Len(some) = 2 /\ some[2] = x /\ some[1] = "stdout"
  BY <1>1, <1>2, Zenon
<1>4. none \in Seq(Chunk) /\ Len(none) \in {1, 2} /\ Len(none) # 2 /\ none[Len(none)] = x
  BY <1>1, <1>2
<1> HIDE DEF none, some
<1>5. Exits(none, ended)
  BY <1>4, Zenon DEF Exits
<1>6. Exits(some, ended)
  BY <1>1, <1>3 DEF Exits
<1>7. QED
  BY <1>5, <1>6 DEF none, some

\* What an error is told as.
LEMMA ErrorExits == Exits(ErrorChunks, "failed")
<1> DEFINE err == "stderr"
           exit == "exit 1"
<1>1. err \in Chunk /\ exit \in Chunk
  BY DEF Chunk
<1>2. exit \in {"exit 0", "exit 1"} /\ err \in {"stdout", "stderr"} /\ exit # "exit 0"
  OBVIOUS
<1>3. ErrorChunks = <<err, exit>>
  BY DEF ErrorChunks
<1> HIDE DEF err, exit
<1>4. /\ ErrorChunks \in Seq(Chunk) /\ Len(ErrorChunks) = 2
      /\ ErrorChunks[1] = err /\ ErrorChunks[2] = exit
  BY <1>1, <1>3
<1>5. QED
  BY <1>2, <1>4 DEF Exits

\* The chunks are taken in order, and the exit code is the last.
LEMMA ChunksTaken ==
  ASSUME NEW chunks, NEW ended, Exits(chunks, ended)
  PROVE  /\ Len(chunks) \in {1, 2}
         /\ Len(chunks) = 1 =>
              /\ Head(chunks) \in {"exit 0", "exit 1"}
              /\ Head(chunks) = "exit 0" => ended \in {"zero", "missing"}
         /\ Len(chunks) = 2 =>
              Head(chunks) \in {"stdout", "stderr"} /\ Exits(Tail(chunks), ended)
<1>1. /\ chunks \in Seq(Chunk) /\ Len(chunks) \in {1, 2}
  BY DEF Exits
<1>2. Head(chunks) = chunks[1]
  BY <1>1
<1>3. Len(chunks) = 2 => /\ Tail(chunks) \in Seq(Chunk) /\ Len(Tail(chunks)) = 1
                         /\ Tail(chunks)[1] = chunks[2]
  BY <1>1
<1>4. QED
  BY <1>1, <1>2, <1>3 DEF Exits

-----------------------------------------------------------------------------
(* What is told.                                                             *)

LEMMA Events ==
  /\ Start \in ToolEvents /\ Update \in ToolEvents /\ End(TRUE) \in ToolEvents
  /\ Start.type = "start" /\ Update.type = "update"
  /\ \A e : End(e).type = "end"
  /\ \A e \in BOOLEAN : End(e) \in ToolEvents
BY DEF Start, Update, End, ToolEvents

\* Anything but a start may follow what is not an end.
LEMMA Continues ==
  ASSUME NEW s \in Seq(ToolEvents), Bracketed(s), Len(s) > 0, s[Len(s)].type # "end",
         NEW e \in ToolEvents, e.type # "start"
  PROVE  /\ s \o <<e>> \in Seq(ToolEvents) /\ Bracketed(s \o <<e>>)
         /\ Len(s \o <<e>>) = Len(s) + 1
         /\ (s \o <<e>>)[Len(s) + 1] = e /\ (s \o <<e>>)[1] = s[1]
<1> DEFINE t == s \o <<e>>
<1>1. /\ t \in Seq(ToolEvents) /\ Len(t) = Len(s) + 1 /\ t[Len(s) + 1] = e
      /\ \A i \in 1..Len(s) : t[i] = s[i]
  OBVIOUS
<1> HIDE DEF t
<1>2. Len(s) \in Nat
  OBVIOUS
<1>3. Bracketed(t)
  BY <1>1, <1>2 DEF Bracketed
<1>4. QED
  BY <1>1, <1>2, <1>3 DEF t

\* The end of a call is told, or was.
LEMMA Returning ==
  ASSUME CallInv, turn = "tool", NEW result, Returned(result), Steady,
         call.req.tool = "bash" => Honest(result)
  PROVE  /\ CallShape' /\ StepsOK' /\ OutcomeOK' /\ turn' = "model"
         /\ call'.at = "idle" /\ call'.req = call.req /\ call'.result = result
         /\ call'.place = call.place
<1>1. /\ call' = [call EXCEPT !.at = "idle", !.pending = None, !.chunks = <<>>,
                             !.result = result]
      /\ last' = [role |-> "toolResult", asks |-> None, isError |-> FALSE]
      /\ turn' = "model" /\ UNCHANGED <<n, aborted>>
  BY DEF Returned, Steady
<1>2. /\ CallShape' /\ call'.at = "idle" /\ call'.req = call.req
      /\ call'.result = result /\ call'.place = call.place
      /\ call'.ended = call.ended /\ call'.late = call.late
  BY <1>1 DEF CallInv, CallShape
<1>3. StepsOK'
  BY <1>1, <1>2 DEF CallInv, StepsOK, Steps
<1>4. OutcomeOK'
  BY <1>1, <1>2 DEF CallInv, OutcomeOK, Honest
<1>5. QED
  BY <1>1, <1>2, <1>3, <1>4

LEMMA EndTold ==
  ASSUME CallInv, turn = "tool", log[Len(log)].type # "end", NEW result, Ends(result),
         Steady, call.req.tool = "bash" => Honest(result)
  PROVE  LogOK'
<1>1. /\ turn' = "model" /\ call'.req = call.req /\ call'.result = result
      /\ n' = n /\ n > 0
  BY Returning DEF Ends, Steady, CallInv, StepsOK
<1>2. /\ EndOf(result) \in ToolEvents /\ EndOf(result).type = "end"
      /\ EndOf(call.result)' = EndOf(result)
  BY <1>1, Events DEF EndOf
<1>3. log' = log \o <<EndOf(result)>>
  BY DEF Ends, Emit
<1>4. log \in Seq(ToolEvents) /\ Bracketed(log) /\ Len(log) > 0 /\ log[1] = Start
  BY DEF CallInv, LogOK
<1>5. /\ log' \in Seq(ToolEvents) /\ Bracketed(log') /\ Len(log') = Len(log) + 1
      /\ log'[Len(log')] = EndOf(result)
  BY <1>2, <1>3, <1>4, Continues
<1>6. Len(log') > 1
  BY <1>4, <1>5
<1>7. QED
  BY <1>1, <1>2, <1>5, <1>6 DEF LogOK

\* A call that ends at an await of its own: the end is told in the same step.
LEMMA EndsKept ==
  ASSUME CallInv, turn = "tool", call.at # "cleaning", NEW result, Ends(result), Steady,
         call.req.tool = "bash" => Honest(result), session' # "open",
         fs' = [place \in Places |-> fs'[place]],
         \A place \in Places : ~Inside(place) => fs'[place] = fs[place]
  PROVE  CallInv'
<1>1. /\ CallShape' /\ StepsOK' /\ OutcomeOK' /\ call'.at = "idle"
      /\ call'.place = call.place
  BY Returning DEF Ends
<1>2. LogOK'
  BY EndTold DEF CallInv, LogOK
<1>3. SessionOK' /\ FilesOK'
  BY <1>1 DEF SessionOK, FilesOK
<1>4. Confined'
  BY <1>1 DEF CallInv, Confined, Exists
<1>5. QED
  BY <1>1, <1>2, <1>3, <1>4 DEF CallInv

\* An error of a tool is a failure whatever its message says.
LEMMA Failures ==
  /\ \A code : Honest(Failure(code)) /\ ~Failure(code).success
  /\ \A e : Honest(Failed(e)) /\ ~Failed(e).success
BY DEF Honest, Failure, Failed

\* A call that goes on: another step of the same tool, with nothing to tell.
LEMMA GoesOn ==
  ASSUME CallInv, turn = "tool", Waiting, UNCHANGED <<n, log>>, CallShape',
         call'.at \in Steps \ {"idle"}, call'.req = call.req,
         call'.at \in {"opening", "running", "chunks", "cleaning"} => call.req.tool = "bash",
         call'.at \in {"sizing", "reading", "uploading"} => call.req.tool # "bash",
         call.at # "cleaning",
         SessionOK', FilesOK', Confined', OutcomeOK'
  PROVE  CallInv'
<1>1. StepsOK'
  BY DEF CallInv, StepsOK, Waiting
<1>2. LogOK'
  BY DEF CallInv, LogOK, Waiting, StepsOK
<1>3. QED
  BY <1>1, <1>2 DEF CallInv

-----------------------------------------------------------------------------
(* The steps.                                                                *)

LEMMA FetchedKept ==
  ASSUME CallInv, Fetched
  PROVE  CallInv'
<1> DEFINE req == call.req
           names == validatePath(req.path)
<1>1. turn = "tool" /\ call.at = "fetching" /\ Steady /\ UNCHANGED <<session, fs>>
  BY DEF Fetched, CallInv, StepsOK
<1>2. session # "open" /\ fs = [place \in Places |-> fs[place]]
  BY <1>1 DEF CallInv, SessionOK, FilesOK
<1>3. \A e : Ends(Failed(e)) => CallInv'
  BY <1>1, <1>2, EndsKept, Failures
<1>4. ASSUME req.tool = "bash", call' = [call EXCEPT !.at = "opening"], Waiting,
             UNCHANGED log
      PROVE  CallInv'
  <2>1. /\ CallShape' /\ call'.at = "opening" /\ call'.req = call.req
        /\ call'.place = call.place /\ call'.late = call.late
    BY <1>4 DEF CallInv, CallShape
  <2>2. OutcomeOK'
    BY <1>1, <1>4, <2>1 DEF CallInv, OutcomeOK, Steady, Waiting, StepsOK
  <2>3. SessionOK' /\ FilesOK' /\ Confined'
    BY <1>1, <2>1 DEF CallInv, SessionOK, FilesOK, Confined, Exists
  <2>4. QED
    BY <1>1, <1>4, <2>1, <2>2, <2>3, GoesOn DEF Steps, Steady
<1>5. ASSUME req.tool # "bash", names # None,
             call' = [call EXCEPT !.place = Place(names),
                       !.at = IF req.tool = "read" THEN "sizing" ELSE "uploading"],
             Waiting, UNCHANGED log
      PROVE  CallInv'
  <2>1. /\ CallShape' /\ call'.at \in {"sizing", "uploading"} /\ call'.req = call.req
        /\ call'.place = Place(names) /\ call'.late = call.late
    BY <1>5 DEF CallInv, CallShape
  <2>2. Inside(Place(names))
    BY <1>5 DEF validatePath, Inside, Place
  <2> HIDE DEF names
  <2>3. OutcomeOK'
    BY <1>1, <1>5, <2>1 DEF CallInv, OutcomeOK, Steady, Waiting, StepsOK
  <2>4. SessionOK' /\ FilesOK' /\ Confined'
    BY <1>1, <1>2, <2>1, <2>2 DEF CallInv, SessionOK, FilesOK, Confined, Exists
  <2>5. QED
    BY <1>1, <1>5, <2>1, <2>3, <2>4, GoesOn DEF Steps, Steady
<1>6. QED
  BY <1>3, <1>4, <1>5 DEF Fetched

\* An error of the command: a time-out ends it, any other is output and exit 1.
LEMMA YieldsKept ==
  ASSUME CallInv, Steady, Waiting, UNCHANGED <<log, fs>>,
         call.at \in {"opening", "running"},
         NEW chunks, NEW ended, Exits(chunks, ended), Yields(chunks, ended)
  PROVE  CallInv'
<1>1. turn = "tool" /\ call.req.tool = "bash"
  BY DEF CallInv, StepsOK
<1>2. /\ CallShape' /\ call'.at = "chunks" /\ call'.req = call.req
      /\ call'.place = call.place /\ call'.late = aborted
      /\ call'.chunks = chunks /\ call'.ended = ended
  BY DEF Yields, CallInv, CallShape
<1>3. OutcomeOK'
  BY <1>1, <1>2 DEF OutcomeOK, Steady, Waiting
<1>4. SessionOK' /\ FilesOK' /\ Confined'
  BY <1>2 DEF CallInv, SessionOK, FilesOK, Confined, Exists
<1>5. QED
  BY <1>1, <1>2, <1>3, <1>4, GoesOn DEF Steps, Steady

LEMMA CaughtKept ==
  ASSUME CallInv, Steady, Waiting, UNCHANGED <<log, fs>>,
         call.at \in {"opening", "running"}, NEW e, Caught(e)
  PROVE  CallInv'
<1>1. CASE "timeout" \in e.says
  <2> DEFINE failure == Failed(CommandTimeoutError(call.req.text))
  <2>1. call' = [call EXCEPT !.at = "cleaning", !.ended = "failed", !.late = aborted,
                             !.pending = failure]
    BY <1>1 DEF Caught
  <2>2. ~failure.success
    BY Failures
  <2> HIDE DEF failure
  <2>3. turn = "tool" /\ call.req.tool = "bash"
    BY DEF CallInv, StepsOK
  <2>4. /\ CallShape' /\ call'.at = "cleaning" /\ call'.req = call.req
        /\ call'.place = call.place /\ call'.late = aborted /\ call'.pending = failure
    BY <2>1 DEF CallInv, CallShape
  <2>5. OutcomeOK'
    BY <2>2, <2>3, <2>4 DEF OutcomeOK, Honest, Steady, Waiting
  <2>6. SessionOK' /\ FilesOK' /\ Confined'
    BY <2>4 DEF CallInv, SessionOK, FilesOK, Confined, Exists
  <2>7. QED
    BY <2>3, <2>4, <2>5, <2>6, GoesOn DEF Steps, Steady
<1>2. CASE "timeout" \notin e.says
  <2>1. QED
    BY <1>2, ErrorExits, YieldsKept DEF Caught
<1>3. QED
  BY <1>1, <1>2

LEMMA SessionOpenedKept ==
  ASSUME CallInv, SessionOpened
  PROVE  CallInv'
<1>1. ASSUME session' = "open", call' = [call EXCEPT !.at = "running"]
      PROVE  CallInv'
  <2>1. /\ turn = "tool" /\ call.at = "opening" /\ call.req.tool = "bash"
        /\ Waiting /\ Steady /\ UNCHANGED <<log, fs>>
    BY DEF SessionOpened, CallInv, StepsOK
  <2>2. /\ CallShape' /\ call'.at = "running" /\ call'.req = call.req
        /\ call'.place = call.place /\ call'.late = call.late
    BY <1>1 DEF CallInv, CallShape
  <2>3. OutcomeOK'
    BY <2>1, <2>2 DEF CallInv, OutcomeOK, Steady, Waiting
  <2>4. SessionOK' /\ FilesOK' /\ Confined'
    BY <2>1, <2>2 DEF CallInv, SessionOK, FilesOK, Confined, Exists
  <2>5. QED
    BY <2>1, <2>2, <2>3, <2>4, GoesOn DEF Steps, Steady
<1>2. QED
  BY <1>1, CaughtKept DEF SessionOpened

LEMMA CommandAnsweredKept ==
  ASSUME CallInv, CommandAnswered
  PROVE  CallInv'
<1>1. ASSUME NEW output \in {<<>>, <<"stdout">>}, NEW ended \in {"zero", "one", "missing"}
      PROVE  Exits(Append(output, IF ended = "one" THEN "exit 1" ELSE "exit 0"), ended)
  <2> DEFINE x == IF ended = "one" THEN "exit 1" ELSE "exit 0"
  <2>1. x \in {"exit 0", "exit 1"}
    OBVIOUS
  <2>2. x = "exit 0" => ended \in {"zero", "missing"}
    OBVIOUS
  <2> HIDE DEF x
  <2>3. Exits(Append(<<>>, x), ended) /\ Exits(Append(<<"stdout">>, x), ended)
    BY <2>1, <2>2, AnswerExits
  <2>4. Exits(Append(output, x), ended)
    BY <2>3, Zenon
  <2>5. QED
    BY <2>4 DEF x
<1>2. QED
  BY <1>1, YieldsKept, CaughtKept DEF CommandAnswered

LEMMA TakeChunkKept ==
  ASSUME CallInv, TakeChunk
  PROVE  CallInv'
<1>1. /\ turn = "tool" /\ call.at = "chunks" /\ call.req.tool = "bash" /\ n > 0
      /\ Steady /\ Waiting /\ UNCHANGED <<session, fs>>
      /\ IF aborted THEN Cancelled ELSE Taken
  BY DEF TakeChunk, Cancelled, Taken, CallInv, StepsOK
<1>2. Exits(call.chunks, call.ended)
  BY <1>1 DEF CallInv, OutcomeOK
<1> DEFINE x == Head(call.chunks)
<1>3. /\ Len(call.chunks) \in {1, 2}
      /\ Len(call.chunks) = 1 =>
           /\ x \in {"exit 0", "exit 1"}
           /\ x = "exit 0" => call.ended \in {"zero", "missing"}
      /\ Len(call.chunks) = 2 =>
           x \in {"stdout", "stderr"} /\ Exits(Tail(call.chunks), call.ended)
  BY <1>2, ChunksTaken
<1> HIDE DEF x
<1>4. /\ log \in Seq(ToolEvents) /\ Bracketed(log) /\ Len(log) > 0 /\ log[1] = Start
      /\ log[Len(log)].type # "end"
  BY <1>1 DEF CallInv, LogOK
<1>5. \A e \in ToolEvents : e.type # "start" /\ Emit(<<e>>) =>
        /\ log' \in Seq(ToolEvents) /\ Bracketed(log') /\ Len(log') > 0 /\ log'[1] = Start
        /\ log'[Len(log')] = e
  BY <1>4, Continues DEF Emit
<1>6. ASSUME CallShape', call'.at \in {"chunks", "cleaning"}, call'.req = call.req,
             call'.place = call.place, OutcomeOK', LogOK'
      PROVE  CallInv'
  <2>1. turn' = "tool" /\ n' > 0 /\ n' \in Nat /\ last' = last
    BY <1>1 DEF Steady, Waiting, CallInv, StepsOK
  <2>2. call.req \in Requests /\ (last.role = "user" => last.asks \in Requests \cup {None})
    BY <1>1 DEF CallInv, StepsOK
  <2>3. StepsOK'
    BY <1>1, <1>6, <2>1, <2>2 DEF StepsOK, Steps
  <2>4. SessionOK' /\ FilesOK' /\ Confined'
    BY <1>1, <1>6 DEF CallInv, SessionOK, FilesOK, Confined, Exists
  <2>5. QED
    BY <1>6, <2>3, <2>4 DEF CallInv
<1>7. CASE aborted
  <2>1. /\ call' = [call EXCEPT !.at = "cleaning", !.chunks = <<>>,
                               !.pending = Failure("CANCELLED")]
        /\ Emit(<<End(TRUE)>>)
    BY <1>1, <1>7 DEF Cancelled
  <2>2. /\ CallShape' /\ call'.at = "cleaning" /\ call'.req = call.req
        /\ call'.place = call.place /\ call'.pending = Failure("CANCELLED")
        /\ call'.late = call.late
    BY <2>1 DEF CallInv, CallShape
  <2>3. ~call'.pending.success
    BY <2>2, Failures
  <2>4. EndOf(call.pending)' = End(TRUE)
    BY <2>3 DEF EndOf
  <2>5. LogOK'
    BY <1>1, <1>5, <2>1, <2>2, <2>4, Events DEF LogOK, Waiting
  <2>6. OutcomeOK'
    BY <1>1, <2>2, <2>3 DEF CallInv, OutcomeOK, Honest, Steady, Waiting
  <2>7. QED
    BY <1>6, <2>2, <2>5, <2>6
<1>8. CASE ~aborted /\ Len(call.chunks) = 1
  <2> DEFINE code == IF x = "exit 1" THEN 1 ELSE 0
  <2>1. /\ x \in {"exit 0", "exit 1"}
        /\ code = 0 => call.ended \in {"zero", "missing"}
    BY <1>3, <1>8
  <2>2. /\ call' = [call EXCEPT !.at = "cleaning", !.chunks = <<>>,
                               !.pending = Success(code)]
        /\ UNCHANGED log
    BY <1>1, <1>8, <2>1 DEF Taken, x
  <2> HIDE DEF code
  <2>3. /\ CallShape' /\ call'.at = "cleaning" /\ call'.req = call.req
        /\ call'.place = call.place /\ call'.pending = Success(code)
        /\ call'.late = call.late /\ call'.ended = call.ended
    BY <2>2 DEF CallInv, CallShape
  <2>4. LogOK'
    BY <1>1, <1>4, <2>2, <2>3 DEF LogOK, Waiting
  <2>5. ~call.late
    BY <1>8 DEF CallInv, OutcomeOK
  <2>6. call'.pending.value = code
    BY <2>3 DEF Success
  <2>7. turn' = "tool" /\ aborted' = aborted
    BY <1>1 DEF Steady, Waiting
  <2>8. Honest(call.pending)'
    BY <2>1, <2>3, <2>5, <2>6 DEF Honest
  <2>9. OutcomeOK'
    BY <2>3, <2>5, <2>7, <2>8 DEF OutcomeOK
  <2>10. QED
    BY <1>6, <2>3, <2>4, <2>9
<1>9. CASE ~aborted /\ Len(call.chunks) = 2
  <2> DEFINE rest == Tail(call.chunks)
  <2>1. x \in {"stdout", "stderr"} /\ Exits(rest, call.ended)
    BY <1>3, <1>9
  <2>2. call' = [call EXCEPT !.chunks = rest] /\ Emit(<<Update>>)
    BY <1>1, <1>9, <2>1 DEF Taken, x
  <2> HIDE DEF rest
  <2>3. /\ CallShape' /\ call'.at = "chunks" /\ call'.req = call.req
        /\ call'.place = call.place /\ call'.chunks = rest
        /\ call'.late = call.late /\ call'.ended = call.ended
    BY <1>1, <2>2 DEF CallInv, CallShape
  <2>4. LogOK'
    BY <1>1, <1>5, <2>2, <2>3, Events DEF LogOK, Waiting
  <2>5. ~call.late /\ turn' = "tool"
    BY <1>1, <1>9 DEF CallInv, OutcomeOK, Waiting
  <2>6. OutcomeOK'
    BY <2>1, <2>3, <2>5 DEF OutcomeOK
  <2>7. QED
    BY <1>6, <2>3, <2>4, <2>6
<1>10. QED
  BY <1>3, <1>7, <1>8, <1>9

LEMMA CleanedKept ==
  ASSUME CallInv, Cleaned
  PROVE  CallInv'
<1>1. /\ turn = "tool" /\ call.at = "cleaning" /\ call.req.tool = "bash" /\ n > 0
      /\ Deleted /\ Finished /\ Steady /\ UNCHANGED fs /\ Honest(call.pending)
  BY DEF Cleaned, CallInv, StepsOK, OutcomeOK
<1>2. /\ log \in Seq(ToolEvents) /\ Bracketed(log) /\ Len(log) > 0 /\ log[1] = Start
      /\ log[Len(log)].type = "end" => log[Len(log)] = EndOf(call.pending)
      /\ Last(log) = log[Len(log)]
  BY <1>1 DEF CallInv, LogOK, Last
<1>3. Returned(call.pending)
  BY <1>1 DEF Finished, Ends
<1>4. /\ CallShape' /\ StepsOK' /\ OutcomeOK' /\ turn' = "model"
      /\ call'.at = "idle" /\ call'.req = call.req /\ call'.result = call.pending
      /\ call'.place = call.place
  BY <1>1, <1>3, Returning
<1>5. session' # "open"
  BY <1>1 DEF Deleted
<1>6. LogOK'
  <2>1. CASE log[Len(log)].type = "end"
    <3>1. log' = log /\ EndOf(call.result)' = EndOf(call.pending)
      BY <1>1, <1>2, <1>4, <2>1 DEF Finished, EndOf
    <3>2. Len(log) # 1
      BY <1>2, <2>1, Events
    <3>3. QED
      BY <1>2, <1>4, <2>1, <3>1, <3>2 DEF LogOK
  <2>2. CASE log[Len(log)].type # "end"
    BY <1>1, <1>2, <2>2, EndTold DEF Finished
  <2>3. QED
    BY <2>1, <2>2
<1>7. SessionOK' /\ FilesOK' /\ Confined'
  BY <1>1, <1>4, <1>5 DEF CallInv, SessionOK, FilesOK, Confined, Exists
<1>8. QED
  BY <1>4, <1>6, <1>7 DEF CallInv

LEMMA FileKept ==
  ASSUME CallInv, Sized \/ Downloaded \/ Uploaded
  PROVE  CallInv'
<1>1. /\ turn = "tool" /\ call.at \in {"sizing", "reading", "uploading"}
      /\ call.req.tool # "bash" /\ Steady /\ UNCHANGED session
      /\ session # "open" /\ Inside(call.place)
  BY DEF Sized, Downloaded, Uploaded, CallInv, StepsOK, SessionOK, FilesOK
<1>2. fs = [place \in Places |-> fs[place]]
  BY DEF CallInv, FilesOK
<1>3. ASSUME NEW size, fs' = [fs EXCEPT ![call.place] = size]
      PROVE  /\ fs' = [place \in Places |-> fs'[place]]
             /\ \A place \in Places : ~Inside(place) => fs'[place] = fs[place]
  BY <1>1, <1>2, <1>3
<1>4. \A result : Ends(result) /\ UNCHANGED fs => CallInv'
  BY <1>1, <1>2, EndsKept
<1>5. CASE Sized
  <2>1. ASSUME call' = [call EXCEPT !.at = "reading"], Waiting, UNCHANGED log
        PROVE  CallInv'
    <3>1. /\ CallShape' /\ call'.at = "reading" /\ call'.req = call.req
          /\ call'.place = call.place /\ call'.late = call.late
      BY <2>1 DEF CallInv, CallShape
    <3>2. UNCHANGED fs
      BY <1>5 DEF Sized
    <3>3. OutcomeOK'
      BY <1>1, <2>1, <3>1 DEF CallInv, OutcomeOK, Steady, Waiting
    <3>4. SessionOK' /\ FilesOK' /\ Confined'
      BY <1>1, <3>1, <3>2 DEF CallInv, SessionOK, FilesOK, Confined, Exists
    <3>5. QED
      BY <1>1, <2>1, <3>1, <3>3, <3>4, GoesOn DEF Steps, Steady
  <2>2. QED
    BY <1>4, <1>5, <2>1 DEF Sized
<1>6. CASE Downloaded
  BY <1>4, <1>6 DEF Downloaded
<1>7. CASE Uploaded
  <2>1. PICK result : Ends(result)
    BY <1>7 DEF Uploaded
  <2>2. UNCHANGED fs \/ fs' = [fs EXCEPT ![call.place] = call.req.size]
    BY <1>7 DEF Uploaded
  <2>3. QED
    BY <1>1, <1>2, <1>3, <1>4, <2>1, <2>2, EndsKept
<1>8. QED
  BY <1>5, <1>6, <1>7

LEMMA ModelTurnKept ==
  ASSUME CallInv, ModelTurn
  PROVE  CallInv'
<1>1. /\ turn = "model" /\ call.at = "idle" /\ n \in Nat /\ session # "open"
      /\ UNCHANGED <<session, fs, aborted>>
  BY DEF ModelTurn, CallInv, StepsOK, SessionOK
<1>2. PICK req \in Requests \cup {None} : Answers(req)
  BY DEF ModelTurn, createScriptedRequest, CallInv, StepsOK
<1>3. CASE req = None
  <2>1. turn' = "over" /\ UNCHANGED <<last, call, n, log>>
    BY <1>2, <1>3 DEF Answers
  <2>2. CallShape' /\ StepsOK'
    BY <1>1, <2>1 DEF CallInv, CallShape, StepsOK
  <2>3. OutcomeOK' /\ LogOK'
    BY <1>1, <2>1 DEF CallInv, OutcomeOK, Honest, LogOK, EndOf
  <2>4. SessionOK' /\ FilesOK' /\ Confined'
    BY <1>1, <2>1 DEF CallInv, SessionOK, FilesOK, Confined, Exists
  <2>5. QED
    BY <2>2, <2>3, <2>4 DEF CallInv
<1>4. CASE req # None
  <2>1. req \in Requests /\ execute(req)
    BY <1>2, <1>4 DEF Answers
  <2>2. FilesOK' /\ Confined' /\ SessionOK'
    <3>1. /\ call'.at \in {"idle", "fetching"} /\ call'.place = None
      BY <2>1 DEF execute, NoCall
    <3>2. QED
      BY <1>1, <3>1 DEF CallInv, FilesOK, SessionOK, Confined, Exists
  <2>3. CASE req.ok
    <3>1. /\ call' = [NoCall EXCEPT !.at = "fetching", !.req = req]
          /\ turn' = "tool" /\ UNCHANGED last /\ n' = n + 1 /\ log' = <<Start>>
      BY <2>1, <2>3 DEF execute
    <3>2. /\ CallShape' /\ call'.at = "fetching" /\ call'.req = req /\ call'.late = FALSE
      BY <3>1 DEF CallShape, NoCall
    <3>3. StepsOK' /\ OutcomeOK'
      BY <1>1, <2>1, <3>1, <3>2 DEF CallInv, StepsOK, Steps, OutcomeOK
    <3>4. LogOK'
      BY <3>1, Events DEF LogOK, Bracketed
    <3>5. QED
      BY <2>2, <3>2, <3>3, <3>4 DEF CallInv
  <2>4. CASE ~req.ok
    <3>1. /\ call' = [NoCall EXCEPT !.req = req, !.result = Failure("VALIDATION_ERROR")]
          /\ last' = [role |-> "toolResult", asks |-> None, isError |-> FALSE]
          /\ turn' = "model" /\ n' = n + 1 /\ log' = <<End(TRUE)>>
      BY <2>1, <2>4 DEF execute
    <3>2. /\ CallShape' /\ call'.at = "idle" /\ call'.req = req /\ call'.late = FALSE
          /\ call'.result = Failure("VALIDATION_ERROR")
      BY <3>1 DEF CallShape, NoCall
    <3>3. StepsOK'
      BY <1>1, <2>1, <3>1, <3>2 DEF StepsOK, Steps
    <3>4. ~call'.result.success
      BY <3>2, Failures
    <3>5. OutcomeOK'
      BY <3>1, <3>2, <3>4 DEF OutcomeOK, Honest
    <3>6. LogOK'
      <4>1. EndOf(call.result)' = End(TRUE)
        BY <3>4 DEF EndOf
      <4> DEFINE end == End(TRUE)
      <4>2. end \in ToolEvents /\ end.type = "end" /\ log' = <<end>>
        BY <3>1, Events
      <4> HIDE DEF end
      <4>3. /\ log' \in Seq(ToolEvents) /\ Len(log') = 1 /\ log'[1] = end
        BY <4>2
      <4>4. Bracketed(log')
        BY <4>2, <4>3 DEF Bracketed
      <4>5. EndOf(call.result)' = end
        BY <4>1 DEF end
      <4>6. log'[Len(log')] = end /\ Len(log') > 0
        BY <4>3
      <4>7. /\ turn' # "tool" /\ call'.result = Failure("VALIDATION_ERROR")
        BY <3>1, <3>2
      <4>8. QED
        BY <4>3, <4>4, <4>5, <4>6, <4>7 DEF LogOK
    <3>7. QED
      BY <2>2, <3>2, <3>3, <3>5, <3>6 DEF CallInv
  <2>5. QED
    BY <2>3, <2>4
<1>5. QED
  BY <1>3, <1>4

\* The run is aborted, or a process of the sandbox writes a file of the workspace.
LEMMA OutsideKept ==
  ASSUME CallInv, Abort \/ \E place \in Places : Touch(place)
  PROVE  CallInv'
<1>1. /\ UNCHANGED <<last, turn, call, n, log, session>>
      /\ aborted => aborted'
  BY DEF Abort, Touch
<1>2. /\ fs' = [place \in Places |-> fs'[place]]
      /\ \A place \in Places : ~Inside(place) => fs'[place] = fs[place]
  BY DEF Abort, Touch, CallInv, FilesOK
<1>3. CallShape' /\ StepsOK'
  BY <1>1 DEF CallInv, CallShape, StepsOK
<1>4. OutcomeOK' /\ LogOK'
  BY <1>1 DEF CallInv, OutcomeOK, Honest, LogOK, EndOf
<1>5. SessionOK' /\ FilesOK' /\ Confined'
  BY <1>1, <1>2 DEF CallInv, SessionOK, FilesOK, Confined, Exists
<1>6. QED
  BY <1>3, <1>4, <1>5 DEF CallInv

\* Every step keeps the invariant.
LEMMA CallStep ==
  ASSUME CallInv, [Next]_vars
  PROVE  CallInv'
<1>1. CASE UNCHANGED vars
  BY <1>1 DEF vars, CallInv, CallShape, StepsOK, OutcomeOK, Honest, LogOK, EndOf,
              SessionOK, FilesOK, Confined, Exists
<1>2. QED
  BY <1>1, FetchedKept, SessionOpenedKept, CommandAnsweredKept, TakeChunkKept,
     CleanedKept, FileKept, ModelTurnKept, OutsideKept DEF Next, DaytonaAnswers

\* What a call told and will return, its session and its files, at every await.
THEOREM Calls == Spec => []CallInv
<1>1. ASSUME Init
      PROVE  CallInv
  <2>1. /\ call = NoCall /\ turn = "model" /\ n = 0 /\ log = <<>> /\ session = "none"
        /\ fs = [place \in Places |-> 0]
        /\ last.asks \in Requests \cup {None}
    BY <1>1 DEF Init
  <2>2. CallShape /\ StepsOK
    BY <2>1 DEF CallShape, StepsOK, NoCall, Steps
  <2>3. OutcomeOK /\ LogOK
    BY <2>1 DEF OutcomeOK, LogOK, Bracketed, NoCall
  <2>4. SessionOK /\ FilesOK /\ Confined
    BY <2>1 DEF SessionOK, FilesOK, Confined, Exists, NoCall
  <2>5. QED
    BY <2>2, <2>3, <2>4 DEF CallInv
<1>2. QED
  BY <1>1, CallStep, PTL DEF Spec

\* Whatever fails or is cancelled, a call tells one start, then updates, then one end
\* that agrees with its result (tools/bash.ts tells the end of a cancelled call before
\* the session is deleted, every other end after it).
THEOREM OneStartOneEnd == Spec => []EventsBracketed
<1>1. CallInv => EventsBracketed
  <2> SUFFICES ASSUME CallInv  PROVE EventsBracketed
    OBVIOUS
  <2>1. DOMAIN log = 1..Len(log) /\ Last(log) = log[Len(log)]
    BY DEF CallInv, LogOK, Last
  <2>2. QED
    BY <2>1 DEF CallInv, LogOK, Bracketed, EventsBracketed
<1>2. QED
  BY <1>1, Calls, PTL

\* However a call ends, its Daytona session is deleted, or Daytona refused to.
THEOREM SessionsGivenBack == Spec => []SessionsReleased
<1>1. CallInv => SessionsReleased
  BY DEF CallInv, SessionOK, StepsOK, SessionsReleased
<1>2. QED
  BY <1>1, Calls, PTL

\* No tool asks for a file outside the workspace, and none outside it is changed,
\* whatever normalize makes of the path that is asked for.
THEOREM FilesConfined == Spec => []Confined
<1>1. CallInv => Confined
  BY DEF CallInv
<1>2. QED
  BY <1>1, Calls, PTL

\* What a result says of the command, at every moment the tool is not at work.
LEMMA SuccessIsHonest == CallInv => ZeroMeansRan /\ AbortHeeded
<1> SUFFICES ASSUME CallInv, turn # "tool", call.req # None, call.req.tool = "bash"
             PROVE  Honest(call.result)
  BY DEF ZeroMeansRan, AbortHeeded, Honest
<1>1. n > 0
  BY DEF CallInv, StepsOK, NoCall
<1>2. QED
  BY <1>1 DEF CallInv, OutcomeOK

\* A success of bash is one of a command that Daytona finished, with exit code 0 only
\* if Daytona said so or gave none.
THEOREM HonestOutcomes == Spec => []ZeroMeansRan
BY SuccessIsHonest, Calls, PTL

\* A command that ends after its run was aborted is not reported as a success: the
\* tool's loop looks at the signal before every chunk.
THEOREM LateIsNoSuccess == Spec => []AbortHeeded
BY SuccessIsHonest, Calls, PTL

-----------------------------------------------------------------------------
(* The text of a scripted answer.                                            *)

\* A set of numbers that is not empty has a least one.
LEMMA LeastNat ==
  ASSUME NEW S \in SUBSET Nat, S # {}
  PROVE  \E x \in S : \A y \in S : x <= y
<1> DEFINE R == OpToRel(<, Nat)
<1>1. IsWellFoundedOn(R, Nat)
  BY NatLessThanWellFounded
<1>2. \A x, y \in Nat : x < y => <<x, y>> \in R
  BY DEF OpToRel
<1> HIDE DEF R
<1>3. PICK x \in S : \A y \in S : ~(<<y, x>> \in R)
  BY <1>1, WFMin
<1>4. ASSUME NEW y \in S
      PROVE  x <= y
  <2>1. x \in Nat /\ y \in Nat
    OBVIOUS
  <2>2. ~(y < x)
    BY <1>2, <1>3, <2>1, Zenon
  <2>3. QED
    BY <2>1, <2>2
<1>5. QED
  BY <1>4

\* A function on 1..len is a sequence.
LEMMA MadeSeq ==
  ASSUME NEW A, NEW len \in Nat, NEW s, s = [i \in 1..len |-> s[i]],
         \A i \in 1..len : s[i] \in A
  PROVE  s \in Seq(A) /\ Len(s) = len
OBVIOUS

\* The start of a sequence is a shorter start and what is between.
LEMMA Starts ==
  ASSUME NEW A, NEW s \in Seq(A), NEW j \in Nat, NEW k \in Nat, j <= k, k <= Len(s)
  PROVE  /\ SubSeq(s, 1, j) \o SubSeq(s, j + 1, k) = SubSeq(s, 1, k)
         /\ SubSeq(s, 1, k) \in Seq(A) /\ SubSeq(s, j + 1, k) \in Seq(A)
<1>1. 1 \in 1..(Len(s) + 1) /\ j \in (1 - 1)..Len(s) /\ k \in j..Len(s)
  OBVIOUS
<1>2. SubSeq(s, 1, j) \o SubSeq(s, j + 1, k) = SubSeq(s, 1, k)
  BY <1>1, ConcatAdjacentSubSeq
<1>3. QED
  BY <1>2

\* told are the partial results of flattening s.
Partial(told, s) ==
  /\ told = [i \in 1..Len(s) |-> told[i]] /\ told[1] = s[1]
  /\ \A i \in 1..Len(s) : i # 1 => told[i] = told[i - 1] \o s[i]

\* What flattening a sequence makes, when its partial results are known.
LEMMA Flattened ==
  ASSUME NEW len \in Nat, len > 0, NEW s, Len(s) = len,
         NEW told, Partial(told, s)
  PROVE  FlattenSeq(s) = told[len]
<1> DEFINE Flattens(f) ==
             f = [i \in 1..Len(s) |-> IF i = 1 THEN s[i] ELSE f[i - 1] \o s[i]]
           flat == CHOOSE f : Flattens(f)
<1>1. Flattens(told)
  <2>1. \A i \in 1..Len(s) : told[i] = IF i = 1 THEN s[i] ELSE told[i - 1] \o s[i]
    BY DEF Partial
  <2>2. QED
    BY <2>1 DEF Partial
<1>2. Flattens(flat)
  <2> HIDE DEF Flattens
  <2>1. QED
    BY <1>1
<1>3. FlattenSeq(s) = flat[len]
  <2>1. Len(s) # 0
    OBVIOUS
  <2>2. QED
    BY <2>1, Zenon DEF FlattenSeq
<1> HIDE DEF flat
<1>4. \A i \in 1..len : flat[i] = IF i = 1 THEN s[i] ELSE flat[i - 1] \o s[i]
  BY <1>2
<1>5. \A i \in 1..len : flat[i] = told[i]
  <2> DEFINE K == {i \in 1..len : flat[i] # told[i]}
  <2>1. SUFFICES ASSUME K # {}
                 PROVE  FALSE
    OBVIOUS
  <2>2. PICK k \in K : \A j \in K : k <= j
    <3>1. K \in SUBSET Nat
      OBVIOUS
    <3>2. QED
      BY <2>1, <3>1, LeastNat
  <2>3. k \in 1..len /\ flat[k] # told[k] /\ (k # 1 => flat[k - 1] = told[k - 1])
    BY <2>2
  <2>4. flat[k] = IF k = 1 THEN s[k] ELSE flat[k - 1] \o s[k]
    BY <1>4, <2>3
  <2>5. k # 1 => told[k] = told[k - 1] \o s[k]
    BY <2>3, Zenon DEF Partial
  <2>6. told[1] = s[1]
    BY DEF Partial
  <2>7. QED
    BY <2>3, <2>4, <2>5, <2>6
<1>6. QED
  BY <1>3, <1>5

\* How far the first i slices go.
Upto(text, i) ==
  IF i * SliceWidth < Len(text) THEN i * SliceWidth ELSE Len(text)

\* The slices are as many as it takes: all but the last end before the text does.
LEMMA SliceEnds ==
  ASSUME NEW text \in Replies
  PROVE  /\ Len(Slices(text)) \in Nat
         /\ Slices(text) \in Seq(Seq(Range(text)))
         /\ Len(Slices(text)) = 0 <=> text = <<>>
         /\ Upto(text, Len(Slices(text))) = Len(text)
         /\ \A i \in 1..Len(Slices(text)) :
              /\ (i - 1) * SliceWidth \in Nat /\ (i - 1) * SliceWidth < Len(text)
              /\ Slices(text)[i] = SubSeq(text, (i - 1) * SliceWidth + 1, Upto(text, i))
              /\ Upto(text, i - 1) = (i - 1) * SliceWidth
              /\ Upto(text, i) \in Nat /\ Upto(text, i - 1) < Upto(text, i)
              /\ Upto(text, i) <= Len(text)
<1> DEFINE L == Len(text)
           W == SliceWidth
           N == (L + W - 1) \div W
<1>1. L \in Nat /\ W \in Nat /\ W > 0 /\ text \in Seq(Range(text))
  BY ReplyAssumption
<1>2. N \in Nat /\ N * W <= L + W - 1 /\ L + W - 1 < N * W + W
  BY <1>1
<1>3. N * W \in Nat /\ N * W >= L
  BY <1>1, <1>2
<1>4. ASSUME NEW i \in Nat, i > 0, i <= N
      PROVE  /\ (i - 1) * W \in Nat /\ (i - 1) * W < L
             /\ i * W = (i - 1) * W + W /\ i * W \in Nat
  <2>1. i - 1 \in Nat /\ (i - 1) * W \in Nat /\ i * W \in Nat /\ i * W = (i - 1) * W + W
    BY <1>1, <1>4
  <2>2. (N - i) * W >= 0
    BY <1>1, <1>2, <1>4
  <2>3. i * W <= N * W
    BY <1>1, <1>2, <1>4, <2>2
  <2>4. (i - 1) * W < L
    BY <1>1, <1>2, <2>1, <2>3
  <2>5. QED
    BY <2>1, <2>4
<1>5. ASSUME NEW i \in Nat, i > 0, i <= N
      PROVE  /\ Upto(text, i) \in Nat /\ Upto(text, i - 1) = (i - 1) * W
             /\ Upto(text, i - 1) < Upto(text, i) /\ Upto(text, i) <= L
  BY <1>1, <1>4, <1>5 DEF Upto
<1> DEFINE S == [i \in 1..N |-> SubSeq(text, (i - 1) * W + 1, Upto(text, i))]
<1>6. Slices(text) = S
  BY DEF Slices, Upto
<1>7. \A i \in 1..N : S[i] \in Seq(Range(text))
  <2>1. ASSUME NEW i \in 1..N
        PROVE  S[i] \in Seq(Range(text))
    <3>1. i \in Nat /\ i > 0 /\ i <= N
      BY <1>2
    <3>2. /\ (i - 1) * W + 1 \in Nat /\ Upto(text, i) \in Nat
          /\ (i - 1) * W + 1 >= 1 /\ Upto(text, i) <= L
      BY <1>4, <1>5, <3>1
    <3>3. SubSeq(text, (i - 1) * W + 1, Upto(text, i)) \in Seq(Range(text))
      BY <1>1, <3>2
    <3>4. QED
      BY <3>3
  <2>2. QED
    BY <2>1
<1>8. S \in Seq(Seq(Range(text))) /\ Len(S) = N
  <2>1. S = [i \in 1..N |-> S[i]] /\ N \in Nat
    BY <1>2
  <2> HIDE DEF S, N
  <2>2. QED
    BY <1>7, <2>1, MadeSeq
<1>9. N = 0 <=> text = <<>>
  <2>1. N = 0 => L = 0
    BY <1>1, <1>3
  <2>2. L = 0 => N = 0
    <3>1. SUFFICES ASSUME L = 0, N >= 1
                   PROVE  FALSE
      BY <1>2
    <3>2. (N - 1) * W >= 0
      BY <1>1, <1>2, <3>1
    <3>3. QED
      BY <1>1, <1>2, <3>1, <3>2
  <2>3. QED
    BY <1>1, <2>1, <2>2
<1>10. Upto(text, N) = L
  BY <1>1, <1>3 DEF Upto
<1>11. ASSUME NEW i \in 1..N
       PROVE  /\ (i - 1) * W \in Nat /\ (i - 1) * W < L
              /\ S[i] = SubSeq(text, (i - 1) * W + 1, Upto(text, i))
              /\ Upto(text, i - 1) = (i - 1) * W
              /\ Upto(text, i) \in Nat /\ Upto(text, i - 1) < Upto(text, i)
              /\ Upto(text, i) <= L
  <2>1. i \in Nat /\ i > 0 /\ i <= N
    BY <1>2
  <2>2. S[i] = SubSeq(text, (i - 1) * W + 1, Upto(text, i))
    OBVIOUS
  <2>3. QED
    BY <1>4, <1>5, <2>1, <2>2
<1> HIDE DEF N, S
<1>12. QED
  BY <1>2, <1>6, <1>8, <1>9, <1>10, <1>11, Zenon

\* The first slices, put together, are the text as far as they go.
LEMMA SlicesJoin ==
  ASSUME NEW text \in Replies, NEW len \in 1..Len(Slices(text))
  PROVE  FlattenSeq(SubSeq(Slices(text), 1, len)) = SubSeq(text, 1, Upto(text, len))
<1> DEFINE N == Len(Slices(text))
           T == Seq(Range(text))
           s == SubSeq(Slices(text), 1, len)
           told == [i \in 1..len |-> SubSeq(text, 1, Upto(text, i))]
<1>1. text \in T /\ N \in Nat /\ Slices(text) \in Seq(T)
  BY ReplyAssumption, SliceEnds
<1>2. len \in Nat /\ len > 0 /\ len <= N
  BY <1>1
<1>3. Len(s) = len /\ \A i \in 1..len : s[i] = Slices(text)[i]
  <2> HIDE DEF T
  <2>1. QED
    BY <1>1, <1>2
<1> HIDE DEF s
<1>4. ASSUME NEW i \in 1..len
      PROVE  /\ SubSeq(text, 1, Upto(text, i - 1)) \o s[i] = SubSeq(text, 1, Upto(text, i))
             /\ i = 1 => SubSeq(text, 1, Upto(text, i - 1)) = <<>>
             /\ s[i] \in T
  <2>1. i \in 1..N
    BY <1>2
  <2>2. s[i] = SubSeq(text, Upto(text, i - 1) + 1, Upto(text, i))
    BY <1>3, <2>1, SliceEnds
  <2>3. /\ Upto(text, i - 1) \in Nat /\ Upto(text, i) \in Nat
        /\ Upto(text, i - 1) <= Upto(text, i) /\ Upto(text, i) <= Len(text)
    BY <2>1, SliceEnds
  <2>4. i = 1 => Upto(text, i - 1) = 0
    BY <2>1, SliceEnds, ReplyAssumption
  <2>5. /\ SubSeq(text, 1, Upto(text, i - 1)) \o s[i] = SubSeq(text, 1, Upto(text, i))
        /\ s[i] \in T
    <3> DEFINE j == Upto(text, i - 1)
               k == Upto(text, i)
    <3>1. /\ j \in Nat /\ k \in Nat /\ j <= k /\ k <= Len(text)
          /\ text \in T /\ s[i] = SubSeq(text, j + 1, k)
      BY <1>1, <2>2, <2>3
    <3> HIDE DEF j, k
    <3>2. /\ SubSeq(text, 1, j) \o SubSeq(text, j + 1, k) = SubSeq(text, 1, k)
          /\ SubSeq(text, j + 1, k) \in T
      BY <3>1, Starts, Zenon
    <3>3. QED
      BY <3>1, <3>2 DEF j, k
  <2>6. SubSeq(text, 1, 0) = <<>>
    BY SubSeqEmpty
  <2>7. QED
    BY <2>4, <2>5, <2>6
<1>5. told[1] = s[1]
  <2>1. 1 \in 1..len
    BY <1>2
  <2>2. <<>> \o s[1] = SubSeq(text, 1, Upto(text, 1)) /\ s[1] \in T
    BY <1>4, <2>1
  <2>3. QED
    BY <2>1, <2>2, ConcatEmptySeq
<1>6. \A i \in 1..len : i # 1 => told[i] = told[i - 1] \o s[i]
  <2>1. SUFFICES ASSUME NEW i \in 1..len, i # 1
                 PROVE  told[i] = told[i - 1] \o s[i]
    OBVIOUS
  <2>2. i - 1 \in 1..len
    BY <1>2, <2>1
  <2>3. QED
    BY <1>4, <2>2
<1>7. told = [i \in 1..len |-> told[i]] /\ told[len] = SubSeq(text, 1, Upto(text, len))
  <2>1. len \in 1..len
    BY <1>2
  <2>2. QED
    BY <2>1, Zenon
<1> HIDE DEF told
<1>8. Partial(told, s)
  BY <1>3, <1>5, <1>6, <1>7 DEF Partial
<1>9. FlattenSeq(s) = told[len]
  BY <1>2, <1>3, <1>8, Flattened
<1>10. QED
  BY <1>7, <1>9 DEF s

\* The deltas, each with the text up to it.
LEMMA DeltasTell ==
  ASSUME NEW text \in Replies
  PROVE  /\ Deltas(text) \in Seq([type : {"text_delta"}, delta : Seq(Range(text)),
                                  partial : Seq(Range(text))])
         /\ Len(Deltas(text)) = Len(Slices(text))
         /\ \A i \in 1..Len(Slices(text)) :
              /\ Deltas(text)[i].type = "text_delta"
              /\ Deltas(text)[i].delta = Slices(text)[i]
              /\ Deltas(text)[i].partial = SubSeq(text, 1, Upto(text, i))
<1> DEFINE N == Len(Slices(text))
           e(i) == [type |-> "text_delta", delta |-> Slices(text)[i],
                    partial |-> SubSeq(text, 1, Upto(text, i))]
<1>1. text \in Seq(Range(text)) /\ N \in Nat /\ Slices(text) \in Seq(Seq(Range(text)))
  BY ReplyAssumption, SliceEnds
<1>2. Deltas(text) = [i \in 1..N |-> e(i)]
  BY SlicesJoin DEF Deltas, Event
<1>3. ASSUME NEW i \in 1..N
      PROVE  /\ SubSeq(text, 1, Upto(text, i)) \in Seq(Range(text))
             /\ Slices(text)[i] \in Seq(Range(text))
  <2>1. Upto(text, i) \in Nat /\ Upto(text, i) <= Len(text)
    BY SliceEnds
  <2>2. QED
    BY <1>1, <2>1
<1>4. QED
  BY <1>1, <1>2, <1>3

\* A scripted answer tells its text, whatever its length and the width of a slice.
THEOREM AnswersTellText == Spec => []StreamTellsText
<1>1. StreamTellsText
  <2> SUFFICES ASSUME NEW text \in Replies
               PROVE  LET events  == scriptedStream(text)
                          deltas  == 3..(Len(events) - 2)
                          told(i) == IF i \in deltas THEN events[i].partial ELSE <<>> IN
                      /\ \A i \in DOMAIN events :
                           /\ events[i].type = "text_start" <=> i = 2 /\ text # <<>>
                           /\ events[i].type = "text_delta" <=> i \in deltas
                      /\ \A i \in deltas : told(i) = told(i - 1) \o events[i].delta
                      /\ told(Len(events) - 2) = text
    BY Zenon DEF StreamTellsText
  <2> DEFINE events == scriptedStream(text)
             deltas == 3..(Len(events) - 2)
             N == Len(Slices(text))
             D == Deltas(text)
             T == Seq(Range(text))
             told(i) == IF i \in deltas THEN events[i].partial ELSE <<>>
             ends == <<Event("text_end", <<>>, text), Event("done", <<>>, text)>>
  <2>2. /\ text \in T /\ N \in Nat /\ (N = 0 <=> text = <<>>) /\ Len(D) = N
        /\ D \in Seq([type : {"text_delta"}, delta : T, partial : T])
        /\ <<>> \in T
    BY ReplyAssumption, SliceEnds, DeltasTell
  <2>3. CASE text = <<>>
    <3>1. D = <<>>
      BY <2>2, <2>3
    <3> DEFINE start == <<Event("start", <<>>, <<>>)>>
    <3>2. events = start \o ends
      <4>1. events = start \o <<>> \o <<>> \o ends
        BY <2>3, <3>1, Zenon DEF scriptedStream
      <4>2. start \in Seq({start[1]})
        OBVIOUS
      <4>3. start \o <<>> = start
        BY <4>2, ConcatEmptySeq
      <4>4. QED
        BY <4>1, <4>3, Zenon
    <3>3. /\ Len(events) = 3 /\ DOMAIN events = 1..3 /\ deltas = {}
          /\ events[1] = start[1] /\ events[2] = ends[1] /\ events[3] = ends[2]
      BY <3>2
    <3>4. told(1) = <<>> /\ Len(events) - 2 = 1
      BY <3>3
    <3>5. \A i \in 1..3 : events[i].type \notin {"text_start", "text_delta"}
      BY <3>3 DEF Event
    <3> HIDE DEF events, deltas, told
    <3>6. \A i \in DOMAIN events :
            /\ events[i].type = "text_start" <=> i = 2 /\ text # <<>>
            /\ events[i].type = "text_delta" <=> i \in deltas
      BY <2>3, <3>3, <3>5
    <3>7. QED
      BY <2>3, <3>3, <3>4, <3>6 DEF deltas, events, told
  <2>4. CASE text # <<>>
    <3> DEFINE begins == <<Event("start", <<>>, <<>>),
                           Event("text_start", <<>>, Slices(text)[1])>>
    <3>1. N > 0
      BY <2>2, <2>4
    <3>2. events = (begins \o D) \o ends
      BY <2>4 DEF scriptedStream
    <3>3. /\ Len(events) = N + 4 /\ DOMAIN events = 1..(N + 4)
          /\ events[1] = begins[1] /\ events[2] = begins[2]
          /\ \A i \in 3..(N + 2) : events[i] = D[i - 2]
          /\ events[N + 3] = ends[1] /\ events[N + 4] = ends[2]
      BY <2>2, <3>2
    <3>4. deltas = 3..(N + 2)
      BY <2>2, <3>3
    <3> HIDE DEF events, deltas, D, T, N, told
    <3>5. \A i \in deltas : events[i].type = "text_delta"
      <4>1. \A k \in 1..N : D[k].type = "text_delta"
        BY DeltasTell, Zenon DEF D, N
      <4>2. \A i \in deltas : i - 2 \in 1..N
        BY <2>2, <3>4
      <4>3. QED
        BY <3>3, <3>4, <4>1, <4>2
    <3>6. ASSUME NEW i \in DOMAIN events
          PROVE  /\ events[i].type = "text_start" <=> i = 2 /\ text # <<>>
                 /\ events[i].type = "text_delta" <=> i \in deltas
      <4>1. i \in deltas \/ i \in {1, 2, N + 3, N + 4}
        BY <2>2, <3>3, <3>4
      <4>2. QED
        BY <2>2, <2>4, <3>3, <3>4, <3>5, <4>1 DEF Event
    <3>7. \A i \in deltas : /\ told(i) = SubSeq(text, 1, Upto(text, i - 2))
                            /\ events[i].delta = Slices(text)[i - 2]
      <4>1. \A k \in 1..N : /\ D[k].delta = Slices(text)[k]
                            /\ D[k].partial = SubSeq(text, 1, Upto(text, k))
        BY DeltasTell DEF D, N
      <4>2. \A i \in deltas : i - 2 \in 1..N /\ told(i) = events[i].partial
        BY <2>2, <3>4 DEF told
      <4>3. QED
        BY <3>3, <3>4, <4>1, <4>2
    <3>8. ASSUME NEW i \in deltas
          PROVE  told(i) = told(i - 1) \o events[i].delta
      <4> DEFINE k == i - 2
      <4>1. k \in 1..N /\ i \in Nat /\ k \in Nat
        BY <2>2, <3>4
      <4>2. /\ Upto(text, k - 1) \in Nat /\ Upto(text, k) \in Nat
            /\ Upto(text, k - 1) < Upto(text, k) /\ Upto(text, k) <= Len(text)
            /\ Slices(text)[k] = SubSeq(text, Upto(text, k - 1) + 1, Upto(text, k))
        BY <4>1, SliceEnds DEF N
      <4>3. told(i - 1) = SubSeq(text, 1, Upto(text, k - 1))
        <5>1. CASE k = 1
          <6>1. Upto(text, k - 1) = 0
            BY <4>1, <5>1, SliceEnds, ReplyAssumption DEF N
          <6>2. told(i - 1) = <<>>
            BY <2>2, <3>4, <5>1 DEF told
          <6>3. SubSeq(text, 1, 0) = <<>>
            BY SubSeqEmpty
          <6>4. QED
            BY <6>1, <6>2, <6>3
        <5>2. CASE k # 1
          <6>1. i - 1 \in deltas /\ (i - 1) - 2 = k - 1
            BY <2>2, <3>4, <4>1, <5>2
          <6>2. QED
            BY <3>7, <6>1
        <5>3. QED
          BY <5>1, <5>2
      <4>4. told(i) = SubSeq(text, 1, Upto(text, k)) /\ events[i].delta = Slices(text)[k]
        BY <3>7
      <4>5. SubSeq(text, 1, Upto(text, k))
              = SubSeq(text, 1, Upto(text, k - 1)) \o Slices(text)[k]
        <5>1. text \in Seq(Range(text))
          BY <2>2 DEF T
        <5> HIDE DEF k
        <5>2. Upto(text, k - 1) <= Upto(text, k)
          BY <4>2
        <5>3. QED
          BY <4>2, <5>1, <5>2, Starts, Zenon
      <4>6. QED
        BY <4>3, <4>4, <4>5
    <3>9. told(Len(events) - 2) = text
      <4>1. Len(events) - 2 \in deltas /\ (Len(events) - 2) - 2 = N
        BY <2>2, <3>1, <3>3, <3>4
      <4>2. told(Len(events) - 2) = SubSeq(text, 1, Upto(text, N))
        BY <3>7, <4>1
      <4>3. Upto(text, N) = Len(text) /\ text \in Seq(Range(text))
        BY <2>2, SliceEnds DEF N, T
      <4>4. QED
        BY <4>2, <4>3, SubSeqFull
    <3>10. QED
      BY <3>6, <3>8, <3>9 DEF deltas, events, told
  <2>5. QED
    BY <2>3, <2>4
<1>2. QED
  BY <1>1, PTL
=============================================================================
