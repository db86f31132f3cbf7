----------------------------- MODULE ToolCalls ------------------------------
(***************************************************************************)
(* One prompt of a run, from the model's answer to the sandbox and back: the *)
(* scripted model, the three tools, the adapter's execution and file         *)
(* services, and the wrapper that hands a tool's result to the agent.  The   *)
(* agent executes tool calls one after the other; meanwhile the run may be   *)
(* aborted and processes of the sandbox may write its files.  Daytona and    *)
(* the agent loop are outside: every await is a question that Daytona answers *)
(* in an action of its own.                                                  *)
(***************************************************************************)
EXTENDS Naturals, SequencesExt

CONSTANTS
  Paths,        \* bound: the paths a model asks for, see validatePath
  Texts,        \* bound: what a command's text says, subsets of Words
  MaxFileSize,  \* maxFileSize of the FilesystemService
  MaxCalls,     \* bound: tool calls of a model that is not scripted
  Replies,      \* bound: texts the scripted model answers with
  SliceWidth,   \* letters of a text_delta; 12 in the code
  None

\* A reply is a string; slices are not empty.
ASSUME ReplyAssumption ==
  /\ SliceWidth \in Nat \ {0}
  /\ \A text \in Replies : text \in Seq(Range(text))

VARIABLES
  scripted, \* fixed at start: the model is the scripted one
  last,     \* the last message of the conversation
  turn,     \* who acts: the model, the tool, or nobody
  call,     \* the current call, or the last one
  n,        \* calls made
  log,      \* what the call has told its ToolEventEmitter
  session,  \* the Daytona session of the call: none, open or left behind
  fs,       \* the sandbox's files: their sizes, 0 if there is none
  aborted   \* the run's signal

vars == <<scripted, last, turn, call, n, log, session, fs, aborted>>

-----------------------------------------------------------------------------
(* Paths: [nul, absolute : BOOLEAN, names : sequence of names].              *)

Root == <<"workspace">>

\* path.normalize.
normalize(names) ==
  FoldLeft(LAMBDA done, name :
             IF name = ".." /\ done # <<>> /\ Last(done) # ".."
               THEN Front(done) ELSE Append(done, name),
           <<>>, names)

\* "startsWith('..')": names like "..a" do, too.
DotNames == {"..", "..a"}
StartsWithDots(names) == names # <<>> /\ Head(names) \in DotNames

\* Mutant of validatePath: the path is looked at as it was written.
validatePathRaw(p) ==
  IF p.nul \/ p.absolute \/ StartsWithDots(p.names) THEN None ELSE p.names

\* The normalized path, or None if it is refused.
validatePath(p) ==
  LET names    == normalize(p.names)
      resolved == normalize(Root \o names)
  IN  IF p.nul \/ p.absolute \/ StartsWithDots(names) \/ ~IsPrefix(Root, resolved)
        THEN None ELSE names

\* Where the sandbox finds root/path.
Place(names) == normalize(Root \o names)
Inside(place) == IsPrefix(Root, place)
Places == {Place(p.names) : p \in Paths}

-----------------------------------------------------------------------------
(* Errors: a code, and which of the words that matter the message says.      *)

Words == {"not found", "permission", "timeout", "abort"}
ToolErrorCodes == {"FILE_NOT_FOUND", "PERMISSION_DENIED", "TIMEOUT", "CANCELLED",
                   "VALIDATION_ERROR", "COMMAND_FAILED", "UNKNOWN_ERROR"}

mapErrorToToolError(e) ==
  CASE e.code \in ToolErrorCodes \ {"UNKNOWN_ERROR"} -> e.code
    [] "not found" \in e.says  -> "FILE_NOT_FOUND"
    [] "permission" \in e.says -> "PERMISSION_DENIED"
    [] "timeout" \in e.says    -> "TIMEOUT"
    [] "abort" \in e.says      -> "CANCELLED"
    [] OTHER                   -> "UNKNOWN_ERROR"

\* The errors of sandbox/errors.ts repeat the path or the command in their
\* message: "Command timed out after 60000ms: <command>".
WorkspaceNotFoundError == [code |-> "WORKSPACE_NOT_FOUND", says |-> {"not found"}]
PathTraversalError     == [code |-> "PATH_TRAVERSAL_DETECTED", says |-> {}]
FileTooLargeError      == [code |-> "FILE_TOO_LARGE", says |-> {}]
CommandTimeoutError(text) == [code |-> "COMMAND_TIMEOUT", says |-> text]
DaytonaErrors == [code : {"none"}, says : {{}} \cup {{w} : w \in Words}]

-----------------------------------------------------------------------------
(* Calls.                                                                    *)

\* ok: the required parameter is there; size: of the content to write.
Request(tools, paths, sizes, texts) ==
  [tool : tools, ok : BOOLEAN, path : paths, size : sizes, text : texts]

Requests ==
  Request({"bash"}, {None}, {0}, Texts)
    \cup Request({"read"}, Paths, {0}, {{}})
    \cup Request({"write"}, Paths, 1..(MaxFileSize + 1), {{}})

\* chunks: output still to be taken from the command; pending: the result that
\* waits for the session to be deleted; place, ended and late are history: the
\* file Daytona was asked for, how the command ended, whether the run was aborted
\* by then.
NoCall == [at |-> "idle", req |-> None, chunks |-> <<>>, pending |-> None,
           result |-> None, place |-> None, ended |-> "no", late |-> FALSE]

Success(value) == [success |-> TRUE, code |-> "none", value |-> value]
Failure(code)  == [success |-> FALSE, code |-> code, value |-> 0]
Failed(e)      == Failure(mapErrorToToolError(e))

Emit(events) == log' = log \o events
Start   == [type |-> "start", isError |-> FALSE]
Update  == [type |-> "update", isError |-> FALSE]
End(isError) == [type |-> "end", isError |-> isError]

\* A command that exits with anything but 0 is a success with isError.
EndOf(result) ==
  End(~result.success \/ (call.req.tool = "bash" /\ result.value = 1))

\* createPiAgentTools turns every result into content and never throws, so that
\* the agent's toolResult message and its end event carry isError = false.
Returned(result) ==
  /\ call' = [call EXCEPT !.at = "idle", !.pending = None, !.chunks = <<>>,
                          !.result = result]
  /\ last' = [role |-> "toolResult", asks |-> None, isError |-> FALSE]
  /\ turn' = "model"

Ends(result) == Emit(<<EndOf(result)>>) /\ Returned(result)

\* What every step of a call leaves alone.
Steady == UNCHANGED <<scripted, n, aborted>>
Waiting == UNCHANGED <<last, turn>>

\* A call is refused before it starts, or starts with a look for the sandbox's
\* handle.
execute(req) ==
  /\ n' = n + 1
  /\ IF req.ok
       THEN /\ log' = <<Start>>
            /\ call' = [NoCall EXCEPT !.at = "fetching", !.req = req]
            /\ turn' = "tool" /\ UNCHANGED last
       ELSE /\ log' = <<End(TRUE)>>
            /\ call' = [NoCall EXCEPT !.req = req,
                                      !.result = Failure("VALIDATION_ERROR")]
            /\ last' = [role |-> "toolResult", asks |-> None, isError |-> FALSE]
            /\ turn' = "model"

Fetched ==
  LET req   == call.req
      names == validatePath(req.path)
  IN
  /\ call.at = "fetching"
  /\ \/ Ends(Failed(WorkspaceNotFoundError))
     \/ /\ req.tool = "bash"
        /\ call' = [call EXCEPT !.at = "opening"]
        /\ Waiting /\ UNCHANGED log
     \/ /\ req.tool # "bash" /\ names = None
        /\ Ends(Failed(PathTraversalError))
     \/ /\ req.tool = "write" /\ names # None /\ req.size > MaxFileSize
        /\ Ends(Failed(FileTooLargeError))
     \/ /\ req.tool # "bash" /\ names # None
        /\ req.tool = "write" => req.size <= MaxFileSize
        /\ call' = [call EXCEPT !.place = Place(names),
                     !.at = IF req.tool = "read" THEN "sizing" ELSE "uploading"]
        /\ Waiting /\ UNCHANGED log
  /\ Steady /\ UNCHANGED <<session, fs>>

-----------------------------------------------------------------------------
(* bash.                                                                     *)

\* executeStreaming yields the output and the exit code once the command is
\* over, and makes stderr and exit 1 of an error, except a timeout.
Yields(chunks, ended) ==
  call' = [call EXCEPT !.at = "chunks", !.chunks = chunks, !.ended = ended,
                       !.late = aborted]

\* Mutant of ErrorChunks: an error has no exit code, and 0 is what the tool starts
\* from.
ErrorChunksSilent == <<"stderr", "exit 0">>

ErrorChunks == <<"stderr", "exit 1">>

Caught(e) ==
  IF "timeout" \in e.says
    THEN call' = [call EXCEPT !.at = "cleaning", !.ended = "failed",
                    !.late = aborted,
                    !.pending = Failed(CommandTimeoutError(call.req.text))]
    ELSE Yields(ErrorChunks, "failed")

\* createSession; when it fails there may be a session all the same.
SessionOpened ==
  /\ call.at = "opening"
  /\ \/ session' = "open" /\ call' = [call EXCEPT !.at = "running"]
     \/ session' \in {"none", "open"} /\ \E e \in DaytonaErrors : Caught(e)
  /\ Waiting /\ Steady /\ UNCHANGED <<log, fs>>

\* executeSessionCommand; a command without an exit code counts as exit 0.
CommandAnswered ==
  /\ call.at = "running"
  /\ \/ \E output \in {<<>>, <<"stdout">>}, ended \in {"zero", "one", "missing"} :
          Yields(Append(output, IF ended = "one" THEN "exit 1" ELSE "exit 0"), ended)
     \/ \E e \in DaytonaErrors : Caught(e)
  /\ Waiting /\ Steady /\ UNCHANGED <<log, session, fs>>

\* The call is told to be over, and the command's generator is closed.
Cancelled ==
  /\ Emit(<<End(TRUE)>>)
  /\ call' = [call EXCEPT !.at = "cleaning", !.chunks = <<>>,
                          !.pending = Failure("CANCELLED")]
  /\ Waiting

Taken ==
  LET chunk == Head(call.chunks) IN
  /\ IF chunk \in {"stdout", "stderr"}
       THEN /\ Emit(<<Update>>)
            /\ call' = [call EXCEPT !.chunks = Tail(@)]
       ELSE /\ call' = [call EXCEPT !.at = "cleaning", !.chunks = <<>>,
                          !.pending = Success(IF chunk = "exit 1" THEN 1 ELSE 0)]
            /\ UNCHANGED log
  /\ Waiting

\* Mutants of TakeChunk: only output is worth a look at the signal; a cancelled
\* call returns at once.
TakeChunkExit ==
  /\ call.at = "chunks"
  /\ IF aborted /\ Head(call.chunks) \in {"stdout", "stderr"} THEN Cancelled ELSE Taken
  /\ Steady /\ UNCHANGED <<session, fs>>

TakeChunkQuit ==
  /\ call.at = "chunks"
  /\ IF aborted THEN Emit(<<End(TRUE)>>) /\ Returned(Failure("CANCELLED")) ELSE Taken
  /\ Steady /\ UNCHANGED <<session, fs>>

\* One turn of the tool's loop: the signal, then the chunk.
TakeChunk ==
  /\ call.at = "chunks"
  /\ IF aborted THEN Cancelled ELSE Taken
  /\ Steady /\ UNCHANGED <<session, fs>>

\* deleteSession, errors ignored; a session it could not delete stays.
Deleted == session' \in IF session = "open" THEN {"none", "left"} ELSE {session}

\* The end of a cancelled call was told before; any other end is told now.
Finished ==
  IF Last(log).type = "end"
    THEN Returned(call.pending) /\ UNCHANGED log ELSE Ends(call.pending)

\* Mutants of Cleaned: a cancelled call is told its end again; an error is not
\* ignored, and nobody catches it.
CleanedTwice ==
  call.at = "cleaning" /\ Deleted /\ Ends(call.pending) /\ Steady /\ UNCHANGED fs

CleanedOnly ==
  /\ call.at = "cleaning" /\ session = "open" /\ session' = "none"
  /\ Finished /\ Steady /\ UNCHANGED fs

Cleaned ==
  call.at = "cleaning" /\ Deleted /\ Finished /\ Steady /\ UNCHANGED fs

-----------------------------------------------------------------------------
(* read and write.                                                           *)

Exists(place) == fs[place] > 0

\* getFileDetails: a file too large is refused, a failed lookup is ignored.
Sized ==
  /\ call.at = "sizing"
  /\ \/ /\ fs[call.place] > MaxFileSize
        /\ Ends(Failed(FileTooLargeError))
     \/ /\ call' = [call EXCEPT !.at = "reading"]
        /\ Waiting /\ UNCHANGED log
  /\ Steady /\ UNCHANGED <<session, fs>>

Downloaded ==
  /\ call.at = "reading"
  /\ \/ Exists(call.place) /\ Ends(Success(fs[call.place]))
     \/ \E e \in DaytonaErrors : Ends(Failed(e))
  /\ Steady /\ UNCHANGED <<session, fs>>

\* uploadFile replaces the file, whatever "append" said: ToolRegistry does not
\* pass it on.  It may do so and fail all the same.
Uploaded ==
  LET replaced == [fs EXCEPT ![call.place] = call.req.size] IN
  /\ call.at = "uploading"
  /\ \/ fs' = replaced /\ Ends(Success(call.req.size))
     \/ fs' \in {fs, replaced} /\ \E e \in DaytonaErrors : Ends(Failed(e))
  /\ Steady /\ UNCHANGED session

-----------------------------------------------------------------------------
(* The model, the run and the sandbox.                                       *)

\* The call a prompt spells out ("tool:bash ..."), or None for a text: the answer
\* to any other prompt and to every tool result.
createScriptedRequest(message) ==
  IF message.role = "user" THEN message.asks ELSE None

Answers(req) ==
  IF req = None THEN turn' = "over" /\ UNCHANGED <<last, call, n, log>>
                ELSE execute(req)

ModelTurn ==
  /\ turn = "model"
  /\ IF scripted
       THEN Answers(createScriptedRequest(last))
       ELSE \E req \in Requests \cup {None} :
              (n = MaxCalls => req = None) /\ Answers(req)
  /\ UNCHANGED <<scripted, session, fs, aborted>>

\* Cancelled or timed out.
Abort ==
  /\ ~aborted /\ turn # "over" /\ aborted' = TRUE
  /\ UNCHANGED <<scripted, last, turn, call, n, log, session, fs>>

\* A process of the sandbox writes or removes a file of the workspace.
Touch(place) ==
  /\ turn = "tool" /\ Inside(place)
  /\ \E size \in 0..(MaxFileSize + 1) : fs' = [fs EXCEPT ![place] = size]
  /\ UNCHANGED <<scripted, last, turn, call, n, log, session, aborted>>

Init ==
  /\ scripted \in BOOLEAN
  /\ last \in [role : {"user"}, isError : {FALSE},
               asks : {req \in Requests : req.ok} \cup {None}]
  /\ turn = "model" /\ call = NoCall /\ n = 0 /\ log = <<>>
  /\ session = "none" /\ aborted = FALSE
  /\ fs = [place \in Places |-> 0]

DaytonaAnswers ==
  \/ Fetched \/ SessionOpened \/ CommandAnswered \/ Cleaned
  \/ Sized \/ Downloaded \/ Uploaded

Next ==
  \/ ModelTurn \/ TakeChunk \/ DaytonaAnswers
  \/ Abort \/ \E place \in Places : Touch(place)
  \/ turn = "over" /\ UNCHANGED vars

Spec == Init /\ [][Next]_vars

\* Daytona answers; the tool's loop and the scripted model run by themselves.
FairSpec ==
  /\ Spec
  /\ WF_vars(DaytonaAnswers) /\ WF_vars(TakeChunk) /\ WF_vars(ModelTurn /\ scripted)

-----------------------------------------------------------------------------
(* The events of scripted-stream.ts, each with the partial text it carries.  *)

Slices(text) ==
  [i \in 1..((Len(text) + SliceWidth - 1) \div SliceWidth) |->
     SubSeq(text, (i - 1) * SliceWidth + 1,
            IF i * SliceWidth < Len(text) THEN i * SliceWidth ELSE Len(text))]

Event(type, delta, partial) == [type |-> type, delta |-> delta, partial |-> partial]

\* Mutant of Deltas: the first slice is sent by text_start alone.
DeltasAfterStart(text) ==
  LET s == Slices(text) IN
  [i \in 1..(Len(s) - 1) |-> Event("text_delta", s[i + 1], FlattenSeq(SubSeq(s, 1, i + 1)))]

Deltas(text) ==
  LET s == Slices(text) IN
  [i \in 1..Len(s) |-> Event("text_delta", s[i], FlattenSeq(SubSeq(s, 1, i)))]

scriptedStream(text) ==
  <<Event("start", <<>>, <<>>)>>
    \o (IF text = <<>> THEN <<>> ELSE <<Event("text_start", <<>>, Slices(text)[1])>>)
    \o Deltas(text)
    \o <<Event("text_end", <<>>, text), Event("done", <<>>, text)>>

-----------------------------------------------------------------------------
CallType ==
  /\ call.at \in {"idle", "fetching", "opening", "running", "chunks", "cleaning",
                  "sizing", "reading", "uploading"}
  /\ call.req \in Requests \cup {None} /\ call.place \in Places \cup {None}
  /\ call.late \in BOOLEAN
  /\ call.ended \in {"no", "zero", "one", "missing", "failed"}
  /\ \A r \in {call.pending, call.result} :
       r # None => r \in {Success(value) : value \in 0..(MaxFileSize + 1)}
                        \cup {Failure(code) : code \in ToolErrorCodes}

ToolTypeOK ==
  /\ scripted \in BOOLEAN /\ aborted \in BOOLEAN
  /\ last.role \in {"user", "toolResult"} /\ last.asks \in Requests \cup {None}
  /\ turn \in {"model", "tool", "over"} /\ (turn = "tool") = (call.at # "idle")
  /\ n \in 0..MaxCalls /\ CallType
  /\ \A i \in DOMAIN log : log[i] \in {Start, Update, End(TRUE), End(FALSE)}
  /\ session \in {"none", "open", "left"}
  /\ fs \in [Places -> 0..(MaxFileSize + 1)]

\* A call tells its start once, then updates, then its end once, which agrees
\* with its result, whichever of the two the code does first; a call refused
\* before it starts tells nothing but its end.
EventsBracketed ==
  LET over == turn # "tool" /\ n > 0 IN
  /\ \A i \in DOMAIN log :
       /\ log[i].type = "start" => i = 1
       /\ log[i].type = "end" => i = Len(log)
       /\ log[i].type = "update" => i > 1
  /\ over => Last(log) = EndOf(call.result)
  /\ over /\ Len(log) = 1 => call.result = Failure("VALIDATION_ERROR")

\* No session is left open by a call that is over, however it ended, unless
\* Daytona refused to delete it.
SessionsReleased == turn # "tool" => session # "open"

\* No tool asks Daytona for a file outside the workspace, and nothing outside it
\* is ever changed, however the path was spelled.
Confined ==
  /\ call.place # None => Inside(call.place)
  /\ \A place \in Places : ~Inside(place) => ~Exists(place)

\* Exit code 0 is told only of a command that Daytona finished with 0 or without
\* a code, never of one that failed to run.
ZeroMeansRan ==
  turn # "tool" /\ call.req # None /\ call.req.tool = "bash" =>
    (call.result.success /\ call.result.value = 0
       => call.ended \in {"zero", "missing"})

\* A command that ends after its run was aborted is not reported as a success.
AbortHeeded ==
  turn # "tool" /\ call.req # None /\ call.req.tool = "bash" =>
    (call.late => ~call.result.success)

\* A scripted answer is told as start, text_start if there is a text, the deltas,
\* text_end and done; each partial text is the one before with its delta, the first
\* is the first delta, and the last is the text.
StreamTellsText ==
  scripted => \A text \in Replies :
    LET events  == scriptedStream(text)
        deltas  == 3..(Len(events) - 2)
        told(i) == IF i \in deltas THEN events[i].partial ELSE <<>>
    IN  /\ \A i \in DOMAIN events :
             /\ events[i].type = "text_start" <=> i = 2 /\ text # <<>>
             /\ events[i].type = "text_delta" <=> i \in deltas
        /\ \A i \in deltas : told(i) = told(i - 1) \o events[i].delta
        /\ told(Len(events) - 2) = text

\* A tool call ends, and a prompt that asks the scripted model, if Daytona answers:
\* no error, abort or failed clean-up leaves the lane waiting for a tool.
PromptEnds ==
  /\ turn = "tool" ~> turn # "tool"
  /\ scripted ~> turn = "over"

\* What docs/api/sse-schema.md:430 says of tool_execution_end, "is_error: Whether
\* the tool returned an error", told to the agent and so to the client.
IsErrorTellsErrors ==
  last.role = "toolResult" => last.isError = ~call.result.success
=============================================================================
