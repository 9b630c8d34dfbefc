------------------------------- MODULE ModelCall -------------------------------
(***************************************************************************)
(* One call of a model at a time, through each provider of the V15          *)
(* extension (src/modelProvider): Ollama, whose stream is retried once when *)
(* nothing of it arrived and, in diagnostic mode, asked for in one piece    *)
(* after that; the gateway, one POST; the container sidecar, a stream       *)
(* without retry.  A call is made through the provider itself ("api") or by *)
(* the language model VS Code offers (chatLanguageModelProvider.ts), which  *)
(* first asks which models there are.                                       *)
(*                                                                         *)
(* The server may answer anything, close, fail or fall silent at any time.  *)
(* The signal of an attempt is aborted by its timer or by the caller, and   *)
(* the attempt notices at its next await.                                   *)
(***************************************************************************)
EXTENDS Integers, Sequences, SequencesExt

CONSTANTS
    Callers,     \* how calls are made
    Listings,    \* the models a provider may list
    Chunks,      \* the lines that may arrive together
    MaxCalls, MaxPieces   \* bounds: calls, pieces a stream delivers

Providers == {"ollama", "gateway", "sidecar"}
Modes == {"api", "native"}
\* A model's name, and its tag, "" if it has none.
Model == [name : STRING, tag : STRING]
CallerType ==
    [mode : Modes, signal : BOOLEAN,   \* the caller passed one
     diagnostic : BOOLEAN,             \* the prompt asks for diagnostic mode
     requested : Model]
\* Lines of a stream: a piece of text, a blank one, a piece at which onToken throws, a
\* line without a piece, one that does not parse, the last one.
Pieces == {"word", "space", "thrown"}
Lines == Pieces \cup {"nothing", "garbage", "done"}
\* The model configured and the one preferred (AYLA_PREFERRED_MODEL_ID).
Configured == [name |-> "configured", tag |-> ""]
Preferred == [name |-> "preferred", tag |-> ""]

ASSUME ModelCallAssumption ==
    /\ Callers \subseteq CallerType /\ MaxCalls \in Nat /\ MaxPieces \in Nat
    /\ Listings \subseteq Seq(Model) \ {<<>>} /\ Chunks \subseteq Seq(Lines)

VARIABLES
    provider,   \* the one the configuration selects
    call,       \* the call that is made, or was made last
    user,       \* its caller cancelled it
    diag,       \* the diagnostics of its attempt
    last        \* lastInvocationDiagnostics, and of which call and attempt they are

callVars == <<provider, call, user, diag, last>>

NoCaller == [mode |-> "api", signal |-> FALSE, diagnostic |-> FALSE, requested |-> Configured]
NoCall ==
    [n |-> 0, pc |-> "idle", caller |-> NoCaller, asked |-> Configured, listed |-> FALSE,
     attempt |-> 0, abort |-> "no",     \* the attempt, and its signal
     sent |-> <<>>, collected |-> <<>>, \* its pieces: sent up to the last line, and read
     shown |-> <<>>,                    \* those passed to onToken, of any attempt
     closed |-> FALSE, done |-> FALSE,  \* how the stream ended
     outcome |-> "none", text |-> <<>>]
NoDiag == [some |-> FALSE, first |-> FALSE, cancelled |-> FALSE, timeout |-> FALSE,
           completed |-> FALSE, reason |-> "none"]
NoLast == [call |-> 0, attempt |-> 0]

CallInit ==
    /\ provider \in Providers
    /\ call = NoCall /\ user = FALSE /\ diag = NoDiag /\ last = NoLast

Active == call.pc \notin {"idle", "ended"}
At(pc) == call.pc = pc
Blank(pieces) == \A i \in DOMAIN pieces : pieces[i] = "space"
----------------------------------------------------------------------------
(* Starting: which model is asked *)

\* A fresh signal, already aborted when the caller's is.
Attempting(c, attempt) ==
    [c EXCEPT !.attempt = attempt, !.pc = "connect",
              !.abort = IF user /\ c.caller.signal THEN "cancelled" ELSE "no",
              !.sent = <<>>, !.collected = <<>>]

Start(caller) ==
    /\ ~Active /\ call.n < MaxCalls
    /\ user' = FALSE /\ diag' = NoDiag
    /\ LET c == [NoCall EXCEPT !.n = call.n + 1, !.caller = caller, !.asked = caller.requested]
       IN  IF caller.mode = "native"
           THEN call' = [c EXCEPT !.pc = "discover"] /\ last' = NoLast
           ELSE call' = [c EXCEPT !.pc = "connect", !.attempt = 1] /\ UNCHANGED last
    /\ UNCHANGED provider

\* resolveConfiguredModel: the model itself, or when it has no tag the latest of its name,
\* or the first of its name.
Matches(id, installed) ==
    LET latest == [id EXCEPT !.tag = "latest"]
    IN  IF Contains(installed, id) THEN <<id>>
        ELSE IF id.tag # "" THEN <<>>
        ELSE IF Contains(installed, latest) THEN <<latest>>
        ELSE SelectSeq(installed, LAMBDA other : other.name = id.name)
\* resolveAylaModelId: the first of these that is installed, or the first installed.
Resolve(requested, installed) ==
    Head(Matches(requested, installed) \o Matches(Configured, installed)
         \o Matches(Preferred, installed) \o installed)

\* OllamaClient.listModels: two endpoints are asked; without a model, what failed says
\* whether anything answered.
EndpointAnswers == {"down", "http", "empty", "models"}
OllamaListing(tags, models) ==
    CASE "models" \in {tags, models} -> "models"
      [] {tags, models} = {"down"} -> "OLLAMA_UNAVAILABLE"
      [] OTHER -> "NO_MODELS_INSTALLED"
\* So does the sidecar; the gateway has one endpoint.
Listed(tags, models) ==
    CASE provider = "ollama" -> OllamaListing(tags, models)
      [] provider = "sidecar" /\ models = "models" -> "models"
      [] OTHER -> IF tags = "models" THEN "models" ELSE "failed"

\* Without a listing the requested model is asked.  A caller that cancelled by now gets no
\* answer at all; later the token is not looked at.
Discovers ==
    /\ At("discover")
    /\ \E tags, models \in EndpointAnswers, installed \in Listings :
          LET listed == Listed(tags, models) = "models"
          IN  call' =
                IF user THEN [call EXCEPT !.pc = "ended", !.outcome = "nothing"]
                ELSE [Attempting(call, 1) EXCEPT !.listed = listed,
                        !.asked = IF listed THEN Resolve(call.caller.requested, installed)
                                  ELSE call.caller.requested]
    /\ UNCHANGED <<provider, user, diag, last>>
----------------------------------------------------------------------------
(* How an attempt ends *)

\* lastInvocationDiagnostics are set whenever an Ollama call ends, by the others only when
\* it succeeds.
Recorded == [call |-> call.n, attempt |-> call.attempt]
Returns(c, d) ==
    /\ call' = [c EXCEPT !.pc = "ended", !.outcome = "content", !.text = c.collected]
    /\ diag' = d /\ last' = Recorded
\* Mutant: the diagnostics of a retry that failed are not kept.
ThrowsKeeping(c, d, code) ==
    /\ call' = [c EXCEPT !.pc = "ended", !.outcome = code]
    /\ diag' = d
    /\ last' = IF provider = "ollama" /\ c.attempt # 2 THEN Recorded ELSE last
Throws(c, d, code) ==
    /\ call' = [c EXCEPT !.pc = "ended", !.outcome = code]
    /\ diag' = d
    /\ last' = IF provider = "ollama" THEN Recorded ELSE last

\* Mutant: any stream that produced no text is retried.
CanRetryIfBlank(c, d) == Blank(c.collected)
\* canRetry: nothing arrived, nobody cancelled, and the reason is not one of the server's.
CanRetry(c, d) ==
    /\ ~(user /\ c.caller.signal)
    /\ ~d.first /\ ~d.some /\ ~d.cancelled
    /\ d.reason \notin {"none", "HTTP", "READER_READ_FAILED", "JSON_PARSE_FAILED",
                        "EMPTY_CONTENT"}
\* A stream that fails is retried once, then, in diagnostic mode, asked for in one piece.
Fails(c, d, code) ==
    IF provider = "ollama" /\ CanRetry(c, d)
       /\ (c.attempt = 1 \/ (c.attempt = 2 /\ c.caller.diagnostic))
    THEN /\ call' = Attempting(c, c.attempt + 1)
         /\ diag' = NoDiag /\ UNCHANGED last
    ELSE Throws(c, d, code)
\* chatStream returns what it has when the stream breaks off.
PartialOr(c, d, code) ==
    IF Blank(c.collected) THEN Fails(c, d, code) ELSE Returns(c, d)
----------------------------------------------------------------------------
(* Connecting *)

TimerFired == call.abort = "timeout"
Connects ==
    /\ At("connect") /\ call.attempt < 3
    /\ \/ \* what the sidecar is asked is refused before it is sent
          /\ provider = "sidecar"
          /\ Throws(call, diag, "SIDECAR_SAFETY_BLOCKED")
       \/ \* the signal is aborted
          /\ call.abort # "no"
          /\ Fails(call, [diag EXCEPT !.cancelled = provider = "ollama", !.timeout = TimerFired,
                            !.reason = IF TimerFired THEN "TIMEOUT" ELSE "CANCELLED"],
                   CASE provider = "ollama" -> "OLLAMA_STREAM_CANCELLED"
                     [] provider = "gateway" -> "timeout"
                     [] OTHER -> "SIDECAR_UNAVAILABLE")
       \/ \* the connection fails, or there is no body
          /\ call.abort = "no"
          /\ \E reason \in {"TRANSPORT_ERROR", "NO_RESPONSE_BODY"} :
                Fails(call, [diag EXCEPT !.reason = reason],
                      CASE provider = "gateway" -> "connection_refused"
                        [] provider = "sidecar" /\ reason = "TRANSPORT_ERROR" ->
                             "SIDECAR_UNAVAILABLE"
                        [] OTHER -> "STREAM_INTERRUPTED")
       \/ \* a status that is not ok; whether its body is read then makes no difference
          /\ \E missing \in BOOLEAN :
                Fails(call, [diag EXCEPT !.reason = "HTTP"],
                      CASE provider = "ollama" ->
                             IF missing THEN "MODEL_NOT_FOUND" ELSE "OLLAMA_UNAVAILABLE"
                        [] provider = "gateway" ->
                             IF missing THEN "wrong_endpoint" ELSE "http_status"
                        [] OTHER -> "SIDECAR_UNAVAILABLE")
       \/ /\ call.abort = "no"
          /\ call' = [call EXCEPT !.pc = IF provider = "gateway" THEN "body" ELSE "read"]
          /\ UNCHANGED <<diag, last>>
    /\ UNCHANGED <<provider, user>>

\* GatewayClient.chat reads the body: whatever goes wrong, the timer too, is reported as
\* invalid JSON.
Body ==
    /\ At("body")
    /\ \/ /\ call.abort = "no"
          /\ Returns([call EXCEPT !.collected = <<"word">>, !.sent = <<"word">>],
                     [diag EXCEPT !.completed = TRUE])
       \/ Throws(call, diag, "invalid_json")
    /\ UNCHANGED <<provider, user>>

\* chatNonStream: one answer, empty or not, a status that is not ok, or no answer.
NonStream ==
    /\ At("connect") /\ call.attempt = 3
    /\ \/ /\ call.abort = "no"
          /\ \/ Returns([call EXCEPT !.collected = <<"word">>, !.sent = <<"word">>],
                        [diag EXCEPT !.completed = TRUE, !.first = TRUE])
             \/ Throws(call, [diag EXCEPT !.completed = TRUE, !.reason = "EMPTY_CONTENT"],
                       "MODEL_RESPONSE_INVALID")
             \/ \E code \in {"MODEL_NOT_FOUND", "OLLAMA_UNAVAILABLE"} :
                   Throws(call, [diag EXCEPT !.reason = "HTTP"], code)
       \/ Throws(call, [diag EXCEPT !.timeout = TimerFired,
                          !.reason = IF TimerFired THEN "TIMEOUT" ELSE "NON_STREAM_FAILED"],
                 "STREAM_INTERRUPTED")
    /\ UNCHANGED <<provider, user>>
----------------------------------------------------------------------------
(* Reading a stream *)

IsPiece(line) == line \in Pieces
\* An Ollama stream is read up to its last line, one that does not parse, or a piece
\* onToken throws at, which is collected; the sidecar's does not know a last line.
Stops == {"garbage", "thrown"} \cup (IF provider = "ollama" THEN {"done"} ELSE {})
StopAt(lines) == SelectInSeq(lines, LAMBDA line : line \in Stops)
ReadOf(lines) == IF StopAt(lines) = 0 THEN lines ELSE SubSeq(lines, 1, StopAt(lines))
\* What the server says after the last line is not part of the answer.
AnswerOf(lines) ==
    LET done == SelectInSeq(lines, LAMBDA line : line \in Stops \cap {"done"})
    IN  IF done = 0 THEN lines ELSE SubSeq(lines, 1, done)

\* A chunk is decoded line by line; what is left of an unfinished line is kept.
Chunk(lines) ==
    /\ At("read") /\ Len(call.sent) < MaxPieces
    /\ LET read == SelectSeq(ReadOf(lines), IsPiece)
           c == [call EXCEPT !.sent = @ \o SelectSeq(AnswerOf(lines), IsPiece),
                             !.collected = @ \o read, !.shown = @ \o read,
                             !.done = provider = "ollama" /\ Contains(ReadOf(lines), "done")]
           first == IF provider = "ollama" THEN ReadOf(lines) \notin {<<>>, <<"garbage">>}
                    ELSE read # <<>>
           d == [diag EXCEPT !.some = TRUE, !.first = @ \/ first]
           stop == IF StopAt(lines) = 0 THEN "none" ELSE lines[StopAt(lines)]
       IN  CASE stop = "none" ->
                  /\ call' = [c EXCEPT !.pc = IF c.abort = "no" \/ provider = "sidecar" THEN "read"
                                              ELSE "top"]
                  /\ diag' = d /\ UNCHANGED last
             [] stop = "done" -> Returns(c, [d EXCEPT !.completed = TRUE])
             [] OTHER ->
                  IF provider = "ollama"
                  THEN PartialOr(c, [d EXCEPT !.reason = "JSON_PARSE_FAILED"], "STREAM_INTERRUPTED")
                  ELSE Throws(c, [d EXCEPT !.reason = "JSON_PARSE_FAILED"], "STREAM_INTERRUPTED")
    /\ UNCHANGED <<provider, user>>

\* The loop of chatStream looks at the signal before it reads on.
Top ==
    /\ At("top")
    /\ PartialOr(call, [diag EXCEPT !.cancelled = TRUE, !.timeout = TimerFired,
                          !.reason = IF TimerFired THEN "TIMEOUT" ELSE "CANCELLED"],
                 "OLLAMA_STREAM_CANCELLED")
    /\ UNCHANGED <<provider, user>>

\* Mutant: a stream that broke off counts as completed.
BreakCompleted(d) == [d EXCEPT !.completed = TRUE]
Break(d) == d
\* The read fails, because the signal is aborted or the connection is.
ReadFails ==
    /\ At("read")
    /\ IF provider = "sidecar"
       THEN Throws(call, [diag EXCEPT !.reason = IF TimerFired THEN "TIMEOUT" ELSE "TRANSPORT_ERROR"],
                   "SIDECAR_UNAVAILABLE")
       ELSE PartialOr(call, Break([diag EXCEPT !.timeout = TimerFired,
                              !.reason = IF TimerFired THEN "TIMEOUT" ELSE "READER_READ_FAILED"]),
                      "STREAM_INTERRUPTED")
    /\ UNCHANGED <<provider, user>>

\* The stream is closed without a last line; an unfinished line is lost with it.
Close(cut) ==
    /\ At("read") /\ call.abort = "no"
    /\ LET c == [call EXCEPT !.closed = TRUE, !.sent = IF cut THEN Append(@, "word") ELSE @]
       IN  IF Blank(c.collected) /\ (provider = "ollama" \/ ~diag.first)
           THEN Fails(c, [diag EXCEPT !.reason = "EMPTY_CONTENT", !.some = @ \/ cut],
                      IF provider = "ollama" THEN "MODEL_RESPONSE_INVALID"
                      ELSE "STREAM_INTERRUPTED")
           ELSE IF provider = "sidecar"
           THEN call' = [c EXCEPT !.pc = "trace"] /\ diag' = diag /\ UNCHANGED last
           ELSE Returns(c, [diag EXCEPT !.completed = TRUE, !.some = @ \/ cut])
    /\ UNCHANGED <<provider, user>>

\* The sidecar's traces are fetched, or not, under a timer of their own.
Trace ==
    /\ At("trace") /\ Returns(call, [diag EXCEPT !.completed = TRUE])
    /\ UNCHANGED <<provider, user>>
----------------------------------------------------------------------------
(* Aborting *)

\* Mutant: the timer ends when the headers are there.
TimerUntilHeaders ==
    /\ At("connect") /\ call.abort = "no"
    /\ call' = [call EXCEPT !.abort = "timeout"]
    /\ UNCHANGED <<provider, user, diag, last>>
Timer ==
    /\ call.pc \in {"connect", "body", "read"} /\ call.abort = "no"
    /\ call' = [call EXCEPT !.abort = "timeout"]
    /\ UNCHANGED <<provider, user, diag, last>>

\* The signal is passed on by the providers that stream; runChat passes none.
Cancel ==
    /\ Active /\ ~user /\ user' = TRUE
    /\ call.caller.signal \/ call.caller.mode = "native"
    /\ call' = [call EXCEPT !.abort = IF @ = "no" /\ call.caller.signal /\ provider # "gateway"
                                      THEN "cancelled" ELSE @]
    /\ UNCHANGED <<provider, diag, last>>
----------------------------------------------------------------------------
Caller == (\E caller \in Callers : Start(caller)) \/ Cancel
Server == (\E lines \in Chunks : Chunk(lines)) \/ \E cut \in BOOLEAN : Close(cut)
Client == Discovers \/ Connects \/ Body \/ NonStream \/ Top \/ ReadFails \/ Trace
CallNext == Caller \/ Server \/ Client \/ Timer

CallSpec == CallInit /\ [][CallNext]_callVars
\* A timer fires, and an aborted signal is noticed at the await it interrupts; nothing is
\* assumed of the server.
Noticed == (call.abort # "no" \/ call.pc \in {"discover", "trace"}) /\ Client
FairCallSpec == CallSpec /\ WF_callVars(Timer) /\ WF_callVars(Top) /\ WF_callVars(Noticed)
----------------------------------------------------------------------------
Reasons == {"none", "TIMEOUT", "CANCELLED", "TRANSPORT_ERROR", "NO_RESPONSE_BODY", "HTTP",
            "READER_READ_FAILED", "JSON_PARSE_FAILED", "EMPTY_CONTENT", "NON_STREAM_FAILED"}
\* The state is well formed: two streams at most, a third request only in diagnostic mode,
\* a reason for every attempt that ended without content.
CallTypeOK ==
    /\ provider \in Providers /\ user \in BOOLEAN /\ diag.reason \in Reasons
    /\ call.n <= MaxCalls /\ call.attempt \in 0..3 /\ call.abort \in {"no", "timeout", "cancelled"}
    /\ call.attempt = 3 => call.caller.diagnostic
    /\ call.attempt > 1 => provider = "ollama"
    /\ last.call <= call.n

\* What onToken was given is what the call returns: nothing is shown twice by a retry, and
\* when an Ollama call fails no text was shown.  An answer in one piece is not shown.
ShownIsReturned ==
    /\ call.outcome = "content" /\ provider # "gateway"
          => call.shown = IF call.attempt = 3 THEN <<>> ELSE call.text
    /\ At("ended") /\ call.outcome # "content" /\ provider = "ollama" => Blank(call.shown)

\* An answer said to be completed is all of what was sent before the last line, or the
\* server closed the stream; a broken stream, a timeout and a cancellation are not said to
\* be completed.
CompletedIsWhole ==
    call.outcome = "content" /\ diag.completed /\ provider = "ollama" /\ call.attempt < 3 =>
        \/ call.done /\ call.text = call.sent
        \/ call.closed

\* After an Ollama call the provider's diagnostics are those of its last attempt.
DiagnosticsOfCall ==
    provider = "ollama" /\ At("ended") /\ call.attempt > 0 =>
        last = [call |-> call.n, attempt |-> call.attempt]

\* Every call ends, whatever the server does.
CallsEnd == Active ~> ~Active
=============================================================================
