-------------------------------- MODULE Pipeline -------------------------------
(******************************************************************************)
(* One request through the global middleware chain of server.New:             *)
(*                                                                            *)
(*   RequestID, Tracing, Recovery, CORS, Logger, Metrics, Timeout, handler    *)
(*                                                                            *)
(* Timeout runs the handler in a second goroutine.  Both goroutines answer    *)
(* through one http.ResponseWriter, wrapped by the interceptors of Metrics,   *)
(* Logger and Tracing, with no lock; a store to an interceptor, a change of   *)
(* the header map, the commit of the status line and a write of the body are  *)
(* separate steps here.                                                       *)
(******************************************************************************)
EXTENDS Integers, Sequences

CONSTANTS
    HandlerCodes,   \* statuses the handler may answer with
    None            \* nothing sent; nothing recorded

Goroutines == {"serve", "handler"}
Layers == {"metrics", "logger", "tracing"}
Codes == HandlerCodes \cup {200, 204, 500, 504}

ASSUME PipelineAssumption == HandlerCodes \subseteq Nat /\ None \notin Codes

VARIABLES
    preflight,   \* the method is OPTIONS
    serve,       \* progress of net/http's goroutine, in the middlewares
    handler,     \* progress of the goroutine Timeout starts
    ctx,         \* the context of Timeout
    branch,      \* the case its select took
    step,        \* where a goroutine is in response.JSON or response.ErrorJSON
    code,        \* the status it answers with
    status,      \* statusCode of each interceptor
    recorded,    \* what each of those middlewares reported
    sent,        \* the status line of the response
    body,        \* who wrote to its body, in order
    late,        \* the ResponseWriter was used after ServeHTTP had returned
    dead         \* the runtime stopped the process: concurrent use of the header map

vars == <<preflight, serve, handler, ctx, branch, step, code, status, recorded, sent,
          body, late, dead>>

TypeOK ==
    /\ preflight \in BOOLEAN
    /\ serve \in {"enter", "select", "timeout", "recover", "meter", "log", "trace",
                  "finish", "returned"}
    /\ handler \in {"none", "run", "limit", "answer", "panicking", "panicked", "returned"}
    /\ ctx \in {"live", "expired", "cancelled"}
    /\ branch \in {"none", "done", "panic", "ctx"}
    /\ step \in [Goroutines -> Layers \cup {"none", "header", "commit", "body"}]
    /\ code \in [Goroutines -> Codes]
    /\ status \in [Layers -> Codes]
    /\ recorded \in [Layers -> Codes \cup {None}]
    /\ sent \in Codes \cup {None}
    /\ body \in Seq(Goroutines) /\ Len(body) <= 2
    /\ late \in BOOLEAN
    /\ dead \in BOOLEAN

Init ==
    /\ preflight \in BOOLEAN
    /\ serve = "enter"
    /\ handler = "none"
    /\ ctx = "live"
    /\ branch = "none"
    /\ step = [g \in Goroutines |-> "none"]
    /\ code = [g \in Goroutines |-> 200]
    /\ status = [l \in Layers |-> 200]
    /\ recorded = [l \in Layers |-> None]
    /\ sent = None
    /\ body = <<>>
    /\ late = FALSE
    /\ dead = FALSE

--------------------------------------------------------------------------------
(* The ResponseWriter (net/http) under concurrent use                         *)

Over == serve = "returned"

Other(g) == CHOOSE h \in Goroutines : h # g

InHeaderMap(g) == step[g] = "header" \/ (g = "handler" /\ handler = "limit")

\* g writes or copies the header map.  If the other goroutine is writing it, the
\* Go runtime may notice, which no recover stops.
UseHeaderMap(g) ==
    /\ \/ dead' = dead
       \/ InHeaderMap(Other(g)) /\ dead' = TRUE
    /\ late' = (late \/ Over)

--------------------------------------------------------------------------------
(* response.JSON, ErrorJSON and their callers                                 *)

\* g calls JSON or ErrorJSON with status c: it sets Content-Type.
StartAnswer(g, c) ==
    /\ step' = [step EXCEPT ![g] = "header"]
    /\ code' = [code EXCEPT ![g] = c]
    /\ UseHeaderMap(g)

\* The wrapper g writes to: Recovery sits outside Logger and Metrics.
FirstLayer(g) == IF g = "serve" /\ serve = "recover" THEN "tracing" ELSE "metrics"

NextStep == [metrics |-> "logger", logger |-> "tracing", tracing |-> "commit"]

HeaderSet(g) ==
    /\ step[g] = "header"
    /\ step' = [step EXCEPT ![g] = FirstLayer(g)]
    /\ UNCHANGED <<code, status, sent, body, late, dead>>

\* Mutant of InterceptHeader: the wrapper passes the code on and keeps none.
InterceptNothing(g) ==
    /\ step[g] \in Layers
    /\ step' = [step EXCEPT ![g] = NextStep[step[g]]]
    /\ UNCHANGED <<code, status, sent, body, late, dead>>

\* WriteHeader of an interceptor.
InterceptHeader(g) ==
    /\ step[g] \in Layers
    /\ status' = [status EXCEPT ![step[g]] = code[g]]
    /\ step' = [step EXCEPT ![g] = NextStep[step[g]]]
    /\ UNCHANGED <<code, sent, body, late, dead>>

\* WriteHeader of net/http: the first call wins, a later one is ignored.  (It is not
\* locked either; two racing calls leave one of the two codes, as here.)
Commit(g) ==
    /\ step[g] = "commit"
    /\ sent' = IF sent = None THEN code[g] ELSE sent
    /\ UseHeaderMap(g)
    /\ step' = [step EXCEPT ![g] = "body"]
    /\ UNCHANGED <<code, status, body>>

\* Mutant of WriteBody: the document is written again.
WriteBodyAgain(g) ==
    /\ step[g] = "body"
    /\ body' = IF Over THEN body ELSE Append(body, g)
    /\ late' = (late \/ Over)
    /\ step' \in {step, [step EXCEPT ![g] = "none"]}
    /\ UNCHANGED <<code, status, sent, dead>>

\* Encode writes the document once, through the interceptors.  After ServeHTTP has
\* returned the write is to a buffer this request no longer owns.
WriteBody(g) ==
    /\ step[g] = "body"
    /\ body' = IF Over THEN body ELSE Append(body, g)
    /\ late' = (late \/ Over)
    /\ step' = [step EXCEPT ![g] = "none"]
    /\ UNCHANGED <<code, status, sent, dead>>

Answering(g) ==
    /\ HeaderSet(g) \/ InterceptHeader(g) \/ Commit(g) \/ WriteBody(g)
    /\ UNCHANGED <<preflight, serve, handler, ctx, branch, recorded>>

writerVars == <<step, code, status, sent, body, late, dead>>

--------------------------------------------------------------------------------
(* The handler's goroutine                                                    *)

\* RateLimit, inside the handler's goroutine, sets headers before the answer.
LimitHeaders ==
    /\ \/ /\ handler = "run"
          /\ handler' = "limit"
          /\ UseHeaderMap("handler")
       \/ /\ handler = "limit"
          /\ handler' = "run"
          /\ UNCHANGED <<late, dead>>
    /\ UNCHANGED <<preflight, serve, ctx, branch, step, code, status, recorded, sent, body>>

\* The handler answers: the last thing it does.
HandlerAnswers ==
    /\ handler = "run"
    /\ handler' = "answer"
    /\ \E c \in HandlerCodes : StartAnswer("handler", c)
    /\ UNCHANGED <<preflight, serve, ctx, branch, status, recorded, sent, body>>

\* Mutant of HandlerReturns: done is closed when the handler starts to answer.
HandlerReturnsEarly ==
    /\ handler = "answer"
    /\ handler' = "returned"
    /\ UNCHANGED <<preflight, serve, ctx, branch, recorded, writerVars>>

\* close(done)
HandlerReturns ==
    /\ handler = "answer"
    /\ step["handler"] = "none"
    /\ handler' = "returned"
    /\ UNCHANGED <<preflight, serve, ctx, branch, recorded, writerVars>>

\* A handler panics on its way (a nil pool, a send on the closed job queue), never
\* while it answers.
HandlerPanics ==
    /\ handler = "run"
    /\ handler' = "panicking"
    /\ UNCHANGED <<preflight, serve, ctx, branch, recorded, writerVars>>

\* Mutant of SendPanic: panicChan has no buffer.
SendPanicUnbuffered ==
    /\ handler = "panicking"
    /\ serve = "select"
    /\ handler' = "panicked"
    /\ UNCHANGED <<preflight, serve, ctx, branch, recorded, writerVars>>

\* recover, then panicChan <- p, which has room for it.
SendPanic ==
    /\ handler = "panicking"
    /\ handler' = "panicked"
    /\ UNCHANGED <<preflight, serve, ctx, branch, recorded, writerVars>>

HandlerStep ==
    /\ ~dead
    /\ \/ LimitHeaders
       \/ HandlerAnswers
       \/ HandlerReturns
       \/ HandlerPanics
       \/ SendPanic
       \/ Answering("handler")

--------------------------------------------------------------------------------
(* The serving goroutine                                                      *)

\* CORS answers a preflight itself, through Tracing's wrapper.
Preflight ==
    /\ serve = "enter"
    /\ preflight
    /\ status' = [status EXCEPT !["tracing"] = 204]
    /\ sent' = 204
    /\ serve' = "trace"
    /\ UNCHANGED <<preflight, handler, ctx, branch, step, code, recorded, body, late, dead>>

\* RequestID, Tracing and CORS set their headers; Timeout starts the handler.
StartHandler ==
    /\ serve = "enter"
    /\ ~preflight
    /\ serve' = "select"
    /\ handler' = "run"
    /\ UNCHANGED <<preflight, ctx, branch, recorded, writerVars>>

SelectDone ==
    /\ serve = "select"
    /\ handler = "returned"
    /\ serve' = "meter"
    /\ branch' = "done"
    /\ UNCHANGED <<preflight, handler, ctx, recorded, writerVars>>

\* panic(p) unwinds Timeout, Metrics and Logger up to Recovery, which answers 500.
SelectPanic ==
    /\ serve = "select"
    /\ handler = "panicked"
    /\ serve' = "recover"
    /\ branch' = "panic"
    /\ StartAnswer("serve", 500)
    /\ UNCHANGED <<preflight, handler, ctx, status, recorded, sent, body>>

\* Mutant of SelectDeadline: the deadline is looked at once the handler is over.
SelectDeadlineLate ==
    /\ serve = "select"
    /\ ctx = "expired"
    /\ handler \in {"returned", "panicked"}
    /\ serve' = "timeout"
    /\ branch' = "ctx"
    /\ StartAnswer("serve", 504)
    /\ UNCHANGED <<preflight, handler, ctx, status, recorded, sent, body>>

\* The deadline is answered with 504.
SelectDeadline ==
    /\ serve = "select"
    /\ ctx = "expired"
    /\ serve' = "timeout"
    /\ branch' = "ctx"
    /\ StartAnswer("serve", 504)
    /\ UNCHANGED <<preflight, handler, ctx, status, recorded, sent, body>>

\* The client is gone: nobody is answered.
SelectCancelled ==
    /\ serve = "select"
    /\ ctx = "cancelled"
    /\ serve' = "meter"
    /\ branch' = "ctx"
    /\ UNCHANGED <<preflight, handler, ctx, recorded, writerVars>>

\* The answer of Timeout or of Recovery is written.
Answered ==
    /\ serve \in {"timeout", "recover"}
    /\ step["serve"] = "none"
    /\ serve' = IF serve = "timeout" THEN "meter" ELSE "trace"
    /\ UNCHANGED <<preflight, handler, ctx, branch, recorded, writerVars>>

\* Metrics, Logger and Tracing, innermost first, report their statusCode.
Report ==
    /\ \E r \in {<<"meter", "metrics", "log">>, <<"log", "logger", "trace">>,
                 <<"trace", "tracing", "finish">>} :
         /\ serve = r[1]
         /\ recorded' = [recorded EXCEPT ![r[2]] = status[r[2]]]
         /\ serve' = r[3]
    /\ UNCHANGED <<preflight, handler, ctx, branch, writerVars>>

\* net/http sends the response.  If none was written it commits one of status 200
\* itself, which copies the header map (RequestID has asked for it).
Finish ==
    /\ serve = "finish"
    /\ serve' = "returned"
    /\ \/ sent # None /\ UNCHANGED <<sent, late, dead>>
       \/ sent = None /\ sent' = 200 /\ UseHeaderMap("serve")
    /\ UNCHANGED <<preflight, handler, ctx, branch, step, code, status, recorded, body>>

ServeStep ==
    /\ ~dead
    /\ \/ Preflight
       \/ StartHandler
       \/ SelectDone
       \/ SelectPanic
       \/ SelectDeadline
       \/ SelectCancelled
       \/ Answered
       \/ Report
       \/ Finish
       \/ Answering("serve")

\* The timer of context.WithTimeout fires.
Deadline ==
    /\ ~dead
    /\ serve = "select"
    /\ ctx = "live"
    /\ ctx' = "expired"
    /\ UNCHANGED <<preflight, serve, handler, branch, recorded, writerVars>>

\* The client closes the connection.
ClientLeaves ==
    /\ ~dead
    /\ serve \in {"enter", "select"}
    /\ ctx = "live"
    /\ ctx' = "cancelled"
    /\ UNCHANGED <<preflight, serve, handler, branch, recorded, writerVars>>

Next == ServeStep \/ HandlerStep \/ Deadline \/ ClientLeaves

Spec == Init /\ [][Next]_vars

\* The timer fires, and a goroutine that is not waiting for anyone runs on.  A
\* handler that has neither answered nor panicked is promised nothing.
Fairness ==
    /\ WF_vars(ServeStep)
    /\ WF_vars(Deadline)
    /\ WF_vars(handler \in {"answer", "panicking"} /\ HandlerStep)

LiveSpec == Spec /\ Fairness

--------------------------------------------------------------------------------
(* Properties                                                                 *)

\* What the client of a request that was not abandoned must get.
Expected ==
    CASE branch = "done"  -> [sent |-> code["handler"], body |-> <<"handler">>]
      [] branch = "panic" -> [sent |-> 500, body |-> <<"serve">>]
      [] branch = "none"  -> [sent |-> 204, body |-> <<>>]

\* As long as Timeout has not given up on the handler, the client gets one whole
\* answer, the handler's or Recovery's, although two goroutines share one writer.
\* Past the deadline it gets a status one of them wrote and the 504's document,
\* possibly mixed with the handler's.  Only in a request that was abandoned is the
\* writer used after ServeHTTP has returned, or the process stopped by a concurrent
\* use of the header map: by the 504 and the handler's answer, or, the client gone,
\* when net/http completes a response nobody has answered while the handler does.
AnswerIntact ==
    /\ Over /\ branch # "ctx" => [sent |-> sent, body |-> body] = Expected
    /\ Over /\ branch = "ctx" /\ ctx = "expired" =>
          /\ sent = 504 \/ (handler \in {"answer", "returned"} /\ sent = code["handler"])
          /\ \E k \in 1 .. Len(body) : body[k] = "serve"
    /\ late => branch = "ctx"
    /\ dead => branch = "ctx" /\ (ctx = "expired" \/ Over)

\* The status that metrics, log and trace show for a request that was not
\* abandoned is the one the client got.  A request that panicked is only in the
\* traces, as is a preflight: Metrics does not see "every HTTP request".
StatusRecorded ==
    Over /\ branch # "ctx" =>
        recorded = [l \in Layers |->
                      IF l = "tracing" \/ branch = "done" THEN sent ELSE None]

\* A request is over although its handler may hang or its goroutine be stuck.
RequestServed == serve = "select" ~> Over \/ dead

\* The goroutine of a handler that panics ends, whether or not anyone is left to
\* receive the panic.
PanicEnds == handler = "panicking" ~> handler = "panicked" \/ dead
================================================================================
