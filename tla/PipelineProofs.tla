----------------------------- MODULE PipelineProofs ----------------------------
(******************************************************************************)
(* Proofs about Pipeline, for any statuses a handler may answer with.         *)
(******************************************************************************)
EXTENDS Pipeline, SequenceTheorems, TLAPS

Waiting == {"none", "run", "limit", "panicking", "panicked"}

\* Neither goroutine answers and nothing has been sent.
Silent(g) == step[g] = "none" /\ sent = None /\ body = <<>>

NothingRecorded == \A l \in Layers : recorded[l] = None

\* The handler's answer is on its way through the interceptors to the client, and
\* nobody else's is: what it has passed shows its code.
HandlerAnswering ==
    /\ step["handler"] \in {"logger", "tracing", "commit", "body", "none"} =>
          status["metrics"] = code["handler"]
    /\ step["handler"] \in {"tracing", "commit", "body", "none"} =>
          status["logger"] = code["handler"]
    /\ step["handler"] \in {"commit", "body", "none"} => status["tracing"] = code["handler"]
    /\ sent = IF step["handler"] \in {"body", "none"} THEN code["handler"] ELSE None
    /\ body = IF step["handler"] = "none" THEN <<"handler">> ELSE <<>>

HandlerWhole ==
    /\ step["handler"] = "none"
    /\ \A l \in Layers : status[l] = code["handler"]
    /\ sent = code["handler"]
    /\ body = <<"handler">>

\* Before Timeout: nothing has happened.
EnterInv ==
    serve = "enter" =>
        /\ handler = "none" /\ branch = "none"
        /\ Silent("serve") /\ Silent("handler") /\ NothingRecorded

\* A preflight never gets to Timeout.
PreflightInv ==
    branch = "none" /\ serve \notin {"enter", "select"} =>
        /\ serve \in {"trace", "finish", "returned"}
        /\ handler = "none"
        /\ step["serve"] = "none" /\ step["handler"] = "none"
        /\ sent = 204 /\ body = <<>> /\ status["tracing"] = 204
        /\ recorded["metrics"] = None /\ recorded["logger"] = None
        /\ serve # "trace" => recorded["tracing"] = 204

\* While Timeout waits, only the handler uses the writer.
SelectInv ==
    serve = "select" =>
        /\ branch = "none" /\ handler # "none"
        /\ step["serve"] = "none" /\ NothingRecorded
        /\ handler \in Waiting => Silent("handler")
        /\ handler = "answer" => HandlerAnswering
        /\ handler = "returned" => HandlerWhole

\* After done, the answer is the handler's and each layer reports its status.
DoneInv ==
    branch = "done" =>
        /\ serve \in {"meter", "log", "trace", "finish", "returned"}
        /\ handler = "returned" /\ HandlerWhole
        /\ step["serve"] = "none"
        /\ recorded["metrics"] = IF serve = "meter" THEN None ELSE sent
        /\ recorded["logger"] = IF serve \in {"meter", "log"} THEN None ELSE sent
        /\ serve \in {"finish", "returned"} => recorded["tracing"] = sent

\* After a panic, Recovery alone answers, through Tracing's interceptor.
PanicInv ==
    branch = "panic" =>
        /\ serve \in {"recover", "trace", "finish", "returned"}
        /\ handler = "panicked" /\ step["handler"] = "none"
        /\ code["serve"] = 500
        /\ step["serve"] \in {"none", "header", "tracing", "commit", "body"}
        /\ serve # "recover" => step["serve"] = "none"
        /\ step["serve"] \in {"commit", "body", "none"} => status["tracing"] = 500
        /\ sent = IF step["serve"] \in {"body", "none"} THEN 500 ELSE None
        /\ body = IF step["serve"] = "none" THEN <<"serve">> ELSE <<>>
        /\ recorded["metrics"] = None /\ recorded["logger"] = None
        /\ serve \in {"finish", "returned"} => recorded["tracing"] = 500

\* After the end of the context both goroutines may write; Timeout's answer is
\* complete when it goes on to Metrics.
CtxInv ==
    branch = "ctx" =>
        /\ serve \in {"timeout", "meter", "log", "trace", "finish", "returned"}
        /\ serve # "timeout" => step["serve"] = "none"
        /\ ctx = "cancelled" => serve # "timeout"
        /\ ctx = "expired" =>
              /\ code["serve"] = 504
              /\ \/ sent = 504
                 \/ handler \in {"answer", "returned"} /\ sent = code["handler"]
                 \/ sent = None /\ step["serve"] \notin {"body", "none"}
              /\ step["serve"] = "none" => \E k \in 1 .. Len(body) : body[k] = "serve"

\* A handler answers only in state "answer", and has been started only if Timeout ran.
HandlerInv ==
    /\ handler # "answer" => step["handler"] = "none"
    /\ ctx = "live" => branch # "ctx"
    /\ step["serve"] # "none" => serve \in {"timeout", "recover"}

\* What each goroutine may still write to the body.
Pending(g) ==
    IF g = "handler"
    THEN IF handler \in {"none", "run", "limit"} \/ step["handler"] # "none" THEN 1 ELSE 0
    ELSE IF serve \in {"enter", "select"} \/ step["serve"] # "none" THEN 1 ELSE 0

BodyInv == Len(body) + Pending("handler") + Pending("serve") <= 2

UseInv ==
    /\ late => branch = "ctx"
    /\ dead => branch = "ctx" /\ (ctx = "expired" \/ Over)

IndInv ==
    /\ TypeOK
    /\ EnterInv
    /\ PreflightInv
    /\ SelectInv
    /\ DoneInv
    /\ PanicInv
    /\ CtxInv
    /\ HandlerInv
    /\ BodyInv
    /\ UseInv

--------------------------------------------------------------------------------
(* The writer                                                                 *)

\* There are two goroutines.
LEMMA OtherGoroutine == Other("serve") = "handler" /\ Other("handler") = "serve"
  BY DEF Other, Goroutines

\* An answer passes the interceptors from the inside out.
LEMMA NextSteps ==
    NextStep["metrics"] = "logger" /\ NextStep["logger"] = "tracing"
      /\ NextStep["tracing"] = "commit"
  BY DEF NextStep

\* What UseHeaderMap may do to the two flags.
LEMMA HeaderMapUse ==
    ASSUME TypeOK, NEW g \in Goroutines, UseHeaderMap(g)
    PROVE  /\ late' \in BOOLEAN /\ dead' \in BOOLEAN
           /\ late' => late \/ Over
           /\ dead' => dead \/ InHeaderMap(Other(g))
<1>1. dead \in BOOLEAN
  BY DEF TypeOK
<1>2. late' = (late \/ Over)
  BY DEF UseHeaderMap
<1>3. (dead' = dead) \/ (InHeaderMap(Other(g)) /\ dead' = TRUE)
  BY DEF UseHeaderMap
<1>4. late' \in BOOLEAN /\ (late' => late \/ Over)
  BY <1>2, Zenon
<1>5. dead' \in BOOLEAN /\ (dead' => dead \/ InHeaderMap(Other(g)))
  <2>1. CASE dead' = dead
    BY <1>1, <2>1
  <2>2. CASE InHeaderMap(Other(g)) /\ dead' = TRUE
    BY <2>2, Zenon
  <2> QED
    BY <1>3, <2>1, <2>2
<1> QED
  BY <1>4, <1>5

\* The types of the writer's variables, but for the size of the body.
WriterTypeOK ==
    /\ step \in [Goroutines -> Layers \cup {"none", "header", "commit", "body"}]
    /\ code \in [Goroutines -> Codes]
    /\ status \in [Layers -> Codes]
    /\ sent \in Codes \cup {None}
    /\ body \in Seq(Goroutines)
    /\ late \in BOOLEAN
    /\ dead \in BOOLEAN

\* One step of an answer: the goroutine's progress, and what it leaves alone.
LEMMA AnswerStep ==
    ASSUME TypeOK, NEW g \in Goroutines, Answering(g)
    PROVE  /\ WriterTypeOK' /\ code' = code
           /\ UNCHANGED <<preflight, serve, handler, ctx, branch, recorded>>
           /\ \A h \in Goroutines \ {g} : step'[h] = step[h]
           /\ late' => late \/ Over
           /\ dead' => dead \/ InHeaderMap(Other(g))
           /\ \/ /\ step[g] = "header" /\ step'[g] = FirstLayer(g)
                 /\ UNCHANGED <<status, sent, body>>
              \/ /\ step[g] \in Layers /\ step'[g] = NextStep[step[g]]
                 /\ status'[step[g]] = code[g]
                 /\ \A l \in Layers \ {step[g]} : status'[l] = status[l]
                 /\ UNCHANGED <<sent, body>>
              \/ /\ step[g] = "commit" /\ step'[g] = "body"
                 /\ sent' = IF sent = None THEN code[g] ELSE sent
                 /\ UNCHANGED <<status, body>>
              \/ /\ step[g] = "body" /\ step'[g] = "none"
                 /\ body' = IF Over THEN body ELSE Append(body, g)
                 /\ UNCHANGED <<status, sent>>
<1>1. /\ step \in [Goroutines -> Layers \cup {"none", "header", "commit", "body"}]
      /\ code \in [Goroutines -> Codes] /\ status \in [Layers -> Codes]
      /\ sent \in Codes \cup {None} /\ body \in Seq(Goroutines)
      /\ late \in BOOLEAN /\ dead \in BOOLEAN
      /\ UNCHANGED <<preflight, serve, handler, ctx, branch, recorded>>
  BY DEF TypeOK, Answering
<1>2. CASE HeaderSet(g)
  BY <1>1, <1>2 DEF HeaderSet, FirstLayer, WriterTypeOK, Layers
<1>3. CASE InterceptHeader(g)
  <2>1. NextStep[step[g]] \in Layers \cup {"none", "header", "commit", "body"}
    BY <1>3, NextSteps DEF InterceptHeader, Layers
  <2> QED
    BY <1>1, <1>3, <2>1 DEF InterceptHeader, WriterTypeOK
<1>4. CASE Commit(g)
  <2>1. /\ late' \in BOOLEAN /\ dead' \in BOOLEAN
        /\ late' => late \/ Over
        /\ dead' => dead \/ InHeaderMap(Other(g))
    BY <1>4, HeaderMapUse DEF Commit
  <2>2. /\ step[g] = "commit" /\ step' = [step EXCEPT ![g] = "body"]
        /\ sent' = IF sent = None THEN code[g] ELSE sent
        /\ UNCHANGED <<code, status, body>>
    BY <1>4 DEF Commit
  <2> QED
    BY <1>1, <2>1, <2>2 DEF WriterTypeOK
<1>5. CASE WriteBody(g)
  <2>1. late' \in BOOLEAN /\ (late' => late \/ Over) /\ dead' = dead
    BY <1>1, <1>5, Zenon DEF WriteBody
  <2>2. /\ step[g] = "body" /\ step' = [step EXCEPT ![g] = "none"]
        /\ body' = IF Over THEN body ELSE Append(body, g)
        /\ UNCHANGED <<code, status, sent>>
    BY <1>5 DEF WriteBody
  <2>3. body' \in Seq(Goroutines)
    BY <1>1, <2>2
  <2> QED
    BY <1>1, <2>1, <2>2, <2>3 DEF WriterTypeOK
<1> QED
  BY <1>2, <1>3, <1>4, <1>5 DEF Answering

--------------------------------------------------------------------------------
(* The handler's goroutine                                                    *)

\* A step of the handler's answer.
LEMMA HandlerWrites ==
    ASSUME IndInv, ~dead, Answering("handler")
    PROVE  IndInv'
<1> USE DEF Goroutines, Layers
<1>1. /\ TypeOK /\ HandlerInv /\ step["handler"] # "none"
      /\ WriterTypeOK' /\ code' = code /\ step'["serve"] = step["serve"]
      /\ UNCHANGED <<preflight, serve, handler, ctx, branch, recorded>>
      /\ late' => late \/ Over
      /\ dead' => dead \/ step["serve"] = "header"
  BY AnswerStep, OtherGoroutine DEF IndInv, InHeaderMap
<1>2. \/ /\ step["handler"] = "header" /\ step'["handler"] = "metrics"
         /\ UNCHANGED <<status, sent, body>>
      \/ /\ step["handler"] = "metrics" /\ step'["handler"] = "logger"
         /\ status'["metrics"] = code["handler"] /\ UNCHANGED <<sent, body>>
      \/ /\ step["handler"] = "logger" /\ step'["handler"] = "tracing"
         /\ status'["logger"] = code["handler"] /\ status'["metrics"] = status["metrics"]
         /\ UNCHANGED <<sent, body>>
      \/ /\ step["handler"] = "tracing" /\ step'["handler"] = "commit"
         /\ status'["tracing"] = code["handler"] /\ status'["metrics"] = status["metrics"]
         /\ status'["logger"] = status["logger"] /\ UNCHANGED <<sent, body>>
      \/ /\ step["handler"] = "commit" /\ step'["handler"] = "body"
         /\ sent' = IF sent = None THEN code["handler"] ELSE sent
         /\ UNCHANGED <<status, body>>
      \/ /\ step["handler"] = "body" /\ step'["handler"] = "none"
         /\ body' = IF Over THEN body ELSE Append(body, "handler")
         /\ UNCHANGED <<status, sent>>
  BY AnswerStep, NextSteps DEF IndInv, FirstLayer
<1>3. handler = "answer" /\ ((serve = "select" /\ branch = "none") \/ branch = "ctx")
  <2>1. handler = "answer"
    BY <1>1 DEF HandlerInv
  <2> QED
    BY <1>1, <2>1 DEF IndInv, TypeOK, EnterInv, PreflightInv, SelectInv, DoneInv, PanicInv
<1>4. SelectInv'
  <2>1. SUFFICES ASSUME serve = "select" PROVE HandlerAnswering'
    BY <1>1, <1>3 DEF IndInv, SelectInv, NothingRecorded, Waiting
  <2>2. HandlerAnswering /\ ~Over
    BY <1>3, <2>1 DEF IndInv, SelectInv, Over
  <2>3. Append(<< >>, "handler") = <<"handler">>
    OBVIOUS
  <2> QED
    BY <1>1, <1>2, <2>2, <2>3 DEF HandlerAnswering
<1>5. CtxInv'
  <2>1. SUFFICES ASSUME branch = "ctx" PROVE CtxInv'
    BY <1>1 DEF CtxInv
  <2>2. CtxInv /\ body \in Seq(Goroutines)
    BY DEF IndInv, TypeOK
  <2>3. (\E k \in 1 .. Len(body) : body[k] = "serve")
          => (\E k \in 1 .. Len(body') : body'[k] = "serve")
    <3>1. CASE body' = Append(body, "handler")
      <4>1. /\ Len(body') = Len(body) + 1 /\ Len(body) \in Nat
            /\ \A k \in 1 .. Len(body) : body'[k] = body[k]
        BY <2>2, <3>1, AppendProperties
      <4> QED
        BY <4>1
    <3> QED
      BY <1>2, <3>1
  <2>4. \/ sent' = sent
        \/ sent = None /\ sent' = code["handler"]
    BY <1>2
  <2> QED
    BY <1>1, <1>3, <2>1, <2>2, <2>3, <2>4 DEF CtxInv
<1>6. HandlerInv' /\ UseInv'
  <2>1. step["serve"] = "header" => branch = "ctx" /\ ctx = "expired"
    BY <1>1, <1>3 DEF IndInv, CtxInv, HandlerInv, TypeOK
  <2> QED
    BY <1>1, <1>3, <2>1 DEF IndInv, HandlerInv, UseInv, Over
<1>7. BodyInv' /\ Len(body') <= 2
  <2>1. /\ Len(body) \in Nat
        /\ body' = body \/ (Len(body') = Len(body) + 1 /\ step'["handler"] = "none")
    <3>1. Len(body) \in Nat /\ Len(Append(body, "handler")) = Len(body) + 1
      BY <1>1 DEF TypeOK
    <3>2. \/ body' = body
          \/ body' = Append(body, "handler") /\ step'["handler"] = "none"
      BY <1>2
    <3> QED
      BY <3>1, <3>2
  <2>2. /\ Pending("handler") = 1
        /\ Pending("handler")' = IF step'["handler"] = "none" THEN 0 ELSE 1
        /\ Pending("serve")' = Pending("serve") /\ Pending("serve") \in {0, 1}
    BY <1>1, <1>3 DEF Pending
  <2> QED
    BY <2>1, <2>2 DEF IndInv, BodyInv
<1>8. TypeOK'
  BY <1>1, <1>7 DEF TypeOK, WriterTypeOK
<1>9. EnterInv' /\ PreflightInv' /\ DoneInv' /\ PanicInv'
  BY <1>1, <1>3 DEF EnterInv, PreflightInv, DoneInv, PanicInv, IndInv, CtxInv
<1> QED
  BY <1>4, <1>5, <1>6, <1>7, <1>8, <1>9 DEF IndInv

\* A step of the handler outside its answer, which writes nothing to the client.
LEMMA HandlerMoves ==
    ASSUME IndInv, ~dead,
           LimitHeaders \/ HandlerAnswers \/ HandlerReturns \/ HandlerPanics \/ SendPanic
    PROVE  IndInv'
<1> USE DEF Goroutines, Layers
<1>1. /\ TypeOK
      /\ UNCHANGED <<preflight, serve, ctx, branch, status, recorded, sent, body>>
      /\ code'["serve"] = code["serve"] /\ step'["serve"] = step["serve"]
  BY DEF IndInv, TypeOK, LimitHeaders, HandlerAnswers, StartAnswer, HandlerReturns,
     HandlerPanics, SendPanic, writerVars
<1>2. \/ /\ handler \in {"run", "limit", "panicking"}
         /\ handler' \in {"run", "limit", "panicking", "panicked"}
         /\ handler = "panicking" => handler' = "panicked"
         /\ UNCHANGED <<step, code>>
      \/ /\ handler = "run" /\ handler' = "answer" /\ step'["handler"] = "header"
      \/ /\ handler = "answer" /\ handler' = "returned" /\ step["handler"] = "none"
         /\ UNCHANGED <<step, code>>
  BY <1>1 DEF TypeOK, LimitHeaders, HandlerAnswers, StartAnswer, HandlerReturns,
     HandlerPanics, SendPanic, writerVars
<1>3. /\ late' \in BOOLEAN /\ dead' \in BOOLEAN
      /\ late' => late \/ Over
      /\ dead' => dead \/ step["serve"] = "header"
  <2>1. CASE UNCHANGED <<late, dead>>
    BY <1>1, <2>1 DEF TypeOK
  <2>2. CASE UseHeaderMap("handler")
    BY <1>1, <2>2, HeaderMapUse, OtherGoroutine DEF InHeaderMap
  <2> QED
    BY <2>1, <2>2 DEF LimitHeaders, HandlerAnswers, StartAnswer, HandlerReturns,
       HandlerPanics, SendPanic, writerVars
<1>4. (serve = "select" /\ branch = "none") \/ branch = "ctx"
  BY <1>1, <1>2 DEF IndInv, TypeOK, EnterInv, PreflightInv, SelectInv, DoneInv, PanicInv
<1>5. TypeOK'
  <2>1. /\ step' \in [Goroutines -> Layers \cup {"none", "header", "commit", "body"}]
        /\ code' \in [Goroutines -> Codes]
    BY <1>1 DEF TypeOK, Codes, LimitHeaders, HandlerAnswers, StartAnswer, HandlerReturns,
       HandlerPanics, SendPanic, writerVars
  <2> QED
    BY <1>1, <1>2, <1>3, <2>1 DEF TypeOK
<1>6. SelectInv'
  <2>1. SUFFICES ASSUME serve = "select" PROVE SelectInv'
    BY <1>1 DEF SelectInv
  <2>2. SelectInv /\ HandlerInv
    BY DEF IndInv
  <2> QED
    BY <1>1, <1>2, <2>1, <2>2 DEF SelectInv, HandlerInv, Waiting, Silent, NothingRecorded,
       HandlerAnswering, HandlerWhole
<1>7. CtxInv'
  <2>1. SUFFICES ASSUME branch = "ctx", handler' # handler PROVE CtxInv'
    BY <1>1, <1>2 DEF IndInv, CtxInv
  <2> QED
    BY <1>1, <1>2, <2>1 DEF IndInv, CtxInv
<1>8. HandlerInv' /\ UseInv'
  <2>1. step["serve"] = "header" => branch = "ctx" /\ ctx = "expired"
    BY <1>1, <1>4 DEF IndInv, CtxInv, HandlerInv, TypeOK
  <2> QED
    BY <1>1, <1>2, <1>3, <1>4, <2>1 DEF IndInv, HandlerInv, UseInv, Over
<1>9. BodyInv'
  <2>1. Len(body) \in Nat
    BY <1>1 DEF TypeOK
  <2>2. /\ Pending("serve")' = Pending("serve") /\ Pending("serve") \in {0, 1}
        /\ Pending("handler") \in {0, 1} /\ Pending("handler")' \in {0, 1}
        /\ Pending("handler") = 0 => Pending("handler")' = 0
    BY <1>1, <1>2 DEF Pending, IndInv, HandlerInv
  <2> QED
    BY <1>1, <2>1, <2>2 DEF IndInv, BodyInv
<1>10. EnterInv' /\ PreflightInv' /\ DoneInv' /\ PanicInv'
  BY <1>1, <1>4 DEF EnterInv, PreflightInv, DoneInv, PanicInv, IndInv, CtxInv
<1> QED
  BY <1>5, <1>6, <1>7, <1>8, <1>9, <1>10 DEF IndInv

--------------------------------------------------------------------------------
(* The serving goroutine                                                      *)

\* Timeout or Recovery writes its answer.
LEMMA ServeWrites ==
    ASSUME IndInv, ~dead, Answering("serve")
    PROVE  IndInv'
<1> USE DEF Goroutines, Layers
<1>1. /\ TypeOK /\ HandlerInv /\ step["serve"] # "none"
      /\ WriterTypeOK' /\ code' = code /\ step'["handler"] = step["handler"]
      /\ UNCHANGED <<preflight, serve, handler, ctx, branch, recorded>>
      /\ late' => late \/ Over
      /\ dead' => dead \/ step["handler"] = "header" \/ handler = "limit"
  BY AnswerStep, OtherGoroutine DEF IndInv, InHeaderMap
<1>2. \/ /\ step["serve"] = "header" /\ step'["serve"] = FirstLayer("serve")
         /\ UNCHANGED <<status, sent, body>>
      \/ /\ step["serve"] = "metrics" /\ step'["serve"] = "logger"
         /\ UNCHANGED <<sent, body>>
      \/ /\ step["serve"] = "logger" /\ step'["serve"] = "tracing"
         /\ UNCHANGED <<sent, body>>
      \/ /\ step["serve"] = "tracing" /\ step'["serve"] = "commit"
         /\ status'["tracing"] = code["serve"] /\ UNCHANGED <<sent, body>>
      \/ /\ step["serve"] = "commit" /\ step'["serve"] = "body"
         /\ sent' = IF sent = None THEN code["serve"] ELSE sent
         /\ UNCHANGED <<status, body>>
      \/ /\ step["serve"] = "body" /\ step'["serve"] = "none"
         /\ body' = IF Over THEN body ELSE Append(body, "serve")
         /\ UNCHANGED <<status, sent>>
  BY AnswerStep, NextSteps DEF IndInv
<1>3. /\ ~Over
      /\ \/ serve = "timeout" /\ branch = "ctx" /\ ctx = "expired"
         \/ serve = "recover" /\ branch = "panic"
  <2>1. serve \in {"timeout", "recover"}
    BY <1>1 DEF HandlerInv
  <2> QED
    BY <1>1, <2>1 DEF IndInv, TypeOK, HandlerInv, PreflightInv, DoneInv, PanicInv, CtxInv,
       Over
<1>4. PanicInv'
  <2>1. SUFFICES ASSUME branch = "panic" PROVE PanicInv'
    BY <1>1 DEF PanicInv
  <2>2. PanicInv /\ serve = "recover" /\ FirstLayer("serve") = "tracing"
    BY <1>3, <2>1 DEF IndInv, FirstLayer
  <2>3. Append(<< >>, "serve") = <<"serve">>
    OBVIOUS
  <2> QED
    BY <1>1, <1>2, <1>3, <2>1, <2>2, <2>3 DEF PanicInv
<1>5. CtxInv'
  <2>1. SUFFICES ASSUME branch = "ctx" PROVE CtxInv'
    BY <1>1 DEF CtxInv
  <2>2. CtxInv /\ body \in Seq(Goroutines) /\ serve = "timeout" /\ ctx = "expired"
    BY <1>1, <1>3, <2>1 DEF IndInv, TypeOK
  <2>3. step'["serve"] = "none" => \E k \in 1 .. Len(body') : body'[k] = "serve"
    <3>1. SUFFICES ASSUME step'["serve"] = "none"
                   PROVE  \E k \in 1 .. Len(body') : body'[k] = "serve"
      OBVIOUS
    <3>2. body' = Append(body, "serve")
      BY <1>2, <1>3, <3>1 DEF FirstLayer
    <3>3. Len(body') = Len(body) + 1 /\ Len(body) \in Nat /\ body'[Len(body) + 1] = "serve"
      BY <2>2, <3>2, AppendProperties
    <3> QED
      BY <3>3
  <2>4. \/ sent' = sent /\ (step["serve"] \in {"body", "none"} <=> step'["serve"] \in {"body", "none"})
        \/ sent' = IF sent = None THEN code["serve"] ELSE sent
    BY <1>2 DEF FirstLayer
  <2>5. step'["serve"] \in {"body", "none"} => step["serve"] \in {"commit", "body"}
    BY <1>2 DEF FirstLayer
  <2> QED
    BY <1>1, <2>1, <2>2, <2>3, <2>4, <2>5 DEF CtxInv
<1>6. HandlerInv' /\ UseInv'
  <2>1. step["handler"] = "header" \/ handler = "limit" => branch = "ctx" /\ ctx = "expired"
    BY <1>1, <1>3 DEF IndInv, PanicInv
  <2> QED
    BY <1>1, <1>3, <2>1 DEF IndInv, HandlerInv, UseInv
<1>7. BodyInv' /\ Len(body') <= 2
  <2>1. /\ Len(body) \in Nat
        /\ body' = body \/ (Len(body') = Len(body) + 1 /\ step'["serve"] = "none")
    <3>1. Len(body) \in Nat /\ Len(Append(body, "serve")) = Len(body) + 1
      BY <1>1 DEF TypeOK
    <3>2. \/ body' = body
          \/ body' = Append(body, "serve") /\ step'["serve"] = "none"
      BY <1>2
    <3> QED
      BY <3>1, <3>2
  <2>2. /\ Pending("serve") = 1
        /\ Pending("serve")' = IF step'["serve"] = "none" THEN 0 ELSE 1
        /\ Pending("handler")' = Pending("handler") /\ Pending("handler") \in {0, 1}
    BY <1>1, <1>3 DEF Pending
  <2> QED
    BY <2>1, <2>2 DEF IndInv, BodyInv
<1>8. TypeOK'
  BY <1>1, <1>7 DEF TypeOK, WriterTypeOK
<1>9. EnterInv' /\ PreflightInv' /\ SelectInv' /\ DoneInv'
  BY <1>1, <1>3 DEF EnterInv, PreflightInv, SelectInv, DoneInv
<1> QED
  BY <1>4, <1>5, <1>6, <1>7, <1>8, <1>9 DEF IndInv

\* The request goes to CORS's answer or to Timeout.
LEMMA Entering ==
    ASSUME IndInv, ~dead, Preflight \/ StartHandler
    PROVE  IndInv'
<1> USE DEF Goroutines, Layers
<1>1. /\ TypeOK /\ serve = "enter" /\ handler = "none" /\ branch = "none"
      /\ Silent("serve") /\ Silent("handler") /\ NothingRecorded
      /\ UNCHANGED <<preflight, ctx, branch, step, code, recorded, body, late, dead>>
  BY DEF IndInv, EnterInv, Preflight, StartHandler, writerVars
<1>2. CASE Preflight
  <2>1. /\ serve' = "trace" /\ handler' = "none" /\ sent' = 204 /\ status'["tracing"] = 204
        /\ status' \in [Layers -> Codes]
    BY <1>1, <1>2 DEF Preflight, TypeOK, Codes
  <2>2. TypeOK' /\ BodyInv'
    BY <1>1, <2>1 DEF TypeOK, Codes, BodyInv, Pending, IndInv
  <2>3. EnterInv' /\ PreflightInv' /\ SelectInv' /\ DoneInv' /\ PanicInv' /\ CtxInv'
    BY <1>1, <2>1 DEF EnterInv, PreflightInv, SelectInv, DoneInv, PanicInv, CtxInv, Silent,
       NothingRecorded
  <2>4. HandlerInv' /\ UseInv'
    BY <1>1, <2>1 DEF IndInv, HandlerInv, UseInv, Silent
  <2> QED
    BY <2>2, <2>3, <2>4 DEF IndInv
<1>3. CASE StartHandler
  <2>1. serve' = "select" /\ handler' = "run" /\ UNCHANGED <<sent, status>>
    BY <1>3 DEF StartHandler, writerVars
  <2>2. TypeOK' /\ BodyInv'
    BY <1>1, <2>1 DEF TypeOK, BodyInv, Pending, IndInv
  <2>3. EnterInv' /\ PreflightInv' /\ SelectInv' /\ DoneInv' /\ PanicInv' /\ CtxInv'
    BY <1>1, <2>1 DEF EnterInv, PreflightInv, SelectInv, DoneInv, PanicInv, CtxInv, Silent,
       NothingRecorded, Waiting
  <2>4. HandlerInv' /\ UseInv'
    BY <1>1, <2>1 DEF IndInv, HandlerInv, UseInv, Silent
  <2> QED
    BY <2>2, <2>3, <2>4 DEF IndInv
<1> QED
  BY <1>2, <1>3

\* Timeout's select ends without an answer of its own.
LEMMA SelectLeaves ==
    ASSUME IndInv, ~dead, SelectDone \/ SelectCancelled
    PROVE  IndInv'
<1> USE DEF Goroutines, Layers
<1>1. /\ TypeOK /\ HandlerInv /\ SelectInv /\ BodyInv /\ UseInv
      /\ serve = "select" /\ serve' = "meter" /\ branch = "none"
      /\ UNCHANGED <<preflight, handler, ctx, recorded>>
      /\ UNCHANGED <<step, code, status, sent, body, late, dead>>
      /\ step["serve"] = "none" /\ NothingRecorded
      /\ \/ branch' = "done" /\ handler = "returned" /\ HandlerWhole
         \/ branch' = "ctx" /\ ctx = "cancelled"
  BY DEF IndInv, SelectInv, SelectDone, SelectCancelled, writerVars
<1>2. TypeOK' /\ HandlerInv' /\ UseInv'
  BY <1>1 DEF TypeOK, HandlerInv, UseInv
<1>3. BodyInv'
  <2>1. /\ Pending("handler")' = Pending("handler") /\ Pending("handler") \in {0, 1}
        /\ Pending("serve") = 1 /\ Pending("serve")' = 0 /\ Len(body) \in Nat
    BY <1>1 DEF Pending, TypeOK
  <2> QED
    BY <1>1, <2>1 DEF BodyInv
<1>4. EnterInv' /\ PreflightInv' /\ SelectInv' /\ PanicInv'
  BY <1>1 DEF EnterInv, PreflightInv, SelectInv, PanicInv
<1>5. DoneInv' /\ CtxInv'
  BY <1>1 DEF DoneInv, CtxInv, HandlerWhole, NothingRecorded
<1> QED
  BY <1>2, <1>3, <1>4, <1>5 DEF IndInv

\* It ends with one: Recovery's 500 or Timeout's 504.
LEMMA SelectAnswers ==
    ASSUME IndInv, ~dead, SelectPanic \/ SelectDeadline
    PROVE  IndInv'
<1> USE DEF Goroutines, Layers
<1>1. /\ TypeOK /\ HandlerInv /\ SelectInv /\ BodyInv /\ UseInv
      /\ serve = "select" /\ branch = "none"
      /\ UNCHANGED <<preflight, handler, ctx, status, recorded, sent, body>>
      /\ step["serve"] = "none" /\ NothingRecorded
  BY DEF IndInv, SelectInv, SelectPanic, SelectDeadline
<1>2. /\ UseHeaderMap("serve")
      /\ \/ /\ serve' = "recover" /\ branch' = "panic" /\ handler = "panicked"
            /\ Silent("handler")
            /\ step' = [step EXCEPT !["serve"] = "header"]
            /\ code' = [code EXCEPT !["serve"] = 500]
         \/ /\ serve' = "timeout" /\ branch' = "ctx" /\ ctx = "expired"
            /\ step' = [step EXCEPT !["serve"] = "header"]
            /\ code' = [code EXCEPT !["serve"] = 504]
  BY <1>1 DEF SelectPanic, SelectDeadline, StartAnswer, SelectInv, Waiting
<1>3. /\ late' \in BOOLEAN /\ dead' \in BOOLEAN
      /\ late' => late
      /\ dead' => dead \/ step["handler"] = "header" \/ handler = "limit"
  BY <1>1, <1>2, HeaderMapUse, OtherGoroutine DEF InHeaderMap, Over
<1>4. /\ step' \in [Goroutines -> Layers \cup {"none", "header", "commit", "body"}]
      /\ code' \in [Goroutines -> Codes]
      /\ step'["serve"] = "header" /\ step'["handler"] = step["handler"]
      /\ code'["handler"] = code["handler"]
      /\ code'["serve"] = IF branch' = "panic" THEN 500 ELSE 504
  BY <1>1, <1>2 DEF TypeOK, Codes
<1>5. TypeOK'
  BY <1>1, <1>2, <1>3, <1>4 DEF TypeOK
<1>6. BodyInv'
  <2>1. /\ Pending("handler")' = Pending("handler") /\ Pending("handler") \in {0, 1}
        /\ Pending("serve") = 1 /\ Pending("serve")' = 1 /\ Len(body) \in Nat
    BY <1>1, <1>4 DEF Pending, TypeOK
  <2> QED
    BY <1>1, <2>1 DEF BodyInv
<1>7. HandlerInv' /\ UseInv'
  BY <1>1, <1>2, <1>3, <1>4 DEF HandlerInv, UseInv, Silent
<1>8. EnterInv' /\ PreflightInv' /\ SelectInv' /\ DoneInv'
  BY <1>1, <1>2 DEF EnterInv, PreflightInv, SelectInv, DoneInv
<1>9. PanicInv'
  BY <1>1, <1>2, <1>4 DEF PanicInv, Silent, NothingRecorded
<1>10. CtxInv'
  <2>1. SUFFICES ASSUME branch' = "ctx" PROVE CtxInv'
    BY DEF CtxInv
  <2>2. sent = None \/ (handler \in {"answer", "returned"} /\ sent = code["handler"])
    BY <1>1 DEF TypeOK, SelectInv, Waiting, Silent, HandlerAnswering, HandlerWhole
  <2> QED
    BY <1>1, <1>2, <1>4, <2>1, <2>2 DEF CtxInv
<1> QED
  BY <1>5, <1>6, <1>7, <1>8, <1>9, <1>10 DEF IndInv

\* The middlewares report and net/http sends the response.
LEMMA Leaving ==
    ASSUME IndInv, ~dead, Answered \/ Report \/ Finish
    PROVE  IndInv'
<1> USE DEF Goroutines, Layers
<1>1. /\ TypeOK /\ HandlerInv
      /\ UNCHANGED <<preflight, handler, ctx, branch, step, code, status, body>>
  BY DEF IndInv, Answered, Report, Finish, writerVars
<1>2. \/ /\ serve = "timeout" /\ serve' = "meter" /\ step["serve"] = "none"
         /\ UNCHANGED <<recorded, sent>>
      \/ /\ serve = "recover" /\ serve' = "trace" /\ step["serve"] = "none"
         /\ UNCHANGED <<recorded, sent>>
      \/ /\ serve = "meter" /\ serve' = "log" /\ sent' = sent
         /\ recorded' = [recorded EXCEPT !["metrics"] = status["metrics"]]
      \/ /\ serve = "log" /\ serve' = "trace" /\ sent' = sent
         /\ recorded' = [recorded EXCEPT !["logger"] = status["logger"]]
      \/ /\ serve = "trace" /\ serve' = "finish" /\ sent' = sent
         /\ recorded' = [recorded EXCEPT !["tracing"] = status["tracing"]]
      \/ /\ serve = "finish" /\ serve' = "returned" /\ recorded' = recorded
         /\ sent' = IF sent = None THEN 200 ELSE sent
  BY DEF Answered, Report, Finish, writerVars
<1>3. recorded' \in [Layers -> Codes \cup {None}] /\ sent' \in Codes \cup {None}
  BY <1>1, <1>2 DEF TypeOK, Codes
<1>4. TypeOK' /\ HandlerInv' /\ UseInv'
  <2>1. /\ late' \in BOOLEAN /\ dead' \in BOOLEAN
        /\ late' => late
        /\ dead' => dead \/ (serve = "finish" /\ sent = None)
    <3>1. CASE UNCHANGED <<late, dead>>
      BY <1>1, <3>1 DEF TypeOK
    <3>2. CASE Finish /\ sent = None /\ UseHeaderMap("serve")
      BY <1>1, <3>2, HeaderMapUse DEF Finish, Over
    <3> QED
      BY <3>1, <3>2 DEF Answered, Report, Finish, writerVars
  <2>2. TypeOK'
    BY <1>1, <1>2, <1>3, <2>1 DEF TypeOK
  <2>3. HandlerInv'
    BY <1>1, <1>2 DEF HandlerInv
  <2>4. ASSUME serve = "finish", sent = None PROVE branch = "ctx"
    <3>1. PreflightInv /\ DoneInv /\ PanicInv /\ 204 # None /\ 500 # None
          /\ code["handler"] # None
      BY <1>1, PipelineAssumption DEF IndInv, TypeOK, Codes
    <3> QED
      BY <1>1, <2>4, <3>1 DEF TypeOK, PreflightInv, DoneInv, PanicInv, HandlerWhole
  <2>5. UseInv'
    BY <1>1, <1>2, <2>1, <2>4 DEF IndInv, UseInv, Over
  <2> QED
    BY <2>2, <2>3, <2>5
<1>5. EnterInv' /\ SelectInv'
  BY <1>2 DEF EnterInv, SelectInv
<1>6. BodyInv'
  <2>1. /\ Pending("handler")' = Pending("handler") /\ Pending("serve")' = Pending("serve")
    BY <1>1, <1>2 DEF Pending
  <2> QED
    BY <1>1, <2>1 DEF BodyInv, IndInv
<1>7. PreflightInv'
  <2>1. SUFFICES ASSUME branch = "none" PROVE PreflightInv'
    BY <1>1 DEF PreflightInv
  <2>2. PreflightInv /\ None # 204
    BY PipelineAssumption DEF IndInv, Codes
  <2> QED
    BY <1>1, <1>2, <2>1, <2>2 DEF PreflightInv, TypeOK
<1>8. DoneInv'
  <2>1. SUFFICES ASSUME branch = "done" PROVE DoneInv'
    BY <1>1 DEF DoneInv
  <2>2. DoneInv /\ code["handler"] # None
    BY <1>1, PipelineAssumption DEF IndInv, TypeOK
  <2> QED
    BY <1>1, <1>2, <2>1, <2>2 DEF DoneInv, HandlerWhole, TypeOK
<1>9. PanicInv'
  <2>1. SUFFICES ASSUME branch = "panic" PROVE PanicInv'
    BY <1>1 DEF PanicInv
  <2>2. PanicInv /\ None # 500
    BY PipelineAssumption DEF IndInv, Codes
  <2> QED
    BY <1>1, <1>2, <2>1, <2>2 DEF PanicInv, TypeOK
<1>10. CtxInv'
  <2>1. SUFFICES ASSUME branch = "ctx" PROVE CtxInv'
    BY <1>1 DEF CtxInv
  <2>2. CtxInv /\ 504 # None /\ code["handler"] # None
    BY <1>1, PipelineAssumption DEF IndInv, TypeOK, Codes
  <2>3. ctx = "expired" => sent' = sent
    BY <1>2, <2>1, <2>2 DEF CtxInv
  <2> QED
    BY <1>1, <1>2, <2>1, <2>2, <2>3 DEF CtxInv
<1> QED
  BY <1>4, <1>5, <1>6, <1>7, <1>8, <1>9, <1>10 DEF IndInv

--------------------------------------------------------------------------------
(* The invariant                                                              *)

\* The request enters the chain and nothing has been written.
LEMMA InitInv == Init => IndInv
<1> SUFFICES ASSUME Init PROVE IndInv
  OBVIOUS
<1> USE DEF Goroutines, Layers
<1>1. TypeOK
  <2>1. body \in Seq(Goroutines) /\ Len(body) <= 2
    BY DEF Init
  <2>2. preflight \in BOOLEAN /\ late \in BOOLEAN /\ dead \in BOOLEAN
    BY Zenon DEF Init
  <2>3. /\ step \in [Goroutines -> Layers \cup {"none", "header", "commit", "body"}]
        /\ code \in [Goroutines -> Codes] /\ status \in [Layers -> Codes]
        /\ recorded \in [Layers -> Codes \cup {None}] /\ sent \in Codes \cup {None}
    BY DEF Init, Codes
  <2> QED
    BY <2>1, <2>2, <2>3 DEF Init, TypeOK
<1>2. EnterInv /\ PreflightInv /\ SelectInv /\ DoneInv /\ PanicInv /\ CtxInv
  BY DEF Init, EnterInv, PreflightInv, SelectInv, DoneInv, PanicInv, CtxInv, Silent,
     NothingRecorded
<1>3. HandlerInv /\ UseInv
  BY DEF Init, HandlerInv, UseInv
<1>4. BodyInv
  BY DEF Init, BodyInv, Pending
<1> QED
  BY <1>1, <1>2, <1>3, <1>4 DEF IndInv

\* Every step keeps the invariant.
LEMMA NextInv == IndInv /\ [Next]_vars => IndInv'
<1> SUFFICES ASSUME IndInv, [Next]_vars PROVE IndInv'
  OBVIOUS
<1>1. CASE ServeStep
  BY <1>1, Entering, SelectLeaves, SelectAnswers, Leaving, ServeWrites DEF ServeStep
<1>2. CASE HandlerStep
  BY <1>2, HandlerMoves, HandlerWrites DEF HandlerStep
<1>3. CASE Deadline \/ ClientLeaves
  <2>1. /\ ctx = "live" /\ ctx' \in {"expired", "cancelled"} /\ ~dead
        /\ UNCHANGED <<preflight, serve, handler, branch, recorded>>
        /\ UNCHANGED <<step, code, status, sent, body, late, dead>>
    BY <1>3 DEF Deadline, ClientLeaves, writerVars
  <2>2. branch # "ctx" /\ UseInv'
    BY <2>1 DEF IndInv, HandlerInv, UseInv
  <2>3. TypeOK'
    BY <2>1 DEF IndInv, TypeOK
  <2>4. EnterInv' /\ PreflightInv' /\ SelectInv' /\ DoneInv' /\ PanicInv'
    BY <2>1 DEF IndInv, EnterInv, PreflightInv, SelectInv, DoneInv, PanicInv, Silent,
       NothingRecorded, Waiting, HandlerAnswering, HandlerWhole
  <2>5. CtxInv' /\ HandlerInv'
    BY <2>1, <2>2 DEF IndInv, CtxInv, HandlerInv
  <2>6. BodyInv'
    <3>1. Pending("handler")' = Pending("handler") /\ Pending("serve")' = Pending("serve")
      BY <2>1 DEF Pending
    <3> QED
      BY <2>1, <3>1 DEF IndInv, BodyInv
  <2> QED
    BY <2>2, <2>3, <2>4, <2>5, <2>6 DEF IndInv
<1>4. CASE UNCHANGED vars
  <2>1. UNCHANGED <<preflight, serve, handler, ctx, branch, recorded>>
        /\ UNCHANGED <<step, code, status, sent, body, late, dead>>
    BY <1>4 DEF vars
  <2>2. TypeOK' /\ EnterInv' /\ PreflightInv' /\ SelectInv' /\ DoneInv' /\ PanicInv'
    BY <2>1 DEF IndInv, TypeOK, EnterInv, PreflightInv, SelectInv, DoneInv, PanicInv, Silent,
       NothingRecorded, Waiting, HandlerAnswering, HandlerWhole
  <2>3. CtxInv' /\ HandlerInv' /\ UseInv'
    BY <2>1 DEF IndInv, CtxInv, HandlerInv, UseInv, Over
  <2>4. BodyInv'
    <3>1. Pending("handler")' = Pending("handler") /\ Pending("serve")' = Pending("serve")
      BY <2>1 DEF Pending
    <3> QED
      BY <2>1, <3>1 DEF IndInv, BodyInv
  <2> QED
    BY <2>2, <2>3, <2>4 DEF IndInv
<1> QED
  BY <1>1, <1>2, <1>3, <1>4 DEF Next

\* The invariant holds throughout.
LEMMA Inductive == Spec => []IndInv
<1> QED
  BY InitInv, NextInv, PTL DEF Spec

--------------------------------------------------------------------------------
(* Theorems                                                                   *)

\* The variables keep their types; in particular no goroutine writes two documents
\* to the body of a response.
THEOREM TypeCorrect == Spec => []TypeOK
<1> QED
  BY Inductive, PTL DEF IndInv

\* Timeout and Recovery: short of the end of the context the client gets one whole
\* answer; past the deadline it gets the 504's document; the ResponseWriter is used
\* late, and the header map by both goroutines, only in an abandoned request.
THEOREM AnswersIntact == Spec => []AnswerIntact
<1>1. ASSUME IndInv PROVE AnswerIntact
  <2>1. ASSUME Over, branch # "ctx" PROVE [sent |-> sent, body |-> body] = Expected
    <3>1. serve = "returned" /\ branch \in {"none", "done", "panic"}
      BY <1>1, <2>1 DEF IndInv, TypeOK, Over
    <3>2. CASE branch = "none"
      BY <1>1, <3>1, <3>2 DEF IndInv, PreflightInv, Expected
    <3>3. CASE branch = "done"
      BY <1>1, <3>1, <3>3 DEF IndInv, DoneInv, HandlerWhole, Expected
    <3>4. CASE branch = "panic"
      BY <1>1, <3>1, <3>4 DEF IndInv, PanicInv, Expected
    <3> QED
      BY <3>1, <3>2, <3>3, <3>4
  <2>2. ASSUME Over, branch = "ctx", ctx = "expired"
        PROVE  /\ sent = 504 \/ (handler \in {"answer", "returned"} /\ sent = code["handler"])
               /\ \E k \in 1 .. Len(body) : body[k] = "serve"
    BY <1>1, <2>2 DEF IndInv, CtxInv, Over
  <2> QED
    BY <1>1, <2>1, <2>2 DEF IndInv, UseInv, AnswerIntact
<1> QED
  BY Inductive, <1>1, PTL

\* Metrics, Logger and Tracing: in a request that was not abandoned each of them that
\* reports at all reports the status the client got.
THEOREM StatusesRecorded == Spec => []StatusRecorded
<1>1. ASSUME IndInv PROVE StatusRecorded
  <2>1. SUFFICES ASSUME Over, branch # "ctx"
                 PROVE  \A l \in Layers :
                          recorded[l] = IF l = "tracing" \/ branch = "done" THEN sent ELSE None
    BY <1>1 DEF StatusRecorded, IndInv, TypeOK
  <2>2. serve = "returned" /\ branch \in {"none", "done", "panic"}
    BY <1>1, <2>1 DEF IndInv, TypeOK, Over
  <2> QED
    BY <1>1, <2>2 DEF IndInv, PreflightInv, DoneInv, PanicInv, Layers
<1> QED
  BY Inductive, <1>1, PTL
================================================================================
