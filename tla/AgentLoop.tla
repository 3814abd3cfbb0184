------------------------------ MODULE AgentLoop ------------------------------
(***************************************************************************)
(* A turn of the agent, stream_agent() in backend/app/llm.py: the loop of  *)
(* model calls and tool rounds, the forced re-emission of a free-typed     *)
(* answer, the critic and its revision round, the tools-disabled synthesis *)
(* of an exhausted turn with a correction round of its own, and how the    *)
(* answer is settled.  The query of a tool call is RunSql, step by step.   *)
(*                                                                         *)
(* What the model says is one of a few texts: clean answers, rebuttals     *)
(* (which address the reviewer), a clarify fence, nothing.                 *)
(***************************************************************************)
EXTENDS RunSql, Sequences

CONSTANTS
    Clean, Rebuttals,  \* texts the model may answer with
    Ask,               \* a clarify fence
    Empty,             \* no text
    Degraded,          \* _EXHAUSTION_DEGRADE
    MaxToolIters,      \* llm_max_tool_iters
    CorrectionIters,   \* _CRITIC_CORRECTION_ITERS
    MaxCalls,          \* bound: tool calls of one reply
    Settings           \* the deployments: which of the features are on

Answers == Clean \cup Rebuttals
Texts   == Answers \cup {Ask, Empty}

ASSUME TurnAssumption ==
    /\ Clean \cap Rebuttals = {} /\ Ask \notin Answers
    /\ Empty \notin Answers \cup {Ask} /\ Degraded \notin Texts
    /\ MaxToolIters \in Nat \ {0} /\ CorrectionIters \in Nat \ {0} /\ MaxCalls \in Nat
    /\ Settings \subseteq [structured : BOOLEAN, critic : BOOLEAN, figures : BOOLEAN,
                           escalation : BOOLEAN]

VARIABLES
    settings, prior,      \* prior_results is not empty
    pc,                   \* what the turn awaits or does next
    tail,                 \* it is past the loop
    iter, round,          \* of the loop, of the correction round
    queue, erred,         \* tool calls left of a reply; one of them failed
    looks,                \* the query in flight is a discovery tool's
    fails, escalated,
    sqlLog, results,      \* queries logged; some query returned rows
    mode, reprompted,     \* emit_mode, emit_reprompted
    critiqued, draft, counted,
    text, exhausted, revised,
    hero, evidence,       \* a figure is there; what the grounding says
    sent,                 \* the terminal events
    calls,                \* history: requests to the provider
    reviewed,             \* history: the text the critic saw
    requeried             \* history: a query was run while there was a draft

setup    == <<settings, prior>>
progress == <<tail, iter, round>>
tools    == <<queue, erred, fails, escalated>>
data     == <<sqlLog, results, requeried>>
emission == <<mode, reprompted>>
critique == <<critiqued, draft, counted, reviewed>>
settled  == <<text, revised>>
shipping == <<hero, evidence, sent>>
turnVars == <<setup, pc, looks, progress, tools, data, emission, critique, settled, exhausted,
              shipping, calls>>
vars     == <<turnVars, sqlVars>>

PCs == {"call", "tools", "query", "force", "review", "over", "synth", "last", "settle",
        "figure", "ship", "done", "raised", "gone"}

TurnTypeOK ==
    /\ settings \in Settings /\ prior \in BOOLEAN
    /\ pc \in PCs /\ tail \in BOOLEAN
    /\ iter \in 0..MaxToolIters /\ round \in 0..CorrectionIters
    /\ queue \in 0..MaxCalls /\ erred \in BOOLEAN /\ looks \in BOOLEAN
    /\ fails \in Nat /\ escalated \in BOOLEAN
    /\ sqlLog \in Nat /\ results \in BOOLEAN /\ requeried \in BOOLEAN
    /\ mode \in {"fence", "structured", "forced"} /\ reprompted \in BOOLEAN
    /\ critiqued \in BOOLEAN /\ draft \in Answers \cup {Empty} /\ counted \in Nat
    /\ reviewed \in Answers \cup {Empty}
    /\ text \in Texts \cup {Degraded} /\ revised \in BOOLEAN /\ exhausted \in BOOLEAN
    /\ hero \in BOOLEAN /\ evidence \in {"none", "supported", "unsupported"}
    /\ sent \in Seq({"error", "clarify", "figure", "answer", "done"})
    /\ calls \in Nat

TypeOK == TurnTypeOK /\ SqlTypeOK

Init ==
    /\ settings \in Settings /\ prior \in BOOLEAN
    /\ pc = "call" /\ tail = FALSE /\ iter = 0 /\ round = 0
    /\ queue = 0 /\ erred = FALSE /\ looks = FALSE /\ fails = 0 /\ escalated = FALSE
    /\ sqlLog = 0 /\ results = FALSE /\ requeried = FALSE
    /\ mode = "fence" /\ reprompted = FALSE
    /\ critiqued = FALSE /\ draft = Empty /\ counted = 0 /\ reviewed = Empty
    /\ text = Empty /\ revised = FALSE /\ exhausted = FALSE
    /\ hero = FALSE /\ evidence = "none" /\ sent = <<>>
    /\ calls = 0
    /\ SqlInit

-----------------------------------------------------------------------------
(* How a reply is settled                                                    *)

Requested == calls' = calls + 1

\* It speaks to the reviewer, whom the reader has never met.
Rebuts(t) == t \in Rebuttals

\* Mutant: a revision is kept for being another text.
KeptIfChanged(t) == draft # Empty => t \notin {Empty, draft}

\* _settle_revision: a correction runs a query, says something else and does not
\* speak to the reviewer; anything else gives way to the draft.
Kept(t) == draft # Empty => sqlLog > counted /\ t \notin {Empty, draft} /\ ~Rebuts(t)

Settle(t) ==
    /\ text' = IF Kept(t) THEN t ELSE draft
    /\ revised' = (revised \/ (draft # Empty /\ Kept(t)))
    /\ pc' = "settle"

\* Mutant: a query that failed is nothing to review.
ReviewedIfRows(t) == settings.critic /\ ~critiqued /\ results /\ t # Empty

ToReview(t) == settings.critic /\ ~critiqued /\ sqlLog > 0 /\ t # Empty

Conclude(t) ==
    IF ToReview(t) THEN pc' = "review" /\ text' = t /\ UNCHANGED revised
    ELSE Settle(t)

\* Mutant: the loop runs once more than it may.
NextCallOnceMore ==
    IF tail
    THEN /\ round' = round + 1
         /\ pc' = IF round + 1 < CorrectionIters THEN "call" ELSE "last"
         /\ UNCHANGED <<tail, iter>>
    ELSE /\ iter' = iter + 1
         /\ pc' = IF iter < MaxToolIters THEN "call" ELSE "over"
         /\ UNCHANGED <<tail, round>>

\* The next request of the loop, or of the correction round past it.
NextCall ==
    IF tail
    THEN /\ round' = round + 1
         /\ pc' = IF round + 1 < CorrectionIters THEN "call" ELSE "last"
         /\ UNCHANGED <<tail, iter>>
    ELSE /\ iter' = iter + 1
         /\ pc' = IF iter + 1 < MaxToolIters THEN "call" ELSE "over"
         /\ UNCHANGED <<tail, round>>

\* The text has a clarify fence.
Asks(t) == t = Ask

Clarify ==
    /\ sent' = <<"clarify", "answer", "done">> /\ text' = Ask /\ pc' = "done"
    /\ UNCHANGED <<revised, hero, evidence>>

Failed ==
    /\ sent' = <<"error", "done">> /\ pc' = "done"
    /\ UNCHANGED <<settled, hero, evidence>>

-----------------------------------------------------------------------------
(* The loop                                                                  *)

\* The provider refuses, cannot be reached or does not answer in JSON.
CallFails ==
    /\ pc = "call" /\ ~tail
    /\ Failed /\ Requested
    /\ UNCHANGED <<setup, looks, progress, tools, data, emission, critique, exhausted, sqlVars>>

\* The model calls emit_answer or ask_clarification; an emission that says
\* nothing is a tool call that fails (ToolRound).
Emit(t) ==
    /\ pc = "call" /\ ~tail /\ settings.structured /\ t # Empty
    /\ IF Asks(t) THEN Clarify ELSE Conclude(t) /\ UNCHANGED shipping
    /\ mode' = "structured" /\ Requested
    /\ UNCHANGED <<setup, looks, progress, tools, data, reprompted, critique, exhausted, sqlVars>>

\* Mutant: every answer that is typed is asked for once more.
ToForceAgain(t) == settings.structured /\ mode # "structured" /\ t # Empty

\* An answer that was typed where an emission was asked for is asked for again,
\* once.
ToForce(t) == settings.structured /\ mode # "structured" /\ ~reprompted /\ t # Empty

Reply(t) ==
    /\ pc = "call" /\ ~tail
    /\ \/ Asks(t) /\ Clarify /\ UNCHANGED reprompted
       \/ /\ ~Asks(t) /\ ToForce(t)
          /\ pc' = "force" /\ text' = t /\ reprompted' = TRUE
          /\ UNCHANGED <<revised, shipping>>
       \/ ~Asks(t) /\ ~ToForce(t) /\ Conclude(t) /\ UNCHANGED <<reprompted, shipping>>
    /\ Requested
    /\ UNCHANGED <<setup, looks, progress, tools, data, mode, critique, exhausted, sqlVars>>

\* The answer that was typed is replaced by the emission, an empty one too.
ForceEmits(t) ==
    /\ pc = "force" /\ ~Asks(t)
    /\ mode' = "forced" /\ Conclude(t) /\ Requested
    /\ UNCHANGED <<setup, looks, progress, tools, data, reprompted, critique, exhausted, shipping,
                   sqlVars>>

\* It fails open: the model is told once more, and what it typed is dropped.
ForceFails ==
    /\ pc = "force"
    /\ NextCall /\ text' = Empty /\ Requested
    /\ UNCHANGED <<setup, looks, tools, data, emission, critique, revised, exhausted, shipping,
                   sqlVars>>

\* The critic passes the draft, or cannot be asked.
ReviewPasses ==
    /\ pc = "review"
    /\ Settle(text) /\ critiqued' = TRUE /\ reviewed' = text /\ Requested
    /\ UNCHANGED <<setup, looks, progress, tools, data, emission, draft, counted, exhausted, shipping,
                   sqlVars>>

\* REVISE: one more round, past the loop with the tools enabled again.
ReviewRevises ==
    /\ pc = "review"
    /\ critiqued' = TRUE /\ reviewed' = text
    /\ draft' = text /\ counted' = sqlLog
    /\ IF tail THEN pc' = "call" /\ UNCHANGED progress ELSE NextCall
    /\ text' = Empty /\ Requested
    /\ UNCHANGED <<setup, looks, tools, data, emission, revised, exhausted, shipping, sqlVars>>

-----------------------------------------------------------------------------
(* A round of tool calls, in the loop or in the correction round             *)

ToolRound(n) ==
    /\ pc = "call"
    /\ queue' = n /\ erred' = FALSE /\ pc' = "tools" /\ Requested
    /\ UNCHANGED <<setup, looks, progress, fails, escalated, data, emission, critique,
                   settled, exhausted, shipping, sqlVars>>

\* A call that never reaches SQLite: an unknown tool, arguments that do not
\* parse, a statement validate_sql rejects, which is logged all the same.
CallRejected(logs) ==
    /\ pc = "tools" /\ queue > 0
    /\ queue' = queue - 1 /\ erred' = TRUE
    /\ sqlLog' = IF logs THEN sqlLog + 1 ELSE sqlLog
    /\ requeried' = (requeried \/ (logs /\ draft # Empty))
    /\ UNCHANGED <<setup, looks, pc, progress, fails, escalated, results, emission,
                   critique, settled, exhausted, shipping, calls, sqlVars>>

\* run_sql is logged before it is run; the discovery tools run SQL of their own.
QueryStarts(lookup) ==
    /\ pc = "tools" /\ queue > 0
    /\ pc' = "query" /\ looks' = lookup /\ StartQuery
    /\ sqlLog' = IF lookup THEN sqlLog ELSE sqlLog + 1
    /\ requeried' = (requeried \/ (~lookup /\ draft # Empty))
    /\ UNCHANGED <<setup, progress, tools, results, emission, critique, settled, exhausted,
                   shipping, calls>>

Query ==
    /\ pc = "query" /\ SqlStep
    /\ UNCHANGED turnVars

\* SQL TOO LARGE is none of _FAIL_MARKERS.
QueryReturns ==
    /\ pc = "query" /\ ~looks /\ EndQuery
    /\ pc' = "tools" /\ queue' = queue - 1
    /\ results' = (results \/ outcome = "rows")
    /\ erred' = (erred \/ outcome \in {"error", "timeout"})
    /\ UNCHANGED <<setup, looks, progress, fails, escalated, sqlLog, requeried,
                   emission, critique, settled, exhausted, shipping, calls>>

\* dispatch() catches what run_sql's own tool raises, and of the others only bad
\* arguments: any error of their query leaves the generator.
LookupReturns ==
    /\ pc = "query" /\ looks /\ EndQuery
    /\ looks' = FALSE
    /\ IF outcome = "rows" THEN pc' = "tools" /\ queue' = queue - 1
       ELSE pc' = "raised" /\ UNCHANGED queue
    /\ UNCHANGED <<setup, progress, erred, fails, escalated, data, emission, critique,
                   settled, exhausted, shipping, calls>>

\* Two failing rounds in a row change the model, once; the correction round does
\* not count.
RoundEnds ==
    /\ pc = "tools" /\ queue = 0
    /\ IF tail THEN UNCHANGED <<fails, escalated>>
       ELSE /\ fails' = IF erred THEN fails + 1 ELSE 0
            /\ escalated' = (escalated \/ (fails' >= 2 /\ settings.escalation))
    /\ NextCall
    /\ UNCHANGED <<setup, looks, queue, erred, data, emission, critique, settled, exhausted, shipping,
                   calls, sqlVars>>

-----------------------------------------------------------------------------
(* Past the loop                                                             *)

\* A draft whose revision never came is shipped as it is.
LoopEnds ==
    /\ pc = "over"
    /\ tail' = TRUE /\ exhausted' = (draft = Empty)
    /\ IF draft = Empty THEN pc' = "synth" /\ UNCHANGED settled ELSE Conclude(draft)
    /\ UNCHANGED <<setup, looks, iter, round, tools, data, emission, critique, shipping, calls, sqlVars>>

\* The last answer, with the tools disabled; a failed call leaves no text.
Synthesis(t) ==
    /\ pc = "synth"
    /\ \/ t = Empty /\ Failed
       \/ Asks(t) /\ Clarify
       \/ t \in Answers /\ Conclude(t) /\ UNCHANGED shipping
    /\ Requested
    /\ UNCHANGED <<setup, looks, progress, tools, data, emission, critique, exhausted, sqlVars>>

\* What the correction round ends with: a reply, an emission, a failed call.
Correction(t) ==
    /\ pc = "call" /\ tail
    /\ \/ UNCHANGED mode
       \/ settings.structured /\ t # Empty /\ mode' = "structured"
    /\ Settle(t) /\ Requested
    /\ UNCHANGED <<setup, looks, progress, tools, data, reprompted, critique, exhausted, shipping,
                   sqlVars>>

\* Still calling tools after the cap: one reply without them.
LastCorrection(t) ==
    /\ pc = "last"
    /\ Settle(t) /\ Requested
    /\ UNCHANGED <<setup, looks, progress, tools, data, emission, critique, exhausted, shipping, sqlVars>>

-----------------------------------------------------------------------------
(* _finalize_answer and the terminal events                                  *)

CanGround == results \/ prior

\* A figure the answer lacks is asked for, on the loop's own path only.
FigureRequired == ~tail /\ settings.figures /\ ~hero' /\ text # Empty /\ (sqlLog > 0 \/ prior)

\* The figure or the table of the text may be borne out by the rows, or not; without
\* rows nothing is said of either.
Stamped ==
    /\ hero' \in BOOLEAN /\ evidence' \in {"none", "supported", "unsupported"}
    /\ (hero' \/ evidence' # "none") => text \in Answers
    /\ evidence' # "none" => CanGround

Stamp ==
    /\ pc = "settle" /\ Stamped
    /\ \/ pc' = "ship"
       \/ FigureRequired /\ pc' = "figure"
    /\ UNCHANGED <<setup, looks, progress, tools, data, emission, critique, settled, exhausted, sent,
                   calls, sqlVars>>

\* A figure that was asked for and cannot be grounded is suppressed.
RetryFigure ==
    /\ pc = "figure" /\ pc' = "ship" /\ Requested
    /\ \/ UNCHANGED <<hero, evidence>>
       \/ CanGround /\ hero' = TRUE /\ evidence' = "supported"
       \/ hero' = FALSE /\ evidence' = "unsupported"
    /\ UNCHANGED <<setup, looks, progress, tools, data, emission, critique, settled, exhausted, sent,
                   sqlVars>>

Degrades == tail /\ exhausted /\ evidence = "unsupported"

Ship ==
    /\ pc = "ship" /\ pc' = "done"
    /\ text' = IF Degrades THEN Degraded ELSE text
    /\ hero' = (hero /\ ~Degrades)
    /\ sent' = (IF hero' THEN <<"figure">> ELSE <<>>) \o <<"answer", "done">>
    /\ UNCHANGED <<setup, looks, progress, tools, data, emission, critique, revised, exhausted,
                   evidence, calls, sqlVars>>

\* The client is gone: the generator unwinds at an await, but not out of the
\* thread a query runs in.
Abandon ==
    /\ pc \notin {"query", "done", "raised", "gone"}
    /\ pc' = "gone"
    /\ UNCHANGED <<setup, looks, progress, tools, data, emission, critique, settled, exhausted,
                   shipping, calls, sqlVars>>

Step ==
    \/ CallFails
    \/ \E t \in Texts : \/ Emit(t) \/ Reply(t) \/ ForceEmits(t) \/ Synthesis(t)
                        \/ Correction(t) \/ LastCorrection(t)
    \/ ForceFails \/ ReviewPasses \/ ReviewRevises
    \/ \E n \in 1..MaxCalls : ToolRound(n)
    \/ \E logs \in BOOLEAN : CallRejected(logs)
    \/ \E lookup \in BOOLEAN : QueryStarts(lookup)
    \/ QueryReturns \/ LookupReturns \/ RoundEnds \/ LoopEnds
    \/ Stamp \/ RetryFigure \/ Ship

Next == Step \/ Query \/ Abandon

\* Every request has a timeout and every step of the code is taken; the
\* statement itself may run for ever, and nobody has to leave.
Spec == Init /\ [][Next]_vars /\ WF_vars(Step) /\ SqlFairness
-----------------------------------------------------------------------------
Answered == pc = "done" /\ "answer" \in {sent[i] : i \in 1..Len(sent)} /\ sent[1] # "clarify"

\* After the critic's REVISE the draft ships, unless a reply that ran a query in
\* the meantime, says something else and does not speak to the reviewer replaced
\* it, in the loop, stranded at its end or past it; only an answer of an
\* exhausted turn may give way to the apology, never the loop's draft.
ShippedIsSettled ==
    Answered /\ draft # Empty =>
        \/ text = draft /\ ~revised
        \/ revised /\ requeried /\ text \notin Rebuttals \cup {draft, Empty, Degraded}
        \/ text = Degraded /\ exhausted

\* No answer to a question that was queried ships unseen by the critic: it is the
\* text the critic saw or what settled its finding (llm.py:1481-1487).
AnswerIsReviewed ==
    Answered /\ settings.critic /\ sqlLog > 0 /\ text \notin {Empty, Degraded} =>
        critiqued /\ (text = reviewed \/ revised)

\* A turn makes a bounded number of requests, whatever the model does: the
\* loop's, one forced emission, one review, and past the loop the synthesis, the
\* correction round and its last reply.
RequestsBounded == calls <= MaxToolIters + CorrectionIters + 4

\* Every turn ends or is abandoned, unless a query of its runs unwatched.
TurnEnds == <>(pc \in {"done", "raised", "gone"} \/ Unwatched)

\* "Every exit from stream_agent yields a terminal `done` carrying the result"
\* (routers/chat.py:636-638).
EveryExitIsTold == pc \in {"done", "raised"} => "done" \in {sent[i] : i \in 1..Len(sent)}

\* A clarify fence never ships as the text of an answer (llm.py:580-585).
ClarifyIsStripped == Answered => text # Ask
=============================================================================
