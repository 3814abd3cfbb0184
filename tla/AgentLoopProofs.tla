-------------------------- MODULE AgentLoopProofs --------------------------
(* Theorems about AgentLoop, and the RunSql in it, for every value of their *)
(* constants.                                                               *)
EXTENDS AgentLoop, TLAPS

-----------------------------------------------------------------------------
(* The query and its watchdog                                                *)

\* The lock is the watchdog's exactly while it strikes, done tells whether the
\* connection is given up, and a statement about to run has its limit.
Apart ==
    /\ lock = "watchdog" <=> timer = "striking"
    /\ done <=> query \in {"marked", "closed"}
    /\ timer = "striking" => ~done
    /\ query = "idle" => timer = "off"

Fits == query \in {"probed", "running"} => width * valueLimit <= ResultBytes

SqlInv == SqlTypeOK /\ Apart /\ Fits

\* What the query does to its variables.
SqlMoves == StartQuery \/ SqlStep \/ EndQuery \/ UNCHANGED sqlVars

\* A product of naturals grows with its factors.
LEMMA Grows ==
    ASSUME NEW a \in Nat, NEW b \in Nat, NEW c \in Nat, a <= b
    PROVE  a * c <= b * c
<1>1. PICK d \in Nat : b = a + d
  <2>1. b - a \in Nat /\ b = a + (b - a)
    OBVIOUS
  <2> QED BY <2>1
<1>2. d * c \in Nat /\ a * c \in Nat /\ b * c = a * c + d * c
  BY <1>1
<1> QED BY <1>2

\* The limit is positive, and a row of so many values within the budget.
LEMMA LimitFits ==
    ASSUME NEW w \in 1..MaxColumns
    PROVE  /\ RowValueLimit(w) \in Nat \ {0} /\ w * RowValueLimit(w) <= ResultBytes
           /\ RowValueLimit(0) \in Nat \ {0} /\ w * RowValueLimit(0) <= ResultBytes
<1> USE BytesAssumption
<1>1. w * MinValueBytes <= ResultBytes
  <2>1. w * MinValueBytes <= MaxColumns * MinValueBytes
    BY Grows
  <2>2. MaxColumns * MinValueBytes = MinValueBytes * MaxColumns
    OBVIOUS
  <2>3. w * MinValueBytes \in Nat /\ MinValueBytes * MaxColumns \in Nat
    OBVIOUS
  <2> QED BY <2>1, <2>2, <2>3
<1> DEFINE q == ResultBytes \div w
<1>2. q \in Nat /\ w * q <= ResultBytes
  OBVIOUS
<1>3. \A v \in Nat : v <= q => w * v <= ResultBytes
  <2> SUFFICES ASSUME NEW v \in Nat, v <= q PROVE w * v <= ResultBytes
    OBVIOUS
  <2>1. v * w <= q * w
    BY <1>2, Grows
  <2>2. v * w = w * v /\ q * w = w * q /\ w * v \in Nat /\ w * q \in Nat
    BY <1>2
  <2> QED BY <1>2, <2>1, <2>2
<1>4. RowValueLimit(0) = MinValueBytes
  BY DEF RowValueLimit
<1>5. RowValueLimit(w) = Most(MinValueBytes, Least(ValueBytes, q))
  BY DEF RowValueLimit
<1>6. Least(ValueBytes, q) \in Nat /\ Least(ValueBytes, q) <= q
  BY <1>2 DEF Least
<1> DEFINE v == Least(ValueBytes, q)
<1>7. RowValueLimit(w) = MinValueBytes \/ (RowValueLimit(w) = v /\ MinValueBytes <= v)
  BY <1>5, <1>6 DEF Most
<1> HIDE DEF q, v
<1>8. v \in Nat /\ w * v <= ResultBytes
  BY <1>3, <1>6 DEF v
<1> QED BY <1>1, <1>4, <1>7, <1>8

LEMMA Defaults == ValueBytes \in Nat \ {0} /\ 1 \in 1..MaxColumns
BY BytesAssumption

LEMMA SqlInitInv == SqlInit => SqlInv
BY Defaults DEF SqlInit, SqlInv, SqlTypeOK, Apart, Fits, Queries, Outcomes

\* Each step of the two threads keeps them apart and the row within the budget.
LEMMA SqlMovesInv == SqlInv /\ SqlMoves => SqlInv'
<1> SUFFICES ASSUME SqlInv, SqlMoves PROVE SqlInv'
  OBVIOUS
<1> USE DEF SqlInv, SqlTypeOK, Queries, Outcomes
<1>1. SqlTypeOK'
  <2>1. CASE StartQuery BY <2>1, BytesAssumption DEF StartQuery
  <2>2. CASE Probe \/ Execute BY <2>2 DEF Probe, Execute
  <2>3. CASE ProbeEnds BY <2>3, LimitFits DEF ProbeEnds
  <2>4. CASE ProbeRaises \/ QueryEnds \/ Interrupted
    BY <2>4 DEF ProbeRaises, QueryEnds, Interrupted
  <2>5. CASE StopTimer \/ MarkDone \/ Close BY <2>5 DEF StopTimer, MarkDone, Close
  <2>6. CASE Watchdog
    BY <2>6 DEF Watchdog, TimerFires, WatchdogLocks, WatchdogStrikes, Active
  <2>7. CASE EndQuery BY <2>7, Defaults DEF EndQuery
  <2>8. CASE UNCHANGED sqlVars BY <2>8 DEF sqlVars
  <2> QED BY <2>1, <2>2, <2>3, <2>4, <2>5, <2>6, <2>7, <2>8 DEF SqlMoves, SqlStep, Prompt
<1>2. Apart'
  <2>1. CASE StartQuery BY <2>1 DEF StartQuery, Apart
  <2>2. CASE Probe \/ ProbeEnds \/ ProbeRaises \/ Execute \/ QueryEnds \/ Interrupted
    BY <2>2 DEF Probe, ProbeEnds, ProbeRaises, Execute, QueryEnds, Interrupted, Apart
  <2>3. CASE StopTimer \/ MarkDone \/ Close BY <2>3 DEF StopTimer, MarkDone, Close, Apart
  <2>4. CASE Watchdog
    BY <2>4 DEF Watchdog, TimerFires, WatchdogLocks, WatchdogStrikes, Apart
  <2>5. CASE EndQuery BY <2>5 DEF EndQuery, Apart
  <2>6. CASE UNCHANGED sqlVars BY <2>6 DEF sqlVars, Apart
  <2> QED BY <2>1, <2>2, <2>3, <2>4, <2>5, <2>6 DEF SqlMoves, SqlStep, Prompt
<1>3. Fits'
  <2>1. CASE ProbeEnds
    <3>1. query' = "probed" /\ width' = width /\ width \in 1..MaxColumns
          /\ valueLimit' \in {RowValueLimit(width), RowValueLimit(0)}
      BY <2>1 DEF ProbeEnds
    <3> QED BY <3>1, LimitFits DEF Fits
  <2>2. CASE Execute BY <2>2 DEF Execute, Fits
  <2>3. CASE Watchdog
    BY <2>3 DEF Watchdog, TimerFires, WatchdogLocks, WatchdogStrikes, Fits
  <2>4. CASE UNCHANGED sqlVars BY <2>4 DEF sqlVars, Fits
  <2>5. CASE StartQuery \/ EndQuery \/ Probe \/ ProbeRaises \/ QueryEnds \/ Interrupted
             \/ StopTimer \/ MarkDone \/ Close
    BY <2>5 DEF StartQuery, EndQuery, Probe, ProbeRaises, QueryEnds, Interrupted, StopTimer,
      MarkDone, Close, Fits
  <2> QED BY <2>1, <2>2, <2>3, <2>4, <2>5 DEF SqlMoves, SqlStep, Prompt
<1> QED BY <1>1, <1>2, <1>3

LEMMA Contained == SqlInv => QueryIsContained
BY DEF SqlInv, Apart, Fits, QueryIsContained, InterruptsLiveConnection, RowFitsBudget

\* Every step of the turn leaves the query alone or is a step of it.
LEMMA StepsMoveSql == [Next]_vars => SqlMoves
BY DEF Next, Step, vars, SqlMoves, CallFails, Emit, Reply, ForceEmits, ForceFails, ReviewPasses,
  ReviewRevises, ToolRound, CallRejected, QueryStarts, Query, QueryReturns, LookupReturns,
  RoundEnds, LoopEnds, Synthesis, Correction, LastCorrection, Stamp, RetryFigure, Ship, Abandon

-----------------------------------------------------------------------------
(* The inductive invariant of the turn                                       *)

USE DEF setup, progress, tools, data, emission, critique, settled, shipping

\* Its answer is not settled yet.
Early == {"call", "tools", "query", "force", "review", "over", "synth", "last"}

\* Where the turn can be, and what the critic has left by then: no draft before
\* its verdict, the draft it saw after REVISE, and a query run since then is known.
Flow ==
    /\ pc \in {"call", "tools", "query", "force", "review", "over", "synth"} =>
          round < CorrectionIters
    /\ pc \in {"call", "tools", "query", "force", "review"} /\ ~tail => iter < MaxToolIters
    /\ pc \in {"force", "over", "figure"} => ~tail
    /\ pc = "query" => queue > 0
    /\ pc = "synth" => tail /\ draft = Empty
    /\ pc = "review" => ~critiqued /\ text \in Answers
    /\ pc \in Early =>
          /\ ~revised
          /\ IF critiqued THEN draft # Empty /\ draft = reviewed ELSE draft = Empty
    /\ (tail /\ pc \in {"call", "tools", "query"}) \/ pc = "last" => critiqued
    /\ draft # Empty => counted <= sqlLog /\ (counted < sqlLog => requeried)

\* The draft, or what may replace it.
Settled ==
    draft # Empty =>
        \/ text = draft /\ ~revised
        \/ revised /\ requeried /\ text \notin Rebuttals \cup {draft, Empty, Degraded}

Seen ==
    settings.critic /\ sqlLog > 0 /\ text # Empty => critiqued /\ (text = reviewed \/ revised)

\* The answer is settled and seen until it ships, and ships as it is or degraded.
Sound ==
    /\ pc \in {"settle", "figure", "ship"} => Settled /\ Seen
    /\ ShippedIsSettled /\ AnswerIsReviewed

\* What is paid for: the rounds, the forced emission, the review, the synthesis.
Paid == iter + round + (IF reprompted THEN 1 ELSE 0) + (IF critiqued THEN 1 ELSE 0)
            + (IF tail THEN 1 ELSE 0)

Budget ==
    /\ pc \in {"call", "force", "over", "last"} => calls <= Paid
    /\ pc \in {"tools", "query", "settle", "figure"} => calls <= Paid + 1
    /\ pc = "review" => calls <= IF tail THEN Paid ELSE Paid + 1
    /\ pc = "synth" => calls <= Paid - 1
    /\ calls <= IF tail THEN Paid + 1 ELSE Paid + 2

TurnInv == TurnTypeOK /\ Flow /\ Sound /\ Budget

Inv == TurnInv /\ SqlInv

\* The types of the turn, by what they are about.
PlaceOK ==
    /\ settings \in Settings /\ prior \in BOOLEAN /\ pc \in PCs /\ tail \in BOOLEAN
    /\ iter \in 0..MaxToolIters /\ round \in 0..CorrectionIters

CountsOK ==
    /\ queue \in 0..MaxCalls /\ fails \in Nat /\ sqlLog \in Nat /\ counted \in Nat /\ calls \in Nat

FlagsOK ==
    /\ erred \in BOOLEAN /\ looks \in BOOLEAN /\ escalated \in BOOLEAN /\ results \in BOOLEAN
    /\ requeried \in BOOLEAN /\ reprompted \in BOOLEAN /\ critiqued \in BOOLEAN
    /\ revised \in BOOLEAN /\ exhausted \in BOOLEAN /\ hero \in BOOLEAN

WordsOK ==
    /\ mode \in {"fence", "structured", "forced"}
    /\ draft \in Answers \cup {Empty} /\ reviewed \in Answers \cup {Empty}
    /\ text \in Texts \cup {Degraded}
    /\ evidence \in {"none", "supported", "unsupported"}

SentOK == sent \in Seq({"error", "clarify", "figure", "answer", "done"})

\* What a turn ends with.
LEMMA Terminal ==
    LET Events == {"error", "clarify", "figure", "answer", "done"} IN
    /\ <<"error", "done">> \in Seq(Events) /\ <<"clarify", "answer", "done">> \in Seq(Events)
    /\ <<"figure">> \o <<"answer", "done">> \in Seq(Events)
    /\ <<>> \o <<"answer", "done">> \in Seq(Events)
OBVIOUS

LEMMA TypeParts == TurnTypeOK <=> PlaceOK /\ CountsOK /\ FlagsOK /\ WordsOK /\ SentOK
BY DEF TurnTypeOK, PlaceOK, CountsOK, FlagsOK, WordsOK, SentOK

\* The texts are told apart.
LEMMA TextsApart ==
    /\ Ask \notin Answers /\ Empty \notin Answers /\ Ask # Empty
    /\ Degraded \notin Texts /\ Answers = Clean \cup Rebuttals
    /\ Texts = Answers \cup {Ask, Empty}
BY TurnAssumption DEF Texts, Answers

\* A failed or a clarifying turn has not answered.
LEMMA NotAnswered ==
    ASSUME sent' = <<"error", "done">> \/ sent' = <<"clarify", "answer", "done">> \/ pc' # "done"
    PROVE  ~Answered'
<1>1. CASE sent' = <<"error", "done">>
  <2>1. Len(sent') = 2 /\ sent'[1] = "error" /\ sent'[2] = "done"
    BY <1>1
  <2> QED BY <2>1 DEF Answered
<1>2. CASE sent' = <<"clarify", "answer", "done">>
  <2>1. sent'[1] = "clarify"
    BY <1>2
  <2> QED BY <2>1 DEF Answered
<1>3. CASE pc' # "done"
  BY <1>3 DEF Answered
<1> QED BY <1>1, <1>2, <1>3

LEMMA InitInv == Init => Inv
<1> SUFFICES ASSUME Init PROVE Inv
  OBVIOUS
<1>1. TurnTypeOK
  <2>1. PlaceOK
    <3>1. 0 \in 0..MaxToolIters /\ 0 \in 0..CorrectionIters
      BY TurnAssumption
    <3> QED BY <3>1 DEF Init, PlaceOK, PCs
  <2>2. CountsOK
    BY TurnAssumption DEF Init, CountsOK
  <2>3. FlagsOK
    BY DEF Init, FlagsOK
  <2>4. WordsOK
    BY TextsApart DEF Init, WordsOK
  <2>5. SentOK
    BY DEF Init, SentOK
  <2> QED BY <2>1, <2>2, <2>3, <2>4, <2>5, TypeParts
<1>2. Flow
  BY TurnAssumption DEF Init, Flow, Early
<1>3. Sound
  BY DEF Init, Sound, ShippedIsSettled, AnswerIsReviewed, Answered
<1>4. Budget
  BY TurnAssumption DEF Init, Budget, Paid
<1> QED BY <1>1, <1>2, <1>3, <1>4, SqlInitInv DEF Inv, TurnInv, Init

-----------------------------------------------------------------------------
(* Each step keeps it                                                        *)

LEMMA CallFailsInv ==
    ASSUME TurnInv, CallFails
    PROVE  TurnInv'
<1>1. TurnTypeOK'
  <2>1. PlaceOK'
    BY TypeParts, TurnAssumption DEF TurnInv, PlaceOK, Flow, PCs, CallFails, Failed, Requested
  <2>2. CountsOK'
    BY TypeParts, TurnAssumption DEF TurnInv, CountsOK, Flow, CallFails, Failed, Requested
  <2>3. FlagsOK'
    BY TypeParts DEF TurnInv, FlagsOK, CallFails, Failed, Requested
  <2>4. WordsOK'
    BY TypeParts, TextsApart DEF TurnInv, WordsOK, Flow, CallFails, Failed, Requested
  <2>5. SentOK'
    BY TypeParts, Terminal DEF TurnInv, SentOK, CallFails, Failed, Requested
  <2> QED BY <2>1, <2>2, <2>3, <2>4, <2>5 DEF TurnTypeOK, PlaceOK, CountsOK, FlagsOK, WordsOK,
    SentOK
<1>2. Flow'
  BY TurnAssumption, TextsApart DEF TurnInv, TurnTypeOK, Flow, Early, CallFails, Failed,
    Requested
<1>3. Sound'
  BY TextsApart, NotAnswered DEF TurnInv, TurnTypeOK, Flow, Early, Sound, Settled, Seen,
    ShippedIsSettled, AnswerIsReviewed, CallFails, Failed, Requested
<1>4. Budget'
  BY TurnAssumption DEF TurnInv, TurnTypeOK, Flow, Budget, Paid, CallFails, Failed, Requested
<1> QED BY <1>1, <1>2, <1>3, <1>4 DEF TurnInv

LEMMA EmitInv ==
    ASSUME TurnInv, NEW t \in Texts, Emit(t)
    PROVE  TurnInv'
<1>1. TurnTypeOK'
  <2>1. PlaceOK'
    BY TypeParts, TurnAssumption DEF TurnInv, PlaceOK, Flow, PCs, Emit, Asks, Clarify,
      Conclude, ToReview, Settle, Kept, Rebuts, Requested
  <2>2. CountsOK'
    BY TypeParts, TurnAssumption DEF TurnInv, CountsOK, Flow, Emit, Asks, Clarify, Conclude,
      ToReview, Settle, Kept, Rebuts, Requested
  <2>3. FlagsOK'
    BY TypeParts DEF TurnInv, FlagsOK, Emit, Asks, Clarify, Conclude, ToReview, Settle, Kept,
      Rebuts, Requested
  <2>4. WordsOK'
    BY TypeParts, TextsApart DEF TurnInv, WordsOK, Flow, Emit, Asks, Clarify, Conclude,
      ToReview, Settle, Kept, Rebuts, Requested
  <2>5. SentOK'
    BY TypeParts, Terminal DEF TurnInv, SentOK, Emit, Asks, Clarify, Conclude, ToReview,
      Settle, Kept, Rebuts, Requested
  <2> QED BY <2>1, <2>2, <2>3, <2>4, <2>5 DEF TurnTypeOK, PlaceOK, CountsOK, FlagsOK, WordsOK,
    SentOK
<1>2. Flow'
  BY TurnAssumption, TextsApart DEF TurnInv, TurnTypeOK, Flow, Early, Emit, Asks, Clarify,
    Conclude, ToReview, Settle, Kept, Rebuts, Requested
<1>3. Sound'
  BY TextsApart, NotAnswered DEF TurnInv, TurnTypeOK, Flow, Early, Sound, Settled, Seen,
    ShippedIsSettled, AnswerIsReviewed, Emit, Asks, Clarify, Conclude, ToReview, Settle, Kept,
    Rebuts, Requested
<1>4. Budget'
  BY TurnAssumption DEF TurnInv, TurnTypeOK, Flow, Budget, Paid, Emit, Asks, Clarify, Conclude,
    ToReview, Settle, Kept, Rebuts, Requested
<1> QED BY <1>1, <1>2, <1>3, <1>4 DEF TurnInv

LEMMA ReplyInv ==
    ASSUME TurnInv, NEW t \in Texts, Reply(t)
    PROVE  TurnInv'
<1>1. TurnTypeOK'
  <2>1. PlaceOK'
    BY TypeParts, TurnAssumption DEF TurnInv, PlaceOK, Flow, PCs, Reply, Asks, Clarify,
      ToForce, Conclude, ToReview, Settle, Kept, Rebuts, Requested
  <2>2. CountsOK'
    BY TypeParts, TurnAssumption DEF TurnInv, CountsOK, Flow, Reply, Asks, Clarify, ToForce,
      Conclude, ToReview, Settle, Kept, Rebuts, Requested
  <2>3. FlagsOK'
    BY TypeParts DEF TurnInv, FlagsOK, Reply, Asks, Clarify, ToForce, Conclude, ToReview,
      Settle, Kept, Rebuts, Requested
  <2>4. WordsOK'
    BY TypeParts, TextsApart DEF TurnInv, WordsOK, Flow, Reply, Asks, Clarify, ToForce,
      Conclude, ToReview, Settle, Kept, Rebuts, Requested
  <2>5. SentOK'
    BY TypeParts, Terminal DEF TurnInv, SentOK, Reply, Asks, Clarify, ToForce, Conclude,
      ToReview, Settle, Kept, Rebuts, Requested
  <2> QED BY <2>1, <2>2, <2>3, <2>4, <2>5 DEF TurnTypeOK, PlaceOK, CountsOK, FlagsOK, WordsOK,
    SentOK
<1>2. Flow'
  BY TurnAssumption, TextsApart DEF TurnInv, TurnTypeOK, Flow, Early, Reply, Asks, Clarify,
    ToForce, Conclude, ToReview, Settle, Kept, Rebuts, Requested
<1>3. Sound'
  BY TextsApart, NotAnswered DEF TurnInv, TurnTypeOK, Flow, Early, Sound, Settled, Seen,
    ShippedIsSettled, AnswerIsReviewed, Reply, Asks, Clarify, ToForce, Conclude, ToReview,
    Settle, Kept, Rebuts, Requested
<1>4. Budget'
  BY TurnAssumption DEF TurnInv, TurnTypeOK, Flow, Budget, Paid, Reply, Asks, Clarify, ToForce,
    Conclude, ToReview, Settle, Kept, Rebuts, Requested
<1> QED BY <1>1, <1>2, <1>3, <1>4 DEF TurnInv

LEMMA ForceEmitsInv ==
    ASSUME TurnInv, NEW t \in Texts, ForceEmits(t)
    PROVE  TurnInv'
<1>1. TurnTypeOK'
  <2>1. PlaceOK'
    BY TypeParts, TurnAssumption DEF TurnInv, PlaceOK, Flow, PCs, ForceEmits, Asks, Conclude,
      ToReview, Settle, Kept, Rebuts, Requested
  <2>2. CountsOK'
    BY TypeParts, TurnAssumption DEF TurnInv, CountsOK, Flow, ForceEmits, Asks, Conclude,
      ToReview, Settle, Kept, Rebuts, Requested
  <2>3. FlagsOK'
    BY TypeParts DEF TurnInv, FlagsOK, ForceEmits, Asks, Conclude, ToReview, Settle, Kept,
      Rebuts, Requested
  <2>4. WordsOK'
    BY TypeParts, TextsApart DEF TurnInv, WordsOK, Flow, ForceEmits, Asks, Conclude, ToReview,
      Settle, Kept, Rebuts, Requested
  <2>5. SentOK'
    BY TypeParts, Terminal DEF TurnInv, SentOK, ForceEmits, Asks, Conclude, ToReview, Settle,
      Kept, Rebuts, Requested
  <2> QED BY <2>1, <2>2, <2>3, <2>4, <2>5 DEF TurnTypeOK, PlaceOK, CountsOK, FlagsOK, WordsOK,
    SentOK
<1>2. Flow'
  BY TurnAssumption, TextsApart DEF TurnInv, TurnTypeOK, Flow, Early, ForceEmits, Asks,
    Conclude, ToReview, Settle, Kept, Rebuts, Requested
<1>3. Sound'
  BY TextsApart, NotAnswered DEF TurnInv, TurnTypeOK, Flow, Early, Sound, Settled, Seen,
    ShippedIsSettled, AnswerIsReviewed, ForceEmits, Asks, Conclude, ToReview, Settle, Kept,
    Rebuts, Requested
<1>4. Budget'
  BY TurnAssumption DEF TurnInv, TurnTypeOK, Flow, Budget, Paid, ForceEmits, Asks, Conclude,
    ToReview, Settle, Kept, Rebuts, Requested
<1> QED BY <1>1, <1>2, <1>3, <1>4 DEF TurnInv

LEMMA ForceFailsInv ==
    ASSUME TurnInv, ForceFails
    PROVE  TurnInv'
<1>1. TurnTypeOK'
  <2>1. PlaceOK'
    BY TypeParts, TurnAssumption DEF TurnInv, PlaceOK, Flow, PCs, ForceFails, NextCall,
      Requested
  <2>2. CountsOK'
    BY TypeParts, TurnAssumption DEF TurnInv, CountsOK, Flow, ForceFails, NextCall, Requested
  <2>3. FlagsOK'
    BY TypeParts DEF TurnInv, FlagsOK, ForceFails, NextCall, Requested
  <2>4. WordsOK'
    BY TypeParts, TextsApart DEF TurnInv, WordsOK, Flow, ForceFails, NextCall, Requested
  <2>5. SentOK'
    BY TypeParts, Terminal DEF TurnInv, SentOK, ForceFails, NextCall, Requested
  <2> QED BY <2>1, <2>2, <2>3, <2>4, <2>5 DEF TurnTypeOK, PlaceOK, CountsOK, FlagsOK, WordsOK,
    SentOK
<1>2. Flow'
  BY TurnAssumption, TextsApart DEF TurnInv, TurnTypeOK, Flow, Early, ForceFails, NextCall,
    Requested
<1>3. Sound'
  BY TextsApart, NotAnswered DEF TurnInv, TurnTypeOK, Flow, Early, Sound, Settled, Seen,
    ShippedIsSettled, AnswerIsReviewed, ForceFails, NextCall, Requested
<1>4. Budget'
  BY TurnAssumption DEF TurnInv, TurnTypeOK, Flow, Budget, Paid, ForceFails, NextCall, Requested
<1> QED BY <1>1, <1>2, <1>3, <1>4 DEF TurnInv

LEMMA ReviewPassesInv ==
    ASSUME TurnInv, ReviewPasses
    PROVE  TurnInv'
<1>1. TurnTypeOK'
  <2>1. PlaceOK'
    BY TypeParts, TurnAssumption DEF TurnInv, PlaceOK, Flow, PCs, ReviewPasses, Settle, Kept,
      Rebuts, Requested
  <2>2. CountsOK'
    BY TypeParts, TurnAssumption DEF TurnInv, CountsOK, Flow, ReviewPasses, Settle, Kept,
      Rebuts, Requested
  <2>3. FlagsOK'
    BY TypeParts DEF TurnInv, FlagsOK, ReviewPasses, Settle, Kept, Rebuts, Requested
  <2>4. WordsOK'
    BY TypeParts, TextsApart DEF TurnInv, WordsOK, Flow, ReviewPasses, Settle, Kept, Rebuts,
      Requested
  <2>5. SentOK'
    BY TypeParts, Terminal DEF TurnInv, SentOK, ReviewPasses, Settle, Kept, Rebuts, Requested
  <2> QED BY <2>1, <2>2, <2>3, <2>4, <2>5 DEF TurnTypeOK, PlaceOK, CountsOK, FlagsOK, WordsOK,
    SentOK
<1>2. Flow'
  BY TurnAssumption, TextsApart DEF TurnInv, TurnTypeOK, Flow, Early, ReviewPasses, Settle,
    Kept, Rebuts, Requested
<1>3. Sound'
  BY TextsApart, NotAnswered DEF TurnInv, TurnTypeOK, Flow, Early, Sound, Settled, Seen,
    ShippedIsSettled, AnswerIsReviewed, ReviewPasses, Settle, Kept, Rebuts, Requested
<1>4. Budget'
  BY TurnAssumption DEF TurnInv, TurnTypeOK, Flow, Budget, Paid, ReviewPasses, Settle, Kept,
    Rebuts, Requested
<1> QED BY <1>1, <1>2, <1>3, <1>4 DEF TurnInv

LEMMA ReviewRevisesInv ==
    ASSUME TurnInv, ReviewRevises
    PROVE  TurnInv'
<1>1. TurnTypeOK'
  <2>1. PlaceOK'
    BY TypeParts, TurnAssumption DEF TurnInv, PlaceOK, Flow, PCs, ReviewRevises, NextCall,
      Requested
  <2>2. CountsOK'
    BY TypeParts, TurnAssumption DEF TurnInv, CountsOK, Flow, ReviewRevises, NextCall,
      Requested
  <2>3. FlagsOK'
    BY TypeParts DEF TurnInv, FlagsOK, ReviewRevises, NextCall, Requested
  <2>4. WordsOK'
    BY TypeParts, TextsApart DEF TurnInv, WordsOK, Flow, ReviewRevises, NextCall, Requested
  <2>5. SentOK'
    BY TypeParts, Terminal DEF TurnInv, SentOK, ReviewRevises, NextCall, Requested
  <2> QED BY <2>1, <2>2, <2>3, <2>4, <2>5 DEF TurnTypeOK, PlaceOK, CountsOK, FlagsOK, WordsOK,
    SentOK
<1>2. Flow'
  BY TurnAssumption, TextsApart DEF TurnInv, TurnTypeOK, Flow, Early, ReviewRevises, NextCall,
    Requested
<1>3. Sound'
  BY TextsApart, NotAnswered DEF TurnInv, TurnTypeOK, Flow, Early, Sound, Settled, Seen,
    ShippedIsSettled, AnswerIsReviewed, ReviewRevises, NextCall, Requested
<1>4. Budget'
  BY TurnAssumption DEF TurnInv, TurnTypeOK, Flow, Budget, Paid, ReviewRevises, NextCall,
    Requested
<1> QED BY <1>1, <1>2, <1>3, <1>4 DEF TurnInv

LEMMA ToolRoundInv ==
    ASSUME TurnInv, NEW n \in 1..MaxCalls, ToolRound(n)
    PROVE  TurnInv'
<1>1. TurnTypeOK'
  <2>1. PlaceOK'
    BY TypeParts, TurnAssumption DEF TurnInv, PlaceOK, Flow, PCs, ToolRound, Requested
  <2>2. CountsOK'
    BY TypeParts, TurnAssumption DEF TurnInv, CountsOK, Flow, ToolRound, Requested
  <2>3. FlagsOK'
    BY TypeParts DEF TurnInv, FlagsOK, ToolRound, Requested
  <2>4. WordsOK'
    BY TypeParts, TextsApart DEF TurnInv, WordsOK, Flow, ToolRound, Requested
  <2>5. SentOK'
    BY TypeParts, Terminal DEF TurnInv, SentOK, ToolRound, Requested
  <2> QED BY <2>1, <2>2, <2>3, <2>4, <2>5 DEF TurnTypeOK, PlaceOK, CountsOK, FlagsOK, WordsOK,
    SentOK
<1>2. Flow'
  BY TurnAssumption, TextsApart DEF TurnInv, TurnTypeOK, Flow, Early, ToolRound, Requested
<1>3. Sound'
  BY TextsApart, NotAnswered DEF TurnInv, TurnTypeOK, Flow, Early, Sound, Settled, Seen,
    ShippedIsSettled, AnswerIsReviewed, ToolRound, Requested
<1>4. Budget'
  BY TurnAssumption DEF TurnInv, TurnTypeOK, Flow, Budget, Paid, ToolRound, Requested
<1> QED BY <1>1, <1>2, <1>3, <1>4 DEF TurnInv

LEMMA CallRejectedInv ==
    ASSUME TurnInv, NEW logs \in BOOLEAN, CallRejected(logs)
    PROVE  TurnInv'
<1>1. TurnTypeOK'
  <2>1. PlaceOK'
    BY TypeParts, TurnAssumption DEF TurnInv, PlaceOK, Flow, PCs, CallRejected
  <2>2. CountsOK'
    BY TypeParts, TurnAssumption DEF TurnInv, CountsOK, Flow, CallRejected
  <2>3. FlagsOK'
    BY TypeParts DEF TurnInv, FlagsOK, CallRejected
  <2>4. WordsOK'
    BY TypeParts, TextsApart DEF TurnInv, WordsOK, Flow, CallRejected
  <2>5. SentOK'
    BY TypeParts, Terminal DEF TurnInv, SentOK, CallRejected
  <2> QED BY <2>1, <2>2, <2>3, <2>4, <2>5 DEF TurnTypeOK, PlaceOK, CountsOK, FlagsOK, WordsOK,
    SentOK
<1>2. Flow'
  BY TurnAssumption, TextsApart DEF TurnInv, TurnTypeOK, Flow, Early, CallRejected
<1>3. Sound'
  BY TextsApart, NotAnswered DEF TurnInv, TurnTypeOK, Flow, Early, Sound, Settled, Seen,
    ShippedIsSettled, AnswerIsReviewed, CallRejected
<1>4. Budget'
  BY TurnAssumption DEF TurnInv, TurnTypeOK, Flow, Budget, Paid, CallRejected
<1> QED BY <1>1, <1>2, <1>3, <1>4 DEF TurnInv

LEMMA QueryStartsInv ==
    ASSUME TurnInv, NEW lookup \in BOOLEAN, QueryStarts(lookup)
    PROVE  TurnInv'
<1>1. TurnTypeOK'
  <2>1. PlaceOK'
    BY TypeParts, TurnAssumption DEF TurnInv, PlaceOK, Flow, PCs, QueryStarts
  <2>2. CountsOK'
    BY TypeParts, TurnAssumption DEF TurnInv, CountsOK, Flow, QueryStarts
  <2>3. FlagsOK'
    BY TypeParts DEF TurnInv, FlagsOK, QueryStarts
  <2>4. WordsOK'
    BY TypeParts, TextsApart DEF TurnInv, WordsOK, Flow, QueryStarts
  <2>5. SentOK'
    BY TypeParts, Terminal DEF TurnInv, SentOK, QueryStarts
  <2> QED BY <2>1, <2>2, <2>3, <2>4, <2>5 DEF TurnTypeOK, PlaceOK, CountsOK, FlagsOK, WordsOK,
    SentOK
<1>2. Flow'
  BY TurnAssumption, TextsApart DEF TurnInv, TurnTypeOK, Flow, Early, QueryStarts
<1>3. Sound'
  BY TextsApart, NotAnswered DEF TurnInv, TurnTypeOK, Flow, Early, Sound, Settled, Seen,
    ShippedIsSettled, AnswerIsReviewed, QueryStarts
<1>4. Budget'
  BY TurnAssumption DEF TurnInv, TurnTypeOK, Flow, Budget, Paid, QueryStarts
<1> QED BY <1>1, <1>2, <1>3, <1>4 DEF TurnInv

LEMMA QueryReturnsInv ==
    ASSUME TurnInv, QueryReturns
    PROVE  TurnInv'
<1>1. TurnTypeOK'
  <2>1. PlaceOK'
    BY TypeParts, TurnAssumption DEF TurnInv, PlaceOK, Flow, PCs, QueryReturns
  <2>2. CountsOK'
    BY TypeParts, TurnAssumption DEF TurnInv, CountsOK, Flow, QueryReturns
  <2>3. FlagsOK'
    BY TypeParts DEF TurnInv, FlagsOK, QueryReturns
  <2>4. WordsOK'
    BY TypeParts, TextsApart DEF TurnInv, WordsOK, Flow, QueryReturns
  <2>5. SentOK'
    BY TypeParts, Terminal DEF TurnInv, SentOK, QueryReturns
  <2> QED BY <2>1, <2>2, <2>3, <2>4, <2>5 DEF TurnTypeOK, PlaceOK, CountsOK, FlagsOK, WordsOK,
    SentOK
<1>2. Flow'
  BY TurnAssumption, TextsApart DEF TurnInv, TurnTypeOK, Flow, Early, QueryReturns
<1>3. Sound'
  BY TextsApart, NotAnswered DEF TurnInv, TurnTypeOK, Flow, Early, Sound, Settled, Seen,
    ShippedIsSettled, AnswerIsReviewed, QueryReturns
<1>4. Budget'
  BY TurnAssumption DEF TurnInv, TurnTypeOK, Flow, Budget, Paid, QueryReturns
<1> QED BY <1>1, <1>2, <1>3, <1>4 DEF TurnInv

LEMMA LookupReturnsInv ==
    ASSUME TurnInv, LookupReturns
    PROVE  TurnInv'
<1>1. TurnTypeOK'
  <2>1. PlaceOK'
    BY TypeParts, TurnAssumption DEF TurnInv, PlaceOK, Flow, PCs, LookupReturns
  <2>2. CountsOK'
    BY TypeParts, TurnAssumption DEF TurnInv, CountsOK, Flow, LookupReturns
  <2>3. FlagsOK'
    BY TypeParts DEF TurnInv, FlagsOK, LookupReturns
  <2>4. WordsOK'
    BY TypeParts, TextsApart DEF TurnInv, WordsOK, Flow, LookupReturns
  <2>5. SentOK'
    BY TypeParts, Terminal DEF TurnInv, SentOK, LookupReturns
  <2> QED BY <2>1, <2>2, <2>3, <2>4, <2>5 DEF TurnTypeOK, PlaceOK, CountsOK, FlagsOK, WordsOK,
    SentOK
<1>2. Flow'
  BY TurnAssumption, TextsApart DEF TurnInv, TurnTypeOK, Flow, Early, LookupReturns
<1>3. Sound'
  BY TextsApart, NotAnswered DEF TurnInv, TurnTypeOK, Flow, Early, Sound, Settled, Seen,
    ShippedIsSettled, AnswerIsReviewed, LookupReturns
<1>4. Budget'
  BY TurnAssumption DEF TurnInv, TurnTypeOK, Flow, Budget, Paid, LookupReturns
<1> QED BY <1>1, <1>2, <1>3, <1>4 DEF TurnInv

LEMMA RoundEndsInv ==
    ASSUME TurnInv, RoundEnds
    PROVE  TurnInv'
<1>1. TurnTypeOK'
  <2>1. PlaceOK'
    BY TypeParts, TurnAssumption DEF TurnInv, PlaceOK, Flow, PCs, RoundEnds, NextCall
  <2>2. CountsOK'
    BY TypeParts, TurnAssumption DEF TurnInv, CountsOK, Flow, RoundEnds, NextCall
  <2>3. FlagsOK'
    BY TypeParts DEF TurnInv, FlagsOK, RoundEnds, NextCall
  <2>4. WordsOK'
    BY TypeParts, TextsApart DEF TurnInv, WordsOK, Flow, RoundEnds, NextCall
  <2>5. SentOK'
    BY TypeParts, Terminal DEF TurnInv, SentOK, RoundEnds, NextCall
  <2> QED BY <2>1, <2>2, <2>3, <2>4, <2>5 DEF TurnTypeOK, PlaceOK, CountsOK, FlagsOK, WordsOK,
    SentOK
<1>2. Flow'
  BY TurnAssumption, TextsApart DEF TurnInv, TurnTypeOK, Flow, Early, RoundEnds, NextCall
<1>3. Sound'
  BY TextsApart, NotAnswered DEF TurnInv, TurnTypeOK, Flow, Early, Sound, Settled, Seen,
    ShippedIsSettled, AnswerIsReviewed, RoundEnds, NextCall
<1>4. Budget'
  BY TurnAssumption DEF TurnInv, TurnTypeOK, Flow, Budget, Paid, RoundEnds, NextCall
<1> QED BY <1>1, <1>2, <1>3, <1>4 DEF TurnInv

LEMMA LoopEndsInv ==
    ASSUME TurnInv, LoopEnds
    PROVE  TurnInv'
<1>1. TurnTypeOK'
  <2>1. PlaceOK'
    BY TypeParts, TurnAssumption DEF TurnInv, PlaceOK, Flow, PCs, LoopEnds, Conclude,
      ToReview, Settle, Kept, Rebuts
  <2>2. CountsOK'
    BY TypeParts, TurnAssumption DEF TurnInv, CountsOK, Flow, LoopEnds, Conclude, ToReview,
      Settle, Kept, Rebuts
  <2>3. FlagsOK'
    BY TypeParts DEF TurnInv, FlagsOK, LoopEnds, Conclude, ToReview, Settle, Kept, Rebuts
  <2>4. WordsOK'
    BY TypeParts, TextsApart DEF TurnInv, WordsOK, Flow, LoopEnds, Conclude, ToReview, Settle,
      Kept, Rebuts
  <2>5. SentOK'
    BY TypeParts, Terminal DEF TurnInv, SentOK, LoopEnds, Conclude, ToReview, Settle, Kept,
      Rebuts
  <2> QED BY <2>1, <2>2, <2>3, <2>4, <2>5 DEF TurnTypeOK, PlaceOK, CountsOK, FlagsOK, WordsOK,
    SentOK
<1>2. Flow'
  BY TurnAssumption, TextsApart DEF TurnInv, TurnTypeOK, Flow, Early, LoopEnds, Conclude,
    ToReview, Settle, Kept, Rebuts
<1>3. Sound'
  BY TextsApart, NotAnswered DEF TurnInv, TurnTypeOK, Flow, Early, Sound, Settled, Seen,
    ShippedIsSettled, AnswerIsReviewed, LoopEnds, Conclude, ToReview, Settle, Kept, Rebuts
<1>4. Budget'
  BY TurnAssumption DEF TurnInv, TurnTypeOK, Flow, Budget, Paid, LoopEnds, Conclude, ToReview,
    Settle, Kept, Rebuts
<1> QED BY <1>1, <1>2, <1>3, <1>4 DEF TurnInv

LEMMA SynthesisInv ==
    ASSUME TurnInv, NEW t \in Texts, Synthesis(t)
    PROVE  TurnInv'
<1>1. TurnTypeOK'
  <2>1. PlaceOK'
    BY TypeParts, TurnAssumption DEF TurnInv, PlaceOK, Flow, PCs, Synthesis, Asks, Clarify,
      Failed, Conclude, ToReview, Settle, Kept, Rebuts, Requested
  <2>2. CountsOK'
    BY TypeParts, TurnAssumption DEF TurnInv, CountsOK, Flow, Synthesis, Asks, Clarify,
      Failed, Conclude, ToReview, Settle, Kept, Rebuts, Requested
  <2>3. FlagsOK'
    BY TypeParts DEF TurnInv, FlagsOK, Synthesis, Asks, Clarify, Failed, Conclude, ToReview,
      Settle, Kept, Rebuts, Requested
  <2>4. WordsOK'
    BY TypeParts, TextsApart DEF TurnInv, WordsOK, Flow, Synthesis, Asks, Clarify, Failed,
      Conclude, ToReview, Settle, Kept, Rebuts, Requested
  <2>5. SentOK'
    BY TypeParts, Terminal DEF TurnInv, SentOK, Synthesis, Asks, Clarify, Failed, Conclude,
      ToReview, Settle, Kept, Rebuts, Requested
  <2> QED BY <2>1, <2>2, <2>3, <2>4, <2>5 DEF TurnTypeOK, PlaceOK, CountsOK, FlagsOK, WordsOK,
    SentOK
<1>2. Flow'
  BY TurnAssumption, TextsApart DEF TurnInv, TurnTypeOK, Flow, Early, Synthesis, Asks, Clarify,
    Failed, Conclude, ToReview, Settle, Kept, Rebuts, Requested
<1>3. Sound'
  BY TextsApart, NotAnswered DEF TurnInv, TurnTypeOK, Flow, Early, Sound, Settled, Seen,
    ShippedIsSettled, AnswerIsReviewed, Synthesis, Asks, Clarify, Failed, Conclude, ToReview,
    Settle, Kept, Rebuts, Requested
<1>4. Budget'
  BY TurnAssumption DEF TurnInv, TurnTypeOK, Flow, Budget, Paid, Synthesis, Asks, Clarify,
    Failed, Conclude, ToReview, Settle, Kept, Rebuts, Requested
<1> QED BY <1>1, <1>2, <1>3, <1>4 DEF TurnInv

LEMMA CorrectionInv ==
    ASSUME TurnInv, NEW t \in Texts, Correction(t)
    PROVE  TurnInv'
<1>1. TurnTypeOK'
  <2>1. PlaceOK'
    BY TypeParts, TurnAssumption DEF TurnInv, PlaceOK, Flow, PCs, Correction, Settle, Kept,
      Rebuts, Requested
  <2>2. CountsOK'
    BY TypeParts, TurnAssumption DEF TurnInv, CountsOK, Flow, Correction, Settle, Kept,
      Rebuts, Requested
  <2>3. FlagsOK'
    BY TypeParts DEF TurnInv, FlagsOK, Correction, Settle, Kept, Rebuts, Requested
  <2>4. WordsOK'
    BY TypeParts, TextsApart DEF TurnInv, WordsOK, Flow, Correction, Settle, Kept, Rebuts,
      Requested
  <2>5. SentOK'
    BY TypeParts, Terminal DEF TurnInv, SentOK, Correction, Settle, Kept, Rebuts, Requested
  <2> QED BY <2>1, <2>2, <2>3, <2>4, <2>5 DEF TurnTypeOK, PlaceOK, CountsOK, FlagsOK, WordsOK,
    SentOK
<1>2. Flow'
  BY TurnAssumption, TextsApart DEF TurnInv, TurnTypeOK, Flow, Early, Correction, Settle, Kept,
    Rebuts, Requested
<1>3. Sound'
  BY TextsApart, NotAnswered DEF TurnInv, TurnTypeOK, Flow, Early, Sound, Settled, Seen,
    ShippedIsSettled, AnswerIsReviewed, Correction, Settle, Kept, Rebuts, Requested
<1>4. Budget'
  BY TurnAssumption DEF TurnInv, TurnTypeOK, Flow, Budget, Paid, Correction, Settle, Kept,
    Rebuts, Requested
<1> QED BY <1>1, <1>2, <1>3, <1>4 DEF TurnInv

LEMMA LastCorrectionInv ==
    ASSUME TurnInv, NEW t \in Texts, LastCorrection(t)
    PROVE  TurnInv'
<1>1. TurnTypeOK'
  <2>1. PlaceOK'
    BY TypeParts, TurnAssumption DEF TurnInv, PlaceOK, Flow, PCs, LastCorrection, Settle,
      Kept, Rebuts, Requested
  <2>2. CountsOK'
    BY TypeParts, TurnAssumption DEF TurnInv, CountsOK, Flow, LastCorrection, Settle, Kept,
      Rebuts, Requested
  <2>3. FlagsOK'
    BY TypeParts DEF TurnInv, FlagsOK, LastCorrection, Settle, Kept, Rebuts, Requested
  <2>4. WordsOK'
    BY TypeParts, TextsApart DEF TurnInv, WordsOK, Flow, LastCorrection, Settle, Kept, Rebuts,
      Requested
  <2>5. SentOK'
    BY TypeParts, Terminal DEF TurnInv, SentOK, LastCorrection, Settle, Kept, Rebuts,
      Requested
  <2> QED BY <2>1, <2>2, <2>3, <2>4, <2>5 DEF TurnTypeOK, PlaceOK, CountsOK, FlagsOK, WordsOK,
    SentOK
<1>2. Flow'
  BY TurnAssumption, TextsApart DEF TurnInv, TurnTypeOK, Flow, Early, LastCorrection, Settle,
    Kept, Rebuts, Requested
<1>3. Sound'
  BY TextsApart, NotAnswered DEF TurnInv, TurnTypeOK, Flow, Early, Sound, Settled, Seen,
    ShippedIsSettled, AnswerIsReviewed, LastCorrection, Settle, Kept, Rebuts, Requested
<1>4. Budget'
  BY TurnAssumption DEF TurnInv, TurnTypeOK, Flow, Budget, Paid, LastCorrection, Settle, Kept,
    Rebuts, Requested
<1> QED BY <1>1, <1>2, <1>3, <1>4 DEF TurnInv

LEMMA StampInv ==
    ASSUME TurnInv, Stamp
    PROVE  TurnInv'
<1>1. TurnTypeOK'
  <2>1. PlaceOK'
    BY TypeParts, TurnAssumption DEF TurnInv, PlaceOK, Flow, PCs, Stamp, Stamped,
      FigureRequired
  <2>2. CountsOK'
    BY TypeParts, TurnAssumption DEF TurnInv, CountsOK, Flow, Stamp, Stamped, FigureRequired
  <2>3. FlagsOK'
    BY TypeParts DEF TurnInv, FlagsOK, Stamp, Stamped, FigureRequired
  <2>4. WordsOK'
    BY TypeParts, TextsApart DEF TurnInv, WordsOK, Flow, Stamp, Stamped, FigureRequired
  <2>5. SentOK'
    BY TypeParts, Terminal DEF TurnInv, SentOK, Stamp, Stamped, FigureRequired
  <2> QED BY <2>1, <2>2, <2>3, <2>4, <2>5 DEF TurnTypeOK, PlaceOK, CountsOK, FlagsOK, WordsOK,
    SentOK
<1>2. Flow'
  BY TurnAssumption, TextsApart DEF TurnInv, TurnTypeOK, Flow, Early, Stamp, Stamped,
    FigureRequired
<1>3. Sound'
  BY TextsApart, NotAnswered DEF TurnInv, TurnTypeOK, Flow, Early, Sound, Settled, Seen,
    ShippedIsSettled, AnswerIsReviewed, Stamp, Stamped, FigureRequired
<1>4. Budget'
  BY TurnAssumption DEF TurnInv, TurnTypeOK, Flow, Budget, Paid, Stamp, Stamped, FigureRequired
<1> QED BY <1>1, <1>2, <1>3, <1>4 DEF TurnInv

LEMMA RetryFigureInv ==
    ASSUME TurnInv, RetryFigure
    PROVE  TurnInv'
<1>1. TurnTypeOK'
  <2>1. PlaceOK'
    BY TypeParts, TurnAssumption DEF TurnInv, PlaceOK, Flow, PCs, RetryFigure, Requested
  <2>2. CountsOK'
    BY TypeParts, TurnAssumption DEF TurnInv, CountsOK, Flow, RetryFigure, Requested
  <2>3. FlagsOK'
    BY TypeParts DEF TurnInv, FlagsOK, RetryFigure, Requested
  <2>4. WordsOK'
    BY TypeParts, TextsApart DEF TurnInv, WordsOK, Flow, RetryFigure, Requested
  <2>5. SentOK'
    BY TypeParts, Terminal DEF TurnInv, SentOK, RetryFigure, Requested
  <2> QED BY <2>1, <2>2, <2>3, <2>4, <2>5 DEF TurnTypeOK, PlaceOK, CountsOK, FlagsOK, WordsOK,
    SentOK
<1>2. Flow'
  BY TurnAssumption, TextsApart DEF TurnInv, TurnTypeOK, Flow, Early, RetryFigure, Requested
<1>3. Sound'
  BY TextsApart, NotAnswered DEF TurnInv, TurnTypeOK, Flow, Early, Sound, Settled, Seen,
    ShippedIsSettled, AnswerIsReviewed, RetryFigure, Requested
<1>4. Budget'
  BY TurnAssumption DEF TurnInv, TurnTypeOK, Flow, Budget, Paid, RetryFigure, Requested
<1> QED BY <1>1, <1>2, <1>3, <1>4 DEF TurnInv

LEMMA ShipInv ==
    ASSUME TurnInv, Ship
    PROVE  TurnInv'
<1>1. TurnTypeOK'
  <2>1. PlaceOK'
    BY TypeParts, TurnAssumption DEF TurnInv, PlaceOK, Flow, PCs, Ship, Degrades
  <2>2. CountsOK'
    BY TypeParts, TurnAssumption DEF TurnInv, CountsOK, Flow, Ship, Degrades
  <2>3. FlagsOK'
    BY TypeParts DEF TurnInv, FlagsOK, Ship, Degrades
  <2>4. WordsOK'
    BY TypeParts, TextsApart DEF TurnInv, WordsOK, Flow, Ship, Degrades
  <2>5. SentOK'
    BY TypeParts, Terminal DEF TurnInv, SentOK, Ship, Degrades
  <2> QED BY <2>1, <2>2, <2>3, <2>4, <2>5 DEF TurnTypeOK, PlaceOK, CountsOK, FlagsOK, WordsOK,
    SentOK
<1>2. Flow'
  BY TurnAssumption, TextsApart DEF TurnInv, TurnTypeOK, Flow, Early, Ship, Degrades
<1>3. Sound'
  BY TextsApart, NotAnswered DEF TurnInv, TurnTypeOK, Flow, Early, Sound, Settled, Seen,
    ShippedIsSettled, AnswerIsReviewed, Ship, Degrades
<1>4. Budget'
  BY TurnAssumption DEF TurnInv, TurnTypeOK, Flow, Budget, Paid, Ship, Degrades
<1> QED BY <1>1, <1>2, <1>3, <1>4 DEF TurnInv

LEMMA AbandonInv ==
    ASSUME TurnInv, Abandon
    PROVE  TurnInv'
<1>1. TurnTypeOK'
  <2>1. PlaceOK'
    BY TypeParts, TurnAssumption DEF TurnInv, PlaceOK, Flow, PCs, Abandon
  <2>2. CountsOK'
    BY TypeParts, TurnAssumption DEF TurnInv, CountsOK, Flow, Abandon
  <2>3. FlagsOK'
    BY TypeParts DEF TurnInv, FlagsOK, Abandon
  <2>4. WordsOK'
    BY TypeParts, TextsApart DEF TurnInv, WordsOK, Flow, Abandon
  <2>5. SentOK'
    BY TypeParts, Terminal DEF TurnInv, SentOK, Abandon
  <2> QED BY <2>1, <2>2, <2>3, <2>4, <2>5 DEF TurnTypeOK, PlaceOK, CountsOK, FlagsOK, WordsOK,
    SentOK
<1>2. Flow'
  BY TurnAssumption, TextsApart DEF TurnInv, TurnTypeOK, Flow, Early, Abandon
<1>3. Sound'
  BY TextsApart, NotAnswered DEF TurnInv, TurnTypeOK, Flow, Early, Sound, Settled, Seen,
    ShippedIsSettled, AnswerIsReviewed, Abandon
<1>4. Budget'
  BY TurnAssumption DEF TurnInv, TurnTypeOK, Flow, Budget, Paid, Abandon
<1> QED BY <1>1, <1>2, <1>3, <1>4 DEF TurnInv

LEMMA QueryInv == TurnInv /\ (Query \/ UNCHANGED vars) => TurnInv'
<1> SUFFICES ASSUME TurnInv, UNCHANGED turnVars PROVE TurnInv'
  BY DEF Query, vars
<1>1. TurnTypeOK' /\ Flow' /\ Budget'
  BY DEF TurnInv, turnVars, TurnTypeOK, Flow, Early, Budget, Paid
<1>2. Sound'
  BY DEF TurnInv, turnVars, Sound, Settled, Seen, ShippedIsSettled, AnswerIsReviewed, Answered
<1> QED BY <1>1, <1>2 DEF TurnInv

\* The invariant holds in every reachable state: the argument every theorem
\* below rests on.
THEOREM Invariance == Spec => []Inv
<1>1. Inv /\ [Next]_vars => Inv'
  <2> SUFFICES ASSUME Inv, [Next]_vars PROVE Inv'
    OBVIOUS
  <2>1. TurnInv'
    BY CallFailsInv, EmitInv, ReplyInv, ForceEmitsInv, ForceFailsInv, ReviewPassesInv,
      ReviewRevisesInv, ToolRoundInv, CallRejectedInv, QueryStartsInv, QueryReturnsInv,
      LookupReturnsInv, RoundEndsInv, LoopEndsInv, SynthesisInv, CorrectionInv,
      LastCorrectionInv, StampInv, RetryFigureInv, ShipInv, AbandonInv, QueryInv
      DEF Inv, Next, Step
  <2>2. SqlInv'
    BY StepsMoveSql, SqlMovesInv DEF Inv
  <2> QED BY <2>1, <2>2 DEF Inv
<1> QED BY InitInv, <1>1, PTL DEF Spec

\* Every variable of the turn and of its query keeps its type, for any number of
\* rounds, of calls and of texts the model may write.
THEOREM TypeCorrect == Spec => []TypeOK
<1>1. Inv => TypeOK
  BY DEF Inv, TurnInv, SqlInv, TypeOK
<1> QED BY Invariance, <1>1, PTL

\* Wherever the critic's revision round falls, in the loop, stranded at its end or
\* past it: the draft ships, or a correction that earned its place.
THEOREM DraftOrCorrection == Spec => []ShippedIsSettled
<1>1. Inv => ShippedIsSettled
  BY DEF Inv, TurnInv, Sound
<1> QED BY Invariance, <1>1, PTL

\* With the critic on, no answer to a question that was queried ships unseen,
\* whatever forced emissions and syntheses came between.
THEOREM NothingUnseen == Spec => []AnswerIsReviewed
<1>1. Inv => AnswerIsReviewed
  BY DEF Inv, TurnInv, Sound
<1> QED BY Invariance, <1>1, PTL

\* The requests of a turn are bounded by its two caps.
THEOREM RequestsAreBounded == Spec => []RequestsBounded
<1>1. Inv => RequestsBounded
  BY TurnAssumption DEF Inv, TurnInv, TurnTypeOK, Budget, Paid, RequestsBounded
<1> QED BY Invariance, <1>1, PTL

\* However the watchdog and the statement run against each other, no interrupt
\* reaches a connection given up, and for any number of columns a row fits the
\* budget.
THEOREM QueriesAreContained == Spec => []QueryIsContained
<1>1. Inv => QueryIsContained
  BY Contained DEF Inv
<1> QED BY Invariance, <1>1, PTL
=============================================================================
