------------------------------- MODULE RunSql -------------------------------
(***************************************************************************)
(* One call of run_sql, backend/app/tools/sql.py: the statement the model  *)
(* wrote, run on a read-only connection by a worker thread, against the    *)
(* watchdog thread that interrupts it after sql_timeout_seconds.           *)
(*                                                                         *)
(* sqlite3_interrupt() only reaches a statement that is active when it is  *)
(* called: what has become of it is a variable of its own.                 *)
(***************************************************************************)
EXTENDS Integers

CONSTANTS
    ResultBytes,    \* SQL_MAX_RESULT_BYTES
    ValueBytes,     \* SQL_MAX_VALUE_BYTES
    MinValueBytes,  \* _MIN_VALUE_BYTES
    MaxColumns,     \* SQLITE_LIMIT_COLUMN of the build
    Widths          \* bound: the numbers of columns a statement has

ASSUME BytesAssumption ==
    /\ ResultBytes \in Nat \ {0} /\ ValueBytes \in Nat \ {0} /\ MinValueBytes \in Nat \ {0}
    /\ MaxColumns \in Nat \ {0}
    /\ MinValueBytes * MaxColumns <= ResultBytes
    /\ Widths \subseteq 1..MaxColumns

VARIABLES
    query,       \* where the worker is
    width,       \* the columns the statement really has
    valueLimit,  \* SQLITE_LIMIT_LENGTH of its connection
    timer,       \* the watchdog: off, armed, due, striking
    lock,        \* who holds the lock of the two
    timedOut, done,
    hit,         \* an interrupt has reached the active statement
    outcome

sqlVars == <<query, width, valueLimit, timer, lock, timedOut, done, hit, outcome>>

Queries  == {"idle", "armed", "probing", "probed", "running", "ending", "stopped",
             "marked", "closed"}
Outcomes == {"none", "rows", "too_large", "error", "timeout"}

SqlTypeOK ==
    /\ query \in Queries /\ width \in 1..MaxColumns
    /\ valueLimit \in Nat \ {0}
    /\ timer \in {"off", "armed", "due", "striking"}
    /\ lock \in {"free", "watchdog"}
    /\ timedOut \in BOOLEAN /\ done \in BOOLEAN /\ hit \in BOOLEAN
    /\ outcome \in Outcomes

SqlInit ==
    /\ query = "idle" /\ width = 1 /\ valueLimit = ValueBytes
    /\ timer = "off" /\ lock = "free"
    /\ timedOut = FALSE /\ done = FALSE /\ hit = FALSE /\ outcome = "none"

Least(a, b) == IF a < b THEN a ELSE b
Most(a, b)  == IF a < b THEN b ELSE a

\* What one value may measure so that a row of ncols of them fits the budget;
\* 0 columns when the probe could not tell.
RowValueLimit(ncols) ==
    IF ncols = 0 THEN MinValueBytes
    ELSE Most(MinValueBytes, Least(ValueBytes, ResultBytes \div ncols))

Active == query \in {"probing", "running"}

-----------------------------------------------------------------------------
(* The worker thread                                                         *)

\* The statement is validated, the connection open and the timer started.
StartQuery ==
    /\ query = "idle"
    /\ query' = "armed" /\ timer' = "armed" /\ width' \in Widths
    /\ UNCHANGED <<valueLimit, lock, timedOut, done, hit, outcome>>

Probe ==
    /\ query = "armed" /\ query' = "probing"
    /\ UNCHANGED <<width, valueLimit, timer, lock, timedOut, done, hit, outcome>>

\* LIMIT 0 tells the columns, or does not: the wrapped statement may nest too
\* deep.  An interrupt that came too late for the probe is gone with it.
ProbeEnds ==
    /\ query = "probing" /\ query' = "probed"
    /\ \/ valueLimit' = RowValueLimit(width)
       \/ ~timedOut /\ valueLimit' = RowValueLimit(0)
    /\ hit' = FALSE
    /\ UNCHANGED <<width, timer, lock, timedOut, done, outcome>>

\* An error of the probe after the watchdog struck is the watchdog's.
ProbeRaises ==
    /\ query = "probing" /\ timedOut
    /\ query' = "ending" /\ outcome' = "timeout"
    /\ UNCHANGED <<width, valueLimit, timer, lock, timedOut, done, hit>>

Execute ==
    /\ query = "probed" /\ query' = "running"
    /\ UNCHANGED <<width, valueLimit, timer, lock, timedOut, done, hit, outcome>>

\* The rows are read, one is too large or they are too many bytes, or SQLite
\* reports an error, which is the watchdog's when it has struck.
QueryEnds ==
    /\ query = "running" /\ query' = "ending"
    /\ outcome' \in {"rows", "too_large", IF timedOut THEN "timeout" ELSE "error"}
    /\ UNCHANGED <<width, valueLimit, timer, lock, timedOut, done, hit>>

Interrupted ==
    /\ query = "running" /\ hit
    /\ query' = "ending" /\ outcome' = "timeout"
    /\ UNCHANGED <<width, valueLimit, timer, lock, timedOut, done, hit>>

\* Timer.cancel() has no effect once the timer's thread is past its wait.
StopTimer ==
    /\ query = "ending" /\ query' = "stopped"
    /\ timer' = IF timer = "armed" THEN "off" ELSE timer
    /\ UNCHANGED <<width, valueLimit, lock, timedOut, done, hit, outcome>>

\* Mutant: done is set without the lock.
MarkDoneUnlocked ==
    /\ query = "stopped" /\ query' = "marked" /\ done' = TRUE
    /\ UNCHANGED <<width, valueLimit, timer, lock, timedOut, hit, outcome>>

MarkDone ==
    /\ query = "stopped" /\ lock = "free"
    /\ query' = "marked" /\ done' = TRUE
    /\ UNCHANGED <<width, valueLimit, timer, lock, timedOut, hit, outcome>>

Close ==
    /\ query = "marked" /\ query' = "closed"
    /\ UNCHANGED <<width, valueLimit, timer, lock, timedOut, done, hit, outcome>>

\* The call is back.  Its lock and its events were its own: a watchdog still to
\* come will find done set.
EndQuery ==
    /\ query = "closed" /\ query' = "idle"
    /\ width' = 1 /\ valueLimit' = ValueBytes /\ timer' = "off" /\ lock' = "free"
    /\ timedOut' = FALSE /\ done' = FALSE /\ hit' = FALSE /\ outcome' = "none"

-----------------------------------------------------------------------------
(* The watchdog                                                              *)

TimerFires ==
    /\ timer = "armed" /\ timer' = "due"
    /\ UNCHANGED <<query, width, valueLimit, lock, timedOut, done, hit, outcome>>

WatchdogLocks ==
    /\ timer = "due" /\ lock = "free"
    /\ IF done THEN timer' = "off" /\ UNCHANGED lock
       ELSE timer' = "striking" /\ lock' = "watchdog"
    /\ UNCHANGED <<query, width, valueLimit, timedOut, done, hit, outcome>>

\* Mutant: the lock is not given back.
WatchdogStrikesHolding ==
    /\ timer = "striking" /\ timer' = "off"
    /\ timedOut' = TRUE /\ hit' = (hit \/ Active)
    /\ UNCHANGED <<query, width, valueLimit, lock, done, outcome>>

WatchdogStrikes ==
    /\ timer = "striking" /\ timer' = "off" /\ lock' = "free"
    /\ timedOut' = TRUE /\ hit' = (hit \/ Active)
    /\ UNCHANGED <<query, width, valueLimit, done, outcome>>

\* Everything but the end of the statement itself, which may run for ever.
Prompt   == \/ Probe \/ ProbeEnds \/ ProbeRaises \/ Execute \/ Interrupted
            \/ StopTimer \/ MarkDone \/ Close
Watchdog == TimerFires \/ WatchdogLocks \/ WatchdogStrikes
SqlStep  == Prompt \/ QueryEnds \/ Watchdog

SqlFairness == WF_sqlVars(Prompt) /\ WF_sqlVars(Watchdog)

-----------------------------------------------------------------------------
\* The timer has fired at a moment when no statement was active, and it fires
\* only once.
Unwatched == query \in {"probed", "running"} /\ timer = "off" /\ ~hit

\* con.interrupt() is never called on a connection that is closed or about to
\* be: the event and the lock keep the two threads apart (sql.py:388-392).
InterruptsLiveConnection == timer = "striking" => query \notin {"idle", "marked", "closed"}

\* Whatever the probe could tell, one row of the statement cannot exceed the
\* budget of the whole result (sql.py:434-447).
RowFitsBudget == query = "running" => width * valueLimit <= ResultBytes

\* What a query may do to the process it runs in: neither of its two threads
\* touches a connection the other has given up, and no row of it outgrows memory.
QueryIsContained == InterruptsLiveConnection /\ RowFitsBudget
=============================================================================
