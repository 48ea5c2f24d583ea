--------------------------- MODULE UpstreamFlush ---------------------------
(***************************************************************************)
(* Counts of upstream calls on their way from memory to the durable store. *)
(*                                                                         *)
(* Calls are counted in memory.  Once an interval a request drains the     *)
(* buffer into one write and waits for it for RECORD_TIMEOUT_MS at most;   *)
(* the write goes on after that.  Only a write that was rejected gives its *)
(* counts back.  A shutdown waits for the write under way, then writes the *)
(* rest.                                                                   *)
(***************************************************************************)
EXTENDS Integers, Functions

CONSTANTS
    Writes,         \* writes under way at the same time
    FlushInterval,  \* UPSTREAM_FLUSH_INTERVAL_MS
    MaxCalls,       \* bound: calls that are counted
    LastFlush,      \* bound: the clock
    NoWrite

ASSUME FlushAssumption ==
    /\ FlushInterval \in Nat /\ MaxCalls \in Nat /\ LastFlush \in Nat /\ NoWrite \notin Writes

VARIABLES
    clock,
    made,        \* observed: upstream calls that were made
    pending,      \* the buffer
    write,        \* write[w]: the counts it carries, 0 when it is over
    inFlight,     \* the write the service remembers
    lastFlushAt,
    waiting,      \* the writes a request waits for
    stored,       \* the store
    process       \* "up", "waiting" for the write under way, "writing" the rest, "gone"

flushVars == <<clock, made, pending, write, inFlight, lastFlushAt, waiting, stored, process>>

FlushInit ==
    /\ clock = 0
    /\ made = 0
    /\ pending = 0
    /\ write = [w \in Writes |-> 0]
    /\ inFlight = NoWrite
    /\ lastFlushAt = 0
    /\ waiting = {}
    /\ stored = 0
    /\ process = "up"

RecordUpstream ==
    /\ process # "gone"
    /\ made < MaxCalls
    /\ made' = made + 1
    /\ pending' = pending + 1
    /\ UNCHANGED <<clock, write, inFlight, lastFlushAt, waiting, stored, process>>

\* write: drains the buffer; nothing is sent when it is empty.
StartWrite ==
    /\ lastFlushAt' = clock
    /\ IF pending = 0
       THEN UNCHANGED <<pending, write, inFlight, waiting>>
       ELSE \E w \in Writes :
              /\ write[w] = 0
              /\ write' = [write EXCEPT ![w] = pending]
              /\ inFlight' = w
              /\ pending' = 0
              /\ waiting' = IF process = "up" THEN waiting \cup {w} ELSE waiting

Busy == inFlight # NoWrite

FlushIfDue ==
    /\ process = "up"
    /\ ~Busy
    /\ clock - lastFlushAt >= FlushInterval
    /\ StartWrite
    /\ UNCHANGED <<clock, made, stored, process>>

Forgotten(w) == IF inFlight = w THEN NoWrite ELSE inFlight

WriteLands(w) ==
    /\ write[w] # 0
    /\ stored' = stored + write[w]
    /\ write' = [write EXCEPT ![w] = 0]
    /\ inFlight' = Forgotten(w)
    /\ waiting' = waiting \ {w}
    /\ UNCHANGED <<clock, made, pending, lastFlushAt, process>>

\* A rejected write gives its counts back, to a process that is still there.
Restored(n) == pending + n

WriteRejected(w) ==
    /\ write[w] # 0
    /\ write' = [write EXCEPT ![w] = 0]
    /\ pending' = Restored(write[w])
    /\ inFlight' = Forgotten(w)
    /\ waiting' = waiting \ {w}
    /\ UNCHANGED <<clock, made, lastFlushAt, stored, process>>

\* waitForWrite gives up waiting, not the write.
AfterWaitingRestored == pending + SumFunction(write)
AfterWaiting == pending

WaitTimesOut(w) ==
    /\ w \in waiting
    /\ waiting' = waiting \ {w}
    /\ pending' = AfterWaiting
    /\ UNCHANGED <<clock, made, write, inFlight, lastFlushAt, stored, process>>

\* SIGTERM: the write under way is waited for, up to its time limit; then the rest is
\* written, and waited for likewise.
Shutdown ==
    /\ process = "up"
    /\ process' = "waiting"
    /\ UNCHANGED <<clock, made, pending, write, inFlight, lastFlushAt, waiting, stored>>

LastWrite ==
    /\ process = "waiting"
    /\ StartWrite
    /\ process' = "writing"
    /\ UNCHANGED <<clock, made, stored>>

Exit ==
    /\ process = "writing"
    /\ process' = "gone"
    /\ UNCHANGED <<clock, made, pending, write, inFlight, lastFlushAt, waiting, stored>>

FlushTick ==
    /\ clock < LastFlush
    /\ clock' = clock + 1
    /\ UNCHANGED <<made, pending, write, inFlight, lastFlushAt, waiting, stored, process>>

FlushNext ==
    \/ RecordUpstream \/ FlushIfDue
    \/ \E w \in Writes : WriteLands(w) \/ WriteRejected(w) \/ WaitTimesOut(w)
    \/ Shutdown \/ LastWrite \/ Exit
    \/ FlushTick

FlushSpec == FlushInit /\ [][FlushNext]_flushVars
=============================================================================
