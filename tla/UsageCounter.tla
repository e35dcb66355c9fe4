---------------------------- MODULE UsageCounter ----------------------------
(***************************************************************************)
(* The usage counts of a gateway process                                   *)
(* (pensyve-mcp-gateway/src/usage_counter.rs): an increment is queued for  *)
(* a task that adds batches of them to the table in PostgreSQL.  A key is  *)
(* a user, a month and a tier.                                             *)
(*                                                                         *)
(* The counts in memory, which a summary falls back to, are the counts of  *)
(* increments themselves; other processes add to the table on their own.   *)
(***************************************************************************)
EXTENDS Integers, Sequences, SequencesExt, FiniteSets

CONSTANTS
    Keys,       \* numbers
    Amounts,    \* counts of single increments
    ChannelCap, \* 4096
    BatchMax,   \* 100
    Attempts,   \* 3
    MaxCount,   \* bound of the model: what is incremented
    MaxRepeated \* bound of the model: what is written by attempts that fail

ASSUME UsageAssumption ==
    /\ Keys \subseteq Nat /\ Amounts \subseteq Nat \ {0}
    /\ {ChannelCap, BatchMax, Attempts} \subseteq Nat \ {0}

VARIABLES
    counts,   \* in memory
    channel,  \* increments on their way to the flush loop
    batch,    \* what the flush loop has received
    flushing, \* the batch by key, while it is written
    attempt,  \* failed attempts with the key being written
    table,    \* usage_counters
    dropped,  \* increments not to be persisted any more
    repeated, \* upserts that were executed and answered with an error
    process   \* "up", "stopping" (the senders are gone), "flushed"; "killed", "returned"

uvars == <<counts, channel, batch, flushing, attempt, table, dropped, repeated, process>>

None0 == [k \in Keys |-> 0]

UInit ==
    /\ counts = None0
    /\ channel = <<>> /\ batch = <<>>
    /\ flushing = None0 /\ attempt = 0
    /\ table = None0 /\ dropped = None0 /\ repeated = None0
    /\ process = "up"

Plus(f, k, n) == [f EXCEPT ![k] = @ + n]

\* What the increments of a sequence add to each key.
Total(s) ==
    [k \in Keys |->
        LET sum[i \in 0 .. Len(s)] ==
                IF i = 0 THEN 0
                ELSE IF s[i].key = k THEN sum[i - 1] + s[i].count ELSE sum[i - 1]
        IN  sum[Len(s)]]

TotalOf(f) == FoldSet(LAMBDA k, n : n + f[k], 0, Keys)

\* A count beyond what try_send takes is dropped.
Increment(k, n) ==
    /\ process = "up" /\ TotalOf(counts) + n <= MaxCount
    /\ counts' = Plus(counts, k, n)
    /\ IF Len(channel) < ChannelCap
         THEN channel' = Append(channel, [key |-> k, count |-> n]) /\ UNCHANGED dropped
         ELSE dropped' = Plus(dropped, k, n) /\ UNCHANGED channel
    /\ UNCHANGED <<batch, flushing, attempt, table, repeated, process>>

Idle == flushing = None0 /\ process \in {"up", "stopping"}

\* Variant: a key has the last of its increments.
AggregateLast(s) ==
    [k \in Keys |-> FoldSeq(LAMBDA e, n : IF e.key = k THEN e.count ELSE n, 0, s)]

\* The first part of flush_batch: the batch is drained.
Aggregate(s) == Total(s)

FlushBatch(s) == batch' = <<>> /\ flushing' = Aggregate(s)

Full(s) == Len(s) >= BatchMax

\* flush_loop receives an event.
Receive ==
    /\ Idle /\ channel # <<>>
    /\ channel' = Tail(channel)
    /\ LET s == Append(batch, Head(channel))
       IN IF Full(s) THEN FlushBatch(s) ELSE batch' = s /\ UNCHANGED flushing
    /\ UNCHANGED <<counts, attempt, table, dropped, repeated, process>>

\* Its interval ticks.
FlushTick ==
    /\ Idle /\ batch # <<>>
    /\ FlushBatch(batch)
    /\ UNCHANGED <<counts, channel, attempt, table, dropped, repeated, process>>

\* The channel is closed and empty: what is left is flushed, then the loop ends.
Closed ==
    /\ Idle /\ process = "stopping" /\ channel = <<>>
    /\ IF batch # <<>>
         THEN FlushBatch(batch) /\ UNCHANGED process
         ELSE process' = "flushed" /\ UNCHANGED <<batch, flushing>>
    /\ UNCHANGED <<counts, channel, attempt, table, dropped, repeated>>

\* The keys are written one after the other.
Current(k) == flushing[k] # 0 /\ \A j \in Keys : flushing[j] # 0 => k <= j

\* Variant: the count is never dropped.
FailForever(k) ==
    /\ attempt' = (attempt + 1) % Attempts
    /\ UNCHANGED <<flushing, dropped>>

\* An attempt failed.  After the last the count is dropped.
Failed(k) ==
    IF attempt + 1 < Attempts
    THEN /\ attempt' = attempt + 1
         /\ UNCHANGED <<flushing, dropped>>
    ELSE /\ attempt' = 0
         /\ flushing' = [flushing EXCEPT ![k] = 0]
         /\ dropped' = Plus(dropped, k, flushing[k])

\* The upsert of a key is executed, fails, or is executed and answered with an
\* error.
Upsert(k) ==
    /\ process \in {"up", "stopping"} /\ Current(k)
    /\ \/ /\ table' = Plus(table, k, flushing[k])
          /\ flushing' = [flushing EXCEPT ![k] = 0]
          /\ attempt' = 0
          /\ UNCHANGED <<dropped, repeated>>
       \/ Failed(k) /\ UNCHANGED <<table, repeated>>
       \/ /\ TotalOf(repeated) < MaxRepeated
          /\ Failed(k)
          /\ table' = Plus(table, k, flushing[k])
          /\ repeated' = Plus(repeated, k, flushing[k])
    /\ UNCHANGED <<counts, channel, batch, process>>

\* Graceful shutdown: the server has ended and with it the last sender.
ShutDown ==
    /\ process = "up"
    /\ process' = "stopping"
    /\ UNCHANGED <<counts, channel, batch, flushing, attempt, table, dropped, repeated>>

\* main returns.  The runtime does not wait for the flush loop.
Return ==
    /\ process \in {"stopping", "flushed"}
    /\ process' = "returned"
    /\ UNCHANGED <<counts, channel, batch, flushing, attempt, table, dropped, repeated>>

Kill ==
    /\ process = "up"
    /\ process' = "killed"
    /\ UNCHANGED <<counts, channel, batch, flushing, attempt, table, dropped, repeated>>

FlushLoop == Receive \/ FlushTick \/ Closed \/ \E k \in Keys : Upsert(k)

UNext ==
    \/ \E k \in Keys, n \in Amounts : Increment(k, n)
    \/ FlushLoop
    \/ ShutDown \/ Return \/ Kill

USpec == UInit /\ [][UNext]_uvars

-----------------------------------------------------------------------------

Underway == [k \in Keys |-> Total(channel)[k] + Total(batch)[k] + flushing[k]]

\* For every key, what is in the table, under way and dropped is what was
\* counted, but for upserts that were executed although they failed, which are
\* there twice or dropped and there (increment, flush_batch).
CountsConserved ==
    \A k \in Keys : table[k] + Underway[k] + dropped[k] = counts[k] + repeated[k]

\* A database that is down does not keep the flush loop: what is under way is
\* written or dropped, or the process ends (flush_batch, flush_loop).
CountsSettle == []<>(Underway = None0 \/ process \in {"killed", "returned"})

\* A graceful shutdown never loses queued increments (flush_loop): when main
\* has returned, none of them is under way.
ShutDownLosesNothing == process = "returned" => Underway = None0
=============================================================================
