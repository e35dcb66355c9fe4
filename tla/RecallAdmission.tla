--------------------------- MODULE RecallAdmission ---------------------------
(***************************************************************************)
(* RecallAdmission of pensyve-mcp-tools/src/state.rs: a recall is admitted *)
(* with a permit of a semaphore and a reservation of bytes.  The two are   *)
(* taken one after the other and given back one after the other, so other  *)
(* threads see every state in between.                                     *)
(*                                                                         *)
(* The semaphore is tokio's: a permit that is given back goes to the       *)
(* waiter at the head of the queue, and is there for others only when      *)
(* nobody waits.  The overload counters are left out.                      *)
(***************************************************************************)
EXTENDS Integers, Sequences, SequencesExt, FiniteSets

CONSTANTS
    Callers,
    Permits,  \* permits of the semaphore
    MaxBytes, \* max_bytes
    Sizes     \* the sizes callers ask for

ASSUME AdmissionAssumption ==
    /\ IsFiniteSet(Callers)
    /\ Permits \in Nat \ {0}
    /\ MaxBytes \in Nat \ {0}
    /\ Sizes \subseteq Nat

VARIABLES
    available, \* free permits of the semaphore
    queue,     \* callers waiting for a permit
    reserved,  \* reserved_bytes
    pc,        \* where a caller is
    bytes      \* what it asked for

vars == <<available, queue, reserved, pc, bytes>>

\* "waiting"   in acquire_owned            "held"      has its RecallReservation
\* "granted"   given a permit in the queue "releasing" its bytes are back, not its permit
\* "admitted"  has a permit, not its bytes "refused"   no bytes, to give back its permit
PCs == {"idle", "waiting", "granted", "admitted", "held", "releasing", "refused"}

WithPermit == {"granted", "admitted", "held", "releasing", "refused"}

Init ==
    /\ available = Permits
    /\ queue = <<>>
    /\ reserved = 0
    /\ pc = [c \in Callers |-> "idle"]
    /\ bytes = [c \in Callers |-> 0]

Goto(c, l) == pc' = [pc EXCEPT ![c] = l]

\* validate_bytes
Valid(b) == b # 0 /\ b <= MaxBytes

\* try_acquire: a permit at once or an overload.
TryAcquire(c, b) ==
    /\ pc[c] = "idle" /\ Valid(b) /\ available > 0
    /\ available' = available - 1
    /\ bytes' = [bytes EXCEPT ![c] = b]
    /\ Goto(c, "admitted")
    /\ UNCHANGED <<queue, reserved>>

\* acquire with no permit free: it waits in the queue.  With one free it does
\* what try_acquire does.
Acquire(c, b) ==
    /\ pc[c] = "idle" /\ Valid(b) /\ available = 0
    /\ queue' = Append(queue, c)
    /\ bytes' = [bytes EXCEPT ![c] = b]
    /\ Goto(c, "waiting")
    /\ UNCHANGED <<available, reserved>>

\* The granted waiter is polled.
Wake(c) ==
    /\ pc[c] = "granted"
    /\ Goto(c, "admitted")
    /\ UNCHANGED <<available, queue, reserved, bytes>>

\* The update of reserved_bytes in reserve_bytes succeeds.
Fits(b) == reserved + b <= MaxBytes

\* reserve_bytes
Reserve(c) ==
    /\ pc[c] = "admitted"
    /\ IF Fits(bytes[c])
         THEN Goto(c, "held") /\ reserved' = reserved + bytes[c]
         ELSE Goto(c, "refused") /\ UNCHANGED reserved
    /\ UNCHANGED <<available, queue, bytes>>

\* A permit is given back.
PermitBack(c) ==
    IF queue = <<>>
    THEN /\ available' = available + 1
         /\ Goto(c, "idle")
         /\ UNCHANGED queue
    ELSE /\ queue' = Tail(queue)
         /\ pc' = [pc EXCEPT ![c] = "idle", ![Head(queue)] = "granted"]
         /\ UNCHANGED available

\* Variant: the permit is given back before the bytes.
DropPermitFirst(c) ==
    \/ /\ pc[c] = "held"
       /\ IF queue = <<>>
            THEN /\ available' = available + 1 /\ Goto(c, "releasing") /\ UNCHANGED queue
            ELSE /\ queue' = Tail(queue)
                 /\ pc' = [pc EXCEPT ![c] = "releasing", ![Head(queue)] = "granted"]
                 /\ UNCHANGED available
       /\ UNCHANGED <<reserved, bytes>>
    \/ /\ pc[c] = "releasing"
       /\ Goto(c, "idle")
       /\ reserved' = reserved - bytes[c]
       /\ UNCHANGED <<available, queue, bytes>>

\* Variant: the permit is not given back.
DropBytesOnly(c) ==
    /\ pc[c] = "held"
    /\ Goto(c, "idle")
    /\ reserved' = reserved - bytes[c]
    /\ UNCHANGED <<available, queue, bytes>>

\* The reservation is dropped: Drop runs before the drop of its fields, the
\* permit among them.
DropReservation(c) ==
    \/ /\ pc[c] = "held"
       /\ Goto(c, "releasing")
       /\ reserved' = reserved - bytes[c]
       /\ UNCHANGED <<available, queue, bytes>>
    \/ /\ pc[c] = "releasing"
       /\ PermitBack(c)
       /\ UNCHANGED <<reserved, bytes>>

\* An overload after the permit: reserve_bytes drops it.
Refuse(c) ==
    /\ pc[c] = "refused"
    /\ PermitBack(c)
    /\ UNCHANGED <<reserved, bytes>>

\* The future of acquire is dropped: out of the queue, or the permit it was
\* given goes back.
Cancel(c) ==
    /\ \/ /\ pc[c] = "waiting"
          /\ \E i \in DOMAIN queue : queue[i] = c /\ queue' = RemoveAt(queue, i)
          /\ Goto(c, "idle")
          /\ UNCHANGED available
       \/ /\ pc[c] = "granted"
          /\ PermitBack(c)
    /\ UNCHANGED <<reserved, bytes>>

Finish(c) == Wake(c) \/ Reserve(c) \/ DropReservation(c) \/ Refuse(c)

Next ==
    \E c \in Callers :
        \/ \E b \in Sizes : TryAcquire(c, b) \/ Acquire(c, b)
        \/ Finish(c)
        \/ Cancel(c)

Spec == Init /\ [][Next]_vars

\* An admitted recall ends, and tasks that can go on are polled.
FairSpec == Spec /\ \A c \in Callers : WF_vars(Finish(c))

-----------------------------------------------------------------------------
In(labels) == {c \in Callers : pc[c] \in labels}
TypeOK ==
    /\ available \in 0 .. Permits
    /\ queue \in Seq(Callers)
    /\ reserved \in Int /\ reserved <= MaxBytes
    /\ pc \in [Callers -> PCs]
    /\ bytes \in [Callers -> Sizes \cup {0}]

\* The permits that are free and those of callers are all there are, whatever
\* was refused, cancelled while waiting or cancelled with a permit on its way;
\* so at most Permits recalls run.
PermitsConserved == available + Cardinality(In(WithPermit)) = Permits

\* The queue is exactly the waiting, and nobody waits while a permit is free.
QueueIsWaiting ==
    /\ IsInjective(queue)
    /\ {queue[i] : i \in DOMAIN queue} = In({"waiting"})
    /\ queue # <<>> => available = 0

\* The inductive invariant: the permits are conserved.
AdmissionInv == TypeOK /\ QueueIsWaiting /\ PermitsConserved

\* A caller with a permit is refused its bytes only when it or another that has
\* a permit asks for more than its share of the budget (the gateway's share is
\* 8 MiB, an eighth of 64 MiB): reserve_bytes is reached with a permit, and the
\* bytes of a reservation are back before its permit is.
FairShareAdmitted ==
    [][\A c \in Callers :
          pc[c] = "admitted" /\ pc'[c] = "refused"
          => \E d \in In(WithPermit) : bytes[d] * Permits > MaxBytes]_vars

\* A caller of acquire that waits is answered.
WaitEnds == \A c \in Callers : pc[c] = "waiting" ~> pc[c] # "waiting"
=============================================================================
