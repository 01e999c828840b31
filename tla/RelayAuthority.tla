--------------------------- MODULE RelayAuthority ---------------------------
(***************************************************************************)
(* The authority service of the multiplayer relay (StationeersBridge       *)
(* .Relay.Core, RelayAuthorityService.cs): calls of SubmitAsync from any   *)
(* number of threads, a bounded queue behind one lock, a pool of workers   *)
(* woken by a semaphore, a bounded cache of results by idempotency key,    *)
(* and Dispose racing all of them.  A lock section is one action, and so   *)
(* is what a thread does between two of them on its own.                   *)
(*                                                                         *)
(* A call is one invocation of SubmitAsync, always of a mutation; a retry  *)
(* is another call with the same key.  Its answer is the code of the       *)
(* response.  Payloads, response sizes and the wording of codes are left   *)
(* out; what the kill switch, the revocations and the policy say about a   *)
(* player is one fact, denied, read at one instant.                        *)
(***************************************************************************)
EXTENDS Integers, Sequences, FiniteSets

CONSTANTS
    Calls,           \* invocations of SubmitAsync
    Players,
    Keys,            \* idempotency keys: player, session and value
    PlayerOf,        \* PlayerOf[c], KeyOf[c] and PrintOf[c]: the player, the key
    KeyOf,           \*   and the request fingerprint of call c
    PrintOf,
    Malformed,       \* the calls whose envelope Validate refuses
    Cancellable,     \* the calls made with a token that may be cancelled,
    Expiring,        \*   the calls that may expire and the players whose
    Revocable,       \*   permission may change while the model runs
    Unrecorded,      \* the calls for whose record the audit sink may throw
    Workers,
    MaxPlayerQueue,
    MaxGlobalQueue,
    MaxEntries,      \* MaxIdempotencyEntries
    NoCall

ASSUME CallAssumption ==
    /\ PlayerOf \in [Calls -> Players]
    /\ KeyOf \in [Calls -> Keys]
    /\ \A c, d \in Calls : KeyOf[c] = KeyOf[d] => PlayerOf[c] = PlayerOf[d]
    /\ Malformed \cup Cancellable \cup Expiring \cup Unrecorded \subseteq Calls
    /\ Revocable \subseteq Players
    /\ NoCall \notin Calls

\* ValidateOptions.
ASSUME OptionsAssumption ==
    /\ Workers # {}
    /\ {MaxPlayerQueue, MaxGlobalQueue, MaxEntries} \subseteq Nat \ {0}

VARIABLES
    answer,       \* answer[c]: the response of call c, "none" while it waits
    original,     \* original[c]: the call whose completion call c awaits
    queue,        \* _queue
    globalCount,  \* _globalCount
    playerCount,  \* _playerCounts, 0 for a player without an entry
    entry,        \* _idempotency: the call that holds a key, NoCall for none
    completed,    \* _completedIdempotency
    permits,      \* _available
    worker,       \* worker[w]: where worker w is, with its call and its result
    disposal,     \* where Dispose is
    abandoned,    \* its list of abandoned calls
    stopping,     \* _stopping is cancelled
    cancelled,    \* external: calls whose token is cancelled
    expired,      \* external: calls whose expiry has passed
    denied,       \* external: players who may not write at present
    started,      \* history: calls the world executor was called for
    offered,      \* history: offered[c], the result codes Audit gave the sink for c
    audited       \* external: calls whose record the sink kept

callVars == <<answer, original>>
queueVars == <<queue, globalCount, playerCount>>
cacheVars == <<entry, completed>>
disposeVars == <<disposal, abandoned, stopping>>
worldVars == <<cancelled, expired, denied>>
auditVars == <<offered, audited>>
vars == <<callVars, queueVars, cacheVars, permits, worker, disposeVars, worldVars, started, auditVars>>

Disposed == disposal # "none"

\* The semaphore and the stopping token are gone.
Released == disposal = "released"

Held == {k \in Keys : entry[k] # NoCall}

\* Every mutation is offered to the audit sink with the code of its result.  What
\* the sink throws is swallowed: that record is lost and the call goes on.
Audit(c, code) ==
    /\ offered' = [offered EXCEPT ![c] = Append(@, code)]
    /\ \/ audited' = audited \cup {c}
       \/ c \in Unrecorded /\ UNCHANGED audited

Idle == [at |-> "waiting", call |-> NoCall, result |-> "none"]

-----------------------------------------------------------------------------
(* The cache of results.                                                   *)

\* The keys of the n oldest elements of a queue of completed keys.
Oldest(done, n) == {done[i] : i \in 1 .. n}

\* The trim loops: while the cache has limit entries or more and a completed one
\* is left, the oldest completed one goes.  n is the number of rounds.
Trims(done, n, limit) ==
    /\ n \in 0 .. Len(done)
    /\ \A m \in 0 .. n - 1 : Cardinality(Held \ Oldest(done, m)) >= limit
    /\ n = Len(done) \/ Cardinality(Held \ Oldest(done, n)) < limit

\* The cache and the queue of completed keys after n rounds.
Trimmed(done, n) ==
    /\ entry' = [k \in Keys |-> IF k \in Oldest(done, n) THEN NoCall ELSE entry[k]]
    /\ completed' = SubSeq(done, n + 1, Len(done))

\* Complete: the response of the call is set unless it has one (TrySetResult), and its entry becomes one that may
\* be evicted.
Complete(c, code) ==
    /\ answer' = [answer EXCEPT ![c] = IF @ = "none" THEN code ELSE @]
    /\ IF entry[KeyOf[c]] = c
       THEN LET done == Append(completed, KeyOf[c])
            IN  \E n \in 0 .. Len(done) : Trims(done, n, MaxEntries + 1) /\ Trimmed(done, n)
       ELSE UNCHANGED cacheVars

-----------------------------------------------------------------------------
(* SubmitAsync.                                                            *)

Unsent(c) == answer[c] = "none" /\ original[c] = NoCall

\* Validate: what is wrong with the envelope or the transport, or with the time.
Invalid(c) == c \in Malformed \cup expired

\* Two requests with the same fingerprint.
SameRequest(c, d) == PrintOf[c] = PrintOf[d]

\* How the checks come out, in their order, for the lock section and what
\* precedes it.
Verdict(c) ==
    LET k == KeyOf[c]
    IN  IF Invalid(c) THEN "invalid"
        ELSE IF c \in cancelled THEN "cancelled"
        ELSE IF Disposed THEN "service_unavailable"
        ELSE IF entry[k] # NoCall
             THEN IF SameRequest(entry[k], c) THEN "replay" ELSE "idempotency_conflict"
        ELSE IF globalCount >= MaxGlobalQueue THEN "global_queue_full"
        ELSE IF playerCount[PlayerOf[c]] >= MaxPlayerQueue THEN "player_queue_full"
        ELSE "slot"

\* A refused call is audited and answered at once.
Refuse(c, code) ==
    /\ answer' = [answer EXCEPT ![c] = code]
    /\ Audit(c, code)
    /\ UNCHANGED original

SubmitRefused(c) ==
    /\ Unsent(c)
    /\ Verdict(c) \notin {"replay", "slot"}
    /\ Refuse(c, Verdict(c))
    /\ UNCHANGED <<queueVars, cacheVars, permits, worker, disposeVars, worldVars, started>>

\* A call whose key is held joins the call that holds it.
SubmitReplay(c) ==
    /\ Unsent(c)
    /\ Verdict(c) = "replay"
    /\ original' = [original EXCEPT ![c] = entry[KeyOf[c]]]
    /\ UNCHANGED <<answer, queueVars, cacheVars, permits, worker, disposeVars, worldVars, started, auditVars>>

\* The others need a slot of the cache: completed entries make room.
SubmitCacheFull(c) ==
    /\ Unsent(c)
    /\ Verdict(c) = "slot"
    /\ \E n \in 0 .. Len(completed) :
          /\ Trims(completed, n, MaxEntries)
          /\ Cardinality(Held \ Oldest(completed, n)) >= MaxEntries
          /\ Trimmed(completed, n)
    /\ Refuse(c, "idempotency_cache_full")
    /\ UNCHANGED <<queueVars, permits, worker, disposeVars, worldVars, started>>

\* The work item is queued behind the trimmed cache.
Enqueue(c) ==
    /\ queue' = Append(queue, c)
    /\ globalCount' = globalCount + 1
    /\ playerCount' = [playerCount EXCEPT ![PlayerOf[c]] = @ + 1]
    /\ original' = [original EXCEPT ![c] = c]
    /\ UNCHANGED <<answer, worker, disposeVars, worldVars, started, auditVars>>

\* The cache after n rounds of trimming, with the key of call c.
EntryWith(c, n) ==
    [k \in Keys |-> IF k = KeyOf[c] THEN c
                    ELSE IF k \in Oldest(completed, n) THEN NoCall ELSE entry[k]]

\* Mutant: the semaphore is released only when the queue was empty.
SubmitAccepted_ReleaseOnce(c) ==
    /\ Unsent(c)
    /\ Verdict(c) = "slot"
    /\ \E n \in 0 .. Len(completed) :
          /\ Trims(completed, n, MaxEntries)
          /\ Cardinality(Held \ Oldest(completed, n)) < MaxEntries
          /\ entry' = EntryWith(c, n)
          /\ completed' = SubSeq(completed, n + 1, Len(completed))
    /\ Enqueue(c)
    /\ permits' = IF queue = <<>> THEN permits + 1 ELSE permits

\* Mutant: keys may be evicted in the order they came, not in that they completed.
SubmitAccepted_EvictsInOrder(c) ==
    /\ Unsent(c)
    /\ Verdict(c) = "slot"
    /\ \E n \in 0 .. Len(completed) :
          /\ Trims(completed, n, MaxEntries)
          /\ Cardinality(Held \ Oldest(completed, n)) < MaxEntries
          /\ entry' = EntryWith(c, n)
          /\ completed' = Append(SubSeq(completed, n + 1, Len(completed)), KeyOf[c])
    /\ Enqueue(c)
    /\ permits' = permits + 1

SubmitAccepted(c) ==
    /\ Unsent(c)
    /\ Verdict(c) = "slot"
    /\ \E n \in 0 .. Len(completed) :
          /\ Trims(completed, n, MaxEntries)
          /\ Cardinality(Held \ Oldest(completed, n)) < MaxEntries
          /\ entry' = EntryWith(c, n)
          /\ completed' = SubSeq(completed, n + 1, Len(completed))
    /\ Enqueue(c)
    /\ permits' = permits + 1

\* ReplayAsync: the answer of the original call, or "cancelled".
ReplayReturn(c) ==
    LET o == original[c]
    IN  /\ answer[c] = "none" /\ o # NoCall /\ o # c
        /\ \E code \in {answer[o]} \cup (IF c \in cancelled THEN {"cancelled"} ELSE {}) :
              /\ code # "none"
              /\ Audit(c, code)
              /\ answer' = [answer EXCEPT ![c] = code]
        /\ UNCHANGED <<original, queueVars, cacheVars, permits, worker, disposeVars, worldVars, started>>

-----------------------------------------------------------------------------
(* The workers.                                                            *)

At(w, place) == worker[w].at = place

\* WaitAsync takes a permit.
WorkerWake(w) ==
    /\ At(w, "waiting")
    /\ ~Released
    /\ permits > 0
    /\ permits' = permits - 1
    /\ worker' = [worker EXCEPT ![w].at = "awake"]
    /\ UNCHANGED <<callVars, queueVars, cacheVars, disposeVars, worldVars, started, auditVars>>

\* The wait is cancelled, or finds the semaphore disposed.
WorkerStop(w) ==
    /\ At(w, "waiting")
    /\ stopping
    /\ worker' = [worker EXCEPT ![w].at = "stopped"]
    /\ UNCHANGED <<callVars, queueVars, cacheVars, permits, disposeVars, worldVars, started, auditVars>>

WorkerDequeue(w) ==
    /\ At(w, "awake")
    /\ IF queue # <<>>
       THEN /\ queue' = Tail(queue)
            /\ globalCount' = globalCount - 1
            /\ playerCount' = [playerCount EXCEPT ![PlayerOf[Head(queue)]] = @ - 1]
            /\ worker' = [worker EXCEPT ![w] =
                              [at |-> "processing", call |-> Head(queue), result |-> "none"]]
       ELSE /\ worker' = [worker EXCEPT ![w] = Idle]
            /\ UNCHANGED queueVars
    /\ UNCHANGED <<callVars, cacheVars, permits, disposeVars, worldVars, started, auditVars>>

\* ValidateExecution, after the queue delay; then the linked token, which can no
\* longer be made once the service has released its own.
Decision(c) ==
    IF c \in cancelled THEN "cancelled"
    ELSE IF c \in expired THEN "request_expired"
    ELSE IF PlayerOf[c] \in denied THEN "permission_denied"
    ELSE IF Released THEN "execution_failed"
    ELSE "allowed"

\* ProcessAsync up to the call of the executor.
ProcessStart(w) ==
    LET c == worker[w].call
        d == Decision(c)
    IN  /\ At(w, "processing")
        /\ IF d = "allowed"
           THEN /\ worker' = [worker EXCEPT ![w].at = "executing"]
                /\ started' = started \cup {c}
                /\ UNCHANGED auditVars
           ELSE /\ worker' = [worker EXCEPT ![w].at = "completing", ![w].result = d]
                /\ Audit(c, d)
                /\ UNCHANGED started
        /\ UNCHANGED <<callVars, queueVars, cacheVars, permits, disposeVars, worldVars>>

\* External: the executor returns a result ("ok", whatever it says), throws, or
\* gives in to a cancelled token.
Outcomes(c) == {"ok", "execution_failed"}
                 \cup (IF stopping \/ c \in cancelled THEN {"cancelled"} ELSE {})

\* ProcessAsync after the executor, up to Complete.
ExecutorReturn(w) ==
    /\ At(w, "executing")
    /\ \E code \in Outcomes(worker[w].call) :
          /\ worker' = [worker EXCEPT ![w].at = "completing", ![w].result = code]
          /\ Audit(worker[w].call, code)
    /\ UNCHANGED <<callVars, queueVars, cacheVars, permits, disposeVars, worldVars, started>>

WorkerComplete(w) ==
    /\ At(w, "completing")
    /\ Complete(worker[w].call, worker[w].result)
    /\ worker' = [worker EXCEPT ![w] = Idle]
    /\ UNCHANGED <<original, queueVars, permits, disposeVars, worldVars, started, auditVars>>

-----------------------------------------------------------------------------
(* Dispose.                                                                *)

\* Mutant: the abandoned work stays in the queue.
DisposeBegin_KeepsQueue ==
    /\ disposal = "none"
    /\ disposal' = "begun"
    /\ abandoned' = queue
    /\ globalCount' = 0
    /\ playerCount' = [p \in Players |-> 0]
    /\ UNCHANGED <<callVars, queue, cacheVars, permits, worker, stopping, worldVars, started, auditVars>>

\* Mutant: the counts outlive the queue.
DisposeBegin_KeepsCounts ==
    /\ disposal = "none"
    /\ disposal' = "begun"
    /\ abandoned' = queue
    /\ queue' = <<>>
    /\ UNCHANGED <<callVars, globalCount, playerCount, cacheVars, permits, worker, stopping, worldVars, started, auditVars>>

\* The lock section.
DisposeBegin ==
    /\ disposal = "none"
    /\ disposal' = "begun"
    /\ abandoned' = queue
    /\ queue' = <<>>
    /\ globalCount' = 0
    /\ playerCount' = [p \in Players |-> 0]
    /\ UNCHANGED <<callVars, cacheVars, permits, worker, stopping, worldVars, started, auditVars>>

DisposeCancel ==
    /\ disposal = "begun"
    /\ disposal' = "abandoning"
    /\ stopping' = TRUE
    /\ UNCHANGED <<callVars, queueVars, cacheVars, permits, worker, abandoned, worldVars, started, auditVars>>

\* Mutant: abandoned calls leave no audit record.
DisposeAbandon_Unaudited ==
    /\ disposal = "abandoning"
    /\ abandoned # <<>>
    /\ Complete(Head(abandoned), "service_unavailable")
    /\ abandoned' = Tail(abandoned)
    /\ UNCHANGED <<original, queueVars, permits, worker, disposal, stopping, worldVars, started, auditVars>>

\* One abandoned call after the other is audited and completed.
DisposeAbandon ==
    /\ disposal = "abandoning"
    /\ abandoned # <<>>
    /\ Audit(Head(abandoned), "service_unavailable")
    /\ Complete(Head(abandoned), "service_unavailable")
    /\ abandoned' = Tail(abandoned)
    /\ UNCHANGED <<original, queueVars, permits, worker, disposal, stopping, worldVars, started>>

\* Whether the workers have ended or the second is over, the semaphore and the
\* token are disposed of.
DisposeEnd ==
    /\ disposal = "abandoning"
    /\ abandoned = <<>>
    /\ disposal' = "released"
    /\ UNCHANGED <<callVars, queueVars, cacheVars, permits, worker, abandoned, stopping, worldVars, started, auditVars>>

-----------------------------------------------------------------------------
(* The callers and the game.                                               *)

Cancel(c) ==
    /\ c \in Cancellable \ cancelled
    /\ cancelled' = cancelled \cup {c}
    /\ UNCHANGED <<callVars, queueVars, cacheVars, permits, worker, disposeVars, expired, denied, started, auditVars>>

Expire(c) ==
    /\ c \in Expiring \ expired
    /\ expired' = expired \cup {c}
    /\ UNCHANGED <<callVars, queueVars, cacheVars, permits, worker, disposeVars, cancelled, denied, started, auditVars>>

SetDenied(p) ==
    /\ p \in Revocable
    /\ denied' = IF p \in denied THEN denied \ {p} ELSE denied \cup {p}
    /\ UNCHANGED <<callVars, queueVars, cacheVars, permits, worker, disposeVars, cancelled, expired, started, auditVars>>

Init ==
    /\ answer = [c \in Calls |-> "none"]
    /\ original = [c \in Calls |-> NoCall]
    /\ queue = <<>> /\ globalCount = 0 /\ playerCount = [p \in Players |-> 0]
    /\ entry = [k \in Keys |-> NoCall] /\ completed = <<>>
    /\ permits = 0
    /\ worker = [w \in Workers |-> Idle]
    /\ disposal = "none" /\ abandoned = <<>> /\ stopping = FALSE
    /\ cancelled = {} /\ expired = {} /\ denied = {}
    /\ started = {} /\ offered = [c \in Calls |-> <<>>] /\ audited = {}

Submit(c) == SubmitRefused(c) \/ SubmitReplay(c) \/ SubmitCacheFull(c) \/ SubmitAccepted(c)

WorkerStep(w) ==
    WorkerWake(w) \/ WorkerStop(w) \/ WorkerDequeue(w) \/ ProcessStart(w) \/ WorkerComplete(w)

DisposeStep == DisposeCancel \/ DisposeAbandon \/ DisposeEnd

Next ==
    \/ \E c \in Calls : Submit(c) \/ ReplayReturn(c) \/ Cancel(c) \/ Expire(c)
    \/ \E w \in Workers : WorkerStep(w) \/ ExecutorReturn(w)
    \/ DisposeBegin
    \/ DisposeStep
    \/ \E p \in Players : SetDenied(p)

Spec == Init /\ [][Next]_vars

\* The thread pool runs the continuation of every await, Dispose does not stop
\* half way, and the executor returns.
Fairness ==
    /\ \A c \in Calls : WF_vars(ReplayReturn(c))
    /\ \A w \in Workers : WF_vars(WorkerStep(w)) /\ WF_vars(ExecutorReturn(w))
    /\ WF_vars(DisposeStep)

FairSpec == Spec /\ Fairness

-----------------------------------------------------------------------------
(* Properties.                                                             *)

Places == {"waiting", "awake", "processing", "executing", "completing", "stopped"}

\* The codes of the responses, and "none" for a call without one.
Codes == {"none", "ok", "execution_failed", "cancelled", "invalid",
          "service_unavailable", "idempotency_conflict", "global_queue_full",
          "player_queue_full", "idempotency_cache_full", "request_expired",
          "permission_denied"}

\* Type invariant.
TypeOK ==
    /\ answer \in [Calls -> Codes] /\ offered \in [Calls -> Seq(Codes)]
    /\ original \in [Calls -> Calls \cup {NoCall}]
    /\ queue \in Seq(Calls) /\ abandoned \in Seq(Calls)
    /\ globalCount \in Nat /\ playerCount \in [Players -> Nat] /\ permits \in Nat
    /\ entry \in [Keys -> Calls \cup {NoCall}]
    /\ completed \in Seq(Keys)
    /\ \A w \in Workers : worker[w].at \in Places /\ worker[w].call \in Calls \cup {NoCall}
    /\ disposal \in {"none", "begun", "abandoning", "released"}
    /\ {cancelled, expired, started, audited} \subseteq SUBSET Calls
    /\ denied \subseteq Players

\* The counts that decide who is refused are those of the queue, through every
\* interleaving of submissions, workers and Dispose (SubmitAsync, WorkerAsync),
\* and never pass their limits.
CountsExact ==
    /\ globalCount = Len(queue) /\ globalCount <= MaxGlobalQueue
    /\ \A p \in Players :
          /\ playerCount[p] = Cardinality({i \in DOMAIN queue : PlayerOf[queue[i]] = p})
          /\ playerCount[p] <= MaxPlayerQueue

\* The cache keeps to its limit.
CacheBounded == Cardinality(Held) <= MaxEntries

\* The queue of evictable keys names exactly the entries whose call has been
\* answered, each once: no entry in flight can be evicted and no completed one
\* stays for ever (Complete, TrimCompletedIdempotency).
EvictableExact ==
    /\ {completed[i] : i \in DOMAIN completed} =
          {k \in Held : answer[entry[k]] # "none"}
    /\ \A i, j \in DOMAIN completed : completed[i] = completed[j] => i = j

\* The books of the service are exact in every state: the counts, the size of
\* the cache and the list of what may be evicted, three structures kept under
\* one lock by five operations.
BooksExact == CountsExact /\ CacheBounded /\ EvictableExact

\* Two executions for one idempotency key never overlap: a retry joins the call
\* in flight (InFlightIdempotencyEntriesAreNeverEvicted in the tests).
NoOverlappingExecution ==
    \A v, w \in Workers :
        At(v, "executing") /\ At(w, "executing")
        /\ KeyOf[worker[v].call] = KeyOf[worker[w].call] => v = w

\* A call answered as refused, denied, expired or abandoned never reached the
\* world, so that its caller may safely send it again (Retryable).
RefusedNeverStarted ==
    \A c \in started :
        answer[c] \in {"none", "ok", "execution_failed", "cancelled"}

\* The audit tells what the callers are told: whichever of the paths through
\* SubmitAsync, ReplayAsync, the workers and Dispose answers a mutation, the sink
\* was offered its record before, once, with the code of the answer.  It is kept
\* unless the sink threw (Audit): a lost record neither holds the answer back nor
\* is offered again.
AnsweredIsAudited ==
    \A c \in Calls : answer[c] # "none" =>
        /\ offered[c] = <<answer[c]>>
        /\ c \notin audited => c \in Unrecorded

\* Every call that was accepted, or joined one that was, gets its answer, also
\* when Dispose comes in between.
EventuallyAnswered ==
    \A c \in Calls : original[c] # NoCall ~> answer[c] # "none"
=============================================================================
