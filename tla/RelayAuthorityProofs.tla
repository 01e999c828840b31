------------------------ MODULE RelayAuthorityProofs ------------------------
(***************************************************************************)
(* What RelayAuthority guarantees for every number of calls, players, keys *)
(* and workers and every limit of the queues and of the cache.             *)
(***************************************************************************)
EXTENDS RelayAuthority, SequenceTheorems, FiniteSetTheorems, FunctionTheorems, TLAPS

\* A worker that holds a call.
Busy(w) == worker[w].at \in {"processing", "executing", "completing"}

\* An accepted call without an answer still holds its key.
Live(c) ==
    /\ original[c] = c
    /\ answer[c] = "none"
    /\ entry[KeyOf[c]] = c

\* The answers a call that reached the executor may get.
Executed == {"ok", "execution_failed", "cancelled"}

Types ==
    /\ answer \in [Calls -> Codes]
    /\ original \in [Calls -> Calls \cup {NoCall}]
    /\ queue \in Seq(Calls) /\ abandoned \in Seq(Calls)
    /\ entry \in [Keys -> Calls \cup {NoCall}]
    /\ completed \in Seq(Keys)
    /\ worker \in [Workers -> [at : Places, call : Calls \cup {NoCall}, result : Codes]]
    /\ started \subseteq Calls

\* A key is held by a call with that key which was accepted, not replayed.
EntriesOwn ==
    \A k \in Keys : entry[k] # NoCall => /\ KeyOf[entry[k]] = k
                                         /\ original[entry[k]] = entry[k]

\* Whatever is queued, abandoned or in the hands of a worker is live ...
PendingLive ==
    /\ \A i \in 1 .. Len(queue) : Live(queue[i]) /\ queue[i] \notin started
    /\ \A i \in 1 .. Len(abandoned) : Live(abandoned[i]) /\ abandoned[i] \notin started
    /\ \A w \in Workers : Busy(w) => worker[w].call \in Calls /\ Live(worker[w].call)

\* ... and is in one place only.
OnePlace ==
    /\ \A i, j \in 1 .. Len(queue) : queue[i] = queue[j] => i = j
    /\ \A i, j \in 1 .. Len(abandoned) : abandoned[i] = abandoned[j] => i = j
    /\ \A v, w \in Workers : Busy(v) /\ Busy(w) /\ worker[v].call = worker[w].call => v = w
    /\ \A w \in Workers : Busy(w) => /\ \A i \in 1 .. Len(queue) : queue[i] # worker[w].call
                                     /\ \A i \in 1 .. Len(abandoned) : abandoned[i] # worker[w].call
    /\ abandoned # <<>> => disposal # "none" /\ queue = <<>>

\* What a worker still has to do follows from what it did.
WorkersOrderly ==
    \A w \in Workers :
        /\ At(w, "processing") => worker[w].call \notin started
        /\ At(w, "completing") => /\ worker[w].result # "none"
                                  /\ worker[w].call \in started => worker[w].result \in Executed

StartedOwn == \A c \in started : original[c] = c /\ answer[c] \in Executed \cup {"none"}

\* The inductive invariant.
IInv ==
    /\ Types
    /\ EntriesOwn
    /\ PendingLive
    /\ OnePlace
    /\ WorkersOrderly
    /\ StartedOwn
    /\ EvictableExact

-----------------------------------------------------------------------------
(* The queue of completed keys.                                            *)

\* Dropping the n oldest of a sequence without repetitions leaves exactly the
\* others, still without repetitions (the trim loops).
LEMMA DropOldest ==
    ASSUME NEW S, NEW s \in Seq(S), NEW n \in 0 .. Len(s),
           \A i, j \in 1 .. Len(s) : s[i] = s[j] => i = j
    PROVE  LET t == SubSeq(s, n + 1, Len(s))
           IN  /\ t \in Seq(S)
               /\ {t[i] : i \in DOMAIN t} = {s[i] : i \in DOMAIN s} \ Oldest(s, n)
               /\ \A i, j \in DOMAIN t : t[i] = t[j] => i = j
<1> DEFINE t == SubSeq(s, n + 1, Len(s))
<1>1. /\ t \in Seq(S)
      /\ Len(t) = Len(s) - n
      /\ \A i \in 1 .. Len(s) - n : t[i] = s[n + i]
  <2>1. Len(s) \in Nat
    OBVIOUS
  <2>2. \A i \in n + 1 .. Len(s) : s[i] \in S
    BY <2>1
  <2>3. /\ t \in Seq(S)
        /\ Len(t) = IF n + 1 <= Len(s) THEN Len(s) - (n + 1) + 1 ELSE 0
        /\ \A i \in 1 .. Len(s) - (n + 1) + 1 : t[i] = s[(n + 1) + i - 1]
    BY <2>1, <2>2, SubSeqProperties
  <2> QED
    BY <2>1, <2>3
<1>2. DOMAIN t = 1 .. Len(s) - n /\ DOMAIN s = 1 .. Len(s) /\ Len(s) \in Nat
  BY <1>1
<1> HIDE DEF t
<1>3. ASSUME NEW i \in DOMAIN t, NEW j \in DOMAIN t, t[i] = t[j]
      PROVE  i = j
  <2>1. n + i \in 1 .. Len(s) /\ n + j \in 1 .. Len(s) /\ s[n + i] = s[n + j]
    BY <1>1, <1>2, <1>3, SMTT(30)
  <2> QED
    BY <2>1, <1>2
<1>4. ASSUME NEW i \in DOMAIN t
      PROVE  t[i] \in {s[m] : m \in DOMAIN s} \ Oldest(s, n)
  <2>1. n + i \in DOMAIN s /\ t[i] = s[n + i] /\ n + i > n
    BY <1>1, <1>2
  <2>2. ASSUME NEW m \in 1 .. n, s[m] = s[n + i]
        PROVE  FALSE
    BY <2>1, <2>2, <1>2
  <2> QED
    BY <2>1, <2>2 DEF Oldest
<1>5. ASSUME NEW m \in DOMAIN s, s[m] \notin Oldest(s, n)
      PROVE  s[m] \in {t[i] : i \in DOMAIN t}
  <2>1. m > n
    BY <1>2, <1>5 DEF Oldest
  <2>2. m - n \in DOMAIN t /\ t[m - n] = s[m]
    BY <2>1, <1>1, <1>2
  <2> QED
    BY <2>2
<1>6. {t[i] : i \in DOMAIN t} = {s[i] : i \in DOMAIN s} \ Oldest(s, n)
  BY <1>4, <1>5
<1> QED
  BY <1>1, <1>3, <1>6 DEF t

\* The first element of a sequence and the others.
LEMMA HeadAndTail ==
    ASSUME NEW S, NEW s \in Seq(S), s # <<>>
    PROVE  /\ Len(s) \in Nat /\ Len(s) >= 1
           /\ Head(s) = s[1] /\ s[1] \in S
           /\ Tail(s) \in Seq(S) /\ Len(Tail(s)) = Len(s) - 1
           /\ \A i \in 1 .. Len(s) - 1 : Tail(s)[i] = s[i + 1]
<1>1. Len(s) \in Nat /\ Len(s) >= 1
  BY EmptySeq
<1>2. s[1] \in S
  BY <1>1
<1> QED
  BY <1>1, <1>2, HeadTailProperties

\* The cache after trimming, when the queue of completed keys named exactly the
\* answered entries before it.
LEMMA TrimmedCache ==
    ASSUME Types, EntriesOwn,
           NEW done \in Seq(Keys), NEW n \in 0 .. Len(done), Trimmed(done, n),
           \A i, j \in 1 .. Len(done) : done[i] = done[j] => i = j,
           {done[i] : i \in DOMAIN done} = {k \in Held : answer'[entry[k]] # "none"},
           \A k \in Held : original'[entry[k]] = original[entry[k]]
    PROVE  /\ entry' \in [Keys -> Calls \cup {NoCall}]
           /\ completed' \in Seq(Keys)
           /\ EntriesOwn'
           /\ EvictableExact'
           /\ \A k \in Held : answer'[entry[k]] = "none" => entry'[k] = entry[k]
<1>1. /\ completed' \in Seq(Keys)
      /\ {completed'[i] : i \in DOMAIN completed'} = {done[i] : i \in DOMAIN done} \ Oldest(done, n)
      /\ \A i, j \in DOMAIN completed' : completed'[i] = completed'[j] => i = j
  BY DropOldest, SMTT(30) DEF Trimmed
<1>2. Oldest(done, n) \subseteq {done[i] : i \in DOMAIN done}
  BY DEF Oldest
<1>3. \A k \in Keys : entry'[k] = IF k \in Oldest(done, n) THEN NoCall ELSE entry[k]
  BY DEF Trimmed
<1>4. entry' \in [Keys -> Calls \cup {NoCall}]
  BY DEF Trimmed, Types
<1>5. Held' = Held \ Oldest(done, n)
  BY <1>3 DEF Held
<1>6. {k \in Held' : answer'[entry'[k]] # "none"}
         = {k \in Held : answer'[entry[k]] # "none"} \ Oldest(done, n)
  BY <1>3, <1>5 DEF Held
<1>7. EvictableExact'
  BY <1>1, <1>6 DEF EvictableExact
<1>8. EntriesOwn'
  BY <1>3 DEF EntriesOwn, Held
<1>9. \A k \in Held : answer'[entry[k]] = "none" => entry'[k] = entry[k]
  BY <1>2, <1>3 DEF Held
<1> QED
  BY <1>1, <1>4, <1>7, <1>8, <1>9

-----------------------------------------------------------------------------
(* What the answer of one call leaves alone.                               *)

\* The answer of a call that was not accepted changes nothing for the cache and
\* for the calls that were.
LEMMA OthersAnswer ==
    ASSUME Types, EntriesOwn, NEW c \in Calls, original[c] # c, c \notin started, StartedOwn,
           answer' \in [Calls -> Codes],
           \A d \in Calls \ {c} : answer'[d] = answer[d] /\ original'[d] = original[d]
    PROVE  /\ \A k \in Held : answer'[entry[k]] = answer[entry[k]] /\ original'[entry[k]] = original[entry[k]]
           /\ \A d \in Calls : Live(d) => d # c /\ answer'[d] = "none" /\ original'[d] = d
           /\ started' = started => StartedOwn'
<1>1. \A k \in Held : entry[k] \in Calls \ {c}
  BY DEF Held, Types, EntriesOwn
<1>2. \A d \in Calls : Live(d) => d # c /\ answer'[d] = "none" /\ original'[d] = d
  BY DEF Live
<1>3. started' = started => StartedOwn'
  BY DEF StartedOwn, Types
<1> QED
  BY <1>1, <1>2, <1>3

\* Complete answers a live call, hands its key to the queue of completed keys and
\* keeps the other live calls live.
LEMMA CompleteLive ==
    ASSUME IInv, NEW c \in Calls, Live(c), NEW code \in Codes, code # "none",
           Complete(c, code), UNCHANGED original
    PROVE  /\ answer' \in [Calls -> Codes]
           /\ entry' \in [Keys -> Calls \cup {NoCall}]
           /\ completed' \in Seq(Keys)
           /\ answer'[c] = code
           /\ \A d \in Calls \ {c} : answer'[d] = answer[d]
           /\ \A d \in Calls \ {c} : Live(d) => Live(d)'
           /\ EntriesOwn'
           /\ EvictableExact'
<1> DEFINE k0 == KeyOf[c]
           done == Append(completed, k0)
<1>1. k0 \in Keys /\ entry[k0] = c /\ c # NoCall /\ answer[c] = "none"
  BY CallAssumption DEF Live
<1>2. completed \in Seq(Keys) /\ Len(completed) \in Nat /\ DOMAIN completed = 1 .. Len(completed)
  BY DEF IInv, Types
<1>3. \A i \in 1 .. Len(completed) : completed[i] # k0
  BY <1>1, <1>2 DEF IInv, EvictableExact
<1>4. /\ done \in Seq(Keys)
      /\ Len(done) = Len(completed) + 1
      /\ \A i \in 1 .. Len(completed) : done[i] = completed[i]
      /\ done[Len(completed) + 1] = k0
  BY <1>1, <1>2, AppendProperties
<1>5. PICK n \in 0 .. Len(done) : Trimmed(done, n)
  BY <1>1 DEF Complete
<1> HIDE DEF done, k0
<1>6. DOMAIN done = 1 .. Len(completed) + 1
  BY <1>2, <1>4
<1>7. \A i, j \in 1 .. Len(completed) : completed[i] = completed[j] => i = j
  BY <1>2 DEF IInv, EvictableExact
<1>8. \A i, j \in 1 .. Len(done) : done[i] = done[j] => i = j
  BY <1>2, <1>3, <1>4, <1>7
<1>9. {done[i] : i \in DOMAIN done} = {completed[i] : i \in DOMAIN completed} \cup {k0}
  <2>1. \A i \in DOMAIN done : done[i] \in {completed[m] : m \in DOMAIN completed} \cup {k0}
    BY <1>2, <1>4, <1>6
  <2>2. \A i \in DOMAIN completed : completed[i] \in {done[m] : m \in DOMAIN done}
    BY <1>2, <1>4, <1>6
  <2>3. k0 \in {done[m] : m \in DOMAIN done}
    BY <1>2, <1>4, <1>6
  <2> QED
    BY <2>1, <2>2, <2>3
<1>10. /\ answer' \in [Calls -> Codes]
       /\ answer'[c] = code
       /\ \A d \in Calls \ {c} : answer'[d] = answer[d]
  BY <1>1 DEF Complete, IInv, Types
<1>11. \A k \in Held : k # k0 => entry[k] \in Calls \ {c}
  BY DEF IInv, Types, EntriesOwn, Held, k0
<1>12. {done[i] : i \in DOMAIN done} = {k \in Held : answer'[entry[k]] # "none"}
  <2>1. {completed[i] : i \in DOMAIN completed} = {k \in Held : answer[entry[k]] # "none"}
    BY DEF IInv, EvictableExact
  <2>2. k0 \in Held
    BY <1>1 DEF Held
  <2> QED
    BY <1>1, <1>9, <1>10, <1>11, <2>1, <2>2
<1>13. /\ entry' \in [Keys -> Calls \cup {NoCall}]
       /\ completed' \in Seq(Keys)
       /\ EntriesOwn'
       /\ EvictableExact'
       /\ \A k \in Held : answer'[entry[k]] = "none" => entry'[k] = entry[k]
  BY <1>4, <1>5, <1>8, <1>12, TrimmedCache DEF IInv
<1>14. ASSUME NEW d \in Calls \ {c}, Live(d)
       PROVE  Live(d)'
  <2>1. KeyOf[d] \in Held /\ entry[KeyOf[d]] = d
    BY <1>14, CallAssumption DEF Live, Held
  <2>2. entry'[KeyOf[d]] = d
    BY <2>1, <1>10, <1>13, <1>14 DEF Live
  <2> QED
    BY <2>2, <1>10, <1>14 DEF Live
<1> QED
  BY <1>10, <1>13, <1>14

\* Work that stays where it is stays pending.
LEMMA PlacesKept ==
    ASSUME IInv, UNCHANGED <<queue, abandoned, worker, started, disposal>>,
           \A d \in Calls : Live(d) => Live(d)'
    PROVE  PendingLive' /\ OnePlace' /\ WorkersOrderly'
<1>1. /\ \A i \in 1 .. Len(queue) : queue[i] \in Calls
      /\ \A i \in 1 .. Len(abandoned) : abandoned[i] \in Calls
  BY DEF IInv, Types
<1>2. PendingLive'
  BY <1>1 DEF IInv, PendingLive, Busy
<1>3. OnePlace'
  BY DEF IInv, OnePlace, Busy
<1>4. WorkersOrderly'
  BY DEF IInv, WorkersOrderly, At
<1> QED
  BY <1>2, <1>3, <1>4

-----------------------------------------------------------------------------
(* The actions of the callers.                                             *)

\* The invariant holds when the service is constructed.
LEMMA InitStep == Init => IInv
<1> SUFFICES ASSUME Init PROVE IInv
  OBVIOUS
<1> USE DEF Init
<1>1. Types
  BY DEF Types, Idle, Places, Codes
<1>2. EvictableExact
  BY DEF EvictableExact, Held
<1>3. PendingLive /\ OnePlace /\ WorkersOrderly
  BY DEF PendingLive, OnePlace, WorkersOrderly, Busy, At, Idle
<1>4. EntriesOwn /\ StartedOwn
  BY DEF EntriesOwn, StartedOwn
<1> QED
  BY <1>1, <1>2, <1>3, <1>4 DEF IInv

\* An unsent call is nobody's original.
LEMMA UnsentOutside ==
    ASSUME IInv, NEW c \in Calls, Unsent(c)
    PROVE  original[c] # c /\ c \notin started
BY CallAssumption DEF IInv, StartedOwn, Unsent

\* A verdict that refuses a call is the code of its response.
LEMMA VerdictCode ==
    ASSUME NEW c \in Calls, Verdict(c) \notin {"replay", "slot"}
    PROVE  Verdict(c) \in Codes \ {"none"}
BY DEF Verdict, Codes

\* A call refused by one of the checks of SubmitAsync.
LEMMA SubmitRefusedStep ==
    ASSUME IInv, NEW c \in Calls, SubmitRefused(c) PROVE IInv'
<1>1. /\ answer' \in [Calls -> Codes] /\ answer'[c] # "none"
      /\ \A d \in Calls \ {c} : answer'[d] = answer[d] /\ original'[d] = original[d]
      /\ original' = original
  BY VerdictCode DEF SubmitRefused, Refuse, IInv, Types
<1>2. /\ UNCHANGED <<queue, abandoned, worker, started, disposal>>
      /\ UNCHANGED <<entry, completed>>
  BY DEF SubmitRefused, queueVars, disposeVars, cacheVars
<1>3. /\ \A k \in Held : answer'[entry[k]] = answer[entry[k]] /\ original'[entry[k]] = original[entry[k]]
      /\ \A d \in Calls : Live(d) => d # c /\ answer'[d] = "none" /\ original'[d] = d
      /\ StartedOwn'
  BY <1>1, <1>2, UnsentOutside, OthersAnswer DEF IInv, SubmitRefused
<1>4. Types'
  BY <1>1, <1>2 DEF IInv, Types
<1>5. EntriesOwn' /\ EvictableExact'
  BY <1>2, <1>3 DEF IInv, EntriesOwn, EvictableExact, Held
<1>6. PendingLive' /\ OnePlace' /\ WorkersOrderly'
  BY <1>1, <1>2, <1>3, PlacesKept DEF Live
<1> QED
  BY <1>3, <1>4, <1>5, <1>6 DEF IInv

\* A call that joins the one that holds its key.
LEMMA SubmitReplayStep ==
    ASSUME IInv, NEW c \in Calls, SubmitReplay(c) PROVE IInv'
<1>1. KeyOf[c] \in Keys /\ entry[KeyOf[c]] \in Calls \cup {NoCall}
  BY CallAssumption DEF IInv, Types
<1>2. /\ answer' = answer
      /\ original' \in [Calls -> Calls \cup {NoCall}]
      /\ \A d \in Calls \ {c} : answer'[d] = answer[d] /\ original'[d] = original[d]
  BY <1>1 DEF SubmitReplay, IInv, Types
<1>3. /\ UNCHANGED <<queue, abandoned, worker, started, disposal>>
      /\ UNCHANGED <<entry, completed>>
  BY DEF SubmitReplay, queueVars, disposeVars, cacheVars
<1>4. answer' \in [Calls -> Codes]
  BY <1>2 DEF IInv, Types
<1>5. /\ \A k \in Held : answer'[entry[k]] = answer[entry[k]] /\ original'[entry[k]] = original[entry[k]]
      /\ \A d \in Calls : Live(d) => d # c /\ answer'[d] = "none" /\ original'[d] = d
      /\ StartedOwn'
  BY <1>2, <1>3, <1>4, UnsentOutside, OthersAnswer DEF IInv, SubmitReplay
<1>6. Types'
  BY <1>2, <1>3 DEF IInv, Types
<1>7. EntriesOwn' /\ EvictableExact'
  BY <1>3, <1>5 DEF IInv, EntriesOwn, EvictableExact, Held
<1>8. PendingLive' /\ OnePlace' /\ WorkersOrderly'
  BY <1>2, <1>3, <1>5, PlacesKept DEF Live
<1> QED
  BY <1>5, <1>6, <1>7, <1>8 DEF IInv

\* A call refused after the cache was trimmed in vain.
LEMMA SubmitCacheFullStep ==
    ASSUME IInv, NEW c \in Calls, SubmitCacheFull(c) PROVE IInv'
<1>1. /\ answer' \in [Calls -> Codes] /\ answer'[c] # "none"
      /\ \A d \in Calls \ {c} : answer'[d] = answer[d] /\ original'[d] = original[d]
      /\ original' = original
  BY DEF SubmitCacheFull, Refuse, IInv, Types, Codes
<1>2. UNCHANGED <<queue, abandoned, worker, started, disposal>>
  BY DEF SubmitCacheFull, queueVars, disposeVars
<1>3. /\ \A k \in Held : answer'[entry[k]] = answer[entry[k]] /\ original'[entry[k]] = original[entry[k]]
      /\ \A d \in Calls : Live(d) => d # c /\ answer'[d] = "none" /\ original'[d] = d
      /\ StartedOwn'
  BY <1>1, <1>2, UnsentOutside, OthersAnswer DEF IInv, SubmitCacheFull
<1>4. PICK n \in 0 .. Len(completed) : Trimmed(completed, n)
  BY DEF SubmitCacheFull
<1>5. /\ completed \in Seq(Keys)
      /\ \A i, j \in 1 .. Len(completed) : completed[i] = completed[j] => i = j
  BY DEF IInv, Types, EvictableExact
<1>6. {completed[i] : i \in DOMAIN completed} = {k \in Held : answer'[entry[k]] # "none"}
  BY <1>3 DEF IInv, EvictableExact
<1>7. /\ entry' \in [Keys -> Calls \cup {NoCall}]
      /\ completed' \in Seq(Keys)
      /\ EntriesOwn'
      /\ EvictableExact'
      /\ \A k \in Held : answer'[entry[k]] = "none" => entry'[k] = entry[k]
  BY <1>3, <1>4, <1>5, <1>6, TrimmedCache DEF IInv
<1>8. Types'
  BY <1>1, <1>2, <1>7 DEF IInv, Types
<1>9. ASSUME NEW d \in Calls, Live(d)
      PROVE  Live(d)'
  <2>1. KeyOf[d] \in Held
    BY <1>9, CallAssumption DEF Live, Held
  <2> QED
    BY <2>1, <1>3, <1>7, <1>9 DEF Live
<1>10. PendingLive' /\ OnePlace' /\ WorkersOrderly'
  BY <1>1, <1>2, <1>9, PlacesKept
<1> QED
  BY <1>3, <1>7, <1>8, <1>10 DEF IInv

\* The answer of a call that had joined another (ReplayAsync).
LEMMA ReplayReturnStep ==
    ASSUME IInv, NEW c \in Calls, ReplayReturn(c) PROVE IInv'
<1>1. original[c] \in Calls /\ original[c] # c /\ answer[original[c]] \in Codes
  BY DEF ReplayReturn, IInv, Types
<1>2. c \notin started
  BY <1>1 DEF IInv, StartedOwn
<1>3. /\ answer' \in [Calls -> Codes]
      /\ \A d \in Calls \ {c} : answer'[d] = answer[d] /\ original'[d] = original[d]
      /\ original' = original
  BY <1>1 DEF ReplayReturn, IInv, Types, Codes
<1>4. /\ UNCHANGED <<queue, abandoned, worker, started, disposal>>
      /\ UNCHANGED <<entry, completed>>
  BY DEF ReplayReturn, queueVars, disposeVars, cacheVars
<1>5. /\ \A k \in Held : answer'[entry[k]] = answer[entry[k]] /\ original'[entry[k]] = original[entry[k]]
      /\ \A d \in Calls : Live(d) => d # c /\ answer'[d] = "none" /\ original'[d] = d
      /\ StartedOwn'
  BY <1>1, <1>2, <1>3, <1>4, OthersAnswer DEF IInv
<1>6. Types'
  BY <1>3, <1>4 DEF IInv, Types
<1>7. EntriesOwn' /\ EvictableExact'
  BY <1>4, <1>5 DEF IInv, EntriesOwn, EvictableExact, Held
<1>8. PendingLive' /\ OnePlace' /\ WorkersOrderly'
  BY <1>3, <1>4, <1>5, PlacesKept DEF Live
<1> QED
  BY <1>5, <1>6, <1>7, <1>8 DEF IInv

\* The accepted call takes a key nobody holds.
LEMMA SubmitAcceptedStep ==
    ASSUME IInv, NEW c \in Calls, SubmitAccepted(c) PROVE IInv'
<1> DEFINE k0 == KeyOf[c]
<1>1. /\ k0 \in Keys /\ c # NoCall
      /\ entry[k0] = NoCall /\ disposal = "none"
      /\ answer[c] = "none" /\ original[c] = NoCall
  BY CallAssumption DEF SubmitAccepted, Verdict, Unsent, Disposed
<1>2. PICK n \in 0 .. Len(completed) :
         /\ entry' = EntryWith(c, n)
         /\ completed' = SubSeq(completed, n + 1, Len(completed))
  BY DEF SubmitAccepted
<1>3. /\ queue' = Append(queue, c)
      /\ original' \in [Calls -> Calls \cup {NoCall}]
      /\ original'[c] = c /\ \A d \in Calls \ {c} : original'[d] = original[d]
      /\ UNCHANGED <<answer, worker, abandoned, disposal, started>>
  BY DEF SubmitAccepted, Enqueue, disposeVars, IInv, Types
<1>4. /\ queue \in Seq(Calls) /\ Len(queue) \in Nat
      /\ queue' \in Seq(Calls) /\ Len(queue') = Len(queue) + 1
      /\ \A i \in 1 .. Len(queue) : queue'[i] = queue[i] /\ queue[i] \in Calls
      /\ queue'[Len(queue) + 1] = c
  BY <1>3, AppendProperties DEF IInv, Types
<1>5. /\ completed \in Seq(Keys)
      /\ \A i, j \in 1 .. Len(completed) : completed[i] = completed[j] => i = j
      /\ {completed[i] : i \in DOMAIN completed} = {k \in Held : answer[entry[k]] # "none"}
      /\ Oldest(completed, n) \subseteq {completed[i] : i \in DOMAIN completed}
  BY DEF IInv, Types, EvictableExact, Oldest
<1>6. /\ completed' \in Seq(Keys)
      /\ {completed'[i] : i \in DOMAIN completed'} =
            {completed[i] : i \in DOMAIN completed} \ Oldest(completed, n)
      /\ \A i, j \in DOMAIN completed' : completed'[i] = completed'[j] => i = j
  <2> DEFINE t == SubSeq(completed, n + 1, Len(completed))
  <2>1. /\ t \in Seq(Keys)
        /\ {t[i] : i \in DOMAIN t} = {completed[i] : i \in DOMAIN completed} \ Oldest(completed, n)
        /\ \A i, j \in DOMAIN t : t[i] = t[j] => i = j
    BY ONLY n \in 0 .. Len(completed), <1>5, DropOldest
  <2>2. completed' = t
    BY <1>2
  <2> HIDE DEF t
  <2> QED
    BY <2>1, <2>2
<1>7. /\ entry' \in [Keys -> Calls \cup {NoCall}]
      /\ entry'[k0] = c
      /\ \A k \in Keys \ {k0} : entry'[k] = IF k \in Oldest(completed, n) THEN NoCall ELSE entry[k]
  BY <1>1, <1>2 DEF EntryWith, IInv, Types
<1> HIDE DEF k0
<1>8. ASSUME NEW d \in Calls, Live(d)
      PROVE  d # c /\ Live(d)'
  <2>1. /\ KeyOf[d] \in Keys /\ d # NoCall /\ d # c
        /\ entry[KeyOf[d]] = d /\ answer[d] = "none" /\ original[d] = d
    BY <1>1, <1>8, CallAssumption DEF Live
  <2>2. KeyOf[d] # k0 /\ KeyOf[d] \notin Oldest(completed, n)
    BY <2>1, <1>1, <1>5
  <2> QED
    BY <2>1, <2>2, <1>3, <1>7 DEF Live
<1>9. Live(c)'
  BY <1>1, <1>3, <1>7 DEF Live, k0
<1>10. c \notin started
  BY <1>1 DEF IInv, StartedOwn
<1>11. Types'
  BY <1>3, <1>4, <1>6, <1>7 DEF IInv, Types
<1>12. EntriesOwn'
  <2>1. ASSUME NEW k \in Keys, k # k0, entry'[k] # NoCall
        PROVE  KeyOf[entry'[k]] = k /\ original'[entry'[k]] = entry'[k]
    BY <2>1, <1>1, <1>3, <1>7 DEF IInv, Types, EntriesOwn
  <2> QED
    BY <2>1, <1>3, <1>7 DEF EntriesOwn, k0
<1>13. EvictableExact'
  <2>1. Held' = (Held \ Oldest(completed, n)) \cup {k0}
    BY <1>1, <1>7 DEF Held
  <2>2. k0 \notin Held
    BY <1>1 DEF Held
  <2>3. {k \in Held' : answer'[entry'[k]] # "none"}
           = {k \in Held : answer[entry[k]] # "none"} \ Oldest(completed, n)
    BY <2>1, <2>2, <1>1, <1>3, <1>7 DEF Held
  <2> QED
    BY <2>3, <1>5, <1>6 DEF EvictableExact
<1>14. abandoned = <<>>
  BY <1>1 DEF IInv, OnePlace
<1>15. PendingLive'
  <2>1. (\A i \in 1 .. Len(queue) : Live(queue[i]) /\ queue[i] \notin started)'
    BY <1>3, <1>4, <1>8, <1>9, <1>10 DEF IInv, PendingLive
  <2>2. (\A w \in Workers : Busy(w) => worker[w].call \in Calls /\ Live(worker[w].call))'
    BY <1>3, <1>8 DEF IInv, PendingLive, Busy
  <2> QED
    BY <2>1, <2>2, <1>3, <1>14 DEF PendingLive
<1>16. OnePlace'
  <2>1. \A i \in 1 .. Len(queue) : queue[i] # c
    BY <1>4, <1>8 DEF IInv, PendingLive
  <2>2. \A i, j \in 1 .. Len(queue') : queue'[i] = queue'[j] => i = j
    BY <2>1, <1>4 DEF IInv, OnePlace
  <2>3. \A w \in Workers : Busy(w) => \A i \in 1 .. Len(queue') : queue'[i] # worker[w].call
    BY <1>4, <1>8 DEF IInv, PendingLive, OnePlace
  <2> QED
    BY <2>2, <2>3, <1>3, <1>14 DEF IInv, OnePlace, Busy
<1>17. WorkersOrderly'
  BY <1>3 DEF IInv, WorkersOrderly, At
<1>18. StartedOwn'
  BY <1>3, <1>10 DEF IInv, Types, StartedOwn
<1> QED
  BY <1>11, <1>12, <1>13, <1>15, <1>16, <1>17, <1>18 DEF IInv

-----------------------------------------------------------------------------
(* The actions of the workers.                                             *)

\* What a worker's step that touches neither the calls nor the cache keeps.
LEMMA CacheKept ==
    ASSUME IInv, UNCHANGED <<answer, original, entry, completed>>
    PROVE  /\ EntriesOwn' /\ EvictableExact'
           /\ \A d \in Calls : Live(d) => Live(d)'
BY DEF IInv, EntriesOwn, EvictableExact, Held, Live

\* A worker outside a call that stays outside one: WaitAsync in its outcomes.
LEMMA IdleStep ==
    ASSUME IInv, NEW w \in Workers, WorkerWake(w) \/ WorkerStop(w) PROVE IInv'
<1>1. /\ UNCHANGED <<answer, original, entry, completed, queue, abandoned, disposal, started>>
      /\ \E place \in {"awake", "stopped"} : worker' = [worker EXCEPT ![w].at = place]
  BY DEF WorkerWake, WorkerStop, callVars, queueVars, cacheVars, disposeVars
<1>2. /\ worker' \in [Workers -> [at : Places, call : Calls \cup {NoCall}, result : Codes]]
      /\ worker'[w].at \in {"awake", "stopped"}
      /\ \A v \in Workers \ {w} : worker'[v] = worker[v]
  BY <1>1 DEF IInv, Types, Places
<1>3. Types'
  BY <1>1, <1>2 DEF IInv, Types
<1>4. EntriesOwn' /\ EvictableExact' /\ \A d \in Calls : Live(d) => Live(d)'
  BY <1>1, CacheKept
<1>5. \A v \in Workers : Busy(v)' => v # w /\ Busy(v)
  BY <1>2 DEF Busy
<1>6. PendingLive'
  BY <1>1, <1>2, <1>4, <1>5 DEF IInv, Types, PendingLive
<1>7. OnePlace'
  BY <1>1, <1>2, <1>5 DEF IInv, OnePlace
<1>8. WorkersOrderly'
  BY <1>1, <1>2 DEF IInv, WorkersOrderly, At
<1>9. StartedOwn'
  BY <1>1 DEF IInv, StartedOwn
<1> QED
  BY <1>3, <1>4, <1>6, <1>7, <1>8, <1>9 DEF IInv

\* A call moves from the front of the queue to a worker (WorkerAsync).
LEMMA WorkerDequeueStep ==
    ASSUME IInv, NEW w \in Workers, WorkerDequeue(w) PROVE IInv'
<1>1. UNCHANGED <<answer, original, entry, completed, abandoned, disposal, started>>
  BY DEF WorkerDequeue, callVars, cacheVars, disposeVars
<1>2. EntriesOwn' /\ EvictableExact' /\ \A d \in Calls : Live(d) => Live(d)'
  BY <1>1, CacheKept
<1>3. StartedOwn'
  BY <1>1 DEF IInv, StartedOwn
<1>4. CASE queue = <<>>
  <2>1. /\ queue' = queue
        /\ worker' \in [Workers -> [at : Places, call : Calls \cup {NoCall}, result : Codes]]
        /\ worker'[w].at = "waiting"
        /\ \A v \in Workers \ {w} : worker'[v] = worker[v]
    <3>1. queue' = queue /\ worker' = [worker EXCEPT ![w] = Idle]
      BY <1>4 DEF WorkerDequeue, queueVars
    <3>2. /\ worker \in [Workers -> [at : Places, call : Calls \cup {NoCall}, result : Codes]]
          /\ Idle \in [at : Places, call : Calls \cup {NoCall}, result : Codes]
          /\ Idle.at = "waiting"
      BY DEF IInv, Types, Idle, Places, Codes
    <3> QED
      BY <3>1, <3>2
  <2>2. \A v \in Workers : Busy(v)' => v # w /\ Busy(v)
    BY <2>1 DEF Busy
  <2>3. Types'
    BY <1>1, <2>1 DEF IInv, Types
  <2>4. PendingLive'
    <3>1. (\A i \in 1 .. Len(queue) : Live(queue[i]) /\ queue[i] \notin started)'
      BY <1>1, <1>2, <2>1 DEF IInv, Types, PendingLive
    <3>2. (\A i \in 1 .. Len(abandoned) : Live(abandoned[i]) /\ abandoned[i] \notin started)'
      BY <1>1, <1>2 DEF IInv, Types, PendingLive
    <3>3. (\A v \in Workers : Busy(v) => worker[v].call \in Calls /\ Live(worker[v].call))'
      BY <1>2, <2>1, <2>2 DEF IInv, PendingLive
    <3> QED
      BY <3>1, <3>2, <3>3 DEF PendingLive
  <2>5. OnePlace'
    BY <1>1, <2>1, <2>2 DEF IInv, OnePlace
  <2>6. WorkersOrderly'
    BY <1>1, <2>1 DEF IInv, WorkersOrderly, At
  <2> QED
    BY <1>2, <1>3, <2>3, <2>4, <2>5, <2>6 DEF IInv
<1>5. CASE queue # <<>>
  <2>1. /\ queue \in Seq(Calls) /\ Len(queue) \in Nat /\ Len(queue) >= 1
        /\ queue' = Tail(queue) /\ queue' \in Seq(Calls) /\ Len(queue') = Len(queue) - 1
        /\ \A i \in 1 .. Len(queue') : queue'[i] = queue[i + 1]
        /\ Head(queue) = queue[1] /\ queue[1] \in Calls
    <3>1. queue \in Seq(Calls) /\ queue' = Tail(queue)
      BY <1>5 DEF WorkerDequeue, IInv, Types
    <3> QED
      BY <1>5, <3>1, HeadAndTail
  <2>2. /\ worker' \in [Workers -> [at : Places, call : Calls \cup {NoCall}, result : Codes]]
        /\ worker'[w].at = "processing" /\ worker'[w].call = queue[1]
        /\ \A v \in Workers \ {w} : worker'[v] = worker[v]
    <3>1. worker' = [worker EXCEPT ![w] =
                        [at |-> "processing", call |-> queue[1], result |-> "none"]]
      BY <1>5, <2>1 DEF WorkerDequeue
    <3>2. "processing" \in Places /\ "none" \in Codes
      BY DEF Places, Codes
    <3> QED
      BY <2>1, <3>1, <3>2 DEF IInv, Types
  <2>3. Live(queue[1]) /\ queue[1] \notin started
    BY <2>1 DEF IInv, PendingLive
  <2>4. \A v \in Workers : Busy(v)' => v = w \/ Busy(v)
    BY <2>2 DEF Busy
  <2>5. Types'
    BY <1>1, <2>1, <2>2 DEF IInv, Types
  <2>6. PendingLive'
    <3>1. (\A i \in 1 .. Len(queue) : Live(queue[i]) /\ queue[i] \notin started)'
      BY <1>1, <1>2, <2>1 DEF IInv, Types, PendingLive
    <3>2. (\A v \in Workers : Busy(v) => worker[v].call \in Calls /\ Live(worker[v].call))'
      BY <1>2, <2>1, <2>2, <2>3, <2>4 DEF IInv, PendingLive
    <3>3. (\A i \in 1 .. Len(abandoned) : Live(abandoned[i]) /\ abandoned[i] \notin started)'
      BY <1>1, <1>2 DEF IInv, Types, PendingLive
    <3> QED
      BY <3>1, <3>2, <3>3 DEF PendingLive
  <2>7. OnePlace'
    <3>1. abandoned' = <<>>
      BY <1>1, <1>5 DEF IInv, OnePlace
    <3>2. \A i, j \in 1 .. Len(queue') : queue'[i] = queue'[j] => i = j
      BY <2>1 DEF IInv, OnePlace
    <3>3. \A i \in 1 .. Len(queue') : queue'[i] # queue[1]
      BY <2>1 DEF IInv, OnePlace
    <3>4. \A u, v \in Workers : Busy(u)' /\ Busy(v)' /\ worker'[u].call = worker'[v].call => u = v
      BY <2>1, <2>2, <2>4 DEF IInv, OnePlace
    <3>5. \A v \in Workers : Busy(v)' => \A i \in 1 .. Len(queue') : queue'[i] # worker'[v].call
      BY <2>1, <2>2, <2>4, <3>3 DEF IInv, OnePlace
    <3> QED
      BY <3>1, <3>2, <3>4, <3>5 DEF OnePlace
  <2>8. WorkersOrderly'
    BY <1>1, <2>2, <2>3 DEF IInv, WorkersOrderly, At
  <2> QED
    BY <1>2, <1>3, <2>5, <2>6, <2>7, <2>8 DEF IInv
<1> QED
  BY <1>4, <1>5

\* A decision not to execute is the code of a response (ValidateExecution).
LEMMA DecisionCode ==
    ASSUME NEW c \in Calls, Decision(c) # "allowed"
    PROVE  Decision(c) \in Codes \ {"none"}
BY DEF Decision, Codes

\* A worker that keeps its call: ProcessAsync up to and after the executor.
LEMMA ProcessStep ==
    ASSUME IInv, NEW w \in Workers, ProcessStart(w) \/ ExecutorReturn(w) PROVE IInv'
<1> DEFINE c == worker[w].call
<1>1. UNCHANGED <<answer, original, entry, completed, queue, abandoned, disposal>>
  BY DEF ProcessStart, ExecutorReturn, callVars, queueVars, cacheVars, disposeVars
<1>2. Busy(w) /\ c \in Calls /\ Live(c)
  BY DEF ProcessStart, ExecutorReturn, Busy, At, IInv, PendingLive
<1>3. /\ worker' \in [Workers -> [at : Places, call : Calls \cup {NoCall}, result : Codes]]
      /\ worker'[w].at \in {"executing", "completing"} /\ worker'[w].call = c
      /\ \A v \in Workers \ {w} : worker'[v] = worker[v]
      /\ started \subseteq started' /\ started' \subseteq started \cup {c}
      /\ worker'[w].at = "completing" =>
            worker'[w].result # "none" /\ (c \in started' => worker'[w].result \in Executed)
  <2>1. CASE ProcessStart(w)
    <3>1. c \notin started
      BY <2>1 DEF ProcessStart, IInv, WorkersOrderly
    <3>2. CASE Decision(c) = "allowed"
      <4>1. /\ worker' = [worker EXCEPT ![w].at = "executing"]
            /\ started' = started \cup {c}
        BY <2>1, <3>2 DEF ProcessStart
      <4> QED
        BY <4>1, <1>2 DEF IInv, Types, Places
    <3>3. CASE Decision(c) # "allowed"
      <4>1. /\ worker' = [worker EXCEPT ![w].at = "completing", ![w].result = Decision(c)]
            /\ started' = started
        BY <2>1, <3>3 DEF ProcessStart
      <4>2. Decision(c) \in Codes \ {"none"}
        BY <1>2, <3>3, DecisionCode
      <4> QED
        BY <3>1, <4>1, <4>2, <1>2 DEF IInv, Types, Places
    <3> QED
      BY <3>2, <3>3
  <2>2. CASE ExecutorReturn(w)
    <3>1. PICK code \in Executed : worker' = [worker EXCEPT ![w].at = "completing", ![w].result = code]
      BY <2>2 DEF ExecutorReturn, Outcomes, Executed
    <3>2. started' = started
      BY <2>2 DEF ExecutorReturn
    <3> QED
      BY <3>1, <3>2, <1>2 DEF IInv, Types, Places, Codes, Executed
  <2> QED
    BY <2>1, <2>2
<1>4. EntriesOwn' /\ EvictableExact' /\ \A d \in Calls : Live(d) => Live(d)'
  BY <1>1, <1>3, CacheKept
<1> HIDE DEF c
<1>5. Types'
  BY <1>1, <1>2, <1>3 DEF IInv, Types
<1>6. \A v \in Workers : worker'[v].call = worker[v].call /\ (Busy(v)' <=> Busy(v))
  BY <1>2, <1>3 DEF Busy, c
<1>7. PendingLive'
  <2>1. \A i \in 1 .. Len(queue) : queue[i] \in Calls /\ queue[i] # c
    BY <1>2 DEF IInv, Types, OnePlace, c
  <2>2. \A i \in 1 .. Len(abandoned) : abandoned[i] \in Calls /\ abandoned[i] # c
    BY <1>2 DEF IInv, Types, OnePlace, c
  <2> QED
    BY <1>1, <1>3, <1>4, <1>6, <2>1, <2>2 DEF IInv, PendingLive
<1>8. OnePlace'
  BY <1>1, <1>6 DEF IInv, OnePlace
<1>9. WorkersOrderly'
  <2>1. ASSUME NEW v \in Workers, v # w, Busy(v)
        PROVE  worker[v].call # c
    BY <2>1, <1>2 DEF IInv, OnePlace, c
  <2>2. ASSUME NEW v \in Workers, v # w
        PROVE  /\ At(v, "processing")' => worker'[v].call \notin started'
               /\ At(v, "completing")' =>
                     /\ worker'[v].result # "none"
                     /\ worker'[v].call \in started' => worker'[v].result \in Executed
    BY <2>1, <2>2, <1>3 DEF IInv, WorkersOrderly, At, Busy
  <2> QED
    BY <2>2, <1>3 DEF WorkersOrderly, At
<1>10. StartedOwn'
  BY <1>1, <1>2, <1>3 DEF IInv, StartedOwn, Live
<1> QED
  BY <1>4, <1>5, <1>7, <1>8, <1>9, <1>10 DEF IInv

\* The worker completes its call and is free again.
LEMMA WorkerCompleteStep ==
    ASSUME IInv, NEW w \in Workers, WorkerComplete(w) PROVE IInv'
<1> DEFINE c == worker[w].call
           code == worker[w].result
<1>1. Busy(w) /\ c \in Calls /\ Live(c) /\ code \in Codes /\ code # "none"
  BY DEF WorkerComplete, Busy, At, IInv, PendingLive, Types, WorkersOrderly
<1>2. UNCHANGED <<original, queue, abandoned, disposal, started>>
  BY DEF WorkerComplete, queueVars, disposeVars
<1>3. /\ answer' \in [Calls -> Codes]
      /\ entry' \in [Keys -> Calls \cup {NoCall}]
      /\ completed' \in Seq(Keys)
      /\ answer'[c] = code
      /\ \A d \in Calls \ {c} : answer'[d] = answer[d]
      /\ \A d \in Calls \ {c} : Live(d) => Live(d)'
      /\ EntriesOwn'
      /\ EvictableExact'
  BY <1>1, <1>2, CompleteLive DEF WorkerComplete
<1>4. /\ worker' \in [Workers -> [at : Places, call : Calls \cup {NoCall}, result : Codes]]
      /\ worker'[w].at = "waiting"
      /\ \A v \in Workers \ {w} : worker'[v] = worker[v]
  BY DEF WorkerComplete, Idle, IInv, Types, Places, Codes
<1>5. c \in started => code \in Executed
  BY DEF WorkerComplete, IInv, WorkersOrderly
<1> HIDE DEF c, code
<1>6. Types'
  BY <1>2, <1>3, <1>4 DEF IInv, Types
<1>7. \A v \in Workers : Busy(v)' => v # w /\ Busy(v)
  BY <1>4 DEF Busy
<1>8. PendingLive'
  <2>1. \A i \in 1 .. Len(queue) : queue[i] \in Calls \ {c}
    BY <1>1 DEF IInv, Types, OnePlace, c
  <2>2. \A i \in 1 .. Len(abandoned) : abandoned[i] \in Calls \ {c}
    BY <1>1 DEF IInv, Types, OnePlace, c
  <2>3. \A v \in Workers : Busy(v)' => worker[v].call \in Calls \ {c} /\ Live(worker[v].call) /\ worker'[v] = worker[v]
    BY <1>1, <1>4, <1>7 DEF IInv, PendingLive, OnePlace, c
  <2> QED
    BY <1>2, <1>3, <2>1, <2>2, <2>3 DEF IInv, PendingLive
<1>9. OnePlace'
  BY <1>2, <1>4, <1>7 DEF IInv, OnePlace
<1>10. WorkersOrderly'
  BY <1>2, <1>4 DEF IInv, WorkersOrderly, At
<1>11. StartedOwn'
  BY <1>1, <1>2, <1>3, <1>5 DEF IInv, Types, StartedOwn
<1> QED
  BY <1>3, <1>6, <1>8, <1>9, <1>10, <1>11 DEF IInv

-----------------------------------------------------------------------------
(* Dispose.                                                                *)

\* The lock section of Dispose moves the queue to the abandoned calls.
LEMMA DisposeBeginStep == ASSUME IInv, DisposeBegin PROVE IInv'
<1>1. /\ UNCHANGED <<answer, original, entry, completed, worker, started>>
      /\ queue' = <<>> /\ abandoned' = queue /\ disposal' = "begun"
  BY DEF DisposeBegin, callVars, cacheVars
<1>2. EntriesOwn' /\ EvictableExact' /\ \A d \in Calls : Live(d) => Live(d)'
  BY <1>1, CacheKept
<1>3. Types'
  BY <1>1 DEF IInv, Types
<1>4. PendingLive'
  BY <1>1, <1>2 DEF IInv, Types, PendingLive, Busy
<1>5. OnePlace'
  BY <1>1 DEF IInv, OnePlace, Busy
<1>6. WorkersOrderly' /\ StartedOwn'
  BY <1>1 DEF IInv, WorkersOrderly, StartedOwn, At
<1> QED
  BY <1>2, <1>3, <1>4, <1>5, <1>6 DEF IInv

\* Dispose completes an abandoned call.
LEMMA DisposeAbandonStep == ASSUME IInv, DisposeAbandon PROVE IInv'
<1> DEFINE c == Head(abandoned)
<1>1. /\ abandoned \in Seq(Calls) /\ Len(abandoned) \in Nat /\ Len(abandoned) >= 1
      /\ c = abandoned[1] /\ c \in Calls
      /\ abandoned' \in Seq(Calls) /\ Len(abandoned') = Len(abandoned) - 1
      /\ \A i \in 1 .. Len(abandoned') : abandoned'[i] = abandoned[i + 1]
  <2>1. abandoned \in Seq(Calls) /\ abandoned # <<>> /\ abandoned' = Tail(abandoned)
    BY DEF DisposeAbandon, IInv, Types
  <2> QED
    BY <2>1, HeadAndTail
<1>2. Live(c) /\ c \notin started
  BY <1>1 DEF IInv, PendingLive
<1>3. /\ UNCHANGED <<original, queue, worker, disposal, started>>
      /\ Complete(c, "service_unavailable")
  BY DEF DisposeAbandon, queueVars
<1>4. "service_unavailable" \in Codes /\ "service_unavailable" # "none"
  BY DEF Codes
<1> HIDE DEF c
<1>5. /\ answer' \in [Calls -> Codes]
      /\ entry' \in [Keys -> Calls \cup {NoCall}]
      /\ completed' \in Seq(Keys)
      /\ \A d \in Calls \ {c} : answer'[d] = answer[d]
      /\ \A d \in Calls \ {c} : Live(d) => Live(d)'
      /\ EntriesOwn'
      /\ EvictableExact'
  BY <1>1, <1>2, <1>3, <1>4, CompleteLive
<1>6. Types'
  BY <1>1, <1>3, <1>5 DEF IInv, Types
<1>7. queue = <<>> /\ disposal # "none"
  BY <1>1 DEF IInv, OnePlace
<1>8. PendingLive'
  <2>1. \A i \in 1 .. Len(abandoned') : /\ abandoned'[i] \in Calls \ {c}
                                         /\ Live(abandoned[i + 1]) /\ abandoned[i + 1] \notin started
    BY <1>1 DEF IInv, PendingLive, OnePlace
  <2>2. \A w \in Workers : Busy(w) => worker[w].call \in Calls \ {c} /\ Live(worker[w].call)
    BY <1>1 DEF IInv, PendingLive, OnePlace
  <2>3. (\A i \in 1 .. Len(abandoned) : Live(abandoned[i]) /\ abandoned[i] \notin started)'
    BY <1>1, <1>3, <1>5, <2>1
  <2>4. (\A w \in Workers : Busy(w) => worker[w].call \in Calls /\ Live(worker[w].call))'
    BY <1>3, <1>5, <2>2 DEF Busy
  <2> QED
    BY <1>3, <1>7, <2>3, <2>4 DEF PendingLive
<1>9. OnePlace'
  BY SMTT(30), <1>1, <1>3, <1>7 DEF IInv, OnePlace, Busy
<1>10. WorkersOrderly'
  BY <1>3 DEF IInv, WorkersOrderly, At
<1>11. StartedOwn'
  BY <1>2, <1>3, <1>5 DEF IInv, Types, StartedOwn
<1> QED
  BY <1>5, <1>6, <1>8, <1>9, <1>10, <1>11 DEF IInv

-----------------------------------------------------------------------------
(* The theorems.                                                           *)

\* Every step preserves the invariant.
LEMMA NextStep == ASSUME IInv, [Next]_vars PROVE IInv'
<1>1. CASE UNCHANGED <<callVars, queueVars, cacheVars, worker, abandoned, started>>
           /\ (disposal = "none" => disposal' = "none" \/ abandoned = <<>>)
           /\ (disposal # "none" => disposal' # "none")
  <2>1. /\ UNCHANGED <<answer, original, queue, entry, completed, worker, abandoned, started>>
    BY <1>1 DEF callVars, queueVars, cacheVars
  <2>2. EntriesOwn' /\ EvictableExact' /\ \A d \in Calls : Live(d) => Live(d)'
    BY <2>1, CacheKept
  <2>3. Types'
    BY <2>1 DEF IInv, Types
  <2>4. PendingLive'
    <3>1. (\A i \in 1 .. Len(queue) : Live(queue[i]) /\ queue[i] \notin started)'
      BY <2>1, <2>2 DEF IInv, Types, PendingLive
    <3>2. (\A i \in 1 .. Len(abandoned) : Live(abandoned[i]) /\ abandoned[i] \notin started)'
      BY <2>1, <2>2 DEF IInv, Types, PendingLive
    <3>3. (\A w \in Workers : Busy(w) => worker[w].call \in Calls /\ Live(worker[w].call))'
      BY <2>1, <2>2 DEF IInv, PendingLive, Busy
    <3> QED
      BY <3>1, <3>2, <3>3 DEF PendingLive
  <2>5. OnePlace'
    BY <1>1, <2>1 DEF IInv, OnePlace, Busy
  <2>6. WorkersOrderly' /\ StartedOwn'
    BY <2>1 DEF IInv, WorkersOrderly, StartedOwn, At
  <2> QED
    BY <2>2, <2>3, <2>4, <2>5, <2>6 DEF IInv
<1>2. ASSUME NEW c \in Calls, Submit(c) \/ ReplayReturn(c)
      PROVE  IInv'
  BY <1>2, SubmitRefusedStep, SubmitReplayStep, SubmitCacheFullStep, SubmitAcceptedStep,
     ReplayReturnStep DEF Submit
<1>3. ASSUME NEW w \in Workers, WorkerStep(w) \/ ExecutorReturn(w)
      PROVE  IInv'
  BY <1>3, IdleStep, WorkerDequeueStep, ProcessStep, WorkerCompleteStep DEF WorkerStep
<1>4. ASSUME NEW c \in Calls, Cancel(c) \/ Expire(c)
      PROVE  IInv'
  BY <1>1, <1>4 DEF Cancel, Expire, disposeVars
<1>5. ASSUME NEW p \in Players, SetDenied(p)
      PROVE  IInv'
  BY <1>1, <1>5 DEF SetDenied, disposeVars
<1>6. CASE DisposeBegin
  BY <1>6, DisposeBeginStep
<1>7. CASE DisposeStep
  BY <1>1, <1>7, DisposeAbandonStep DEF DisposeStep, DisposeCancel, DisposeEnd
<1>8. CASE UNCHANGED vars
  BY <1>1, <1>8 DEF vars, disposeVars
<1> QED
  BY <1>2, <1>3, <1>4, <1>5, <1>6, <1>7, <1>8 DEF Next

\* The invariant holds throughout.
LEMMA Inductive == Spec => []IInv
<1>1. Init => IInv
  BY InitStep
<1>2. IInv /\ [Next]_vars => IInv'
  BY NextStep
<1> QED
  BY <1>1, <1>2, PTL DEF Spec

\* Under every interleaving of submissions, workers and Dispose, the queue of
\* evictable keys names exactly the answered entries (Complete,
\* TrimCompletedIdempotency): no entry in flight is ever evicted.
THEOREM EvictionIsSafe == Spec => []EvictableExact
<1>1. IInv => EvictableExact
  BY DEF IInv
<1> QED
  BY <1>1, Inductive, PTL

\* However many workers there are, two executions for one idempotency key never
\* overlap (SubmitAsync, ProcessAsync).
THEOREM OneExecutionPerKey == Spec => []NoOverlappingExecution
<1>1. ASSUME IInv, NEW v \in Workers, NEW w \in Workers,
             At(v, "executing"), At(w, "executing"),
             KeyOf[worker[v].call] = KeyOf[worker[w].call]
      PROVE  v = w
  <2>1. Busy(v) /\ Busy(w)
    BY <1>1 DEF Busy, At
  <2>2. worker[v].call = worker[w].call
    BY <1>1, <2>1 DEF IInv, PendingLive, Live
  <2> QED
    BY <1>1, <2>1, <2>2 DEF IInv, OnePlace
<1>2. IInv => NoOverlappingExecution
  BY <1>1 DEF NoOverlappingExecution
<1> QED
  BY <1>2, Inductive, PTL

\* A call that is answered as refused, denied, expired or abandoned never reached
\* the world executor (ProcessAsync, Dispose), also when Dispose races a worker.
THEOREM RefusalIsClean == Spec => []RefusedNeverStarted
<1>1. IInv => RefusedNeverStarted
  BY DEF IInv, StartedOwn, RefusedNeverStarted, Executed
<1> QED
  BY <1>1, Inductive, PTL

-----------------------------------------------------------------------------
(* The audit.                                                              *)

\* A record is lost only to a sink that threw.
Kept == \A c \in Calls : offered[c] # <<>> => c \in audited \cup Unrecorded

\* What the sink was offered: the answer of an answered call, the result a worker
\* is about to complete its call with, and nothing for any other call.
Offers ==
    /\ offered \in [Calls -> Seq(Codes)] /\ audited \subseteq Calls
    /\ \A c \in Calls : answer[c] # "none" => offered[c] = <<answer[c]>>
    /\ \A w \in Workers : At(w, "completing") => offered[worker[w].call] = <<worker[w].result>>
    /\ \A c \in Calls : answer[c] = "none" /\ offered[c] # <<>> =>
          \E w \in Workers : At(w, "completing") /\ worker[w].call = c

\* The record of a call that had none.
LEMMA AuditOnce ==
    ASSUME NEW c \in Calls, NEW code \in Codes, Offers, Kept, offered[c] = <<>>, Audit(c, code)
    PROVE  /\ offered' \in [Calls -> Seq(Codes)]
           /\ offered'[c] = <<code>>
           /\ \A d \in Calls \ {c} : offered'[d] = offered[d]
           /\ audited' \subseteq Calls
           /\ Kept'
<1>1. /\ offered' = [offered EXCEPT ![c] = Append(offered[c], code)]
      /\ offered \in [Calls -> Seq(Codes)]
  BY DEF Audit, Offers
<1>2. Append(offered[c], code) = <<code>> /\ <<code>> \in Seq(Codes)
  OBVIOUS
<1>3. /\ offered' \in [Calls -> Seq(Codes)]
      /\ offered'[c] = <<code>>
      /\ \A d \in Calls \ {c} : offered'[d] = offered[d]
  BY <1>1, <1>2
<1>4. /\ audited \subseteq audited' /\ c \in audited' \cup Unrecorded
      /\ audited' \subseteq Calls
  BY DEF Audit, Offers
<1> QED
  BY <1>3, <1>4 DEF Kept

\* A step that leaves the audit alone, answers nobody and keeps every worker with a
\* result where it is.
LEMMA AuditKept ==
    ASSUME Offers, Kept, UNCHANGED <<answer, offered, audited>>,
           \A w \in Workers : At(w, "completing") <=> At(w, "completing")',
           \A w \in Workers : At(w, "completing") => worker'[w] = worker[w]
    PROVE  Offers' /\ Kept'
<1>1. Kept'
  BY DEF Kept
<1>2. ASSUME NEW c \in Calls, answer[c] = "none", offered[c] # <<>>
      PROVE  \E w \in Workers : At(w, "completing")' /\ worker'[w].call = c
  <2>1. PICK w \in Workers : At(w, "completing") /\ worker[w].call = c
    BY <1>2 DEF Offers
  <2> QED
    BY <2>1
<1>3. ASSUME NEW w \in Workers, At(w, "completing")'
      PROVE  offered'[worker'[w].call] = <<worker'[w].result>>
  BY <1>3 DEF Offers
<1> QED
  BY <1>1, <1>2, <1>3 DEF Offers

\* A call in no worker's hands that is offered to the sink and answered with the
\* same code in one step.
LEMMA AuditAnswered ==
    ASSUME Offers, Kept, NEW c \in Calls, NEW code \in Codes, code # "none",
           answer \in [Calls -> Codes], answer[c] = "none",
           \A w \in Workers : At(w, "completing") => worker[w].call \in Calls \ {c},
           Audit(c, code), worker' = worker,
           answer'[c] = code, \A d \in Calls \ {c} : answer'[d] = answer[d]
    PROVE  Offers' /\ Kept'
<1>1. offered[c] = <<>>
  BY DEF Offers
<1>2. /\ offered' \in [Calls -> Seq(Codes)]
      /\ offered'[c] = <<code>>
      /\ \A d \in Calls \ {c} : offered'[d] = offered[d]
      /\ audited' \subseteq Calls
      /\ Kept'
  BY <1>1, AuditOnce
<1>3. \A w \in Workers : At(w, "completing")' <=> At(w, "completing")
  BY DEF At
<1>4. (\A d \in Calls : answer[d] # "none" => offered[d] = <<answer[d]>>)'
  BY <1>2 DEF Offers
<1>5. (\A w \in Workers : At(w, "completing") => offered[worker[w].call] = <<worker[w].result>>)'
  BY <1>2, <1>3 DEF Offers
<1>6. ASSUME NEW d \in Calls, answer'[d] = "none", offered'[d] # <<>>
      PROVE  \E w \in Workers : At(w, "completing")' /\ worker'[w].call = d
  BY <1>2, <1>3, <1>6 DEF Offers
<1> QED
  BY <1>2, <1>4, <1>5, <1>6 DEF Offers

\* A caller that is answered without a worker, or that begins to wait.
LEMMA AuditCallers ==
    ASSUME IInv, Offers, Kept, NEW c \in Calls, Submit(c) \/ ReplayReturn(c)
    PROVE  Offers' /\ Kept'
<1>1. CASE SubmitReplay(c) \/ SubmitAccepted(c)
  <2>1. UNCHANGED <<answer, offered, audited, worker>>
    BY <1>1 DEF SubmitReplay, SubmitAccepted, Enqueue, auditVars
  <2> QED
    BY <2>1, AuditKept DEF At
<1>2. CASE SubmitRefused(c) \/ SubmitCacheFull(c) \/ ReplayReturn(c)
  <2>1. answer[c] = "none" /\ original[c] # c /\ answer \in [Calls -> Codes]
    BY <1>2, CallAssumption DEF SubmitRefused, SubmitCacheFull, ReplayReturn, Unsent, IInv, Types
  <2>2. \A w \in Workers : At(w, "completing") => worker[w].call \in Calls \ {c}
    BY <2>1 DEF IInv, PendingLive, Busy, At, Live
  <2>3. PICK code \in Codes :
           /\ code # "none"
           /\ Audit(c, code)
           /\ answer' = [answer EXCEPT ![c] = code]
           /\ worker' = worker
    <3>1. CASE SubmitRefused(c)
      BY <3>1, VerdictCode DEF SubmitRefused, Refuse
    <3>2. CASE SubmitCacheFull(c)
      BY <3>2 DEF SubmitCacheFull, Refuse, Codes
    <3>3. CASE ReplayReturn(c)
      <4>1. original[c] \in Calls /\ answer[original[c]] \in Codes /\ "cancelled" \in Codes
        BY <3>3 DEF ReplayReturn, IInv, Types, Codes
      <4> QED
        BY <3>3, <4>1 DEF ReplayReturn
    <3> QED
      BY <1>2, <3>1, <3>2, <3>3
  <2> QED
    BY <2>1, <2>2, <2>3, AuditAnswered
<1> QED
  BY <1>1, <1>2 DEF Submit

\* The steps of the workers.
LEMMA AuditWorkers ==
    ASSUME IInv, Offers, Kept, NEW w \in Workers, WorkerStep(w) \/ ExecutorReturn(w)
    PROVE  Offers' /\ Kept'
<1> DEFINE c == worker[w].call
<1>1. worker \in [Workers -> [at : Places, call : Calls \cup {NoCall}, result : Codes]]
  BY DEF IInv, Types
<1>2. CASE WorkerWake(w) \/ WorkerStop(w) \/ WorkerDequeue(w)
  <2>1. UNCHANGED <<answer, offered, audited>> /\ ~At(w, "completing")
    BY <1>2 DEF WorkerWake, WorkerStop, WorkerDequeue, callVars, auditVars, At
  <2>2. ~At(w, "completing")' /\ \A v \in Workers \ {w} : worker'[v] = worker[v]
    BY <1>1, <1>2 DEF WorkerWake, WorkerStop, WorkerDequeue, At, Idle
  <2> QED
    BY <2>1, <2>2, AuditKept DEF At
<1>3. CASE WorkerComplete(w)
  <2>1. /\ c \in Calls /\ answer[c] = "none" /\ answer \in [Calls -> Codes]
        /\ offered[c] = <<worker[w].result>> /\ worker[w].result # "none"
    BY <1>3 DEF WorkerComplete, IInv, PendingLive, Busy, At, Live, Offers, WorkersOrderly, Types
  <2>2. /\ answer' = [answer EXCEPT ![c] = worker[w].result]
        /\ UNCHANGED <<offered, audited>>
    BY <1>3, <2>1 DEF WorkerComplete, Complete, auditVars
  <2>3. ~At(w, "completing")' /\ \A v \in Workers \ {w} : worker'[v] = worker[v]
    BY <1>1, <1>3 DEF WorkerComplete, At, Idle
  <2>4. (\A d \in Calls : answer[d] # "none" => offered[d] = <<answer[d]>>)'
    BY <2>1, <2>2 DEF Offers
  <2>5. (\A v \in Workers : At(v, "completing") => offered[worker[v].call] = <<worker[v].result>>)'
    BY <2>2, <2>3 DEF Offers, At
  <2>6. ASSUME NEW d \in Calls, answer'[d] = "none", offered'[d] # <<>>
        PROVE  \E v \in Workers : At(v, "completing")' /\ worker'[v].call = d
    <3>1. d # c /\ answer[d] = "none"
      BY <2>1, <2>2, <2>6
    <3>2. PICK v \in Workers : At(v, "completing") /\ worker[v].call = d
      BY <3>1, <2>2, <2>6 DEF Offers
    <3> QED
      BY <3>1, <3>2, <2>3 DEF At
  <2> QED
    BY <2>2, <2>4, <2>5, <2>6 DEF Offers, Kept
<1>4. CASE ProcessStart(w) /\ Decision(c) = "allowed"
  <2>1. UNCHANGED <<answer, offered, audited>> /\ ~At(w, "completing")
    BY <1>4 DEF ProcessStart, callVars, auditVars, At
  <2>2. ~At(w, "completing")' /\ \A v \in Workers \ {w} : worker'[v] = worker[v]
    BY <1>1, <1>4 DEF ProcessStart, At
  <2> QED
    BY <2>1, <2>2, AuditKept DEF At
<1>5. CASE \/ ProcessStart(w) /\ Decision(c) # "allowed"
           \/ ExecutorReturn(w)
  <2>1. /\ Busy(w) /\ ~At(w, "completing") /\ c \in Calls
        /\ answer' = answer /\ answer[c] = "none"
    BY <1>5 DEF ProcessStart, ExecutorReturn, Busy, At, IInv, PendingLive, Live, callVars
  <2>2. PICK code \in Codes :
           /\ worker' = [worker EXCEPT ![w].at = "completing", ![w].result = code]
           /\ Audit(c, code)
    <3>1. CASE ProcessStart(w) /\ Decision(c) # "allowed"
      BY <3>1, <2>1, DecisionCode DEF ProcessStart
    <3>2. CASE ExecutorReturn(w)
      BY <3>2 DEF ExecutorReturn, Outcomes, Codes
    <3> QED
      BY <1>5, <3>1, <3>2
  <2>3. \A v \in Workers : At(v, "completing") => v # w /\ worker[v].call # c
    BY <2>1 DEF IInv, OnePlace, Busy, At
  <2>4. offered[c] = <<>>
    BY <2>1, <2>3 DEF Offers
  <2>5. /\ offered' \in [Calls -> Seq(Codes)]
        /\ offered'[c] = <<code>>
        /\ \A d \in Calls \ {c} : offered'[d] = offered[d]
        /\ audited' \subseteq Calls
        /\ Kept'
    BY <2>1, <2>2, <2>4, AuditOnce
  <2>6. /\ worker'[w].at = "completing" /\ worker'[w].call = c /\ worker'[w].result = code
        /\ \A v \in Workers \ {w} : worker'[v] = worker[v]
    BY <1>1, <2>2
  <2>7. (\A d \in Calls : answer[d] # "none" => offered[d] = <<answer[d]>>)'
    BY <2>1, <2>5 DEF Offers
  <2>8. ASSUME NEW v \in Workers, At(v, "completing")'
        PROVE  offered'[worker'[v].call] = <<worker'[v].result>>
    <3>1. CASE v = w
      BY <3>1, <2>5, <2>6
    <3>2. CASE v # w
      <4>1. At(v, "completing") /\ worker'[v] = worker[v] /\ worker[v].call # c
        BY <3>2, <2>3, <2>6, <2>8 DEF At
      <4>2. worker[v].call \in Calls
        BY <4>1 DEF IInv, PendingLive, Busy, At
      <4> QED
        BY <4>1, <4>2, <2>5 DEF Offers
    <3> QED
      BY <3>1, <3>2
  <2>9. ASSUME NEW d \in Calls, answer'[d] = "none", offered'[d] # <<>>
        PROVE  \E v \in Workers : At(v, "completing")' /\ worker'[v].call = d
    <3>1. CASE d = c
      BY <3>1, <2>6 DEF At
    <3>2. CASE d # c
      <4>1. PICK v \in Workers : At(v, "completing") /\ worker[v].call = d
        BY <3>2, <2>1, <2>5, <2>9 DEF Offers
      <4> QED
        BY <4>1, <2>3, <2>6 DEF At
    <3> QED
      BY <3>1, <3>2
  <2> QED
    BY <2>5, <2>7, <2>8, <2>9 DEF Offers
<1> QED
  BY <1>2, <1>3, <1>4, <1>5 DEF WorkerStep

\* Dispose offers an abandoned call to the sink before it completes it.
LEMMA AuditAbandon ==
    ASSUME IInv, Offers, Kept, DisposeAbandon PROVE Offers' /\ Kept'
<1> DEFINE c == Head(abandoned)
<1>1. /\ abandoned \in Seq(Calls) /\ Len(abandoned) >= 1
      /\ c = abandoned[1] /\ c \in Calls
  <2>1. abandoned \in Seq(Calls) /\ abandoned # <<>>
    BY DEF DisposeAbandon, IInv, Types
  <2> QED
    BY <2>1, HeadAndTail
<1>2. answer[c] = "none" /\ answer \in [Calls -> Codes]
  BY <1>1 DEF IInv, PendingLive, Live, Types
<1>3. \A w \in Workers : At(w, "completing") => worker[w].call \in Calls \ {c}
  BY <1>1 DEF IInv, OnePlace, PendingLive, Busy, At
<1>4. /\ Audit(c, "service_unavailable") /\ worker' = worker
      /\ answer' = [answer EXCEPT ![c] = "service_unavailable"]
  BY <1>2 DEF DisposeAbandon, Complete
<1>5. "service_unavailable" \in Codes /\ "service_unavailable" # "none"
  BY DEF Codes
<1> HIDE DEF c
<1> QED
  BY <1>1, <1>2, <1>3, <1>4, <1>5, AuditAnswered

\* The audit agrees with the answers throughout.
LEMMA AuditOrderly == Spec => [](Offers /\ Kept)
<1>1. Init => Offers /\ Kept
  BY DEF Init, Offers, Kept, At, Idle
<1>2. IInv /\ Offers /\ Kept /\ [Next]_vars => Offers' /\ Kept'
  <2> SUFFICES ASSUME IInv, Offers, Kept, [Next]_vars PROVE Offers' /\ Kept'
    OBVIOUS
  <2>1. ASSUME NEW c \in Calls, Submit(c) \/ ReplayReturn(c) PROVE Offers' /\ Kept'
    BY <2>1, AuditCallers
  <2>2. ASSUME NEW w \in Workers, WorkerStep(w) \/ ExecutorReturn(w) PROVE Offers' /\ Kept'
    BY <2>2, AuditWorkers
  <2>3. CASE DisposeAbandon
    BY <2>3, AuditAbandon
  <2>4. CASE UNCHANGED <<answer, worker, auditVars>>
    BY <2>4, AuditKept DEF auditVars, At
  <2>5. CASE DisposeBegin \/ DisposeCancel \/ DisposeEnd \/ UNCHANGED vars
    BY <2>4, <2>5 DEF DisposeBegin, DisposeCancel, DisposeEnd, vars, callVars
  <2>6. ASSUME NEW c \in Calls, Cancel(c) \/ Expire(c) PROVE Offers' /\ Kept'
    BY <2>4, <2>6 DEF Cancel, Expire, callVars
  <2>7. ASSUME NEW p \in Players, SetDenied(p) PROVE Offers' /\ Kept'
    BY <2>4, <2>7 DEF SetDenied, callVars
  <2> QED
    BY <2>1, <2>2, <2>3, <2>5, <2>6, <2>7 DEF Next, DisposeStep
<1> QED
  BY <1>1, <1>2, Inductive, PTL DEF Spec

\* Before a call is answered, on whichever path, the sink is offered its record,
\* once and with the code of the answer; the record is missing only if the sink
\* threw (RelayAuthorityService.Audit).
THEOREM AuditComesFirst == Spec => []AnsweredIsAudited
<1>1. Offers /\ Kept => AnsweredIsAudited
  BY DEF Offers, Kept, AnsweredIsAudited
<1> QED
  BY <1>1, AuditOrderly, PTL

-----------------------------------------------------------------------------
(* The counts and the size of the cache.                                   *)

\* The positions of a sequence of calls that belong to player p.
Of(s, p) == {i \in DOMAIN s : PlayerOf[s[i]] = p}

\* The positions of a player are finitely many.
LEMMA OfFinite ==
    ASSUME NEW s \in Seq(Calls), NEW p
    PROVE  IsFiniteSet(Of(s, p)) /\ Cardinality(Of(s, p)) \in Nat
<1>0. Len(s) \in Int /\ DOMAIN s = 1 .. Len(s)
  OBVIOUS
<1>1. IsFiniteSet(1 .. Len(s)) /\ Of(s, p) \in SUBSET (1 .. Len(s))
  BY <1>0, FS_Interval DEF Of
<1>2. IsFiniteSet(Of(s, p))
  BY <1>1, FS_Subset
<1> QED
  BY <1>2, FS_CardinalityType

\* One more call at the end is one more of its player (SubmitAsync).
LEMMA OfAppend ==
    ASSUME NEW s \in Seq(Calls), NEW c \in Calls, NEW p
    PROVE  Cardinality(Of(Append(s, c), p)) =
              IF PlayerOf[c] = p THEN Cardinality(Of(s, p)) + 1 ELSE Cardinality(Of(s, p))
<1> DEFINE t == Append(s, c)
<1>1. /\ Len(s) \in Nat /\ DOMAIN s = 1 .. Len(s) /\ DOMAIN t = 1 .. Len(s) + 1
      /\ \A i \in 1 .. Len(s) : t[i] = s[i]
      /\ t[Len(s) + 1] = c
  BY AppendProperties
<1> HIDE DEF t
<1>2. CASE PlayerOf[c] = p
  <2>1. Of(t, p) = Of(s, p) \cup {Len(s) + 1}
    BY <1>1, <1>2 DEF Of
  <2>2. Len(s) + 1 \notin Of(s, p)
    BY <1>1 DEF Of
  <2> QED
    BY <1>2, <2>1, <2>2, OfFinite, FS_AddElement DEF t
<1>3. CASE PlayerOf[c] # p
  <2>1. Of(t, p) = Of(s, p)
    BY <1>1, <1>3 DEF Of
  <2> QED
    BY <1>3, <2>1 DEF t
<1> QED
  BY <1>2, <1>3

\* The call that leaves the front was one of its player (WorkerAsync).
LEMMA OfTail ==
    ASSUME NEW s \in Seq(Calls), s # <<>>, NEW p
    PROVE  Cardinality(Of(Tail(s), p)) =
              IF PlayerOf[Head(s)] = p THEN Cardinality(Of(s, p)) - 1 ELSE Cardinality(Of(s, p))
<1> DEFINE t == Tail(s)
           rest == Of(s, p) \ {1}
           f == [i \in Of(t, p) |-> i + 1]
<1>1. /\ Len(s) \in Nat /\ Len(s) >= 1 /\ Head(s) = s[1]
      /\ t \in Seq(Calls)
      /\ DOMAIN s = 1 .. Len(s) /\ DOMAIN t = 1 .. Len(s) - 1
      /\ \A i \in 1 .. Len(s) - 1 : t[i] = s[i + 1]
  BY HeadAndTail
<1> HIDE DEF t
<1>2. \A i \in Of(t, p) : i \in Int /\ i + 1 \in rest
  BY <1>1 DEF Of
<1>3. \A j \in rest : j \in Int /\ j - 1 \in Of(t, p)
  BY <1>1 DEF Of
<1>4. f \in Bijection(Of(t, p), rest)
  <2>1. f \in [Of(t, p) -> rest]
    BY <1>2
  <2>2. \A a, b \in Of(t, p) : f[a] = f[b] => a = b
    BY <1>2
  <2>3. ASSUME NEW j \in rest
        PROVE  \E i \in Of(t, p) : f[i] = j
    <3>1. j - 1 \in Of(t, p) /\ f[j - 1] = j
      BY <1>3
    <3> QED
      BY <3>1
  <2> HIDE DEF f, rest
  <2> QED
    BY <2>1, <2>2, <2>3, Fun_IsBij
<1>5. Cardinality(rest) = Cardinality(Of(t, p))
  <2>1. ExistsBijection(Of(t, p), rest)
    BY <1>4, Fun_ExistsBij
  <2>2. IsFiniteSet(Of(t, p))
    BY <1>1, OfFinite
  <2> HIDE DEF rest
  <2> QED
    BY <2>1, <2>2, FS_Bijection
<1>6. Cardinality(rest) = IF 1 \in Of(s, p) THEN Cardinality(Of(s, p)) - 1 ELSE Cardinality(Of(s, p))
  BY OfFinite, FS_RemoveElement
<1>7. 1 \in Of(s, p) <=> PlayerOf[Head(s)] = p
  BY <1>1 DEF Of
<1> QED
  BY <1>5, <1>6, <1>7 DEF t

\* CountsExact with the types the arithmetic needs.
CountsInv == playerCount \in [Players -> Nat] /\ CountsExact

\* The counts start with the queue.
LEMMA CountsInit == Init => CountsInv
<1>1. ASSUME Init PROVE \A p \in Players : {i \in DOMAIN queue : PlayerOf[queue[i]] = p} = {}
  BY <1>1 DEF Init
<1> QED
  BY <1>1, OptionsAssumption, FS_EmptySet DEF Init, CountsInv, CountsExact

\* Every step that changes the queue changes the counts with it.
LEMMA CountsStep == ASSUME IInv, CountsInv, [Next]_vars PROVE CountsInv'
<1>1. queue \in Seq(Calls) /\ Len(queue) \in Nat /\ globalCount = Len(queue)
      /\ \A p \in Players : /\ playerCount[p] = Cardinality(Of(queue, p))
                            /\ playerCount[p] \in Nat /\ playerCount[p] <= MaxPlayerQueue
  BY DEF IInv, Types, CountsInv, CountsExact, Of
<1>2. MaxPlayerQueue \in Nat /\ MaxGlobalQueue \in Nat
  BY OptionsAssumption
<1>3. CASE UNCHANGED queueVars
  BY <1>3 DEF CountsInv, CountsExact, queueVars
<1>4. ASSUME NEW c \in Calls, SubmitAccepted(c)
      PROVE  CountsInv'
  <2>1. globalCount < MaxGlobalQueue /\ playerCount[PlayerOf[c]] < MaxPlayerQueue /\ PlayerOf[c] \in Players
    BY <1>1, <1>2, <1>4, CallAssumption DEF SubmitAccepted, Verdict
  <2>2. /\ queue' = Append(queue, c) /\ globalCount' = globalCount + 1
        /\ playerCount' = [playerCount EXCEPT ![PlayerOf[c]] = @ + 1]
    BY <1>4 DEF SubmitAccepted, Enqueue
  <2>3. playerCount' \in [Players -> Nat]
    BY <2>1, <2>2, <1>1 DEF CountsInv
  <2>4. Len(queue') = Len(queue) + 1
    BY <1>1, <2>2, AppendProperties
  <2>5. ASSUME NEW p \in Players
        PROVE  playerCount'[p] = Cardinality(Of(queue', p)) /\ playerCount'[p] <= MaxPlayerQueue
    BY <2>1, <2>2, <1>1, <1>2, OfAppend DEF CountsInv
  <2>6. globalCount' = Len(queue') /\ globalCount' <= MaxGlobalQueue
    BY <2>1, <2>2, <2>4, <1>1, <1>2
  <2> QED
    BY <2>3, <2>5, <2>6 DEF CountsInv, CountsExact, Of
<1>5. ASSUME NEW w \in Workers, WorkerDequeue(w), queue # <<>>
      PROVE  CountsInv'
  <2> DEFINE q == PlayerOf[Head(queue)]
  <2>1. Head(queue) = queue[1] /\ queue[1] \in Calls /\ Len(queue) >= 1 /\ Len(Tail(queue)) = Len(queue) - 1
    BY <1>1, <1>5, HeadAndTail
  <2>2. /\ queue' = Tail(queue) /\ globalCount' = globalCount - 1
        /\ playerCount' = [playerCount EXCEPT ![q] = @ - 1]
        /\ q \in Players
    BY <1>5, <2>1, CallAssumption DEF WorkerDequeue
  <2> HIDE DEF q
  <2>3. ASSUME NEW p \in Players
        PROVE  /\ playerCount'[p] = Cardinality(Of(queue', p))
               /\ Cardinality(Of(queue', p)) <= Cardinality(Of(queue, p))
    BY <2>2, <1>1, <1>5, OfTail DEF CountsInv, q
  <2>4. \A p \in Players : Cardinality(Of(queue', p)) \in Nat
    BY <1>1, <1>5, <2>2, HeadTailProperties, OfFinite
  <2>5. playerCount' \in [Players -> Nat]
    BY <2>2, <2>3, <2>4 DEF CountsInv
  <2>6. \A p \in Players : playerCount'[p] <= MaxPlayerQueue
    BY <2>3, <2>4, <1>1, <1>2
  <2>7. globalCount' = Len(queue') /\ globalCount' <= MaxGlobalQueue
    BY <2>1, <2>2, <1>1, <1>2 DEF CountsInv, CountsExact
  <2> QED
    BY <2>3, <2>5, <2>6, <2>7 DEF CountsInv, CountsExact, Of
<1>6. CASE DisposeBegin
  <2>1. queue' = <<>> /\ globalCount' = 0 /\ playerCount' = [p \in Players |-> 0]
    BY <1>6 DEF DisposeBegin
  <2>2. \A p \in Players : {i \in DOMAIN queue' : PlayerOf[queue'[i]] = p} = {}
    BY <2>1
  <2> QED
    BY <2>1, <2>2, <1>2, FS_EmptySet DEF CountsInv, CountsExact
<1>7. ASSUME NEW c \in Calls,
             SubmitRefused(c) \/ SubmitReplay(c) \/ SubmitCacheFull(c) \/ ReplayReturn(c) \/ Cancel(c) \/ Expire(c)
      PROVE  UNCHANGED queueVars
  BY <1>7 DEF SubmitRefused, SubmitReplay, SubmitCacheFull, ReplayReturn, Cancel, Expire, queueVars
<1>8. ASSUME NEW w \in Workers,
             \/ WorkerWake(w) \/ WorkerStop(w) \/ (WorkerDequeue(w) /\ queue = <<>>)
             \/ ProcessStart(w) \/ WorkerComplete(w) \/ ExecutorReturn(w)
      PROVE  UNCHANGED queueVars
  BY <1>8 DEF WorkerWake, WorkerStop, WorkerDequeue, ProcessStart, WorkerComplete, ExecutorReturn, queueVars
<1>9. ASSUME DisposeStep \/ (\E p \in Players : SetDenied(p)) \/ UNCHANGED vars
      PROVE  UNCHANGED queueVars
  BY <1>9 DEF DisposeStep, DisposeCancel, DisposeAbandon, DisposeEnd, SetDenied, vars, queueVars
<1> QED
  BY <1>3, <1>4, <1>5, <1>6, <1>7, <1>8, <1>9 DEF Next, Submit, WorkerStep

\* The counts that decide who is refused are the queue's own and keep to their
\* limits, for all submissions, workers and Dispose (SubmitAsync, WorkerAsync).
THEOREM CountsAreExact == Spec => []CountsExact
<1>1. Init => CountsInv
  BY CountsInit
<1>2. IInv /\ CountsInv /\ [Next]_vars => CountsInv'
  BY CountsStep
<1>3. CountsInv => CountsExact
  BY DEF CountsInv
<1> QED
  BY <1>1, <1>2, <1>3, Inductive, PTL DEF Spec

\* CacheBounded for a cache that is finite.
CacheInv == IsFiniteSet(Held) /\ CacheBounded

\* A set that lost elements keeps to its limit.
LEMMA FewerKeys ==
    ASSUME CacheInv, Held' \subseteq Held PROVE CacheInv'
<1>1. /\ IsFiniteSet(Held') /\ Cardinality(Held') <= Cardinality(Held)
      /\ Cardinality(Held') \in Nat /\ Cardinality(Held) \in Nat
  BY FS_Subset, FS_CardinalityType DEF CacheInv
<1>2. MaxEntries \in Nat
  BY OptionsAssumption
<1> QED
  BY <1>1, <1>2 DEF CacheInv, CacheBounded

\* Only an accepted call adds a key, and trims first.
LEMMA CacheStep == ASSUME IInv, CacheInv, [Next]_vars PROVE CacheInv'
<1>1. CASE UNCHANGED cacheVars
  BY <1>1, FewerKeys DEF cacheVars, Held
<1>2. ASSUME NEW done, NEW n, Trimmed(done, n)
      PROVE  CacheInv'
  BY <1>2, FewerKeys DEF Trimmed, Held
<1>3. ASSUME NEW c \in Calls, SubmitAccepted(c)
      PROVE  CacheInv'
  <2>1. PICK n \in 0 .. Len(completed) :
           Cardinality(Held \ Oldest(completed, n)) < MaxEntries /\ entry' = EntryWith(c, n)
    BY <1>3 DEF SubmitAccepted
  <2> DEFINE rest == Held \ Oldest(completed, n)
  <2>2. IsFiniteSet(rest) /\ Cardinality(rest) \in Nat
    BY FS_Subset, FS_CardinalityType DEF CacheInv
  <2>3. Held' \subseteq rest \cup {KeyOf[c]}
    BY <2>1 DEF EntryWith, Held
  <2> HIDE DEF rest
  <2>4. /\ IsFiniteSet(rest \cup {KeyOf[c]})
        /\ Cardinality(rest \cup {KeyOf[c]}) \in Nat
        /\ Cardinality(rest \cup {KeyOf[c]}) <= Cardinality(rest) + 1
    <3>1. /\ IsFiniteSet(rest \cup {KeyOf[c]})
          /\ Cardinality(rest \cup {KeyOf[c]}) =
                IF KeyOf[c] \in rest THEN Cardinality(rest) ELSE Cardinality(rest) + 1
      BY <2>2, FS_AddElement
    <3> QED
      BY <2>2, <3>1
  <2>5. /\ IsFiniteSet(Held') /\ Cardinality(Held') \in Nat
        /\ Cardinality(Held') <= Cardinality(rest \cup {KeyOf[c]})
    BY <2>3, <2>4, FS_Subset, FS_CardinalityType
  <2>6. Cardinality(rest) < MaxEntries /\ MaxEntries \in Nat
    BY <2>1, OptionsAssumption DEF rest
  <2> QED
    BY <2>2, <2>4, <2>5, <2>6 DEF CacheInv, CacheBounded
<1>4. ASSUME NEW c \in Calls, SubmitCacheFull(c)
      PROVE  CacheInv'
  BY <1>2, <1>4 DEF SubmitCacheFull
<1>5. ASSUME NEW c, NEW code, Complete(c, code)
      PROVE  CacheInv'
  BY <1>1, <1>2, <1>5 DEF Complete
<1>6. ASSUME NEW c \in Calls,
             SubmitRefused(c) \/ SubmitReplay(c) \/ ReplayReturn(c) \/ Cancel(c) \/ Expire(c)
      PROVE  UNCHANGED cacheVars
  BY <1>6 DEF SubmitRefused, SubmitReplay, ReplayReturn, Cancel, Expire, cacheVars
<1>7. ASSUME NEW w \in Workers,
             WorkerWake(w) \/ WorkerStop(w) \/ WorkerDequeue(w) \/ ProcessStart(w) \/ ExecutorReturn(w)
      PROVE  UNCHANGED cacheVars
  BY <1>7 DEF WorkerWake, WorkerStop, WorkerDequeue, ProcessStart, ExecutorReturn, cacheVars
<1>8. ASSUME \/ DisposeBegin \/ DisposeCancel \/ DisposeEnd
             \/ (\E p \in Players : SetDenied(p)) \/ UNCHANGED vars
      PROVE  UNCHANGED cacheVars
  BY <1>8 DEF DisposeBegin, DisposeCancel, DisposeEnd, SetDenied, vars, cacheVars
<1>9. ASSUME NEW w \in Workers, WorkerComplete(w)
      PROVE  CacheInv'
  BY <1>5, <1>9 DEF WorkerComplete
<1>10. CASE DisposeAbandon
  BY <1>5, <1>10 DEF DisposeAbandon
<1> QED
  BY <1>1, <1>3, <1>4, <1>6, <1>7, <1>8, <1>9, <1>10 DEF Next, Submit, WorkerStep, DisposeStep

\* The cache never holds more than MaxIdempotencyEntries entries, although only
\* completed ones may be evicted (SubmitAsync, Complete).
THEOREM CacheStaysBounded == Spec => []CacheBounded
<1>1. Init => CacheInv
  <2>1. ASSUME Init PROVE Held = {}
    BY <2>1 DEF Init, Held
  <2> QED
    BY <2>1, OptionsAssumption, FS_EmptySet DEF CacheInv, CacheBounded
<1>2. IInv /\ CacheInv /\ [Next]_vars => CacheInv'
  BY CacheStep
<1>3. CacheInv => CacheBounded
  BY DEF CacheInv
<1> QED
  BY <1>1, <1>2, <1>3, Inductive, PTL DEF Spec

-----------------------------------------------------------------------------
(* Type correctness.                                                       *)

\* The part of TypeOK about the semaphore, Dispose and the callers.
RestTypes ==
    /\ permits \in Nat
    /\ disposal \in {"none", "begun", "abandoning", "released"}
    /\ cancelled \subseteq Calls /\ expired \subseteq Calls /\ denied \subseteq Players

\* A permit is taken only when there is one, and Dispose goes through its steps.
LEMMA RestTypesStep == ASSUME RestTypes, [Next]_vars PROVE RestTypes'
<1>1. CASE UNCHANGED <<permits, disposeVars, worldVars>>
  BY <1>1 DEF RestTypes, disposeVars, worldVars
<1>2. ASSUME NEW c \in Calls, SubmitRefused(c) \/ SubmitReplay(c) \/ SubmitCacheFull(c) \/ ReplayReturn(c)
      PROVE  UNCHANGED <<permits, disposeVars, worldVars>>
  BY <1>2 DEF SubmitRefused, SubmitReplay, SubmitCacheFull, ReplayReturn
<1>3. ASSUME NEW c \in Calls, SubmitAccepted(c)
      PROVE  RestTypes'
  BY <1>3 DEF SubmitAccepted, Enqueue, RestTypes, disposeVars, worldVars
<1>4. ASSUME NEW c \in Calls, Cancel(c) \/ Expire(c)
      PROVE  RestTypes'
  BY <1>4, CallAssumption DEF Cancel, Expire, RestTypes, disposeVars
<1>5. ASSUME NEW p \in Players, SetDenied(p)
      PROVE  RestTypes'
  BY <1>5 DEF SetDenied, RestTypes, disposeVars
<1>6. ASSUME NEW w \in Workers, WorkerWake(w)
      PROVE  RestTypes'
  BY <1>6 DEF WorkerWake, RestTypes, disposeVars, worldVars
<1>7. ASSUME NEW w \in Workers,
             WorkerStop(w) \/ WorkerDequeue(w) \/ ProcessStart(w) \/ WorkerComplete(w) \/ ExecutorReturn(w)
      PROVE  UNCHANGED <<permits, disposeVars, worldVars>>
  BY <1>7 DEF WorkerStop, WorkerDequeue, ProcessStart, WorkerComplete, ExecutorReturn
<1>8. CASE DisposeBegin \/ DisposeStep
  BY <1>8 DEF DisposeBegin, DisposeStep, DisposeCancel, DisposeAbandon, DisposeEnd, RestTypes, worldVars
<1>9. CASE UNCHANGED vars
  BY <1>1, <1>9 DEF vars
<1> QED
  BY <1>1, <1>2, <1>3, <1>4, <1>5, <1>6, <1>7, <1>8, <1>9 DEF Next, Submit, WorkerStep

\* Counts, cache and list of evictable keys are exact together, for any number
\* of calls, players, keys and workers and under any limits.
THEOREM BooksAreExact == Spec => []BooksExact
BY CountsAreExact, CacheStaysBounded, EvictionIsSafe, PTL DEF BooksExact

\* Type correctness of the authority service, counts that never turn negative
\* and a semaphore that never does included.
THEOREM RelayTypeCorrect == Spec => []TypeOK
<1>1. Init => RestTypes
  BY DEF Init, RestTypes
<1>2. RestTypes /\ [Next]_vars => RestTypes'
  BY RestTypesStep
<1>3. Init => CountsInv
  BY CountsInit
<1>4. IInv /\ CountsInv /\ [Next]_vars => CountsInv'
  BY CountsStep
<1>5. ASSUME IInv, CountsInv, RestTypes, Offers PROVE TypeOK
  <2>1. globalCount \in Nat /\ playerCount \in [Players -> Nat]
    BY <1>5 DEF CountsInv, CountsExact, IInv, Types
  <2>2. \A w \in Workers : worker[w].at \in Places /\ worker[w].call \in Calls \cup {NoCall}
    BY <1>5 DEF IInv, Types
  <2> QED
    BY <1>5, <2>1, <2>2 DEF IInv, Types, RestTypes, Offers, TypeOK
<1> QED
  BY <1>1, <1>2, <1>3, <1>4, <1>5, Inductive, AuditOrderly, PTL DEF Spec

=============================================================================
