---------------------------- MODULE TraceHistory ----------------------------
(***************************************************************************)
(* The reversible history of the debug adapter (ic10-dap, TraceHistory): a *)
(* bounded ring of replay records and a few full checkpoints, from which   *)
(* any retained state is rebuilt by restoring the latest checkpoint before *)
(* it and replaying the records in between, each verified by the writes it *)
(* made and by a state hash.                                               *)
(*                                                                         *)
(* A history is a record of the structure's fields; both deques are sets,  *)
(* their order being that of the sequence numbers.  state_hash covers the  *)
(* whole machine state, so the hash of a state is the state itself.        *)
(***************************************************************************)
EXTENDS ReplayMachine

CONSTANTS
    MaxEvents,           \* max_events
    CheckpointInterval,  \* checkpoint_interval
    RecordCost,          \* estimated size of a record,
    CheckpointCost,      \* of a checkpoint,
    MaxMemory            \* and max_memory_bytes, in one unit

\* TraceHistory::new forces these bounds on the launch arguments.
ASSUME HistoryAssumption ==
    /\ MaxEvents \in Nat /\ MaxEvents >= 2
    /\ CheckpointInterval \in 1 .. MaxEvents
    /\ RecordCost \in Nat /\ CheckpointCost \in Nat /\ MaxMemory \in Nat

Sequences(S) == {x.sequence : x \in S}

Least(S) == CHOOSE n \in S : \A m \in S : n <= m
Greatest(S) == CHOOSE n \in S : \A m \in S : m <= n

Checkpoint(n, s) == [sequence |-> n, snapshot |-> s]

NewHistory(s) == [records     |-> {},
                  checkpoints |-> {Checkpoint(0, s)},
                  cursor      |-> 0,
                  next        |-> 1]

Oldest(h) == Least(Sequences(h.checkpoints))

EstimatedMemory(h) == RecordCost * Cardinality(h.records)
                      + CheckpointCost * Cardinality(h.checkpoints)

\* The effect journal: the writes an operation that takes s to t adds to the
\* pending batch, each with the value before and after; the batch is a set, and
\* take_effects empties it.  The run states are left out: they are written along
\* with a pc, the slot or the tick, but for a hand step of a program that is over,
\* which is not journalled.
Journalled == {"tick", "slot", "pc", "ops", "field"}
Wrote(s, t) == {<<f, s[f], t[f]>> : f \in {g \in Journalled : s[g] # t[g]}}

-----------------------------------------------------------------------------
(* record.                                                                 *)

\* Mutant: the checkpoints of the abandoned future stay.
Rebranched_KeepsCheckpoints(h) ==
    [h EXCEPT !.records = {r \in h.records : r.sequence <= h.cursor},
              !.next = h.cursor + 1]

\* Recording from a state in the past first forgets the future it leaves.
Rebranched(h) ==
    [h EXCEPT !.records = {r \in h.records : r.sequence <= h.cursor},
              !.checkpoints = {k \in h.checkpoints : k.sequence <= h.cursor},
              !.next = h.cursor + 1]

\* The event flags Reverse Continue looks for: yield, a new tick, a stop.
IsLandmark(h, s, cpu, line, action) ==
    \/ action = "Stop"
    \/ cpu \in Cpus /\ line \in DOMAIN Programs[cpu] /\ Programs[cpu][line] = "yield"
    \/ \E r \in h.records : r.sequence = h.next - 1 /\ r.tick # s.tick

Appended(h, s, cpu, line, action, effects, failed) ==
    [records     |-> h.records \cup
                        {[sequence |-> h.next, tick |-> s.tick, cpu |-> cpu, line |-> line,
                          action |-> action, effects |-> effects, failed |-> failed, hash |-> s,
                          landmark |-> IsLandmark(h, s, cpu, line, action)]},
     checkpoints |-> IF h.next % CheckpointInterval = 0 \/ action = "External"
                     THEN h.checkpoints \cup {Checkpoint(h.next, s)} ELSE h.checkpoints,
     cursor      |-> h.next,
     next        |-> h.next + 1]

\* Mutant: the baseline record itself is kept, the checkpoints before the next go.
DropThrough_OffByOne(h, baseline) ==
    [h EXCEPT !.records = {r \in h.records : r.sequence >= baseline},
              !.checkpoints = {k \in h.checkpoints :
                    ~ \E j \in h.checkpoints : k.sequence < j.sequence /\ j.sequence <= baseline}]

\* drop_through: records up to the baseline go, and every checkpoint that has a
\* later one at or before the baseline.
DropThrough(h, baseline) ==
    [h EXCEPT !.records = {r \in h.records : r.sequence > baseline},
              !.checkpoints = {k \in h.checkpoints :
                    ~ \E j \in h.checkpoints : k.sequence < j.sequence /\ j.sequence <= baseline}]

\* The sequence number of the MaxEvents-th record from the back.
DesiredFirst(h) ==
    CHOOSE n \in Sequences(h.records) :
        Cardinality({r \in h.records : r.sequence >= n}) = MaxEvents

LaterCheckpoints(h) == {n \in Sequences(h.checkpoints) : n > Oldest(h)}

\* The event ring: too many records are cut back to the first later checkpoint
\* that leaves at most MaxEvents of them, or else to the current state.
Evicted(h, s) ==
    LET baselines == {n \in LaterCheckpoints(h) : n >= DesiredFirst(h)}
    IN  IF Cardinality(h.records) <= MaxEvents THEN h
        ELSE IF baselines # {} THEN DropThrough(h, Least(baselines))
        ELSE DropThrough([h EXCEPT !.checkpoints = @ \cup {Checkpoint(h.cursor, s)}], h.cursor)

\* The memory ceiling: the loop drops through the second checkpoint until the
\* estimate fits; when no checkpoint is late enough it anchors the history in
\* the current state and keeps nothing else.
Trimmed(h, s) ==
    LET baselines == {n \in LaterCheckpoints(h) : EstimatedMemory(DropThrough(h, n)) <= MaxMemory}
    IN  IF EstimatedMemory(h) <= MaxMemory THEN h
        ELSE IF baselines # {} THEN DropThrough(h, Least(baselines))
        ELSE [h EXCEPT !.records = {}, !.checkpoints = {Checkpoint(h.cursor, s)}]

Record(h, s, cpu, line, action, effects, failed) ==
    Trimmed(Evicted(Appended(Rebranched(h), s, cpu, line, action, effects, failed), s), s)

\* checkpoint_current replaces or adds the checkpoint at the cursor.
CheckpointCurrent(h, s) ==
    [h EXCEPT !.checkpoints = {k \in @ : k.sequence # h.cursor} \cup {Checkpoint(h.cursor, s)}]

-----------------------------------------------------------------------------
(* restore.                                                                *)

\* An outcome: the simulator, whether the replay still stands, and the writes
\* left pending in the journal.
Diverged(s, writes) == [sim |-> s, ok |-> FALSE, writes |-> writes]
Standing(s, writes) == [sim |-> s, ok |-> TRUE, writes |-> writes]

\* replay_result_matches, then take_effects: the writes must be the recorded
\* ones, and the state hash the recorded one.
Verified(r, result, writes) ==
    IF result.failed # r.failed THEN Diverged(result.sim, writes)
    ELSE IF writes # r.effects \/ result.sim # r.hash THEN Diverged(result.sim, {})
    ELSE Standing(result.sim, {})

\* Ticks that ended between two records are replayed by peeking: while the tick
\* is behind the record's, there must be nothing left to run in it.
CaughtUp(s, tick) ==
    LET peeked[n \in 0 .. tick] ==
            IF n = 0 THEN Standing(s, {})
            ELSE LET prev == peeked[n - 1]
                     p == Prepare(prev.sim)
                     writes == prev.writes \cup Wrote(prev.sim, p.sim)
                 IN  IF ~prev.ok \/ prev.sim.tick >= tick THEN prev
                     ELSE IF p.cpu = NoCpu THEN Standing(p.sim, writes)
                     ELSE Diverged(p.sim, writes)
    IN  peeked[tick]

\* Once caught up, the scheduler must be about to run the recorded instruction.
ReplayFrom(r, c) ==
    LET p == Prepare(c.sim)
        step == SchedulerStep(p.sim)
        peeked == c.writes \cup Wrote(c.sim, p.sim)
    IN  IF ~c.ok THEN c
        ELSE IF p.cpu = NoCpu \/ p.cpu # r.cpu THEN Diverged(p.sim, peeked)
        ELSE IF p.sim.pc[p.cpu] # r.line THEN Diverged(p.sim, peeked)
        ELSE Verified(r, step, peeked \cup Wrote(p.sim, step.sim))

\* Mutant: the ticks between two records are not caught up.
ReplayScheduled_NoCatchUp(r, s) ==
    LET p == Prepare(s)
        step == SchedulerStep(p.sim)
        peeked == Wrote(s, p.sim)
    IN  IF p.cpu # r.cpu THEN Diverged(p.sim, peeked)
        ELSE Verified(r, step, peeked \cup Wrote(p.sim, step.sim))

\* A function of the outcome of the peeks, which TLC then evaluates once.
ReplayScheduled(r, s) ==
    LET caught == CaughtUp(s, r.tick)
        from[c \in {caught}] == ReplayFrom(r, c)
    IN  from[caught]

\* The replay of one record, from a simulator with nothing pending.
Replayed(r, s) ==
    LET Replay(step) == Verified(r, step, Wrote(s, step.sim))
    IN  CASE r.action = "Scheduled"   -> ReplayScheduled(r, s)
          [] r.action = "Instruction" -> Replay(StepInstruction(s, r.cpu))
          [] r.action = "WorldTick"   -> Replay(StepWorldTick(s))
          [] r.action = "External"    -> Diverged(s, {})
          [] r.action = "Stop"        -> Replay([sim |-> s, failed |-> FALSE])

\* Mutant: the nearest checkpoint after the target is used as well.
Retained_Any(h, target) == {k \in h.checkpoints : k.sequence <= target + 1}

Retained(h, target) == {k \in h.checkpoints : k.sequence <= target}

\* restore, from the simulator state s with the writes pending: the state it
\* leaves the simulator and the journal in, and whether it succeeded; only then
\* does the cursor move.  A checkpoint is restored with an empty journal.
Restore(h, s, pending, target) ==
    LET base == CHOOSE k \in Retained(h, target) :
                    k.sequence = Greatest(Sequences(Retained(h, target)))
        after[n \in base.sequence .. target] ==
            IF n = base.sequence THEN Standing(base.snapshot, {})
            ELSE LET prev == after[n - 1]
                     now == {r \in h.records : r.sequence = n}
                 IN  IF ~prev.ok \/ now = {} THEN prev
                     ELSE Replayed(CHOOSE r \in now : TRUE, prev.sim)
    IN  IF Retained(h, target) = {} THEN Diverged(s, pending)
        ELSE IF base.sequence >= target THEN Standing(base.snapshot, {})
        ELSE after[target]

Moved(h, target) == [h EXCEPT !.cursor = target]

-----------------------------------------------------------------------------
(* Properties of a history.                                                *)

\* The ring is anchored: the records are the consecutive events after the
\* oldest checkpoint, no two checkpoints stand at the same event, the cursor
\* stands at a retained event, and every external change, which cannot be
\* replayed, has a checkpoint of its own (record, drop_through, restore).
Anchored(h) ==
    /\ \E k \in h.checkpoints :
          /\ Sequences(h.records) = (k.sequence + 1) .. (h.next - 1)
          /\ h.cursor \in k.sequence .. (h.next - 1)
          /\ \A j \in h.checkpoints : j.sequence \in k.sequence .. (h.next - 1)
    /\ \A j, k \in h.checkpoints : j.sequence = k.sequence => j = k
    /\ \A q, r \in h.records : q.sequence = r.sequence => q = r
    /\ \A r \in h.records :
          r.action = "External" => \E k \in h.checkpoints : k.sequence = r.sequence

\* The configured limits hold: at most MaxEvents records, and the memory estimate
\* is exceeded only when a single checkpoint is all that is left.
Bounded(h) ==
    /\ Cardinality(h.records) <= MaxEvents
    /\ \/ EstimatedMemory(h) <= MaxMemory
       \/ h.records = {} /\ Cardinality(h.checkpoints) = 1

\* Every retained event can be navigated to, and gives back the very state that
\* was recorded there, with nothing left pending in the journal
\* (p2-01-reversible-debugging.md: deterministic restore to any retained event).
Reachable(h) ==
    \A r \in h.records : Restore(h, InitSim, {}, r.sequence) = Standing(r.hash, {})
=============================================================================
