---------------------------- MODULE ChatStreamInv ----------------------------
(***************************************************************************)
(* The inductive invariant behind the frames of ChatResponseStream.  What  *)
(* the phone sees depends on every version of a record that is still       *)
(* around: in the map, in the file, in the snapshot of a save and in the   *)
(* hands of a call; and on the flushes of appends, whose chunks go out     *)
(* when they settle, even after their generation was abandoned.            *)
(***************************************************************************)
EXTENDS ChatLedgerInv, ChatResponseStream

\* The records for k with a responseId: those the store may bring back, and
\* those of the calls.
Filed(k) == {x \in {processed[k], disk[k], data[k]} : x.rid # 0}
OfCalls(k) == {x \in {call[c].rec : c \in {d \in Calls : call[d].key = k}} : x.rid # 0}
Versions(k) == Filed(k) \cup OfCalls(k)

\* A finished record agrees with the frames of its response.
Shown(k, x) ==
    isComplete(x) =>
        /\ \A i \in 1..x.n : Frame(k, x.rid, i, "chunk", i) \in frames
        /\ \A f \in frames : f.rid = x.rid =>
              /\ f.kind = "chunk" => f.seq <= x.n
              /\ f.kind = "completed" => f = Completed(k, x)

VersionOf(k, x) ==
    /\ k \in Events /\ x.rid <= fresh /\ x.n <= MaxChunks
    /\ \A f \in frames : f.rid = x.rid => f.ev = k
    /\ Shown(k, x)

\* A responseId belongs to one message and one answer.
SameAnswer(j, x, k, y) ==
    x.rid = y.rid =>
        /\ j = k
        /\ isComplete(x) /\ isComplete(y) => x.n = y.n /\ x.ans = y.ans

VersionInv ==
    \A k \in Keys : \A x \in Versions(k) :
        /\ VersionOf(k, x)
        /\ \A j \in Keys : \A y \in Versions(j) : SameAnswer(k, x, j, y)

\* The store cannot bring back a record without a fragment that was emitted.
Keeps(k, x) == \A f \in frames : f.kind = "chunk" /\ f.rid = x.rid => f.seq <= x.n
FiledInv == \A k \in Keys : \A x \in Filed(k) : Keeps(k, x)

\* A record of the old format has no fragments.
OldInv ==
    \A k \in Events : \A x \in {processed[k], disk[k], data[k]} : x.rid = 0 => x.n = 0

SnapshotInv == saving = NoFlush => data = disk

\* The shape of the frames of one response.
FrameOf(f) ==
    /\ f.rid \in 1..fresh /\ f.ev \in Events /\ f.seq \in 0..(MaxChunks + 1)
    /\ f = Frame(f.ev, f.rid, f.seq, f.kind, f.body)
    /\ \/ f.kind = "started" /\ f.seq = 0 /\ f.body = 0
       \/ f.kind = "chunk" /\ f.seq >= 1 /\ f.body = f.seq
       \/ f.kind = "completed" /\ f.seq >= 1
       \/ f.kind = "failed"

FramesInv ==
    \A f \in frames :
        /\ FrameOf(f)
        /\ \A g \in frames : f.rid = g.rid =>
              /\ f.ev = g.ev
              /\ f.kind = "completed" /\ g.kind = "chunk" => g.seq < f.seq
              /\ f.kind = "completed" /\ g.kind = "completed" => f = g

\* No answer of the response r exists.
Unfinished(r) ==
    /\ \A k \in Keys : \A x \in Versions(k) : x.rid = r => ~isComplete(x)
    /\ \A f \in frames : f.rid = r => f.kind # "completed"

Emitting == {"generating", "appending"}

\* The deliver that generates has emitted the chunks it has counted.
EmitterOf(c) ==
    /\ live[rid(c)].by = c /\ live[rid(c)].ev = call[c].key
    /\ \A i \in 1..live[rid(c)].seq : Frame(call[c].key, rid(c), i, "chunk", i) \in frames
    /\ \A f \in frames : f.kind = "chunk" /\ f.rid = rid(c) => f.seq <= live[rid(c)].seq
    /\ call[c].pc = "generating" /\ ~live[rid(c)].broken => live[rid(c)].seq = call[c].rec.n
    /\ call[c].pc = "appending" =>
          ~live[rid(c)].broken /\ call[c].rec.n = live[rid(c)].seq + 1

ProducerOf(c) ==
    /\ rid(c) # 0 => call[c].key \in Events
    /\ call[c].pc \in Streaming => \A d \in Calls \ {c} : rid(d) # rid(c)
    /\ call[c].pc = "opening" => \A f \in frames : f.rid # rid(c)
    /\ call[c].pc \in {"opening", "labelling"} => call[c].rec.n = 0
    /\ call[c].pc \in Producing => Unfinished(rid(c))
    /\ call[c].pc \in Emitting => EmitterOf(c)
    /\ At(c, "appending", "saved") =>
          \A k \in Keys : \A x \in Filed(k) : x.rid = rid(c) => x.n >= call[c].rec.n
    /\ call[c].pc = "ok" => isComplete(call[c].rec) /\ rid(c) # 0

ProducerInv == \A c \in Calls : ProducerOf(c)

\* The flush of an append that has not settled: nothing of its response is
\* finished, what will be stored has its fragment, and only the call that
\* appended can still be at work on it, waiting.
PendingOf(f) ==
    /\ f.by \in Calls /\ f.rid \in 1..fresh
    /\ Unfinished(f.rid)
    /\ live[f.rid].ev \in Events /\ live[f.rid].seq < MaxChunks
    /\ \A g \in frames : g.rid = f.rid => g.ev = live[f.rid].ev
    /\ \A k \in Keys : \A x \in Versions(k) : x.rid = f.rid => k = live[f.rid].ev
    /\ \A k \in Keys : processed[k].rid = f.rid => processed[k].n > live[f.rid].seq
    /\ \A c \in Calls : call[c].pc \in Streaming /\ rid(c) = f.rid =>
          c = f.by /\ call[c].pc = "appending" /\ call[c].flushed = "no"

PendingInv ==
    /\ saving.at = "appending" =>
          /\ PendingOf(saving)
          /\ \A k \in Keys : data[k].rid = saving.rid => data[k].n > live[saving.rid].seq
    /\ \A i \in 1..Len(queue) : queue[i].at = "appending" =>
          /\ PendingOf(queue[i])
          /\ saving.at = "appending" => saving.rid # queue[i].rid
          /\ \A j \in 1..Len(queue) :
                queue[j].at = "appending" /\ queue[j].rid = queue[i].rid => i = j

SInv ==
    /\ StreamTypeOK /\ fresh <= MaxFresh
    /\ VersionInv /\ FiledInv /\ OldInv /\ SnapshotInv
    /\ FramesInv /\ ProducerInv /\ PendingInv

(***************************************************************************)
(* Further facts, when the map is large enough for what it is asked: its   *)
(* capacity is in the thousands, and what it evicts is forgotten.          *)
(***************************************************************************)
Roomy == IsFiniteSet(Keys) /\ Cardinality(Keys) <= Capacity

\* Nothing is evicted under a run.
HeldInv == \A c \in Calls : call[c].pc \in Streaming => processed[call[c].key] = call[c].rec

\* What a caller was answered, and the phone shown, is what is served.
AnswerInv ==
    /\ \A c \in Calls : call[c].pc = "ok" => call[c].rec \in served[call[c].key]
    /\ \A f \in frames : f.kind = "completed" =>
          \E r \in served[f.ev] : f = Completed(f.ev, r)

\* The append flushes of a response settle before the flush that undoes it.
Undoing(f, r) == f.at = "undoing" /\ f.rid = r
AppendOf(f, r) == f.at = "appending" /\ f.rid = r
NoAppend(r) ==
    ~AppendOf(saving, r) /\ \A i \in 1..Len(queue) : ~AppendOf(queue[i], r)
NoUndoing(r) ==
    ~Undoing(saving, r) /\ \A i \in 1..Len(queue) : ~Undoing(queue[i], r)

ChainOrder ==
    \A i \in 1..Len(queue) : queue[i].at = "appending" =>
        /\ ~Undoing(saving, queue[i].rid)
        /\ \A j \in 1..(i - 1) : ~Undoing(queue[j], queue[i].rid)

CallOrder ==
    \A c \in Calls :
        /\ call[c].pc \in Producing => NoUndoing(rid(c))
        /\ call[c].pc = "undoing" /\ call[c].flushed # "no" => NoAppend(rid(c))
        /\ call[c].pc = "failed" => NoAppend(rid(c))

\* Nothing will be emitted any more for a response that failed.
Closed(r) ==
    NoAppend(r) /\ \A c \in Calls : call[c].pc \in Producing => rid(c) # r
ClosedInv == \A f \in frames : f.kind = "failed" => Closed(f.rid)

RInv == HeldInv /\ AnswerInv /\ ChainOrder /\ CallOrder /\ ClosedInv
=============================================================================
