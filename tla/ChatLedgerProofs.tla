--------------------------- MODULE ChatLedgerProofs ---------------------------
(***************************************************************************)
(* Theorems about ChatLedger and about ChatResponseStream, which composes  *)
(* it with deliver, for every set of messages, media and calls, every      *)
(* capacity, every bound and every store.  First the leases; then what is  *)
(* stored, and served as long as no start finds a half-written file; then  *)
(* the frames of deliver, where a step concerns at most one response and   *)
(* what it leaves of the others is stated once, by Only; then what holds   *)
(* of the frames when the map has room for what it is asked.               *)
(***************************************************************************)
EXTENDS ChatStreamInv, FiniteSetTheorems, TLAPS

CallType == [pc : Places, key : Keys \cup {NoCall}, rec : Rec,
             flushed : {"no", "saved", "failed"}]

USE DEF Keys

\* The same, where the call is read from TypeOK.
LEMMA CallTyped == TypeOK => call \in [Calls -> CallType]
BY DEF TypeOK, CallType

\* Changing one call.
LEMMA CallUpdates ==
    ASSUME TypeOK, NEW c \in Calls, NEW where \in Places, NEW r \in Rec,
           NEW k \in Keys, NEW x \in CallType
    PROVE  /\ Goto(c, where) \in [Calls -> CallType]
           /\ [call EXCEPT ![c] = x] \in [Calls -> CallType]
           /\ [call EXCEPT ![c].pc = where, ![c].rec = r, ![c].flushed = "no"]
                  \in [Calls -> CallType]
           /\ [Idle EXCEPT !.pc = where, !.key = k, !.rec = r] \in CallType
<1>1. Idle \in CallType
  BY DEF Absent, Rec, Idle, CallType, Places, Owning, Running
<1>2. [Idle EXCEPT !.pc = where, !.key = k, !.rec = r] \in CallType
  BY <1>1 DEF CallType
<1> QED
  BY <1>2, CallTyped DEF CallType, Goto

(***************************************************************************)
(* What the helpers preserve of the types.                                 *)
(***************************************************************************)
\* The records the model names are records.
LEMMA RecordTypes ==
    /\ Absent \in Rec
    /\ Idle \in CallType
    /\ NoFlush \in Flushes
    /\ [k \in Keys |-> Absent] \in [Keys -> Rec]
BY DEF Absent, Rec, Idle, CallType, Places, Owning, Running, NoFlush, Flush, Flushes

\* Changing a field of a record.
LEMMA RecordUpdates ==
    ASSUME NEW r \in Rec, NEW n \in Nat
    PROVE  /\ n + 1 \in Nat /\ n + 1 \in Int
           /\ [r EXCEPT !.rid = n] \in Rec /\ [r EXCEPT !.rid = n + 1] \in Rec
           /\ [r EXCEPT !.at = n] \in Rec
           /\ [r EXCEPT !.ans = n + 1, !.at = n + 1] \in Rec
           /\ [r EXCEPT !.rid = 0] \in Rec
<1>1. n + 1 \in Nat /\ n + 1 \in Int /\ 0 \in Nat
  OBVIOUS
<1>2. \A a \in Nat, b \in Int : [r EXCEPT !.ans = b, !.at = a] \in Rec
  BY DEF Rec
<1>3. \A a \in Nat : [r EXCEPT !.rid = a] \in Rec /\ [r EXCEPT !.at = a] \in Rec
  BY DEF Rec
<1> QED
  BY <1>1, <1>2, <1>3

\* trim keeps a map of records, whatever entry it evicts.
LEMMA SetAndTrimType ==
    ASSUME TypeOK, NEW k, NEW r \in Rec, SetAndTrim(k, r)
    PROVE  processed' \in [Keys -> Rec] /\ served' \in [Keys -> SUBSET Rec]
BY RecordTypes DEF SetAndTrim, TypeOK

\* trim of the map that was loaded: an entry stays or goes with its answers.
LEMMA LoadTrimForm ==
    ASSUME TypeOK, NEW kept \in [Keys -> Rec], LoadAndTrim(kept)
    PROVE  /\ processed' \in [Keys -> Rec] /\ served' \in [Keys -> SUBSET Rec]
           /\ \A k \in Keys :
                 \/ processed'[k] = kept[k] /\ served'[k] = served[k]
                 \/ processed'[k] = Absent /\ served'[k] = {}
<1>1. CASE processed' = kept /\ UNCHANGED served
  BY <1>1 DEF TypeOK
<1>2. ASSUME NEW old,
             processed' = [k \in Keys |-> IF k \in old THEN Absent ELSE kept[k]],
             served' = [k \in Keys |-> IF k \in old THEN {} ELSE served[k]]
      PROVE  /\ processed' \in [Keys -> Rec] /\ served' \in [Keys -> SUBSET Rec]
             /\ \A k \in Keys :
                   \/ processed'[k] = kept[k] /\ served'[k] = served[k]
                   \/ processed'[k] = Absent /\ served'[k] = {}
  BY <1>2, RecordTypes DEF TypeOK
<1> QED
  BY <1>1, <1>2 DEF LoadAndTrim

\* A change to the record a call works on.
LEMMA WriteType ==
    ASSUME TypeOK, NEW c \in Calls, NEW r \in Rec, Write(c, r)
    PROVE  processed' \in [Keys -> Rec]
BY DEF Write, TypeOK

\* A flush that joins the chain.
LEMMA FlushType ==
    ASSUME TypeOK, NEW c \in Calls \cup {NoCall}, NEW n \in Nat,
           NEW where \in Places \cup {"load", "persist"}
    PROVE  /\ Flush(c, where, n) \in Flushes
           /\ Append(queue, Flush(c, where, n)) \in Seq(Flushes)
<1>1. Flush(c, where, n) \in Flushes
  BY DEF Flush, Flushes
<1> QED
  BY <1>1 DEF TypeOK

\* A call that waits for a flush is typed.
LEMMA AwaitFlushType ==
    ASSUME TypeOK, NEW c \in Calls, NEW where \in Places, NEW r \in Rec,
           AwaitFlush(c, where, r)
    PROVE  /\ dirty' \in BOOLEAN
           /\ queue' \in Seq(Flushes)
           /\ call' \in [Calls -> CallType]
<1>1. r.rid \in Nat
  BY DEF Rec
<1>2. queue' \in Seq(Flushes)
  BY <1>1, FlushType DEF AwaitFlush
<1>3. call' \in [Calls -> CallType]
  <2>1. call' = [call EXCEPT ![c].pc = where, ![c].rec = r, ![c].flushed = "no"]
    BY DEF AwaitFlush
  <2> QED
    BY <2>1, CallTyped DEF CallType
<1> QED
  BY <1>2, <1>3 DEF AwaitFlush

\* A call that begins.
LEMMA BeginType ==
    ASSUME TypeOK, NEW c \in Calls, NEW k \in Keys, NEW where \in Places,
           NEW r \in Rec, Begin(c, k, where, r)
    PROVE  call' \in [Calls -> CallType]
<1>1. [Idle EXCEPT !.pc = where, !.key = k, !.rec = r] \in CallType
  BY CallUpdates, RecordTypes
<1> QED
  BY <1>1, CallTyped DEF Begin

\* A lease taken by a new run.
LEMMA StreamLeaseType ==
    ASSUME TypeOK, NEW c \in Calls, NEW k \in Keys, NEW where \in Places,
           NEW r \in Rec, StreamLease(c, k, where, r)
    PROVE  /\ fresh' \in Nat /\ dirty' \in BOOLEAN /\ queue' \in Seq(Flushes)
           /\ call' \in [Calls -> CallType]
           /\ lease' \in [Keys -> Calls \cup {NoCall}]
<1>1. r.rid \in Nat
  BY DEF Rec
<1>2. queue' \in Seq(Flushes)
  BY <1>1, FlushType DEF StreamLease
<1>3. call' \in [Calls -> CallType]
  BY BeginType DEF StreamLease
<1>4. lease' \in [Keys -> Calls \cup {NoCall}] /\ fresh' \in Nat
  BY DEF StreamLease, TypeOK
<1> QED
  BY <1>2, <1>3, <1>4 DEF StreamLease

\* The end of a lease.
LEMMA ConcludeType ==
    ASSUME TypeOK, NEW c \in Calls, NEW outcome \in {"ok", "failed"},
           Conclude(c, outcome)
    PROVE  /\ call' \in [Calls -> CallType]
           /\ lease' \in [Keys -> Calls \cup {NoCall}]
<1>1. outcome \in Places
  BY DEF Places
<1>2. [call[c] EXCEPT !.pc = outcome] \in CallType
  BY <1>1, CallTyped DEF CallType
<1>3. call' \in [Calls -> CallType]
  BY <1>2, CallTyped DEF Conclude
<1>4. lease' \in [Keys -> Calls \cup {NoCall}]
  BY DEF Conclude, TypeOK
<1> QED
  BY <1>3, <1>4

\* The settlement of a flush.
LEMMA SettleType ==
    ASSUME TypeOK, NEW f \in Flushes, NEW result \in {"saved", "failed"},
           Settle(f, result)
    PROVE  /\ call' \in [Calls -> CallType]
           /\ up' \in {"down", "loading", "up"}
<1>1. \A c \in Calls : [call[c] EXCEPT !.flushed = result] \in CallType
  BY CallTyped DEF CallType
<1>2. call' \in [Calls -> CallType]
  BY <1>1, CallTyped DEF Settle
<1> QED
  BY <1>2 DEF Settle, TypeOK

\* The catch of a generation.
LEMMA AbandonType ==
    ASSUME TypeOK, NEW c \in Calls, Abandon(c)
    PROVE  TypeOK'
<1>1. CASE Held(c)
  <2>1. call[c].rec \in Rec /\ "undoing" \in Places
    BY DEF TypeOK, Places, Owning, Running
  <2>2. dirty' \in BOOLEAN /\ queue' \in Seq(Flushes) /\ call' \in [Calls -> CallType]
    BY <1>1, <2>1, AwaitFlushType DEF Abandon
  <2>3. processed' \in [Keys -> Rec]
    BY <1>1, RecordTypes DEF Abandon, TypeOK
  <2> QED
    BY <1>1, <2>2, <2>3 DEF Abandon, TypeOK, file, CallType
<1>2. CASE ~Held(c)
  <2>1. call' \in [Calls -> CallType] /\ lease' \in [Keys -> Calls \cup {NoCall}]
    BY <1>2, ConcludeType DEF Abandon
  <2> QED
    BY <1>2, <2>1 DEF Abandon, TypeOK, memory, file, CallType
<1> QED
  BY <1>1, <1>2

(***************************************************************************)
(* Every step keeps the types, the leases and the silence of a process     *)
(* that is down.  The key of a run is a key because it holds a lease.      *)
(***************************************************************************)
Base == TypeOK /\ DownInv /\ LeaseInv

\* Every step keeps the types.
LEMMA TypeStep == ASSUME Base, Next PROVE TypeOK'
<1> USE DEF Base
<1> USE CallTyped, RecordTypes
<1>. TypeOK /\ call \in [Calls -> CallType]
  OBVIOUS
<1>1. CASE load
  <2>1. queue' \in Seq(Flushes)
    <3>1. Flush(NoCall, "load", 0) \in Flushes
      BY DEF Flush, Flushes
    <3> QED
      BY <1>1, <3>1 DEF load
  <2>2. /\ processed' \in [Keys -> Rec] /\ disk' \in [Keys -> Rec]
        /\ served' \in [Keys -> SUBSET Rec]
    <3> DEFINE found == IF torn THEN Empty ELSE disk
    <3> DEFINE kept == [k \in Keys |-> IF isComplete(found[k]) THEN found[k] ELSE Absent]
    <3>1. found \in [Keys -> Rec]
      BY DEF TypeOK, Empty
    <3>2. kept \in [Keys -> Rec]
      BY <3>1
    <3>3. LoadAndTrim(kept) /\ disk' = found
      BY <1>1 DEF load
    <3> HIDE DEF found, kept
    <3> QED
      BY <3>1, <3>2, <3>3, LoadTrimForm
  <2>3. dirty' \in BOOLEAN
    BY <1>1 DEF load
  <2> QED
    BY <1>1, <2>1, <2>2, <2>3 DEF load, TypeOK, CallType
<1>2. CASE persist
  <2>1. queue' \in Seq(Flushes)
    BY <1>2, FlushType DEF persist
  <2> QED
    BY <1>2, <2>1 DEF persist, TypeOK, file
<1>3. CASE StoreStep
  <2>1. CASE FlushClean
    <3>1. Head(queue) \in Flushes /\ Tail(queue) \in Seq(Flushes)
      BY <2>1 DEF FlushClean, TypeOK
    <3>2. call' \in [Calls -> CallType] /\ up' \in {"down", "loading", "up"}
      BY <2>1, <3>1, SettleType DEF FlushClean
    <3> QED
      BY <2>1, <3>1, <3>2 DEF FlushClean, Settle, TypeOK, file, CallType
  <2>2. CASE StartSave
    <3>1. Head(queue) \in Flushes /\ Tail(queue) \in Seq(Flushes)
      BY <2>2 DEF StartSave, TypeOK
    <3> QED
      BY <2>2, <3>1 DEF StartSave, TypeOK
  <2>3. CASE SaveDone
    <3>1. call' \in [Calls -> CallType] /\ up' \in {"down", "loading", "up"}
      BY <2>3, SettleType DEF SaveDone, TypeOK
    <3> QED
      BY <2>3, <3>1 DEF SaveDone, Settle, TypeOK, CallType
  <2>4. CASE SaveFailed
    <3>1. call' \in [Calls -> CallType] /\ up' \in {"down", "loading", "up"}
      BY <2>4, SettleType DEF SaveFailed, TypeOK
    <3> QED
      BY <2>4, <3>1 DEF SaveFailed, Settle, TypeOK, CallType
  <2> QED
    BY <1>3, <2>1, <2>2, <2>3, <2>4 DEF StoreStep
<1>4. CASE Crash
  <2>1. disk' \in [Keys -> Rec] /\ data' \in [Keys -> Rec]
    BY <1>4 DEF Crash, Interrupted, TypeOK
  <2>2. processed' \in [Keys -> Rec] /\ queue' \in Seq(Flushes)
    BY <1>4 DEF Crash, Empty
  <2>3. call' \in [Calls -> CallType] /\ torn' \in BOOLEAN
    BY <1>4 DEF Crash, Interrupted, TypeOK
  <2> QED
    BY <1>4, <2>1, <2>2, <2>3 DEF Crash, TypeOK, CallType
<1>5. ASSUME NEW c \in Calls, Continue(c) PROVE TypeOK'
  <2>1. CASE Opened(c)
    <3>1. call' \in [Calls -> CallType] /\ lease' \in [Keys -> Calls \cup {NoCall}]
      <4>1. CASE At(c, "opening", "saved") /\ call' = Goto(c, "generating") /\ UNCHANGED lease
        <5>1. "generating" \in Places
          BY DEF Places, Owning, Running
        <5>2. lease' \in [Keys -> Calls \cup {NoCall}]
          BY <4>1 DEF TypeOK
        <5> QED
          BY <4>1, <5>1, <5>2 DEF Goto, CallType
      <4>2. CASE Conclude(c, "failed")
        BY <4>2, ConcludeType
      <4> QED
        BY <2>1, <4>1, <4>2 DEF Opened
    <3> QED
      BY <2>1, <3>1 DEF Opened, TypeOK, memory, file, CallType
  <2>2. CASE Labelled(c)
    <3>1. call' \in [Calls -> CallType] /\ lease' \in [Keys -> Calls \cup {NoCall}]
      BY <2>2, ConcludeType DEF Labelled
    <3>2. call[c].rec \in Rec /\ [call[c].rec EXCEPT !.rid = 0] \in Rec
      BY RecordUpdates DEF CallType
    <3>3. processed' \in [Keys -> Rec]
      BY <2>2, <3>2, WriteType DEF Labelled, TypeOK
    <3>4. served' \in [Keys -> SUBSET Rec]
      <4>1. served' = served \/ Serve(call[c].key, call[c].rec)
        BY <2>2 DEF Labelled
      <4> QED
        BY <4>1, <3>2 DEF Serve, TypeOK
    <3>5. dirty' \in BOOLEAN
      BY <2>2 DEF Labelled, TypeOK
    <3> QED
      BY <2>2, <3>1, <3>3, <3>4, <3>5 DEF Labelled, TypeOK, file, CallType
  <2>3. CASE Appended(c)
    <3>1. call' \in [Calls -> CallType]
      BY <2>3 DEF Places, Owning, Running, Appended, Goto, CallType
    <3> QED
      BY <2>3, <3>1 DEF Appended, TypeOK, memory, file, CallType
  <2>4. CASE Sealed(c)
    <3>1. call' \in [Calls -> CallType] /\ lease' \in [Keys -> Calls \cup {NoCall}]
      BY <2>4, ConcludeType DEF Sealed
    <3>2. served' \in [Keys -> SUBSET Rec]
      BY <2>4 DEF Sealed, TypeOK, Serve, CallType
    <3> QED
      BY <2>4, <3>1, <3>2 DEF Sealed, TypeOK, memory, file, CallType
  <2>5. CASE FlushFailed(c)
    BY <2>5, AbandonType DEF FlushFailed
  <2>6. CASE Undone(c)
    BY <2>6, ConcludeType DEF Undone, TypeOK, memory, file, CallType
  <2>7. CASE OnceStored(c)
    BY <2>7, ConcludeType DEF OnceStored, TypeOK, memory, file, CallType
  <2>8. CASE Return(c)
    <3>1. call' \in [Calls -> CallType]
      BY <2>8 DEF Return
    <3> QED
      BY <2>8, <3>1 DEF Return, TypeOK, memory, file, CallType
  <2> QED
    BY <1>5, <2>1, <2>2, <2>3, <2>4, <2>5, <2>6, <2>7, <2>8 DEF Continue
<1>6. ASSUME NEW c \in Calls, Expire(c) PROVE TypeOK'
  <2>1. CASE LeaseTimeout(c)
    BY <2>1, AbandonType DEF LeaseTimeout
  <2>2. CASE OnceFails(c)
    BY <2>2, ConcludeType DEF OnceFails, TypeOK, memory, file, CallType
  <2> QED
    BY <1>6, <2>1, <2>2 DEF Expire
<1>7. ASSUME NEW c \in Calls, append(c) \/ Answer(c) PROVE TypeOK'
  <2> DEFINE r1 == [call[c].rec EXCEPT !.n = @ + 1]
             r2 == [call[c].rec EXCEPT !.ans = call[c].rec.rid]
  <2>1. r1 \in Rec /\ r2 \in Rec
    BY DEF CallType, Rec
  <2>2. \E r \in Rec, where \in Places : Write(c, r) /\ AwaitFlush(c, where, r)
    BY <1>7, <2>1 DEF append, Answer, Places, Owning, Running
  <2>3. /\ processed' \in [Keys -> Rec] /\ dirty' \in BOOLEAN
        /\ queue' \in Seq(Flushes) /\ call' \in [Calls -> CallType]
    BY <2>2, WriteType, AwaitFlushType
  <2> QED
    BY <1>7, <2>3 DEF append, Answer, TypeOK, file, CallType
<1>8. ASSUME NEW c \in Calls, ProviderFails(c) PROVE TypeOK'
  BY <1>8, AbandonType DEF ProviderFails
<1>9. ASSUME NEW c \in Calls, OnceDone(c) PROVE TypeOK'
  <2> DEFINE r == [call[c].rec EXCEPT !.at = Place(call[c].key)]
  <2>1. call[c].key \in Keys
    BY <1>9 DEF OnceDone, LeaseInv, Owning
  <2>2. r \in Rec
    <3>1. processed[call[c].key] \in Rec /\ call[c].rec \in Rec
      BY <2>1 DEF TypeOK, CallType
    <3>2. Place(call[c].key) \in Nat
      BY <3>1 DEF Place, TypeOK, Rec
    <3> QED
      BY <3>1, <3>2, RecordUpdates
  <2>3. /\ processed' \in [Keys -> Rec] /\ served' \in [Keys -> SUBSET Rec]
        /\ dirty' \in BOOLEAN
        /\ queue' \in Seq(Flushes) /\ call' \in [Calls -> CallType]
    <3>1. "storing" \in Places /\ "ok" \in Places
      BY DEF Places, Owning
    <3>2. Flush(c, "storing", r.rid) \in Flushes
      BY <2>2, <3>1 DEF Flush, Flushes, Rec
    <3>3. call' \in [Calls -> CallType]
      <4>1. [call[c] EXCEPT !.pc = "storing", !.rec = r, !.flushed = "no"] \in CallType
        BY <2>2, <3>1 DEF CallType
      <4>2. \A d \in Calls : [call[d] EXCEPT !.pc = "ok", !.rec = r] \in CallType
        BY <2>2, <3>1 DEF CallType
      <4> DEFINE told(d) ==
               CASE d = c -> [call[c] EXCEPT !.pc = "storing", !.rec = r,
                                             !.flushed = "no"]
                 [] d # c /\ call[d].pc = "joined" /\ call[d].key = call[c].key
                         -> [call[d] EXCEPT !.pc = "ok", !.rec = r]
                 [] OTHER -> call[d]
      <4>3. call' = [d \in Calls |-> told(d)]
        BY <1>9 DEF OnceDone
      <4>4. \A d \in Calls : call[d] \in CallType
        BY DEF TypeOK
      <4> HIDE DEF r
      <4>5. \A d \in Calls : told(d) \in CallType
        BY <4>1, <4>2, <4>4
      <4> HIDE DEF told
      <4> QED
        BY <4>3, <4>5
    <3>4. queue' \in Seq(Flushes) /\ dirty' \in BOOLEAN
      <4>1. queue' = Append(queue, Flush(c, "storing", r.rid)) /\ dirty' = TRUE
        BY <1>9 DEF OnceDone
      <4>2. queue \in Seq(Flushes)
        BY DEF TypeOK
      <4> HIDE DEF r
      <4> QED
        BY <3>2, <4>1, <4>2
    <3>5. SetAndTrim(call[c].key, r)
      BY <1>9 DEF OnceDone
    <3> HIDE DEF r
    <3> QED
      BY <2>2, <3>3, <3>4, <3>5, SetAndTrimType
  <2>4. fresh' = fresh + 1 /\ UNCHANGED <<up, file, lease>>
    BY <1>9 DEF OnceDone
  <2> QED
    BY <2>3, <2>4 DEF TypeOK, file, CallType
<1>10. ASSUME NEW c \in Calls, NEW k \in Events, StreamCall(c, k) PROVE TypeOK'
  <2>1. CASE StreamJoin(c, k)
    <3>1. call' \in [Calls -> CallType]
      BY <2>1, BeginType DEF StreamJoin, Places
    <3> QED
      BY <2>1, <3>1 DEF StreamJoin, TypeOK, memory, file, CallType
  <2>2. CASE StreamReplay(c, k)
    <3>1. processed[k] \in Rec
      BY DEF TypeOK
    <3>2. call' \in [Calls -> CallType]
      BY <2>2, <3>1, BeginType DEF StreamReplay, Places
    <3> QED
      BY <2>2, <3>1, <3>2 DEF StreamReplay, Serve, TypeOK, memory, file, CallType
  <2>3. CASE StreamLabel(c, k)
    <3> DEFINE r == [processed[k] EXCEPT !.rid = fresh + 1]
    <3>1. r \in Rec
      BY RecordUpdates DEF TypeOK
    <3>2. /\ fresh' \in Nat /\ dirty' \in BOOLEAN /\ queue' \in Seq(Flushes)
          /\ call' \in [Calls -> CallType]
          /\ lease' \in [Keys -> Calls \cup {NoCall}]
      BY <2>3, <3>1, StreamLeaseType DEF StreamLabel, Places, Owning
    <3> QED
      BY <2>3, <3>1, <3>2 DEF StreamLabel, StreamLease, TypeOK, file, CallType
  <2>4. CASE StreamOpen(c, k)
    <3> DEFINE r == [rid |-> fresh + 1, n |-> 0, ans |-> NoAnswer, at |-> Place(k)]
    <3>1. r \in Rec
      BY DEF TypeOK, Rec, NoAnswer, Place
    <3>2. /\ fresh' \in Nat /\ dirty' \in BOOLEAN /\ queue' \in Seq(Flushes)
          /\ call' \in [Calls -> CallType]
          /\ lease' \in [Keys -> Calls \cup {NoCall}]
      BY <2>4, <3>1, StreamLeaseType DEF StreamOpen, Places, Owning, Running
    <3>3. processed' \in [Keys -> Rec] /\ served' \in [Keys -> SUBSET Rec]
      BY <2>4, <3>1, SetAndTrimType DEF StreamOpen
    <3> QED
      BY <2>4, <3>2, <3>3 DEF StreamOpen, StreamLease, TypeOK, file, CallType
  <2> QED
    BY <1>10, <2>1, <2>2, <2>3, <2>4 DEF StreamCall
<1>11. ASSUME NEW c \in Calls, NEW k \in Media, OnceCall(c, k) PROVE TypeOK'
  <2>1. processed[k] \in Rec
    BY DEF TypeOK
  <2>2. [Absent EXCEPT !.ans = fresh + 1, !.at = fresh + 1] \in Rec
    BY RecordUpdates DEF TypeOK
  <2>3. call' \in [Calls -> CallType]
    <3>1. {"ok", "joined", "working"} \subseteq Places
      BY DEF Places, Owning
    <3>2. CASE OnceJoin(c, k)
      <4>1. call[lease[k]].rec \in Rec
        BY <3>2 DEF OnceJoin, TypeOK, CallType
      <4> QED
        BY <3>1, <3>2, <4>1, BeginType DEF OnceJoin
    <3>3. CASE OnceReplay(c, k) \/ OnceRun(c, k)
      BY <2>1, <2>2, <3>1, <3>3, BeginType DEF OnceReplay, OnceRun
    <3> QED
      BY <1>11, <3>2, <3>3 DEF OnceCall
  <2>4. /\ UNCHANGED <<up, memory, file, served>> /\ fresh' \in Nat
        /\ lease' \in [Keys -> Calls \cup {NoCall}]
    BY <1>11 DEF OnceCall, OnceReplay, OnceJoin, OnceRun, TypeOK
  <2> QED
    BY <2>3, <2>4 DEF TypeOK, memory, file, CallType
<1> QED
  BY <1>1, <1>2, <1>3, <1>4, <1>5, <1>6, <1>7, <1>8, <1>9, <1>10, <1>11 DEF Next

\* A process that is not up runs nothing.
LEMMA DownStep == ASSUME Base, Next PROVE DownInv'
<1> USE DEF Base
<1>. TypeOK /\ DownInv /\ call \in [Calls -> CallType]
  BY CallTyped
<1>1. CASE load
  BY <1>1 DEF load, DownInv
<1>2. CASE persist
  BY <1>2 DEF persist, DownInv, file
<1>3. CASE StoreStep
  <2>1. up # "down" /\ (up # "up" => \A c \in Calls : call[c].pc = "idle")
    BY <1>3 DEF StoreStep, FlushClean, StartSave, SaveDone, SaveFailed, DownInv
  <2>2. up' # "down" /\ (up' # "up" => up # "up")
    BY <1>3, <2>1 DEF StoreStep, FlushClean, StartSave, SaveDone, SaveFailed, Settle
  <2>3. \A c \in Calls : call'[c].pc = call[c].pc
    BY <1>3 DEF StoreStep, FlushClean, StartSave, SaveDone, SaveFailed, Settle, CallType
  <2> QED
    BY <2>1, <2>2, <2>3 DEF DownInv
<1>4. CASE Crash
  BY <1>4 DEF Crash, DownInv, Idle
<1>5. ASSUME NEW c \in Calls, call[c].pc # "idle" \/ Calling(c), UNCHANGED up
      PROVE  DownInv'
  BY <1>5 DEF DownInv, Calling
<1>6. ASSUME NEW c \in Calls, Continue(c) PROVE DownInv'
  BY <1>6, <1>5
     DEF Continue, Opened, Labelled, Appended, Sealed, FlushFailed, Abandon, Undone,
         OnceStored, Return, At
<1>7. ASSUME NEW c \in Calls, Expire(c) \/ append(c) \/ Answer(c) \/ ProviderFails(c) \/ OnceDone(c)
      PROVE  DownInv'
  BY <1>7, <1>5
     DEF Expire, LeaseTimeout, OnceFails, Abandon, append, Answer, ProviderFails, OnceDone
<1>8. ASSUME NEW c \in Calls, NEW k \in Events, StreamCall(c, k) PROVE DownInv'
  BY <1>8, <1>5
     DEF StreamCall, StreamJoin, StreamReplay, StreamLabel, StreamOpen, StreamLease
<1>9. ASSUME NEW c \in Calls, NEW k \in Media, OnceCall(c, k) PROVE DownInv'
  BY <1>9, <1>5 DEF OnceCall, OnceReplay, OnceJoin, OnceRun
<1> QED
  BY <1>1, <1>2, <1>3, <1>4, <1>6, <1>7, <1>8, <1>9 DEF Next

(***************************************************************************)
(* Leases.  Every step keeps the lease of each key and the place of each   *)
(* call in one of four ways.                                               *)
(***************************************************************************)
\* Nobody takes or gives back a lease, and owners keep their key.
LEMMA LeaseKept ==
    ASSUME Base, UNCHANGED lease,
           \A c \in Calls :
              /\ call'[c].pc \in Owning <=> call[c].pc \in Owning
              /\ call'[c].pc = "joined" <=> call[c].pc = "joined"
              /\ call[c].pc \in Owning \cup {"joined"} => call'[c].key = call[c].key
    PROVE  LeaseInv'
BY DEF Base, LeaseInv, TypeOK

\* A call that owned nothing now waits for no lease, or for one that is held.
LEMMA LeaseOutside ==
    ASSUME Base, UNCHANGED lease, NEW c \in Calls, call[c].pc \notin Owning,
           call'[c].pc \notin Owning,
           call'[c].pc = "joined" => call'[c].key \in Keys /\ lease[call'[c].key] # NoCall,
           \A d \in Calls \ {c} : call'[d] = call[d]
    PROVE  LeaseInv'
<1>. LeaseInv /\ lease' = lease
  BY DEF Base
<1>1. \A d \in Calls : call'[d].pc \in Owning =>
          d # c /\ call'[d].key \in Keys /\ lease'[call'[d].key] = d
  BY DEF LeaseInv
<1>2. \A d \in Calls : call'[d].pc = "joined" =>
          call'[d].key \in Keys /\ lease'[call'[d].key] # NoCall
  BY DEF LeaseInv
<1>3. \A k \in Keys : lease'[k] # NoCall =>
          call'[lease'[k]].pc \in Owning /\ call'[lease'[k]].key = k
  <2> SUFFICES ASSUME NEW k \in Keys, lease[k] # NoCall
               PROVE  call'[lease[k]].pc \in Owning /\ call'[lease[k]].key = k
    OBVIOUS
  <2>1. call[lease[k]].pc \in Owning /\ call[lease[k]].key = k
    BY DEF LeaseInv
  <2>2. lease[k] \in Calls /\ lease[k] # c
    BY <2>1 DEF Base, TypeOK
  <2> QED
    BY <2>1, <2>2
<1> QED
  BY <1>1, <1>2, <1>3 DEF LeaseInv

\* A call takes the lease of a key that has none.
LEMMA LeaseTaken ==
    ASSUME Base, NEW c \in Calls, NEW k \in Keys, call[c].pc = "idle",
           lease[k] = NoCall, lease' = [lease EXCEPT ![k] = c],
           call'[c].pc \in Owning, call'[c].key = k,
           \A d \in Calls \ {c} : call'[d] = call[d]
    PROVE  LeaseInv'
BY LedgerAssumption DEF Base, LeaseInv, TypeOK, Owning, Running

\* A call gives its lease back, and the calls that await it are answered.
LEMMA LeaseConcluded ==
    ASSUME Base, NEW c \in Calls, call[c].pc \in Owning,
           NEW outcome \in {"ok", "failed"}, Conclude(c, outcome)
    PROVE  LeaseInv'
BY CallTyped DEF Base, LeaseInv, TypeOK, Conclude, Owning, Running, CallType

\* The work of a medium ends: c keeps its lease, those who shared it go on.
LEMMA LeaseDone ==
    ASSUME Base, NEW c \in Calls, OnceDone(c) PROVE LeaseInv'
<1>. call \in [Calls -> CallType] /\ lease' = lease /\ LeaseInv
  BY CallTyped DEF Base, OnceDone
<1>1. /\ call[c].pc = "working" /\ call'[c].pc = "storing" /\ call'[c].key = call[c].key
      /\ \A d \in Calls \ {c} :
            \/ call'[d] = call[d]
            \/ call[d].pc = "joined" /\ call'[d].pc = "ok"
  BY DEF OnceDone, CallType
<1>2. {"working", "storing"} \subseteq Owning /\ "joined" \notin Owning /\ "ok" \notin Owning
  BY DEF Owning, Running
<1> QED
  BY <1>1, <1>2 DEF Base, LeaseInv, TypeOK

\* Every step keeps the leases.
LEMMA LeaseStep == ASSUME Base, Next PROVE LeaseInv'
<1>. TypeOK /\ LeaseInv /\ call \in [Calls -> CallType]
  BY CallTyped DEF Base
<1> USE DEF Base
<1>1. ASSUME UNCHANGED <<call, lease>> PROVE LeaseInv'
  BY <1>1 DEF LeaseInv
<1>2. CASE load \/ persist
  BY <1>2, <1>1 DEF load, persist
<1>3. CASE StoreStep
  <2>1. lease' = lease /\ \A c \in Calls : call'[c].pc = call[c].pc /\ call'[c].key = call[c].key
    BY <1>3 DEF StoreStep, FlushClean, StartSave, SaveDone, SaveFailed, Settle, CallType
  <2> QED
    BY <2>1, LeaseKept
<1>4. CASE Crash
  BY <1>4 DEF Crash, LeaseInv, Idle, Owning, Running
<1>5. ASSUME NEW c \in Calls, NEW where \in {"generating", "appending", "sealing", "undoing", "storing"},
             call[c].pc \in Owning, UNCHANGED lease,
             call'[c].pc = where, call'[c].key = call[c].key,
             \A d \in Calls \ {c} : call'[d] = call[d]
      PROVE  LeaseInv'
  <2>1. where \in Owning /\ where # "joined" /\ call[c].pc # "joined"
    BY <1>5 DEF Owning, Running
  <2> QED
    BY <1>5, <2>1, LeaseKept
<1>6. ASSUME NEW c \in Calls, NEW where \in {"generating", "appending", "sealing", "undoing", "storing"},
             NEW r, call[c].pc \in Owning, UNCHANGED lease, AwaitFlush(c, where, r)
      PROVE  LeaseInv'
  <2>1. call' = [call EXCEPT ![c].pc = where, ![c].rec = r, ![c].flushed = "no"]
    BY <1>6 DEF AwaitFlush
  <2>2. /\ call'[c].pc = where /\ call'[c].key = call[c].key
        /\ \A d \in Calls \ {c} : call'[d] = call[d]
    BY <2>1 DEF CallType
  <2> QED
    BY <1>6, <2>2, <1>5
<1>7. ASSUME NEW c \in Calls, call[c].pc \in Owning, Abandon(c) PROVE LeaseInv'
  BY <1>7, <1>6, LeaseConcluded DEF Abandon
<1>8. ASSUME NEW c \in Calls, Continue(c) PROVE LeaseInv'
  <2>1. CASE Opened(c)
    <3>1. call[c].pc \in Owning
      BY <2>1 DEF Opened, At, Owning, Running
    <3>2. CASE call' = Goto(c, "generating") /\ UNCHANGED lease
      <4>1. /\ call'[c].pc = "generating" /\ call'[c].key = call[c].key
            /\ \A d \in Calls \ {c} : call'[d] = call[d]
        BY <3>2 DEF Goto, CallType
      <4> QED
        BY <3>1, <3>2, <4>1, <1>5
    <3> QED
      BY <2>1, <3>1, <3>2, LeaseConcluded DEF Opened
  <2>2. CASE Appended(c)
    <3>1. call[c].pc \in Owning
      BY <2>2 DEF Appended, At, Owning, Running
    <3>2. /\ call'[c].pc = "generating" /\ call'[c].key = call[c].key
          /\ \A d \in Calls \ {c} : call'[d] = call[d]
      BY <2>2 DEF Appended, Goto, CallType
    <3> QED
      BY <2>2, <3>1, <3>2, <1>5 DEF Appended
  <2>3. CASE Labelled(c) \/ Sealed(c) \/ Undone(c) \/ OnceStored(c)
    <3>1. call[c].pc \in Owning
      BY <2>3 DEF Labelled, Sealed, Undone, OnceStored, At, Owning, Running
    <3> QED
      BY <2>3, <3>1, LeaseConcluded DEF Labelled, Sealed, Undone, OnceStored
  <2>4. CASE FlushFailed(c)
    <3>1. call[c].pc \in Owning
      BY <2>4 DEF FlushFailed, At, Owning, Running
    <3> QED
      BY <2>4, <3>1, <1>7 DEF FlushFailed
  <2>5. CASE Return(c)
    <3>1. call[c].pc \notin Owning
      BY <2>5 DEF Return, Owning, Running
    <3>2. call'[c].pc \notin Owning /\ call'[c].pc # "joined"
      BY <2>5 DEF Return, Idle, Owning, Running
    <3>3. lease' = lease /\ \A d \in Calls \ {c} : call'[d] = call[d]
      BY <2>5 DEF Return
    <3> QED
      BY <3>1, <3>2, <3>3, LeaseOutside
  <2> QED
    BY <1>8, <2>1, <2>2, <2>3, <2>4, <2>5 DEF Continue
<1>9. ASSUME NEW c \in Calls, Expire(c) \/ ProviderFails(c) PROVE LeaseInv'
  <2>1. call[c].pc \in Owning
    BY <1>9 DEF Expire, LeaseTimeout, OnceFails, ProviderFails, Owning, Running
  <2> QED
    BY <1>9, <2>1, <1>7, LeaseConcluded DEF Expire, LeaseTimeout, OnceFails, ProviderFails
<1>10. ASSUME NEW c \in Calls, append(c) \/ Answer(c) \/ OnceDone(c) PROVE LeaseInv'
  <2>1. CASE OnceDone(c)
    BY <2>1, LeaseDone
  <2>2. CASE append(c) \/ Answer(c)
    <3>1. call[c].pc \in Owning
      BY <2>2 DEF append, Answer, Owning, Running
    <3>2. lease' = lease /\ \E r : AwaitFlush(c, "appending", r) \/ AwaitFlush(c, "sealing", r)
      BY <2>2 DEF append, Answer
    <3> QED
      BY <3>1, <3>2, <1>6
  <2> QED
    BY <1>10, <2>1, <2>2
<1>11. ASSUME NEW c \in Calls, NEW k \in Events, StreamCall(c, k) PROVE LeaseInv'
  <2>1. CASE StreamLabel(c, k) \/ StreamOpen(c, k)
    <3>1. \E where \in {"labelling", "opening"} : \E r : StreamLease(c, k, where, r)
      BY <2>1 DEF StreamLabel, StreamOpen
    <3>2. PICK where \in {"labelling", "opening"} : \E r : StreamLease(c, k, where, r)
      BY <3>1
    <3>3. /\ call[c].pc = "idle" /\ lease[k] = NoCall /\ lease' = [lease EXCEPT ![k] = c]
          /\ call'[c].pc = where /\ call'[c].key = k
          /\ \A d \in Calls \ {c} : call'[d] = call[d]
      BY <3>2 DEF StreamLease, Calling, Free, Begin, Idle
    <3>4. where \in Owning
      BY DEF Owning, Running
    <3> QED
      BY <3>3, <3>4, LeaseTaken
  <2>2. CASE StreamJoin(c, k) \/ StreamReplay(c, k)
    <3>1. /\ call[c].pc = "idle" /\ lease' = lease
          /\ call'[c].pc \in {"joined", "ok"} /\ call'[c].key = k
          /\ call'[c].pc = "joined" => lease[k] # NoCall
          /\ \A d \in Calls \ {c} : call'[d] = call[d]
      BY <2>2 DEF StreamJoin, StreamReplay, Calling, Begin, Idle
    <3>2. call[c].pc \notin Owning /\ call'[c].pc \notin Owning
      BY <3>1 DEF Owning, Running
    <3> QED
      BY <3>1, <3>2, LeaseOutside
  <2> QED
    BY <1>11, <2>1, <2>2 DEF StreamCall
<1>12. ASSUME NEW c \in Calls, NEW k \in Media, OnceCall(c, k) PROVE LeaseInv'
  <2>1. CASE OnceRun(c, k)
    <3>1. /\ call[c].pc = "idle" /\ lease[k] = NoCall /\ lease' = [lease EXCEPT ![k] = c]
          /\ call'[c].pc = "working" /\ call'[c].key = k
          /\ \A d \in Calls \ {c} : call'[d] = call[d]
      BY <2>1 DEF OnceRun, Calling, Free, Begin, Idle
    <3>2. "working" \in Owning
      BY DEF Owning
    <3> QED
      BY <3>1, <3>2, LeaseTaken
  <2>2. CASE OnceJoin(c, k) \/ OnceReplay(c, k)
    <3>1. /\ call[c].pc = "idle" /\ lease' = lease
          /\ call'[c].pc \in {"joined", "ok"} /\ call'[c].key = k
          /\ call'[c].pc = "joined" => lease[k] # NoCall
          /\ \A d \in Calls \ {c} : call'[d] = call[d]
      BY <2>2 DEF OnceJoin, OnceReplay, Calling, Begin, Idle
    <3>2. call[c].pc \notin Owning /\ call'[c].pc \notin Owning
      BY <3>1 DEF Owning, Running
    <3> QED
      BY <3>1, <3>2, LeaseOutside
  <2> QED
    BY <1>12, <2>1, <2>2 DEF OnceCall
<1> QED
  BY <1>2, <1>3, <1>4, <1>8, <1>9, <1>10, <1>11, <1>12 DEF Next

(***************************************************************************)
(* The theorems.                                                           *)
(***************************************************************************)
\* The base holds at start.
LEMMA InitBase == Init => Base
<1> SUFFICES ASSUME Init PROVE Base
  OBVIOUS
<1>1. TypeOK
  <2>1. disk \in [Keys -> Rec]
    BY DEF Init, Absent, Rec, LegacyAnswer
  <2>2. queue \in Seq(Flushes) /\ call \in [Calls -> CallType] /\ processed \in [Keys -> Rec]
    BY RecordTypes DEF Init, Empty
  <2> QED
    BY <2>1, <2>2, RecordTypes DEF Init, TypeOK, CallType
<1>2. DownInv
  BY DEF Init, DownInv, Idle
<1>3. LeaseInv
  BY DEF Init, LeaseInv, Idle, Owning, Running
<1> QED
  BY <1>1, <1>2, <1>3 DEF Base

\* The base is kept.
LEMMA BaseInvariant == Spec => []Base
<1>1. Init => Base
  BY InitBase
<1>2. Base /\ [Next]_vars => Base'
  <2> SUFFICES ASSUME Base, [Next]_vars PROVE Base'
    OBVIOUS
  <2>1. CASE Next
    BY <2>1, TypeStep, DownStep, LeaseStep DEF Base
  <2>2. CASE UNCHANGED vars
    BY <2>2 DEF vars, memory, file, Base, TypeOK, DownInv, LeaseInv
  <2> QED
    BY <2>1, <2>2
<1> QED
  BY <1>1, <1>2, PTL DEF Spec

\* Whatever is delivered, saved, lost or restarted, every variable of the
\* ledger keeps its type.
THEOREM Typed == Spec => []TypeOK
BY BaseInvariant, PTL DEF Base

\* One generation at a time for a message, and nobody awaits a lease that no
\* run holds, for any number of concurrent deliveries (streamOnce, once).
THEOREM OneRunAlways == Spec => []OneRun
<1>1. Base => OneRun
  BY DEF Base, LeaseInv, OneRun
<1> QED
  BY <1>1, BaseInvariant, PTL


(***************************************************************************)
(* The invariant of the ledger, and the durability of its answers but for  *)
(* those that a start has lost with a half-written file.  A step of a call *)
(* changes the map, the leases and what was served for one key, and at     *)
(* most evicts another; a step of the store changes only the file and what *)
(* the awaited flushes say.                                                *)
(***************************************************************************)
\* What every step keeps: the invariant, and with it the answers given.
Kept == LedgerInv' /\ (ServedInv => ServedInv')

\* All that was served for k is lost.
LostOf(k) == served[k] \subseteq lost[k]

(***************************************************************************)
(* Steps of a call.                                                        *)
(***************************************************************************)
\* A flush that c has just queued.
Queued(c) ==
    \E f \in Flushes :
        /\ queue' = Append(queue, f)
        /\ f.by = c /\ f.at # "none" /\ f.rid <= fresh'
        /\ call'[c].pc \in Producing => f.at \in {"opening", "appending"}
        /\ call'[c].pc = f.at /\ call'[c].rec.rid = f.rid /\ call'[c].flushed = "no"

\* What a step of c on the key k leaves of the rest.
Elsewhere(c, k) ==
    /\ up = "up" /\ UNCHANGED <<up, saving, data, disk, torn, lost>>
    /\ fresh' \in Nat /\ fresh <= fresh'
    /\ dirty' = TRUE \/ UNCHANGED <<dirty, processed>>
    /\ queue' = queue \/ Queued(c)
    /\ call'[c].pc \in Producing =>
          \/ call[c].pc \in Producing /\ call'[c].rec.rid = call[c].rec.rid
          \/ call'[c].rec.rid > fresh
    /\ \A d \in Calls \ {c} : call'[d] = call[d] \/ call'[d].pc \in {"ok", "failed"}
    /\ \A j \in Keys \ {k} :
          /\ lease'[j] = lease[j]
          /\ \/ processed'[j] = processed[j] /\ served'[j] = served[j]
             \/ processed'[j] = Absent /\ served'[j] = {}
    /\ lease[k] \in {c, NoCall} \/ UNCHANGED <<processed, served, lease>>

\* No flush of an earlier run or step is taken for one of c's.
LEMMA FlushesKept ==
    ASSUME LedgerInv, NEW c \in Calls, NEW k, Elsewhere(c, k), TypeOK'
    PROVE  FlushInv'
<1>1. ASSUME NEW f \in Flushes, FlushOf(f) PROVE FlushOf(f)'
  <2> SUFFICES ASSUME NEW d \in Calls, call'[d].pc \in Producing, f.by = d,
                      f.rid = call'[d].rec.rid
               PROVE  f.at \in {"opening", "appending"}
    <3>1. f.rid <= fresh'
      BY <1>1 DEF FlushOf, Elsewhere, Flushes, LedgerInv, TypeOK
    <3> QED
      BY <3>1 DEF FlushOf
  <2>1. f.rid <= fresh /\ f.rid \in Nat /\ fresh \in Nat
    BY <1>1 DEF FlushOf, Flushes, LedgerInv, TypeOK
  <2>2. call[d].pc \in Producing /\ call'[d].rec.rid = call[d].rec.rid
    BY <2>1 DEF Elsewhere, Producing
  <2> QED
    BY <1>1, <2>2 DEF FlushOf
<1>2. saving \in Flushes /\ queue \in Seq(Flushes) /\ saving' = saving
  BY DEF LedgerInv, TypeOK, Elsewhere
<1>3. FlushOf(saving)'
  BY <1>1, <1>2 DEF LedgerInv, FlushInv, FlushOf
<1>4. \A i \in 1..Len(queue) : queue[i] \in Flushes /\ FlushOf(queue[i]) /\ queue[i].at # "none"
  BY <1>2 DEF LedgerInv, FlushInv
<1>5. ASSUME NEW i \in 1..Len(queue'), i \in 1..Len(queue), queue'[i] = queue[i]
      PROVE  FlushOf(queue[i])' /\ queue'[i].at # "none"
  BY <1>1, <1>4, <1>5 DEF FlushOf
<1>6. CASE queue' = queue
  BY <1>3, <1>5, <1>6 DEF FlushInv
<1>7. CASE Queued(c)
  <2>1. PICK f \in Flushes :
            /\ queue' = Append(queue, f)
            /\ f.by = c /\ f.at # "none" /\ f.rid <= fresh'
            /\ call'[c].pc \in Producing => f.at \in {"opening", "appending"}
    BY <1>7 DEF Queued
  <2>2. FlushOf(f)'
    BY <2>1 DEF FlushOf
  <2>3. ASSUME NEW i \in 1..Len(queue')
        PROVE  (i \in 1..Len(queue) /\ queue'[i] = queue[i]) \/ queue'[i] = f
    BY <1>2, <2>1
  <2>4. ASSUME NEW i \in 1..Len(queue') PROVE FlushOf(queue[i])' /\ queue'[i].at # "none"
    BY <1>5, <2>1, <2>2, <2>3 DEF FlushOf
  <2> QED
    BY <1>3, <2>4 DEF FlushInv
<1> QED
  BY <1>6, <1>7 DEF Elsewhere

\* A step of c queues no flush of another run.
LEMMA SoleElsewhere ==
    ASSUME LedgerInv, NEW c \in Calls, NEW k, Elsewhere(c, k), NEW d \in Calls \ {c}
    PROVE  SoleOf(d)'
<1> SUFFICES ASSUME call'[d].pc \in Producing PROVE SoleOf(d)'
  BY DEF SoleOf
<1>1. call'[d] = call[d] /\ SoleOf(d) /\ saving' = saving /\ queue \in Seq(Flushes)
  BY DEF Elsewhere, Producing, LedgerInv, SoleInv, TypeOK
<1>2. CASE queue' = queue
  BY <1>1, <1>2 DEF SoleOf, Own, Awaits
<1>3. CASE Queued(c)
  <2>1. PICK f \in Flushes : queue' = Append(queue, f) /\ f.by = c
    BY <1>3 DEF Queued
  <2>2. ASSUME NEW i \in 1..Len(queue'), Own(d, queue[i])'
        PROVE  i \in 1..Len(queue) /\ queue'[i] = queue[i] /\ Own(d, queue[i])
    <3>1. (i \in 1..Len(queue) /\ queue'[i] = queue[i]) \/ queue'[i] = f
      BY <1>1, <2>1
    <3> QED
      BY <1>1, <2>1, <2>2, <3>1 DEF Own
  <2> QED
    BY <1>1, <2>2 DEF SoleOf, Own, Awaits
<1> QED
  BY <1>2, <1>3 DEF Elsewhere

\* The flush that c has just queued is the only one of its run.
LEMMA SoleQueued ==
    ASSUME LedgerInv, NEW c \in Calls, Queued(c), UNCHANGED saving,
           ~(saving.by = c /\ saving.rid = call'[c].rec.rid),
           \A i \in 1..Len(queue) : ~(queue[i].by = c /\ queue[i].rid = call'[c].rec.rid)
    PROVE  SoleOf(c)'
<1>1. PICK f \in Flushes : /\ queue' = Append(queue, f) /\ f.by = c
                           /\ call'[c].pc = f.at /\ call'[c].flushed = "no"
  BY DEF Queued
<1>2. queue \in Seq(Flushes)
  BY DEF LedgerInv, TypeOK
<1>3. ASSUME NEW i \in 1..Len(queue'), Own(c, queue[i])'
      PROVE  i = Len(queue) + 1 /\ queue'[i] = f
  <2>1. (i \in 1..Len(queue) /\ queue'[i] = queue[i]) \/ (i = Len(queue) + 1 /\ queue'[i] = f)
    BY <1>1, <1>2
  <2> QED
    BY <1>3, <2>1 DEF Own
<1> QED
  BY <1>1, <1>3 DEF SoleOf, Own, Awaits

\* A step of c on k keeps the invariant when it keeps what that says of c
\* and of k.
LEMMA RunKept ==
    ASSUME LedgerInv, NEW c \in Calls, NEW k, Elsewhere(c, k),
           TypeOK', DownInv', LeaseInv', RecordOf(c)', SavedOf(c)', SoleOf(c)',
           k \in Events => ReplayOf(k)' /\ (ServedInv => ServedOf(k)')
    PROVE  Kept
<1>1. FlushInv'
  BY FlushesKept
<1>2. ASSUME NEW d \in Calls \ {c}, call[d].pc \in Owning
      PROVE  /\ call[d].key \in Keys
             /\ processed'[call[d].key] \in {processed[call[d].key], Absent}
  BY <1>2, LedgerAssumption DEF LedgerInv, LeaseInv, Elsewhere
<1>3. ASSUME NEW d \in Calls \ {c} PROVE RecordOf(d)'
  <2>1. CASE call'[d].pc \in {"ok", "failed"}
    BY <2>1 DEF RecordOf, Streaming, Producing
  <2>2. CASE call'[d] = call[d]
    <3>1. RecordOf(d) /\ fresh \in Nat /\ fresh' \in Nat /\ fresh <= fresh'
      BY DEF LedgerInv, TypeOK, RecordInv, Elsewhere
    <3>2. CASE call[d].pc \in Owning
      BY <1>2, <2>2, <3>1, <3>2 DEF RecordOf
    <3>3. CASE call[d].pc \notin Owning
      BY <2>2, <3>3 DEF RecordOf, Streaming, Producing, Owning, Running
    <3> QED
      BY <3>2, <3>3
  <2> QED
    BY <2>1, <2>2 DEF Elsewhere
<1>4. ASSUME NEW d \in Calls \ {c} PROVE SavedOf(d)'
  <2>1. CASE call'[d].pc \in {"ok", "failed"}
    BY <2>1 DEF SavedOf, Streaming, Producing
  <2>2. CASE call'[d] = call[d]
    <3> SUFFICES ASSUME call[d].pc \in Streaming PROVE SavedOf(d)'
      BY <2>2 DEF SavedOf
    <3>1. processed'[call[d].key] \in {processed[call[d].key], Absent}
      BY <1>2 DEF Owning, Running, Streaming, Producing
    <3>2. Held(d)' => Held(d)
      BY <2>2, <3>1 DEF Held
    <3> QED
      BY <2>2, <3>2 DEF LedgerInv, SavedInv, SavedOf, Stored, Elsewhere
  <2> QED
    BY <2>1, <2>2 DEF Elsewhere
<1>5. CleanInv'
  BY DEF LedgerInv, CleanInv, Handed, Elsewhere
<1>6. ReplayInv'
  <2> SUFFICES ASSUME NEW j \in Events, j # k PROVE ReplayOf(j)'
    BY DEF ReplayInv
  <2>1. ReplayOf(j)
    BY DEF LedgerInv, ReplayInv, Elsewhere
  <2> QED
    BY <2>1 DEF ReplayOf, Elsewhere, Stored, isComplete, Absent
<1>7. ServedInv => ServedInv'
  <2> SUFFICES ASSUME ServedInv, NEW j \in Events, j # k PROVE ServedOf(j)'
    BY DEF ServedInv
  <2>1. ServedOf(j) /\ fresh \in Nat
    BY DEF ServedInv, LedgerInv, TypeOK
  <2> QED
    BY <2>1 DEF ServedOf, Elsewhere
<1>8. \A d \in Calls \ {c} : SoleOf(d)'
  BY SoleElsewhere
<1> QED
  BY <1>1, <1>3, <1>4, <1>5, <1>6, <1>7, <1>8 DEF Kept, LedgerInv, RecordInv, SavedInv, SoleInv

\* Base is part of the invariant and every step keeps it.
LEMMA BaseKept == ASSUME LedgerInv, Next PROVE Base /\ TypeOK' /\ DownInv' /\ LeaseInv'
<1>1. Base
  BY DEF LedgerInv, Base
<1> QED
  BY <1>1, TypeStep, DownStep, LeaseStep

\* A call that holds a lease is alone on its key, and all that was served for
\* it is lost.
LEMMA Owner ==
    ASSUME LedgerInv, NEW c \in Calls, call[c].pc \in Owning
    PROVE  /\ up = "up" /\ call[c].key \in Keys
           /\ lease[call[c].key] = c /\ c # NoCall
           /\ ServedInv /\ call[c].key \in Events => LostOf(call[c].key)
<1>1. up = "up"
  BY DEF LedgerInv, DownInv, Owning, Running
<1>2. call[c].key \in Keys /\ lease[call[c].key] = c /\ c # NoCall
  BY LedgerAssumption DEF LedgerInv, LeaseInv
<1>3. ServedInv /\ call[c].key \in Events => LostOf(call[c].key)
  BY <1>1, <1>2 DEF LedgerInv, TypeOK, ServedInv, ServedOf, LostOf
<1> QED
  BY <1>1, <1>2, <1>3

\* The map has the record a call works on, or no longer has the call's key.
LEMMA HeldOrGone ==
    ASSUME LedgerInv, NEW c \in Calls, call[c].pc \in Streaming
    PROVE  /\ call[c].key \in Events /\ call[c].rec \in Rec
           /\ call[c].rec.rid \in 1..fresh
           /\ Held(c) => processed[call[c].key] = call[c].rec
           /\ ~Held(c) => processed[call[c].key] = Absent
<1>1. /\ call[c].key \in Events /\ call[c].rec.rid \in 1..fresh
      /\ processed[call[c].key] \in {call[c].rec, Absent}
  BY DEF LedgerInv, RecordInv, RecordOf
<1>2. call[c].rec \in Rec /\ fresh \in Nat
  BY CallTyped DEF LedgerInv, CallType, TypeOK
<1>3. call[c].rec # Absent
  BY <1>1, <1>2 DEF Absent
<1> QED
  BY <1>1, <1>2, <1>3 DEF Held

(***************************************************************************)
(* Calls without a lease.                                                  *)
(***************************************************************************)
\* A call that takes no lease changes at most what was served for k.
LEMMA OutsideKept ==
    ASSUME LedgerInv, Next, NEW c \in Calls, NEW k \in Keys,
           up = "up", UNCHANGED <<up, memory, file, lease, fresh>>,
           call'[c].pc \in {"idle", "joined", "ok"},
           \A d \in Calls \ {c} : call'[d] = call[d],
           \/ served' = served
           \/ Free(k) /\ isComplete(processed[k]) /\ processed[k].rid # 0 /\ Serve(k, processed[k])
    PROVE  Kept
<1>1. TypeOK' /\ DownInv' /\ LeaseInv'
  BY BaseKept
<1>2. Elsewhere(c, k)
  BY DEF Elsewhere, memory, file, Producing, Free, Serve, LedgerInv, TypeOK
<1>3. RecordOf(c)' /\ SavedOf(c)' /\ SoleOf(c)'
  BY DEF RecordOf, SavedOf, SoleOf, Streaming, Producing
<1>4. k \in Events => ReplayOf(k)' /\ (ServedInv => ServedOf(k)')
  <2> SUFFICES ASSUME k \in Events PROVE ReplayOf(k)' /\ (ServedInv => ServedOf(k)')
    OBVIOUS
  <2>1. ReplayOf(k) /\ (ServedInv => ServedOf(k)) /\ served \in [Keys -> SUBSET Rec]
    BY DEF LedgerInv, ReplayInv, ServedInv, TypeOK
  <2>2. ReplayOf(k)'
    BY <2>1 DEF ReplayOf, Stored, memory, file
  <2>3. ASSUME NEW r \in served'[k], r \notin served[k]
        PROVE  r = processed[k] /\ Free(k) /\ isComplete(r) /\ r.rid # 0
    <3>1. Free(k) /\ isComplete(processed[k]) /\ processed[k].rid # 0 /\ Serve(k, processed[k])
      BY <2>3
    <3>2. served'[k] = served[k] \cup {processed[k]}
      BY <2>1, <3>1 DEF Serve
    <3> QED
      BY <2>3, <3>1, <3>2
  <2>4. ServedInv => ServedOf(k)'
    BY <2>1, <2>3 DEF ServedOf, memory, file, Free
  <2> QED
    BY <2>2, <2>4
<1> QED
  BY <1>1, <1>2, <1>3, <1>4, RunKept

\* A redelivered message that is shared or replayed, a medium likewise.
LEMMA SharedKept ==
    ASSUME LedgerInv, Next, NEW c \in Calls, NEW k \in Keys,
           StreamJoin(c, k) \/ StreamReplay(c, k) \/ OnceReplay(c, k) \/ OnceJoin(c, k)
    PROVE  Kept
<1>1. \A where \in {"joined", "ok"}, r \in Rec : Begin(c, k, where, r) =>
          call'[c].pc = where /\ \A d \in Calls \ {c} : call'[d] = call[d]
  BY CallTyped DEF LedgerInv, Begin, Idle
<1>2. processed[k] \in Rec /\ Absent \in Rec
  BY RecordTypes DEF LedgerInv, TypeOK
<1>3. CASE StreamJoin(c, k)
  BY <1>1, <1>2, <1>3, OutsideKept DEF StreamJoin, Calling
<1>4. CASE StreamReplay(c, k)
  BY <1>1, <1>2, <1>4, OutsideKept DEF StreamReplay, Calling
<1>5. CASE OnceReplay(c, k)
  BY <1>1, <1>2, <1>5, OutsideKept DEF OnceReplay, Calling
<1>6. CASE OnceJoin(c, k)
  <2>1. lease[k] \in Calls
    BY <1>6 DEF OnceJoin, LedgerInv, TypeOK
  <2>2. call[lease[k]].rec \in Rec
    BY <2>1, CallTyped DEF LedgerInv, CallType
  <2>3. up = "up" /\ UNCHANGED <<up, memory, file, lease, fresh, served>>
    BY <1>6 DEF OnceJoin, Calling
  <2>4. Begin(c, k, "ok", call[lease[k]].rec) \/ Begin(c, k, "joined", Absent)
    BY <1>6 DEF OnceJoin
  <2> QED
    BY <1>1, <1>2, <2>2, <2>3, <2>4, OutsideKept
<1> QED
  BY <1>3, <1>4, <1>5, <1>6

\* A call that has its result.
LEMMA ReturnKept ==
    ASSUME LedgerInv, Next, NEW c \in Calls, Return(c) PROVE Kept
<1>1. up = "up" /\ call'[c].pc = "idle" /\ \A d \in Calls \ {c} : call'[d] = call[d]
  BY CallTyped DEF LedgerInv, DownInv, Return, Idle
<1>2. TypeOK' /\ DownInv' /\ LeaseInv'
  BY BaseKept
<1>3. Elsewhere(c, c)
  BY <1>1 DEF Return, Elsewhere, memory, file, Producing, LedgerInv, TypeOK
<1>4. RecordOf(c)' /\ SavedOf(c)' /\ SoleOf(c)'
  BY <1>1 DEF RecordOf, SavedOf, SoleOf, Streaming, Producing
<1>5. c \in Events => ReplayOf(c)' /\ (ServedInv => ServedOf(c)')
  BY <1>1 DEF Return, memory, file, LedgerInv, ReplayInv, ServedInv, ReplayOf, ServedOf, Stored
<1> QED
  BY <1>2, <1>3, <1>4, <1>5, RunKept

(***************************************************************************)
(* Calls that take or hold a lease.                                        *)
(***************************************************************************)
\* Nothing of a leased key is replayed, and what was served for it is lost.
LEMMA HoldKept ==
    ASSUME LedgerInv, Next, NEW c \in Calls, NEW k \in Keys, Elsewhere(c, k),
           lease'[k] = c, ServedInv /\ k \in Events => LostOf(k)',
           RecordOf(c)', SavedOf(c)', SoleOf(c)'
    PROVE  Kept
<1>1. TypeOK' /\ DownInv' /\ LeaseInv'
  BY BaseKept
<1>2. k \in Events => ReplayOf(k)' /\ (ServedInv => ServedOf(k)')
  BY LedgerAssumption DEF ReplayOf, ServedOf, LostOf
<1> QED
  BY <1>1, <1>2, RunKept

\* What StreamLease does: the lease of a run, its record and its flush.
Leased(c, k, where, r) ==
    /\ up = "up" /\ UNCHANGED <<up, saving, data, disk, torn, lost>> /\ dirty' = TRUE
    /\ fresh' = fresh + 1
    /\ lease[k] = NoCall /\ lease' = [lease EXCEPT ![k] = c] /\ lease'[k] = c
    /\ call'[c].pc = where /\ call'[c].key = k /\ call'[c].rec = r
    /\ call'[c].flushed = "no"
    /\ \A d \in Calls \ {c} : call'[d] = call[d]
    /\ Queued(c)

\* The lease of a run, its record and its flush.
LEMMA LeaseForm ==
    ASSUME LedgerInv, NEW c \in Calls, NEW k \in Keys, NEW where \in {"opening", "labelling"},
           NEW r \in Rec, r.rid = fresh + 1, StreamLease(c, k, where, r)
    PROVE  Leased(c, k, where, r)
<1>1. fresh \in Nat /\ lease \in [Keys -> Calls \cup {NoCall}] /\ call \in [Calls -> CallType]
  BY CallTyped DEF LedgerInv, TypeOK
<1>2. /\ call'[c] = [Idle EXCEPT !.pc = where, !.key = k, !.rec = r]
      /\ \A d \in Calls \ {c} : call'[d] = call[d]
  BY <1>1 DEF StreamLease, Begin
<1>3. call'[c].pc = where /\ call'[c].key = k /\ call'[c].rec = r /\ call'[c].flushed = "no"
  BY <1>2 DEF Idle
<1>4. Flush(c, where, r.rid) \in Flushes
  BY <1>1 DEF Flush, Flushes, Places, Owning, Running
<1>5. Queued(c)
  BY <1>1, <1>3, <1>4 DEF Queued, StreamLease, Flush, Producing
<1> QED
  BY <1>1, <1>2, <1>3, <1>5 DEF Leased, StreamLease, Calling, Free, file

\* An entry of the old format that gets its responseId.
LEMMA LabelKept ==
    ASSUME LedgerInv, Next, NEW c \in Calls, NEW k \in Events, StreamLabel(c, k) PROVE Kept
<1> DEFINE r == [processed[k] EXCEPT !.rid = fresh + 1]
<1>0. processed \in [Keys -> Rec] /\ fresh \in Nat
  BY DEF LedgerInv, TypeOK
<1>1. r \in Rec /\ r.rid = fresh + 1 /\ isComplete(r)
  BY <1>0 DEF StreamLabel, Rec, isComplete
<1>2. StreamLease(c, k, "labelling", r) /\ processed' = [processed EXCEPT ![k] = r] /\ served' = served
  BY DEF StreamLabel
<1> HIDE DEF r
<1>3. Leased(c, k, "labelling", r)
  <2>1. k \in Keys
    OBVIOUS
  <2> QED
    BY <1>1, <1>2, <2>1, LeaseForm
<1>4. Elsewhere(c, k)
  BY <1>0, <1>2, <1>3 DEF Leased, Elsewhere, Producing
<1>5. ServedInv => LostOf(k)'
  <2>1. processed[k].rid = 0
    BY DEF StreamLabel
  <2>2. ServedInv => LostOf(k)
    BY <1>3, <2>1 DEF Leased, LedgerInv, TypeOK, ServedInv, ServedOf, LostOf
  <2> QED
    BY <1>2, <1>3, <2>2 DEF Leased, LostOf
<1>6. RecordOf(c)'
  BY <1>0, <1>1, <1>2, <1>3 DEF Leased, RecordOf, Streaming, Producing
<1>7. SavedOf(c)' /\ SoleOf(c)'
  <2>1. saving.rid <= fresh
    BY DEF LedgerInv, FlushInv, FlushOf
  <2>2. saving.rid # r.rid
    BY <1>0, <1>1, <2>1
  <2> QED
    BY <1>3, <2>2 DEF Leased, SavedOf, SoleOf, Producing
<1> QED
  BY <1>3, <1>4, <1>5, <1>6, <1>7, HoldKept DEF Leased

\* set then trim: the key has its record or nothing, and an evicted one has
\* nothing that was served.
LEMMA TrimForm ==
    ASSUME LedgerInv, NEW k \in Keys, NEW r \in Rec, SetAndTrim(k, r)
    PROVE  /\ processed'[k] \in {r, Absent} /\ served'[k] \in {served[k], {}}
           /\ \A j \in Keys \ {k} :
                 \/ processed'[j] = processed[j] /\ served'[j] = served[j]
                 \/ processed'[j] = Absent /\ served'[j] = {}
<1> DEFINE written == [processed EXCEPT ![k] = r]
<1> DEFINE entries == {j \in Keys : written[j] # Absent}
<1>0. processed \in [Keys -> Rec] /\ served \in [Keys -> SUBSET Rec]
  BY DEF LedgerInv, TypeOK
<1>1. written[k] = r /\ \A j \in Keys \ {k} : written[j] = processed[j]
  BY <1>0
<1>2. \/ processed' = written /\ served' = served
      \/ \E old \in entries : processed' = [written EXCEPT ![old] = Absent]
                              /\ served' = [served EXCEPT ![old] = {}]
  BY DEF SetAndTrim
<1>3. written \in [Keys -> Rec] /\ entries \subseteq Keys
  BY <1>0
<1> HIDE DEF written, entries
<1> QED
  BY <1>0, <1>1, <1>2, <1>3

\* A message that begins to be answered.
LEMMA OpenKept ==
    ASSUME LedgerInv, Next, NEW c \in Calls, NEW k \in Events, StreamOpen(c, k) PROVE Kept
<1> DEFINE r == [rid |-> fresh + 1, n |-> 0, ans |-> NoAnswer, at |-> Place(k)]
<1>0. processed \in [Keys -> Rec] /\ fresh \in Nat
  BY DEF LedgerInv, TypeOK
<1>1. r \in Rec /\ r.rid = fresh + 1 /\ ~isComplete(r)
  BY <1>0 DEF Rec, isComplete, NoAnswer, Place
<1>2. StreamLease(c, k, "opening", r) /\ SetAndTrim(k, r) /\ ~isComplete(processed[k])
  BY DEF StreamOpen
<1> HIDE DEF r
<1>3. Leased(c, k, "opening", r)
  <2>1. k \in Keys
    OBVIOUS
  <2> QED
    BY <1>1, <1>2, <2>1, LeaseForm
<1>4. /\ processed'[k] \in {r, Absent} /\ served'[k] \in {served[k], {}}
      /\ \A j \in Keys \ {k} :
            \/ processed'[j] = processed[j] /\ served'[j] = served[j]
            \/ processed'[j] = Absent /\ served'[j] = {}
  BY <1>1, <1>2, TrimForm
<1>5. Elsewhere(c, k)
  BY <1>0, <1>1, <1>3, <1>4 DEF Leased, Elsewhere
<1>6. ServedInv => LostOf(k)'
  <2>1. ServedInv => LostOf(k)
    BY <1>2, <1>3 DEF Leased, LedgerInv, TypeOK, ServedInv, ServedOf, LostOf
  <2> QED
    BY <1>3, <1>4, <2>1 DEF Leased, LostOf
<1>7. RecordOf(c)'
  BY <1>0, <1>1, <1>3, <1>4 DEF Leased, RecordOf, Streaming, Producing
<1>8. SavedOf(c)' /\ SoleOf(c)'
  <2>1. saving.rid <= fresh /\ \A i \in 1..Len(queue) : queue[i].rid <= fresh
    BY DEF LedgerInv, FlushInv, FlushOf
  <2>2. saving.rid # r.rid /\ \A i \in 1..Len(queue) : queue[i].rid # r.rid
    BY <1>0, <1>1, <2>1
  <2>3. SavedOf(c)'
    BY <1>3, <2>2 DEF Leased, SavedOf
  <2>4. SoleOf(c)'
    BY <1>3, <2>2, SoleQueued DEF Leased
  <2> QED
    BY <2>3, <2>4
<1> QED
  BY <1>3, <1>5, <1>6, <1>7, <1>8, HoldKept DEF Leased

\* The work of a medium begins.
LEMMA WorkKept ==
    ASSUME LedgerInv, Next, NEW c \in Calls, NEW k \in Media, OnceRun(c, k) PROVE Kept
<1>0. fresh \in Nat /\ lease \in [Keys -> Calls \cup {NoCall}] /\ k \notin Events
  BY LedgerAssumption DEF LedgerInv, TypeOK
<1>1. /\ call'[c] = [Idle EXCEPT !.pc = "working", !.key = k,
                                 !.rec = [Absent EXCEPT !.ans = fresh + 1, !.at = fresh + 1]]
      /\ \A d \in Calls \ {c} : call'[d] = call[d]
  BY CallTyped DEF LedgerInv, OnceRun, Begin
<1>2. call'[c].pc = "working" /\ call'[c].key = k /\ call'[c].rec.rid = 0
  BY <1>1 DEF Idle, Absent
<1>3. Elsewhere(c, k) /\ lease'[k] = c
  BY <1>0, <1>1, <1>2 DEF Elsewhere, OnceRun, Calling, Free, memory, file, Producing
<1>4. RecordOf(c)' /\ SavedOf(c)' /\ SoleOf(c)'
  BY <1>2 DEF RecordOf, SavedOf, SoleOf, Streaming, Producing
<1> QED
  BY <1>0, <1>3, <1>4, HoldKept

\* The flush of a run goes on: an awaited flush of opening or append was saved.
LEMMA GoesOnKept ==
    ASSUME LedgerInv, Next, NEW c \in Calls, call[c].pc \in {"opening", "appending"},
           call[c].flushed = "saved", call' = Goto(c, "generating"),
           UNCHANGED <<up, memory, file, lease, fresh, served>>
    PROVE  Kept
<1> DEFINE k == call[c].key
<1>0. call \in [Calls -> CallType] /\ fresh \in Nat
  BY CallTyped DEF LedgerInv, TypeOK
<1>1. up = "up" /\ k \in Keys /\ lease[k] = c /\ (ServedInv /\ k \in Events => LostOf(k))
  BY Owner DEF Owning, Running
<1>2. /\ call'[c].pc = "generating" /\ call'[c].key = k /\ call'[c].rec = call[c].rec
      /\ call'[c].flushed = "saved"
      /\ \A d \in Calls \ {c} : call'[d] = call[d]
  BY <1>0 DEF Goto, CallType
<1>3. RecordOf(c) /\ SavedOf(c) /\ SoleOf(c)
  BY DEF LedgerInv, RecordInv, SavedInv, SoleInv
<1> HIDE DEF k
<1>4. Elsewhere(c, k)
  BY <1>0, <1>1, <1>2 DEF Elsewhere, memory, file, Producing
<1>5. RecordOf(c)'
  BY <1>2, <1>3 DEF RecordOf, Streaming, Producing, memory, k
<1>6. SavedOf(c)'
  <2>1. Held(c)' <=> Held(c)
    BY <1>2 DEF Held, memory, k
  <2>2. saving.by = c /\ saving.rid = call[c].rec.rid => saving.at # "generating"
    BY DEF LedgerInv, FlushInv, FlushOf, Producing
  <2> QED
    BY <1>2, <1>3, <2>1, <2>2 DEF SavedOf, Stored, Streaming, Producing, file, k
<1>7. SoleOf(c)'
  BY <1>2, <1>3 DEF SoleOf, Own, Awaits, Producing, memory, file
<1> QED
  BY <1>1, <1>4, <1>5, <1>6, <1>7, HoldKept DEF LostOf, file

\* What AwaitFlush does.
Awaiting(c, where, r) ==
    /\ dirty' = TRUE
    /\ call'[c].pc = where /\ call'[c].key = call[c].key /\ call'[c].rec = r
    /\ call'[c].flushed = "no"
    /\ \A d \in Calls \ {c} : call'[d] = call[d]
    /\ Queued(c)

\* AwaitFlush queues a flush that belongs to the step it waits at.
LEMMA AwaitForm ==
    ASSUME LedgerInv, NEW c \in Calls, NEW r \in Rec, r.rid <= fresh, fresh' \in Nat, fresh <= fresh',
           NEW where \in {"appending", "sealing", "undoing", "storing"}, AwaitFlush(c, where, r)
    PROVE  Awaiting(c, where, r)
<1>1. fresh \in Nat /\ call \in [Calls -> CallType] /\ r.rid \in Nat
  BY CallTyped DEF LedgerInv, TypeOK, Rec
<1>2. /\ call'[c].pc = where /\ call'[c].key = call[c].key /\ call'[c].rec = r
      /\ call'[c].flushed = "no"
      /\ \A d \in Calls \ {c} : call'[d] = call[d]
  BY <1>1 DEF AwaitFlush, CallType
<1>3. Flush(c, where, r.rid) \in Flushes
  BY <1>1 DEF Flush, Flushes, Places, Owning, Running
<1>4. r.rid <= fresh'
  BY <1>1
<1>5. Queued(c)
  BY <1>2, <1>3, <1>4 DEF Queued, AwaitFlush, Flush, Producing
<1> QED
  BY <1>2, <1>5 DEF Awaiting, AwaitFlush

\* A fragment or the answer is written, and its flush awaited.
LEMMA WriteKept ==
    ASSUME LedgerInv, Next, NEW c \in Calls, call[c].pc = "generating",
           NEW where \in {"appending", "sealing"}, NEW r \in Rec,
           r.rid = call[c].rec.rid, isComplete(r) <=> where = "sealing",
           Write(c, r), AwaitFlush(c, where, r),
           UNCHANGED <<up, file, lease, fresh, served>>
    PROVE  Kept
<1> DEFINE k == call[c].key
<1>0. processed \in [Keys -> Rec] /\ fresh \in Nat
  BY DEF LedgerInv, TypeOK
<1>1. up = "up" /\ k \in Keys /\ lease[k] = c /\ (ServedInv /\ k \in Events => LostOf(k))
  BY Owner DEF Owning, Running
<1>2. /\ k \in Events /\ r.rid \in 1..fresh /\ (~Held(c) => processed[k] = Absent)
  BY HeldOrGone DEF Streaming, Producing
<1>3. Awaiting(c, where, r)
  BY <1>0, <1>2, AwaitForm
<1>4. /\ processed'[k] \in {r, Absent}
      /\ \A j \in Keys \ {k} : processed'[j] = processed[j]
  BY <1>0, <1>1, <1>2 DEF Write
<1> HIDE DEF k
<1>5. Elsewhere(c, k)
  BY <1>0, <1>1, <1>3, <1>4 DEF Elsewhere, Awaiting, file, Producing
<1>6. RecordOf(c)'
  BY <1>2, <1>3, <1>4 DEF RecordOf, Awaiting, Streaming, Producing, k
<1>7. SavedOf(c)' /\ SoleOf(c)'
  <2>1. /\ Own(c, saving) => saving.at \in {"opening", "appending"}
        /\ \A i \in 1..Len(queue) : Own(c, queue[i]) => queue[i].at \in {"opening", "appending"}
    BY DEF LedgerInv, FlushInv, FlushOf, Own, Producing
  <2>2. ~Own(c, saving) /\ \A i \in 1..Len(queue) : ~Own(c, queue[i])
    BY <2>1 DEF LedgerInv, SoleInv, SoleOf, Awaits, Producing
  <2>3. SavedOf(c)'
    BY <1>3, <2>2 DEF SavedOf, Awaiting, Own, file
  <2>4. SoleOf(c)'
    BY <1>3, <2>2, SoleQueued DEF Awaiting, Own, file
  <2> QED
    BY <2>3, <2>4
<1> QED
  BY <1>1, <1>5, <1>6, <1>7, HoldKept DEF LostOf, file

\* A fragment is appended, or the answer is complete.
LEMMA AppendKept ==
    ASSUME LedgerInv, Next, NEW c \in Calls, append(c) \/ Answer(c) PROVE Kept
<1>0. call[c].rec \in Rec /\ call[c].rec.rid \in 1..fresh /\ fresh \in Nat /\ ~isComplete(call[c].rec)
  <2>1. call[c].pc \in Producing
    BY DEF append, Answer, Producing
  <2> QED
    BY <2>1, HeldOrGone DEF LedgerInv, TypeOK, RecordInv, RecordOf, Streaming
<1>1. CASE append(c)
  <2> DEFINE r == [call[c].rec EXCEPT !.n = @ + 1]
  <2>1. r \in Rec /\ r.rid = call[c].rec.rid /\ ~isComplete(r)
    BY <1>0 DEF Rec, isComplete
  <2>2. Write(c, r) /\ AwaitFlush(c, "appending", r) /\ call[c].pc = "generating"
        /\ UNCHANGED <<up, file, lease, fresh, served>>
    BY <1>1 DEF append
  <2> HIDE DEF r
  <2> QED
    BY <2>1, <2>2, WriteKept
<1>2. CASE Answer(c)
  <2> DEFINE r == [call[c].rec EXCEPT !.ans = call[c].rec.rid]
  <2>1. r \in Rec /\ r.rid = call[c].rec.rid /\ isComplete(r)
    BY <1>0 DEF Rec, isComplete
  <2>2. Write(c, r) /\ AwaitFlush(c, "sealing", r) /\ call[c].pc = "generating"
        /\ UNCHANGED <<up, file, lease, fresh, served>>
    BY <1>2 DEF Answer
  <2> HIDE DEF r
  <2> QED
    BY <2>1, <2>2, WriteKept
<1> QED
  BY <1>1, <1>2

\* The work of a medium is done.
LEMMA WorkDoneKept ==
    ASSUME LedgerInv, Next, NEW c \in Calls, OnceDone(c) PROVE Kept
<1> DEFINE k == call[c].key
<1> DEFINE r == [call[c].rec EXCEPT !.at = Place(k)]
<1>0. /\ processed \in [Keys -> Rec] /\ fresh \in Nat /\ call \in [Calls -> CallType]
      /\ call[c].pc = "working"
  BY CallTyped DEF LedgerInv, TypeOK, OnceDone
<1>1. up = "up" /\ k \in Keys /\ lease[k] = c /\ k \in Media /\ k \notin Events
  BY <1>0, Owner, LedgerAssumption DEF Owning, LedgerInv, RecordInv, RecordOf
<1>2. r \in Rec /\ r.rid = 0
  BY <1>0, <1>1 DEF CallType, Rec, Place, LedgerInv, RecordInv, RecordOf
<1>3. /\ SetAndTrim(k, r) /\ dirty' = TRUE /\ fresh' = fresh + 1
      /\ queue' = Append(queue, Flush(c, "storing", r.rid))
      /\ UNCHANGED <<up, file, lease>>
  BY DEF OnceDone
<1>5. /\ call'[c].pc = "storing" /\ call'[c].key = k /\ call'[c].rec = r
      /\ call'[c].flushed = "no"
      /\ \A d \in Calls \ {c} : call'[d] = call[d] \/ call'[d].pc = "ok"
  BY <1>0 DEF OnceDone, CallType
<1> HIDE DEF r
<1>4. \A j \in Keys \ {k} :
            \/ processed'[j] = processed[j] /\ served'[j] = served[j]
            \/ processed'[j] = Absent /\ served'[j] = {}
  BY <1>1, <1>2, <1>3, TrimForm
<1> HIDE DEF k
<1>6. Elsewhere(c, k)
  <2>1. Flush(c, "storing", r.rid) \in Flushes
    BY <1>2 DEF Flush, Flushes, Places, Owning, Rec
  <2>2. Queued(c)
    BY <1>0, <1>2, <1>3, <1>5, <2>1 DEF Queued, Flush, Producing
  <2> QED
    BY <1>0, <1>1, <1>3, <1>4, <1>5, <2>2 DEF Elsewhere, file, Producing
<1>7. RecordOf(c)' /\ SavedOf(c)' /\ SoleOf(c)'
  BY <1>1, <1>2, <1>5 DEF RecordOf, SavedOf, SoleOf, Streaming, Producing, k
<1> QED
  BY <1>1, <1>3, <1>6, <1>7, HoldKept

(***************************************************************************)
(* Calls that give their lease back.                                       *)
(***************************************************************************)
\* What can now be replayed is stored, and is all that was served and not lost.
Freed(k) ==
    /\ isComplete(processed'[k]) /\ processed'[k].rid # 0 => Stored(k, processed'[k])
    /\ ServedInv => \A r \in served'[k] \ lost[k] :
                        r = processed'[k] /\ isComplete(r) /\ r.rid # 0

\* A call concludes: its key is free again.
LEMMA ConcludeKept ==
    ASSUME LedgerInv, Next, NEW c \in Calls, call[c].pc \in Owning,
           NEW o \in {"ok", "failed"}, Conclude(c, o),
           UNCHANGED <<up, queue, file, fresh>>,
           dirty' = TRUE \/ UNCHANGED <<dirty, processed>>,
           \A j \in Keys \ {call[c].key} : processed'[j] = processed[j] /\ served'[j] = served[j],
           call[c].key \in Events => Freed(call[c].key)
    PROVE  Kept
<1> SUFFICES ASSUME NEW k, k = call[c].key PROVE Kept
  OBVIOUS
<1>0. /\ fresh \in Nat /\ lease \in [Keys -> Calls \cup {NoCall}]
      /\ call \in [Calls -> CallType]
  BY CallTyped DEF LedgerInv, TypeOK
<1>1. up = "up" /\ k \in Keys /\ lease[k] = c
  BY Owner
<1>2. /\ call'[c].pc = o
      /\ \A d \in Calls \ {c} : call'[d] = call[d] \/ call'[d].pc \in {"ok", "failed"}
  BY <1>0 DEF Conclude, CallType
<1>3. lease'[k] = NoCall /\ \A j \in Keys \ {k} : lease'[j] = lease[j]
  BY <1>0, <1>1 DEF Conclude
<1>4. k \in Events => Freed(k)
  OBVIOUS
<1>5. \A j \in Keys \ {k} : processed'[j] = processed[j] /\ served'[j] = served[j]
  OBVIOUS
<1>6. Elsewhere(c, k)
  BY <1>0, <1>1, <1>2, <1>3, <1>5 DEF Elsewhere, file, Producing
<1>7. RecordOf(c)' /\ SavedOf(c)' /\ SoleOf(c)'
  BY <1>2 DEF RecordOf, SavedOf, SoleOf, Streaming, Producing
<1>8. k \in Events => ReplayOf(k)' /\ (ServedInv => ServedOf(k)')
  BY <1>1, <1>3, <1>4 DEF Freed, ReplayOf, ServedOf, Stored, isComplete, file
<1>9. TypeOK' /\ DownInv' /\ LeaseInv'
  BY BaseKept
<1> QED
  BY <1>6, <1>7, <1>8, <1>9, RunKept

\* A run that ends without an answer of its own in the map.
LEMMA NothingFreed ==
    ASSUME LedgerInv, NEW c \in Calls, call[c].pc \in Owning, UNCHANGED <<processed, served>>,
           call[c].key \in Events => ~isComplete(processed[call[c].key])
    PROVE  call[c].key \in Events => Freed(call[c].key)
BY Owner DEF Freed, LostOf

\* A run whose answer was saved.
LEMMA AnswerFreed ==
    ASSUME LedgerInv, NEW c \in Calls, call[c].pc \in {"sealing", "labelling"},
           call[c].flushed = "saved", UNCHANGED processed,
           IF Held(c) THEN Serve(call[c].key, call[c].rec) ELSE UNCHANGED served
    PROVE  /\ Freed(call[c].key)
           /\ \A j \in Keys \ {call[c].key} : served'[j] = served[j]
<1> DEFINE k == call[c].key
<1>1. /\ k \in Events /\ call[c].rec.rid \in 1..fresh
      /\ Held(c) => processed[k] = call[c].rec
      /\ ~Held(c) => processed[k] = Absent
  BY HeldOrGone DEF Streaming
<1>2. (ServedInv => LostOf(k)) /\ served \in [Keys -> SUBSET Rec] /\ fresh \in Nat
  BY <1>1, Owner DEF Owning, Running, LedgerInv, TypeOK
<1>3. isComplete(call[c].rec)
  BY DEF LedgerInv, RecordInv, RecordOf
<1>4. Held(c) => Stored(k, call[c].rec)
  BY DEF LedgerInv, SavedInv, SavedOf, Streaming
<1>5. CASE Held(c)
  <2>1. served' = [served EXCEPT ![k] = @ \cup {call[c].rec}]
    BY <1>5 DEF Serve
  <2>2. /\ served'[k] = served[k] \cup {call[c].rec}
        /\ \A j \in Keys \ {k} : served'[j] = served[j]
    BY <1>1, <1>2, <2>1
  <2>3. call[c].rec.rid # 0
    BY <1>1, <1>2
  <2> QED
    BY <1>1, <1>2, <1>3, <1>4, <1>5, <2>2, <2>3 DEF Freed, LostOf
<1>6. CASE ~Held(c)
  BY <1>1, <1>2, <1>6 DEF Freed, LostOf, isComplete, Absent
<1> QED
  BY <1>5, <1>6

\* The flush of opening or of a fragment has settled.
LEMMA OpenedKept ==
    ASSUME LedgerInv, Next, NEW c \in Calls, Opened(c) \/ Appended(c) PROVE Kept
<1>1. CASE At(c, "opening", "failed") /\ Opened(c)
  <2>1. call[c].pc \in Owning /\ call[c].pc \in Streaming /\ call[c].pc \in Producing /\ Conclude(c, "failed")
    BY <1>1 DEF At, Opened, Owning, Running, Streaming, Producing
  <2>2. ~isComplete(processed[call[c].key])
    BY <2>1, HeldOrGone DEF LedgerInv, RecordInv, RecordOf, isComplete, Absent
  <2>3. UNCHANGED <<up, memory, file, fresh, served>>
    BY <1>1 DEF Opened
  <2>4. call[c].key \in Events => Freed(call[c].key)
    BY <2>1, <2>2, <2>3, NothingFreed DEF memory
  <2> QED
    BY <2>1, <2>3, <2>4, ConcludeKept DEF memory
<1>2. CASE ~At(c, "opening", "failed") /\ Opened(c)
  BY <1>2, GoesOnKept DEF Opened, At
<1>3. CASE Appended(c)
  BY <1>3, GoesOnKept DEF Appended, At
<1> QED
  BY <1>1, <1>2, <1>3

\* The answer is saved and goes to its callers.
LEMMA SealedKept ==
    ASSUME LedgerInv, Next, NEW c \in Calls, Sealed(c) PROVE Kept
<1>1. /\ call[c].pc = "sealing" /\ call[c].flushed = "saved" /\ Conclude(c, "ok")
      /\ IF Held(c) THEN Serve(call[c].key, call[c].rec) ELSE UNCHANGED served
      /\ UNCHANGED <<up, processed, dirty, queue, file, fresh>>
  BY DEF Sealed, At, memory
<1>2. call[c].pc \in Owning
  BY <1>1 DEF Owning, Running
<1>3. Freed(call[c].key) /\ \A j \in Keys \ {call[c].key} : served'[j] = served[j]
  BY <1>1, AnswerFreed
<1> QED
  BY <1>1, <1>2, <1>3, ConcludeKept

\* A responseId that was saved, or is taken back.
LEMMA LabelledKept ==
    ASSUME LedgerInv, Next, NEW c \in Calls, Labelled(c) PROVE Kept
<1>1. call[c].pc = "labelling" /\ call[c].pc \in Owning /\ call[c].pc \in Streaming
      /\ UNCHANGED <<up, queue, file, fresh>>
  BY DEF Labelled, At, Owning, Streaming
<1>2. CASE At(c, "labelling", "saved")
  <2>1. /\ call[c].flushed = "saved" /\ Conclude(c, "ok") /\ UNCHANGED <<processed, dirty>>
        /\ IF Held(c) THEN Serve(call[c].key, call[c].rec) ELSE UNCHANGED served
    BY <1>2 DEF Labelled, At
  <2>2. Freed(call[c].key) /\ \A j \in Keys \ {call[c].key} : served'[j] = served[j]
    BY <1>1, <2>1, AnswerFreed
  <2> QED
    BY <1>1, <2>1, <2>2, ConcludeKept
<1>3. CASE ~At(c, "labelling", "saved")
  <2> DEFINE k == call[c].key
  <2> DEFINE r == [call[c].rec EXCEPT !.rid = 0]
  <2>1. Write(c, r) /\ dirty' = TRUE /\ Conclude(c, "failed") /\ served' = served
    BY <1>3 DEF Labelled
  <2>2. /\ k \in Events /\ r.rid = 0 /\ (~Held(c) => processed[k] = Absent)
        /\ processed \in [Keys -> Rec]
    BY <1>1, HeldOrGone DEF LedgerInv, TypeOK, Rec
  <2>3. ServedInv => LostOf(k)
    BY <1>1, <2>2, Owner
  <2> HIDE DEF r
  <2>4. /\ processed'[k] \in {r, Absent}
        /\ \A j \in Keys \ {k} : processed'[j] = processed[j]
    BY <2>1, <2>2 DEF Write
  <2>5. Freed(k)
    BY <2>1, <2>2, <2>3, <2>4 DEF Freed, LostOf, isComplete, Absent
  <2> QED
    BY <1>1, <2>1, <2>4, <2>5, ConcludeKept
<1> QED
  BY <1>2, <1>3

\* A run that is given up: its record leaves the map, or already has.
LEMMA AbandonKept ==
    ASSUME LedgerInv, Next, NEW c \in Calls, Abandon(c),
           call[c].pc \in {"generating", "appending", "sealing"}
    PROVE  Kept
<1> DEFINE k == call[c].key
<1>1. /\ up = "up" /\ k \in Keys /\ lease[k] = c /\ (ServedInv /\ k \in Events => LostOf(k))
      /\ call[c].pc \in Owning
  BY Owner DEF Owning, Running
<1>2. /\ k \in Events /\ call[c].rec \in Rec /\ call[c].rec.rid \in 1..fresh
      /\ (~Held(c) => processed[k] = Absent)
  BY HeldOrGone DEF Streaming, Producing
<1>3. processed \in [Keys -> Rec] /\ fresh \in Nat
  BY DEF LedgerInv, TypeOK
<1>4. UNCHANGED <<up, file, fresh, served>>
  BY DEF Abandon
<1>5. CASE Held(c)
  <2>1. /\ processed' = [processed EXCEPT ![k] = Absent]
        /\ AwaitFlush(c, "undoing", call[c].rec) /\ UNCHANGED lease
    BY <1>5 DEF Abandon
  <2>2. Awaiting(c, "undoing", call[c].rec)
    BY <1>2, <1>3, <1>4, <2>1, AwaitForm
  <2>3. processed'[k] = Absent /\ \A j \in Keys \ {k} : processed'[j] = processed[j]
    BY <1>1, <1>3, <2>1
  <2> HIDE DEF k
  <2>4. Elsewhere(c, k)
    BY <1>1, <1>3, <1>4, <2>1, <2>2, <2>3 DEF Elsewhere, Awaiting, file, Producing
  <2>5. RecordOf(c)' /\ SavedOf(c)' /\ SoleOf(c)'
    BY <1>2, <2>2, <2>3 DEF RecordOf, SavedOf, SoleOf, Awaiting, Streaming, Producing, k
  <2> QED
    BY <1>1, <1>4, <2>1, <2>4, <2>5, HoldKept DEF LostOf, file
<1>6. CASE ~Held(c)
  <2>1. Conclude(c, "failed") /\ UNCHANGED memory
    BY <1>6 DEF Abandon
  <2>2. k \in Events => Freed(k)
    BY <1>1, <1>2, <1>4, <1>6, <2>1, NothingFreed DEF memory, isComplete, Absent
  <2> QED
    BY <1>1, <1>4, <2>1, <2>2, ConcludeKept DEF memory
<1> QED
  BY <1>5, <1>6

\* A run whose record is gone, and the work of a medium, stored or not.
LEMMA EndKept ==
    ASSUME LedgerInv, Next, NEW c \in Calls, Undone(c) \/ OnceStored(c) \/ OnceFails(c) PROVE Kept
<1>1. /\ call[c].pc \in {"undoing", "storing", "working"}
      /\ \E o \in {"ok", "failed"} : Conclude(c, o)
      /\ UNCHANGED <<up, memory, file, fresh, served>>
  BY DEF Undone, OnceStored, OnceFails
<1>2. call[c].pc \in Owning
  BY <1>1 DEF Owning, Running
<1>3. call[c].key \in Events => ~isComplete(processed[call[c].key])
  BY <1>1, LedgerAssumption DEF LedgerInv, RecordInv, RecordOf, isComplete, Absent
<1>4. call[c].key \in Events => Freed(call[c].key)
  BY <1>1, <1>2, <1>3, NothingFreed DEF memory
<1> QED
  BY <1>1, <1>2, <1>4, ConcludeKept DEF memory

\* Every step of a call keeps the invariant.
LEMMA CallKept ==
    ASSUME LedgerInv, Next, NEW c \in Calls,
           \/ Continue(c) \/ Expire(c)
           \/ append(c) \/ Answer(c) \/ ProviderFails(c) \/ OnceDone(c)
           \/ \E k \in Events : StreamCall(c, k)
           \/ \E k \in Media : OnceCall(c, k)
    PROVE  Kept
<1>1. CASE Continue(c)
  <2>1. CASE FlushFailed(c)
    BY <2>1, AbandonKept DEF FlushFailed, At
  <2> QED
    BY <1>1, <2>1, OpenedKept, LabelledKept, SealedKept, EndKept, ReturnKept DEF Continue
<1>2. CASE Expire(c) \/ ProviderFails(c)
  BY <1>2, AbandonKept, EndKept DEF Expire, LeaseTimeout, ProviderFails
<1>3. CASE append(c) \/ Answer(c) \/ OnceDone(c)
  BY <1>3, AppendKept, WorkDoneKept
<1>4. ASSUME NEW k \in Events, StreamCall(c, k) PROVE Kept
  <2>1. k \in Keys
    OBVIOUS
  <2> QED
    BY <1>4, <2>1, SharedKept, LabelKept, OpenKept DEF StreamCall
<1>5. ASSUME NEW k \in Media, OnceCall(c, k) PROVE Kept
  <2>1. k \in Keys
    OBVIOUS
  <2> QED
    BY <1>5, <2>1, SharedKept, WorkKept DEF OnceCall
<1> QED
  BY <1>1, <1>2, <1>3, <1>4, <1>5

(***************************************************************************)
(* Steps of the store, of the start and of the end of the process.         *)
(***************************************************************************)
\* What the store leaves alone.
Apart ==
    /\ UNCHANGED <<processed, lease, fresh, served, lost>>
    /\ up # "down" /\ up' # "down"
    /\ \A c \in Calls :
          /\ call'[c].pc = call[c].pc /\ call'[c].key = call[c].key /\ call'[c].rec = call[c].rec
          /\ call[c].pc = "generating" => call'[c].flushed = call[c].flushed

\* A step of the store keeps what it does not touch.
LEMMA StoreKept ==
    ASSUME LedgerInv, Next, Apart, FlushInv', SoleInv', CleanInv', SavedInv',
           \A k \in Events : Stored(k, processed[k]) => Stored(k, processed[k])'
    PROVE  Kept
<1>1. TypeOK' /\ DownInv' /\ LeaseInv'
  BY BaseKept
<1>2. RecordInv'
  BY DEF LedgerInv, RecordInv, RecordOf, Apart, Producing
<1>3. ReplayInv'
  BY DEF LedgerInv, ReplayInv, ReplayOf, Apart
<1>4. ServedInv => ServedInv'
  BY DEF ServedInv, ServedOf, Apart
<1> QED
  BY <1>1, <1>2, <1>3, <1>4 DEF Kept, LedgerInv

\* The chain is a sequence of flushes, of which the first leaves it.
LEMMA HeadAndTail ==
    ASSUME LedgerInv, queue # << >>
    PROVE  /\ Head(queue) \in Flushes /\ FlushOf(Head(queue)) /\ Head(queue).at # "none"
           /\ \A i \in 1..Len(Tail(queue)) :
                 FlushOf(Tail(queue)[i]) /\ Tail(queue)[i].at # "none"
<1>1. queue \in Seq(Flushes) /\ Len(queue) >= 1
  BY DEF LedgerInv, TypeOK
<1>2. Head(queue) = queue[1] /\ 1 \in 1..Len(queue) /\ queue[1] \in Flushes
  BY <1>1
<1>3. \A i \in 1..Len(Tail(queue)) : Tail(queue)[i] = queue[i + 1] /\ i + 1 \in 1..Len(queue)
  BY <1>1
<1>4. \A i \in 1..Len(queue) : FlushOf(queue[i]) /\ queue[i].at # "none"
  BY DEF LedgerInv, FlushInv
<1> QED
  BY <1>2, <1>3, <1>4

\* A flush keeps its place among the steps of the runs.
LEMMA FlushStays ==
    ASSUME LedgerInv, Apart, NEW f, FlushOf(f) PROVE
        /\ f.rid <= fresh'
        /\ \A c \in Calls :
              call'[c].pc \in Producing /\ f.by = c /\ f.rid = call'[c].rec.rid =>
                  f.at \in {"opening", "appending"}
BY DEF FlushOf, Apart

\* No flush is nobody's.
LEMMA NoFlushOf == fresh \in Nat => FlushOf(NoFlush)
BY LedgerAssumption DEF FlushOf, NoFlush, Flush

\* The calls after the settlement of f: only f's own learns of it.
LEMMA SettleForm ==
    ASSUME LedgerInv, NEW f, NEW result \in {"saved", "failed"}, Settle(f, result)
    PROVE  /\ \A c \in Calls :
                 /\ call'[c].pc = call[c].pc /\ call'[c].key = call[c].key
                 /\ call'[c].rec = call[c].rec
                 /\ \/ call'[c].flushed = call[c].flushed
                    \/ /\ f.by = c /\ f.at = call[c].pc /\ f.rid = call[c].rec.rid
                       /\ call'[c].flushed = result
           /\ up # "down" => up' # "down"
           /\ UNCHANGED <<processed, lease, fresh, served>>
<1>1. call \in [Calls -> CallType]
  BY CallTyped DEF LedgerInv
<1> QED
  BY <1>1 DEF Settle, CallType

\* The record of a run is the map's.
LEMMA SealedRecord ==
    ASSUME LedgerInv, NEW c \in Calls, call[c].pc \in Streaming, Held(c)
    PROVE  call[c].key \in Events /\ processed[call[c].key] = call[c].rec
BY HeldOrGone

\* A save starts: it writes the map as it is.
LEMMA StartSaveKept == ASSUME LedgerInv, Next, StartSave PROVE Kept
<1>1. /\ saving = NoFlush /\ queue # << >> /\ saving' = Head(queue) /\ queue' = Tail(queue)
      /\ data' = processed /\ dirty' = FALSE /\ UNCHANGED <<up, processed, disk, lease, call, fresh, served, lost>>
  BY DEF StartSave
<1>2. up # "down"
  BY <1>1 DEF LedgerInv, DownInv
<1>4. Apart
  BY <1>1, <1>2 DEF Apart
<1>5. FlushInv'
  BY <1>1, <1>4, HeadAndTail, FlushStays DEF FlushInv, FlushOf
<1>6. saving' # NoFlush
  BY <1>1, HeadAndTail DEF NoFlush, Flush
<1>7. CleanInv'
  BY <1>1, <1>6 DEF CleanInv, Handed
<1>8. \A k \in Events : Stored(k, processed[k]) => Stored(k, processed[k])'
  BY <1>1 DEF Stored
<1>9. SavedInv'
  <2> SUFFICES ASSUME NEW c \in Calls, call[c].pc \in Streaming, Held(c)
               PROVE  /\ call[c].flushed = "saved" => disk[call[c].key] = call[c].rec
                      /\ data'[call[c].key] = call[c].rec
    BY <1>1 DEF SavedInv, SavedOf, Stored, Held
  <2> QED
    BY <1>1, SealedRecord DEF LedgerInv, SavedInv, SavedOf, Stored
<1>10. SoleInv'
  <2>1. /\ Head(queue) = queue[1] /\ 1 \in 1..Len(queue)
        /\ \A i \in 1..Len(Tail(queue)) : Tail(queue)[i] = queue[i + 1] /\ i + 1 \in 1..Len(queue) /\ i \in Nat
    BY <1>1 DEF LedgerInv, TypeOK
  <2>2. ASSUME NEW c \in Calls, call[c].pc \in Producing PROVE SoleOf(c)'
    <3>1. \A i \in 1..Len(queue) : Own(c, queue[i]) =>
              Awaits(c, queue[i]) /\ \A j \in 1..Len(queue) : Own(c, queue[j]) => i = j
      BY <2>2 DEF LedgerInv, SoleInv, SoleOf
    <3> QED
      BY <1>1, <2>1, <3>1 DEF SoleOf, Own, Awaits
  <2> QED
    BY <1>1, <2>2 DEF SoleInv, SoleOf
<1> QED
  BY <1>4, <1>5, <1>7, <1>8, <1>9, <1>10, StoreKept

\* A save ends: the file holds what it wrote.
LEMMA SaveDoneKept == ASSUME LedgerInv, Next, SaveDone PROVE Kept
<1>1. /\ saving # NoFlush /\ saving' = NoFlush /\ disk' = data /\ torn' = FALSE
      /\ Settle(saving, "saved") /\ UNCHANGED <<dirty, queue, data, lost>>
  BY DEF SaveDone
<1>2. /\ \A c \in Calls :
            /\ call'[c].pc = call[c].pc /\ call'[c].key = call[c].key
            /\ call'[c].rec = call[c].rec
            /\ \/ call'[c].flushed = call[c].flushed
               \/ /\ saving.by = c /\ saving.at = call[c].pc /\ saving.rid = call[c].rec.rid
                  /\ call'[c].flushed = "saved"
      /\ up # "down" => up' # "down"
      /\ UNCHANGED <<processed, lease, fresh, served>>
  BY <1>1, SettleForm
<1>3. Apart
  BY <1>1, <1>2 DEF Apart, LedgerInv, DownInv, FlushInv, FlushOf, Producing
<1>4. fresh \in Nat /\ FlushOf(NoFlush)
  BY NoFlushOf DEF LedgerInv, TypeOK
<1>5. FlushInv'
  BY <1>1, <1>3, <1>4, FlushStays DEF LedgerInv, FlushInv, FlushOf
<1>6. CleanInv'
  BY <1>1, <1>3 DEF LedgerInv, CleanInv, Handed, Apart
<1>7. \A k \in Events : Stored(k, processed[k]) => Stored(k, processed[k])'
  BY <1>1, <1>2 DEF Stored
<1>8. SavedInv'
  <2> SUFFICES ASSUME NEW c \in Calls, call[c].pc \in Streaming, Held(c),
                      call'[c].flushed = "saved"
               PROVE  data[call[c].key] = call[c].rec
    BY <1>1, <1>2, LedgerAssumption DEF SavedInv, SavedOf, Stored, Held, NoFlush, Flush
  <2> QED
    BY <1>1, <1>2 DEF LedgerInv, SavedInv, SavedOf, Stored
<1>9. SoleInv'
  <2>1. ASSUME NEW c \in Calls, call[c].pc \in Producing PROVE SoleOf(c)'
    <3>1. \A i \in 1..Len(queue) : Own(c, queue[i]) =>
              /\ Awaits(c, queue[i]) /\ ~Own(c, saving)
              /\ \A j \in 1..Len(queue) : Own(c, queue[j]) => i = j
      BY <2>1 DEF LedgerInv, SoleInv, SoleOf
    <3>2. ~Own(c, NoFlush)
      BY LedgerAssumption DEF Own, NoFlush, Flush
    <3> QED
      BY <1>1, <1>2, <3>1, <3>2 DEF SoleOf, Own, Awaits
  <2> QED
    BY <1>2, <2>1 DEF SoleInv, SoleOf
<1> QED
  BY <1>3, <1>5, <1>6, <1>7, <1>8, <1>9, StoreKept

\* A save fails: the map is still to be written.
LEMMA SaveFailedKept == ASSUME LedgerInv, Next, SaveFailed PROVE Kept
<1>1. /\ saving # NoFlush /\ saving' = NoFlush /\ dirty' = TRUE
      /\ Settle(saving, "failed") /\ UNCHANGED <<queue, disk, lost>>
  BY DEF SaveFailed
<1>2. /\ \A c \in Calls :
            /\ call'[c].pc = call[c].pc /\ call'[c].key = call[c].key
            /\ call'[c].rec = call[c].rec
            /\ \/ call'[c].flushed = call[c].flushed
               \/ /\ saving.by = c /\ saving.at = call[c].pc /\ saving.rid = call[c].rec.rid
                  /\ call'[c].flushed = "failed"
      /\ up # "down" => up' # "down"
      /\ UNCHANGED <<processed, lease, fresh, served>>
  BY <1>1, SettleForm
<1>3. Apart
  BY <1>1, <1>2 DEF Apart, LedgerInv, DownInv, FlushInv, FlushOf, Producing
<1>4. fresh \in Nat /\ FlushOf(NoFlush)
  BY NoFlushOf DEF LedgerInv, TypeOK
<1>5. FlushInv'
  BY <1>1, <1>3, <1>4, FlushStays DEF LedgerInv, FlushInv, FlushOf
<1>6. CleanInv'
  BY <1>1 DEF CleanInv
<1>7. \A k \in Events : Stored(k, processed[k]) => Stored(k, processed[k])'
  BY <1>1, <1>2 DEF Stored
<1>8. SavedInv'
  <2> SUFFICES ASSUME NEW c \in Calls, call[c].pc \in Streaming, Held(c),
                      call'[c].flushed = "saved"
               PROVE  disk[call[c].key] = call[c].rec
    BY <1>1, <1>2, LedgerAssumption DEF SavedInv, SavedOf, Stored, Held, NoFlush, Flush
  <2> QED
    BY <1>2 DEF LedgerInv, SavedInv, SavedOf, Stored
<1>9. SoleInv'
  <2>1. ASSUME NEW c \in Calls, call[c].pc \in Producing PROVE SoleOf(c)'
    <3>1. \A i \in 1..Len(queue) : Own(c, queue[i]) =>
              /\ Awaits(c, queue[i]) /\ ~Own(c, saving)
              /\ \A j \in 1..Len(queue) : Own(c, queue[j]) => i = j
      BY <2>1 DEF LedgerInv, SoleInv, SoleOf
    <3>2. ~Own(c, NoFlush)
      BY LedgerAssumption DEF Own, NoFlush, Flush
    <3> QED
      BY <1>1, <1>2, <3>1, <3>2 DEF SoleOf, Own, Awaits
  <2> QED
    BY <1>2, <2>1 DEF SoleInv, SoleOf
<1> QED
  BY <1>3, <1>5, <1>6, <1>7, <1>8, <1>9, StoreKept

\* A flush finds nothing to write: the file is the map.
LEMMA FlushCleanKept == ASSUME LedgerInv, Next, FlushClean PROVE Kept
<1>1. /\ saving = NoFlush /\ queue # << >> /\ ~dirty /\ queue' = Tail(queue)
      /\ Settle(Head(queue), "saved") /\ UNCHANGED <<dirty, saving, data, disk, torn, lost>>
  BY DEF FlushClean, file
<1>2. /\ \A c \in Calls :
            /\ call'[c].pc = call[c].pc /\ call'[c].key = call[c].key
            /\ call'[c].rec = call[c].rec
            /\ \/ call'[c].flushed = call[c].flushed
               \/ /\ Head(queue).by = c /\ Head(queue).at = call[c].pc
                  /\ Head(queue).rid = call[c].rec.rid
      /\ up # "down" => up' # "down"
      /\ UNCHANGED <<processed, lease, fresh, served>>
  BY <1>1, SettleForm
<1>3. /\ up # "down"
      /\ \A k \in Keys :
            \/ processed[k] = disk[k]
            \/ processed[k] = Absent /\ isComplete(disk[k])
  BY <1>1 DEF LedgerInv, DownInv, CleanInv, Handed
<1>4. Apart
  BY <1>1, <1>2, <1>3, HeadAndTail DEF Apart, FlushOf, Producing
<1>5. FlushInv'
  BY <1>1, <1>4, HeadAndTail, FlushStays DEF LedgerInv, FlushInv, FlushOf
<1>6. CleanInv'
  BY <1>1, <1>2, <1>3 DEF CleanInv, Handed
<1>7. \A k \in Events : Stored(k, processed[k]) => Stored(k, processed[k])'
  BY <1>1, <1>2 DEF Stored
<1>8. SavedInv'
  <2> SUFFICES ASSUME NEW c \in Calls, call[c].pc \in Streaming, Held(c)
               PROVE  disk[call[c].key] = call[c].rec
    BY <1>1, <1>2, LedgerAssumption DEF SavedInv, SavedOf, Stored, Held, NoFlush, Flush
  <2>1. call[c].key \in Keys /\ processed[call[c].key] # Absent
    BY SealedRecord DEF Held
  <2> QED
    BY <1>3, <2>1, SealedRecord
<1>9. SoleInv'
  <2>1. /\ Head(queue) = queue[1] /\ 1 \in 1..Len(queue)
        /\ \A i \in 1..Len(Tail(queue)) : Tail(queue)[i] = queue[i + 1] /\ i + 1 \in 1..Len(queue) /\ i \in Nat
    BY <1>1 DEF LedgerInv, TypeOK
  <2>2. ASSUME NEW c \in Calls, call[c].pc \in Producing PROVE SoleOf(c)'
    <3>1. \A i \in 1..Len(queue) : Own(c, queue[i]) =>
              Awaits(c, queue[i]) /\ \A j \in 1..Len(queue) : Own(c, queue[j]) => i = j
      BY <2>2 DEF LedgerInv, SoleInv, SoleOf
    <3>2. ~Own(c, NoFlush)
      BY LedgerAssumption DEF Own, NoFlush, Flush
    <3> QED
      BY <1>1, <1>2, <2>1, <3>1, <3>2 DEF SoleOf, Own, Awaits
  <2> QED
    BY <1>2, <2>2 DEF SoleInv, SoleOf
<1> QED
  BY <1>4, <1>5, <1>6, <1>7, <1>8, <1>9, StoreKept

\* A process that is not up has no call: nothing is leased, held or sealed.
LEMMA Silent ==
    ASSUME TypeOK, LeaseInv, \A c \in Calls : call[c].pc = "idle"
    PROVE  RecordInv /\ SavedInv /\ SoleInv /\ \A k \in Keys : lease[k] = NoCall
<1>1. RecordInv /\ SavedInv /\ SoleInv
  BY DEF RecordInv, RecordOf, SavedInv, SavedOf, SoleInv, SoleOf, Streaming, Producing
<1>2. \A k \in Keys : lease[k] = NoCall
  BY DEF TypeOK, LeaseInv, Owning, Running
<1> QED
  BY <1>1, <1>2

\* The ledger is loaded from its file.
LEMMA LoadKept == ASSUME LedgerInv, Next, load PROVE Kept
<1> DEFINE found == IF torn THEN Empty ELSE disk
<1> DEFINE kept == [k \in Keys |-> IF isComplete(found[k]) THEN found[k] ELSE Absent]
<1> DEFINE migrated == \E k \in Keys :
                          found[k] # Absent /\ (found[k] # kept[k] \/ found[k].rid = 0)
<1>0. TypeOK' /\ DownInv' /\ LeaseInv'
  BY BaseKept
<1>1. /\ up = "down" /\ saving = NoFlush
      /\ \A c \in Calls : call[c].pc = "idle"
  BY DEF load, LedgerInv, DownInv
<1>2. found \in [Keys -> Rec] /\ fresh \in Nat
  BY RecordTypes DEF LedgerInv, TypeOK, Empty
<1>3. /\ LoadAndTrim(kept) /\ up' # "down" /\ dirty' = migrated
      /\ queue' = (IF migrated THEN <<Flush(NoCall, "load", 0)>> ELSE << >>)
      /\ disk' = found /\ UNCHANGED <<saving, lease, call, fresh>>
      /\ lost' = IF torn THEN served ELSE lost
  BY <1>1 DEF load
<1>4. ~migrated => kept = found
  <2> SUFFICES ASSUME ~migrated PROVE kept = found
    OBVIOUS
  <2> HIDE DEF found
  <2>1. ASSUME NEW k \in Keys PROVE kept[k] = found[k]
    BY DEF isComplete, Absent
  <2> QED
    BY <1>2, <2>1
<1>5. kept \in [Keys -> Rec] /\ TypeOK
  BY <1>2, RecordTypes DEF LedgerInv
<1>6. \A k \in Keys : isComplete(kept[k]) => kept[k] = found[k]
  BY DEF isComplete, Absent
<1>7. \A k \in Keys : isComplete(found[k]) => kept[k] = found[k]
  OBVIOUS
<1>8. ~torn => found = disk
  OBVIOUS
<1>9. \A k \in Keys : isComplete(kept[k]) \/ kept[k] = Absent
  OBVIOUS
<1> HIDE DEF kept, migrated, found
<1>10. \A k \in Keys :
           \/ processed'[k] = kept[k] /\ served'[k] = served[k]
           \/ processed'[k] = Absent /\ served'[k] = {}
  BY <1>3, <1>5, LoadTrimForm
<1>11. RecordInv' /\ SavedInv' /\ SoleInv' /\ \A k \in Keys : lease[k] = NoCall
  BY <1>0, <1>1, <1>3, Silent DEF RecordInv, RecordOf, SavedInv, SavedOf, SoleInv, SoleOf, Streaming, Producing, LedgerInv
<1>12. FlushInv'
  <2>1. FlushOf(NoFlush)' /\ FlushOf(Flush(NoCall, "load", 0))'
    BY <1>2, <1>3, LedgerAssumption DEF FlushOf, NoFlush, Flush
  <2>2. \A i \in 1..Len(queue') : queue'[i] = Flush(NoCall, "load", 0)
    BY <1>3
  <2> QED
    BY <1>1, <1>3, <2>1, <2>2 DEF FlushInv, FlushOf, Flush
<1>13. CleanInv'
  <2> SUFFICES ASSUME ~migrated, NEW k \in Keys
               PROVE  processed'[k] = found[k] \/ (processed'[k] = Absent /\ isComplete(found[k]))
    BY <1>1, <1>3 DEF CleanInv, Handed, isComplete
  <2>1. kept[k] = found[k] /\ (isComplete(kept[k]) \/ kept[k] = Absent)
    BY <1>4, <1>9
  <2> QED
    BY <1>10, <2>1
<1>14. ReplayInv'
  BY <1>1, <1>3, <1>6, <1>10 DEF ReplayInv, ReplayOf, Stored, isComplete, Absent
<1>15. ServedInv => ServedInv'
  <2> SUFFICES ASSUME ServedInv, NEW k \in Events, NEW r \in served'[k] \ lost'[k]
               PROVE  isComplete(r) /\ r.rid # 0 /\ processed'[k] = r /\ lease[k] = NoCall
    BY <1>3 DEF ServedInv, ServedOf, isComplete
  <2>1. ~torn /\ r \in served[k] \ lost[k] /\ processed'[k] = kept[k]
    BY <1>3, <1>10
  <2>2. isComplete(r) /\ r.rid # 0 /\ found[k] = r
    BY <1>1, <1>8, <2>1 DEF ServedInv, ServedOf
  <2> QED
    BY <1>7, <1>11, <2>1, <2>2
<1> QED
  BY <1>0, <1>11, <1>12, <1>13, <1>14, <1>15 DEF Kept, LedgerInv

\* persistNow joins the chain.
LEMMA PersistKept == ASSUME LedgerInv, Next, persist PROVE Kept
<1>0. TypeOK' /\ DownInv' /\ LeaseInv'
  BY BaseKept
<1>1. /\ queue' = Append(queue, Flush(NoCall, "persist", 0))
      /\ UNCHANGED <<up, processed, dirty, saving, data, disk, torn, lost, lease, call, fresh, served>>
  BY DEF persist, file
<1>2. queue \in Seq(Flushes) /\ fresh \in Nat
  BY DEF LedgerInv, TypeOK
<1>3. FlushInv'
  <2> DEFINE f == Flush(NoCall, "persist", 0)
  <2>1. FlushOf(f) /\ f.at # "none"
    BY <1>2, LedgerAssumption DEF FlushOf, Flush
  <2> HIDE DEF f
  <2>2. ASSUME NEW i \in 1..Len(queue')
        PROVE  (i \in 1..Len(queue) /\ queue'[i] = queue[i]) \/ queue'[i] = f
    BY <1>1, <1>2 DEF f
  <2>3. FlushOf(saving) /\ \A i \in 1..Len(queue) : FlushOf(queue[i]) /\ queue[i].at # "none"
    BY DEF LedgerInv, FlushInv
  <2> QED
    BY <1>1, <2>1, <2>2, <2>3 DEF FlushInv, FlushOf
<1>5. SoleInv'
  <2>1. ASSUME NEW c \in Calls, NEW i \in 1..Len(queue'), Own(c, queue[i])'
        PROVE  i \in 1..Len(queue) /\ queue'[i] = queue[i] /\ Own(c, queue[i])
    <3>1. (i \in 1..Len(queue) /\ queue'[i] = queue[i]) \/ queue'[i].by = NoCall
      BY <1>1, <1>2 DEF Flush
    <3> QED
      BY <1>1, <2>1, <3>1, LedgerAssumption DEF Own
  <2> QED
    BY <1>1, <2>1 DEF LedgerInv, SoleInv, SoleOf, Own, Awaits
<1>4. RecordInv' /\ CleanInv' /\ SavedInv' /\ ReplayInv' /\ (ServedInv => ServedInv')
  BY <1>1 DEF LedgerInv, RecordInv, RecordOf, CleanInv, Handed, SavedInv, SavedOf, Stored, Held, ReplayInv, ReplayOf,
              ServedInv, ServedOf
<1> QED
  BY <1>0, <1>3, <1>4, <1>5 DEF Kept, LedgerInv

\* The process dies: what was served is in what the file last held.
LEMMA CrashKept == ASSUME LedgerInv, Next, Crash PROVE Kept
<1>0. TypeOK' /\ DownInv' /\ LeaseInv'
  BY BaseKept
<1>1. /\ up # "down" /\ up' = "down" /\ queue' = << >> /\ saving' = NoFlush
      /\ disk' = disk \/ (saving # NoFlush /\ disk' = data)
      /\ \A c \in Calls : call'[c].pc = "idle"
      /\ UNCHANGED <<fresh, lost, served>>
  BY DEF Crash, Interrupted, Idle
<1>2. RecordInv' /\ SavedInv' /\ SoleInv'
  BY <1>1 DEF RecordInv, RecordOf, SavedInv, SavedOf, SoleInv, SoleOf, Streaming, Producing
<1>3. FlushInv'
  <2>1. FlushOf(NoFlush)'
    BY <1>1, LedgerAssumption DEF FlushOf, NoFlush, Flush, LedgerInv, TypeOK
  <2> QED
    BY <1>1, <2>1 DEF FlushInv, FlushOf
<1>4. CleanInv' /\ ReplayInv'
  BY <1>1 DEF CleanInv, ReplayInv
<1>5. ServedInv => ServedInv'
  <2> SUFFICES ASSUME ServedInv, NEW k \in Events, NEW r \in served[k] \ lost[k]
               PROVE  isComplete(r) /\ r.rid # 0 /\ disk'[k] = r
    BY <1>1 DEF ServedInv, ServedOf, isComplete
  <2>1. isComplete(r) /\ r.rid # 0 /\ processed[k] = r /\ lease[k] = NoCall
    BY <1>1 DEF ServedInv, ServedOf
  <2>2. Stored(k, r)
    BY <1>1, <2>1 DEF LedgerInv, ReplayInv, ReplayOf
  <2> QED
    BY <1>1, <2>1, <2>2 DEF Stored
<1> QED
  BY <1>0, <1>2, <1>3, <1>4, <1>5 DEF Kept, LedgerInv

(***************************************************************************)
(* The theorems.                                                           *)
(***************************************************************************)
\* The invariant holds at start.
LEMMA InitIInv == ASSUME Init, TypeOK, LeaseInv, DownInv PROVE IInv
<1>1. RecordInv /\ SavedInv /\ SoleInv
  BY Silent DEF Init, Idle
<1>2. FlushInv
  BY NoFlushOf DEF Init, FlushInv
<1>3. CleanInv /\ ReplayInv /\ ServedInv
  BY DEF Init, CleanInv, Handed, ReplayInv, ServedInv, ServedOf
<1> QED
  BY <1>1, <1>2, <1>3 DEF IInv, LedgerInv

\* Every step keeps it.
LEMMA NextKept == ASSUME LedgerInv, [Next]_vars PROVE Kept
<1>1. CASE Next
  <2>1. CASE load
    BY <1>1, <2>1, LoadKept
  <2>2. CASE persist
    BY <1>1, <2>2, PersistKept
  <2>3. CASE StoreStep
    BY <1>1, <2>3, FlushCleanKept, StartSaveKept, SaveDoneKept, SaveFailedKept DEF StoreStep
  <2>4. CASE Crash
    BY <1>1, <2>4, CrashKept
  <2> QED
    BY <1>1, <2>1, <2>2, <2>3, <2>4, CallKept DEF Next
<1>2. CASE UNCHANGED vars
  BY <1>2 DEF Kept, vars, memory, file, LedgerInv, TypeOK, DownInv, LeaseInv, RecordInv, RecordOf, FlushInv,
              FlushOf, SoleInv, SoleOf, Own, Awaits, CleanInv, Handed, SavedInv, SavedOf, Stored, Held, ReplayInv, ReplayOf, ServedInv, ServedOf
<1> QED
  BY <1>1, <1>2

\* Every reachable state has the invariant.
LEMMA AlwaysIInv == Spec => []IInv
<1>1. Init /\ Base => IInv
  BY InitIInv DEF Base
<1>2. IInv /\ [Next]_vars => IInv'
  BY NextKept DEF Kept, IInv
<1> QED
  BY <1>1, <1>2, BaseInvariant, PTL DEF Spec

\* An answer given to a caller is in the file with its responseId and its
\* fragments as long as its entry is retained, whatever saves fail and whenever
\* the process dies, unless a save that rewrites the file in place has left it
\* half-written (versioned-json-store.mjs).
THEOREM DurableHolds == Spec => []ServedOnDisk
<1>1. IInv => ServedOnDisk
  <2> SUFFICES ASSUME IInv, NEW k \in Events, NEW r \in served[k] \ lost[k]
               PROVE  disk[k] = r
    BY DEF ServedOnDisk
  <2>1. /\ isComplete(r) /\ r.rid # 0
        /\ up = "down" => disk[k] = r
        /\ up # "down" => processed[k] = r /\ lease[k] = NoCall
    BY DEF IInv, ServedInv, ServedOf
  <2>2. up # "down" => ReplayOf(k)
    BY DEF IInv, LedgerInv, ReplayInv
  <2> QED
    BY <2>1, <2>2 DEF ReplayOf, Stored
<1> QED
  BY <1>1, AlwaysIInv, PTL

\* chat-ledger.mjs, append: when it gives control back to the provider, the file
\* has the fragment with all those before it, so that showing it to the phone
\* is safe; whatever saves fail, and whoever else saves meanwhile.
THEOREM AppendedHolds == Spec => []AppendedOnDisk
<1>1. IInv => AppendedOnDisk
  <2> SUFFICES ASSUME LedgerInv, NEW c \in Calls, call[c].pc = "generating", Held(c)
               PROVE  disk[call[c].key] = call[c].rec
    BY DEF AppendedOnDisk, IInv
  <2> QED
    BY DEF LedgerInv, RecordInv, RecordOf, SavedInv, SavedOf, Stored, Streaming, Producing
<1> QED
  BY <1>1, AlwaysIInv, PTL

\* streamOnce: a redelivered message whose answer was given is not generated
\* again, whatever fails and restarts, unless a start has found half-written
\* the file that had the answer.
THEOREM NotRegeneratedHolds == Spec => []OnlyLostRegenerated
<1>1. IInv => OnlyLostRegenerated
  <2> SUFFICES ASSUME IInv, NEW c \in Calls, call[c].pc \in Running
               PROVE  LostOf(call[c].key)
    BY DEF OnlyLostRegenerated, LostOf
  <2>1. call[c].key \in Events
    BY DEF IInv, LedgerInv, RecordInv, RecordOf, Running, Streaming, Producing
  <2> QED
    BY <2>1, Owner DEF Owning, IInv
<1> QED
  BY <1>1, AlwaysIInv, PTL

(***************************************************************************)
(* What a step brings of frames and records that was not there is of the   *)
(* response r; some records may no longer be around.                       *)
(***************************************************************************)
Only(r) ==
    /\ frames \subseteq frames' /\ \A f \in frames' : f \in frames \/ f.rid = r
    /\ \A k \in Keys :
          /\ \A x \in Versions(k)' : x \in Versions(k) \/ x.rid = r
          /\ \A x \in Filed(k)' : x \in Filed(k) \/ x.rid = r

\* The records around are records.
LEMMA VersionTypes ==
    ASSUME TypeOK, NEW k \in Keys
    PROVE  /\ \A x \in Versions(k) : x \in Rec /\ x.rid \in Nat /\ x.n \in Nat /\ x.rid # 0
           /\ Filed(k) \subseteq Versions(k)
<1>1. /\ processed[k] \in Rec /\ disk[k] \in Rec /\ data[k] \in Rec
      /\ \A c \in Calls : call[c].rec \in Rec
  BY CallTyped DEF TypeOK, CallType
<1>2. \A x \in Versions(k) : x \in Rec /\ x.rid # 0
  BY <1>1 DEF Versions, Filed, OfCalls
<1> QED
  BY <1>2 DEF Versions, Rec

\* The records of the other responses keep what is said of them.
LEMMA VersionKept ==
    ASSUME TypeOK, fresh' \in Nat, fresh <= fresh', VersionInv, NEW r, Only(r),
           \A k \in Keys : \A x \in Versions(k)' : x.rid = r =>
              /\ VersionOf(k, x)'
              /\ \A j \in Keys : \A y \in Versions(j)' : y.rid = r => SameAnswer(k, x, j, y)
    PROVE  VersionInv'
<1>1. ASSUME NEW k \in Keys, NEW x \in Versions(k)' PROVE VersionOf(k, x)'
  <2>1. CASE x.rid = r
    BY <2>1
  <2>2. CASE x.rid # r
    <3>1. x \in Versions(k) /\ VersionOf(k, x) /\ x.rid \in Nat /\ fresh \in Nat
      BY <2>2, VersionTypes DEF Only, VersionInv, TypeOK
    <3>2. x.rid <= fresh'
      BY <3>1 DEF VersionOf
    <3>3. /\ k \in Events /\ x.n <= MaxChunks
          /\ \A f \in frames' : f.rid = x.rid => f \in frames /\ f.ev = k
      BY <2>2, <3>1 DEF VersionOf, Only
    <3>4. Shown(k, x)'
      BY <3>1, <3>3 DEF VersionOf, Shown, Only
    <3> QED
      BY <3>2, <3>3, <3>4 DEF VersionOf
  <2> QED
    BY <2>1, <2>2
<1>2. ASSUME NEW k \in Keys, NEW x \in Versions(k)', NEW j \in Keys, NEW y \in Versions(j)'
      PROVE  SameAnswer(k, x, j, y)
  <2>1. CASE x.rid = r /\ y.rid = r
    BY <2>1
  <2>2. CASE x.rid # y.rid
    BY <2>2 DEF SameAnswer
  <2>3. CASE x.rid # r /\ y.rid # r
    <3>1. x \in Versions(k) /\ y \in Versions(j)
      BY <2>3 DEF Only
    <3> QED
      BY <3>1 DEF VersionInv
  <2> QED
    BY <2>1, <2>2, <2>3
<1> QED
  BY <1>1, <1>2 DEF VersionInv, SameAnswer

\* What the store can bring back of the others has their fragments.
LEMMA FiledKept ==
    ASSUME FiledInv, NEW r, Only(r),
           \A k \in Keys : \A x \in Filed(k)' : x.rid = r => Keeps(k, x)'
    PROVE  FiledInv'
<1> SUFFICES ASSUME NEW k \in Keys, NEW x \in Filed(k)', x.rid # r PROVE Keeps(k, x)'
  BY DEF FiledInv
<1>1. x \in Filed(k) /\ Keeps(k, x)
  BY DEF Only, FiledInv
<1> QED
  BY <1>1 DEF Keeps, Only

\* The frames of the others are the same.
LEMMA FramesKept ==
    ASSUME fresh \in Nat, fresh' \in Nat, fresh <= fresh', FramesInv, NEW r, Only(r),
           \A f \in frames' : f.rid = r =>
              /\ FrameOf(f)'
              /\ \A g \in frames' : g.rid = r =>
                    /\ f.ev = g.ev
                    /\ f.kind = "completed" /\ g.kind = "chunk" => g.seq < f.seq
                    /\ f.kind = "completed" /\ g.kind = "completed" => f = g
    PROVE  FramesInv'
<1>1. ASSUME NEW f \in frames', f.rid # r PROVE FrameOf(f)'
  <2>1. f \in frames /\ FrameOf(f)
    BY <1>1 DEF Only, FramesInv
  <2>2. f.rid \in 1..fresh'
    BY <2>1 DEF FrameOf
  <2> QED
    BY <2>1, <2>2 DEF FrameOf
<1>2. ASSUME NEW f \in frames', NEW g \in frames', f.rid # r, f.rid = g.rid
      PROVE  /\ f.ev = g.ev
             /\ f.kind = "completed" /\ g.kind = "chunk" => g.seq < f.seq
             /\ f.kind = "completed" /\ g.kind = "completed" => f = g
  <2>1. f \in frames /\ g \in frames
    BY <1>2 DEF Only
  <2> QED
    BY <1>2, <2>1 DEF FramesInv
<1> QED
  BY <1>1, <1>2 DEF FramesInv

\* What is not finished stays so, unless the step finishes it.
LEMMA UnfinishedKept ==
    ASSUME NEW r, Only(r), NEW q, q # r, Unfinished(q)
    PROVE  Unfinished(q)'
BY DEF Only, Unfinished

(***************************************************************************)
(* Calls.                                                                  *)
(***************************************************************************)
\* A call that works on another response than the step.
LEMMA ProducerKept ==
    ASSUME NEW r, Only(r), NEW d \in Calls, ProducerOf(d),
           call'[d].pc = call[d].pc, call'[d].key = call[d].key, call'[d].rec = call[d].rec,
           call[d].pc \in Streaming =>
              /\ rid(d) # r /\ live'[rid(d)] = live[rid(d)]
              /\ \A e \in Calls \ {d} : call'[e].rec.rid # rid(d)
              /\ \/ call'[d].flushed = call[d].flushed
                 \/ call'[d].flushed # "saved" \/ call[d].pc # "appending"
                 \/ \A k \in Keys : \A x \in Filed(k)' : x.rid = rid(d) => x.n >= call[d].rec.n
    PROVE  ProducerOf(d)'
<1>1. call[d].pc \in Producing \cup Emitting => call[d].pc \in Streaming
  BY DEF Streaming, Producing, Emitting
<1>2. call[d].pc \in {"opening", "labelling", "appending"} => call[d].pc \in Streaming
  BY DEF Streaming, Producing
<1>3. call[d].pc = "opening" => \A f \in frames' : f.rid # rid(d)
  BY <1>2 DEF ProducerOf, Only
<1>4. call[d].pc \in Producing => Unfinished(rid(d))'
  <2> SUFFICES ASSUME call[d].pc \in Producing PROVE Unfinished(rid(d))'
    OBVIOUS
  <2>0. PICK q : q = rid(d)
    OBVIOUS
  <2>1. q # r /\ Unfinished(q) /\ rid(d)' = q
    BY <1>1, <2>0 DEF ProducerOf, rid, Unfinished
  <2>2. Unfinished(q)'
    BY <2>1, UnfinishedKept
  <2> QED
    BY <2>1, <2>2 DEF Unfinished
<1>5. call[d].pc \in Emitting => EmitterOf(d)'
  <2> SUFFICES ASSUME call[d].pc \in Emitting PROVE EmitterOf(d)'
    OBVIOUS
  <2>1. EmitterOf(d) /\ rid(d)' = rid(d) /\ rid(d) # r /\ live'[rid(d)] = live[rid(d)]
    BY <1>1 DEF ProducerOf, rid
  <2> QED
    BY <2>1 DEF EmitterOf, Only
<1>6. At(d, "appending", "saved")' =>
         \A k \in Keys : \A x \in Filed(k)' : x.rid = rid(d) => x.n >= call[d].rec.n
  <2> SUFFICES ASSUME At(d, "appending", "saved")', call'[d].flushed = call[d].flushed,
                      NEW k \in Keys, NEW x \in Filed(k)', x.rid = rid(d)
               PROVE  x.n >= call[d].rec.n
    BY <1>2 DEF At
  <2>1. x \in Filed(k) /\ At(d, "appending", "saved")
    BY <1>2 DEF At, Only
  <2> QED
    BY <2>1 DEF ProducerOf
<1>7. rid(d)' = rid(d)
  BY DEF rid
<1>8. call[d].pc \in Streaming => \A e \in Calls \ {d} : rid(e)' # rid(d)'
  BY DEF rid
<1> QED
  BY <1>3, <1>4, <1>5, <1>6, <1>7, <1>8 DEF ProducerOf

\* A call that has its outcome, or none yet.
LEMMA ProducerEnded ==
    ASSUME NEW d \in Calls, call'[d].pc \notin Streaming,
           call'[d].rec.rid # 0 => call'[d].key \in Events,
           call'[d].pc = "ok" => isComplete(call'[d].rec) /\ call'[d].rec.rid # 0
    PROVE  ProducerOf(d)'
BY DEF ProducerOf, Streaming, Producing, Emitting, rid, At, isComplete

(***************************************************************************)
(* Flushes of appends.                                                     *)
(***************************************************************************)
\* A flush whose fragment the step does not emit.
LEMMA PendingKept ==
    ASSUME fresh \in Nat, fresh' \in Nat, fresh <= fresh', NEW f, PendingOf(f), Unfinished(f.rid)',
           live'[f.rid].ev = live[f.rid].ev, live'[f.rid].seq = live[f.rid].seq,
           \A g \in frames' : g.rid = f.rid => g \in frames \/ g.ev = live[f.rid].ev,
           \A k \in Keys : \A x \in Versions(k)' : x.rid = f.rid => x \in Versions(k),
           \A k \in Keys : processed'[k].rid = f.rid => processed'[k] = processed[k],
           \A c \in Calls : call'[c].pc \in Streaming /\ call'[c].rec.rid = f.rid =>
              /\ call'[c].pc = call[c].pc /\ call'[c].rec = call[c].rec
              /\ call'[c].flushed = call[c].flushed
    PROVE  PendingOf(f)'
<1>1. f.by \in Calls /\ f.rid \in 1..fresh'
  BY DEF PendingOf
<1>2. live'[f.rid].ev \in Events /\ live'[f.rid].seq < MaxChunks
  BY DEF PendingOf
<1>3. \A g \in frames' : g.rid = f.rid => g.ev = live'[f.rid].ev
  BY DEF PendingOf
<1>4. \A k \in Keys : \A x \in Versions(k)' : x.rid = f.rid => k = live'[f.rid].ev
  BY DEF PendingOf
<1>5. \A k \in Keys : processed'[k].rid = f.rid => processed'[k].n > live'[f.rid].seq
  BY DEF PendingOf
<1>6. \A c \in Calls : call'[c].pc \in Streaming /\ call'[c].rec.rid = f.rid =>
          c = f.by /\ call'[c].pc = "appending" /\ call'[c].flushed = "no"
  BY DEF PendingOf, rid
<1> QED
  BY <1>1, <1>2, <1>3, <1>4, <1>5, <1>6 DEF PendingOf, rid

\* A flush of another response than the step's.
LEMMA PendingOther ==
    ASSUME fresh \in Nat, fresh' \in Nat, fresh <= fresh', NEW r, Only(r), NEW f, PendingOf(f), f.rid # r,
           live'[f.rid] = live[f.rid],
           \A k \in Keys : processed'[k] = processed[k] \/ processed'[k].rid \in {0, r},
           \A c \in Calls : call'[c].pc \in Streaming =>
              \/ call'[c].rec.rid = r
              \/ /\ call'[c].pc = call[c].pc /\ call'[c].rec = call[c].rec
                 /\ call'[c].flushed = call[c].flushed
    PROVE  PendingOf(f)'
<1>1. Unfinished(f.rid)'
  <2> DEFINE q == f.rid
  <2>1. q # r /\ Unfinished(q)
    BY DEF PendingOf
  <2> HIDE DEF q
  <2>2. Unfinished(q)'
    BY <2>1, UnfinishedKept
  <2> QED
    BY <2>2 DEF q, Unfinished
<1>2. f.rid # 0
  BY DEF PendingOf
<1> QED
  BY <1>1, <1>2, PendingKept DEF Only

\* The chain after a step of a call: one flush more, or none.
LEMMA PendingChain ==
    ASSUME TypeOK, PendingInv, saving' = saving, data' = data,
           \A f \in Flushes : PendingOf(f) /\ f.at = "appending" =>
              PendingOf(f)' /\ live'[f.rid].seq = live[f.rid].seq,
           \/ queue' = queue
           \/ \E f \in Flushes :
                 /\ queue' = Append(queue, f)
                 /\ f.at = "appending" =>
                       /\ PendingOf(f)'
                       /\ \A g \in Flushes : PendingOf(g) => g.rid # f.rid
    PROVE  PendingInv'
<1>1. saving \in Flushes /\ queue \in Seq(Flushes)
  BY DEF TypeOK
<1>2. saving.at = "appending" =>
          /\ PendingOf(saving)' /\ PendingOf(saving)
          /\ \A k \in Keys : data[k].rid = saving.rid => data[k].n > live'[saving.rid].seq
  BY <1>1 DEF PendingInv
<1>3. \A i \in 1..Len(queue) : queue[i] \in Flushes /\ (queue[i].at = "appending" =>
          /\ PendingOf(queue[i])' /\ PendingOf(queue[i])
          /\ saving.at = "appending" => saving.rid # queue[i].rid
          /\ \A j \in 1..Len(queue) :
                queue[j].at = "appending" /\ queue[j].rid = queue[i].rid => i = j)
  BY <1>1 DEF PendingInv
<1>4. CASE queue' = queue
  BY <1>2, <1>3, <1>4 DEF PendingInv, PendingOf, Unfinished, rid
<1>5. ASSUME NEW f \in Flushes, queue' = Append(queue, f),
             f.at = "appending" =>
                PendingOf(f)' /\ \A g \in Flushes : PendingOf(g) => g.rid # f.rid
      PROVE  PendingInv'
  <2>1. \A i \in 1..Len(queue') :
            \/ i \in 1..Len(queue) /\ queue'[i] = queue[i]
            \/ i = Len(queue) + 1 /\ queue'[i] = f
    BY <1>1, <1>5
  <2>2. ASSUME NEW i \in 1..Len(queue'), queue'[i].at = "appending"
        PROVE  PendingOf(queue[i])' /\ (saving.at = "appending" => saving.rid # queue'[i].rid)
    <3>1. CASE i \in 1..Len(queue) /\ queue'[i] = queue[i]
      BY <1>3, <2>2, <3>1 DEF PendingOf, Unfinished, rid
    <3>2. CASE queue'[i] = f
      BY <1>1, <1>2, <1>5, <2>2, <3>2 DEF PendingOf, Unfinished, rid
    <3> QED
      BY <2>1, <3>1, <3>2
  <2>3. ASSUME NEW i \in 1..Len(queue'), NEW j \in 1..Len(queue'),
               queue'[i].at = "appending", queue'[j].at = "appending", queue'[i].rid = queue'[j].rid
        PROVE  i = j
    BY <1>3, <1>5, <2>1, <2>3
  <2> QED
    BY <1>2, <2>2, <2>3 DEF PendingInv, PendingOf, Unfinished, rid
<1> QED
  BY <1>4, <1>5

(***************************************************************************)
(* Steps that emit nothing and write no record: some records go away, and  *)
(* calls get the outcome of a run or a record that is around.              *)
(***************************************************************************)
\* A call without a run, and its outcome if it has one.
Settled(d) ==
    /\ call'[d].pc \notin Streaming
    /\ call'[d].pc = "ok" => isComplete(call'[d].rec) /\ call'[d].rec.rid # 0
    /\ call'[d].rec.rid # 0 =>
          call'[d].key \in Events /\ call'[d].rec \in Versions(call'[d].key)
    /\ \A e \in Calls \ {d} :
          call'[e].pc \in Streaming => call'[e].rec.rid # call'[d].rec.rid

\* The record that the map has for k stays, or one without a responseId comes.
Forgotten(k) ==
    \/ processed'[k] = processed[k]
    \/ processed'[k].rid = 0 /\ (k \in Events => processed'[k].n = 0)

\* The responseId of a run.
LEMMA RunRid ==
    ASSUME LedgerInv, NEW d \in Calls, call[d].pc \in Streaming
    PROVE  rid(d) # 0 /\ rid(d) \in 1..fresh /\ rid(d) <= fresh
<1>1. rid(d) \in 1..fresh /\ fresh \in Nat
  BY HeldOrGone DEF LedgerInv, TypeOK, rid
<1> QED
  BY <1>1

\* What a quiet step leaves around.
LEMMA QuietVersions ==
    ASSUME UNCHANGED <<data, disk>>,
           \A k \in Keys : Forgotten(k),
           \A d \in Calls : call'[d] = call[d] \/ Settled(d)
    PROVE  \A k \in Keys :
              /\ \A x \in Filed(k)' : x \in Filed(k)
              /\ \A x \in Versions(k)' : x \in Versions(k) /\ x.rid # 0
<1>1. ASSUME NEW k \in Keys, NEW x \in Filed(k)' PROVE x \in Filed(k) /\ x.rid # 0
  <2>1. x.rid # 0 /\ x \in {processed'[k], disk[k], data[k]}
    BY DEF Filed
  <2> QED
    BY <2>1 DEF Filed, Forgotten
<1>2. ASSUME NEW k \in Keys, NEW x \in OfCalls(k)' PROVE x \in Versions(k) /\ x.rid # 0
  <2>1. x.rid # 0 /\ \E d \in Calls : call'[d].key = k /\ x = call'[d].rec
    BY DEF OfCalls
  <2>2. PICK d \in Calls : call'[d].key = k /\ x = call'[d].rec
    BY <2>1
  <2>3. CASE call'[d] = call[d]
    BY <2>1, <2>2, <2>3 DEF Versions, OfCalls
  <2>4. CASE Settled(d)
    BY <2>1, <2>2, <2>4 DEF Settled
  <2> QED
    BY <2>1, <2>3, <2>4
<1> QED
  BY <1>1, <1>2 DEF Versions

\* A quiet step that emits nothing touches no response.
LEMMA QuietOnly ==
    ASSUME UNCHANGED <<frames, data, disk>>,
           \A k \in Keys : Forgotten(k),
           \A d \in Calls : call'[d] = call[d] \/ Settled(d)
    PROVE  Only(0) /\ \A k \in Keys : \A x \in Versions(k)' : x.rid # 0
<1>1. \A k \in Keys :
         /\ \A x \in Filed(k)' : x \in Filed(k)
         /\ \A x \in Versions(k)' : x \in Versions(k) /\ x.rid # 0
  BY QuietVersions
<1> QED
  BY <1>1 DEF Only

\* A quiet step keeps the invariant.
LEMMA Quiet ==
    ASSUME LedgerInv, SInv, UNCHANGED <<live, frames, saving, data, disk, fresh>>,
           \/ queue' = queue
           \/ \E f \in Flushes : queue' = Append(queue, f) /\ f.at # "appending",
           \A k \in Keys : Forgotten(k),
           \A d \in Calls : call'[d] = call[d] \/ Settled(d)
    PROVE  SInv'
<1>0. /\ TypeOK /\ fresh \in Nat /\ fresh' \in Nat /\ fresh <= fresh'
      /\ call \in [Calls -> CallType]
  BY CallTyped DEF LedgerInv, TypeOK
<1>1. Only(0) /\ \A k \in Keys : \A x \in Versions(k)' : x.rid # 0
  BY QuietOnly
<1>2. StreamTypeOK' /\ fresh' <= MaxFresh
  BY DEF SInv, StreamTypeOK, Rids
<1>3. VersionInv'
  BY <1>0, <1>1, VersionKept DEF SInv
<1>4. FiledInv'
  BY <1>0, <1>1, FiledKept DEF SInv, Versions
<1>5. OldInv'
  BY DEF SInv, OldInv, Forgotten
<1>6. SnapshotInv'
  BY DEF SInv, SnapshotInv
<1>7. FramesInv'
  <2>1. \A f \in frames' : f.rid # 0
    BY <1>0 DEF SInv, FramesInv, FrameOf
  <2> QED
    BY <1>0, <1>1, <2>1, FramesKept DEF SInv
<1>8. ProducerInv'
  <2> SUFFICES ASSUME NEW d \in Calls PROVE ProducerOf(d)'
    BY DEF ProducerInv
  <2>1. CASE call'[d] = call[d]
    <3>1. ProducerOf(d)
      BY DEF SInv, ProducerInv
    <3>2. ASSUME call[d].pc \in Streaming, NEW e \in Calls \ {d}
          PROVE  call'[e].rec.rid # rid(d)
      <4>1. CASE call'[e] = call[e]
        BY <3>1, <3>2, <4>1 DEF ProducerOf, rid
      <4>2. CASE Settled(e)
        BY <2>1, <3>2, <4>2 DEF Settled, rid
      <4> QED
        BY <4>1, <4>2
    <3>3. call[d].pc \in Streaming => rid(d) # 0
      BY RunRid
    <3> QED
      BY <1>1, <2>1, <3>1, <3>2, <3>3, ProducerKept
  <2>2. CASE Settled(d)
    BY <2>2, ProducerEnded DEF Settled
  <2> QED
    BY <2>1, <2>2
<1>9. PendingInv'
  <2>1. ASSUME NEW f \in Flushes, PendingOf(f)
        PROVE  PendingOf(f)' /\ live'[f.rid].seq = live[f.rid].seq
    <3>1. f.rid # 0
      BY <1>0, <2>1 DEF PendingOf
    <3>2. \A k \in Keys : processed'[k] = processed[k] \/ processed'[k].rid = 0
      BY DEF Forgotten
    <3>3. \A c \in Calls : call'[c].pc \in Streaming => call'[c] = call[c]
      BY DEF Settled
    <3> QED
      BY <1>0, <1>1, <2>1, <3>1, <3>2, <3>3, PendingOther
  <2> QED
    BY <1>0, <2>1, PendingChain DEF SInv
<1> QED
  BY <1>2, <1>3, <1>4, <1>5, <1>6, <1>7, <1>8, <1>9 DEF SInv

\* d has what c worked on.
LEMMA SameRecord ==
    ASSUME ProducerInv, NEW c \in Calls, NEW d \in Calls,
           call'[d].rec = call[c].rec, call'[d].key = call[c].key,
           call'[d].pc \notin Streaming, call'[c].pc \notin Streaming,
           call'[d].pc = "ok" => isComplete(call[c].rec) /\ call[c].rec.rid # 0,
           \A e \in Calls : call'[e].pc \in Streaming => call'[e] = call[e]
    PROVE  Settled(d)
<1>1. call[c].rec.rid # 0 => call[c].key \in Events /\ call[c].rec \in Versions(call[c].key)
  BY DEF ProducerInv, ProducerOf, rid, Versions, OfCalls
<1>2. ASSUME NEW e \in Calls, call'[e].pc \in Streaming PROVE call'[e].rec.rid # call[c].rec.rid
  <2>1. e # c /\ call[e].pc \in Streaming /\ ProducerOf(e) /\ call'[e] = call[e]
    BY <1>2 DEF ProducerInv
  <2> QED
    BY <2>1 DEF ProducerOf, rid
<1> QED
  BY <1>1, <1>2 DEF Settled

\* d has nothing any more.
LEMMA NoRecord ==
    ASSUME LedgerInv, NEW d \in Calls, call'[d].rec.rid = 0, call'[d].pc \in {"idle", "joined"},
           \A e \in Calls \ {d} : call'[e] = call[e]
    PROVE  Settled(d)
<1>1. ASSUME NEW e \in Calls \ {d}, call'[e].pc \in Streaming PROVE call'[e].rec.rid # 0
  BY <1>1, RunRid DEF rid
<1> QED
  BY <1>1 DEF Settled, Streaming, Producing

\* The end of a run that was not answered, or whose answer is complete.
LEMMA ConcludeSettled ==
    ASSUME LedgerInv, SInv, NEW c \in Calls, NEW o \in {"ok", "failed"}, Conclude(c, o),
           o = "ok" => call[c].pc \in {"sealing", "labelling"}
    PROVE  \A d \in Calls : call'[d] = call[d] \/ Settled(d)
<1>1. call \in [Calls -> CallType]
  BY CallTyped DEF LedgerInv
<1>2. /\ call'[c].pc = o
      /\ \A d \in Calls :
            \/ call'[d] = call[d]
            \/ call'[d].pc = o /\ call'[d].rec = call[c].rec /\ call'[d].key = call[c].key
  BY <1>1 DEF Conclude, CallType
<1>3. o \notin Streaming
  BY DEF Streaming, Producing
<1>4. o = "ok" => isComplete(call[c].rec) /\ call[c].rec.rid # 0
  <2> SUFFICES ASSUME call[c].pc \in {"sealing", "labelling"}
               PROVE  isComplete(call[c].rec) /\ call[c].rec.rid # 0
    OBVIOUS
  <2>1. call[c].pc \in Streaming
    BY DEF Streaming
  <2> QED
    BY <2>1, RunRid DEF LedgerInv, RecordInv, RecordOf, rid
<1>5. \A e \in Calls : call'[e].pc \in Streaming => call'[e] = call[e]
  BY <1>2, <1>3
<1> QED
  BY <1>2, <1>3, <1>4, <1>5, SameRecord DEF SInv

\* A message that is shared with a run, or replayed.
LEMMA JoinQuiet ==
    ASSUME LedgerInv, SInv, NEW c \in Calls, NEW k \in Events, StreamJoin(c, k) \/ StreamReplay(c, k),
           UNCHANGED <<live, frames>>
    PROVE  SInv'
<1>1. UNCHANGED <<processed, queue, saving, data, disk, fresh>>
  BY DEF StreamJoin, StreamReplay, memory, file
<1>2. Settled(c) /\ \A d \in Calls \ {c} : call'[d] = call[d]
  <2>0. call \in [Calls -> CallType] /\ k \in Keys
    BY CallTyped DEF LedgerInv
  <2>1. CASE StreamJoin(c, k)
    <3>1. /\ call'[c].pc = "joined" /\ call'[c].rec = Absent
          /\ \A d \in Calls \ {c} : call'[d] = call[d]
      BY <2>0, <2>1 DEF StreamJoin, Begin, Idle
    <3> QED
      BY <3>1, NoRecord DEF Absent
  <2>2. CASE StreamReplay(c, k)
    <3>1. /\ call'[c].pc = "ok" /\ call'[c].key = k /\ call'[c].rec = processed[k]
          /\ isComplete(processed[k]) /\ processed[k].rid # 0 /\ lease[k] = NoCall
          /\ \A d \in Calls \ {c} : call'[d] = call[d]
      BY <2>0, <2>2 DEF StreamReplay, Begin, Idle, Free
    <3>2. processed[k] \in Versions(k)
      BY <3>1 DEF Versions, Filed
    <3>3. ASSUME NEW e \in Calls \ {c}, call[e].pc \in Streaming, call[e].rec.rid = processed[k].rid
          PROVE  FALSE
      <4>1. call[e].key \in Keys /\ lease[call[e].key] = e /\ e # NoCall
        BY <3>3, Owner DEF Streaming, Producing, Owning, Running
      <4>2. call[e].rec \in Versions(call[e].key)
        BY <3>1, <3>3 DEF Versions, OfCalls
      <4>3. SameAnswer(call[e].key, call[e].rec, k, processed[k])
        BY <2>0, <3>2, <4>1, <4>2 DEF SInv, VersionInv
      <4> QED
        BY <3>1, <3>3, <4>1, <4>3 DEF SameAnswer
    <3> QED
      BY <3>1, <3>2, <3>3 DEF Settled, Streaming, Producing
  <2> QED
    BY <2>1, <2>2
<1> QED
  BY <1>1, <1>2, Quiet DEF Forgotten

\* A responseId that was saved, or is taken back; an answer that was saved; a
\* run that is undone.
LEMMA EndQuiet ==
    ASSUME LedgerInv, SInv, NEW c \in Calls, Labelled(c) \/ Sealed(c) \/ Undone(c),
           UNCHANGED <<live, frames>>
    PROVE  SInv'
<1>1. UNCHANGED <<queue, saving, data, disk, fresh>>
  BY DEF Labelled, Sealed, Undone, memory, file
<1>2. \A d \in Calls : call'[d] = call[d] \/ Settled(d)
  BY ConcludeSettled DEF Labelled, Sealed, Undone, At
<1>3. \A k \in Keys : Forgotten(k)
  <2>1. CASE processed' = processed
    BY <2>1 DEF Forgotten
  <2>2. CASE At(c, "labelling", "failed") /\ Write(c, [call[c].rec EXCEPT !.rid = 0])
    <3>1. /\ call[c].pc \in Streaming /\ call[c].pc = "labelling" /\ call[c].rec \in Rec
          /\ processed \in [Keys -> Rec]
      BY <2>2, CallTyped DEF At, Streaming, LedgerInv, TypeOK, CallType
    <3>2. rid(c) # 0 /\ call[c].rec.n = 0
      BY <3>1, RunRid DEF SInv, ProducerInv, ProducerOf
    <3>3. [call[c].rec EXCEPT !.rid = 0].rid = 0 /\ [call[c].rec EXCEPT !.rid = 0].n = 0
      BY <3>1, <3>2 DEF Rec
    <3>4. \A k \in Keys : processed'[k] \in {processed[k], [call[c].rec EXCEPT !.rid = 0]}
      BY <2>2, <3>1 DEF Write
    <3> QED
      BY <3>3, <3>4 DEF Forgotten
  <2> QED
    BY <2>1, <2>2 DEF Labelled, Sealed, Undone, memory
<1> QED
  BY <1>1, <1>2, <1>3, Quiet

\* A run that is given up.
LEMMA AbandonQuiet ==
    ASSUME LedgerInv, SInv, NEW c \in Calls, Abandon(c), UNCHANGED <<live, frames>>,
           call[c].pc \in {"generating", "appending", "sealing"}
    PROVE  SInv'
<1>0. /\ call \in [Calls -> CallType] /\ processed \in [Keys -> Rec] /\ fresh \in Nat
      /\ UNCHANGED <<saving, data, disk, fresh>>
  BY CallTyped DEF LedgerInv, TypeOK, Abandon, file
<1>1. CASE Held(c)
  <2>1. processed' = [processed EXCEPT ![call[c].key] = Absent] /\ AwaitFlush(c, "undoing", call[c].rec)
    BY <1>1 DEF Abandon
  <2>2. call[c].rec \in Rec /\ call[c].rec.rid <= fresh
    <3>1. call[c].pc \in Streaming
      BY DEF Streaming, Producing
    <3> QED
      BY <1>0, <3>1, HeldOrGone
  <2>3. Awaiting(c, "undoing", call[c].rec)
    BY <1>0, <2>1, <2>2, AwaitForm
  <2>4. Settled(c) /\ \A d \in Calls : call'[d] = call[d] \/ Settled(d)
    <3>1. /\ call'[c].rec = call[c].rec /\ call'[c].key = call[c].key /\ call'[c].pc = "undoing"
          /\ \A d \in Calls \ {c} : call'[d] = call[d]
      BY <2>3 DEF Awaiting
    <3>2. "undoing" \notin Streaming
      BY DEF Streaming, Producing
    <3>3. \A e \in Calls : call'[e].pc \in Streaming => call'[e] = call[e]
      BY <3>1, <3>2
    <3>4. Settled(c)
      BY <3>1, <3>2, <3>3, SameRecord DEF SInv
    <3> QED
      BY <3>1, <3>4
  <2>5. \A k \in Keys : Forgotten(k)
    BY <1>0, <2>1 DEF Forgotten, Absent
  <2>6. \E f \in Flushes : queue' = Append(queue, f) /\ f.at # "appending"
    <3>1. queue' = Append(queue, Flush(c, "undoing", call[c].rec.rid))
      BY <2>1 DEF AwaitFlush
    <3>2. Flush(c, "undoing", call[c].rec.rid) \in Flushes
      BY <2>2 DEF Flush, Flushes, Places, Owning, Running, Rec
    <3> QED
      BY <3>1, <3>2 DEF Flush
  <2> QED
    BY <1>0, <2>4, <2>5, <2>6, Quiet
<1>2. CASE ~Held(c)
  <2>1. Conclude(c, "failed") /\ UNCHANGED <<processed, queue>>
    BY <1>2 DEF Abandon, memory
  <2>2. \A d \in Calls : call'[d] = call[d] \/ Settled(d)
    BY <2>1, ConcludeSettled
  <2> QED
    BY <1>0, <2>1, <2>2, Quiet DEF Forgotten
<1> QED
  BY <1>1, <1>2

\* The first flush of a run failed.
LEMMA OpenFailedQuiet ==
    ASSUME LedgerInv, SInv, NEW c \in Calls, Opened(c), ~At(c, "opening", "saved"),
           UNCHANGED <<live, frames>>
    PROVE  SInv'
<1>1. Conclude(c, "failed") /\ UNCHANGED <<processed, queue, saving, data, disk, fresh>>
  BY DEF Opened, memory, file
<1>2. \A d \in Calls : call'[d] = call[d] \/ Settled(d)
  BY <1>1, ConcludeSettled
<1> QED
  BY <1>1, <1>2, Quiet DEF Forgotten

\* A caller that goes on.
LEMMA ReturnForm ==
    ASSUME LedgerInv, NEW c \in Calls, Return(c)
    PROVE  /\ UNCHANGED <<processed, queue, saving, data, disk, fresh>>
           /\ \A d \in Calls : call'[d] = call[d] \/ Settled(d)
           /\ call'[c].rec.rid = 0 /\ call'[c].pc = "idle"
           /\ \A d \in Calls \ {c} : call'[d] = call[d]
<1>1. UNCHANGED <<processed, queue, saving, data, disk, fresh>>
  BY DEF Return, memory, file
<1>2. call'[c] = Idle /\ \A d \in Calls \ {c} : call'[d] = call[d]
  BY CallTyped DEF LedgerInv, Return
<1>3. call'[c].rec.rid = 0 /\ call'[c].pc = "idle"
  BY <1>2 DEF Idle, Absent
<1>4. Settled(c)
  BY <1>2, <1>3, NoRecord
<1> QED
  BY <1>1, <1>2, <1>3, <1>4

\* persistNow, and a caller that was told of a failure and says nothing.
LEMMA SilentQuiet ==
    ASSUME LedgerInv, SInv, persist \/ (\E c \in Calls : Return(c)), UNCHANGED <<live, frames>>
    PROVE  SInv'
<1>1. CASE persist
  <2>1. UNCHANGED <<processed, saving, data, disk, fresh, call>>
    BY <1>1 DEF persist, file
  <2>2. Flush(NoCall, "persist", 0) \in Flushes
    BY DEF Flush, Flushes
  <2>3. \E f \in Flushes : queue' = Append(queue, f) /\ f.at # "appending"
    BY <1>1, <2>2 DEF persist, Flush
  <2> QED
    BY <2>1, <2>3, Quiet DEF Forgotten
<1>2. ASSUME NEW c \in Calls, Return(c) PROVE SInv'
  BY <1>2, ReturnForm, Quiet DEF Forgotten
<1> QED
  BY <1>1, <1>2

(***************************************************************************)
(* The start and the end of the process: nothing runs, and only what the   *)
(* file has is around.                                                     *)
(***************************************************************************)
\* No run, no flush of an append.
LEMMA Restarted ==
    ASSUME LedgerInv, SInv, UNCHANGED <<frames, fresh>>, StreamTypeOK',
           data' = disk', disk' = disk \/ disk' = data \/ disk' = Empty,
           \A k \in Keys : processed'[k] \in {disk[k], Absent},
           saving' = NoFlush, \A i \in 1..Len(queue') : queue'[i].at # "appending",
           \A c \in Calls :
              call'[c].pc = "idle" /\ (call'[c].rec.rid = 0 \/ call'[c] = call[c])
    PROVE  SInv'
<1>0. /\ TypeOK /\ fresh \in Nat /\ fresh' \in Nat /\ fresh <= fresh' /\ Absent.rid = 0 /\ Absent.n = 0
  BY DEF LedgerInv, TypeOK, Absent
<1>1. Only(0) /\ \A k \in Keys : \A x \in Versions(k)' : x.rid # 0
  <2>1. ASSUME NEW k \in Keys, NEW x \in Filed(k)' PROVE x \in Filed(k) /\ x.rid # 0
    <3>1. x.rid # 0 /\ x \in {processed'[k], disk'[k], data'[k]}
      BY DEF Filed
    <3> QED
      BY <1>0, <3>1 DEF Filed, Empty
  <2>2. ASSUME NEW k \in Keys, NEW x \in OfCalls(k)' PROVE x \in OfCalls(k) /\ x.rid # 0
    BY DEF OfCalls
  <2> QED
    BY <2>1, <2>2 DEF Only, Versions
<1>2. fresh' <= MaxFresh
  BY DEF SInv
<1>3. VersionInv'
  BY <1>0, <1>1, VersionKept DEF SInv
<1>4. FiledInv'
  BY <1>0, <1>1, FiledKept DEF SInv, Versions
<1>5. OldInv'
  BY <1>0 DEF SInv, OldInv, Empty
<1>6. SnapshotInv'
  BY DEF SnapshotInv
<1>7. FramesInv'
  <2>1. \A f \in frames' : f.rid # 0
    BY <1>0 DEF SInv, FramesInv, FrameOf
  <2> QED
    BY <1>0, <1>1, <2>1, FramesKept DEF SInv
<1>8. ProducerInv'
  <2> SUFFICES ASSUME NEW d \in Calls PROVE ProducerOf(d)'
    BY DEF ProducerInv
  <2>1. call'[d].rec.rid # 0 => call'[d].key \in Events
    BY DEF SInv, ProducerInv, ProducerOf, rid
  <2> QED
    BY <2>1, ProducerEnded DEF Streaming, Producing
<1>9. PendingInv'
  BY DEF PendingInv, NoFlush, Flush
<1> QED
  BY <1>2, <1>3, <1>4, <1>5, <1>6, <1>7, <1>8, <1>9 DEF SInv

\* The ledger is loaded.
LEMMA LoadSInv ==
    ASSUME LedgerInv, SInv, load, UNCHANGED <<live, frames>> PROVE SInv'
<1>1. /\ up = "down" /\ saving = NoFlush
      /\ \A c \in Calls : call[c].pc = "idle"
  BY DEF load, LedgerInv, DownInv
<1>2. /\ disk' \in {disk, Empty} /\ data' = disk' /\ UNCHANGED <<saving, call, fresh>>
      /\ \A k \in Keys : processed'[k] \in {disk[k], Absent}
  <2> DEFINE found == IF torn THEN Empty ELSE disk
  <2> DEFINE kept == [k \in Keys |-> IF isComplete(found[k]) THEN found[k] ELSE Absent]
  <2>1. /\ LoadAndTrim(kept) /\ disk' = found /\ data' = found
        /\ UNCHANGED <<saving, call, fresh>>
    BY <1>1 DEF load
  <2>2. found \in [Keys -> Rec] /\ \A k \in Keys : found[k] \in {disk[k], Absent}
    BY RecordTypes DEF LedgerInv, TypeOK, Empty
  <2>3. kept \in [Keys -> Rec] /\ \A k \in Keys : kept[k] \in {disk[k], Absent}
    BY <2>2, RecordTypes
  <2>4. found \in {disk, Empty}
    OBVIOUS
  <2> HIDE DEF found, kept
  <2>5. \A k \in Keys : processed'[k] \in {kept[k], Absent}
    BY <2>1, <2>3, LoadTrimForm DEF LedgerInv
  <2> QED
    BY <2>1, <2>3, <2>4, <2>5
<1>3. queue' = <<Flush(NoCall, "load", 0)>> \/ queue' = << >>
  BY DEF load
<1>4. \A i \in 1..Len(queue') : queue'[i].at # "appending"
  BY <1>3 DEF Flush
<1>5. StreamTypeOK'
  BY DEF SInv, StreamTypeOK, Rids
<1> QED
  BY <1>1, <1>2, <1>4, <1>5, Restarted

\* The process dies.
LEMMA CrashSInv ==
    ASSUME LedgerInv, SInv, DeliverCrash PROVE SInv'
<1>1. /\ saving' = NoFlush /\ queue' = << >> /\ data' = disk' /\ processed' = Empty
      /\ disk' = disk \/ disk' = data
      /\ \A c \in Calls : call'[c] = Idle
      /\ UNCHANGED <<fresh, frames>>
  BY DEF DeliverCrash, Crash, Interrupted
<1>2. \A k \in Keys : processed'[k] = Absent
  BY <1>1 DEF Empty
<1>3. \A c \in Calls : call'[c].pc = "idle" /\ call'[c].rec.rid = 0
  BY <1>1 DEF Idle, Absent
<1>4. StreamTypeOK'
  BY <1>1, LedgerAssumption DEF DeliverCrash, SInv, StreamTypeOK, NotLive, Rids
<1> QED
  BY <1>1, <1>2, <1>3, <1>4, Restarted

(***************************************************************************)
(* A responseId is drawn: nothing of it is around.                         *)
(***************************************************************************)
\* Every responseId around was drawn.
LEMMA OldRids ==
    ASSUME LedgerInv, SInv
    PROVE  /\ \A f \in frames : f.rid <= fresh /\ f.rid \in Nat /\ f.rid # 0
           /\ \A k \in Keys : \A x \in Versions(k) : x.rid <= fresh /\ x.rid \in Nat
           /\ \A c \in Calls : rid(c) <= fresh /\ rid(c) \in Nat
<1>0. TypeOK /\ fresh \in Nat /\ call \in [Calls -> CallType]
  BY CallTyped DEF LedgerInv, TypeOK
<1>1. \A f \in frames : f.rid <= fresh /\ f.rid \in Nat /\ f.rid # 0
  BY <1>0 DEF SInv, FramesInv, FrameOf
<1>2. \A k \in Keys : \A x \in Versions(k) : x.rid <= fresh /\ x.rid \in Nat
  BY <1>0, VersionTypes DEF SInv, VersionInv, VersionOf
<1>3. ASSUME NEW c \in Calls PROVE rid(c) <= fresh /\ rid(c) \in Nat
  <2>1. rid(c) \in Nat
    BY <1>0 DEF CallType, Rec, rid
  <2>2. CASE rid(c) # 0
    <3>1. call[c].key \in Events /\ call[c].rec \in Versions(call[c].key)
      BY <2>2 DEF SInv, ProducerInv, ProducerOf, Versions, OfCalls, rid
    <3> QED
      BY <1>2, <2>1, <3>1 DEF rid
  <2> QED
    BY <1>0, <2>1, <2>2
<1> QED
  BY <1>1, <1>2, <1>3

\* A run that begins keeps the invariant.
LEMMA LeaseSInv ==
    ASSUME LedgerInv, SInv, NEW c \in Calls, NEW k \in Events,
           NEW where \in {"opening", "labelling"}, NEW r \in Rec,
           r.rid = fresh + 1, r.n = 0, where = "opening" => ~isComplete(r),
           fresh < MaxFresh, Leased(c, k, where, r),
           queue' = Append(queue, Flush(c, where, r.rid)),
           \A j \in Keys : \/ processed'[j] \in {processed[j], Absent}
                           \/ j = k /\ processed'[j] = r,
           UNCHANGED <<live, frames>>
    PROVE  SInv'
<1> DEFINE q == fresh + 1
<1>0. /\ TypeOK /\ fresh \in Nat /\ fresh' \in Nat /\ fresh <= fresh' /\ fresh' = q /\ q \in Nat
      /\ call \in [Calls -> CallType] /\ Absent.rid = 0 /\ Absent.n = 0
      /\ MaxFresh \in Nat /\ MaxChunks \in Nat
  BY CallTyped, LedgerAssumption DEF LedgerInv, TypeOK, Leased, Absent
<1>1. /\ call'[c].pc = where /\ call'[c].key = k /\ call'[c].rec = r
      /\ call'[c].flushed = "no"
      /\ \A d \in Calls \ {c} : call'[d] = call[d]
      /\ UNCHANGED <<saving, data, disk>>
  BY DEF Leased
<1>2. /\ \A f \in frames : f.rid # q
      /\ \A j \in Keys : \A x \in Versions(j) : x.rid # q
      /\ \A d \in Calls : rid(d) # q
  BY <1>0, OldRids
<1>3. PICK z : z = q
  OBVIOUS
<1>4. ASSUME NEW j \in Keys, NEW x \in Filed(j)'
      PROVE  x \in Filed(j) \/ (j = k /\ x = r)
  <2>1. x.rid # 0 /\ x \in {processed'[j], disk[j], data[j]}
    BY <1>1 DEF Filed
  <2> QED
    BY <1>0, <2>1 DEF Filed
<1>5. ASSUME NEW j \in Keys, NEW x \in OfCalls(j)'
      PROVE  x \in OfCalls(j) \/ (j = k /\ x = r)
  <2>1. x.rid # 0 /\ \E d \in Calls : call'[d].key = j /\ x = call'[d].rec
    BY DEF OfCalls
  <2> QED
    BY <1>1, <2>1 DEF OfCalls
<1>6. \A j \in Keys : \A x \in Versions(j)' : x \in Versions(j) \/ (j = k /\ x = r)
  BY <1>4, <1>5 DEF Versions
<1>7. Only(z)
  BY <1>3, <1>4, <1>6 DEF Only
<1>8. /\ \A f \in frames' : f.rid # z
      /\ \A j \in Keys : \A x \in Versions(j)' : x.rid = z => j = k /\ x = r
  BY <1>2, <1>3, <1>6
<1> HIDE DEF q
<1>9. StreamTypeOK' /\ fresh' <= MaxFresh
  BY <1>0 DEF SInv, StreamTypeOK, Rids, Leased
<1>10. VersionInv'
  <2>1. VersionOf(k, r)'
    <3>1. \A f \in frames' : f.rid # r.rid
      BY <1>3, <1>8 DEF q
    <3>2. r.rid <= fresh' /\ r.n <= MaxChunks
      BY <1>0 DEF q
    <3>3. Shown(k, r)'
      BY <3>1 DEF Shown
    <3> QED
      BY <3>1, <3>2, <3>3 DEF VersionOf
  <2>2. \A j \in Keys : \A x \in Versions(j)' : x.rid = z =>
           /\ VersionOf(j, x)'
           /\ \A i \in Keys : \A y \in Versions(i)' : y.rid = z => SameAnswer(j, x, i, y)
    BY <1>8, <2>1 DEF SameAnswer
  <2> QED
    BY <1>0, <1>7, <2>2, VersionKept DEF SInv
<1>11. FiledInv'
  <2>1. \A j \in Keys : \A x \in Filed(j)' : x.rid = z => Keeps(j, x)'
    BY <1>8 DEF Keeps
  <2> QED
    BY <1>7, <2>1, FiledKept DEF SInv
<1>12. OldInv'
  BY <1>0, <1>1 DEF SInv, OldInv
<1>13. SnapshotInv'
  BY <1>1 DEF SInv, SnapshotInv
<1>14. FramesInv'
  BY <1>0, <1>7, <1>8, FramesKept DEF SInv
<1>15. ProducerInv'
  <2> SUFFICES ASSUME NEW d \in Calls PROVE ProducerOf(d)'
    BY DEF ProducerInv
  <2>1. CASE d # c
    <3>1. ProducerOf(d) /\ call'[d] = call[d]
      BY <1>1, <2>1 DEF SInv, ProducerInv
    <3>2. rid(d) # z
      BY <1>2, <1>3
    <3>3. call[d].pc \in Streaming => \A e \in Calls \ {d} : call'[e].rec.rid # rid(d)
      <4> SUFFICES ASSUME call[d].pc \in Streaming, NEW e \in Calls \ {d}
                   PROVE  call'[e].rec.rid # rid(d)
        OBVIOUS
      <4>1. CASE e = c
        BY <1>1, <1>3, <3>2, <4>1 DEF q
      <4>2. CASE e # c
        BY <1>1, <3>1, <4>2 DEF ProducerOf, rid
      <4> QED
        BY <4>1, <4>2
    <3> QED
      BY <1>7, <3>1, <3>2, <3>3, ProducerKept
  <2>2. CASE d = c
    <3>1. rid(c)' = z /\ \A e \in Calls \ {c} : rid(e)' # z
      BY <1>1, <1>2, <1>3 DEF rid, q
    <3>2. where = "opening" => Unfinished(z)'
      BY <1>8 DEF Unfinished
    <3>3. where = "opening" => Unfinished(rid(c))'
      BY <3>1, <3>2 DEF Unfinished
    <3>4. \A f \in frames' : f.rid # rid(c)'
      BY <1>8, <3>1
    <3> QED
      BY <1>1, <2>2, <3>1, <3>3, <3>4 DEF ProducerOf, Streaming, Producing, Emitting, At
  <2> QED
    BY <2>1, <2>2
<1>16. PendingInv'
  <2>1. ASSUME NEW f \in Flushes, PendingOf(f)
        PROVE  PendingOf(f)' /\ live'[f.rid].seq = live[f.rid].seq
    <3>1. f.rid # z
      BY <1>0, <1>3, <2>1 DEF PendingOf, q
    <3>2. \A j \in Keys : processed'[j] = processed[j] \/ processed'[j].rid \in {0, z}
      BY <1>0, <1>3 DEF q
    <3>3. \A d \in Calls : call'[d].pc \in Streaming => call'[d].rec.rid = z \/ call'[d] = call[d]
      BY <1>1, <1>3 DEF q
    <3> QED
      BY <1>0, <1>7, <2>1, <3>1, <3>2, <3>3, PendingOther
  <2>2. Flush(c, where, r.rid) \in Flushes /\ Flush(c, where, r.rid).at # "appending"
    BY <1>0 DEF Flush, Flushes, Places, Owning, Running, q
  <2> QED
    BY <1>0, <1>1, <2>1, <2>2, PendingChain DEF SInv
<1> QED
  BY <1>9, <1>10, <1>11, <1>12, <1>13, <1>14, <1>15, <1>16 DEF SInv

\* An answer of the old format gets its responseId, or a message its run.
LEMMA BeginSInv ==
    ASSUME LedgerInv, SInv, NEW c \in Calls, NEW k \in Events, StreamLabel(c, k) \/ StreamOpen(c, k),
           UNCHANGED <<live, frames>>
    PROVE  SInv'
<1>0. processed \in [Keys -> Rec] /\ fresh \in Nat /\ k \in Keys
  BY DEF LedgerInv, TypeOK
<1>1. CASE StreamLabel(c, k)
  <2> DEFINE r == [processed[k] EXCEPT !.rid = fresh + 1]
  <2>1. r \in Rec /\ r.rid = fresh + 1 /\ r.n = processed[k].n
    BY <1>0 DEF Rec
  <2>2. r.n = 0
    BY <1>1, <2>1 DEF StreamLabel, SInv, OldInv
  <2>3. StreamLease(c, k, "labelling", r) /\ processed' = [processed EXCEPT ![k] = r]
    BY <1>1 DEF StreamLabel
  <2> HIDE DEF r
  <2>4. Leased(c, k, "labelling", r)
    BY <1>0, <2>1, <2>3, LeaseForm
  <2>5. fresh < MaxFresh /\ queue' = Append(queue, Flush(c, "labelling", r.rid))
    BY <2>3 DEF StreamLease
  <2>6. \A j \in Keys : processed'[j] = processed[j] \/ (j = k /\ processed'[j] = r)
    BY <1>0, <2>3
  <2> QED
    BY <2>1, <2>2, <2>4, <2>5, <2>6, LeaseSInv
<1>2. CASE StreamOpen(c, k)
  <2> DEFINE r == [rid |-> fresh + 1, n |-> 0, ans |-> NoAnswer, at |-> Place(k)]
  <2>1. r \in Rec /\ r.rid = fresh + 1 /\ r.n = 0 /\ ~isComplete(r)
    BY <1>0 DEF Rec, isComplete, NoAnswer, Place
  <2>2. StreamLease(c, k, "opening", r) /\ SetAndTrim(k, r)
    BY <1>2 DEF StreamOpen
  <2> HIDE DEF r
  <2>3. Leased(c, k, "opening", r)
    BY <1>0, <2>1, <2>2, LeaseForm
  <2>4. fresh < MaxFresh /\ queue' = Append(queue, Flush(c, "opening", r.rid))
    BY <2>2 DEF StreamLease
  <2>5. \A j \in Keys : \/ processed'[j] \in {processed[j], Absent}
                        \/ j = k /\ processed'[j] = r
    BY <1>0, <2>1, <2>2, TrimForm
  <2> QED
    BY <2>1, <2>3, <2>4, <2>5, LeaseSInv
<1> QED
  BY <1>1, <1>2

(***************************************************************************)
(* The run of a response writes a record: a fragment, or the answer.       *)
(***************************************************************************)
\* The records of a run are those of its call's message.
LEMMA RunRecords ==
    ASSUME LedgerInv, SInv, NEW c \in Calls, call[c].pc \in Streaming
    PROVE  /\ call[c].rec \in Versions(call[c].key)
           /\ VersionOf(call[c].key, call[c].rec)
           /\ \A j \in Keys : \A y \in Versions(j) : y.rid = rid(c) =>
                 j = call[c].key /\ SameAnswer(call[c].key, call[c].rec, j, y)
<1>1. call[c].key \in Events /\ rid(c) # 0
  BY RunRid, HeldOrGone
<1>2. call[c].rec \in Versions(call[c].key)
  BY <1>1 DEF Versions, OfCalls, rid
<1>3. \A j \in Keys : \A y \in Versions(j) : SameAnswer(call[c].key, call[c].rec, j, y)
  BY <1>1, <1>2 DEF SInv, VersionInv
<1> QED
  BY <1>1, <1>2, <1>3 DEF SInv, VersionInv, SameAnswer, rid

\* No flush of an append of the run is pending.
LEMMA NoPending ==
    ASSUME NEW c \in Calls, call[c].pc \in Streaming,
           call[c].pc # "appending" \/ call[c].flushed # "no", NEW f, PendingOf(f)
    PROVE  f.rid # rid(c)
BY DEF PendingOf

\* A run that writes r keeps the invariant.
LEMMA WriteSInv ==
    ASSUME LedgerInv, SInv, NEW c \in Calls, call[c].pc = "generating", NEW k, k = call[c].key,
           NEW z, z = rid(c),
           NEW where \in {"appending", "sealing"}, NEW r \in Rec, r.rid = z, r.n <= MaxChunks,
           Awaiting(c, where, r), queue' = Append(queue, Flush(c, where, z)),
           \A j \in Keys : \/ processed'[j] = processed[j] /\ processed'[j].rid # z
                           \/ j = k /\ processed'[j] = r,
           IF where = "appending" THEN ~isComplete(r) /\ r.n = call[c].rec.n + 1
                                  ELSE isComplete(r) /\ r.n = call[c].rec.n,
           ~live[z].broken, UNCHANGED <<live, frames, saving, data, disk, fresh>>
    PROVE  SInv'
<1>0. /\ TypeOK /\ fresh \in Nat /\ fresh' \in Nat /\ fresh <= fresh'
      /\ call \in [Calls -> CallType]
      /\ MaxFresh \in Nat /\ MaxChunks \in Nat
  BY CallTyped, LedgerAssumption DEF LedgerInv, TypeOK
<1>1. /\ call'[c].pc = where /\ call'[c].key = k /\ call'[c].rec = r /\ call'[c].flushed = "no"
      /\ \A d \in Calls \ {c} : call'[d] = call[d]
  BY DEF Awaiting
<1>2. /\ call[c].pc \in Streaming /\ call[c].pc \in Producing /\ call[c].pc \in Emitting
      /\ where \in Streaming /\ (where \in Producing <=> where = "appending")
      /\ (where \in Emitting <=> where = "appending")
  BY DEF Streaming, Producing, Emitting
<1>3. /\ k \in Events /\ z \in 1..fresh /\ z # 0
  BY <1>2, HeldOrGone, RunRid
<1>4. /\ VersionOf(k, call[c].rec)
      /\ \A j \in Keys : \A y \in Versions(j) : y.rid = z => j = k
  BY <1>2, RunRecords
<1>5. ProducerOf(c) /\ Unfinished(z) /\ EmitterOf(c)
  BY <1>2 DEF SInv, ProducerInv, ProducerOf
<1>6. ASSUME NEW j \in Keys, NEW x \in Filed(j)'
      PROVE  x \in Filed(j) \/ (j = k /\ x = r)
  <2>1. x.rid # 0 /\ x \in {processed'[j], disk[j], data[j]}
    BY <1>1 DEF Filed
  <2> QED
    BY <1>0, <2>1 DEF Filed
<1>7. ASSUME NEW j \in Keys, NEW x \in OfCalls(j)'
      PROVE  x \in OfCalls(j) \/ (j = k /\ x = r)
  <2>1. x.rid # 0 /\ \E d \in Calls : call'[d].key = j /\ x = call'[d].rec
    BY DEF OfCalls
  <2> QED
    BY <1>1, <2>1 DEF OfCalls
<1>8. \A j \in Keys : \A x \in Versions(j)' : x \in Versions(j) \/ (j = k /\ x = r)
  BY <1>6, <1>7 DEF Versions
<1>9. Only(z)
  BY <1>6, <1>8 DEF Only
<1>10. StreamTypeOK' /\ fresh' <= MaxFresh
  BY <1>0 DEF SInv, StreamTypeOK, Rids
<1>11. VersionInv'
  <2>1. ASSUME NEW j \in Keys, NEW x \in Versions(j)', x.rid = z
        PROVE  j = k /\ (x = r \/ (x \in Versions(j) /\ ~isComplete(x)))
    BY <1>4, <1>5, <1>8, <2>1 DEF Unfinished
  <2>2. VersionOf(k, r)'
    <3>1. \A f \in frames' : f.rid = r.rid => f.ev = k
      BY <1>4 DEF VersionOf, rid
    <3>2. r.rid <= fresh' /\ r.n <= MaxChunks
      BY <1>3
    <3>3. Shown(k, r)'
      <4> SUFFICES ASSUME isComplete(r)
                   PROVE  /\ \A i \in 1..r.n : Frame(k, r.rid, i, "chunk", i) \in frames
                          /\ \A f \in frames : f.rid = r.rid =>
                                /\ f.kind = "chunk" => f.seq <= r.n
                                /\ f.kind = "completed" => f = Completed(k, r)
        BY DEF Shown, isComplete
      <4>1. r.n = live[z].seq
        BY <1>5 DEF EmitterOf
      <4> QED
        BY <1>5, <4>1 DEF EmitterOf, Unfinished
    <3> QED
      BY <1>3, <3>1, <3>2, <3>3 DEF VersionOf
  <2>3. \A j \in Keys : \A x \in Versions(j)' : x.rid = z =>
           /\ VersionOf(j, x)'
           /\ \A i \in Keys : \A y \in Versions(i)' : y.rid = z => SameAnswer(j, x, i, y)
    <3> SUFFICES ASSUME NEW j \in Keys, NEW x \in Versions(j)', x.rid = z
                 PROVE  /\ VersionOf(j, x)'
                        /\ \A i \in Keys : \A y \in Versions(i)' : y.rid = z => SameAnswer(j, x, i, y)
      OBVIOUS
    <3>1. VersionOf(j, x)'
      <4>1. CASE x = r
        BY <2>1, <2>2, <4>1
      <4>2. CASE x # r
        <5>1. x \in Versions(j) /\ VersionOf(j, x)
          BY <2>1, <4>2 DEF SInv, VersionInv
        <5> QED
          BY <5>1 DEF VersionOf, Shown
      <4> QED
        BY <4>1, <4>2
    <3>2. ASSUME NEW i \in Keys, NEW y \in Versions(i)', y.rid = z PROVE SameAnswer(j, x, i, y)
      BY <2>1, <3>2 DEF SameAnswer
    <3> QED
      BY <3>1, <3>2
  <2> QED
    BY <1>0, <1>9, <2>3, VersionKept DEF SInv
<1>12. FiledInv'
  <2>1. \A j \in Keys : \A x \in Filed(j)' : x.rid = z => Keeps(j, x)'
    <3> SUFFICES ASSUME NEW j \in Keys, NEW x \in Filed(j)', x.rid = z PROVE Keeps(j, x)'
      OBVIOUS
    <3>1. CASE x \in Filed(j)
      BY <3>1 DEF SInv, FiledInv, Keeps
    <3>2. CASE x = r
      <4>1. live[z].seq <= r.n /\ live[z].seq \in Nat
        <5>1. live[z].seq = call[c].rec.n /\ call[c].rec.n \in Nat
          BY <1>0, <1>5 DEF EmitterOf, CallType, Rec
        <5> QED
          BY <5>1
      <4>2. \A f \in frames : f.kind = "chunk" /\ f.rid = z => f.seq <= live[z].seq /\ f.seq \in Nat
        BY <1>0, <1>5 DEF EmitterOf, SInv, FramesInv, FrameOf
      <4> QED
        BY <3>2, <4>1, <4>2 DEF Keeps, Rec
    <3> QED
      BY <1>6, <3>1, <3>2
  <2> QED
    BY <1>9, <2>1, FiledKept DEF SInv
<1>13. OldInv' /\ SnapshotInv'
  BY <1>0, <1>3 DEF SInv, OldInv, SnapshotInv
<1>14. FramesInv'
  BY <1>0, <1>9, FramesKept DEF SInv, FramesInv, FrameOf
<1>15. Unfinished(z)' \/ where = "sealing"
  BY <1>5, <1>8 DEF Unfinished
<1>16. ProducerInv'
  <2> SUFFICES ASSUME NEW d \in Calls PROVE ProducerOf(d)'
    BY DEF ProducerInv
  <2>1. CASE d # c
    <3>1. ProducerOf(d) /\ call'[d] = call[d]
      BY <1>1, <2>1 DEF SInv, ProducerInv
    <3>2. call[d].pc \in Streaming => rid(d) # z /\ \A e \in Calls \ {d} : call'[e].rec.rid # rid(d)
      BY <1>1, <2>1, <3>1 DEF ProducerOf, rid
    <3> QED
      BY <1>9, <3>1, <3>2, ProducerKept
  <2>2. CASE d = c
    <3>1. rid(c)' = z /\ \A e \in Calls \ {c} : rid(e)' # z
      BY <1>1, <1>2, <1>5 DEF rid, ProducerOf
    <3>2. where = "appending" => Unfinished(rid(c))'
      BY <1>15, <3>1 DEF Unfinished
    <3>3. where = "appending" => EmitterOf(c)'
      BY <1>1, <1>5, <3>1 DEF EmitterOf
    <3> QED
      BY <1>1, <1>2, <1>3, <2>2, <3>1, <3>2, <3>3 DEF ProducerOf, At
  <2> QED
    BY <2>1, <2>2
<1>17. PendingInv'
  <2>1. \A f \in Flushes : PendingOf(f) => f.rid # z
    BY <1>2, NoPending
  <2>2. ASSUME NEW f \in Flushes, PendingOf(f)
        PROVE  PendingOf(f)' /\ live'[f.rid].seq = live[f.rid].seq
    <3>1. \A j \in Keys : processed'[j] = processed[j] \/ processed'[j].rid \in {0, z}
      OBVIOUS
    <3>2. \A d \in Calls : call'[d].pc \in Streaming => call'[d].rec.rid = z \/ call'[d] = call[d]
      BY <1>1
    <3> QED
      BY <1>0, <1>9, <2>1, <2>2, <3>1, <3>2, PendingOther
  <2>3. PICK g : g = Flush(c, where, z)
    OBVIOUS
  <2>4. g \in Flushes /\ g.at = where /\ g.rid = z /\ g.by = c
    BY <1>3, <2>3 DEF Flush, Flushes, Places, Owning, Running
  <2>5. where = "appending" => PendingOf(g)'
    <3> SUFFICES ASSUME where = "appending" PROVE PendingOf(g)'
      OBVIOUS
    <3>1. Unfinished(g.rid)'
      BY <1>15, <2>4 DEF Unfinished
    <3>2. live[z].ev = k /\ live[z].seq = call[c].rec.n /\ call[c].rec.n \in Nat
      BY <1>0, <1>5 DEF EmitterOf, CallType, Rec
    <3>3. live[z].seq < MaxChunks /\ r.n > live[z].seq
      BY <1>0, <3>2
    <3>4. \A f \in frames : f.rid = z => f.ev = k
      BY <1>4 DEF VersionOf, rid
    <3>5. \A j \in Keys : \A x \in Versions(j)' : x.rid = z => j = k
      BY <1>4, <1>8
    <3>6. \A j \in Keys : processed'[j].rid = z => processed'[j].n > live[z].seq
      BY <3>3
    <3>7. \A d \in Calls : call'[d].pc \in Streaming /\ call'[d].rec.rid = z =>
             d = c /\ call'[d].pc = "appending" /\ call'[d].flushed = "no"
      BY <1>1, <1>2, <1>5 DEF ProducerOf, rid
    <3> QED
      BY <1>3, <2>4, <3>1, <3>2, <3>3, <3>4, <3>5, <3>6, <3>7 DEF PendingOf, rid
  <2> QED
    BY <1>0, <2>1, <2>2, <2>3, <2>4, <2>5, PendingChain DEF SInv
<1> QED
  BY <1>10, <1>11, <1>12, <1>13, <1>14, <1>16, <1>17 DEF SInv

\* The respond callback hands over a fragment, or has answered.
LEMMA RespondSInv ==
    ASSUME LedgerInv, SInv, NEW c \in Calls, Respond(c) PROVE SInv'
<1>1. PICK k : k = call[c].key
  OBVIOUS
<1>2. PICK z : z = rid(c)
  OBVIOUS
<1>3. call[c].pc = "generating" /\ call[c].pc \in Streaming /\ call[c].pc \in Producing
  BY DEF Respond, append, Answer, Streaming, Producing
<1>4. /\ k \in Events /\ k \in Keys /\ call[c].rec \in Rec /\ z \in 1..fresh /\ z # 0
      /\ call[c].rec.rid = z /\ z <= fresh
      /\ Held(c) => processed[k] = call[c].rec
      /\ ~Held(c) => processed[k] = Absent
  BY <1>1, <1>2, <1>3, HeldOrGone, RunRid DEF rid
<1>5. /\ VersionOf(k, call[c].rec)
      /\ \A j \in Keys : \A y \in Versions(j) : y.rid = z => j = k
  BY <1>1, <1>2, <1>3, RunRecords
<1>6. ~isComplete(call[c].rec)
  BY <1>3 DEF LedgerInv, RecordInv, RecordOf
<1>7. processed \in [Keys -> Rec] /\ fresh \in Nat /\ MaxChunks \in Nat /\ z \in Nat
  BY <1>4, LedgerAssumption DEF LedgerInv, TypeOK, Rec
<1>8. ASSUME NEW r, Write(c, r)
      PROVE  \A j \in Keys : \/ processed'[j] = processed[j] /\ processed'[j].rid # z
                             \/ j = k /\ processed'[j] = r
  <2>1. \A j \in Keys : j # k => processed[j].rid # z
    BY <1>4, <1>5 DEF Versions, Filed
  <2>2. ~Held(c) => processed[k].rid # z
    BY <1>4 DEF Absent
  <2>3. CASE Held(c)
    BY <1>1, <1>7, <1>8, <2>1, <2>3 DEF Write
  <2>4. CASE ~Held(c)
    BY <1>8, <2>1, <2>2, <2>4 DEF Write
  <2> QED
    BY <2>3, <2>4
<1>9. ~live[z].broken /\ UNCHANGED <<live, frames, saving, data, disk, fresh>>
  BY <1>2 DEF Respond, append, Answer, file
<1>10. CASE append(c)
  <2> DEFINE r == [call[c].rec EXCEPT !.n = @ + 1]
  <2>1. r \in Rec /\ r.rid = z /\ ~isComplete(r) /\ r.n = call[c].rec.n + 1
    BY <1>4, <1>6 DEF Rec, isComplete
  <2>2. r.n <= MaxChunks
    BY <1>4, <1>7, <1>10, <2>1 DEF append, Rec
  <2>3. Write(c, r) /\ AwaitFlush(c, "appending", r)
    BY <1>10 DEF append
  <2> HIDE DEF r
  <2>4. Awaiting(c, "appending", r)
    BY <1>4, <1>7, <1>9, <2>1, <2>3, AwaitForm
  <2>5. queue' = Append(queue, Flush(c, "appending", z))
    BY <2>1, <2>3 DEF AwaitFlush
  <2>6. \A j \in Keys : \/ processed'[j] = processed[j] /\ processed'[j].rid # z
                        \/ j = k /\ processed'[j] = r
    BY <1>8, <2>3
  <2> QED
    BY <1>1, <1>2, <1>3, <1>9, <2>1, <2>2, <2>4, <2>5, <2>6, WriteSInv
<1>11. CASE Answer(c)
  <2> DEFINE r == [call[c].rec EXCEPT !.ans = call[c].rec.rid]
  <2>1. r \in Rec /\ r.rid = z /\ isComplete(r) /\ r.n = call[c].rec.n
    BY <1>4 DEF Rec, isComplete
  <2>2. r.n <= MaxChunks
    BY <1>5, <2>1 DEF VersionOf
  <2>3. Write(c, r) /\ AwaitFlush(c, "sealing", r)
    BY <1>11 DEF Answer
  <2> HIDE DEF r
  <2>4. Awaiting(c, "sealing", r)
    BY <1>4, <1>7, <1>9, <2>1, <2>3, AwaitForm
  <2>5. queue' = Append(queue, Flush(c, "sealing", z))
    BY <2>1, <2>3 DEF AwaitFlush
  <2>6. \A j \in Keys : \/ processed'[j] = processed[j] /\ processed'[j].rid # z
                        \/ j = k /\ processed'[j] = r
    BY <1>8, <2>3
  <2> QED
    BY <1>1, <1>2, <1>3, <1>9, <2>1, <2>2, <2>4, <2>5, <2>6, WriteSInv
<1> QED
  BY <1>10, <1>11 DEF Respond

(***************************************************************************)
(* The run of a response emits a frame: started, or a fragment.            *)
(***************************************************************************)
\* Where each call is after Goto.
LEMMA GotoForm ==
    ASSUME TypeOK, NEW c \in Calls, NEW where, call' = Goto(c, where)
    PROVE  /\ call'[c].pc = where /\ call'[c].key = call[c].key /\ call'[c].rec = call[c].rec
           /\ call'[c].flushed = call[c].flushed
           /\ \A d \in Calls \ {c} : call'[d] = call[d]
BY CallTyped DEF Goto, CallType

\* A step that writes no record leaves those that were around.
LEMMA SameVersions ==
    ASSUME UNCHANGED <<processed, data, disk>>,
           \A d \in Calls : call'[d].key = call[d].key /\ call'[d].rec = call[d].rec
    PROVE  \A k \in Keys : Versions(k)' = Versions(k) /\ Filed(k)' = Filed(k)
<1> SUFFICES ASSUME NEW k \in Keys PROVE Versions(k)' = Versions(k) /\ Filed(k)' = Filed(k)
  OBVIOUS
<1>1. Filed(k)' = Filed(k)
  BY DEF Filed
<1>2. OfCalls(k)' = OfCalls(k)
  BY DEF OfCalls
<1> QED
  BY <1>1, <1>2 DEF Versions

\* A started frame or a fragment is emitted for an unfinished response.
LEMMA EmitFrames ==
    ASSUME LedgerInv, SInv, NEW z, Unfinished(z), NEW k \in Events, NEW g,
           \A j \in Keys : \A y \in Versions(j) : y.rid = z => j = k,
           \A f \in frames : f.rid = z => f.ev = k,
           frames' = frames \/ frames' = frames \cup {g},
           FrameOf(g), g.rid = z, g.ev = k, g.kind \in {"started", "chunk"},
           g.kind = "chunk" => \A j \in Keys : \A x \in Filed(j)' : x.rid = z => g.seq <= x.n,
           \A j \in Keys : Versions(j)' \subseteq Versions(j) /\ Filed(j)' \subseteq Filed(j),
           fresh' = fresh
    PROVE  /\ Only(z) /\ Unfinished(z)' /\ VersionInv' /\ FiledInv' /\ FramesInv'
           /\ \A f \in frames' : f.rid = z => f.ev = k
<1>0. TypeOK /\ fresh \in Nat /\ fresh' \in Nat /\ fresh <= fresh'
  BY DEF LedgerInv, TypeOK
<1>1. Only(z)
  BY DEF Only
<1>2. Unfinished(z)'
  BY DEF Unfinished
<1>3. \A f \in frames' : f.rid = z => f.ev = k
  OBVIOUS
<1>4. VersionInv'
  <2>1. ASSUME NEW j \in Keys, NEW x \in Versions(j)', x.rid = z
        PROVE  /\ VersionOf(j, x)'
               /\ \A i \in Keys : \A y \in Versions(i)' : y.rid = z => SameAnswer(j, x, i, y)
    <3>1. x \in Versions(j) /\ j = k /\ ~isComplete(x) /\ VersionOf(j, x)
      BY <2>1 DEF SInv, VersionInv, Unfinished
    <3>2. VersionOf(j, x)'
      BY <1>3, <2>1, <3>1 DEF VersionOf, Shown, isComplete
    <3>3. ASSUME NEW i \in Keys, NEW y \in Versions(i)', y.rid = z PROVE SameAnswer(j, x, i, y)
      BY <3>1, <3>3 DEF SameAnswer
    <3> QED
      BY <3>2, <3>3
  <2> QED
    BY <1>0, <1>1, <2>1, VersionKept DEF SInv
<1>5. FiledInv'
  <2>1. ASSUME NEW j \in Keys, NEW x \in Filed(j)', x.rid = z PROVE Keeps(j, x)'
    <3>1. x \in Filed(j) /\ Keeps(j, x)
      BY <2>1 DEF SInv, FiledInv
    <3> QED
      BY <2>1, <3>1 DEF Keeps
  <2> QED
    BY <1>1, <2>1, FiledKept DEF SInv
<1>6. FramesInv'
  <2>1. ASSUME NEW f \in frames', f.rid = z
        PROVE  /\ FrameOf(f)'
               /\ \A h \in frames' : h.rid = z =>
                     /\ f.ev = h.ev
                     /\ f.kind = "completed" /\ h.kind = "chunk" => h.seq < f.seq
                     /\ f.kind = "completed" /\ h.kind = "completed" => f = h
    <3>1. FrameOf(f)'
      BY <2>1 DEF SInv, FramesInv, FrameOf
    <3>2. f.kind # "completed"
      BY <1>2, <2>1 DEF Unfinished
    <3> QED
      BY <1>3, <2>1, <3>1, <3>2
  <2> QED
    BY <1>0, <1>1, <2>1, FramesKept DEF SInv
<1> QED
  BY <1>1, <1>2, <1>3, <1>4, <1>5, <1>6

\* A run whose flush was saved goes on, with its frame.
LEMMA GoesOnSInv ==
    ASSUME LedgerInv, SInv, NEW c \in Calls, call[c].pc \in {"opening", "appending"},
           call[c].flushed = "saved", call' = Goto(c, "generating"),
           UNCHANGED <<memory, file, fresh>>, NEW k, k = call[c].key, NEW z, z = rid(c), NEW g,
           frames' = frames \/ frames' = frames \cup {g},
           FrameOf(g), g.rid = z, g.ev = k, g.kind \in {"started", "chunk"},
           g.kind = "chunk" => \A j \in Keys : \A x \in Filed(j) : x.rid = z => g.seq <= x.n,
           \A q \in Rids : q # z => live'[q] = live[q], StreamTypeOK', EmitterOf(c)'
    PROVE  SInv'
<1>0. /\ TypeOK /\ fresh \in Nat /\ fresh' \in Nat /\ fresh <= fresh' /\ fresh' = fresh
      /\ fresh <= MaxFresh /\ MaxFresh \in Nat
      /\ UNCHANGED <<processed, queue, saving, data, disk>>
  BY LedgerAssumption DEF LedgerInv, TypeOK, memory, file, SInv
<1>1. /\ call'[c].pc = "generating" /\ call'[c].key = k /\ call'[c].rec = call[c].rec
      /\ \A d \in Calls \ {c} : call'[d] = call[d]
  BY <1>0, GotoForm
<1>2. call[c].pc \in Streaming /\ call[c].pc \in Producing /\ "generating" \in Streaming
  BY DEF Streaming, Producing
<1>3. k \in Events /\ z \in 1..fresh /\ z # 0
  BY <1>2, HeldOrGone, RunRid
<1>4. /\ \A f \in frames : f.rid = z => f.ev = k
      /\ \A j \in Keys : \A y \in Versions(j) : y.rid = z => j = k
  BY <1>2, RunRecords DEF VersionOf, rid
<1>5. ProducerOf(c) /\ Unfinished(z)
  BY <1>2 DEF SInv, ProducerInv, ProducerOf
<1>6. \A j \in Keys : Versions(j)' = Versions(j) /\ Filed(j)' = Filed(j)
  <2>1. \A d \in Calls : call'[d].key = call[d].key /\ call'[d].rec = call[d].rec
    BY <1>1
  <2> QED
    BY <1>0, <2>1, SameVersions
<1>7. Only(z) /\ Unfinished(z)' /\ VersionInv' /\ FiledInv' /\ FramesInv'
  BY <1>0, <1>3, <1>4, <1>5, <1>6, EmitFrames
<1>8. OldInv' /\ SnapshotInv'
  BY <1>0 DEF SInv, OldInv, SnapshotInv
<1>9. ProducerInv'
  <2> SUFFICES ASSUME NEW d \in Calls PROVE ProducerOf(d)'
    BY DEF ProducerInv
  <2>1. CASE d # c
    <3>1. ProducerOf(d) /\ call'[d] = call[d]
      BY <1>1, <2>1 DEF SInv, ProducerInv
    <3>2. call[d].pc \in Streaming => rid(d) # z /\ \A e \in Calls \ {d} : call'[e].rec.rid # rid(d)
      BY <1>1, <2>1, <3>1 DEF ProducerOf, rid
    <3>3. call[d].pc \in Streaming => rid(d) \in Rids
      <4>1. call[d].pc \in Streaming => rid(d) \in 1..fresh
        BY RunRid
      <4> QED
        BY <1>0, <4>1 DEF Rids
    <3> QED
      BY <1>7, <3>1, <3>2, <3>3, ProducerKept
  <2>2. CASE d = c
    <3>1. rid(c)' = z /\ \A e \in Calls \ {c} : rid(e)' # z
      BY <1>1, <1>2, <1>5 DEF rid, ProducerOf
    <3>2. Unfinished(rid(c))'
      BY <1>7, <3>1 DEF Unfinished
    <3> QED
      BY <1>1, <1>2, <1>3, <2>2, <3>1, <3>2 DEF ProducerOf, At
  <2> QED
    BY <2>1, <2>2
<1>10. PendingInv'
  <2>1. \A f \in Flushes : PendingOf(f) => f.rid # z
    BY <1>2, NoPending
  <2>2. ASSUME NEW f \in Flushes, PendingOf(f)
        PROVE  PendingOf(f)' /\ live'[f.rid].seq = live[f.rid].seq
    <3>1. f.rid \in Rids
      BY <1>0, <2>2 DEF PendingOf, Rids
    <3>2. \A d \in Calls : call'[d].pc \in Streaming => call'[d].rec.rid = z \/ call'[d] = call[d]
      BY <1>1 DEF rid
    <3> QED
      BY <1>0, <1>7, <2>1, <2>2, <3>1, <3>2, PendingOther
  <2> QED
    BY <1>0, <2>2, PendingChain DEF SInv
<1> QED
  BY <1>0, <1>7, <1>8, <1>9, <1>10 DEF SInv

\* started is emitted, or the connection breaks.
LEMMA StartedSInv ==
    ASSUME LedgerInv, SInv, NEW c \in Calls, DeliverStarted(c) PROVE SInv'
<1>1. CASE ~At(c, "opening", "saved")
  BY <1>1, OpenFailedQuiet DEF DeliverStarted
<1>2. CASE At(c, "opening", "saved")
  <2>1. PICK k : k = call[c].key
    OBVIOUS
  <2>2. PICK z : z = rid(c)
    OBVIOUS
  <2>3. /\ call[c].pc = "opening" /\ call[c].flushed = "saved" /\ call' = Goto(c, "generating")
        /\ UNCHANGED <<memory, file, fresh>>
    BY <1>2 DEF DeliverStarted, Opened, At
  <2>4. PICK ok \in BOOLEAN :
           /\ live' = [live EXCEPT ![z] = [by |-> c, ev |-> k, seq |-> 0, broken |-> ~ok]]
           /\ frames' = frames \cup {f \in {Frame(k, z, 0, "started", 0)} : ok}
    BY <1>2, <2>1, <2>2 DEF DeliverStarted
  <2>5. PICK g : g = Frame(k, z, 0, "started", 0)
    OBVIOUS
  <2>6. call[c].pc \in Streaming /\ call[c].pc \in Producing
    BY <2>3 DEF Streaming, Producing
  <2>7. k \in Events /\ z \in 1..fresh /\ fresh \in Nat /\ fresh <= MaxFresh /\ MaxFresh \in Nat /\ MaxChunks \in Nat
    BY <2>1, <2>2, <2>6, HeldOrGone, RunRid, LedgerAssumption DEF LedgerInv, TypeOK, SInv
  <2>8. z \in Rids
    BY <2>7 DEF Rids
  <2>9. /\ frames' = frames \/ frames' = frames \cup {g}
        /\ FrameOf(g) /\ g.rid = z /\ g.ev = k /\ g.kind = "started"
    BY <2>4, <2>5, <2>7 DEF Frame, FrameOf
  <2>10. /\ live'[z] = [by |-> c, ev |-> k, seq |-> 0, broken |-> ~ok]
         /\ \A q \in Rids : q # z => live'[q] = live[q]
    BY <2>4, <2>8 DEF SInv, StreamTypeOK
  <2>11. /\ \A f \in frames : f.rid # z
         /\ call[c].rec.n = 0
    BY <2>2, <2>3 DEF SInv, ProducerInv, ProducerOf
  <2>12. StreamTypeOK'
    <3>1. live' \in [Rids -> [by : Calls \cup {NoCall}, ev : Events \cup {NoCall},
                              seq : 0..MaxChunks, broken : BOOLEAN]]
      BY <2>4, <2>7, <2>8 DEF SInv, StreamTypeOK
    <3>2. g.rid \in Rids /\ g.seq \in 0..(MaxChunks + 1)
      BY <2>5, <2>7, <2>8 DEF Frame
    <3> QED
      BY <2>7, <2>9, <3>1, <3>2 DEF SInv, StreamTypeOK
  <2>13. EmitterOf(c)'
    <3>1. call'[c].pc = "generating" /\ call'[c].key = k /\ call'[c].rec = call[c].rec
      BY <2>1, <2>3, GotoForm DEF LedgerInv
    <3>2. rid(c)' = z
      BY <2>2, <3>1 DEF rid
    <3> QED
      BY <2>9, <2>10, <2>11, <3>1, <3>2 DEF EmitterOf
  <2> QED
    BY <2>1, <2>2, <2>3, <2>9, <2>10, <2>12, <2>13, GoesOnSInv
<1> QED
  BY <1>1, <1>2

\* What emitting a fragment does.
LEMMA EmitForm ==
    ASSUME StreamTypeOK, NEW z \in Rids, EmitChunk(z), live[z].seq < MaxChunks, live[z].ev \in Events,
           NEW g, g = Frame(live[z].ev, z, live[z].seq + 1, "chunk", live[z].seq + 1)
    PROVE  /\ \A q \in Rids : q # z => live'[q] = live[q]
           /\ live'[z].by = live[z].by /\ live'[z].ev = live[z].ev
           /\ \/ frames' = frames \cup {g} /\ live'[z].seq = live[z].seq + 1 /\ ~live'[z].broken
              \/ frames' = frames /\ live'[z].seq = live[z].seq /\ live'[z].broken
           /\ StreamTypeOK'
           /\ g.rid = z /\ g.ev = live[z].ev /\ g.seq = live[z].seq + 1 /\ g.body = g.seq /\ g.kind = "chunk"
<1> DEFINE Run == [by : Calls \cup {NoCall}, ev : Events \cup {NoCall},
                   seq : 0..MaxChunks, broken : BOOLEAN]
<1>0. live \in [Rids -> Run] /\ MaxChunks \in Nat
  BY LedgerAssumption DEF StreamTypeOK
<1>1. PICK ok \in BOOLEAN :
         /\ live' = [live EXCEPT ![z].broken = ~ok, ![z].seq = IF ok THEN @ + 1 ELSE @]
         /\ frames' = frames \cup
               {f \in {Frame(live[z].ev, z, live[z].seq + 1, "chunk", live[z].seq + 1)} : ok}
  BY DEF EmitChunk
<1>2. live[z] \in Run /\ live[z].seq \in Nat /\ live[z].seq + 1 \in 0..MaxChunks
  BY <1>0
<1>3. /\ \A q \in Rids : q # z => live'[q] = live[q]
      /\ live'[z].by = live[z].by /\ live'[z].ev = live[z].ev /\ live'[z].broken = ~ok
      /\ live'[z].seq = IF ok THEN live[z].seq + 1 ELSE live[z].seq
  BY <1>0, <1>1
<1>4. live' \in [Rids -> Run]
  <2>1. CASE ok
    BY <1>0, <1>1, <1>2, <2>1
  <2>2. CASE ~ok
    BY <1>0, <1>1, <1>2, <2>2
  <2> QED
    BY <2>1, <2>2
<1>5. frames' = IF ok THEN frames \cup {g} ELSE frames
  BY <1>1
<1>6. g.rid = z /\ g.ev = live[z].ev /\ g.seq = live[z].seq + 1 /\ g.body = g.seq /\ g.kind = "chunk"
  BY DEF Frame
<1>7. StreamTypeOK'
  <2>1. g.seq \in 0..(MaxChunks + 1)
    BY <1>0, <1>2, <1>6
  <2> QED
    BY <1>4, <1>5, <1>6, <2>1 DEF StreamTypeOK
<1> QED
  BY <1>3, <1>5, <1>6, <1>7

\* append has returned, and its fragment is emitted, or the connection breaks.
LEMMA ChunkSInv ==
    ASSUME LedgerInv, SInv, NEW c \in Calls, DeliverChunk(c) PROVE SInv'
<1>1. PICK k : k = call[c].key
  OBVIOUS
<1>2. PICK z : z = rid(c)
  OBVIOUS
<1>3. /\ call[c].pc = "appending" /\ call[c].flushed = "saved" /\ call' = Goto(c, "generating")
      /\ UNCHANGED <<memory, file, fresh>> /\ EmitChunk(z)
  BY <1>2 DEF DeliverChunk, Appended, At
<1>4. call[c].pc \in Streaming /\ call[c].pc \in Producing /\ call[c].pc \in Emitting
  BY <1>3 DEF Streaming, Producing, Emitting
<1>5. /\ k \in Events /\ z \in 1..fresh /\ fresh \in Nat /\ fresh <= MaxFresh
      /\ MaxFresh \in Nat /\ MaxChunks \in Nat /\ call[c].rec.n \in Nat
  BY <1>1, <1>2, <1>4, HeldOrGone, RunRid, LedgerAssumption DEF LedgerInv, TypeOK, SInv, Rec
<1>6. z \in Rids
  BY <1>5 DEF Rids
<1>7. ProducerOf(c) /\ EmitterOf(c)
  BY <1>4 DEF SInv, ProducerInv, ProducerOf
<1>8. /\ live[z].ev = k /\ live[z].by = c /\ ~live[z].broken /\ call[c].rec.n = live[z].seq + 1
  BY <1>1, <1>2, <1>3, <1>7 DEF EmitterOf
<1>9. live[z].seq \in Nat /\ live[z].seq < MaxChunks
  <2>1. live[z].seq \in Nat
    BY <1>6 DEF SInv, StreamTypeOK
  <2>2. call[c].rec.n <= MaxChunks
    BY <1>4, RunRecords DEF VersionOf
  <2> QED
    BY <1>5, <1>8, <2>1, <2>2
<1>10. PICK g : g = Frame(k, z, live[z].seq + 1, "chunk", live[z].seq + 1)
  OBVIOUS
<1>11. /\ \A q \in Rids : q # z => live'[q] = live[q]
       /\ live'[z].by = live[z].by /\ live'[z].ev = live[z].ev
       /\ \/ frames' = frames \cup {g} /\ live'[z].seq = live[z].seq + 1 /\ ~live'[z].broken
          \/ frames' = frames /\ live'[z].seq = live[z].seq /\ live'[z].broken
       /\ StreamTypeOK'
       /\ g.rid = z /\ g.ev = k /\ g.seq = live[z].seq + 1 /\ g.body = g.seq /\ g.kind = "chunk"
  BY <1>3, <1>5, <1>6, <1>8, <1>9, <1>10, EmitForm DEF SInv
<1>12. FrameOf(g)
  BY <1>5, <1>9, <1>10, <1>11 DEF FrameOf
<1>13. \A j \in Keys : \A x \in Filed(j) : x.rid = z => g.seq <= x.n
  <2> SUFFICES ASSUME NEW j \in Keys, NEW x \in Filed(j), x.rid = z PROVE g.seq <= x.n
    OBVIOUS
  <2>1. x.n >= call[c].rec.n
    BY <1>2, <1>3, <1>7 DEF ProducerOf, At
  <2>2. x.n \in Nat
    BY VersionTypes DEF LedgerInv
  <2> QED
    BY <1>5, <1>8, <1>9, <1>11, <2>1, <2>2
<1>14. EmitterOf(c)'
  <2>1. call'[c].pc = "generating" /\ call'[c].key = k /\ call'[c].rec = call[c].rec
    BY <1>1, <1>3, GotoForm DEF LedgerInv
  <2>2. rid(c)' = z
    BY <1>2, <2>1 DEF rid
  <2>3. \A i \in 1..live'[z].seq : Frame(k, z, i, "chunk", i) \in frames'
    <3>1. \A i \in 1..live[z].seq : Frame(k, z, i, "chunk", i) \in frames
      BY <1>1, <1>2, <1>7 DEF EmitterOf
    <3>2. \A i \in 1..(live[z].seq + 1) : i \in 1..live[z].seq \/ i = live[z].seq + 1
      BY <1>9
    <3> QED
      BY <1>10, <1>11, <3>1, <3>2
  <2>4. \A f \in frames' : f.kind = "chunk" /\ f.rid = z => f.seq <= live'[z].seq
    <3>1. \A f \in frames : f.kind = "chunk" /\ f.rid = z => f.seq <= live[z].seq /\ f.seq \in Nat
      BY <1>2, <1>5, <1>7 DEF EmitterOf, SInv, FramesInv, FrameOf
    <3> QED
      BY <1>9, <1>11, <3>1
  <2>5. ~live'[z].broken => live'[z].seq = call[c].rec.n
    BY <1>8, <1>11
  <2> QED
    BY <1>8, <1>11, <2>1, <2>2, <2>3, <2>4, <2>5 DEF EmitterOf
<1> QED
  BY <1>1, <1>2, <1>3, <1>11, <1>12, <1>13, <1>14, GoesOnSInv

(***************************************************************************)
(* Steps of the store.  g is the flush that settles, if one does; what is  *)
(* then in the map, the file and the snapshot has the fragment of g.       *)
(***************************************************************************)
\* What the store may still bring back has the fragment that g wrote.
Written(g) ==
    \A j \in Keys : \A x \in Filed(j)' : x.rid = g.rid => x.n > live[g.rid].seq

\* What the settlement of g tells the calls.
Told(g) ==
    \A d \in Calls :
        /\ call'[d].pc = call[d].pc /\ call'[d].key = call[d].key /\ call'[d].rec = call[d].rec
        /\ \/ call'[d].flushed = call[d].flushed
           \/ /\ g.by = d /\ g.at = call[d].pc /\ g.rid = rid(d)
              /\ call'[d].flushed = "saved" /\ g.at = "appending" => Written(g)

\* The flushes that stay, other than g.
Staying(g, f) ==
    f.at = "appending" => PendingOf(f) /\ (g.at = "appending" => f.rid # g.rid)

\* The chain without g.
Remains(g) ==
    /\ Staying(g, saving')
    /\ saving'.at = "appending" =>
          \A k \in Keys : data'[k].rid = saving'.rid => data'[k].n > live[saving'.rid].seq
    /\ \A i \in 1..Len(queue') :
          /\ Staying(g, queue'[i])
          /\ queue'[i].at = "appending" =>
                /\ saving'.at = "appending" => saving'.rid # queue'[i].rid
                /\ \A j \in 1..Len(queue') :
                      queue'[j].at = "appending" /\ queue'[j].rid = queue'[i].rid => i = j

\* The snapshot and the file are the map's, the file's or the snapshot's.
Moved ==
    /\ UNCHANGED <<processed, fresh>> /\ SnapshotInv'
    /\ \/ disk' = disk \/ disk' = data \/ disk' = processed
    /\ \/ data' = disk \/ data' = data \/ data' = processed

\* A step of the store brings no record.
LEMMA MovedVersions ==
    ASSUME Moved, \A d \in Calls : call'[d].key = call[d].key /\ call'[d].rec = call[d].rec
    PROVE  /\ \A j \in Keys : Versions(j)' \subseteq Versions(j) /\ Filed(j)' \subseteq Filed(j)
           /\ SInv => OldInv'
<1>1. ASSUME NEW j \in Keys PROVE Filed(j)' \subseteq Filed(j)
  BY DEF Moved, Filed
<1>2. ASSUME NEW j \in Keys PROVE OfCalls(j)' \subseteq OfCalls(j)
  BY DEF OfCalls
<1>3. SInv => OldInv'
  BY DEF Moved, SInv, OldInv
<1> QED
  BY <1>1, <1>2, <1>3 DEF Versions

\* The calls and the flushes after a step that emits at most for z.
LEMMA StoreRuns ==
    ASSUME LedgerInv, SInv, NEW g, Moved, Told(g), Remains(g), NEW z, Only(z),
           \A q \in Rids : q # z => live'[q] = live[q],
           \/ z = 0
           \/ /\ g.at = "appending" /\ g.rid = z
              /\ \A d \in Calls : call[d].pc \in Streaming => rid(d) # z
    PROVE  ProducerInv' /\ PendingInv'
<1>0. /\ TypeOK /\ fresh \in Nat /\ fresh' = fresh /\ fresh <= fresh
      /\ fresh <= MaxFresh /\ MaxFresh \in Nat /\ call \in [Calls -> CallType]
      /\ UNCHANGED <<processed>>
  BY CallTyped, LedgerAssumption DEF LedgerInv, TypeOK, SInv, Moved
<1>1. ASSUME NEW d \in Calls PROVE ProducerOf(d)'
  <2>1. ProducerOf(d) /\ call'[d].pc = call[d].pc /\ call'[d].key = call[d].key /\ call'[d].rec = call[d].rec
    BY DEF SInv, ProducerInv, Told
  <2>2. call[d].pc \in Streaming => rid(d) \in Rids /\ rid(d) # z
    <3>1. call[d].pc \in Streaming => rid(d) \in 1..fresh /\ rid(d) # 0
      BY RunRid
    <3> QED
      BY <1>0, <3>1 DEF Rids
  <2>3. call[d].pc \in Streaming => \A e \in Calls \ {d} : call'[e].rec.rid # rid(d)
    BY <2>1 DEF ProducerOf, Told, rid
  <2>4. \/ call'[d].flushed = call[d].flushed
        \/ call'[d].flushed # "saved" \/ call[d].pc # "appending"
        \/ \A k \in Keys : \A x \in Filed(k)' : x.rid = rid(d) => x.n >= call[d].rec.n
    <3> SUFFICES ASSUME call'[d].flushed = "saved", call[d].pc = "appending",
                        call'[d].flushed # call[d].flushed,
                        NEW k \in Keys, NEW x \in Filed(k)', x.rid = rid(d)
                 PROVE  x.n >= call[d].rec.n
      OBVIOUS
    <3>1. Written(g) /\ g.rid = rid(d)
      BY DEF Told
    <3>2. call[d].rec.n = live[rid(d)].seq + 1
      BY <2>1 DEF ProducerOf, EmitterOf, Emitting
    <3>3. live[rid(d)].seq \in Nat
      <4>1. rid(d) \in Rids
        BY <2>2 DEF Streaming, Producing
      <4> QED
        BY <4>1 DEF SInv, StreamTypeOK
    <3>4. x \in Filed(k) /\ x.n \in Nat
      <4>1. x \in Filed(k)
        BY MovedVersions DEF Told
      <4> QED
        BY <1>0, <4>1, VersionTypes
    <3> QED
      BY <3>1, <3>2, <3>3, <3>4 DEF Written
  <2> QED
    BY <2>1, <2>2, <2>3, <2>4, ProducerKept
<1>2. ASSUME NEW f, f.at = "appending", Staying(g, f)
      PROVE  PendingOf(f)' /\ live'[f.rid].seq = live[f.rid].seq
  <2>1. PendingOf(f) /\ f.rid \in Rids /\ f.rid # 0
    BY <1>0, <1>2 DEF Staying, PendingOf, Rids
  <2>2. f.rid # z
    BY <1>2, <2>1 DEF Staying
  <2>3. Unfinished(f.rid)'
    BY <2>1, <2>2, UnfinishedKept DEF PendingOf
  <2>4. ASSUME NEW d \in Calls, call'[d].pc \in Streaming, call'[d].rec.rid = f.rid
        PROVE  call'[d].pc = call[d].pc /\ call'[d].rec = call[d].rec /\ call'[d].flushed = call[d].flushed
    <3>1. call[d].pc \in Streaming /\ rid(d) = f.rid
      BY <2>4 DEF Told, rid
    <3>2. call[d].pc = "appending"
      BY <2>1, <3>1 DEF PendingOf
    <3> QED
      BY <1>2, <3>1, <3>2 DEF Told, Staying
  <2>5. live'[f.rid] = live[f.rid]
    BY <2>1, <2>2
  <2> QED
    BY <1>0, <2>1, <2>2, <2>3, <2>4, <2>5, PendingKept DEF Only
<1>3. PendingInv'
  <2>1. saving'.at = "appending" =>
           /\ PendingOf(saving)'
           /\ \A k \in Keys : data'[k].rid = saving'.rid => data'[k].n > live'[saving'.rid].seq
    <3> SUFFICES ASSUME saving'.at = "appending"
                 PROVE  /\ PendingOf(saving)'
                        /\ \A k \in Keys : data'[k].rid = saving'.rid => data'[k].n > live'[saving'.rid].seq
      OBVIOUS
    <3>1. PICK f : f = saving'
      OBVIOUS
    <3>2. PendingOf(f)' /\ live'[f.rid].seq = live[f.rid].seq
      BY <1>2, <3>1 DEF Remains
    <3> QED
      BY <3>1, <3>2 DEF Remains, PendingOf, Unfinished, rid
  <2>2. ASSUME NEW i \in 1..Len(queue'), queue'[i].at = "appending" PROVE PendingOf(queue[i])'
    <3>1. PICK f : f = queue'[i]
      OBVIOUS
    <3>2. PendingOf(f)'
      BY <1>2, <2>2, <3>1 DEF Remains
    <3> QED
      BY <3>1, <3>2 DEF PendingOf, Unfinished, rid
  <2> QED
    BY <2>1, <2>2 DEF PendingInv, Remains
<1> QED
  BY <1>1, <1>3 DEF ProducerInv

\* A step of the store that emits nothing.
LEMMA StoreQuiet ==
    ASSUME LedgerInv, SInv, NEW g, Moved, Told(g), Remains(g), UNCHANGED <<live, frames>>
    PROVE  SInv'
<1>0. TypeOK /\ fresh \in Nat /\ fresh' = fresh /\ fresh <= fresh
  BY DEF LedgerInv, TypeOK, Moved
<1>1. /\ \A j \in Keys : Versions(j)' \subseteq Versions(j) /\ Filed(j)' \subseteq Filed(j)
      /\ OldInv'
  BY MovedVersions DEF Told
<1>2. Only(0)
  BY <1>1 DEF Only
<1>3. /\ \A k \in Keys : \A x \in Versions(k)' : x.rid # 0
      /\ \A k \in Keys : \A x \in Filed(k)' : x.rid # 0
  BY <1>0, <1>1, VersionTypes
<1>4. VersionInv' /\ FiledInv'
  BY <1>0, <1>2, <1>3, VersionKept, FiledKept DEF SInv
<1>5. FramesInv'
  <2>1. \A f \in frames' : f.rid # 0
    BY <1>0 DEF SInv, FramesInv, FrameOf
  <2> QED
    BY <1>0, <1>2, <2>1, FramesKept DEF SInv
<1>6. ProducerInv' /\ PendingInv'
  BY <1>2, StoreRuns
<1>7. StreamTypeOK' /\ fresh' <= MaxFresh /\ SnapshotInv'
  BY DEF SInv, StreamTypeOK, Rids, Moved
<1> QED
  BY <1>1, <1>4, <1>5, <1>6, <1>7 DEF SInv

\* The flush of an append settles after its run has gone.
LEMMA StoreLate ==
    ASSUME LedgerInv, SInv, NEW g, Moved, Told(g), Remains(g), Late(g), PendingOf(g),
           Written(g), EmitChunk(g.rid)
    PROVE  SInv'
<1>1. PICK z : z = g.rid
  OBVIOUS
<1>2. PICK k : k = live[z].ev
  OBVIOUS
<1>3. PICK e : e = Frame(k, z, live[z].seq + 1, "chunk", live[z].seq + 1)
  OBVIOUS
<1>4. /\ TypeOK /\ fresh \in Nat /\ fresh' = fresh /\ fresh <= fresh
      /\ fresh <= MaxFresh /\ MaxFresh \in Nat /\ MaxChunks \in Nat
  BY LedgerAssumption DEF LedgerInv, TypeOK, Moved, SInv
<1>5. /\ g.at = "appending" /\ z \in 1..fresh /\ Unfinished(z) /\ k \in Events /\ live[z].seq < MaxChunks
      /\ \A f \in frames : f.rid = z => f.ev = k
      /\ \A j \in Keys : \A x \in Versions(j) : x.rid = z => j = k
      /\ \A d \in Calls : call[d].pc \in Streaming => rid(d) # z
  BY <1>1, <1>2 DEF Late, PendingOf, Unfinished
<1>6. z \in Rids
  BY <1>4, <1>5 DEF Rids
<1>7. live[z].seq \in Nat
  BY <1>6 DEF SInv, StreamTypeOK
<1>8. /\ \A q \in Rids : q # z => live'[q] = live[q]
      /\ frames' = frames \cup {e} \/ frames' = frames
      /\ StreamTypeOK'
      /\ e.rid = z /\ e.ev = k /\ e.seq = live[z].seq + 1 /\ e.body = e.seq /\ e.kind = "chunk"
  BY <1>1, <1>2, <1>3, <1>5, <1>6, EmitForm DEF SInv
<1>9. FrameOf(e)
  BY <1>3, <1>4, <1>5, <1>7, <1>8 DEF FrameOf
<1>10. /\ \A j \in Keys : Versions(j)' \subseteq Versions(j) /\ Filed(j)' \subseteq Filed(j)
       /\ OldInv'
  BY MovedVersions DEF Told
<1>11. \A j \in Keys : \A x \in Filed(j)' : x.rid = z => e.seq <= x.n
  <2> SUFFICES ASSUME NEW j \in Keys, NEW x \in Filed(j)', x.rid = z PROVE e.seq <= x.n
    OBVIOUS
  <2>1. x.n > live[z].seq
    BY <1>1 DEF Written
  <2>2. x.n \in Nat
    BY <1>4, <1>10, VersionTypes
  <2> QED
    BY <1>7, <1>8, <2>1, <2>2
<1>12. Only(z) /\ VersionInv' /\ FiledInv' /\ FramesInv'
  BY <1>4, <1>5, <1>8, <1>9, <1>10, <1>11, EmitFrames
<1>13. ProducerInv' /\ PendingInv'
  BY <1>1, <1>5, <1>8, <1>12, StoreRuns
<1>14. fresh' <= MaxFresh /\ SnapshotInv'
  BY <1>4 DEF Moved
<1> QED
  BY <1>8, <1>10, <1>12, <1>13, <1>14 DEF SInv

\* The flushes behind the first one, when nothing is being saved.
LEMMA TailRemains ==
    ASSUME TypeOK, SInv, queue # << >>, saving = NoFlush
    PROVE  /\ Head(queue) \in Flushes
           /\ Head(queue).at = "appending" => PendingOf(Head(queue))
           /\ \A i \in 1..Len(Tail(queue)) : Staying(Head(queue), Tail(queue)[i])
           /\ \A i \in 1..Len(Tail(queue)) : Tail(queue)[i].at = "appending" =>
                 \A j \in 1..Len(Tail(queue)) :
                    Tail(queue)[j].at = "appending" /\ Tail(queue)[j].rid = Tail(queue)[i].rid => i = j
<1>1. queue \in Seq(Flushes) /\ Len(queue) >= 1
  BY DEF TypeOK
<1>2. Head(queue) = queue[1] /\ 1 \in 1..Len(queue) /\ queue[1] \in Flushes
  BY <1>1
<1>3. \A i \in 1..Len(Tail(queue)) : i \in Nat /\ Tail(queue)[i] = queue[i + 1] /\ i + 1 \in 1..Len(queue) /\ i + 1 # 1
  BY <1>1
<1>4. \A i \in 1..Len(queue) : queue[i].at = "appending" =>
          /\ PendingOf(queue[i])
          /\ \A j \in 1..Len(queue) :
                queue[j].at = "appending" /\ queue[j].rid = queue[i].rid => i = j
  BY DEF SInv, PendingInv
<1>5. \A i \in 1..Len(Tail(queue)) : Staying(Head(queue), Tail(queue)[i])
  BY <1>2, <1>3, <1>4 DEF Staying
<1>6. ASSUME NEW i \in 1..Len(Tail(queue)), NEW j \in 1..Len(Tail(queue)),
             Tail(queue)[i].at = "appending", Tail(queue)[j].at = "appending",
             Tail(queue)[j].rid = Tail(queue)[i].rid
      PROVE  i = j
  <2>1. i + 1 = j + 1
    BY <1>3, <1>4, <1>6
  <2> QED
    BY <1>3, <2>1
<1> QED
  BY <1>2, <1>4, <1>5, <1>6

\* A save starts.
LEMMA StartSaveSInv ==
    ASSUME LedgerInv, SInv, StartSave, UNCHANGED <<live, frames>> PROVE SInv'
<1>1. /\ saving = NoFlush /\ queue # << >> /\ saving' = Head(queue) /\ queue' = Tail(queue)
      /\ data' = processed /\ UNCHANGED <<processed, disk, call, fresh>>
  BY DEF StartSave
<1>2. TypeOK /\ NoFlush.at = "none" /\ Head(queue).at # "none"
  BY <1>1, HeadAndTail DEF LedgerInv, NoFlush, Flush
<1>3. PICK f : f = Head(queue)
  OBVIOUS
<1>4. /\ f.at = "appending" => PendingOf(f)
      /\ \A i \in 1..Len(queue') : Staying(f, queue'[i])
      /\ \A i \in 1..Len(queue') : queue'[i].at = "appending" =>
            \A j \in 1..Len(queue') :
               queue'[j].at = "appending" /\ queue'[j].rid = queue'[i].rid => i = j
  BY <1>1, <1>2, <1>3, TailRemains
<1>5. Moved
  BY <1>1, <1>2 DEF Moved, SnapshotInv
<1>6. Told(NoFlush)
  BY <1>1 DEF Told
<1>7. Remains(NoFlush)
  BY <1>1, <1>2, <1>3, <1>4 DEF Remains, Staying, PendingOf
<1> QED
  BY <1>5, <1>6, <1>7, StoreQuiet

\* A save that ends, well or not, leaves the chain as it was.
LEMMA SavedRemains ==
    ASSUME SInv, saving' = NoFlush, queue' = queue, NEW g, g = saving
    PROVE  Remains(g)
<1>1. saving'.at = "none"
  BY DEF NoFlush, Flush
<1>2. ASSUME NEW i \in 1..Len(queue), queue[i].at = "appending"
      PROVE  /\ Staying(g, queue[i])
             /\ \A j \in 1..Len(queue) :
                   queue[j].at = "appending" /\ queue[j].rid = queue[i].rid => i = j
  BY <1>2 DEF SInv, PendingInv, Staying
<1> QED
  BY <1>1, <1>2 DEF Remains, Staying

\* A save fails.
LEMMA SaveFailedSInv ==
    ASSUME LedgerInv, SInv, SaveFailed, UNCHANGED <<live, frames>> PROVE SInv'
<1>1. PICK g : g = saving
  OBVIOUS
<1>2. saving' = NoFlush /\ queue' = queue /\ data' = disk /\ disk' = disk /\ Settle(g, "failed")
  BY <1>1 DEF SaveFailed
<1>3. /\ Told(g) /\ UNCHANGED <<processed, fresh>>
  BY <1>2, SettleForm DEF Told, rid
<1>4. Moved
  BY <1>2, <1>3 DEF Moved, SnapshotInv
<1>5. Remains(g)
  BY <1>1, <1>2, SavedRemains
<1> QED
  BY <1>3, <1>4, <1>5, StoreQuiet

\* A save ends: the fragment of its flush is in the file.
LEMMA SaveDoneSInv ==
    ASSUME LedgerInv, SInv, SaveDone,
           IF Late(saving) THEN EmitChunk(saving.rid) ELSE UNCHANGED <<live, frames>>
    PROVE  SInv'
<1>1. PICK g : g = saving
  OBVIOUS
<1>2. saving' = NoFlush /\ queue' = queue /\ data' = data /\ disk' = data /\ Settle(g, "saved")
  BY <1>1 DEF SaveDone
<1>3. UNCHANGED <<processed, fresh>>
  BY <1>2 DEF Settle
<1>4. g.at = "appending" => PendingOf(g) /\ Written(g)
  <2> SUFFICES ASSUME g.at = "appending" PROVE PendingOf(g) /\ Written(g)
    OBVIOUS
  <2>1. /\ PendingOf(g)
        /\ \A k \in Keys : data[k].rid = g.rid => data[k].n > live[g.rid].seq
    BY <1>1 DEF SInv, PendingInv
  <2>2. \A k \in Keys : processed[k].rid = g.rid => processed[k].n > live[g.rid].seq
    BY <2>1 DEF PendingOf
  <2>3. \A j \in Keys : \A x \in Filed(j)' : x = processed[j] \/ x = data[j]
    BY <1>2, <1>3 DEF Filed
  <2> QED
    BY <2>1, <2>2, <2>3 DEF Written
<1>5. Told(g)
  BY <1>2, <1>4, SettleForm DEF Told, rid
<1>6. Moved
  BY <1>2, <1>3 DEF Moved, SnapshotInv
<1>7. Remains(g)
  BY <1>1, <1>2, SavedRemains
<1>8. CASE Late(saving)
  <2>1. Late(g) /\ EmitChunk(g.rid)
    BY <1>1, <1>8
  <2>2. g.at = "appending"
    BY <2>1 DEF Late
  <2> QED
    BY <1>4, <1>5, <1>6, <1>7, <2>1, <2>2, StoreLate
<1>9. CASE ~Late(saving)
  BY <1>5, <1>6, <1>7, <1>9, StoreQuiet
<1> QED
  BY <1>8, <1>9

\* A flush finds nothing to write: its fragment is in the file already.
LEMMA FlushCleanSInv ==
    ASSUME LedgerInv, SInv, FlushClean,
           IF Late(Head(queue)) THEN EmitChunk(Head(queue).rid) ELSE UNCHANGED <<live, frames>>
    PROVE  SInv'
<1>1. PICK g : g = Head(queue)
  OBVIOUS
<1>2. /\ saving = NoFlush /\ queue # << >> /\ ~dirty /\ queue' = Tail(queue)
      /\ Settle(g, "saved") /\ UNCHANGED <<saving, data, disk>>
  BY <1>1 DEF FlushClean, file
<1>3. UNCHANGED <<processed, fresh>>
  BY <1>2 DEF Settle
<1>4. /\ TypeOK /\ data = disk /\ NoFlush.at = "none"
      /\ \A k \in Keys :
            \/ processed[k] = disk[k]
            \/ processed[k] = Absent /\ isComplete(disk[k])
  BY <1>2 DEF LedgerInv, DownInv, CleanInv, Handed, SInv, SnapshotInv, NoFlush, Flush
<1>5. /\ g.at = "appending" => PendingOf(g)
      /\ \A i \in 1..Len(queue') : Staying(g, queue'[i])
      /\ \A i \in 1..Len(queue') : queue'[i].at = "appending" =>
            \A j \in 1..Len(queue') :
               queue'[j].at = "appending" /\ queue'[j].rid = queue'[i].rid => i = j
  BY <1>1, <1>2, <1>4, TailRemains
<1>6. g.at = "appending" => Written(g)
  <2> SUFFICES ASSUME g.at = "appending" PROVE Written(g)
    OBVIOUS
  <2>1. \A k \in Keys : processed[k].rid = g.rid => processed[k].n > live[g.rid].seq
    BY <1>5 DEF PendingOf
  <2>2. ASSUME NEW j \in Keys, NEW x \in Filed(j)', x.rid = g.rid
        PROVE  x = processed[j]
    <3>1. x.rid # 0 /\ x \in {processed[j], disk[j]} /\ x \in Versions(j)
      BY <1>2, <1>3, <1>4, <2>2 DEF Filed, Versions
    <3>2. ~isComplete(x)
      BY <1>5, <2>2, <3>1 DEF PendingOf, Unfinished
    <3> QED
      BY <1>4, <3>1, <3>2
  <2> QED
    BY <2>1, <2>2 DEF Written
<1>7. Told(g)
  BY <1>2, <1>6, SettleForm DEF Told, rid
<1>8. Moved
  BY <1>2, <1>3, <1>4 DEF Moved, SnapshotInv
<1>9. Remains(g)
  BY <1>2, <1>4, <1>5 DEF Remains, Staying
<1>10. CASE Late(Head(queue))
  <2>1. Late(g) /\ EmitChunk(g.rid)
    BY <1>1, <1>10
  <2>2. g.at = "appending"
    BY <2>1 DEF Late
  <2> QED
    BY <1>5, <1>6, <1>7, <1>8, <1>9, <2>1, <2>2, StoreLate
<1>11. CASE ~Late(Head(queue))
  BY <1>7, <1>8, <1>9, <1>11, StoreQuiet
<1> QED
  BY <1>10, <1>11

(***************************************************************************)
(* The end of a deliver.                                                   *)
(***************************************************************************)
\* What the end of a deliver may emit of the response of its record r.
Closing(k, r, f) ==
    /\ FrameOf(f) /\ f.rid = r.rid /\ f.ev = k
    /\ f.kind \in {"started", "completed", "failed"}
    /\ f.kind = "completed" => isComplete(r) /\ f = Completed(k, r)

\* A deliver that ends with its frames keeps the invariant.
LEMMA ReturnSInv ==
    ASSUME LedgerInv, SInv, NEW c \in Calls, Return(c),
           NEW k, k = call[c].key, NEW r, r = call[c].rec, NEW z, z = r.rid, z # 0,
           frames \subseteq frames', \A f \in frames' : f \in frames \/ Closing(k, r, f),
           \A q \in Rids : /\ live'[q].ev = live[q].ev /\ live'[q].seq = live[q].seq
                           /\ q # z => live'[q] = live[q],
           StreamTypeOK'
    PROVE  SInv'
<1>0. /\ TypeOK /\ fresh \in Nat /\ fresh' = fresh /\ fresh <= fresh
      /\ fresh <= MaxFresh /\ MaxFresh \in Nat /\ MaxChunks \in Nat
      /\ UNCHANGED <<processed, queue, saving, data, disk>>
  <2>1. UNCHANGED <<processed, queue, saving, data, disk, fresh>>
    BY ReturnForm
  <2>2. TypeOK /\ fresh \in Nat /\ fresh <= MaxFresh
    BY DEF LedgerInv, TypeOK, SInv
  <2> QED
    BY <2>1, <2>2, LedgerAssumption
<1>1. /\ \A d \in Calls : call'[d] = call[d] \/ Settled(d)
      /\ call'[c].rec.rid = 0 /\ call'[c].pc = "idle"
      /\ \A d \in Calls \ {c} : call'[d] = call[d]
  BY ReturnForm
<1>2. /\ k \in Events /\ r \in Versions(k) /\ VersionOf(k, r)
      /\ \A j \in Keys : \A y \in Versions(j) : SameAnswer(k, r, j, y)
  <2>1. k \in Events
    BY DEF SInv, ProducerInv, ProducerOf, rid
  <2>2. r \in Versions(k)
    BY <2>1 DEF Versions, OfCalls
  <2> QED
    BY <2>1, <2>2 DEF SInv, VersionInv
<1>3. /\ \A j \in Keys : \A x \in Filed(j)' : x \in Filed(j)
      /\ \A j \in Keys : \A x \in Versions(j)' : x \in Versions(j) /\ x.rid # 0
  BY <1>0, <1>1, QuietVersions DEF Forgotten
<1>4. Only(z)
  BY <1>3 DEF Only, Closing
<1>5. r.n \in Nat
  BY <1>0, <1>2, VersionTypes
<1>6. VersionInv'
  <2>1. ASSUME NEW j \in Keys, NEW x \in Versions(j)', x.rid = z
        PROVE  /\ VersionOf(j, x)'
               /\ \A i \in Keys : \A y \in Versions(i)' : y.rid = z => SameAnswer(j, x, i, y)
    <3>1. /\ x \in Versions(j) /\ VersionOf(j, x) /\ j = k
          /\ isComplete(x) /\ isComplete(r) => x.n = r.n /\ x.ans = r.ans
      BY <1>2, <1>3, <2>1 DEF SInv, VersionInv, SameAnswer
    <3>2. \A f \in frames' : f.rid = z => f.ev = k
      BY <1>2 DEF Closing, VersionOf
    <3>3. Shown(j, x)'
      <4> SUFFICES ASSUME isComplete(x)
                   PROVE  /\ \A i \in 1..x.n : Frame(j, x.rid, i, "chunk", i) \in frames'
                          /\ \A f \in frames' : f.rid = x.rid =>
                                /\ f.kind = "chunk" => f.seq <= x.n
                                /\ f.kind = "completed" => f = Completed(j, x)
        BY DEF Shown, isComplete
      <4>1. /\ \A i \in 1..x.n : Frame(j, x.rid, i, "chunk", i) \in frames
            /\ \A f \in frames : f.rid = x.rid =>
                  /\ f.kind = "chunk" => f.seq <= x.n
                  /\ f.kind = "completed" => f = Completed(j, x)
        BY <3>1 DEF VersionOf, Shown
      <4>2. isComplete(r) => Completed(k, r) = Completed(j, x)
        BY <2>1, <3>1 DEF Completed
      <4> QED
        BY <4>1, <4>2 DEF Closing
    <3>4. VersionOf(j, x)'
      BY <1>0, <2>1, <3>1, <3>2, <3>3 DEF VersionOf
    <3>5. \A i \in Keys : \A y \in Versions(i)' : y.rid = z => SameAnswer(j, x, i, y)
      BY <1>3, <3>1 DEF SInv, VersionInv
    <3> QED
      BY <3>4, <3>5
  <2> QED
    BY <1>0, <1>4, <2>1, VersionKept DEF SInv
<1>7. FiledInv'
  <2>1. ASSUME NEW j \in Keys, NEW x \in Filed(j)', x.rid = z PROVE Keeps(j, x)'
    <3>1. x \in Filed(j) /\ Keeps(j, x)
      BY <1>3 DEF SInv, FiledInv
    <3> QED
      BY <3>1 DEF Keeps, Closing
  <2> QED
    BY <1>4, <2>1, FiledKept DEF SInv
<1>8. OldInv' /\ SnapshotInv'
  BY <1>0 DEF SInv, OldInv, SnapshotInv
<1>9. FramesInv'
  <2>1. ASSUME NEW f \in frames', f.rid = z PROVE FrameOf(f)' /\ f.ev = k
    <3>1. FrameOf(f) /\ f.ev = k
      BY <1>2, <2>1 DEF SInv, FramesInv, Closing, VersionOf
    <3> QED
      BY <1>0, <3>1 DEF FrameOf
  <2>2. ASSUME NEW f \in frames', NEW g \in frames', f.rid = z, g.rid = z, f.kind = "completed"
        PROVE  /\ g.kind = "chunk" => g.seq < f.seq
               /\ g.kind = "completed" => f = g
    <3>1. CASE isComplete(r)
      <4>1. f = Completed(k, r) /\ f.seq = r.n + 1
        BY <1>2, <2>2, <3>1 DEF VersionOf, Shown, Closing, Completed, Frame
      <4>2. g.kind = "completed" => g = Completed(k, r)
        BY <1>2, <2>2, <3>1 DEF VersionOf, Shown, Closing
      <4>3. g.kind = "chunk" => g.seq <= r.n /\ g.seq \in Nat
        BY <1>0, <1>2, <2>2, <3>1 DEF VersionOf, Shown, Closing, SInv, FramesInv, FrameOf
      <4> QED
        BY <1>5, <4>1, <4>2, <4>3
    <3>2. CASE ~isComplete(r)
      <4>1. f \in frames /\ (g.kind \in {"chunk", "completed"} => g \in frames)
        BY <2>2, <3>2 DEF Closing
      <4> QED
        BY <2>2, <4>1 DEF SInv, FramesInv
    <3> QED
      BY <3>1, <3>2
  <2> QED
    BY <1>0, <1>4, <2>1, <2>2, FramesKept DEF SInv
<1>10. ProducerInv'
  <2> SUFFICES ASSUME NEW d \in Calls PROVE ProducerOf(d)'
    BY DEF ProducerInv
  <2>1. CASE d # c
    <3>1. ProducerOf(d) /\ call'[d] = call[d]
      BY <1>1, <2>1 DEF SInv, ProducerInv
    <3>2. call[d].pc \in Streaming => rid(d) # 0 /\ rid(d) \in Rids
      <4>1. call[d].pc \in Streaming => rid(d) \in 1..fresh
        BY RunRid
      <4> QED
        BY <1>0, <4>1 DEF Rids
    <3>3. call[d].pc \in Streaming => rid(d) # z /\ \A e \in Calls \ {d} : call'[e].rec.rid # rid(d)
      BY <1>1, <2>1, <3>1, <3>2 DEF ProducerOf, rid
    <3> QED
      BY <1>4, <3>1, <3>2, <3>3, ProducerKept
  <2>2. CASE d = c
    BY <1>1, <2>2, ProducerEnded DEF Streaming, Producing
  <2> QED
    BY <2>1, <2>2
<1>11. PendingInv'
  <2>1. ASSUME NEW f \in Flushes, PendingOf(f)
        PROVE  PendingOf(f)' /\ live'[f.rid].seq = live[f.rid].seq
    <3>1. f.rid \in Rids
      BY <1>0, <2>1 DEF PendingOf, Rids
    <3>2. f.rid = z => ~isComplete(r) /\ k = live[f.rid].ev
      BY <1>2, <2>1 DEF PendingOf, Unfinished
    <3>3. Unfinished(f.rid)'
      BY <1>3, <2>1, <3>2 DEF PendingOf, Unfinished, Closing
    <3>4. \A g \in frames' : g.rid = f.rid => g \in frames \/ g.ev = live[f.rid].ev
      BY <3>2 DEF Closing
    <3>5. \A d \in Calls : call'[d].pc \in Streaming => call'[d] = call[d]
      BY <1>1 DEF Streaming, Producing
    <3> QED
      BY <1>0, <1>3, <2>1, <3>1, <3>3, <3>4, <3>5, PendingKept
  <2> QED
    BY <1>0, <2>1, PendingChain DEF SInv
<1> QED
  BY <1>0, <1>6, <1>7, <1>8, <1>9, <1>10, <1>11 DEF SInv

\* Whom a deliver belongs to does not matter to the rest of its run.
LEMMA LeaveLive ==
    ASSUME StreamTypeOK, NEW z, live' = [live EXCEPT ![z].by = NoCall] \/ live' = live,
           \A f \in frames' :
              \/ f \in frames
              \/ /\ f.ev \in Events /\ f.rid \in Rids /\ f.seq \in 0..(MaxChunks + 1)
                 /\ f.kind \in {"started", "chunk", "completed", "failed"}
    PROVE  /\ StreamTypeOK'
           /\ \A q \in Rids : /\ live'[q].ev = live[q].ev /\ live'[q].seq = live[q].seq
                              /\ q # z => live'[q] = live[q]
<1> DEFINE Run == [by : Calls \cup {NoCall}, ev : Events \cup {NoCall},
                   seq : 0..MaxChunks, broken : BOOLEAN]
<1>1. live \in [Rids -> Run]
  BY DEF StreamTypeOK
<1>2. live' \in [Rids -> Run]
  BY <1>1
<1>3. \A q \in Rids : /\ live'[q].ev = live[q].ev /\ live'[q].seq = live[q].seq
                      /\ q # z => live'[q] = live[q]
  BY <1>1
<1>4. StreamTypeOK'
  BY <1>2 DEF StreamTypeOK
<1> QED
  BY <1>3, <1>4

\* failed is emitted, or the connection broke.
LEMMA FailedSInv ==
    ASSUME LedgerInv, SInv, NEW c \in Calls, DeliverFailed(c) PROVE SInv'
<1>1. CASE ~isLive(c)
  BY <1>1, SilentQuiet DEF DeliverFailed
<1>2. CASE isLive(c)
  <2>1. PICK k : k = call[c].key
    OBVIOUS
  <2>2. PICK r : r = call[c].rec
    OBVIOUS
  <2>3. PICK z : z = r.rid
    OBVIOUS
  <2>4. PICK e : e = Frame(k, z, live[z].seq + 1, "failed", 0)
    OBVIOUS
  <2>5. /\ Return(c) /\ live' = [live EXCEPT ![z].by = NoCall]
        /\ frames' = frames \/ frames' = frames \cup {e}
    BY <1>2, <2>1, <2>2, <2>3, <2>4 DEF DeliverFailed, rid
  <2>6. z \in Rids /\ z # 0 /\ z = rid(c)
    BY <1>2, <2>2, <2>3 DEF isLive, rid, Rids
  <2>7. k \in Events /\ z \in 1..fresh
    <3>1. k \in Events
      BY <2>1, <2>6 DEF SInv, ProducerInv, ProducerOf
    <3>2. z <= fresh
      BY <2>6, OldRids
    <3>3. fresh \in Nat /\ MaxFresh \in Nat
      BY LedgerAssumption DEF LedgerInv, TypeOK
    <3> QED
      BY <2>6, <3>1, <3>2, <3>3 DEF Rids
  <2>8. MaxChunks \in Nat /\ live[z].seq \in 0..MaxChunks
    BY <2>6, LedgerAssumption DEF SInv, StreamTypeOK
  <2>9. e.ev = k /\ e.rid = z /\ e.seq = live[z].seq + 1 /\ e.kind = "failed" /\ e.seq \in 0..(MaxChunks + 1)
    BY <2>4, <2>8 DEF Frame
  <2>10. FrameOf(e)
    BY <2>4, <2>7, <2>9 DEF FrameOf, Frame
  <2>11. Closing(k, r, e)
    BY <2>3, <2>9, <2>10 DEF Closing
  <2>12. /\ StreamTypeOK'
         /\ \A q \in Rids : /\ live'[q].ev = live[q].ev /\ live'[q].seq = live[q].seq
                            /\ q # z => live'[q] = live[q]
    <3>1. StreamTypeOK /\ z \in Rids
      BY <2>6 DEF SInv
    <3>2. live' = [live EXCEPT ![z].by = NoCall] \/ live' = live
      BY <2>5
    <3>3. \A f \in frames' :
             \/ f \in frames
             \/ /\ f.ev \in Events /\ f.rid \in Rids /\ f.seq \in 0..(MaxChunks + 1)
                /\ f.kind \in {"started", "chunk", "completed", "failed"}
      BY <2>5, <2>6, <2>7, <2>9
    <3> QED
      BY <3>1, <3>2, <3>3, LeaveLive
  <2>13. frames \subseteq frames' /\ \A f \in frames' : f \in frames \/ Closing(k, r, f)
    BY <2>5, <2>11
  <2> QED
    BY <2>1, <2>2, <2>3, <2>5, <2>6, <2>12, <2>13, ReturnSInv
<1> QED
  BY <1>1, <1>2

\* completed is emitted, after the fragments again when the answer is
\* replayed: those are the frames that were emitted before.
LEMMA CompletedSInv ==
    ASSUME LedgerInv, SInv, NEW c \in Calls, DeliverCompleted(c) PROVE SInv'
<1>1. PICK k : k = call[c].key
  OBVIOUS
<1>2. PICK r : r = call[c].rec
  OBVIOUS
<1>3. PICK z : z = r.rid
  OBVIOUS
<1>4. /\ call[c].pc = "ok" /\ Return(c)
      /\ live' = [live EXCEPT ![z].by = NoCall] \/ live' = live
  BY <1>2, <1>3 DEF DeliverCompleted
<1>5. \E cut \in 0..(r.n + 2) :
         frames' = frames \cup {f \in (IF isLive(c) THEN {Completed(k, r)} ELSE Replay(k, r)) : f.seq < cut}
  BY <1>1, <1>2 DEF DeliverCompleted
<1>6. /\ isComplete(r) /\ z # 0 /\ z = rid(c) /\ k \in Events
  BY <1>1, <1>2, <1>3, <1>4 DEF SInv, ProducerInv, ProducerOf, rid
<1>7. r \in Versions(k)
  BY <1>1, <1>2, <1>3, <1>6 DEF Versions, OfCalls
<1>8. VersionOf(k, r) /\ r.n \in Nat /\ z \in Nat /\ fresh \in Nat /\ fresh <= MaxFresh
      /\ MaxFresh \in Nat /\ MaxChunks \in Nat
  <2>1. k \in Keys
    BY <1>6
  <2>2. VersionOf(k, r)
    BY <1>7, <2>1 DEF SInv, VersionInv
  <2>3. TypeOK /\ fresh \in Nat
    BY DEF LedgerInv, TypeOK
  <2>4. r.n \in Nat /\ z \in Nat
    BY <1>3, <1>7, <2>1, <2>3, VersionTypes
  <2>5. fresh <= MaxFresh
    BY DEF SInv
  <2>6. MaxFresh \in Nat /\ MaxChunks \in Nat
    BY LedgerAssumption
  <2> QED
    BY <2>2, <2>3, <2>4, <2>5, <2>6
<1>9. z \in 1..fresh /\ z \in Rids /\ r.n \in 0..MaxChunks
  BY <1>3, <1>6, <1>8 DEF VersionOf, Rids
<1>10. \A i \in 1..r.n : Frame(k, z, i, "chunk", i) \in frames
  BY <1>3, <1>6, <1>8 DEF VersionOf, Shown
<1>11. PICK s : s = Frame(k, z, 0, "started", 0)
  OBVIOUS
<1>12. frames \subseteq frames' /\ \A f \in frames' : f \in frames \/ f = s \/ f = Completed(k, r)
  BY <1>3, <1>5, <1>10, <1>11 DEF Replay
<1>13. s.ev = k /\ s.rid = z /\ s.seq = 0 /\ s.kind = "started" /\ s.body = 0 /\ FrameOf(s)
  BY <1>6, <1>8, <1>9, <1>11 DEF Frame, FrameOf
<1>14. PICK e : e = Completed(k, r)
  OBVIOUS
<1>15. /\ e.ev = k /\ e.rid = z /\ e.seq = r.n + 1 /\ e.kind = "completed" /\ e.body = r.ans
       /\ e.seq \in 0..(MaxChunks + 1) /\ e.seq >= 1
  BY <1>3, <1>8, <1>9, <1>14 DEF Completed, Frame
<1>16. FrameOf(e)
  BY <1>3, <1>6, <1>9, <1>14, <1>15 DEF FrameOf, Completed
<1>17. Closing(k, r, s) /\ Closing(k, r, e)
  BY <1>3, <1>6, <1>13, <1>14, <1>15, <1>16 DEF Closing
<1>18. /\ StreamTypeOK'
       /\ \A q \in Rids : /\ live'[q].ev = live[q].ev /\ live'[q].seq = live[q].seq
                          /\ q # z => live'[q] = live[q]
  <2>1. s.seq \in 0..(MaxChunks + 1)
    BY <1>8, <1>13
  <2> QED
    BY <1>4, <1>6, <1>9, <1>12, <1>13, <1>14, <1>15, <2>1, LeaveLive DEF SInv
<1>19. \A f \in frames' : f \in frames \/ Closing(k, r, f)
  BY <1>12, <1>14, <1>17
<1> QED
  BY <1>1, <1>2, <1>3, <1>4, <1>6, <1>12, <1>18, <1>19, ReturnSInv

(***************************************************************************)
(* The theorems.                                                           *)
(***************************************************************************)
\* deliver only does what the ledger does.
LEMMA StreamIsLedger == StreamNext => Next
<1> SUFFICES ASSUME StreamNext PROVE Next
  OBVIOUS
<1>1. ASSUME NEW c \in Calls, DeliverStep(c)
      PROVE  \/ Continue(c) \/ Expire(c)
             \/ append(c) \/ Answer(c) \/ ProviderFails(c)
             \/ \E k \in Events : StreamCall(c, k)
  BY <1>1 DEF DeliverStep, DeliverStarted, DeliverChunk, Respond, DeliverFailed, DeliverCompleted,
              Continue, Expire
<1>2. CASE \E c \in Calls : DeliverStep(c)
  BY <1>1, <1>2 DEF Next
<1>3. CASE DeliverSettled
  BY <1>3 DEF DeliverSettled, StoreStep, Next
<1> QED
  BY <1>2, <1>3 DEF StreamNext, DeliverCrash, Next

\* Every step keeps the frames and what they depend on.
LEMMA NextSInv == ASSUME LedgerInv, SInv, [StreamNext]_streamVars PROVE SInv'
<1>1. CASE UNCHANGED streamVars
  <2>1. UNCHANGED <<up, processed, dirty, queue, saving, data, disk, torn, lease, call, fresh, served>>
        /\ UNCHANGED <<live, frames>>
    BY <1>1 DEF streamVars, vars, memory, file
  <2> QED
    BY <2>1, Quiet DEF Forgotten
<1>2. CASE DeliverSettled
  BY <1>2, FlushCleanSInv, SaveDoneSInv, StartSaveSInv, SaveFailedSInv DEF DeliverSettled
<1>3. CASE DeliverCrash
  BY <1>3, CrashSInv
<1>4. CASE (load \/ persist) /\ UNCHANGED <<live, frames>>
  BY <1>4, LoadSInv, SilentQuiet
<1>5. ASSUME NEW c \in Calls, DeliverStep(c) PROVE SInv'
  <2>1. CASE DeliverStarted(c) \/ DeliverChunk(c) \/ Respond(c) \/ DeliverFailed(c) \/ DeliverCompleted(c)
    BY <2>1, StartedSInv, ChunkSInv, RespondSInv, FailedSInv, CompletedSInv
  <2>2. CASE (Labelled(c) \/ Sealed(c) \/ Undone(c)) /\ UNCHANGED <<live, frames>>
    BY <2>2, EndQuiet
  <2>3. CASE (FlushFailed(c) \/ LeaseTimeout(c) \/ ProviderFails(c)) /\ UNCHANGED <<live, frames>>
    BY <2>3, AbandonQuiet DEF FlushFailed, LeaseTimeout, ProviderFails, At
  <2>4. ASSUME NEW k \in Events, StreamCall(c, k), UNCHANGED <<live, frames>> PROVE SInv'
    BY <2>4, JoinQuiet, BeginSInv DEF StreamCall
  <2> QED
    BY <1>5, <2>1, <2>2, <2>3, <2>4 DEF DeliverStep
<1> QED
  BY <1>1, <1>2, <1>3, <1>4, <1>5 DEF StreamNext

\* Nothing is emitted at start, and what the file has is of the old format.
LEMMA InitSInv == ASSUME StreamInit PROVE SInv
<1>0. /\ MaxFresh \in Nat /\ MaxChunks \in Nat /\ fresh = 0 /\ frames = {}
      /\ live = [r \in Rids |-> NotLive] /\ saving = NoFlush /\ queue = << >> /\ data = disk
      /\ \A c \in Calls : call[c] = Idle
      /\ \A k \in Keys : processed[k] = Absent
  BY LedgerAssumption DEF StreamInit, Init, Empty
<1>1. \A k \in Keys : disk[k].rid = 0 /\ disk[k].n = 0
  BY DEF StreamInit, Init, Absent
<1>2. \A c \in Calls : call[c].rec.rid = 0 /\ call[c].pc = "idle"
  BY <1>0 DEF Idle, Absent
<1>3. \A k \in Keys : processed[k].rid = 0 /\ processed[k].n = 0
  BY <1>0 DEF Absent
<1>4. \A k \in Keys : Filed(k) = {} /\ OfCalls(k) = {}
  BY <1>0, <1>1, <1>2, <1>3 DEF Filed, OfCalls
<1>5. \A k \in Keys : Versions(k) = {}
  BY <1>4 DEF Versions
<1>6. StreamTypeOK /\ fresh <= MaxFresh
  BY <1>0 DEF StreamTypeOK, NotLive
<1>7. VersionInv /\ FiledInv /\ OldInv /\ SnapshotInv /\ FramesInv
  BY <1>0, <1>1, <1>3, <1>4, <1>5 DEF VersionInv, FiledInv, OldInv, SnapshotInv, FramesInv
<1>8. ProducerInv
  BY <1>2 DEF ProducerInv, ProducerOf, rid, Streaming, Producing, Emitting, At
<1>9. PendingInv
  BY <1>0 DEF PendingInv, NoFlush, Flush
<1> QED
  BY <1>6, <1>7, <1>8, <1>9 DEF SInv

\* A step of deliver is a step of the ledger: what every step of the ledger
\* keeps is kept.
LEMMA StreamKept == ASSUME LedgerInv, [StreamNext]_streamVars PROVE Kept
<1>1. [Next]_vars
  BY StreamIsLedger DEF streamVars
<1> QED
  BY <1>1, NextKept

\* What holds at start.
LEMMA StreamStart == StreamInit => IInv /\ SInv
BY InitBase, InitIInv, InitSInv DEF StreamInit, Base

\* Every reachable state of deliver has both invariants, whatever the store
\* does.
LEMMA AlwaysSInv == StreamSpec => [](LedgerInv /\ SInv)
<1>1. StreamInit => LedgerInv /\ SInv
  BY StreamStart DEF IInv
<1>2. LedgerInv /\ SInv /\ [StreamNext]_streamVars => LedgerInv' /\ SInv'
  BY StreamKept, NextSInv DEF Kept
<1> QED
  BY <1>1, <1>2, PTL DEF StreamSpec

\* chat-response-stream.mjs, deliver: with the frames it emits the stream does
\* nothing the ledger does not do, so all that is said of the ledger is true
\* under it.
THEOREM StreamImplementsLedger == StreamSpec => Spec
<1>1. StreamInit => Init
  BY DEF StreamInit
<1>2. [StreamNext]_streamVars => [Next]_vars
  BY StreamIsLedger DEF streamVars
<1> QED
  BY <1>1, <1>2, PTL DEF StreamSpec, Spec

\* Every variable of deliver keeps its type: a generation never emits more
\* fragments than it appended, under a responseId that was drawn.
THEOREM StreamTyped == StreamSpec => []StreamTypeOK
<1>1. SInv => StreamTypeOK
  BY DEF SInv
<1> QED
  BY <1>1, AlwaysSInv, PTL

\* chat-response-stream.mjs: two frames of a response with the same sequence
\* are the same frame, whether they are emitted live, again after a
\* retransmission or a restart, or by a producer whose lease has run out.
THEOREM FramesAgreeAlways == StreamSpec => []FramesAgree
<1>1. SInv => FramesAgree
  <2> SUFFICES ASSUME FramesInv, NEW f \in frames, NEW g \in frames,
                      f.kind # "failed", g.kind # "failed", f.rid = g.rid, f.seq = g.seq
               PROVE  f = g
    BY DEF SInv, FramesAgree
  <2>1. /\ FrameOf(f) /\ FrameOf(g) /\ f.ev = g.ev /\ f.seq \in Int
        /\ f.kind = "completed" /\ g.kind = "chunk" => g.seq < f.seq
        /\ g.kind = "completed" /\ f.kind = "chunk" => f.seq < g.seq
        /\ f.kind = "completed" /\ g.kind = "completed" => f = g
    BY DEF FramesInv, FrameOf
  <2>2. /\ f = Frame(f.ev, f.rid, f.seq, f.kind, f.body) /\ g = Frame(g.ev, g.rid, g.seq, g.kind, g.body)
        /\ f.kind \in {"started", "chunk", "completed"} /\ g.kind \in {"started", "chunk", "completed"}
        /\ f.kind = "started" => f.seq = 0 /\ f.body = 0
        /\ g.kind = "started" => g.seq = 0 /\ g.body = 0
        /\ f.kind = "chunk" => f.seq >= 1 /\ f.body = f.seq
        /\ g.kind = "chunk" => g.seq >= 1 /\ g.body = g.seq
        /\ f.kind = "completed" => f.seq >= 1
        /\ g.kind = "completed" => g.seq >= 1
    BY <2>1 DEF FrameOf
  <2>3. f.kind = g.kind
    BY <2>1, <2>2
  <2>4. f.body = g.body
    BY <2>1, <2>2, <2>3
  <2> QED
    BY <2>1, <2>2, <2>3, <2>4
<1> QED
  BY <1>1, AlwaysSInv, PTL

\* chat-ledger.mjs, append: a fragment that was emitted is in the record that
\* the file has of its response, after failed saves and restarts included.
THEOREM FragmentsSurviveAlways == StreamSpec => []FragmentsSurvive
<1>1. SInv => FragmentsSurvive
  <2> SUFFICES ASSUME SInv, NEW f \in frames, f.kind = "chunk", disk[f.ev].rid = f.rid
               PROVE  f.seq <= disk[f.ev].n
    BY DEF FragmentsSurvive
  <2>1. f.ev \in Keys /\ f.rid # 0
    BY DEF SInv, FramesInv, FrameOf
  <2>2. disk[f.ev] \in Filed(f.ev)
    BY <2>1 DEF Filed
  <2> QED
    BY <2>1, <2>2 DEF SInv, FiledInv, Keeps
<1> QED
  BY <1>1, AlwaysSInv, PTL

(***************************************************************************)
(* A map that is large enough evicts nothing.  Then the record of a run    *)
(* stays in the map, what was served stays served, and the flushes that    *)
(* emit the chunks of a response settle before the one that undoes it.     *)
(***************************************************************************)
\* Setting an entry is all that processed.set does.
LEMMA NothingEvicted ==
    ASSUME LedgerInv, Roomy, NEW k \in Keys, NEW r \in Rec, SetAndTrim(k, r)
    PROVE  processed' = [processed EXCEPT ![k] = r] /\ UNCHANGED served
<1>1. PICK written : written = [processed EXCEPT ![k] = r]
  OBVIOUS
<1>2. PICK entries : entries = {j \in Keys : written[j] # Absent}
  OBVIOUS
<1>3. entries \in SUBSET Keys
  BY <1>2
<1>4. Cardinality(entries) <= Cardinality(Keys)
  BY <1>3, FS_Subset DEF Roomy
<1>5. IsFiniteSet(entries)
  BY <1>3, FS_Subset DEF Roomy
<1>6. Cardinality(entries) \in Nat /\ Cardinality(Keys) \in Nat /\ Capacity \in Nat
  BY <1>5, FS_CardinalityType, LedgerAssumption DEF Roomy
<1>7. Cardinality(entries) <= Capacity
  BY <1>4, <1>6 DEF Roomy
<1> QED
  BY <1>1, <1>2, <1>7 DEF SetAndTrim

\* A map that is loaded has room for all that the file has.
LEMMA NothingTrimmed ==
    ASSUME LedgerInv, Roomy, load PROVE UNCHANGED served
<1>1. PICK kept : LoadAndTrim(kept)
  BY DEF load
<1>2. PICK entries : entries = {k \in Keys : kept[k] # Absent}
  OBVIOUS
<1>3. entries \in SUBSET Keys
  BY <1>2
<1>4. Cardinality(entries) <= Cardinality(Keys) /\ IsFiniteSet(entries)
  BY <1>3, FS_Subset DEF Roomy
<1>5. Cardinality(entries) \in Nat /\ Cardinality(Keys) \in Nat /\ Capacity \in Nat
  BY <1>4, FS_CardinalityType, LedgerAssumption DEF Roomy
<1>6. Cardinality(entries) <= Capacity
  BY <1>4, <1>5 DEF Roomy
<1> QED
  BY <1>1, <1>2, <1>6 DEF LoadAndTrim

\* The record of a run is in the map.
LEMMA HeldRun ==
    ASSUME LedgerInv, HeldInv, NEW c \in Calls, call[c].pc \in Streaming
    PROVE  Held(c) /\ call[c].key \in Events /\ rid(c) \in 1..fresh
<1>1. processed[call[c].key] = call[c].rec /\ call[c].key \in Events /\ call[c].rec.rid \in 1..fresh
  BY HeldOrGone DEF HeldInv
<1>2. call[c].rec # Absent
  <2>1. Absent.rid = 0 /\ fresh \in Nat
    BY DEF Absent, LedgerInv, TypeOK
  <2> QED
    BY <1>1, <2>1
<1> QED
  BY <1>1, <1>2 DEF Held, rid

\* A step that changes the entry of one key, which no other call runs for.
LEMMA HeldStep ==
    ASSUME LedgerInv, HeldInv, NEW c \in Calls, NEW k \in Keys, lease[k] \in {c, NoCall},
           \A d \in Calls \ {c} : call'[d].pc \in Streaming => call'[d] = call[d],
           call'[c].pc \in Streaming => processed'[call'[c].key] = call'[c].rec,
           \A j \in Keys \ {k} : processed'[j] = processed[j]
    PROVE  HeldInv'
<1> SUFFICES ASSUME NEW d \in Calls, call'[d].pc \in Streaming, d # c
             PROVE  processed'[call'[d].key] = call'[d].rec
  BY DEF HeldInv
<1>1. call'[d] = call[d] /\ call[d].pc \in Streaming
  OBVIOUS
<1>2. call[d].pc \in Owning
  BY <1>1 DEF Streaming, Producing, Owning, Running
<1>3. call[d].key \in Keys /\ lease[call[d].key] = d /\ d # NoCall
  BY <1>2, Owner
<1>4. call[d].key # k
  BY <1>3
<1> QED
  BY <1>1, <1>3, <1>4 DEF HeldInv

\* A step that leaves the map and starts no run.
LEMMA HeldStill ==
    ASSUME HeldInv, UNCHANGED processed,
           \A d \in Calls : call'[d].pc \in Streaming =>
               call[d].pc \in Streaming /\ call'[d].key = call[d].key /\ call'[d].rec = call[d].rec
    PROVE  HeldInv'
BY DEF HeldInv

\* What is served, and the flushes, before a step that has no frame of its
\* own for them.
Calm(d) ==
    \/ call'[d] = call[d]
    \/ /\ call'[d].pc \in Producing => call[d].pc \in Producing /\ call'[d].rec = call[d].rec
       /\ call'[d].pc = "ok" => call'[d].rec \in served'[call'[d].key]
       /\ call'[d].pc = "undoing" => call'[d].flushed = "no"
       /\ call'[d].pc = "failed" => NoAppend(call'[d].rec.rid)

\* A new frame that ends a response ends it as it was served, for good.
Ends(f) ==
    /\ f.kind = "completed" => \E r \in served[f.ev] : f = Completed(f.ev, r)
    /\ f.kind = "failed" => Closed(f.rid)

\* A step that saves nothing and begins nothing keeps the answers in order: it
\* may serve more of a key, and the frames it adds that end a response end it
\* as it was served.
LEMMA CalmStep ==
    ASSUME SInv, RInv, HeldInv', UNCHANGED <<queue, saving>>,
           \A k \in Keys : served[k] \subseteq served'[k],
           \A d \in Calls : Calm(d),
           \A f \in frames' : f.ev \in Keys /\ (f \in frames \/ Ends(f))
    PROVE  RInv'
<1>1. \A r : NoAppend(r)' = NoAppend(r) /\ NoUndoing(r)' = NoUndoing(r)
  BY DEF NoAppend, NoUndoing, AppendOf, Undoing
<1>2. \A d \in Calls : call[d].pc = "ok" => call[d].key \in Keys
  BY DEF SInv, ProducerInv, ProducerOf
<1>3. \A d \in Calls : call'[d].pc = "ok" => call'[d].rec \in served'[call'[d].key]
  BY <1>2 DEF RInv, AnswerInv, Calm
<1>5. ASSUME NEW f \in frames', f.kind = "completed"
      PROVE  \E r \in served'[f.ev] : f = Completed(f.ev, r)
  <2>1. \E r \in served[f.ev] : f = Completed(f.ev, r)
    BY <1>5 DEF RInv, AnswerInv, Ends
  <2> QED
    BY <2>1
<1>6. AnswerInv'
  BY <1>3, <1>5 DEF AnswerInv, Completed
<1>7. ChainOrder'
  BY DEF RInv, ChainOrder
<1>8. CallOrder'
  BY <1>1 DEF RInv, CallOrder, Calm, rid
<1>9. \A r : Closed(r) => Closed(r)'
  BY <1>1 DEF Closed, Calm, rid
<1>10. ClosedInv'
  BY <1>9 DEF RInv, ClosedInv, Ends
<1> QED
  BY <1>6, <1>7, <1>8, <1>10 DEF RInv

\* A step that queues a flush of the response of c.
LEMMA ChainStep ==
    ASSUME LedgerInv, SInv, RInv, HeldInv', NEW c \in Calls, NEW r, NEW g, g.rid = r, g \in Flushes,
           queue' = Append(queue, g), UNCHANGED <<saving, served, frames>>,
           g.at \in {"opening", "labelling", "appending", "sealing", "undoing"},
           call'[c].pc = g.at, call'[c].rec.rid = r, call'[c].flushed = "no",
           \A d \in Calls \ {c} : call'[d] = call[d] /\ rid(d) # r,
           call'[c].pc \in Producing =>
               NoUndoing(r) /\ \A f \in frames : f.kind = "failed" => f.rid # r
    PROVE  RInv'
<1>1. /\ Len(queue') = Len(queue) + 1 /\ Len(queue) \in Nat /\ queue'[Len(queue')] = g
      /\ \A i \in 1..Len(queue) : queue'[i] = queue[i]
  BY DEF LedgerInv, TypeOK
<1>2. ASSUME NEW q, NoAppend(q), ~AppendOf(g, q) PROVE NoAppend(q)'
  <2> SUFFICES ASSUME NEW i \in 1..Len(queue') PROVE ~AppendOf(queue'[i], q)
    BY <1>2 DEF NoAppend, AppendOf
  <2> QED
    BY <1>1, <1>2 DEF NoAppend
<1>3. ASSUME NEW q, NoUndoing(q), ~Undoing(g, q) PROVE NoUndoing(q)'
  <2> SUFFICES ASSUME NEW i \in 1..Len(queue') PROVE ~Undoing(queue'[i], q)
    BY <1>3 DEF NoUndoing, Undoing
  <2> QED
    BY <1>1, <1>3 DEF NoUndoing
<1>4. AnswerInv'
  <2>1. \A d \in Calls : call'[d].pc = "ok" => call'[d].rec \in served[call'[d].key]
    BY DEF RInv, AnswerInv
  <2> QED
    BY <2>1 DEF RInv, AnswerInv, Completed
<1>5. ChainOrder'
  <2> SUFFICES ASSUME NEW i \in 1..Len(queue'), queue'[i].at = "appending"
               PROVE  /\ ~Undoing(saving, queue'[i].rid)
                      /\ \A j \in 1..(i - 1) : ~Undoing(queue'[j], queue'[i].rid)
    BY DEF ChainOrder, Undoing
  <2>1. CASE i \in 1..Len(queue)
    <3>1. \A j \in 1..(i - 1) : j \in 1..Len(queue)
      BY <1>1, <2>1
    <3> QED
      BY <1>1, <2>1, <3>1 DEF RInv, ChainOrder
  <2>2. CASE i = Len(queue')
    <3>1. queue'[i] = g /\ g.at = "appending" /\ NoUndoing(r)
      BY <1>1, <2>2 DEF Producing
    <3>2. \A j \in 1..(i - 1) : j \in 1..Len(queue)
      BY <1>1, <2>2
    <3> QED
      BY <1>1, <3>1, <3>2 DEF NoUndoing
  <2> QED
    BY <1>1, <2>1, <2>2
<1>6. CallOrder'
  <2> SUFFICES ASSUME NEW d \in Calls, NEW q, q = call'[d].rec.rid
               PROVE  /\ call'[d].pc \in Producing => NoUndoing(q)'
                      /\ call'[d].pc = "undoing" /\ call'[d].flushed # "no" => NoAppend(q)'
                      /\ call'[d].pc = "failed" => NoAppend(q)'
    BY DEF CallOrder, rid
  <2>1. CASE d = c
    <3>1. call'[d].pc \in Producing => ~Undoing(g, r)
      BY <2>1 DEF Undoing, Producing
    <3>2. q = r /\ call'[d].flushed = "no" /\ call'[d].pc # "failed"
      BY <2>1
    <3>3. call'[d].pc \in Producing => NoUndoing(r)
      BY <2>1
    <3> QED
      BY <1>3, <3>1, <3>2, <3>3
  <2>2. CASE d # c
    <3>1. call'[d] = call[d] /\ q # r /\ rid(d) = q
      BY <2>2 DEF rid
    <3>2. ~Undoing(g, q) /\ ~AppendOf(g, q)
      BY <3>1 DEF Undoing, AppendOf
    <3>3. /\ call[d].pc \in Producing => NoUndoing(q)
          /\ call[d].pc = "undoing" /\ call[d].flushed # "no" => NoAppend(q)
          /\ call[d].pc = "failed" => NoAppend(q)
      BY <3>1 DEF RInv, CallOrder
    <3> QED
      BY <1>2, <1>3, <3>1, <3>2, <3>3
  <2> QED
    BY <2>1, <2>2
<1>7. ClosedInv'
  <2> SUFFICES ASSUME NEW f \in frames, f.kind = "failed" PROVE Closed(f.rid)'
    BY DEF ClosedInv
  <2>1. Closed(f.rid)
    BY DEF RInv, ClosedInv
  <2>2. ~AppendOf(g, f.rid)
    BY DEF AppendOf, Producing
  <2>3. \A d \in Calls : call'[d].pc \in Producing => call'[d].rec.rid # f.rid
    BY <2>1 DEF Closed, rid
  <2> QED
    BY <1>2, <2>1, <2>2, <2>3 DEF Closed, rid
<1> QED
  BY <1>4, <1>5, <1>6, <1>7 DEF RInv

\* A step of the store, which tells at most one call.
LEMMA StoreStepR ==
    ASSUME SInv, RInv, ChainOrder', UNCHANGED <<processed, served>>,
           \A r : (NoAppend(r) => NoAppend(r)') /\ (NoUndoing(r) => NoUndoing(r)'),
           \A d \in Calls :
              /\ call'[d].pc = call[d].pc /\ call'[d].key = call[d].key /\ call'[d].rec = call[d].rec
              /\ \/ call'[d].flushed = call[d].flushed
                 \/ call[d].pc = "undoing" => NoAppend(rid(d))',
           \A f \in frames' : f \in frames \/ f.kind = "chunk"
    PROVE  RInv'
<1>1. \A d \in Calls : rid(d)' = rid(d)
  BY DEF rid
<1>2. HeldInv'
  BY HeldStill DEF RInv
<1>3. AnswerInv'
  <2>1. \A d \in Calls : call'[d].pc = "ok" => call'[d].rec \in served[call'[d].key]
    BY DEF RInv, AnswerInv
  <2> QED
    BY <2>1 DEF RInv, AnswerInv, Completed
<1>4. CallOrder'
  <2> SUFFICES ASSUME NEW d \in Calls
               PROVE  /\ call'[d].pc \in Producing => NoUndoing(rid(d))'
                      /\ call'[d].pc = "undoing" /\ call'[d].flushed # "no" => NoAppend(rid(d))'
                      /\ call'[d].pc = "failed" => NoAppend(rid(d))'
    BY DEF CallOrder
  <2>1. /\ call[d].pc \in Producing => NoUndoing(rid(d))
        /\ call[d].pc = "undoing" /\ call[d].flushed # "no" => NoAppend(rid(d))
        /\ call[d].pc = "failed" => NoAppend(rid(d))
    BY DEF RInv, CallOrder
  <2>2. PICK q : q = rid(d)
    OBVIOUS
  <2>3. (NoAppend(q) => NoAppend(q)') /\ (NoUndoing(q) => NoUndoing(q)') /\ rid(d)' = q
    BY <1>1, <2>2
  <2>4. (NoAppend(rid(d))' <=> NoAppend(q)') /\ (NoUndoing(rid(d))' <=> NoUndoing(q)')
    BY <2>3
  <2> QED
    BY <2>1, <2>2, <2>3, <2>4
<1>5. ClosedInv'
  <2> SUFFICES ASSUME NEW f \in frames, f.kind = "failed" PROVE Closed(f.rid)'
    BY DEF ClosedInv
  <2>1. Closed(f.rid)
    BY DEF RInv, ClosedInv
  <2> QED
    BY <1>1, <2>1 DEF Closed
<1> QED
  BY <1>2, <1>3, <1>4, <1>5 DEF RInv

(***************************************************************************)
(* One lemma per step.  The invariant of the frames is known after it.     *)
(***************************************************************************)
\* No append of a run waits in the chain unless the run waits for it.
LEMMA NothingAppended ==
    ASSUME SInv, NEW c \in Calls, call[c].pc \in Streaming,
           call[c].pc # "appending" \/ call[c].flushed # "no"
    PROVE  NoAppend(rid(c))
<1>1. \A f : PendingOf(f) => f.rid # rid(c)
  BY NoPending
<1>2. /\ saving.at = "appending" => PendingOf(saving)
      /\ \A i \in 1..Len(queue) : queue[i].at = "appending" => PendingOf(queue[i])
  BY DEF SInv, PendingInv
<1> QED
  BY <1>1, <1>2 DEF NoAppend, AppendOf

\* Who is told when a run ends.
LEMMA ConcludeCalm ==
    ASSUME LedgerInv, NEW c \in Calls, NEW o \in {"ok", "failed"}, Conclude(c, o),
           o = "ok" => call[c].rec \in served'[call[c].key],
           o = "failed" => NoAppend(rid(c))
    PROVE  /\ \A d \in Calls : Calm(d)
           /\ \A d \in Calls : call'[d].pc \in Streaming => call'[d] = call[d]
           /\ call'[c].pc = o
<1>1. call \in [Calls -> CallType]
  BY CallTyped DEF LedgerInv
<1>2. /\ call'[c].pc = o
      /\ \A d \in Calls :
            \/ call'[d] = call[d]
            \/ call'[d].pc = o /\ call'[d].rec = call[c].rec /\ call'[d].key = call[c].key
  BY <1>1 DEF Conclude, CallType
<1>3. o \notin Streaming /\ o \notin Producing /\ o # "undoing"
  BY DEF Streaming, Producing
<1>4. \A d \in Calls : Calm(d)
  BY <1>2, <1>3 DEF Calm, rid
<1> QED
  BY <1>2, <1>3, <1>4

\* The frames of a step that ends no response.
LEMMA EmitEnds ==
    ASSUME SInv', \A f \in frames' : f \in frames \/ f.kind \in {"started", "chunk"}
    PROVE  \A f \in frames' : f.ev \in Keys /\ (f \in frames \/ Ends(f))
BY DEF SInv, FramesInv, FrameOf, Ends

\* started, a fragment that is emitted, and an opening that fails.
LEMMA EmittedR ==
    ASSUME LedgerInv, SInv, RInv, SInv', NEW c \in Calls, DeliverStarted(c) \/ DeliverChunk(c)
    PROVE  RInv'
<1>1. Opened(c) \/ Appended(c)
  BY DEF DeliverStarted, DeliverChunk
<1>2. UNCHANGED <<processed, queue, saving, served>>
  BY <1>1 DEF Opened, Appended, memory, file
<1>3. \A f \in frames' : f \in frames \/ f.kind \in {"started", "chunk"}
  <2>1. ASSUME NEW z, EmitChunk(z) PROVE \A f \in frames' : f \in frames \/ f.kind = "chunk"
    BY <2>1 DEF EmitChunk, Frame
  <2>2. CASE DeliverStarted(c)
    BY <2>2 DEF DeliverStarted, Frame
  <2> QED
    BY <2>1, <2>2 DEF DeliverChunk
<1>4. /\ \A d \in Calls : Calm(d)
      /\ \A d \in Calls : call'[d].pc \in Streaming =>
            call[d].pc \in Streaming /\ call'[d].key = call[d].key /\ call'[d].rec = call[d].rec
  <2>1. CASE call' = Goto(c, "generating") /\ call[c].pc \in {"opening", "appending"}
    <3>1. /\ call'[c].pc = "generating" /\ call'[c].key = call[c].key /\ call'[c].rec = call[c].rec
          /\ \A d \in Calls \ {c} : call'[d] = call[d]
      BY <2>1, GotoForm DEF LedgerInv
    <3>2. Calm(c) /\ call[c].pc \in Streaming
      BY <2>1, <3>1 DEF Calm, Producing, Streaming
    <3> QED
      BY <3>1, <3>2 DEF Calm
  <2>2. CASE At(c, "opening", "failed") /\ Conclude(c, "failed")
    <3>1. NoAppend(rid(c))
      BY <2>2, NothingAppended DEF At, Streaming, Producing
    <3> QED
      BY <2>2, <3>1, ConcludeCalm
  <2> QED
    BY <1>1, <2>1, <2>2 DEF Opened, Appended, At
<1>5. HeldInv'
  BY <1>2, <1>4, HeldStill DEF RInv
<1>6. \A k \in Keys : served[k] \subseteq served'[k]
  BY <1>2
<1> QED
  BY <1>2, <1>3, <1>4, <1>5, <1>6, EmitEnds, CalmStep

\* A run that ends well, one whose label is taken back, and one whose undoing
\* has settled.
LEMMA EndedR ==
    ASSUME LedgerInv, SInv, RInv, SInv', NEW c \in Calls, Labelled(c) \/ Sealed(c) \/ Undone(c),
           UNCHANGED <<live, frames>>
    PROVE  RInv'
<1>1. UNCHANGED <<queue, saving>>
  BY DEF Labelled, Sealed, Undone, memory, file
<1>2. served \in [Keys -> SUBSET Rec]
  BY DEF LedgerInv, TypeOK
<1>3. call[c].pc \in Owning
  BY DEF Labelled, Sealed, Undone, At, Owning, Running
<1>4. call[c].key \in Keys /\ lease[call[c].key] = c
  BY <1>3, Owner
<1>5. \E o \in {"ok", "failed"} :
         /\ Conclude(c, o)
         /\ o = "ok" => call[c].rec \in served'[call[c].key]
         /\ o = "failed" => NoAppend(rid(c)) /\ UNCHANGED served
         /\ \A k \in Keys : served[k] \subseteq served'[k]
  <2>1. CASE Undone(c)
    BY <2>1 DEF Undone, RInv, CallOrder
  <2>2. CASE Labelled(c) /\ ~At(c, "labelling", "saved")
    <3>1. NoAppend(rid(c))
      BY <2>2, NothingAppended DEF Labelled, At, Streaming
    <3> QED
      BY <2>2, <3>1 DEF Labelled
  <2>3. CASE Sealed(c) \/ (Labelled(c) /\ At(c, "labelling", "saved"))
    <3>1. Held(c)
      BY <2>3, HeldRun DEF Sealed, At, Streaming, RInv
    <3>2. Conclude(c, "ok") /\ Serve(call[c].key, call[c].rec)
      BY <2>3, <3>1 DEF Sealed, Labelled, At
    <3> QED
      BY <1>2, <1>4, <3>2 DEF Serve
  <2> QED
    BY <2>1, <2>2, <2>3
<1>6. /\ \A d \in Calls : Calm(d)
      /\ \A d \in Calls : call'[d].pc \in Streaming => call'[d] = call[d]
      /\ call'[c].pc \in {"ok", "failed"}
  BY <1>5, ConcludeCalm
<1>7. \A j \in Keys \ {call[c].key} : processed'[j] = processed[j]
  <2>1. processed' = processed \/ \E r : processed' = [processed EXCEPT ![call[c].key] = r]
    BY DEF Labelled, Sealed, Undone, memory, Write
  <2> QED
    BY <2>1 DEF LedgerInv, TypeOK
<1>8. HeldInv'
  BY <1>4, <1>6, <1>7, HeldStep DEF RInv, Streaming, Producing
<1>9. \A f \in frames' : f.ev \in Keys /\ (f \in frames \/ Ends(f))
  BY EmitEnds
<1> QED
  BY <1>1, <1>5, <1>6, <1>8, <1>9, CalmStep

\* The catch of a generation takes its record out and waits for that.
LEMMA AbandonedR ==
    ASSUME LedgerInv, SInv, RInv, NEW c \in Calls, Abandon(c), UNCHANGED <<live, frames>>,
           call[c].pc \in {"generating", "appending", "sealing"}
    PROVE  RInv'
<1>1. call[c].pc \in Streaming /\ call[c].pc \in Owning
  BY DEF Streaming, Producing, Owning, Running
<1>2. Held(c) /\ call[c].key \in Keys /\ lease[call[c].key] = c
  BY <1>1, HeldRun, Owner DEF RInv
<1>3. /\ processed' = [processed EXCEPT ![call[c].key] = Absent]
      /\ AwaitFlush(c, "undoing", call[c].rec) /\ UNCHANGED <<saving, served, fresh>>
  BY <1>2 DEF Abandon, file
<1>4. call[c].rec \in Rec /\ call[c].rec.rid <= fresh /\ fresh \in Nat
  <2>1. fresh \in Nat
    BY DEF LedgerInv, TypeOK
  <2>2. call[c].rec \in Rec /\ call[c].rec.rid \in 1..fresh
    BY <1>1, HeldOrGone
  <2> QED
    BY <2>1, <2>2
<1>5. Awaiting(c, "undoing", call[c].rec)
  BY <1>3, <1>4, AwaitForm
<1>6. HeldInv'
  <2>1. \A j \in Keys \ {call[c].key} : processed'[j] = processed[j]
    BY <1>3 DEF LedgerInv, TypeOK
  <2>2. call'[c].pc \notin Streaming /\ \A d \in Calls \ {c} : call'[d] = call[d]
    BY <1>5 DEF Awaiting, Streaming, Producing
  <2> QED
    BY <1>2, <2>1, <2>2, HeldStep DEF RInv
<1>7. PICK g : g = Flush(c, "undoing", rid(c))
  OBVIOUS
<1>8. g \in Flushes /\ g.rid = rid(c) /\ g.at = "undoing" /\ queue' = Append(queue, g)
  BY <1>3, <1>4, <1>7 DEF AwaitFlush, Flush, Flushes, Places, Owning, Running, Rec, rid
<1>9. /\ call'[c].pc = g.at /\ call'[c].rec.rid = rid(c) /\ call'[c].flushed = "no"
      /\ call'[c].pc \notin Producing
  BY <1>5, <1>8 DEF Awaiting, Producing, rid
<1>10. \A d \in Calls \ {c} : call'[d] = call[d] /\ rid(d) # rid(c)
  BY <1>1, <1>5 DEF Awaiting, SInv, ProducerInv, ProducerOf
<1>11. PICK r : r = rid(c)
  OBVIOUS
<1> QED
  BY <1>3, <1>6, <1>8, <1>9, <1>10, <1>11, ChainStep

\* A message that is shared with a run, or replayed.
LEMMA JoinedR ==
    ASSUME LedgerInv, SInv, RInv, SInv', NEW c \in Calls, NEW k \in Events,
           StreamJoin(c, k) \/ StreamReplay(c, k), UNCHANGED <<live, frames>>
    PROVE  RInv'
<1>1. UNCHANGED <<processed, queue, saving>>
  BY DEF StreamJoin, StreamReplay, memory, file
<1>2. call \in [Calls -> CallType] /\ k \in Keys /\ served \in [Keys -> SUBSET Rec]
  BY CallTyped DEF LedgerInv, TypeOK
<1>3. \A j \in Keys : served[j] \subseteq served'[j]
  BY <1>2 DEF StreamJoin, StreamReplay, Serve
<1>4. /\ \A d \in Calls \ {c} : call'[d] = call[d]
      /\ \/ call'[c].pc = "joined"
         \/ call'[c].pc = "ok" /\ call'[c].rec \in served'[call'[c].key]
  <2>1. CASE StreamJoin(c, k)
    BY <1>2, <2>1 DEF StreamJoin, Begin, Idle
  <2>2. CASE StreamReplay(c, k)
    <3>1. /\ call'[c].pc = "ok" /\ call'[c].key = k /\ call'[c].rec = processed[k]
          /\ \A d \in Calls \ {c} : call'[d] = call[d]
      BY <1>2, <2>2 DEF StreamReplay, Begin, Idle
    <3>2. processed[k] \in served'[k]
      BY <1>2, <2>2 DEF StreamReplay, Serve
    <3> QED
      BY <3>1, <3>2
  <2> QED
    BY <2>1, <2>2
<1>5. \A d \in Calls : Calm(d) /\ (call'[d].pc \in Streaming => call'[d] = call[d])
  BY <1>4 DEF Calm, Streaming, Producing
<1>6. HeldInv'
  BY <1>1, <1>5, HeldStill DEF RInv
<1>7. \A f \in frames' : f.ev \in Keys /\ (f \in frames \/ Ends(f))
  BY EmitEnds
<1> QED
  BY <1>1, <1>3, <1>5, <1>6, <1>7, CalmStep

\* The lease of a run: its responseId is new.
LEMMA LeasedR ==
    ASSUME LedgerInv, SInv, RInv, NEW c \in Calls, NEW k \in Events,
           NEW where \in {"opening", "labelling"}, NEW r \in Rec, r.rid = fresh + 1,
           Leased(c, k, where, r), queue' = Append(queue, Flush(c, where, r.rid)),
           processed' = [processed EXCEPT ![k] = r], UNCHANGED <<served, live, frames>>
    PROVE  RInv'
<1>0. /\ fresh \in Nat /\ k \in Keys /\ processed \in [Keys -> Rec]
      /\ UNCHANGED saving /\ lease[k] = NoCall
  BY DEF LedgerInv, TypeOK, Leased
<1>1. PICK z : z = fresh + 1
  OBVIOUS
<1>2. PICK g : g = Flush(c, where, z)
  OBVIOUS
<1>3. g \in Flushes /\ g.rid = z /\ g.at = where /\ queue' = Append(queue, g)
  BY <1>0, <1>1, <1>2 DEF Flush, Flushes, Places, Owning, Running
<1>4. /\ call'[c].pc = where /\ call'[c].key = k /\ call'[c].rec = r /\ call'[c].flushed = "no"
      /\ \A d \in Calls \ {c} : call'[d] = call[d]
  BY DEF Leased
<1>5. HeldInv'
  <2>1. processed'[call'[c].key] = call'[c].rec
    BY <1>0, <1>4
  <2>2. \A j \in Keys \ {k} : processed'[j] = processed[j]
    BY <1>0
  <2> QED
    BY <1>0, <1>4, <2>1, <2>2, HeldStep DEF RInv
<1>6. /\ \A d \in Calls \ {c} : rid(d) # z
      /\ \A f \in frames : f.rid # z
  BY <1>0, <1>1, OldRids
<1>7. NoUndoing(z)
  <2>1. FlushOf(saving) /\ \A i \in 1..Len(queue) : FlushOf(queue[i])
    BY DEF LedgerInv, FlushInv
  <2>2. \A f \in Flushes : FlushOf(f) => f.rid # z
    BY <1>0, <1>1 DEF FlushOf, Flushes
  <2>3. saving \in Flushes /\ \A i \in 1..Len(queue) : queue[i] \in Flushes
    BY DEF LedgerInv, TypeOK
  <2> QED
    BY <2>1, <2>2, <2>3 DEF NoUndoing, Undoing
<1> QED
  BY <1>0, <1>1, <1>3, <1>4, <1>5, <1>6, <1>7, ChainStep

\* A message that begins to be answered, or whose old answer gets its
\* responseId.
LEMMA BegunR ==
    ASSUME LedgerInv, SInv, RInv, Roomy, NEW c \in Calls, NEW k \in Events,
           StreamLabel(c, k) \/ StreamOpen(c, k), UNCHANGED <<live, frames>>
    PROVE  RInv'
<1>0. processed \in [Keys -> Rec] /\ fresh \in Nat /\ k \in Keys
  BY DEF LedgerInv, TypeOK
<1>1. CASE StreamLabel(c, k)
  <2> DEFINE r == [processed[k] EXCEPT !.rid = fresh + 1]
  <2>1. r \in Rec /\ r.rid = fresh + 1
    BY <1>0 DEF Rec
  <2>2. StreamLease(c, k, "labelling", r) /\ processed' = [processed EXCEPT ![k] = r]
        /\ UNCHANGED served
    BY <1>1 DEF StreamLabel
  <2> HIDE DEF r
  <2>3. Leased(c, k, "labelling", r)
    BY <1>0, <2>1, <2>2, LeaseForm
  <2>4. queue' = Append(queue, Flush(c, "labelling", r.rid))
    BY <2>2 DEF StreamLease
  <2> QED
    BY <2>1, <2>2, <2>3, <2>4, LeasedR
<1>2. CASE StreamOpen(c, k)
  <2> DEFINE r == [rid |-> fresh + 1, n |-> 0, ans |-> NoAnswer, at |-> Place(k)]
  <2>1. r \in Rec /\ r.rid = fresh + 1
    BY <1>0 DEF Rec, NoAnswer, Place
  <2>2. StreamLease(c, k, "opening", r) /\ SetAndTrim(k, r)
    BY <1>2 DEF StreamOpen
  <2> HIDE DEF r
  <2>3. Leased(c, k, "opening", r)
    BY <1>0, <2>1, <2>2, LeaseForm
  <2>4. queue' = Append(queue, Flush(c, "opening", r.rid))
    BY <2>2 DEF StreamLease
  <2>5. processed' = [processed EXCEPT ![k] = r] /\ UNCHANGED served
    BY <1>0, <2>1, <2>2, NothingEvicted
  <2> QED
    BY <2>1, <2>3, <2>4, <2>5, LeasedR
<1> QED
  BY <1>1, <1>2

\* A fragment, or the answer, is written: the run is the only one that still
\* emits for its response.
LEMMA RespondR ==
    ASSUME LedgerInv, SInv, RInv, NEW c \in Calls, Respond(c) PROVE RInv'
<1>1. /\ call[c].pc = "generating" /\ call[c].pc \in Streaming /\ call[c].pc \in Producing
      /\ call[c].pc \in Owning
  BY DEF Respond, append, Answer, Streaming, Producing, Owning, Running
<1>2. /\ Held(c) /\ call[c].key \in Keys /\ call[c].rec \in Rec /\ call[c].rec.rid \in 1..fresh
      /\ lease[call[c].key] = c /\ fresh \in Nat
  BY <1>1, HeldRun, HeldOrGone, Owner DEF RInv, LedgerInv, TypeOK
<1>3. PICK z : z = rid(c)
  OBVIOUS
<1>4. /\ \A d \in Calls \ {c} : rid(d) # z
      /\ NoUndoing(z) /\ \A f \in frames : f.kind = "failed" => f.rid # z
  <2>1. \A d \in Calls \ {c} : rid(d) # z
    BY <1>1, <1>3 DEF SInv, ProducerInv, ProducerOf
  <2>2. NoUndoing(z)
    BY <1>1, <1>3 DEF RInv, CallOrder
  <2>3. \A f \in frames : f.kind = "failed" => f.rid # z
    BY <1>1, <1>3 DEF RInv, ClosedInv, Closed
  <2> QED
    BY <2>1, <2>2, <2>3
<1>5. ASSUME NEW where \in {"appending", "sealing"}, NEW r \in Rec, r.rid = z, Write(c, r),
             AwaitFlush(c, where, r), UNCHANGED <<saving, served, fresh, frames>>
      PROVE  RInv'
  <2>1. Awaiting(c, where, r)
    BY <1>2, <1>3, <1>5, AwaitForm DEF rid
  <2>2. processed' = [processed EXCEPT ![call[c].key] = r] /\ processed \in [Keys -> Rec]
    BY <1>2, <1>5 DEF Write, LedgerInv, TypeOK
  <2>3. HeldInv'
    <3>1. processed'[call'[c].key] = call'[c].rec
      BY <1>2, <2>1, <2>2 DEF Awaiting
    <3>2. \A j \in Keys \ {call[c].key} : processed'[j] = processed[j]
      BY <2>2
    <3> QED
      BY <1>2, <2>1, <3>1, <3>2, HeldStep DEF RInv, Awaiting
  <2>4. PICK g : g = Flush(c, where, z)
    OBVIOUS
  <2>5. g \in Flushes /\ g.rid = z /\ g.at = where /\ queue' = Append(queue, g)
    BY <1>2, <1>3, <1>5, <2>4 DEF AwaitFlush, Flush, Flushes, Places, Owning, Running, Rec, rid
  <2>6. /\ call'[c].pc = where /\ call'[c].rec.rid = z /\ call'[c].flushed = "no"
        /\ \A d \in Calls \ {c} : call'[d] = call[d]
    BY <1>5, <2>1 DEF Awaiting
  <2> QED
    BY <1>4, <1>5, <2>3, <2>5, <2>6, ChainStep
<1>6. CASE append(c)
  <2> DEFINE r == [call[c].rec EXCEPT !.n = @ + 1]
  <2>1. r \in Rec /\ r.rid = z
    BY <1>2, <1>3 DEF Rec, rid
  <2>2. Write(c, r) /\ AwaitFlush(c, "appending", r) /\ UNCHANGED <<saving, served, fresh, frames>>
    BY <1>6 DEF append, file, Respond
  <2> HIDE DEF r
  <2> QED
    BY <1>5, <2>1, <2>2
<1>7. CASE Answer(c)
  <2> DEFINE r == [call[c].rec EXCEPT !.ans = call[c].rec.rid]
  <2>1. r \in Rec /\ r.rid = z
    BY <1>2, <1>3 DEF Rec, rid
  <2>2. Write(c, r) /\ AwaitFlush(c, "sealing", r) /\ UNCHANGED <<saving, served, fresh, frames>>
    BY <1>7 DEF Answer, file, Respond
  <2> HIDE DEF r
  <2> QED
    BY <1>5, <2>1, <2>2
<1> QED
  BY <1>6, <1>7 DEF Respond

\* What the end of a deliver brings: the calls, but for its own, are as they
\* were.
LEMMA ReturnR ==
    ASSUME LedgerInv, SInv, RInv, SInv', NEW c \in Calls, Return(c),
           \A f \in frames' : f \in frames \/ Ends(f)
    PROVE  RInv'
<1>1. UNCHANGED <<processed, queue, saving, served>>
  BY DEF Return, memory, file
<1>2. call'[c].pc = "idle" /\ \A d \in Calls \ {c} : call'[d] = call[d]
  BY ReturnForm
<1>3. \A d \in Calls : Calm(d) /\ (call'[d].pc \in Streaming => call'[d] = call[d])
  BY <1>2 DEF Calm, Streaming, Producing
<1>4. HeldInv'
  BY <1>1, <1>3, HeldStill DEF RInv
<1>5. \A f \in frames' : f.ev \in Keys /\ (f \in frames \/ Ends(f))
  BY DEF SInv, FramesInv, FrameOf
<1>6. \A k \in Keys : served[k] \subseteq served'[k]
  BY <1>1
<1> QED
  BY <1>1, <1>3, <1>4, <1>5, <1>6, CalmStep

\* failed is emitted when every append of its response has settled.
LEMMA FailedR ==
    ASSUME LedgerInv, SInv, RInv, SInv', NEW c \in Calls, DeliverFailed(c) PROVE RInv'
<1>1. call[c].pc = "failed" /\ Return(c)
  BY DEF DeliverFailed
<1>2. \A f \in frames' : f \in frames \/ (f.kind = "failed" /\ f.rid = rid(c))
  BY DEF DeliverFailed, Frame
<1>3. Closed(rid(c))
  <2>1. NoAppend(rid(c))
    BY <1>1 DEF RInv, CallOrder
  <2>2. ASSUME NEW d \in Calls, call[d].pc \in Producing PROVE rid(d) # rid(c)
    <3>1. call[d].pc \in Streaming /\ d # c
      BY <1>1, <2>2 DEF Streaming, Producing
    <3> QED
      BY <3>1 DEF SInv, ProducerInv, ProducerOf
  <2> QED
    BY <2>1, <2>2 DEF Closed
<1>4. \A f \in frames' : f \in frames \/ Ends(f)
  BY <1>2, <1>3 DEF Ends
<1> QED
  BY <1>1, <1>4, ReturnR

\* completed tells what is served; the fragments of a replay are old frames.
LEMMA CompletedFrames ==
    ASSUME LedgerInv, SInv, NEW c \in Calls, DeliverCompleted(c)
    PROVE  \A f \in frames' : \/ f \in frames \/ f.kind = "started"
                              \/ f.kind = "completed" /\ f = Completed(call[c].key, call[c].rec)
<1>1. PICK k : k = call[c].key
  OBVIOUS
<1>2. PICK r : r = call[c].rec
  OBVIOUS
<1>3. \E cut \in 0..(r.n + 2) :
         frames' = frames \cup {f \in (IF isLive(c) THEN {Completed(k, r)} ELSE Replay(k, r)) : f.seq < cut}
  BY <1>1, <1>2 DEF DeliverCompleted
<1>4. k \in Events /\ isComplete(r) /\ r.rid # 0
  BY <1>1, <1>2 DEF DeliverCompleted, SInv, ProducerInv, ProducerOf, rid
<1>5. r \in Versions(k)
  BY <1>1, <1>2, <1>4 DEF Versions, OfCalls
<1>6. \A i \in 1..r.n : Frame(k, r.rid, i, "chunk", i) \in frames
  BY <1>4, <1>5 DEF SInv, VersionInv, VersionOf, Shown
<1>7. Completed(k, r).kind = "completed"
  BY DEF Completed, Frame
<1>8. \A f \in Replay(k, r) : \/ f \in frames \/ f.kind = "started" \/ f = Completed(k, r)
  BY <1>6 DEF Replay, Frame
<1> QED
  BY <1>1, <1>2, <1>3, <1>7, <1>8

\* The delivery of a completed answer keeps the order of what is emitted.
LEMMA CompletedR ==
    ASSUME LedgerInv, SInv, RInv, SInv', NEW c \in Calls, DeliverCompleted(c) PROVE RInv'
<1>1. call[c].pc = "ok" /\ Return(c)
  BY DEF DeliverCompleted
<1>2. call[c].rec \in served[call[c].key]
  BY <1>1 DEF RInv, AnswerInv
<1>3. Completed(call[c].key, call[c].rec).ev = call[c].key
  BY DEF Completed, Frame
<1>4. \A f \in frames' : f \in frames \/ Ends(f)
  BY <1>2, <1>3, CompletedFrames DEF Ends
<1> QED
  BY <1>1, <1>4, ReturnR

\* A save that ends, well or not.
LEMMA SavedR ==
    ASSUME LedgerInv, SInv, RInv, NEW o \in {"saved", "failed"}, Settle(saving, o),
           saving' = NoFlush, queue' = queue,
           \A f \in frames' : f \in frames \/ f.kind = "chunk"
    PROVE  RInv'
<1>1. NoFlush.at = "none"
  BY DEF NoFlush, Flush
<1>2. \A r : (NoAppend(r) => NoAppend(r)') /\ (NoUndoing(r) => NoUndoing(r)')
  BY <1>1 DEF NoAppend, NoUndoing, AppendOf, Undoing
<1>3. ChainOrder'
  BY <1>1 DEF RInv, ChainOrder, Undoing
<1>4. ASSUME NEW r, Undoing(saving, r) PROVE NoAppend(r)'
  BY <1>1, <1>4 DEF NoAppend, AppendOf, RInv, ChainOrder
<1>5. \A d \in Calls :
         /\ call'[d].pc = call[d].pc /\ call'[d].key = call[d].key /\ call'[d].rec = call[d].rec
         /\ \/ call'[d].flushed = call[d].flushed
            \/ call[d].pc = "undoing" => Undoing(saving, rid(d))
  BY SettleForm DEF Undoing, rid
<1>6. \A d \in Calls : rid(d)' = rid(d)
  BY <1>5 DEF rid
<1>7. ASSUME NEW d \in Calls, Undoing(saving, rid(d)) PROVE NoAppend(rid(d))'
  <2>1. PICK q : q = rid(d)
    OBVIOUS
  <2>2. NoAppend(q)' /\ rid(d)' = q
    BY <1>4, <1>6, <1>7, <2>1
  <2> QED
    BY <2>2
<1> QED
  BY <1>2, <1>3, <1>5, <1>7, StoreStepR DEF Settle

\* The chain without its head.
LEMMA TailOrder ==
    ASSUME LedgerInv, ChainOrder, queue # << >>, NEW q, q = Tail(queue), NEW g, g = Head(queue)
    PROVE  /\ \A i \in 1..Len(q) : q[i].at = "appending" =>
                 /\ ~Undoing(g, q[i].rid)
                 /\ \A j \in 1..(i - 1) : ~Undoing(q[j], q[i].rid)
           /\ \A r : (\A i \in 1..Len(queue) : ~AppendOf(queue[i], r)) =>
                 ~AppendOf(g, r) /\ \A i \in 1..Len(q) : ~AppendOf(q[i], r)
           /\ \A r : (\A i \in 1..Len(queue) : ~Undoing(queue[i], r)) =>
                 ~Undoing(g, r) /\ \A i \in 1..Len(q) : ~Undoing(q[i], r)
<1>1. queue \in Seq(Flushes) /\ Len(queue) \in Nat /\ Len(queue) >= 1
  BY DEF LedgerInv, TypeOK
<1>2. /\ g = queue[1] /\ 1 \in 1..Len(queue) /\ Len(q) = Len(queue) - 1
      /\ \A i \in 1..Len(q) : q[i] = queue[i + 1] /\ i + 1 \in 1..Len(queue)
  BY <1>1
<1>3. ASSUME NEW i \in 1..Len(q), q[i].at = "appending"
      PROVE  /\ ~Undoing(g, q[i].rid)
             /\ \A j \in 1..(i - 1) : ~Undoing(q[j], q[i].rid)
  <2>1. /\ i + 1 \in 1..Len(queue) /\ q[i] = queue[i + 1] /\ 1 \in 1..((i + 1) - 1)
        /\ \A j \in 1..(i - 1) : j + 1 \in 1..((i + 1) - 1) /\ j \in 1..Len(q)
    BY <1>1, <1>2, <1>3
  <2>2. \A j \in 1..((i + 1) - 1) : ~Undoing(queue[j], queue[i + 1].rid)
    BY <1>3, <2>1 DEF ChainOrder
  <2> QED
    BY <1>2, <2>1, <2>2
<1> QED
  BY <1>2, <1>3

\* A flush that finds nothing to write.
LEMMA CleanR ==
    ASSUME LedgerInv, SInv, RInv, FlushClean, \A f \in frames' : f \in frames \/ f.kind = "chunk"
    PROVE  RInv'
<1>1. PICK g : g = Head(queue)
  OBVIOUS
<1>2. PICK q : q = Tail(queue)
  OBVIOUS
<1>3. /\ saving = NoFlush /\ saving' = saving /\ queue # << >> /\ queue' = q /\ Settle(g, "saved")
      /\ NoFlush.at = "none"
  BY <1>1, <1>2 DEF FlushClean, file, NoFlush, Flush
<1>4. /\ \A i \in 1..Len(q) : q[i].at = "appending" =>
            ~Undoing(g, q[i].rid) /\ \A j \in 1..(i - 1) : ~Undoing(q[j], q[i].rid)
      /\ \A r : (\A i \in 1..Len(queue) : ~AppendOf(queue[i], r)) =>
            \A i \in 1..Len(q) : ~AppendOf(q[i], r)
      /\ \A r : (\A i \in 1..Len(queue) : ~Undoing(queue[i], r)) =>
            \A i \in 1..Len(q) : ~Undoing(q[i], r)
  BY <1>1, <1>2, <1>3, TailOrder DEF RInv
<1>5. \A r : (NoAppend(r) => NoAppend(r)') /\ (NoUndoing(r) => NoUndoing(r)')
  BY <1>3, <1>4 DEF NoAppend, NoUndoing, AppendOf, Undoing
<1>6. ChainOrder'
  BY <1>3, <1>4 DEF ChainOrder, Undoing
<1>7. ASSUME NEW r, Undoing(g, r) PROVE NoAppend(r)'
  BY <1>3, <1>4, <1>7 DEF NoAppend, AppendOf
<1>8. \A d \in Calls :
         /\ call'[d].pc = call[d].pc /\ call'[d].key = call[d].key /\ call'[d].rec = call[d].rec
         /\ \/ call'[d].flushed = call[d].flushed
            \/ call[d].pc = "undoing" => Undoing(g, rid(d))
  BY <1>3, SettleForm DEF Undoing, rid
<1>9. \A d \in Calls : rid(d)' = rid(d)
  BY <1>8 DEF rid
<1>10. ASSUME NEW d \in Calls, Undoing(g, rid(d)) PROVE NoAppend(rid(d))'
  <2>1. PICK z : z = rid(d)
    OBVIOUS
  <2>2. NoAppend(z)' /\ rid(d)' = z
    BY <1>7, <1>9, <1>10, <2>1
  <2> QED
    BY <2>2
<1> QED
  BY <1>3, <1>5, <1>6, <1>8, <1>10, StoreStepR DEF Settle

\* A save begins: its flush leaves the chain and is the one being saved.
LEMMA StartR ==
    ASSUME LedgerInv, SInv, RInv, StartSave, UNCHANGED <<live, frames>> PROVE RInv'
<1>1. PICK g : g = Head(queue)
  OBVIOUS
<1>2. PICK q : q = Tail(queue)
  OBVIOUS
<1>3. /\ saving = NoFlush /\ saving' = g /\ queue # << >> /\ queue' = q
      /\ UNCHANGED <<processed, call, served>>
  BY <1>1, <1>2 DEF StartSave
<1>4. /\ \A i \in 1..Len(q) : q[i].at = "appending" =>
            ~Undoing(g, q[i].rid) /\ \A j \in 1..(i - 1) : ~Undoing(q[j], q[i].rid)
      /\ \A r : (\A i \in 1..Len(queue) : ~AppendOf(queue[i], r)) =>
            ~AppendOf(g, r) /\ \A i \in 1..Len(q) : ~AppendOf(q[i], r)
      /\ \A r : (\A i \in 1..Len(queue) : ~Undoing(queue[i], r)) =>
            ~Undoing(g, r) /\ \A i \in 1..Len(q) : ~Undoing(q[i], r)
  BY <1>1, <1>2, <1>3, TailOrder DEF RInv
<1>5. \A r : (NoAppend(r) => NoAppend(r)') /\ (NoUndoing(r) => NoUndoing(r)')
  BY <1>3, <1>4 DEF NoAppend, NoUndoing, AppendOf, Undoing
<1>6. ChainOrder'
  BY <1>3, <1>4 DEF ChainOrder, Undoing
<1> QED
  BY <1>3, <1>5, <1>6, StoreStepR

\* The start and the end of the process: no call is pending and no append is
\* in the chain.
LEMMA RestingR ==
    ASSUME Roomy, RInv, load \/ Crash, LedgerInv, UNCHANGED frames PROVE RInv'
<1>1. \A d \in Calls : call'[d].pc = "idle"
  <2>1. CASE load
    BY <2>1 DEF load, LedgerInv, DownInv
  <2>2. CASE Crash
    BY <2>2 DEF Crash, Idle
  <2> QED
    BY <2>1, <2>2
<1>2. /\ saving'.at # "appending" /\ UNCHANGED served
      /\ queue' = << >> \/ queue' = <<Flush(NoCall, "load", 0)>>
  <2>1. CASE load
    <3>1. saving = NoFlush /\ UNCHANGED <<saving, served>>
      BY <2>1, NothingTrimmed DEF load, LedgerInv, DownInv
    <3>2. \E b : queue' = IF b THEN <<Flush(NoCall, "load", 0)>> ELSE << >>
      BY <2>1, Zenon DEF load
    <3>3. NoFlush.at = "none"
      BY DEF NoFlush, Flush
    <3> QED
      BY <3>1, <3>2, <3>3
  <2>2. CASE Crash
    BY <2>2 DEF Crash, NoFlush, Flush
  <2> QED
    BY <2>1, <2>2
<1>3. \A i \in 1..Len(queue') : queue'[i].at # "appending"
  BY <1>2 DEF Flush
<1>4. \A r : NoAppend(r)'
  BY <1>2, <1>3 DEF NoAppend, AppendOf
<1>5. HeldInv' /\ CallOrder' /\ ChainOrder'
  BY <1>1, <1>3 DEF HeldInv, CallOrder, ChainOrder, Streaming, Producing
<1>6. ClosedInv'
  BY <1>1, <1>4 DEF ClosedInv, Closed, Producing
<1>7. AnswerInv'
  BY <1>1, <1>2 DEF RInv, AnswerInv, Completed
<1> QED
  BY <1>5, <1>6, <1>7 DEF RInv

\* persistNow queues a flush of no response.
LEMMA PersistR ==
    ASSUME LedgerInv, RInv, persist, UNCHANGED <<live, frames>> PROVE RInv'
<1>1. PICK g : g = Flush(NoCall, "persist", 0)
  OBVIOUS
<1>2. /\ queue' = Append(queue, g) /\ g.at = "persist"
      /\ UNCHANGED <<processed, saving, call, served>>
  BY <1>1 DEF persist, file, Flush
<1>3. /\ Len(queue') = Len(queue) + 1 /\ Len(queue) \in Nat /\ queue'[Len(queue')] = g
      /\ \A i \in 1..Len(queue) : queue'[i] = queue[i]
  BY <1>2 DEF LedgerInv, TypeOK
<1>4. /\ \A r : NoAppend(r) => NoAppend(r)'
      /\ \A r : NoUndoing(r) => NoUndoing(r)'
  BY <1>2, <1>3 DEF NoAppend, NoUndoing, AppendOf, Undoing
<1>5. ASSUME NEW i \in 1..Len(queue'), queue'[i].at = "appending"
      PROVE  /\ ~Undoing(saving, queue'[i].rid)
             /\ \A j \in 1..(i - 1) : ~Undoing(queue'[j], queue'[i].rid)
  <2>1. i \in 1..Len(queue) /\ \A j \in 1..(i - 1) : j \in 1..Len(queue)
    BY <1>2, <1>3, <1>5
  <2> QED
    BY <1>3, <1>5, <2>1 DEF RInv, ChainOrder
<1>6. ChainOrder'
  BY <1>2, <1>5 DEF ChainOrder, Undoing
<1>7. HeldInv' /\ AnswerInv'
  BY <1>2 DEF RInv, HeldInv, AnswerInv, Completed
<1>8. \A c \in Calls : rid(c)' = rid(c)
  BY <1>2 DEF rid
<1>9. CallOrder'
  <2> SUFFICES ASSUME NEW d \in Calls
               PROVE  /\ call[d].pc \in Producing => NoUndoing(rid(d))'
                      /\ call[d].pc = "undoing" /\ call[d].flushed # "no" => NoAppend(rid(d))'
                      /\ call[d].pc = "failed" => NoAppend(rid(d))'
    BY <1>2 DEF CallOrder
  <2>1. PICK q : q = rid(d)
    OBVIOUS
  <2>2. /\ call[d].pc \in Producing => NoUndoing(q)'
        /\ call[d].pc = "undoing" /\ call[d].flushed # "no" => NoAppend(q)'
        /\ call[d].pc = "failed" => NoAppend(q)'
    BY <1>4, <2>1 DEF RInv, CallOrder
  <2>3. (NoAppend(rid(d))' <=> NoAppend(q)') /\ (NoUndoing(rid(d))' <=> NoUndoing(q)')
    BY <1>8, <2>1
  <2> QED
    BY <2>2, <2>3
<1>10. ClosedInv'
  <2> SUFFICES ASSUME NEW f \in frames, f.kind = "failed" PROVE Closed(f.rid)'
    BY DEF ClosedInv
  <2>1. Closed(f.rid)
    BY DEF RInv, ClosedInv
  <2> QED
    BY <1>2, <1>4, <1>8, <2>1 DEF Closed
<1> QED
  BY <1>6, <1>7, <1>9, <1>10 DEF RInv

\* Every step of deliver keeps what a large enough map gives.
LEMMA NextRInv ==
    ASSUME Roomy, LedgerInv, SInv, RInv, SInv', [StreamNext]_streamVars PROVE RInv'
<1>1. CASE UNCHANGED streamVars
  <2>1. UNCHANGED <<processed, queue, saving, served, call, frames>>
    BY <1>1 DEF streamVars, vars, memory, file
  <2>2. \A d \in Calls : Calm(d)
    BY <2>1 DEF Calm
  <2>3. HeldInv'
    BY <2>1, HeldStill DEF RInv
  <2>4. \A f \in frames' : f.ev \in Keys /\ (f \in frames \/ Ends(f))
    BY <2>1, EmitEnds
  <2>5. \A k \in Keys : served[k] \subseteq served'[k]
    BY <2>1
  <2> QED
    BY <2>1, <2>2, <2>3, <2>4, <2>5, CalmStep
<1>2. CASE DeliverSettled
  <2>0. ASSUME NEW z, EmitChunk(z) PROVE \A f \in frames' : f \in frames \/ f.kind = "chunk"
    BY <2>0 DEF EmitChunk, Frame
  <2>1. CASE FlushClean /\ \A f \in frames' : f \in frames \/ f.kind = "chunk"
    BY <2>1, CleanR
  <2>2. CASE SaveDone /\ \A f \in frames' : f \in frames \/ f.kind = "chunk"
    BY <2>2, SavedR DEF SaveDone
  <2>3. CASE StartSave /\ UNCHANGED <<live, frames>>
    BY <2>3, StartR
  <2>4. CASE SaveFailed /\ UNCHANGED <<live, frames>>
    BY <2>4, SavedR DEF SaveFailed
  <2> QED
    BY <1>2, <2>0, <2>1, <2>2, <2>3, <2>4 DEF DeliverSettled
<1>3. CASE DeliverCrash
  BY <1>3, RestingR DEF DeliverCrash
<1>4. CASE (load \/ persist) /\ UNCHANGED <<live, frames>>
  BY <1>4, RestingR, PersistR
<1>5. ASSUME NEW c \in Calls, DeliverStep(c) PROVE RInv'
  <2>1. CASE DeliverStarted(c) \/ DeliverChunk(c) \/ Respond(c) \/ DeliverFailed(c) \/ DeliverCompleted(c)
    BY <2>1, EmittedR, RespondR, FailedR, CompletedR
  <2>2. CASE (Labelled(c) \/ Sealed(c) \/ Undone(c)) /\ UNCHANGED <<live, frames>>
    BY <2>2, EndedR
  <2>3. CASE (FlushFailed(c) \/ LeaseTimeout(c) \/ ProviderFails(c)) /\ UNCHANGED <<live, frames>>
    BY <2>3, AbandonedR DEF FlushFailed, LeaseTimeout, ProviderFails, At
  <2>4. ASSUME NEW k \in Events, StreamCall(c, k), UNCHANGED <<live, frames>> PROVE RInv'
    BY <2>4, JoinedR, BegunR DEF StreamCall
  <2> QED
    BY <1>5, <2>1, <2>2, <2>3, <2>4 DEF DeliverStep
<1> QED
  BY <1>1, <1>2, <1>3, <1>4, <1>5 DEF StreamNext

\* Every reachable state of deliver has the three invariants.
LEMMA AlwaysRInv == ASSUME Roomy PROVE StreamSpec => [](LedgerInv /\ SInv /\ RInv)
<1>1. StreamInit => RInv
  <2> SUFFICES ASSUME StreamInit PROVE RInv
    OBVIOUS
  <2>1. /\ \A c \in Calls : call[c].pc = "idle"
        /\ frames = {} /\ queue = << >>
    BY DEF StreamInit, Init, Idle
  <2>2. HeldInv /\ CallOrder /\ ChainOrder /\ ClosedInv /\ AnswerInv
    BY <2>1 DEF HeldInv, CallOrder, ChainOrder, ClosedInv, AnswerInv, Streaming, Producing
  <2> QED
    BY <2>2 DEF RInv
<1>2. LedgerInv /\ SInv /\ RInv /\ [StreamNext]_streamVars => LedgerInv' /\ SInv' /\ RInv'
  <2> SUFFICES ASSUME LedgerInv, SInv, RInv, [StreamNext]_streamVars
               PROVE  LedgerInv' /\ SInv' /\ RInv'
    OBVIOUS
  <2>1. LedgerInv' /\ SInv'
    BY StreamKept, NextSInv DEF Kept
  <2> QED
    BY <2>1, NextRInv
<1>3. StreamInit => LedgerInv /\ SInv
  BY StreamStart DEF IInv
<1> QED
  BY <1>1, <1>2, <1>3, PTL DEF StreamSpec

\* chat-response-stream.mjs: whatever finals the phone is shown for one
\* message, live or replayed, after a retransmission or a restart, are the
\* same frame, as long as the map has room for the messages it is asked; the
\* exception is a start that finds half-written the file that had the answer.
THEOREM OneAnswerAlways ==
    ASSUME Roomy PROVE StreamSpec => []OneAnswerPerMessage
<1>1. IInv /\ SInv /\ RInv => OneAnswerPerMessage
  <2> SUFFICES ASSUME IInv, SInv, RInv, NEW f \in frames, NEW g \in frames,
                      f.kind = "completed", g.kind = "completed", f.ev = g.ev,
                      ~AnswerLost(f), ~AnswerLost(g)
               PROVE  f = g
    BY DEF OneAnswerPerMessage
  <2>1. PICK r \in served[f.ev] : f = Completed(f.ev, r)
    BY DEF RInv, AnswerInv
  <2>2. PICK s \in served[f.ev] : g = Completed(f.ev, s)
    BY DEF RInv, AnswerInv
  <2>3. f.ev \in Events
    BY DEF SInv, FramesInv, FrameOf
  <2>4. r \notin lost[f.ev] /\ s \notin lost[f.ev]
    BY <2>1, <2>2 DEF AnswerLost, Completed, Frame
  <2>5. r = s
    BY <2>1, <2>2, <2>3, <2>4 DEF IInv, ServedInv, ServedOf
  <2> QED
    BY <2>1, <2>2, <2>5
<1>2. StreamInit => ServedInv
  BY StreamStart DEF IInv
<1>3. LedgerInv /\ ServedInv /\ [StreamNext]_streamVars => ServedInv'
  BY StreamKept DEF Kept
<1>4. LedgerInv /\ ServedInv => IInv
  BY DEF IInv
<1> QED
  BY <1>1, <1>2, <1>3, <1>4, AlwaysRInv, PTL DEF StreamSpec

\* A step after failed was emitted emits no fragment of that response.
LEMMA ClosedStep ==
    ASSUME LedgerInv, SInv, RInv, [StreamNext]_streamVars, NEW f \in frames' \ frames,
           f.kind = "chunk", NEW g \in frames, g.rid = f.rid, g.kind = "failed"
    PROVE  FALSE
<1>1. Closed(f.rid)
  BY DEF RInv, ClosedInv
<1>2. ASSUME NEW z, EmitChunk(z) PROVE f.rid = z
  BY <1>2 DEF EmitChunk, Frame
<1>3. CASE DeliverSettled
  <2>1. PICK h \in {saving} \cup {Head(queue)} :
           Late(h) /\ EmitChunk(h.rid) /\ (h = saving \/ queue # << >>)
    BY <1>3 DEF DeliverSettled, FlushClean
  <2>2. AppendOf(h, f.rid)
    BY <1>2, <2>1 DEF Late, AppendOf
  <2>3. h = saving \/ \E i \in 1..Len(queue) : h = queue[i]
    <3>1. queue \in Seq(Flushes)
      BY DEF LedgerInv, TypeOK
    <3>2. queue # << >> => Head(queue) = queue[1] /\ 1 \in 1..Len(queue)
      BY <3>1
    <3> QED
      BY <2>1, <3>2
  <2> QED
    BY <1>1, <2>2, <2>3 DEF Closed, NoAppend
<1>4. ASSUME NEW c \in Calls, DeliverStep(c) PROVE FALSE
  <2>1. CASE DeliverChunk(c)
    BY <1>1, <1>2, <2>1 DEF DeliverChunk, Appended, At, Closed, Producing
  <2>2. CASE DeliverStarted(c) \/ DeliverFailed(c)
    BY <2>2 DEF DeliverStarted, DeliverFailed, Frame
  <2>3. CASE DeliverCompleted(c)
    BY <2>3, CompletedFrames
  <2> QED
    BY <1>4, <2>1, <2>2, <2>3 DEF DeliverStep, Respond
<1> QED
  BY <1>3, <1>4 DEF StreamNext, DeliverCrash, streamVars

\* chat-response-stream.mjs: failed ends a response for good, even when a
\* producer whose lease has run out is still appending; here too the map has
\* room for the messages it is asked.
THEOREM NothingAfterFailed ==
    ASSUME Roomy PROVE StreamSpec => NothingAfterTerminal
<1>1. LedgerInv /\ SInv /\ RInv /\ [StreamNext]_streamVars =>
        [\A f \in frames' \ frames :
            f.kind = "chunk" => ~\E g \in frames : g.rid = f.rid /\ g.kind = "failed"]_streamVars
  BY ClosedStep
<1> QED
  BY <1>1, AlwaysRInv, PTL DEF StreamSpec, NothingAfterTerminal
=============================================================================
