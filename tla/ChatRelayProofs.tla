---------------------------- MODULE ChatRelayProofs ----------------------------
(***************************************************************************)
(* What holds of the relay's documents for any questions, calls, faults    *)
(* and revocations.                                                        *)
(***************************************************************************)
EXTENDS ChatRelay, FiniteSetTheorems, TLAPS

Places == {"idle", "next", "joining", "generating", "replying", "failing", "removing", "kept"}
HandlerType == [pc : Places, path : {"relay", "direct", "cut"}, batch : Seq(Questions)]

\* A call has documents while it is under way, and those of a snapshot may be
\* several.
Shape ==
    /\ handler \in [Handlers -> HandlerType]
    /\ docs \subseteq Questions /\ fresh \subseteq docs
    /\ \A h \in Handlers :
          /\ At(h, "idle") => handler[h].batch = << >>
          /\ ~At(h, "idle") => Len(handler[h].batch) # 0
          /\ At(h, "idle") \/ At(h, "next") \/ At(h, "removing") => Relayed(h)
          /\ ~Relayed(h) => Len(handler[h].batch) = 1

\* A document that was handed over is in the hands of one call, once, until
\* that call lets go of it: nothing puts or offers it again meanwhile.
Handed ==
    /\ \A h \in Handlers : \A i \in 1..Len(handler[h].batch) :
          Relayed(h) => handler[h].batch[i] \in docs \ fresh
    /\ \A g, h \in Handlers :
          \A i \in 1..Len(handler[g].batch), j \in 1..Len(handler[h].batch) :
              Relayed(g) /\ Relayed(h) /\ handler[g].batch[i] = handler[h].batch[j]
                  => g = h /\ i = j

\* A call that removes its document has settled it.
Removing == \A h \in Handlers : At(h, "removing") => Doc(h) \in settled

IInv == Shape /\ Handed /\ Removing

-----------------------------------------------------------------------------
\* A snapshot hands over each of its documents once.
LEMMA Order ==
    ASSUME NEW S \in SUBSET Questions, S # {}, NEW order \in SetToSeqs(S)
    PROVE  /\ order \in Seq(Questions) /\ Len(order) # 0
           /\ \A i \in 1..Len(order) : order[i] \in S
           /\ \A i, j \in 1..Len(order) : order[i] = order[j] => i = j
<1>1. IsFiniteSet(S)
  BY RelayAssumption, FS_Subset
<1>2. Cardinality(S) \in Nat /\ Cardinality(S) # 0
  BY <1>1, FS_CardinalityType, FS_EmptySet
<1>3. PICK n \in Nat : n = Cardinality(S)
  BY <1>2
<1>4. /\ order \in [1..n -> S]
      /\ \A i, j \in 1..n : i # j => order[i] # order[j]
  BY <1>3 DEF SetToSeqs
<1>5. order \in Seq(S) /\ Len(order) = n
  BY <1>4
<1>6. order \in Seq(Questions)
  BY <1>4, <1>5
<1> QED
  BY <1>2, <1>3, <1>4, <1>5, <1>6

\* The invariant holds at first.
LEMMA InitIInv == Init => IInv
BY DEF Init, IInv, Shape, Handed, Removing, HandlerType, Places, AtRest, At, Relayed

\* A step that is none of the documents' business.
LEMMA Untouched ==
    ASSUME IInv, UNCHANGED <<docs, fresh, handler, settled>>
    PROVE  IInv'
BY DEF IInv, Shape, Handed, Removing, At, Relayed, Doc

\* The calls go on with the documents they have.
GoesOn(h) ==
    /\ handler'[h] \in HandlerType /\ handler'[h].batch = handler[h].batch
    /\ handler'[h].path = "relay" <=> handler[h].path = "relay"
    /\ \/ handler'[h].pc = handler[h].pc
       \/ /\ handler[h].pc # "idle"
          /\ handler'[h].pc \in {"joining", "generating", "replying", "failing", "kept"}
       \/ /\ handler[h].pc # "idle" /\ handler'[h].pc = "removing"
          /\ Relayed(h) /\ Doc(h) \in settled'

\* Calls that go on with their documents keep the invariant.
LEMMA GoOn ==
    ASSUME IInv, UNCHANGED <<docs, fresh>>, settled \subseteq settled',
           DOMAIN handler' = Handlers, handler' = [h \in Handlers |-> handler'[h]],
           \A h \in Handlers : GoesOn(h)
    PROVE  IInv'
<1>1. handler' \in [Handlers -> HandlerType]
  BY DEF GoesOn
<1>2. Shape'
  BY <1>1 DEF IInv, Shape, GoesOn, At, Relayed
<1>3. Handed'
  BY DEF IInv, Handed, GoesOn, Relayed
<1>4. Removing'
  BY DEF IInv, Removing, GoesOn, At, Doc
<1> QED
  BY <1>2, <1>3, <1>4 DEF IInv

\* A link that is cut changes no document of a call.
LEMMA CutGoesOn ==
    ASSUME IInv, handler' = Cut(handler), UNCHANGED <<docs, fresh, settled>>
    PROVE  IInv'
<1>1. ASSUME NEW h \in Handlers PROVE GoesOn(h)
  BY DEF IInv, Shape, HandlerType, Cut, GoesOn
<1>2. handler' = [h \in Handlers |-> handler'[h]] /\ DOMAIN handler' = Handlers
  BY DEF Cut
<1> QED
  BY <1>1, <1>2, GoOn

\* A call moves, and those that share its generation with it.
LEMMA ReleasedGoesOn ==
    ASSUME IInv, NEW h \in Handlers, At(h, "generating"), NEW pc \in {"replying", "failing"},
           NEW joined \in {"replying", "kept"}, Released(h, pc, joined),
           UNCHANGED <<docs, fresh, settled>>
    PROVE  IInv'
<1>1. ASSUME NEW g \in Handlers PROVE GoesOn(g)
  BY <1>1 DEF IInv, Shape, HandlerType, Places, Released, GoesOn, At
<1>2. handler' = [g \in Handlers |-> handler'[g]] /\ DOMAIN handler' = Handlers
  BY DEF Released
<1> QED
  BY <1>1, <1>2, GoOn

\* One call moves.
LEMMA GoGoesOn ==
    ASSUME IInv, NEW h \in Handlers, NEW rec \in HandlerType, ~At(h, "idle"),
           handler' = [handler EXCEPT ![h] = rec],
           rec.batch = handler[h].batch, rec.path = handler[h].path,
           \/ rec.pc \in {"joining", "generating", "replying", "failing", "kept"}
           \/ rec.pc = "removing" /\ Relayed(h) /\ Doc(h) \in settled',
           UNCHANGED <<docs, fresh>>, settled \subseteq settled'
    PROVE  IInv'
<1>1. ASSUME NEW g \in Handlers PROVE GoesOn(g)
  BY <1>1 DEF IInv, Shape, GoesOn, At
<1>2. handler' = [g \in Handlers |-> handler'[g]] /\ DOMAIN handler' = Handlers
  BY DEF IInv, Shape
<1> QED
  BY <1>1, <1>2, GoOn

\* The rest of a sequence.
LEMMA TailOf ==
    ASSUME NEW S, NEW b \in Seq(S), Len(b) # 0, Len(b) # 1
    PROVE  /\ Tail(b) \in Seq(S) /\ Len(Tail(b)) = Len(b) - 1 /\ Len(Tail(b)) # 0
           /\ \A i \in 1..Len(Tail(b)) : Tail(b)[i] = b[i + 1] /\ i + 1 \in 2..Len(b)
OBVIOUS

\* A call lets go of its document, which may go, and takes its next.
LEMMA Finishes ==
    ASSUME IInv, NEW h \in Handlers, ~At(h, "idle"), Finish(h), UNCHANGED settled,
           \/ UNCHANGED <<docs, fresh>>
           \/ Relayed(h) /\ docs' = docs \ {Doc(h)} /\ fresh' = fresh \ {Doc(h)}
    PROVE  IInv'
<1> DEFINE b == handler[h].batch
<1>0. /\ handler \in [Handlers -> HandlerType] /\ b \in Seq(Questions)
      /\ Len(b) \in Nat /\ Len(b) # 0 /\ Doc(h) = b[1]
  BY DEF IInv, Shape, HandlerType, Doc
<1>1. \A g \in Handlers \ {h} : handler'[g] = handler[g]
  BY <1>0 DEF Finish
<1>2. \/ Len(b) = 1 /\ handler'[h] = AtRest
      \/ /\ Len(b) # 1 /\ handler'[h].pc = "next" /\ handler'[h].path = handler[h].path
         /\ handler'[h].batch = Tail(b) /\ Relayed(h) /\ handler'[h] \in HandlerType
  <2>1. CASE Len(b) = 1
    BY <1>0, <2>1 DEF Finish
  <2>2. CASE Len(b) # 1
    <3>1. handler'[h] = [pc |-> "next", path |-> handler[h].path, batch |-> Tail(b)]
      BY <1>0, <2>2 DEF Finish
    <3>2. Relayed(h)
      BY <2>2 DEF IInv, Shape
    <3>3. Tail(b) \in Seq(Questions)
      BY <1>0, <2>2, TailOf
    <3>4. handler[h].path \in {"relay", "direct", "cut"}
      BY <1>0 DEF HandlerType
    <3>5. handler'[h] \in HandlerType
      BY <3>1, <3>3, <3>4 DEF HandlerType, Places
    <3> HIDE DEF b
    <3> QED
      BY <2>2, <3>1, <3>2, <3>5
  <2> QED
    BY <2>1, <2>2
<1>3. AtRest \in HandlerType /\ AtRest.batch = << >> /\ AtRest.pc = "idle" /\ AtRest.path = "relay"
  BY DEF AtRest, HandlerType, Places
<1>4. Len(b) # 1 => /\ Len(Tail(b)) = Len(b) - 1 /\ Len(Tail(b)) # 0
                    /\ \A i \in 1..Len(Tail(b)) : Tail(b)[i] = b[i + 1] /\ i + 1 \in 2..Len(b)
  BY <1>0, TailOf
<1>5. Shape'
  <2>1. handler' \in [Handlers -> HandlerType]
    <3>1. handler' = [g \in Handlers |-> handler'[g]]
      BY <1>0 DEF Finish
    <3>2. \A g \in Handlers : handler'[g] \in HandlerType
      BY <1>0, <1>1, <1>2, <1>3
    <3> QED
      BY <3>1, <3>2
  <2>2. docs' \subseteq Questions /\ fresh' \subseteq docs'
    BY DEF IInv, Shape
  <2>3. ASSUME NEW g \in Handlers
        PROVE  /\ At(g, "idle")' => handler'[g].batch = << >>
               /\ ~At(g, "idle")' => Len(handler'[g].batch) # 0
               /\ At(g, "idle")' \/ At(g, "next")' \/ At(g, "removing")' => Relayed(g)'
               /\ ~Relayed(g)' => Len(handler'[g].batch) = 1
    <3>1. CASE g # h
      BY <1>1, <3>1 DEF IInv, Shape, At, Relayed
    <3>2. CASE g = h
      <4>1. CASE Len(b) = 1
        BY <1>2, <1>3, <3>2, <4>1 DEF At, Relayed
      <4>2. CASE Len(b) # 1
        <5>1. handler'[h].pc = "next" /\ handler'[h].path = "relay"
          BY <1>2, <4>2 DEF Relayed
        <5>2. Len(handler'[h].batch) # 0
          BY <1>0, <1>2, <1>4, <4>2
        <5> QED
          BY <3>2, <5>1, <5>2 DEF At, Relayed
      <4> QED
        BY <4>1, <4>2
    <3> QED
      BY <3>1, <3>2
  <2> QED
    BY <2>1, <2>2, <2>3 DEF Shape
<1>6. ASSUME NEW i \in 1..Len(handler'[h].batch)
      PROVE  Relayed(h) /\ i + 1 \in 2..Len(b) /\ handler'[h].batch[i] = b[i + 1]
  <2>1. CASE Len(b) = 1
    <3>1. Len(handler'[h].batch) = 0
      BY <1>2, <1>3, <2>1
    <3> QED
      BY <1>6, <3>1
  <2>2. CASE Len(b) # 1
    <3>1. handler'[h].batch = Tail(b) /\ Relayed(h)
      BY <1>2, <2>2
    <3> QED
      BY <1>4, <1>6, <2>2, <3>1
  <2> QED
    BY <2>1, <2>2
<1>7. Handed'
  <2>1. ASSUME NEW g \in Handlers, NEW i \in 1..Len(handler'[g].batch), Relayed(g)'
        PROVE  handler'[g].batch[i] \in docs' \ fresh'
    <3>1. CASE g # h
      <4>1. handler'[g] = handler[g] /\ Relayed(g)
        BY <1>1, <2>1, <3>1 DEF Relayed
      <4>2. handler[g].batch[i] \in docs \ fresh
        BY <2>1, <4>1 DEF IInv, Handed
      <4>3. Relayed(h) => handler[g].batch[i] # b[1]
        BY <1>0, <2>1, <3>1, <4>1 DEF IInv, Handed
      <4> QED
        BY <1>0, <4>1, <4>2, <4>3
    <3>2. CASE g = h
      <4>1. /\ Relayed(h) /\ i + 1 \in 2..Len(b) /\ handler'[h].batch[i] = b[i + 1]
            /\ 1 \in 1..Len(b) /\ i + 1 \in 1..Len(b) /\ i + 1 # 1
        BY <1>0, <1>6, <2>1, <3>2
      <4>2. b[i + 1] \in docs \ fresh /\ b[i + 1] # b[1]
        BY <4>1 DEF IInv, Handed
      <4> QED
        BY <1>0, <3>2, <4>1, <4>2
    <3> QED
      BY <3>1, <3>2
  <2>2. ASSUME NEW f \in Handlers, NEW g \in Handlers,
               NEW i \in 1..Len(handler'[f].batch), NEW j \in 1..Len(handler'[g].batch),
               Relayed(f)', Relayed(g)', handler'[f].batch[i] = handler'[g].batch[j]
        PROVE  f = g /\ i = j
    <3>1. PICK x \in 1..Len(handler[f].batch) :
            /\ Relayed(f) /\ handler'[f].batch[i] = handler[f].batch[x]
            /\ x = IF f = h THEN i + 1 ELSE i
      BY <1>0, <1>1, <1>6, <2>2 DEF Relayed
    <3>2. PICK y \in 1..Len(handler[g].batch) :
            /\ Relayed(g) /\ handler'[g].batch[j] = handler[g].batch[y]
            /\ y = IF g = h THEN j + 1 ELSE j
      BY <1>0, <1>1, <1>6, <2>2 DEF Relayed
    <3>3. f = g /\ x = y
      BY <2>2, <3>1, <3>2 DEF IInv, Handed
    <3>4. i \in Nat /\ j \in Nat
      BY <1>0, <1>2, <1>3, <1>4, <1>1, <2>2
    <3> QED
      BY <3>1, <3>2, <3>3, <3>4
  <2> QED
    BY <2>1, <2>2 DEF Handed
<1>8. Removing'
  BY <1>1, <1>2, <1>3 DEF IInv, Removing, At, Doc
<1> QED
  BY <1>5, <1>7, <1>8 DEF IInv

\* One call moves, and keeps its path and its documents.
LEMMA Goes ==
    ASSUME IInv, NEW h \in Handlers, ~At(h, "idle"), NEW pc, Go(h, pc),
           \/ pc \in {"failing", "kept"}
           \/ pc = "removing" /\ Relayed(h) /\ Doc(h) \in settled',
           UNCHANGED <<docs, fresh>>, settled \subseteq settled'
    PROVE  IInv'
<1> DEFINE rec == [pc |-> pc, path |-> handler[h].path, batch |-> handler[h].batch]
<1>1. handler \in [Handlers -> HandlerType]
  BY DEF IInv, Shape
<1>2. rec \in HandlerType
  BY <1>1 DEF HandlerType, Places
<1>3. handler' = [handler EXCEPT ![h] = rec]
  <2>1. handler[h] \in HandlerType
    BY <1>1
  <2>2. [handler[h] EXCEPT !.pc = pc] = rec
    BY <2>1 DEF HandlerType
  <2>3. handler' = [handler EXCEPT ![h] = [handler[h] EXCEPT !.pc = pc]]
    BY <1>1 DEF Go
  <2> QED
    BY <2>2, <2>3
<1>4. rec.batch = handler[h].batch /\ rec.path = handler[h].path /\ rec.pc = pc
  OBVIOUS
<1> HIDE DEF rec
<1> QED
  BY <1>2, <1>3, <1>4, GoGoesOn

\* A question in the relay's hands is in the relay.
LEMMA DocIn ==
    ASSUME IInv, NEW h \in Handlers, ~At(h, "idle"), Relayed(h)
    PROVE  Doc(h) \in docs \ fresh
<1>1. handler[h].batch \in Seq(Questions) /\ Len(handler[h].batch) # 0
  BY DEF IInv, Shape, HandlerType
<1>2. 1 \in 1..Len(handler[h].batch) /\ Doc(h) = handler[h].batch[1]
  BY <1>1 DEF Doc
<1> QED
  BY <1>2 DEF IInv, Handed

\* A document that is put is in nobody's hands.
LEMMA PutHolds ==
    ASSUME IInv, NEW q \in Questions, SendRelay(q)
    PROVE  IInv'
<1>1. /\ q \notin docs /\ UNCHANGED handler /\ settled' = settled \ {q}
      /\ docs' = docs \cup {q} /\ fresh' = fresh \cup {q}
  BY DEF SendRelay
<1>2. docs \ fresh \subseteq docs' \ fresh'
  BY <1>1
<1>3. Shape'
  BY <1>1 DEF IInv, Shape, At, Relayed
<1>4. Handed'
  BY <1>1, <1>2 DEF IInv, Handed, Relayed
<1>5. ASSUME NEW h \in Handlers, At(h, "removing")' PROVE Doc(h)' \in settled'
  <2>1. At(h, "removing") /\ ~At(h, "idle") /\ Doc(h)' = Doc(h)
    BY <1>1, <1>5 DEF At, Doc
  <2>2. Relayed(h) /\ Doc(h) \in settled
    BY <2>1 DEF IInv, Shape, Removing
  <2>3. Doc(h) # q
    BY <1>1, <2>1, <2>2, DocIn
  <2> QED
    BY <1>1, <2>1, <2>2, <2>3
<1> QED
  BY <1>3, <1>4, <1>5 DEF IInv, Removing

\* A snapshot gives an idle call documents that nobody had.
LEMMA OfferedHolds ==
    ASSUME IInv, NEW h \in Handlers, Offered(h)
    PROVE  IInv'
<1>1. PICK order \in SetToSeqs(fresh) :
        handler' = [handler EXCEPT ![h].pc = "next", ![h].batch = order]
  BY DEF Offered
<1>2. /\ At(h, "idle") /\ fresh # {} /\ fresh' = {} /\ UNCHANGED <<docs, settled>>
      /\ handler \in [Handlers -> HandlerType] /\ fresh \subseteq docs /\ docs \subseteq Questions
      /\ Relayed(h)
  BY DEF Offered, history, IInv, Shape
<1>3. /\ order \in Seq(Questions) /\ Len(order) # 0
      /\ \A i \in 1..Len(order) : order[i] \in fresh
      /\ \A i, j \in 1..Len(order) : order[i] = order[j] => i = j
  BY <1>1, <1>2, Order
<1>4. /\ handler'[h].pc = "next" /\ handler'[h].path = "relay" /\ handler'[h].batch = order
      /\ handler'[h] \in HandlerType
      /\ \A g \in Handlers \ {h} : handler'[g] = handler[g]
      /\ handler' = [g \in Handlers |-> handler'[g]]
  <2>1. handler[h].path = "relay"
    BY <1>2 DEF Relayed
  <2>2. handler[h] \in HandlerType
    BY <1>2
  <2>3. handler'[h] = [handler[h] EXCEPT !.pc = "next", !.batch = order]
    BY <1>1, <1>2
  <2>4. handler'[h] = [pc |-> "next", path |-> "relay", batch |-> order]
    BY <2>1, <2>2, <2>3 DEF HandlerType
  <2>5. handler'[h] \in HandlerType
    BY <1>3, <2>4 DEF HandlerType, Places
  <2>6. \A g \in Handlers \ {h} : handler'[g] = handler[g]
    BY <1>1, <1>2
  <2>7. handler' = [g \in Handlers |-> handler'[g]]
    BY <1>1, <1>2
  <2> QED
    BY <2>4, <2>5, <2>6, <2>7
<1>5. Shape'
  <2>1. handler' \in [Handlers -> HandlerType]
    BY <1>2, <1>4
  <2>2. ASSUME NEW g \in Handlers
        PROVE  /\ At(g, "idle")' => handler'[g].batch = << >>
               /\ ~At(g, "idle")' => Len(handler'[g].batch) # 0
               /\ At(g, "idle")' \/ At(g, "next")' \/ At(g, "removing")' => Relayed(g)'
               /\ ~Relayed(g)' => Len(handler'[g].batch) = 1
    <3>1. CASE g # h
      BY <1>4, <3>1 DEF IInv, Shape, At, Relayed
    <3>2. CASE g = h
      BY <1>3, <1>4, <3>2 DEF At, Relayed
    <3> QED
      BY <3>1, <3>2
  <2> QED
    BY <1>2, <2>1, <2>2 DEF Shape
<1>6. Handed'
  <2>1. ASSUME NEW g \in Handlers, NEW i \in 1..Len(handler'[g].batch), Relayed(g)'
        PROVE  /\ handler'[g].batch[i] \in docs
               /\ g = h <=> handler'[g].batch[i] \in fresh
    <3>1. CASE g # h
      BY <1>4, <2>1, <3>1 DEF IInv, Handed, Relayed
    <3>2. CASE g = h
      BY <1>2, <1>3, <1>4, <3>2
    <3> QED
      BY <3>1, <3>2
  <2>2. ASSUME NEW f \in Handlers, NEW g \in Handlers,
               NEW i \in 1..Len(handler'[f].batch), NEW j \in 1..Len(handler'[g].batch),
               Relayed(f)', Relayed(g)', handler'[f].batch[i] = handler'[g].batch[j]
        PROVE  f = g /\ i = j
    <3>1. f = h <=> g = h
      BY <2>1, <2>2
    <3>2. CASE f = h
      BY <1>3, <1>4, <2>2, <3>1, <3>2
    <3>3. CASE f # h
      BY <1>4, <2>2, <3>1, <3>3 DEF IInv, Handed, Relayed
    <3> QED
      BY <3>2, <3>3
  <2> QED
    BY <1>2, <2>1, <2>2 DEF Handed
<1>7. ASSUME NEW g \in Handlers, At(g, "removing")' PROVE Doc(g)' \in settled'
  <2>1. g # h /\ handler'[g] = handler[g]
    BY <1>4, <1>7 DEF At
  <2> QED
    BY <1>2, <1>7, <2>1 DEF IInv, Removing, At, Doc
<1> QED
  BY <1>5, <1>6, <1>7 DEF IInv, Removing

\* What comes through the socket is one question, and none of the relay's.
LEMMA HandleEventHolds ==
    ASSUME IInv, NEW h \in Handlers, NEW q \in Questions, handleEvent(h, q)
    PROVE  IInv'
<1>1. UNCHANGED <<docs, fresh, settled>> /\ At(h, "idle")
  BY DEF handleEvent, cloud, history
<1>2. CASE ~Valid(q)
  BY <1>1, <1>2, CutGoesOn DEF handleEvent
<1>3. CASE Valid(q)
  <2>1. PICK pc \in {"joining", "replying", "generating"} :
          handler' = [handler EXCEPT ![h] = [pc |-> pc, path |-> "direct", batch |-> <<q>>]]
    BY <1>3 DEF handleEvent, streamOnce
  <2>2. handler \in [Handlers -> HandlerType]
    BY DEF IInv, Shape
  <2>3. /\ handler'[h] = [pc |-> pc, path |-> "direct", batch |-> <<q>>]
        /\ \A g \in Handlers \ {h} : handler'[g] = handler[g]
        /\ handler' = [g \in Handlers |-> handler'[g]]
    BY <2>1, <2>2
  <2>4. handler'[h] \in HandlerType
    BY <2>3 DEF HandlerType, Places
  <2>5. ~Relayed(h)' /\ ~At(h, "removing")' /\ ~At(h, "idle")' /\ ~At(h, "next")'
        /\ Len(handler'[h].batch) = 1
    BY <2>3 DEF Relayed, At
  <2>6. Shape'
    <3>1. handler' \in [Handlers -> HandlerType]
      BY <2>2, <2>3, <2>4
    <3>2. docs' \subseteq Questions /\ fresh' \subseteq docs'
      BY <1>1 DEF IInv, Shape
    <3>3. ASSUME NEW g \in Handlers, g # h
          PROVE  /\ At(g, "idle")' => handler'[g].batch = << >>
                 /\ ~At(g, "idle")' => Len(handler'[g].batch) # 0
                 /\ At(g, "idle")' \/ At(g, "next")' \/ At(g, "removing")' => Relayed(g)'
                 /\ ~Relayed(g)' => Len(handler'[g].batch) = 1
      BY <2>3, <3>3 DEF IInv, Shape, At, Relayed
    <3> QED
      BY <2>5, <3>1, <3>2, <3>3 DEF Shape
  <2>7. ASSUME NEW g \in Handlers, Relayed(g)' PROVE g # h /\ handler'[g] = handler[g] /\ Relayed(g)
    BY <2>3, <2>5, <2>7 DEF Relayed
  <2>8. Handed'
    BY <1>1, <2>7 DEF IInv, Handed
  <2>9. ASSUME NEW g \in Handlers, At(g, "removing")' PROVE Doc(g)' \in settled'
    <3>1. handler'[g] = handler[g]
      BY <2>3, <2>5, <2>9
    <3> QED
      BY <1>1, <2>9, <3>1 DEF IInv, Removing, At, Doc
  <2> QED
    BY <2>6, <2>8, <2>9 DEF IInv, Removing
<1> QED
  BY <1>2, <1>3

\* A document is taken up, or refused for good.
LEMMA HandleDocumentHolds ==
    ASSUME IInv, NEW h \in Handlers, handleDocument(h)
    PROVE  IInv'
<1>1. UNCHANGED <<docs, fresh>> /\ At(h, "next") /\ ~At(h, "idle")
  BY DEF handleDocument, cloud, At
<1>2. Relayed(h)
  BY <1>1 DEF IInv, Shape
<1>3. CASE ~Valid(Doc(h))
  BY <1>1, <1>2, <1>3, Goes DEF handleDocument
<1>4. CASE Valid(Doc(h))
  <2>1. PICK pc \in {"joining", "replying", "generating"} :
          handler' = [handler EXCEPT ![h] =
                        [pc |-> pc, path |-> "relay", batch |-> handler[h].batch]]
    BY <1>4 DEF handleDocument, streamOnce
  <2> DEFINE rec == [pc |-> pc, path |-> "relay", batch |-> handler[h].batch]
  <2>2. rec \in HandlerType
    BY DEF IInv, Shape, HandlerType, Places
  <2>3. rec.batch = handler[h].batch /\ rec.path = handler[h].path /\ rec.pc = pc
    BY <1>2 DEF Relayed
  <2>4. UNCHANGED settled
    BY <1>4 DEF handleDocument
  <2>5. handler' = [handler EXCEPT ![h] = rec]
    BY <2>1
  <2> HIDE DEF rec
  <2> QED
    BY <1>1, <2>2, <2>3, <2>4, <2>5, GoGoesOn
<1> QED
  BY <1>3, <1>4

\* A restart forgets the calls, and is told of every document again.
LEMMA RestartHolds == IInv /\ Restart => IInv'
<1> SUFFICES ASSUME IInv, Restart PROVE IInv'
  OBVIOUS
<1>1. /\ docs' = docs /\ fresh' = docs /\ docs \subseteq Questions
      /\ handler' = [h \in Handlers |-> AtRest]
  BY DEF Restart, IInv, Shape
<1>2. /\ AtRest \in HandlerType /\ AtRest.batch = << >> /\ AtRest.pc = "idle"
      /\ AtRest.path = "relay" /\ Len(AtRest.batch) = 0
  BY DEF AtRest, HandlerType, Places
<1>3. \A h \in Handlers : handler'[h] = AtRest
  BY <1>1
<1>4. handler' \in [Handlers -> HandlerType]
  BY <1>1, <1>2
<1>5. Shape'
  BY <1>1, <1>2, <1>3, <1>4 DEF Shape, At, Relayed
<1>6. Handed'
  BY <1>2, <1>3 DEF Handed
<1>7. Removing'
  BY <1>2, <1>3 DEF Removing, At
<1> QED
  BY <1>5, <1>6, <1>7 DEF IInv

\* The invariant is inductive.
LEMMA StepIInv == IInv /\ [Next]_vars => IInv'
<1> SUFFICES ASSUME IInv, [Next]_vars PROVE IInv'
  OBVIOUS
<1> USE DEF phone, link, cloud, ledger, history
<1>1. ASSUME NEW q \in Questions, sealAndEnqueue(q) \/ SendDirect(q) PROVE IInv'
  BY <1>1, Untouched DEF sealAndEnqueue, SendDirect
<1>2. ASSUME NEW q \in Questions, SendRelay(q) PROVE IInv'
  BY <1>2, PutHolds
<1>3. CASE LinkUp \/ revoke
  BY <1>3, Untouched DEF LinkUp, revoke
<1>4. CASE LinkDown \/ PhoneDies
  BY <1>4, CutGoesOn DEF LinkDown, PhoneDies
<1>5. CASE Restart
  BY <1>5, RestartHolds
<1>6. ASSUME NEW r, Watched(r) \/ ingest(r) PROVE IInv'
  BY <1>6, Untouched DEF Watched, ingest
<1>7. ASSUME NEW h \in Handlers, Offered(h) PROVE IInv'
  BY <1>7, OfferedHolds
<1>8. ASSUME NEW h \in Handlers, NEW q \in Questions, handleEvent(h, q) PROVE IInv'
  BY <1>8, HandleEventHolds
<1>9. ASSUME NEW h \in Handlers, handleDocument(h) PROVE IInv'
  BY <1>9, HandleDocumentHolds
<1>10. ASSUME NEW h \in Handlers, Generated(h) PROVE IInv'
  BY <1>10, ReleasedGoesOn DEF Generated
<1>11. ASSUME NEW h \in Handlers, GenerationFails(h) PROVE IInv'
  BY <1>11, ReleasedGoesOn DEF GenerationFails
<1>12. ASSUME NEW h \in Handlers, EmitRelay(h) PROVE IInv'
  <2>1. ~At(h, "idle") /\ Relayed(h) /\ Go(h, "removing") /\ UNCHANGED <<docs, fresh>>
        /\ settled' = settled \cup {Doc(h)}
    BY <1>12 DEF EmitRelay, At
  <2> QED
    BY <2>1, Goes
<1>13. ASSUME NEW h \in Handlers, EmitFails(h) PROVE IInv'
  <2>1. ~At(h, "idle") /\ Go(h, "kept") /\ UNCHANGED <<docs, fresh, settled>>
    BY <1>13 DEF EmitFails, At
  <2> QED
    BY <2>1, Goes
<1>14. ASSUME NEW h \in Handlers, EmitDirect(h) \/ Kept(h) \/ RemoveFails(h) PROVE IInv'
  <2>1. ~At(h, "idle") /\ Finish(h) /\ UNCHANGED <<docs, fresh, settled>>
    BY <1>14 DEF EmitDirect, Kept, RemoveFails, At
  <2> QED
    BY <2>1, Finishes
<1>15. ASSUME NEW h \in Handlers, remove(h) PROVE IInv'
  <2>1. /\ At(h, "removing") /\ ~At(h, "idle") /\ Finish(h) /\ UNCHANGED settled
        /\ docs' = docs \ {Doc(h)} /\ fresh' = fresh \ {Doc(h)}
    BY <1>15 DEF remove, At
  <2>2. Relayed(h)
    BY <2>1 DEF IInv, Shape
  <2> QED
    BY <2>1, <2>2, Finishes
<1>16. CASE UNCHANGED vars
  BY <1>16, Untouched DEF vars
<1> QED
  BY <1>1, <1>2, <1>3, <1>4, <1>5, <1>6, <1>7, <1>8, <1>9, <1>10, <1>11, <1>12, <1>13,
     <1>14, <1>15, <1>16 DEF Next, drainOnce, Starts, Step, Fails

\* Only a call that removes its document takes one out of the relay.
LEMMA StepSettled ==
    IInv /\ [Next]_vars => (docs \ docs' \subseteq settled')
<1> SUFFICES ASSUME IInv, [Next]_vars PROVE docs \ docs' \subseteq settled'
  OBVIOUS
<1> USE DEF phone, link, cloud, ledger, history
<1>1. ASSUME NEW h \in Handlers, remove(h) PROVE docs \ docs' \subseteq settled'
  BY <1>1 DEF remove, IInv, Removing
<1>2. CASE \E q \in Questions : sealAndEnqueue(q) \/ SendDirect(q) \/ SendRelay(q)
  BY <1>2 DEF sealAndEnqueue, SendDirect, SendRelay
<1>3. CASE LinkUp \/ LinkDown \/ PhoneDies \/ Restart \/ revoke
  BY <1>3 DEF LinkUp, LinkDown, PhoneDies, Restart, revoke
<1>4. CASE \E r : Watched(r) \/ ingest(r)
  BY <1>4 DEF Watched, ingest
<1>5. CASE \E h \in Handlers : Starts(h)
  BY <1>5 DEF Starts, Offered, handleEvent
<1>6. CASE \E h \in Handlers : handleDocument(h) \/ Generated(h) \/ EmitDirect(h)
                                \/ EmitRelay(h) \/ Kept(h)
  BY <1>6 DEF handleDocument, Generated, EmitDirect, EmitRelay, Kept
<1>7. CASE \E h \in Handlers : Fails(h)
  BY <1>7 DEF Fails, GenerationFails, EmitFails, RemoveFails
<1>8. CASE UNCHANGED vars
  BY <1>8 DEF vars
<1> QED
  BY <1>1, <1>2, <1>3, <1>4, <1>5, <1>6, <1>7, <1>8 DEF Next, drainOnce, Step

\* A question leaves the relay only once a terminal answer to it has been put
\* there or it was refused for good, for any number of questions, calls,
\* faults and revocations (chat-relay.mjs, handleDocument and its finally).
THEOREM RemovedOnlySettledHolds == Spec => RemovedOnlySettled
<1>1. Spec => []IInv
  BY InitIInv, StepIInv, PTL DEF Spec
<1>2. IInv /\ [Next]_vars => [docs \ docs' \subseteq settled']_vars
  BY StepSettled
<1> QED
  BY <1>1, <1>2, PTL DEF Spec, RemovedOnlySettled

-----------------------------------------------------------------------------
(***************************************************************************)
(* The types of the relay, which the tokens of the phone, the identifiers  *)
(* minted and the leases of the PC's ledger have a part in.                *)
(***************************************************************************)
\* What the phone, the link and the PC hold is of its kind; the phone's key is
\* never newer than the registry's.
Types ==
    /\ row \in [Questions -> {"unwritten", "queued", "acked"}]
    /\ sealed \in [Questions -> 0..MaxEpoch]
    /\ epoch \in 0..MaxEpoch /\ vault \in 0..epoch
    /\ inbox \subseteq Replies /\ shown \subseteq Replies
    /\ seen \subseteq Replies /\ replies \subseteq Replies
    /\ minted \in [Questions -> Nat]
    /\ online \in BOOLEAN /\ wire \subseteq Questions /\ answered \subseteq Questions

\* The lease of a question is with a call that generates its answer.
Leases ==
    /\ lease \in [Questions -> Handlers \cup {None}]
    /\ \A q \in Questions : lease[q] # None => At(lease[q], "generating") /\ Doc(lease[q]) = q

TInv == IInv /\ Types /\ Leases

\* The types and the leases hold at first.
LEMMA InitTInv == Init => TInv
<1> SUFFICES ASSUME Init PROVE Types /\ Leases
  BY InitIInv DEF TInv
<1>1. 0 \in 0..MaxEpoch /\ 0 \in 0..0
  BY RelayAssumption
<1>2. Types
  <2>1. /\ row \in [Questions -> {"unwritten", "queued", "acked"}]
        /\ sealed \in [Questions -> 0..MaxEpoch] /\ minted \in [Questions -> Nat]
    BY <1>1 DEF Init
  <2> QED
    BY <1>1, <2>1 DEF Init, Types
<1>3. Leases
  BY DEF Init, Leases
<1> QED
  BY <1>2, <1>3

\* The document of a call under way is a question.
LEMMA DocType ==
    ASSUME IInv, NEW h \in Handlers, ~At(h, "idle")
    PROVE  Doc(h) \in Questions
<1>1. handler[h].batch \in Seq(Questions) /\ Len(handler[h].batch) # 0
  BY DEF IInv, Shape, HandlerType
<1> QED
  BY <1>1 DEF Doc

\* A terminal frame is one of the answers.
LEMMA ReplyType ==
    ASSUME IInv, Types, NEW h \in Handlers, ~At(h, "idle")
    PROVE  Reply(h) \in Replies
<1>1. Doc(h) \in Questions
  BY DocType
<1>2. minted[Doc(h)] + 1 \in Nat
  BY <1>1 DEF Types
<1> QED
  BY <1>1, <1>2 DEF Reply, Replies

\* What is held keeps its kind.
LEMMA StepTypes == IInv /\ Types /\ [Next]_vars => Types'
<1> SUFFICES ASSUME IInv, Types, [Next]_vars PROVE Types'
  OBVIOUS
<1> USE DEF phone, link, cloud, ledger, history
<1>1. ASSUME NEW q \in Questions, sealAndEnqueue(q) PROVE Types'
  <2>1. vault \in 0..MaxEpoch
    BY RelayAssumption DEF Types
  <2>2. sealed' \in [Questions -> 0..MaxEpoch]
    BY <1>1, <2>1 DEF sealAndEnqueue, Types
  <2>3. row' \in [Questions -> {"unwritten", "queued", "acked"}]
    BY <1>1 DEF sealAndEnqueue, Types
  <2> QED
    BY <1>1, <2>2, <2>3 DEF sealAndEnqueue, Types
<1>2. ASSUME NEW q \in Questions, drainOnce(q) PROVE Types'
  BY <1>2 DEF drainOnce, SendDirect, SendRelay, Types
<1>3. CASE LinkUp
  BY <1>3 DEF LinkUp, Types
<1>4. CASE LinkDown \/ PhoneDies \/ Restart
  BY <1>4 DEF LinkDown, PhoneDies, Restart, Types
<1>5. CASE revoke
  BY <1>5, RelayAssumption DEF revoke, Types
<1>6. ASSUME NEW r, Watched(r) \/ ingest(r) PROVE Types'
  BY <1>6 DEF Watched, ingest, Types
<1>7. ASSUME NEW h \in Handlers, Offered(h) PROVE Types'
  BY <1>7 DEF Offered, Types
<1>8. ASSUME NEW h \in Handlers, NEW q \in Questions, handleEvent(h, q) PROVE Types'
  <2>1. row' \in [Questions -> {"unwritten", "queued", "acked"}] /\ UNCHANGED answered
    BY <1>8 DEF handleEvent, streamOnce, Types
  <2>2. online' \in BOOLEAN /\ wire' \subseteq Questions
    BY <1>8 DEF handleEvent, Types
  <2> QED
    BY <1>8, <2>1, <2>2 DEF handleEvent, Types
<1>9. ASSUME NEW h \in Handlers, handleDocument(h) PROVE Types'
  <2>1. UNCHANGED answered
    BY <1>9 DEF handleDocument, streamOnce
  <2> QED
    BY <1>9, <2>1 DEF handleDocument, Types
<1>10. ASSUME NEW h \in Handlers, Generated(h) PROVE Types'
  <2>1. Doc(h) \in Questions
    BY <1>10, DocType DEF Generated, At
  <2> QED
    BY <1>10, <2>1 DEF Generated, Types
<1>11. ASSUME NEW h \in Handlers, EmitDirect(h) \/ EmitRelay(h) PROVE Types'
  <2>1. ~At(h, "idle")
    BY <1>11 DEF EmitDirect, EmitRelay, At
  <2>2. Doc(h) \in Questions /\ Reply(h) \in Replies
    BY <2>1, DocType, ReplyType
  <2>3. minted' = [minted EXCEPT ![Doc(h)] = @ + 1]
    BY <1>11 DEF EmitDirect, EmitRelay
  <2>4. minted' \in [Questions -> Nat]
    BY <2>2, <2>3 DEF Types
  <2>5. inbox' \subseteq Replies /\ replies' \subseteq Replies
    BY <1>11, <2>2 DEF EmitDirect, EmitRelay, Types
  <2> QED
    BY <1>11, <2>4, <2>5 DEF EmitDirect, EmitRelay, Types
<1>12. ASSUME NEW h \in Handlers, Kept(h) \/ remove(h) \/ Fails(h) PROVE Types'
  BY <1>12 DEF Kept, remove, Fails, GenerationFails, EmitFails, RemoveFails, Types
<1>13. CASE UNCHANGED vars
  BY <1>13 DEF vars, Types
<1> QED
  BY <1>1, <1>2, <1>3, <1>4, <1>5, <1>6, <1>7, <1>8, <1>9, <1>10, <1>11, <1>12, <1>13
     DEF Next, Starts, Step

\* Leases that are given back, or that stay while their calls go on.
LEMMA LeasesKept ==
    ASSUME Leases, lease' \in [Questions -> Handlers \cup {None}],
           \A q \in Questions : lease'[q] # None =>
               /\ lease'[q] = lease[q]
               /\ handler'[lease[q]].pc = "generating"
               /\ handler'[lease[q]].batch = handler[lease[q]].batch
    PROVE  Leases'
<1>1. ASSUME NEW q \in Questions, lease'[q] # None
      PROVE  At(lease[q], "generating")' /\ Doc(lease[q])' = q
  <2>1. lease'[q] = lease[q] /\ Doc(lease[q]) = q
    BY <1>1 DEF Leases
  <2>2. /\ handler'[lease'[q]].pc = "generating"
        /\ handler'[lease'[q]].batch = handler[lease[q]].batch
    BY <1>1, <2>1
  <2> QED
    BY <2>1, <2>2 DEF At, Doc
<1> QED
  BY <1>1 DEF Leases

\* A call takes the lease of a question that nobody has.
LEMMA LeaseTaken ==
    ASSUME Leases, NEW h \in Handlers, NEW q \in Questions, ~At(h, "generating"),
           lease' = [lease EXCEPT ![q] = h],
           handler'[h].pc = "generating", Head(handler'[h].batch) = q,
           \A g \in Handlers \ {h} : handler'[g] = handler[g]
    PROVE  Leases'
<1>1. lease' \in [Questions -> Handlers \cup {None}]
  BY DEF Leases
<1>2. ASSUME NEW p \in Questions, lease'[p] # None
      PROVE  At(lease[p], "generating")' /\ Doc(lease[p])' = p
  <2>1. CASE p = q
    BY <2>1 DEF Leases, At, Doc
  <2>2. CASE p # q
    <3>1. lease'[p] = lease[p] /\ lease[p] \in Handlers /\ At(lease[p], "generating")
          /\ Doc(lease[p]) = p
      BY <1>2, <2>2 DEF Leases
    <3>2. lease[p] # h
      BY <3>1
    <3>3. handler'[lease'[p]] = handler[lease[p]]
      BY <3>1, <3>2
    <3> QED
      BY <3>1, <3>3 DEF At, Doc
  <2> QED
    BY <2>1, <2>2
<1> QED
  BY <1>1, <1>2 DEF Leases

\* A call joins, answers again, or takes the lease and generates.
LEMMA StreamOnceLeases ==
    ASSUME IInv, Leases, NEW h \in Handlers, NEW path, NEW batch, Head(batch) \in Questions,
           streamOnce(h, path, batch), ~At(h, "generating")
    PROVE  Leases'
<1> DEFINE q == Head(batch)
           pc == IF lease[q] # None THEN "joining"
                 ELSE IF q \in answered THEN "replying" ELSE "generating"
<1>1. handler \in [Handlers -> HandlerType]
  BY DEF IInv, Shape
<1>2. /\ handler'[h] = [pc |-> pc, path |-> path, batch |-> batch]
      /\ \A g \in Handlers \ {h} : handler'[g] = handler[g]
  BY <1>1 DEF streamOnce
<1>3. handler'[h].pc = pc /\ handler'[h].batch = batch
  BY <1>2
<1>4. CASE pc = "generating"
  <2>1. lease' = [lease EXCEPT ![q] = h]
    BY <1>4 DEF streamOnce
  <2>2. handler'[h].pc = "generating" /\ Head(handler'[h].batch) = q
    BY <1>3, <1>4
  <2> QED
    BY <1>2, <2>1, <2>2, LeaseTaken
<1>5. CASE pc # "generating"
  <2>1. lease' = lease
    BY <1>5 DEF streamOnce
  <2>2. ASSUME NEW p \in Questions, lease'[p] # None
        PROVE  /\ handler'[lease[p]].pc = "generating"
               /\ handler'[lease[p]].batch = handler[lease[p]].batch
    BY <1>2, <2>1, <2>2 DEF Leases, At
  <2> QED
    BY <2>1, <2>2, LeasesKept DEF Leases
<1> QED
  BY <1>4, <1>5

\* A call that does not generate may move on.
LEMMA OthersMove ==
    ASSUME Leases, UNCHANGED lease, NEW h \in Handlers, ~At(h, "generating"),
           \A g \in Handlers \ {h} : handler'[g].pc = handler[g].pc
                                     /\ handler'[g].batch = handler[g].batch
    PROVE  Leases'
<1>1. ASSUME NEW p \in Questions, lease'[p] # None
      PROVE  /\ handler'[lease[p]].pc = "generating"
             /\ handler'[lease[p]].batch = handler[lease[p]].batch
  BY <1>1 DEF Leases, At
<1> QED
  BY <1>1, LeasesKept DEF Leases

\* A link that is cut takes no lease.
LEMMA CutLeases ==
    ASSUME IInv, Leases, handler' = Cut(handler), UNCHANGED lease
    PROVE  Leases'
<1>1. ASSUME NEW h \in Handlers
      PROVE  handler'[h].pc = handler[h].pc /\ handler'[h].batch = handler[h].batch
  BY DEF IInv, Shape, HandlerType, Cut
<1>2. ASSUME NEW p \in Questions, lease'[p] # None
      PROVE  /\ handler'[lease[p]].pc = "generating"
             /\ handler'[lease[p]].batch = handler[lease[p]].batch
  BY <1>1, <1>2 DEF Leases, At
<1> QED
  BY <1>2, LeasesKept DEF Leases

\* The end of a generation gives its lease back, and no other.
LEMMA ReleasedLeases ==
    ASSUME IInv, Leases, NEW h \in Handlers, NEW pc, NEW joined, At(h, "generating"),
           Released(h, pc, joined), lease' = [lease EXCEPT ![Doc(h)] = None]
    PROVE  Leases'
<1>1. Doc(h) \in Questions
  BY DocType DEF At
<1>2. lease' \in [Questions -> Handlers \cup {None}]
  BY <1>1 DEF Leases
<1>3. ASSUME NEW p \in Questions, lease'[p] # None
      PROVE  /\ lease'[p] = lease[p]
             /\ handler'[lease[p]].pc = "generating"
             /\ handler'[lease[p]].batch = handler[lease[p]].batch
  <2>1. p # Doc(h) /\ lease'[p] = lease[p]
    BY <1>1, <1>3 DEF Leases
  <2>2. lease[p] \in Handlers /\ lease[p] # h /\ At(lease[p], "generating")
    BY <1>3, <2>1 DEF Leases
  <2>3. handler'[lease[p]] = handler[lease[p]]
    BY <2>2 DEF Released, At
  <2> QED
    BY <2>1, <2>2, <2>3 DEF At
<1> QED
  BY <1>2, <1>3, LeasesKept

\* The leases are with the calls that generate, after every step.
LEMMA StepLeases == IInv /\ Leases /\ [Next]_vars => Leases'
<1> SUFFICES ASSUME IInv, Leases, [Next]_vars PROVE Leases'
  OBVIOUS
<1> USE DEF phone, link, cloud, ledger, history
<1>1. CASE UNCHANGED <<handler, lease>>
  BY <1>1 DEF Leases, At, Doc
<1>2. CASE LinkDown \/ PhoneDies
  BY <1>2, CutLeases DEF LinkDown, PhoneDies
<1>3. CASE Restart
  BY <1>3 DEF Restart, Leases
<1>4. ASSUME NEW h \in Handlers, Offered(h) PROVE Leases'
  <2>1. /\ ~At(h, "generating") /\ UNCHANGED lease
        /\ \A g \in Handlers \ {h} : handler'[g] = handler[g]
    BY <1>4 DEF Offered, At, IInv, Shape
  <2> QED
    BY <2>1, OthersMove
<1>5. ASSUME NEW h \in Handlers, NEW q \in Questions, handleEvent(h, q) PROVE Leases'
  <2>1. CASE Valid(q)
    <3>1. streamOnce(h, "direct", <<q>>) /\ ~At(h, "generating") /\ Head(<<q>>) = q
      BY <1>5, <2>1 DEF handleEvent, At
    <3> QED
      BY <3>1, StreamOnceLeases
  <2>2. CASE ~Valid(q)
    BY <1>5, <2>2, CutLeases DEF handleEvent
  <2> QED
    BY <2>1, <2>2
<1>6. ASSUME NEW h \in Handlers, handleDocument(h) PROVE Leases'
  <2>1. At(h, "next") /\ ~At(h, "generating") /\ ~At(h, "idle")
    BY <1>6 DEF handleDocument, At
  <2>2. CASE Valid(Doc(h))
    <3>1. streamOnce(h, "relay", handler[h].batch) /\ Head(handler[h].batch) \in Questions
      BY <1>6, <2>1, <2>2, DocType DEF handleDocument, Doc
    <3> QED
      BY <2>1, <3>1, StreamOnceLeases
  <2>3. CASE ~Valid(Doc(h))
    <3>1. /\ UNCHANGED lease
          /\ \A g \in Handlers \ {h} : handler'[g] = handler[g]
      BY <1>6, <2>3 DEF handleDocument, Go, IInv, Shape
    <3> QED
      BY <2>1, <3>1, OthersMove
  <2> QED
    BY <2>2, <2>3
<1>7. ASSUME NEW h \in Handlers, Generated(h) PROVE Leases'
  BY <1>7, ReleasedLeases DEF Generated
<1>8. ASSUME NEW h \in Handlers, GenerationFails(h) PROVE Leases'
  BY <1>8, ReleasedLeases DEF GenerationFails
<1>9. ASSUME NEW h \in Handlers,
             EmitDirect(h) \/ EmitRelay(h) \/ EmitFails(h) \/ Kept(h) \/ remove(h) \/ RemoveFails(h)
      PROVE  Leases'
  <2>1. ~At(h, "generating") /\ UNCHANGED lease
    BY <1>9 DEF EmitDirect, EmitRelay, EmitFails, Kept, remove, RemoveFails, At
  <2>2. Finish(h) \/ Go(h, "removing") \/ Go(h, "kept")
    BY <1>9 DEF EmitDirect, EmitRelay, EmitFails, Kept, remove, RemoveFails
  <2>3. \A g \in Handlers \ {h} : handler'[g] = handler[g]
    BY <2>2 DEF Finish, Go, IInv, Shape
  <2> QED
    BY <2>1, <2>3, OthersMove
<1>10. ASSUME NEW q \in Questions, sealAndEnqueue(q) \/ drainOnce(q)
       PROVE  UNCHANGED <<handler, lease>>
  BY <1>10 DEF sealAndEnqueue, drainOnce, SendDirect, SendRelay
<1>11. ASSUME LinkUp \/ revoke \/ (\E r : Watched(r) \/ ingest(r)) \/ UNCHANGED vars
       PROVE  UNCHANGED <<handler, lease>>
  BY <1>11 DEF LinkUp, revoke, Watched, ingest, vars
<1> QED
  BY <1>1, <1>2, <1>3, <1>4, <1>5, <1>6, <1>7, <1>8, <1>9, <1>10, <1>11
     DEF Next, Starts, Step, Fails

\* The phone, the link, the relay and the PC hold what is of its kind, a lease
\* is always with a call that generates the answer to its question, and a call
\* is at rest exactly when it has no document left (chat-relay.mjs,
\* chat-server.mjs, ChatEngine.kt), for any questions, calls and faults.
THEOREM Typed == Spec => []TypeOK
<1>1. TInv /\ [Next]_vars => TInv'
  BY StepIInv, StepTypes, StepLeases DEF TInv
<1>2. TInv => TypeOK
  <2> SUFFICES ASSUME TInv PROVE TypeOK
    OBVIOUS
  <2>1. ASSUME NEW h \in Handlers PROVE At(h, "idle") <=> handler[h].batch = << >>
    BY DEF TInv, IInv, Shape
  <2>2. fresh \subseteq docs /\ docs \subseteq Questions
    BY DEF TInv, IInv, Shape
  <2> QED
    BY <2>1, <2>2 DEF TInv, Types, Leases, TypeOK
<1> QED
  BY InitTInv, <1>1, <1>2, PTL DEF Spec
=============================================================================
