--------------------------- MODULE ChatOutboxProofs ---------------------------
(***************************************************************************)
(* What holds of the phone's outbox for any messages, drains, attempts and *)
(* retries.                                                                *)
(***************************************************************************)
EXTENDS ChatOutbox, FiniteSetTheorems, WellFoundedInduction, TLAPS

-----------------------------------------------------------------------------
(***************************************************************************)
(* The order in which a drain reads the due rows: a finite set of rows     *)
(* whose numbers differ can be put in order.                               *)
(***************************************************************************)
\* A family of finite sets has one that holds none of the others.
LEMMA SmallestOf ==
    ASSUME NEW S, IsFiniteSet(S), NEW F \in SUBSET SUBSET S, F # {}
    PROVE  \E U \in F : \A V \in F : V \subseteq U => V = U
<1>1. F \subseteq FiniteSubsetsOf(S)
  BY FS_Subset DEF FiniteSubsetsOf
<1>2. \E U \in F : \A V \in F : ~(<<V, U>> \in StrictSubsetOrdering(S))
  <2>1. IsWellFoundedOn(StrictSubsetOrdering(S), FiniteSubsetsOf(S))
    BY FS_StrictSubsetOrderingWellFounded
  <2> QED
    BY <1>1, <2>1, WFMin
<1>3. PICK U \in F : \A V \in F : ~(<<V, U>> \in StrictSubsetOrdering(S))
  BY <1>2
<1>4. ASSUME NEW V \in F, V \subseteq U, V # U PROVE FALSE
  <2>1. V \in SUBSET S /\ U \in SUBSET S
    OBVIOUS
  <2>2. <<V, U>> \in StrictSubsetOrdering(S)
    BY <1>4, <2>1 DEF StrictSubsetOrdering
  <2> QED
    BY <1>3, <2>2
<1> QED
  BY <1>4

\* A finite set of numbered elements has one whose number is the least.
LEMMA LeastOf ==
    ASSUME NEW S, IsFiniteSet(S), S # {}, NEW f \in [S -> Nat]
    PROVE  \E m \in S : \A x \in S : f[m] <= f[x]
<1> DEFINE Below(m) == {x \in S : f[x] < f[m]}
           F == {Below(m) : m \in S}
<1>1. F \in SUBSET SUBSET S
  OBVIOUS
<1>0. F # {}
  <2>1. PICK m \in S : TRUE
    OBVIOUS
  <2>2. Below(m) \in F
    OBVIOUS
  <2> QED
    BY <2>2
<1>2. PICK U \in F : \A V \in F : V \subseteq U => V = U
  <2> HIDE DEF F
  <2> QED
    BY <1>0, <1>1, SmallestOf
<1>3. PICK m \in S : U = Below(m)
  OBVIOUS
<1>4. ASSUME NEW y \in S, f[y] < f[m] PROVE FALSE
  <2>1. Below(y) \in F /\ Below(y) \subseteq U
    BY <1>3, <1>4
  <2>2. Below(y) = U
    BY <1>2, <2>1
  <2>3. y \in U /\ y \notin Below(y)
    BY <1>3, <1>4
  <2> QED
    BY <2>2, <2>3
<1>5. \A x \in S : f[m] <= f[x]
  BY <1>4
<1> QED
  BY <1>5

\* The elements of S in the order of their numbers.
Sorting(S, f) ==
    {s \in [1..Cardinality(S) -> S] :
        \A i, j \in 1..Cardinality(S) : i < j => f[s[i]] < f[s[j]]}

\* A finite set whose elements have numbers of their own can be listed in order.
LEMMA SortingExists ==
    ASSUME NEW S, IsFiniteSet(S), NEW f \in [S -> Nat],
           \A x, y \in S : f[x] = f[y] => x = y
    PROVE  Sorting(S, f) # {}
<1> DEFINE F == {U \in SUBSET S : Sorting(U, f) = {}}
<1> SUFFICES ASSUME F # {} PROVE FALSE
  OBVIOUS
<1>1. PICK U \in F : \A V \in F : V \subseteq U => V = U
  <2>1. F \in SUBSET SUBSET S
    OBVIOUS
  <2> HIDE DEF F
  <2> QED
    BY <2>1, SmallestOf
<1>2. IsFiniteSet(U) /\ U \subseteq S /\ Sorting(U, f) = {}
  BY <1>1, FS_Subset
<1>3. U # {}
  <2> SUFFICES ASSUME U = {} PROVE FALSE
    OBVIOUS
  <2>1. Cardinality(U) = 0
    BY FS_EmptySet
  <2>2. [i \in 1..0 |-> i] \in Sorting(U, f)
    BY <2>1 DEF Sorting
  <2> QED
    BY <1>2, <2>2
<1>4. PICK m \in U : \A x \in U : f[m] <= f[x]
  <2>1. [x \in U |-> f[x]] \in [U -> Nat]
    BY <1>2
  <2>2. \E m \in U : \A x \in U : [y \in U |-> f[y]][m] <= [y \in U |-> f[y]][x]
    BY <1>2, <1>3, <2>1, LeastOf
  <2> QED
    BY <2>2
<1> DEFINE V == U \ {m}
<1>5. IsFiniteSet(V) /\ Cardinality(V) = Cardinality(U) - 1 /\ Cardinality(U) \in Nat
      /\ Cardinality(U) # 0
  BY <1>2, <1>3, FS_RemoveElement, FS_CardinalityType, FS_EmptySet
<1>6. PICK s \in [1..Cardinality(V) -> V] :
        \A i, j \in 1..Cardinality(V) : i < j => f[s[i]] < f[s[j]]
  <2>1. V \notin F
    BY <1>1
  <2>2. Sorting(V, f) # {}
    BY <1>2, <2>1
  <2> QED
    BY <2>2 DEF Sorting
<1> DEFINE t == [i \in 1..Cardinality(U) |-> IF i = 1 THEN m ELSE s[i - 1]]
<1>7. PICK n \in Nat : n = Cardinality(U) /\ Cardinality(V) = n - 1
  BY <1>5
<1>8. \A i \in 1..n : i # 1 => i - 1 \in 1..(n - 1)
  OBVIOUS
<1>9. ASSUME NEW i \in 1..n, i # 1 PROVE t[i] = s[i - 1] /\ t[i] \in V
  BY <1>6, <1>7, <1>8, <1>9
<1>10. \A i \in 1..n : i = 1 => t[i] = m
  BY <1>7
<1>11. t \in [1..n -> U]
  BY <1>6, <1>7, <1>8
<1> HIDE DEF t
<1>12. ASSUME NEW i \in 1..n, NEW j \in 1..n, i < j PROVE f[t[i]] < f[t[j]]
  <2>1. j # 1
    BY <1>12
  <2>2. CASE i = 1
    <3>1. t[i] = m /\ t[j] \in U /\ t[j] # m
      BY <1>9, <1>10, <2>1, <2>2
    <3>2. f[m] <= f[t[j]] /\ f[m] # f[t[j]] /\ f[m] \in Nat /\ f[t[j]] \in Nat
      BY <1>2, <1>4, <3>1
    <3> QED
      BY <3>1, <3>2
  <2>3. CASE i # 1
    <3>1. t[i] = s[i - 1] /\ t[j] = s[j - 1]
      BY <1>9, <2>1, <2>3
    <3>2. i - 1 \in 1..(n - 1) /\ j - 1 \in 1..(n - 1) /\ i - 1 < j - 1
      BY <1>8, <1>12, <2>1, <2>3
    <3> QED
      BY <1>6, <1>7, <3>1, <3>2
  <2> QED
    BY <2>2, <2>3
<1>13. t \in Sorting(U, f)
  BY <1>7, <1>11, <1>12 DEF Sorting
<1> QED
  BY <1>2, <1>13

-----------------------------------------------------------------------------
(***************************************************************************)
(* Types.  The rows are numbered apart, so that a drain can order them.    *)
(***************************************************************************)
PcSet == {"idle", "route", "row", "relay", "state", "outbox"}
PathSet == {"none", "direct", "relay", "wait"}
Due == [msg : Messages, attempts : 0..MaxAttempts]

\* The rows that are queued are numbered apart, in the past.
Ordered ==
    /\ \A m \in Queued : row[m].at < clock
    /\ \A m, n \in Queued : row[m].at = row[n].at => m = n

PhoneType ==
    /\ event \in [Messages -> States] /\ row \in [Messages -> Rows] /\ clock \in Nat
    /\ Ordered

DrainType ==
    /\ drain \in [Drainers -> Drains]
    /\ \A d \in Drainers : drain[d].next # 0
    /\ \A d \in Drainers : drain[d].pc \in {"relay", "state", "outbox"} =>
          drain[d].next \in DOMAIN drain[d].due

NetType ==
    /\ online \in BOOLEAN
    /\ wire \subseteq Messages /\ acks \subseteq Messages
    /\ acking \subseteq Messages /\ cloud \subseteq Messages
    /\ received \subseteq Messages
    /\ failures \in [Messages -> 0..MaxAttempts]
    /\ retries \in Nat
    /\ contested \subseteq Messages

TInv == PhoneType /\ DrainType /\ NetType

\* A new row, and a row that failed once more, are rows.
LEMMA RowFacts ==
    /\ NoRow \in Rows /\ MaxAttempts \in Nat /\ 0 \in 0..MaxAttempts
    /\ \A n \in 0..MaxAttempts : Bump(n) \in 0..MaxAttempts /\ Bump(n) # 0
    /\ \A r \in Rows : r.due => r # NoRow
    /\ \A r \in Rows : r.attempts # 0 => r # NoRow
    /\ clock \in Nat => NewRow \in Rows /\ NewRow # NoRow /\ NewRow.at = clock
BY OutboxAssumption DEF NoRow, NewRow, Rows, Bump

\* What a drain reads: every row once, of those that are due.
LEMMA DueFacts ==
    ASSUME PhoneType
    PROVE  /\ dueOutbox \in Seq(Due)
           /\ \A i \in DOMAIN dueOutbox :
                 dueOutbox[i].msg \in Queued /\ row[dueOutbox[i].msg].due
           /\ \A i, j \in DOMAIN dueOutbox : dueOutbox[i].msg = dueOutbox[j].msg => i = j
<1> DEFINE due == {m \in Queued : row[m].due}
           at == [m \in due |-> row[m].at]
           n == Cardinality(due)
           good == {s \in [1..n -> due] : \A i, j \in DOMAIN s : i < j => row[s[i]].at < row[s[j]].at}
           order == CHOOSE s \in [1..n -> due] :
                       \A i, j \in DOMAIN s : i < j => row[s[i]].at < row[s[j]].at
<1>1. /\ due \subseteq Messages /\ due \subseteq Queued /\ IsFiniteSet(due) /\ n \in Nat
      /\ \A m \in due : row[m].due
  BY OutboxAssumption, FS_Subset, FS_CardinalityType DEF Queued
<1>2. \A m \in due : row[m] \in Rows /\ row[m].at \in Nat /\ row[m].attempts \in 0..MaxAttempts
  BY <1>1 DEF PhoneType, Rows
<1>3. Sorting(due, at) # {}
  <2>1. at \in [due -> Nat]
    BY <1>2
  <2>2. \A x, y \in due : at[x] = at[y] => x = y
    BY <1>1 DEF PhoneType, Ordered
  <2> HIDE DEF at, due
  <2> QED
    BY <1>1, <2>1, <2>2, SortingExists
<1>4. \E s \in [1..n -> due] : \A i, j \in DOMAIN s : i < j => row[s[i]].at < row[s[j]].at
  <2>1. PICK s \in [1..n -> due] : \A i, j \in 1..n : i < j => at[s[i]] < at[s[j]]
    BY <1>3 DEF Sorting
  <2>2. ASSUME NEW i \in DOMAIN s, NEW j \in DOMAIN s, i < j PROVE row[s[i]].at < row[s[j]].at
    <3>1. i \in 1..n /\ j \in 1..n /\ s[i] \in due /\ s[j] \in due
      BY <2>1
    <3>2. at[s[i]] < at[s[j]]
      BY <2>1, <2>2, <3>1
    <3> QED
      BY <3>1, <3>2
  <2> QED
    BY <2>2
<1>5. /\ order \in [1..n -> due]
      /\ \A i, j \in DOMAIN order : i < j => row[order[i]].at < row[order[j]].at
  BY <1>4
<1>6. dueOutbox = [i \in 1..n |-> [msg |-> order[i], attempts |-> row[order[i]].attempts]]
  BY DEF dueOutbox, InOrder
<1> HIDE DEF order, n, due
<1>7. \A i \in 1..n : order[i] \in due
  BY <1>5
<1>8. ASSUME NEW i \in 1..n PROVE dueOutbox[i] \in Due /\ dueOutbox[i].msg = order[i]
  <2>1. dueOutbox[i] = [msg |-> order[i], attempts |-> row[order[i]].attempts]
    BY <1>6
  <2> QED
    BY <1>1, <1>2, <1>7, <2>1 DEF Due
<1>9. DOMAIN dueOutbox = 1..n
  BY <1>6
<1>10. dueOutbox \in Seq(Due)
  <2>1. dueOutbox \in [1..n -> Due]
    BY <1>6, <1>8, <1>9
  <2> QED
    BY <1>1, <2>1
<1>11. \A i \in DOMAIN dueOutbox : dueOutbox[i].msg \in Queued /\ row[dueOutbox[i].msg].due
  BY <1>1, <1>7, <1>8, <1>9
<1>12. ASSUME NEW i \in 1..n, NEW j \in 1..n, order[i] = order[j] PROVE i = j
  <2>1. \A k \in 1..n : row[order[k]].at \in Nat
    BY <1>2, <1>7
  <2>2. /\ i < j => row[order[i]].at < row[order[j]].at
        /\ j < i => row[order[j]].at < row[order[i]].at
    BY <1>5
  <2> QED
    BY <1>1, <1>12, <2>1, <2>2
<1> QED
  BY <1>8, <1>9, <1>10, <1>11, <1>12

\* A drain where it stands, with the rows it has read.
Place(pc, path, due, next, sent, verdict) ==
    [pc |-> pc, path |-> path, due |-> due, next |-> next, sent |-> sent, verdict |-> verdict]

Moves(d, pc, path, next, sent, verdict) ==
    drain' = [drain EXCEPT ![d] = Place(pc, path, drain[d].due, next, sent, verdict)]

\* A drain that is written to in several fields at once.
LEMMA PlaceWritten ==
    ASSUME NEW r, r = Place(r.pc, r.path, r.due, r.next, r.sent, r.verdict)
    PROVE  /\ \A v : [r EXCEPT !.pc = "state", !.verdict = v]
                       = Place("state", r.path, r.due, r.next, r.sent, v)
           /\ \A p : [r EXCEPT !.pc = "row", !.path = p]
                       = Place("row", p, r.due, r.next, r.sent, r.verdict)
           /\ \A n : [r EXCEPT !.pc = "row", !.path = "wait", !.next = n]
                       = Place("row", "wait", r.due, n, r.sent, r.verdict)
           /\ \A n, k : [r EXCEPT !.pc = "row", !.next = n, !.sent = k]
                       = Place("row", r.path, r.due, n, k, r.verdict)
<1>1. ASSUME NEW v
      PROVE  [r EXCEPT !.pc = "state", !.verdict = v]
               = Place("state", r.path, r.due, r.next, r.sent, v)
  <2>1. [r EXCEPT !.pc = "state", !.verdict = v]
          = [[r EXCEPT !.pc = "state"] EXCEPT !.verdict = v]
    OBVIOUS
  <2>2. [r EXCEPT !.pc = "state"] = Place("state", r.path, r.due, r.next, r.sent, r.verdict)
    BY DEF Place
  <2>3. [Place("state", r.path, r.due, r.next, r.sent, r.verdict) EXCEPT !.verdict = v] = Place("state", r.path, r.due, r.next, r.sent, v)
    BY DEF Place
  <2> QED
    BY <2>1, <2>2, <2>3
<1>2. ASSUME NEW p
      PROVE  [r EXCEPT !.pc = "row", !.path = p]
               = Place("row", p, r.due, r.next, r.sent, r.verdict)
  <2>1. [r EXCEPT !.pc = "row", !.path = p]
          = [[r EXCEPT !.pc = "row"] EXCEPT !.path = p]
    OBVIOUS
  <2>2. [r EXCEPT !.pc = "row"] = Place("row", r.path, r.due, r.next, r.sent, r.verdict)
    BY DEF Place
  <2>3. [Place("row", r.path, r.due, r.next, r.sent, r.verdict) EXCEPT !.path = p] = Place("row", p, r.due, r.next, r.sent, r.verdict)
    BY DEF Place
  <2> QED
    BY <2>1, <2>2, <2>3
<1>3. ASSUME NEW n
      PROVE  [r EXCEPT !.pc = "row", !.path = "wait", !.next = n]
               = Place("row", "wait", r.due, n, r.sent, r.verdict)
  <2>1. [r EXCEPT !.pc = "row", !.path = "wait", !.next = n]
          = [[[r EXCEPT !.pc = "row"] EXCEPT !.path = "wait"] EXCEPT !.next = n]
    OBVIOUS
  <2>2. [r EXCEPT !.pc = "row"] = Place("row", r.path, r.due, r.next, r.sent, r.verdict)
    BY DEF Place
  <2>3. [Place("row", r.path, r.due, r.next, r.sent, r.verdict) EXCEPT !.path = "wait"] = Place("row", "wait", r.due, r.next, r.sent, r.verdict)
    BY DEF Place
  <2>4. [Place("row", "wait", r.due, r.next, r.sent, r.verdict) EXCEPT !.next = n] = Place("row", "wait", r.due, n, r.sent, r.verdict)
    BY DEF Place
  <2> QED
    BY <2>1, <2>2, <2>3, <2>4
<1>4. ASSUME NEW n, NEW k
      PROVE  [r EXCEPT !.pc = "row", !.next = n, !.sent = k]
               = Place("row", r.path, r.due, n, k, r.verdict)
  <2>1. [r EXCEPT !.pc = "row", !.next = n, !.sent = k]
          = [[[r EXCEPT !.pc = "row"] EXCEPT !.next = n] EXCEPT !.sent = k]
    OBVIOUS
  <2>2. [r EXCEPT !.pc = "row"] = Place("row", r.path, r.due, r.next, r.sent, r.verdict)
    BY DEF Place
  <2>3. [Place("row", r.path, r.due, r.next, r.sent, r.verdict) EXCEPT !.next = n] = Place("row", r.path, r.due, n, r.sent, r.verdict)
    BY DEF Place
  <2>4. [Place("row", r.path, r.due, n, r.sent, r.verdict) EXCEPT !.sent = k] = Place("row", r.path, r.due, n, k, r.verdict)
    BY DEF Place
  <2> QED
    BY <2>1, <2>2, <2>3, <2>4
<1> QED
  BY <1>1, <1>2, <1>3, <1>4

\* The steps of a drain, each by where it leads.
LEMMA DrainForms ==
    ASSUME drain \in [Drainers -> Drains], NEW d \in Drainers
    PROVE  LET r == drain[d] IN
           /\ \A pc : Go(d, pc) => Moves(d, pc, r.path, r.next, r.sent, r.verdict)
           /\ \A v : Verdict(d, v) => Moves(d, "state", r.path, r.next, r.sent, v)
           /\ \A path : drain' = [drain EXCEPT ![d].pc = "row", ![d].path = path] =>
                  Moves(d, "row", path, r.next, r.sent, r.verdict)
           /\ drain' = [drain EXCEPT ![d].next = @ + 1] =>
                  Moves(d, r.pc, r.path, r.next + 1, r.sent, r.verdict)
           /\ Leftovers(d) => Moves(d, "row", "wait", r.sent + 1, r.sent, r.verdict)
           /\ RecordRow(d) => \E sent \in {r.sent, r.sent + 1} :
                  Moves(d, "row", r.path, r.next + 1, sent, r.verdict)
<1> DEFINE r == drain[d]
<1>1. r \in Drains /\ r = Place(r.pc, r.path, r.due, r.next, r.sent, r.verdict)
  BY DEF Drains, Place
<1>2. ASSUME NEW pc, Go(d, pc) PROVE Moves(d, pc, r.path, r.next, r.sent, r.verdict)
  <2>1. [r EXCEPT !.pc = pc] = Place(pc, r.path, r.due, r.next, r.sent, r.verdict)
    BY <1>1 DEF Drains, Place
  <2>2. drain' = [drain EXCEPT ![d] = [r EXCEPT !.pc = pc]]
    BY <1>2 DEF Go
  <2> QED
    BY <2>1, <2>2 DEF Moves
<1>3. ASSUME NEW v, Verdict(d, v) PROVE Moves(d, "state", r.path, r.next, r.sent, v)
  <2>1. [r EXCEPT !.pc = "state", !.verdict = v] = Place("state", r.path, r.due, r.next, r.sent, v)
    BY <1>1, PlaceWritten
  <2>2. drain' = [drain EXCEPT ![d] = [r EXCEPT !.pc = "state", !.verdict = v]]
    BY <1>3 DEF Verdict
  <2> QED
    BY <2>1, <2>2 DEF Moves
<1>4. ASSUME NEW path, drain' = [drain EXCEPT ![d].pc = "row", ![d].path = path]
      PROVE  Moves(d, "row", path, r.next, r.sent, r.verdict)
  <2>1. [r EXCEPT !.pc = "row", !.path = path] = Place("row", path, r.due, r.next, r.sent, r.verdict)
    BY <1>1, PlaceWritten
  <2>2. drain' = [drain EXCEPT ![d] = [r EXCEPT !.pc = "row", !.path = path]]
    BY <1>4
  <2> QED
    BY <2>1, <2>2 DEF Moves
<1>5. ASSUME drain' = [drain EXCEPT ![d].next = @ + 1]
      PROVE  Moves(d, r.pc, r.path, r.next + 1, r.sent, r.verdict)
  <2>1. [r EXCEPT !.next = r.next + 1] = Place(r.pc, r.path, r.due, r.next + 1, r.sent, r.verdict)
    BY <1>1 DEF Drains, Place
  <2>2. drain' = [drain EXCEPT ![d] = [r EXCEPT !.next = r.next + 1]]
    BY <1>5
  <2> QED
    BY <2>1, <2>2 DEF Moves
<1>6. ASSUME Leftovers(d) PROVE Moves(d, "row", "wait", r.sent + 1, r.sent, r.verdict)
  <2>1. [r EXCEPT !.pc = "row", !.path = "wait", !.next = r.sent + 1]
          = Place("row", "wait", r.due, r.sent + 1, r.sent, r.verdict)
    BY <1>1, PlaceWritten
  <2>2. drain' = [drain EXCEPT ![d] = [r EXCEPT !.pc = "row", !.path = "wait", !.next = r.sent + 1]]
    BY <1>6 DEF Leftovers
  <2> QED
    BY <2>1, <2>2 DEF Moves
<1>7. ASSUME RecordRow(d)
      PROVE  \E sent \in {r.sent, r.sent + 1} :
                 Moves(d, "row", r.path, r.next + 1, sent, r.verdict)
  <2> DEFINE sent == IF r.path = "relay" THEN r.sent + 1 ELSE r.sent
  <2>1. drain' = [drain EXCEPT ![d] = [r EXCEPT !.pc = "row", !.next = r.next + 1, !.sent = sent]]
    BY <1>7 DEF RecordRow
  <2>2. sent \in {r.sent, r.sent + 1}
    OBVIOUS
  <2> HIDE DEF sent, r
  <2>3. [r EXCEPT !.pc = "row", !.next = r.next + 1, !.sent = sent]
          = Place("row", r.path, r.due, r.next + 1, sent, r.verdict)
    BY <1>1, PlaceWritten
  <2>4. Moves(d, "row", r.path, r.next + 1, sent, r.verdict)
    BY <2>1, <2>3 DEF Moves, r
  <2> QED
    BY <2>2, <2>4
<1> QED
  BY <1>2, <1>3, <1>4, <1>5, <1>6, <1>7

\* A drain that moves is of its kind.
LEMMA MovesType ==
    ASSUME DrainType, NEW d \in Drainers, NEW pc \in PcSet, NEW path \in PathSet,
           NEW next \in Nat \ {0}, NEW sent \in Nat, NEW verdict \in States,
           Moves(d, pc, path, next, sent, verdict),
           pc \in {"relay", "state", "outbox"} => next \in DOMAIN drain[d].due
    PROVE  DrainType'
<1>1. Place(pc, path, drain[d].due, next, sent, verdict) \in Drains
  BY DEF DrainType, Drains, Place, PcSet, PathSet
<1>2. drain' \in [Drainers -> Drains]
  BY <1>1 DEF DrainType, Moves
<1>3. drain'[d] = Place(pc, path, drain[d].due, next, sent, verdict)
  BY DEF DrainType, Moves
<1>4. drain'[d].pc = pc /\ drain'[d].next = next /\ drain'[d].due = drain[d].due
  BY <1>3 DEF Place
<1>5. \A e \in Drainers \ {d} : drain'[e] = drain[e]
  BY DEF DrainType, Moves
<1> QED
  BY <1>2, <1>4, <1>5 DEF DrainType

\* A drain at rest is of its kind.
LEMMA IdleType ==
    /\ Idle \in Drains /\ Idle.pc = "idle" /\ Idle.next # 0
    /\ Idle = Place("idle", "none", << >>, 1, 0, "absent")
BY DEF Idle, Drains, States, Place

\* The row a drain is at is one of those it has read.
LEMMA CurrentType ==
    ASSUME DrainType, NEW d \in Drainers
    PROVE  /\ More(d) => drain[d].next \in DOMAIN drain[d].due
           /\ drain[d].next \in DOMAIN drain[d].due =>
                  /\ Current(d).msg \in Messages /\ Current(d).attempts \in 0..MaxAttempts
                  /\ drain[d].due[drain[d].next] = Current(d)
<1>1. /\ drain[d].due \in Seq(Due) /\ drain[d].next \in Nat /\ drain[d].next # 0
  BY DEF DrainType, Drains, Due
<1>2. \A i \in DOMAIN drain[d].due : drain[d].due[i] \in Due
  BY <1>1
<1>3. More(d) => drain[d].next \in DOMAIN drain[d].due
  BY <1>1 DEF More
<1> QED
  BY <1>2, <1>3 DEF Current, Due

\* Some drains come to rest and the others stay.
LEMMA RestType ==
    ASSUME DrainType, drain' \in [Drainers -> Drains],
           \A e \in Drainers : drain'[e] \in {Idle, drain[e]}
    PROVE  DrainType'
<1>1. \A e \in Drainers : \/ drain'[e] = drain[e]
                          \/ drain'[e].pc = "idle" /\ drain'[e].next # 0
  BY IdleType
<1> QED
  BY <1>1 DEF DrainType

\* The drains keep their kind.
LEMMA StepDrainType == TInv /\ [Next]_vars => DrainType'
<1> SUFFICES ASSUME TInv, [Next]_vars PROVE DrainType'
  OBVIOUS
<1> USE DEF TInv, phone, network
<1>0. /\ drain \in [Drainers -> Drains]
      /\ \A d \in Drainers : /\ drain[d].pc \in PcSet /\ drain[d].path \in PathSet
                             /\ drain[d].next \in Nat \ {0} /\ drain[d].next + 1 \in Nat \ {0}
                             /\ drain[d].sent \in Nat /\ drain[d].sent + 1 \in Nat \ {0}
                             /\ drain[d].verdict \in States
  <2>1. ASSUME NEW d \in Drainers
        PROVE  /\ drain[d].pc \in PcSet /\ drain[d].path \in PathSet
               /\ drain[d].next \in Nat /\ drain[d].next # 0 /\ drain[d].sent \in Nat
               /\ drain[d].verdict \in States
    <3>1. drain[d] \in Drains /\ drain[d].next # 0
      BY DEF DrainType
    <3> QED
      BY <3>1 DEF Drains, PcSet, PathSet
  <2> QED
    BY <2>1 DEF DrainType
<1>1. CASE UNCHANGED drain
  BY <1>1 DEF DrainType
<1>2. ASSUME NEW d \in Drainers, Collect(d) PROVE DrainType'
  <2>1. dueOutbox \in Seq([msg : Messages, attempts : 0..MaxAttempts])
    BY DueFacts DEF Due
  <2>2. PICK due \in Seq([msg : Messages, attempts : 0..MaxAttempts]) :
            drain' = [drain EXCEPT ![d] = [Idle EXCEPT !.pc = "route", !.due = due]]
    BY <1>2, <2>1 DEF Collect
  <2>3. [Idle EXCEPT !.pc = "route", !.due = due] = Place("route", "none", due, 1, 0, "absent")
    <3>1. [Idle EXCEPT !.pc = "route", !.due = due]
            = [[Idle EXCEPT !.pc = "route"] EXCEPT !.due = due]
      OBVIOUS
    <3>2. [Idle EXCEPT !.pc = "route"] = Place("route", "none", << >>, 1, 0, "absent")
      BY IdleType DEF Place
    <3>3. [Place("route", "none", << >>, 1, 0, "absent") EXCEPT !.due = due]
            = Place("route", "none", due, 1, 0, "absent")
      BY DEF Place
    <3> QED
      BY <3>1, <3>2, <3>3
  <2>4. Place("route", "none", due, 1, 0, "absent") \in Drains
    BY DEF Place, Drains, States
  <2>5. Place("route", "none", due, 1, 0, "absent").pc = "route"
        /\ Place("route", "none", due, 1, 0, "absent").next # 0
    BY DEF Place
  <2>6. /\ drain' \in [Drainers -> Drains]
        /\ drain'[d].pc = "route" /\ drain'[d].next # 0
        /\ \A e \in Drainers \ {d} : drain'[e] = drain[e]
    BY <1>0, <2>2, <2>3, <2>4, <2>5
  <2> QED
    BY <2>6 DEF DrainType
<1>3. ASSUME NEW d \in Drainers, Route(d) PROVE DrainType'
  <2>1. PICK path \in {"direct", "relay", "wait"} :
            drain' = [drain EXCEPT ![d].pc = "row", ![d].path = path]
    BY <1>3 DEF Route
  <2>2. Moves(d, "row", path, drain[d].next, drain[d].sent, drain[d].verdict)
    BY <1>0, <2>1, DrainForms
  <2>3. path \in PathSet /\ "row" \in PcSet
    BY DEF PathSet, PcSet
  <2> QED
    BY <1>0, <2>2, <2>3, MovesType
<1>4. ASSUME NEW d \in Drainers, DropOrphan(d) \/ SkipOrphan(d) PROVE DrainType'
  <2>1. drain' = [drain EXCEPT ![d].next = @ + 1] /\ drain[d].pc = "row"
    BY <1>4 DEF DropOrphan, SkipOrphan, More
  <2>2. Moves(d, "row", drain[d].path, drain[d].next + 1, drain[d].sent, drain[d].verdict)
    BY <1>0, <2>1, DrainForms
  <2> QED
    BY <1>0, <2>1, <2>2, MovesType
<1>5. ASSUME NEW d \in Drainers,
             SendDirect(d) \/ MarkWaiting(d) \/ RelayAccepts(d)
      PROVE  DrainType'
  <2>1. drain[d].next \in DOMAIN drain[d].due
    BY <1>5, CurrentType DEF SendDirect, MarkWaiting, RelayAccepts, DrainType
  <2>2. PICK v \in States : Verdict(d, v)
    <3>1. \E v \in {"direct_sending", "failed_final", "waiting_for_pc", "cloud_queued"} : Verdict(d, v)
      BY <1>5 DEF SendDirect, MarkWaiting, RelayAccepts, Waiting
    <3> QED
      BY <3>1 DEF States
  <2>3. Moves(d, "state", drain[d].path, drain[d].next, drain[d].sent, v) /\ "state" \in PcSet
    BY <1>0, <2>2, DrainForms DEF PcSet
  <2> QED
    BY <1>0, <2>1, <2>3, MovesType
<1>6. ASSUME NEW d \in Drainers, AskRelay(d) PROVE DrainType'
  <2>1. drain[d].next \in DOMAIN drain[d].due /\ Go(d, "relay") /\ "relay" \in PcSet
    BY <1>6, CurrentType DEF AskRelay, PcSet
  <2>2. Moves(d, "relay", drain[d].path, drain[d].next, drain[d].sent, drain[d].verdict)
    BY <1>0, <2>1, DrainForms
  <2> QED
    BY <1>0, <2>1, <2>2, MovesType
<1>7. ASSUME NEW d \in Drainers, RelayRefuses(d) \/ RelayDone(d) PROVE DrainType'
  <2>1. Leftovers(d) /\ "row" \in PcSet /\ "wait" \in PathSet
    BY <1>7 DEF RelayRefuses, RelayDone, PcSet, PathSet
  <2>2. Moves(d, "row", "wait", drain[d].sent + 1, drain[d].sent, drain[d].verdict)
    BY <1>0, <2>1, DrainForms
  <2> QED
    BY <1>0, <2>1, <2>2, MovesType
<1>8. ASSUME NEW d \in Drainers, RecordState(d) PROVE DrainType'
  <2>1. drain[d].next \in DOMAIN drain[d].due /\ Go(d, "outbox") /\ "outbox" \in PcSet
    BY <1>8 DEF RecordState, DrainType, PcSet
  <2>2. Moves(d, "outbox", drain[d].path, drain[d].next, drain[d].sent, drain[d].verdict)
    BY <1>0, <2>1, DrainForms
  <2> QED
    BY <1>0, <2>1, <2>2, MovesType
<1>9. ASSUME NEW d \in Drainers, RecordRow(d) PROVE DrainType'
  <2>1. PICK sent \in {drain[d].sent, drain[d].sent + 1} :
            Moves(d, "row", drain[d].path, drain[d].next + 1, sent, drain[d].verdict)
    BY <1>0, <1>9, DrainForms
  <2>2. sent \in Nat /\ "row" \in PcSet
    BY <1>0 DEF PcSet
  <2> QED
    BY <1>0, <2>1, <2>2, MovesType
<1>10. ASSUME NEW d \in Drainers, drain' = [drain EXCEPT ![d] = Idle] PROVE DrainType'
  BY <1>0, <1>10, IdleType, RestType
<1>11. CASE Crash
  BY <1>11, IdleType, RestType DEF Crash
<1>12. CASE stop
  BY <1>10, <1>12 DEF stop, Drainers
<1>13. ASSUME NEW d \in Drainers, DrainDone(d) \/ CancelWake(d) PROVE DrainType'
  BY <1>10, <1>13 DEF DrainDone, CancelWake
<1>14. ASSUME NEW m \in Messages,
              \/ enqueueOutgoing(m) \/ retryFailed(m) \/ MarkDelivered(m) \/ Dequeue(m)
              \/ Elapse(m) \/ PcReceives(m) \/ PcFetches(m)
       PROVE  DrainType'
  BY <1>1, <1>14 DEF enqueueOutgoing, retryFailed, MarkDelivered, Dequeue, Elapse, PcReceives,
                     PcFetches
<1>15. CASE purgeExpiredChunks \/ LinkUp \/ LinkDown \/ UNCHANGED vars
  BY <1>1, <1>15 DEF purgeExpiredChunks, LinkUp, LinkDown, vars
<1> QED
  BY <1>2, <1>3, <1>4, <1>5, <1>6, <1>7, <1>8, <1>9, <1>11, <1>12, <1>13, <1>14, <1>15
     DEF Next, DrainStep, RelayAnswers

\* Rows that go, or keep their numbers, stay in order.
LEMMA RowsKept ==
    ASSUME PhoneType, event' \in [Messages -> States], row' \in [Messages -> Rows],
           clock' = clock,
           \A m \in Messages : row'[m] = NoRow \/ (row[m] # NoRow /\ row'[m].at = row[m].at)
    PROVE  PhoneType'
<1>1. \A m \in Queued' : m \in Queued /\ row'[m].at = row[m].at
  BY DEF Queued
<1>2. clock' \in Nat
  BY DEF PhoneType
<1>3. Ordered'
  BY <1>1 DEF PhoneType, Ordered
<1> QED
  BY <1>2, <1>3 DEF PhoneType

\* So do they when one row is added with the next number.
LEMMA RowAdded ==
    ASSUME PhoneType, event' \in [Messages -> States], NEW q \in Messages,
           row' = [row EXCEPT ![q] = NewRow], clock' = clock + 1
    PROVE  PhoneType'
<1>1. row' \in [Messages -> Rows] /\ row'[q].at = clock /\ clock \in Nat /\ clock' \in Nat
  BY RowFacts DEF PhoneType
<1>2. \A m \in Queued' : m # q => m \in Queued /\ row'[m] = row[m]
  BY DEF Queued, PhoneType
<1>3. \A m \in Queued' : m \in Messages /\ row'[m].at \in Nat
  BY <1>1 DEF Queued, Rows
<1>4. \A m \in Queued' : m # q => row'[m].at < clock
  BY <1>2 DEF PhoneType, Ordered
<1>5. ASSUME NEW m \in Queued' PROVE row'[m].at < clock'
  BY <1>1, <1>3, <1>4
<1>6. ASSUME NEW m \in Queued', NEW n \in Queued', row'[m].at = row'[n].at PROVE m = n
  <2>1. CASE m = q \/ n = q
    BY <1>1, <1>3, <1>4, <1>6, <2>1
  <2>2. CASE m # q /\ n # q
    BY <1>2, <1>6, <2>2 DEF PhoneType, Ordered
  <2> QED
    BY <2>1, <2>2
<1> QED
  BY <1>1, <1>5, <1>6 DEF PhoneType, Ordered

\* A row, and a row that is written to.
RowOf(attempts, due, at) == [attempts |-> attempts, due |-> due, at |-> at]

\* What a write to one or two columns of a row leaves.
LEMMA RowWritten ==
    ASSUME NEW r \in Rows, NEW n, NEW b
    PROVE  /\ [r EXCEPT !.due = b] = RowOf(r.attempts, b, r.at)
           /\ [r EXCEPT !.attempts = n, !.due = b] = RowOf(n, b, r.at)
<1>1. r = RowOf(r.attempts, r.due, r.at)
  BY DEF RowOf, Rows
<1>2. [r EXCEPT !.due = b] = RowOf(r.attempts, b, r.at)
  BY <1>1 DEF RowOf
<1>3. [r EXCEPT !.attempts = n, !.due = b] = [[r EXCEPT !.attempts = n] EXCEPT !.due = b]
  OBVIOUS
<1>4. [r EXCEPT !.attempts = n] = RowOf(n, r.due, r.at)
  BY <1>1 DEF RowOf
<1>5. [RowOf(n, r.due, r.at) EXCEPT !.due = b] = RowOf(n, b, r.at)
  BY DEF RowOf
<1> QED
  BY <1>2, <1>3, <1>4, <1>5

\* The tables keep their kind.
LEMMA StepPhoneType == TInv /\ [Next]_vars => PhoneType'
<1> SUFFICES ASSUME TInv, [Next]_vars PROVE PhoneType'
  OBVIOUS
<1> USE DEF TInv, phone, network
<1>0. /\ event \in [Messages -> States] /\ row \in [Messages -> Rows] /\ NoRow \in Rows
      /\ \A m \in Messages : row[m] \in Rows
  BY RowFacts DEF PhoneType
<1>1. CASE UNCHANGED <<event, row, clock>>
  BY <1>1 DEF PhoneType, Ordered, Queued
<1>2. ASSUME NEW m \in Messages, enqueueOutgoing(m) PROVE PhoneType'
  <2>1. event' \in [Messages -> States]
    BY <1>0, <1>2 DEF enqueueOutgoing, States
  <2> QED
    BY <1>2, <2>1, RowAdded DEF enqueueOutgoing
<1>3. ASSUME NEW m \in Messages, retryFailed(m) PROVE PhoneType'
  <2>1. event' \in [Messages -> States] /\ clock' = clock + 1
    BY <1>0, <1>3 DEF retryFailed, States
  <2>2. CASE row[m] = NoRow
    BY <1>3, <2>1, <2>2, RowAdded DEF retryFailed
  <2>3. CASE row[m] # NoRow
    <3>1. row' = [row EXCEPT ![m] = [row[m] EXCEPT !.attempts = 0, !.due = TRUE]]
      BY <1>3, <2>3 DEF retryFailed
    <3>2. [row[m] EXCEPT !.attempts = 0, !.due = TRUE] = RowOf(0, TRUE, row[m].at)
      BY <1>0, RowWritten
    <3>3. row'[m] = RowOf(0, TRUE, row[m].at)
      BY <1>0, <3>1, <3>2
    <3>4. row'[m].at = row[m].at /\ row'[m] \in Rows
      BY <1>0, <3>3, RowFacts DEF Rows, RowOf
    <3>5. \A n \in Messages \ {m} : row'[n] = row[n]
      BY <1>0, <3>1
    <3>6. row' \in [Messages -> Rows]
      BY <1>0, <3>1, <3>2, <3>3, <3>4
    <3>7. \A n \in Queued' : n \in Queued /\ row'[n].at = row[n].at
      BY <2>3, <3>4, <3>5 DEF Queued
    <3>8. clock \in Nat /\ \A n \in Queued : row[n].at \in Nat
      BY <1>0 DEF PhoneType, Queued, Rows
    <3>9. Ordered'
      BY <2>1, <3>7, <3>8 DEF PhoneType, Ordered
    <3> QED
      BY <2>1, <3>6, <3>8, <3>9 DEF PhoneType
  <2> QED
    BY <2>2, <2>3
<1>4. ASSUME NEW m \in Messages, dequeue(m), event' \in [Messages -> States], clock' = clock
      PROVE  PhoneType'
  <2>1. row' \in [Messages -> Rows]
    BY <1>0, <1>4 DEF dequeue
  <2>2. \A n \in Messages : row'[n] = NoRow \/ row'[n] = row[n]
    BY <1>0, <1>4 DEF dequeue
  <2> QED
    BY <1>4, <2>1, <2>2, RowsKept
<1>5. ASSUME NEW m \in Messages, NEW r \in Rows, row[m] # NoRow, r.at = row[m].at,
             row' = [row EXCEPT ![m] = r], event' = event, clock' = clock
      PROVE  PhoneType'
  <2>1. row' \in [Messages -> Rows]
    BY <1>0, <1>5
  <2>2. \A n \in Messages : row'[n] = NoRow \/ (row[n] # NoRow /\ row'[n].at = row[n].at)
    BY <1>0, <1>5
  <2> QED
    BY <1>0, <1>5, <2>1, <2>2, RowsKept
<1>6. ASSUME NEW m \in Messages, Elapse(m) PROVE PhoneType'
  <2>1. [row[m] EXCEPT !.due = TRUE] = RowOf(row[m].attempts, TRUE, row[m].at)
    BY <1>0, RowWritten
  <2>2. row' = [row EXCEPT ![m] = [row[m] EXCEPT !.due = TRUE]] /\ row[m] # NoRow
        /\ event' = event /\ clock' = clock
    BY <1>0, <1>6 DEF Elapse
  <2>3. RowOf(row[m].attempts, TRUE, row[m].at) \in Rows
        /\ RowOf(row[m].attempts, TRUE, row[m].at).at = row[m].at
    BY <1>0 DEF Rows, RowOf
  <2> QED
    BY <1>5, <2>1, <2>2, <2>3
<1>7. ASSUME NEW d \in Drainers, RecordRow(d) PROVE PhoneType'
  <2>1. /\ Current(d).msg \in Messages /\ Current(d).attempts \in 0..MaxAttempts
        /\ event' = event /\ clock' = clock
    BY <1>7, CurrentType DEF RecordRow, DrainType
  <2>2. CASE Exhausted(d)
    BY <1>0, <1>4, <1>7, <2>1, <2>2 DEF RecordRow
  <2>3. CASE ~Exhausted(d)
    <3> DEFINE m == Current(d).msg
    <3>1. PICK n \in 0..MaxAttempts : n = Bump(Current(d).attempts)
      BY <2>1, RowFacts
    <3>2. rescheduleOutbox(m, n)
      BY <1>7, <2>3, <3>1 DEF RecordRow
    <3>3. CASE row[m] = NoRow
      BY <1>1, <2>1, <3>2, <3>3 DEF rescheduleOutbox
    <3>4. CASE row[m] # NoRow
      <4>1. [row[m] EXCEPT !.attempts = n, !.due = FALSE] = RowOf(n, FALSE, row[m].at)
        BY <1>0, <2>1, RowWritten
      <4>2. row' = [row EXCEPT ![m] = [row[m] EXCEPT !.attempts = n, !.due = FALSE]]
        BY <1>0, <2>1, <3>2, <3>4 DEF rescheduleOutbox
      <4>3. RowOf(n, FALSE, row[m].at) \in Rows /\ RowOf(n, FALSE, row[m].at).at = row[m].at
        BY <1>0, <2>1 DEF Rows, RowOf
      <4> HIDE DEF m
      <4> QED
        BY <1>5, <2>1, <3>4, <4>1, <4>2, <4>3 DEF m
    <3> QED
      BY <3>3, <3>4
  <2> QED
    BY <2>2, <2>3
<1>8. ASSUME UNCHANGED <<row, clock>>, event' \in [Messages -> States] PROVE PhoneType'
  BY <1>8 DEF PhoneType, Ordered, Queued
<1>9. ASSUME NEW d \in Drainers, RecordState(d) PROVE PhoneType'
  <2>1. drain[d].verdict \in States
    BY DEF DrainType, Drains
  <2> QED
    BY <1>0, <1>8, <1>9, <2>1 DEF RecordState, updateDeliveryState
<1>10. ASSUME NEW m \in Messages, MarkDelivered(m) PROVE PhoneType'
  BY <1>0, <1>8, <1>10 DEF MarkDelivered, updateDeliveryState, States
<1>11. CASE purgeExpiredChunks
  BY <1>0, <1>8, <1>11 DEF purgeExpiredChunks, States
<1>12. ASSUME NEW d \in Drainers, DropOrphan(d) PROVE PhoneType'
  <2>1. Current(d).msg \in Messages
    BY <1>12, CurrentType DEF DropOrphan
  <2> QED
    BY <1>0, <1>4, <1>12, <2>1 DEF DropOrphan
<1>13. ASSUME NEW m \in Messages, Dequeue(m) PROVE PhoneType'
  BY <1>0, <1>4, <1>13 DEF Dequeue
<1>14. ASSUME NEW d \in Drainers,
              \/ Collect(d) \/ Route(d) \/ SendDirect(d) \/ MarkWaiting(d) \/ SkipOrphan(d)
              \/ AskRelay(d) \/ RelayDone(d) \/ DrainDone(d) \/ RelayAnswers(d) \/ CancelWake(d)
       PROVE  PhoneType'
  BY <1>1, <1>14 DEF Collect, Route, SendDirect, MarkWaiting, SkipOrphan, AskRelay, RelayDone,
     DrainDone, RelayAnswers, RelayAccepts, RelayRefuses, CancelWake
<1>15. ASSUME NEW m \in Messages, PcReceives(m) \/ PcFetches(m) PROVE PhoneType'
  BY <1>1, <1>15 DEF PcReceives, PcFetches
<1>16. CASE LinkUp \/ LinkDown \/ stop \/ Crash \/ UNCHANGED vars
  BY <1>1, <1>16 DEF LinkUp, LinkDown, stop, Crash, vars
<1> QED
  BY <1>2, <1>3, <1>6, <1>7, <1>9, <1>10, <1>11, <1>12, <1>13, <1>14, <1>15, <1>16
     DEF Next, DrainStep

\* The network, the acknowledgements and the counts keep their kind.
LEMMA StepNetType == TInv /\ [Next]_vars => NetType'
<1> SUFFICES ASSUME TInv, [Next]_vars PROVE NetType'
  OBVIOUS
<1> USE DEF TInv, phone, network
<1>1. CASE UNCHANGED <<network, acking, failures, retries, contested>>
  BY <1>1 DEF NetType
<1>2. ASSUME NEW m \in Messages, enqueueOutgoing(m) \/ Elapse(m) PROVE NetType'
  BY <1>1, <1>2 DEF enqueueOutgoing, Elapse
<1>3. ASSUME NEW m \in Messages, retryFailed(m) PROVE NetType'
  <2>1. failures' \in [Messages -> 0..MaxAttempts] /\ retries' \in Nat
    BY <1>3, RowFacts DEF retryFailed, NetType
  <2> QED
    BY <1>3, <2>1 DEF retryFailed, NetType
<1>4. ASSUME NEW m \in Messages,
             MarkDelivered(m) \/ Dequeue(m) \/ PcReceives(m) \/ PcFetches(m)
      PROVE  NetType'
  BY <1>4 DEF MarkDelivered, Dequeue, PcReceives, PcFetches, NetType
<1>5. CASE LinkUp \/ LinkDown \/ stop \/ Crash
  BY <1>5 DEF LinkUp, LinkDown, stop, Crash, NetType
<1>6. ASSUME NEW d \in Drainers, SendDirect(d) \/ MarkWaiting(d) PROVE NetType'
  <2>1. Current(d).msg \in Messages
    BY <1>6, CurrentType DEF SendDirect, MarkWaiting
  <2>2. failures' \in [Messages -> 0..MaxAttempts]
    BY <1>6, <2>1, RowFacts DEF SendDirect, MarkWaiting, Waiting, NetType
  <2>3. wire' \subseteq Messages
    BY <1>6, <2>1 DEF SendDirect, MarkWaiting, NetType
  <2> QED
    BY <1>6, <2>2, <2>3 DEF SendDirect, MarkWaiting, NetType
<1>7. ASSUME NEW d \in Drainers, RelayAccepts(d) PROVE NetType'
  <2>1. Current(d).msg \in Messages
    BY <1>7, CurrentType DEF RelayAccepts, DrainType
  <2> QED
    BY <1>7, <2>1 DEF RelayAccepts, NetType
<1>8. ASSUME NEW d \in Drainers,
             \/ Route(d) \/ DropOrphan(d) \/ SkipOrphan(d) \/ AskRelay(d)
             \/ RelayDone(d) \/ RecordState(d) \/ RecordRow(d) \/ DrainDone(d)
             \/ RelayRefuses(d) \/ CancelWake(d)
      PROVE  NetType'
  BY <1>1, <1>8 DEF Route, DropOrphan, SkipOrphan, AskRelay, RelayDone, RecordState,
     RecordRow, DrainDone, RelayRefuses, CancelWake
<1>9. CASE purgeExpiredChunks \/ UNCHANGED vars
  BY <1>1, <1>9 DEF purgeExpiredChunks, vars
<1>10. ASSUME NEW d \in Drainers, Collect(d) PROVE NetType'
  BY <1>10 DEF Collect, NetType, Queued
<1> QED
  BY <1>2, <1>3, <1>4, <1>5, <1>6, <1>7, <1>8, <1>9, <1>10 DEF Next, DrainStep, RelayAnswers

\* The types hold at first.
LEMMA InitTInv == Init => TInv
<1> SUFFICES ASSUME Init PROVE TInv
  OBVIOUS
<1>1. PhoneType
  <2>1. event \in [Messages -> States] /\ row \in [Messages -> Rows] /\ Queued = {}
    BY RowFacts DEF Init, States, Queued
  <2> QED
    BY <2>1 DEF Init, PhoneType, Ordered
<1>2. DrainType
  BY IdleType DEF Init, DrainType
<1>3. NetType
  BY RowFacts DEF Init, NetType
<1> QED
  BY <1>1, <1>2, <1>3 DEF TInv

\* Every reachable state has them.
LEMMA AlwaysTInv == Spec => []TInv
<1>1. TInv /\ [Next]_vars => TInv'
  BY StepPhoneType, StepDrainType, StepNetType DEF TInv
<1> QED
  BY InitTInv, <1>1, PTL DEF Spec

\* The tables, the drains and the network hold what is of their kind, every
\* count of attempts is within the limit, and a drain that writes to a row is
\* at one of those it has read (ChatSyncLoop.kt over ChatDatabase.kt), for any
\* messages, any number of drains and any limit.
THEOREM Typed == Spec => []TypeOK
<1>1. TInv => TypeOK
  BY DEF TInv, PhoneType, DrainType, NetType, TypeOK
<1> QED
  BY <1>1, AlwaysTInv, PTL

-----------------------------------------------------------------------------
(***************************************************************************)
(* No message is lost but one that two drains, or a drain and the user who *)
(* retries it, had in their hands at once.  The invariant that carries it  *)
(* says what a drain may suppose of the rows it holds alone.               *)
(***************************************************************************)
\* A message that two drains hold is contested.
ApartInv ==
    \A d, e \in Drainers : d # e => Holds(d) \cap Holds(e) \subseteq contested

\* What has been acknowledged has been received.
ReceivedInv == acks \subseteq received /\ acking \subseteq received

\* A message that a drain may still hand over or count, and one whose row it
\* may remove; of a contested one nothing is known.
Live(m) == m \in contested \cup received \/ row[m] # NoRow \/ event[m] = "absent"
Settled(m) == m \in contested \cup received \/ event[m] \in {"failed_final", "absent"}

\* A drain removes no row on its way through the relay, and otherwise only
\* that of a message whose end is shown; the rows it has still to go through
\* are there, or their messages do not need them.
HeldOf(d) ==
    LET r == drain[d] IN
    /\ r.pc = "idle" => r.due = << >>
    /\ r.pc = "route" => r.next = 1
    /\ r.pc = "relay" => r.path = "relay"
    /\ r.path = "relay" /\ r.pc \in {"state", "outbox"} => r.verdict = "cloud_queued"
    /\ \A i, j \in DOMAIN r.due : r.due[i].msg = r.due[j].msg => i = j
    /\ \A i \in DOMAIN r.due : r.path = "relay" \/ r.next <= i => Live(r.due[i].msg)
    /\ r.pc = "outbox" /\ r.verdict = "failed_final" => Settled(r.due[r.next].msg)

HeldInv == \A d \in Drainers : HeldOf(d)

LInv == TInv /\ ReceivedInv /\ ApartInv /\ HeldInv /\ LostOnlyContested

\* A drain has read rows of messages.
LEMMA DueMessages ==
    ASSUME DrainType, NEW d \in Drainers
    PROVE  \A i \in DOMAIN drain[d].due : drain[d].due[i].msg \in Messages /\ i \in Nat
<1>1. drain[d].due \in Seq(Due)
  BY DEF DrainType, Drains, Due
<1>2. \A i \in DOMAIN drain[d].due : drain[d].due[i] \in Due /\ i \in Nat
  BY <1>1
<1> QED
  BY <1>2 DEF Due

\* At rest a drain holds nothing.
LEMMA HeldAtRest ==
    ASSUME NEW d \in Drainers, drain'[d] = Idle
    PROVE  HeldOf(d)' /\ Holds(d)' = {}
<1>1. Idle.pc = "idle" /\ Idle.path = "none" /\ Idle.due = << >>
  BY DEF Idle
<1> QED
  BY <1>1 DEF HeldOf, Holds, Ahead

\* What a drain holds: the row it is at, and those it has still to go through.
LEMMA HeldAhead ==
    ASSUME TInv, NEW d \in Drainers
    PROVE  /\ Holds(d) \subseteq Messages
           /\ \A i \in DOMAIN drain[d].due :
                 drain[d].path = "relay" \/ drain[d].next <= i => drain[d].due[i].msg \in Holds(d)
           /\ drain[d].pc \in {"relay", "state", "outbox"} => Current(d).msg \in Holds(d)
<1>1. \A i \in DOMAIN drain[d].due : drain[d].due[i].msg \in Messages /\ i \in Nat
  BY DueMessages DEF TInv
<1>2. \A i \in DOMAIN drain[d].due :
          drain[d].path = "relay" \/ drain[d].next <= i => drain[d].due[i].msg \in Holds(d)
  BY DEF Holds, Ahead
<1>3. Holds(d) \subseteq Messages
  BY <1>1 DEF Holds, Ahead
<1>4. ASSUME drain[d].pc \in {"relay", "state", "outbox"} PROVE Current(d).msg \in Holds(d)
  <2>1. drain[d].next \in DOMAIN drain[d].due
    BY <1>4 DEF TInv, DrainType
  <2>2. drain[d].next <= drain[d].next
    BY <1>1, <2>1
  <2> QED
    BY <1>2, <2>1, <2>2 DEF Current
<1> QED
  BY <1>2, <1>3, <1>4

\* What a drain holds is not disturbed by a step that leaves its messages be.
LEMMA HeldKept ==
    ASSUME TInv, NEW d \in Drainers, HeldOf(d), drain'[d] = drain[d],
           \A m \in Holds(d) : (Live(m) => Live(m)') /\ (Settled(m) => Settled(m)')
    PROVE  HeldOf(d)'
<1>1. ASSUME NEW i \in DOMAIN drain'[d].due, drain'[d].path = "relay" \/ drain'[d].next <= i
      PROVE  Live(drain[d].due[i].msg)'
  <2>1. PICK m \in Holds(d) : m = drain[d].due[i].msg
    BY <1>1, HeldAhead
  <2>2. Live(m)
    BY <1>1, <2>1 DEF HeldOf
  <2>3. Live(m)'
    BY <2>2
  <2>4. m = drain'[d].due[i].msg
    BY <2>1
  <2> QED
    BY <2>3, <2>4 DEF Live
<1>2. ASSUME drain'[d].pc = "outbox", drain'[d].verdict = "failed_final"
      PROVE  Settled(drain[d].due[drain[d].next].msg)'
  <2>1. PICK m \in Holds(d) : m = drain[d].due[drain[d].next].msg
    BY <1>2, HeldAhead DEF Current
  <2>2. Settled(m)
    BY <1>2, <2>1 DEF HeldOf
  <2>3. Settled(m)'
    BY <2>2
  <2>4. m = drain'[d].due[drain'[d].next].msg
    BY <2>1
  <2> QED
    BY <2>3, <2>4 DEF Settled
<1> QED
  BY <1>1, <1>2 DEF HeldOf

\* A drain moves, with the rows it has read.
LEMMA HeldMoves ==
    ASSUME TInv, NEW d \in Drainers, HeldOf(d), NEW pc, NEW path, NEW next, NEW sent, NEW verdict,
           Moves(d, pc, path, next, sent, verdict),
           pc \notin {"idle", "route"}, pc = "relay" => path = "relay",
           path = "relay" /\ pc \in {"state", "outbox"} => verdict = "cloud_queued",
           \A i \in DOMAIN drain[d].due : \A m \in Messages :
               (path = "relay" \/ next <= i) /\ m = drain[d].due[i].msg => Live(m)',
           pc = "outbox" /\ verdict = "failed_final" =>
               \A m \in Messages : m = drain[d].due[next].msg => Settled(m)',
           pc = "outbox" => next \in DOMAIN drain[d].due,
           next \in Nat, drain[d].path = "relay" \/ drain[d].next <= next,
           path = "relay" => drain[d].path = "relay" \/ drain[d].next = 1
    PROVE  HeldOf(d)' /\ Holds(d)' \subseteq Holds(d)
<1>1. d \in Drainers /\ drain \in [Drainers -> Drains]
  BY DEF Drainers, TInv, DrainType
<1>2. drain'[d] = Place(pc, path, drain[d].due, next, sent, verdict)
  BY <1>1 DEF Moves
<1>3. /\ drain'[d].pc = pc /\ drain'[d].path = path /\ drain'[d].due = drain[d].due
      /\ drain'[d].next = next /\ drain'[d].verdict = verdict
  BY <1>2 DEF Place
<1>4. \A i \in DOMAIN drain[d].due : drain[d].due[i].msg \in Messages
  BY <1>1, DueMessages DEF TInv
<1>5. ASSUME NEW i \in DOMAIN drain[d].due, path = "relay" \/ next <= i
      PROVE  Live(drain[d].due[i].msg)'
  <2>1. PICK m \in Messages : m = drain[d].due[i].msg
    BY <1>4
  <2>2. Live(m)'
    BY <1>5, <2>1
  <2>3. m = drain'[d].due[i].msg
    BY <1>3, <2>1
  <2> QED
    BY <2>2, <2>3 DEF Live
<1>6. ASSUME pc = "outbox", verdict = "failed_final"
      PROVE  Settled(drain[d].due[drain[d].next].msg)'
  <2>1. PICK m \in Messages : m = drain[d].due[next].msg
    BY <1>4, <1>6
  <2>2. Settled(m)'
    BY <1>6, <2>1
  <2>3. m = drain'[d].due[drain'[d].next].msg
    BY <1>3, <2>1
  <2> QED
    BY <2>2, <2>3 DEF Settled
<1>7. ASSUME NEW i \in DOMAIN drain[d].due, path = "relay" \/ next <= i
      PROVE  drain[d].path = "relay" \/ drain[d].next <= i
  <2>1. i \in Nat /\ 1 <= i /\ drain[d].next \in Nat
    <3>1. drain[d].due \in Seq(Due) /\ drain[d].next \in Nat
      BY <1>1 DEF Drains, Due
    <3> QED
      BY <3>1
  <2> QED
    BY <1>7, <2>1
<1>8. Holds(d)' \subseteq Holds(d)
  BY <1>3, <1>7 DEF Holds, Ahead
<1> QED
  BY <1>3, <1>5, <1>6, <1>8 DEF HeldOf

\* A message that the PC has acknowledged was received, after every step.
LEMMA StepReceived == ReceivedInv /\ [Next]_vars => ReceivedInv'
<1> SUFFICES ASSUME ReceivedInv, [Next]_vars PROVE ReceivedInv'
  OBVIOUS
<1> USE DEF phone, network
<1>1. CASE UNCHANGED <<acks, acking, received>>
  BY <1>1 DEF ReceivedInv
<1>2. ASSUME NEW m \in Messages, enqueueOutgoing(m) \/ retryFailed(m) \/ Elapse(m)
      PROVE  ReceivedInv'
  BY <1>1, <1>2 DEF enqueueOutgoing, retryFailed, Elapse
<1>3. ASSUME NEW m \in Messages,
             MarkDelivered(m) \/ Dequeue(m) \/ PcReceives(m) \/ PcFetches(m)
      PROVE  ReceivedInv'
  BY <1>3 DEF MarkDelivered, Dequeue, PcReceives, PcFetches, ReceivedInv
<1>4. CASE LinkUp \/ LinkDown \/ stop \/ Crash
  BY <1>4 DEF LinkUp, LinkDown, stop, Crash, ReceivedInv
<1>5. ASSUME NEW d \in Drainers, DrainStep(d) PROVE ReceivedInv'
  BY <1>1, <1>5 DEF DrainStep, Collect, Route, DropOrphan, SendDirect, MarkWaiting, SkipOrphan,
     AskRelay, RelayDone, RecordState, RecordRow, DrainDone
<1>6. ASSUME NEW d \in Drainers, RelayAnswers(d) \/ CancelWake(d) PROVE ReceivedInv'
  BY <1>1, <1>6 DEF RelayAnswers, RelayAccepts, RelayRefuses, CancelWake
<1>7. CASE purgeExpiredChunks \/ UNCHANGED vars
  BY <1>1, <1>7 DEF purgeExpiredChunks, vars
<1> QED
  BY <1>2, <1>3, <1>4, <1>5, <1>6, <1>7 DEF Next

\* The conjunct of LostOnlyContested for one message.
Kept(m) ==
    m \notin contested =>
        (event[m] \notin {"unwritten", "absent", "failed_final"} /\ m \notin received
            => row[m] # NoRow)

\* The rows that the steps leave there.
LEMMA RowThere ==
    ASSUME NEW r \in Rows, NEW n \in 0..MaxAttempts, n # 0, NEW b \in BOOLEAN
    PROVE  /\ [r EXCEPT !.due = TRUE] # NoRow
           /\ [r EXCEPT !.attempts = 0, !.due = TRUE] # NoRow
           /\ [r EXCEPT !.attempts = n, !.due = b] # NoRow
<1>1. \A at : RowOf(r.attempts, TRUE, at) # NoRow /\ RowOf(0, TRUE, at) # NoRow
              /\ RowOf(n, b, at) # NoRow
  BY DEF RowOf, NoRow
<1>2. [r EXCEPT !.due = TRUE] = RowOf(r.attempts, TRUE, r.at)
  BY RowWritten
<1>3. [r EXCEPT !.attempts = 0, !.due = TRUE] = RowOf(0, TRUE, r.at)
  BY RowWritten
<1>4. [r EXCEPT !.attempts = n, !.due = b] = RowOf(n, b, r.at)
  BY RowWritten
<1> QED
  BY <1>1, <1>2, <1>3, <1>4

\* A row that fails once more is there.
LEMMA Rescheduled ==
    ASSUME PhoneType, NEW m \in Messages, NEW n \in 0..MaxAttempts,
           rescheduleOutbox(m, Bump(n))
    PROVE  \A q \in Messages : row[q] # NoRow => row'[q] # NoRow
<1>1. Bump(n) \in 0..MaxAttempts /\ Bump(n) # 0
  BY RowFacts
<1>2. row \in [Messages -> Rows] /\ row[m] \in Rows
  BY DEF PhoneType
<1>3. [row[m] EXCEPT !.attempts = Bump(n), !.due = FALSE] # NoRow
  BY <1>1, <1>2, RowThere
<1>4. CASE row[m] = NoRow
  BY <1>4 DEF rescheduleOutbox
<1>5. CASE row[m] # NoRow
  <2>1. row' = [row EXCEPT ![m] = [row[m] EXCEPT !.attempts = Bump(n), !.due = FALSE]]
    BY <1>2, <1>5 DEF rescheduleOutbox
  <2> QED
    BY <1>2, <1>3, <2>1
<1> QED
  BY <1>4, <1>5

\* What the user, the acknowledgements, time and the network do loses nothing
\* and disturbs nothing a drain holds.
OthersStep ==
    \/ \E m \in Messages :
          \/ enqueueOutgoing(m) \/ retryFailed(m) \/ MarkDelivered(m) \/ Dequeue(m)
          \/ Elapse(m) \/ PcReceives(m) \/ PcFetches(m)
    \/ purgeExpiredChunks \/ LinkUp \/ LinkDown \/ UNCHANGED vars

\* No such step loses a message; only its retry takes back that one has failed,
\* and that one is contested while a drain holds it.
LEMMA OthersMessage ==
    ASSUME TInv, ReceivedInv, OthersStep, NEW q \in Messages
    PROVE  /\ Kept(q) => Kept(q)'
           /\ Live(q) => Live(q)'
           /\ q \in Held /\ Settled(q) => Settled(q)'
           /\ q \in Held /\ q \in contested => q \in contested'
<1> USE DEF phone, network
<1>0. /\ event \in [Messages -> States] /\ row \in [Messages -> Rows]
      /\ \A m \in Messages : row[m] \in Rows
  BY DEF TInv, PhoneType
<1>1. ASSUME UNCHANGED <<event, row, contested>>, received \subseteq received'
      PROVE  /\ Kept(q) => Kept(q)'
             /\ Live(q) => Live(q)'
             /\ Settled(q) => Settled(q)'
             /\ contested' = contested
  BY <1>1 DEF Kept, Live, Settled
<1>2. ASSUME NEW m \in Messages, enqueueOutgoing(m)
      PROVE  /\ Kept(q) => Kept(q)'
             /\ Live(q) => Live(q)'
             /\ Settled(q) => Settled(q)'
             /\ contested' = contested
  <2>1. row'[m] # NoRow /\ event[m] = "unwritten" /\ event'[m] = "local_pending"
        /\ UNCHANGED <<received, contested>>
    BY <1>0, <1>2, RowFacts DEF enqueueOutgoing, TInv, PhoneType
  <2>2. q # m => row'[q] = row[q] /\ event'[q] = event[q]
    BY <1>0, <1>2 DEF enqueueOutgoing
  <2> QED
    BY <2>1, <2>2 DEF Kept, Live, Settled
<1>3. ASSUME NEW m \in Messages, retryFailed(m)
      PROVE  /\ Kept(q) => Kept(q)'
             /\ Live(q) => Live(q)'
             /\ q \in Held /\ Settled(q) => Settled(q)'
             /\ q \in Held /\ q \in contested => q \in contested'
  <2>1. row'[m] # NoRow
    <3>1. NewRow # NoRow /\ [row[m] EXCEPT !.attempts = 0, !.due = TRUE] # NoRow
      <4>1. \E n \in 0..MaxAttempts : n # 0
        BY OutboxAssumption
      <4> QED
        BY <1>0, <4>1, RowFacts, RowThere DEF TInv, PhoneType
    <3> QED
      BY <1>0, <1>3, <3>1 DEF retryFailed
  <2>2. q # m => row'[q] = row[q] /\ event'[q] = event[q]
    BY <1>0, <1>3 DEF retryFailed
  <2>3. UNCHANGED received
    BY <1>3 DEF retryFailed
  <2>4. contested' = IF m \in Held THEN contested \cup {m} ELSE contested \ {m}
    BY <1>3 DEF retryFailed
  <2>5. CASE q = m
    BY <2>1, <2>3, <2>4, <2>5 DEF Kept, Live, Settled
  <2>6. CASE q # m
    <3>1. q \in contested' <=> q \in contested
      BY <2>4, <2>6
    <3> QED
      BY <2>2, <2>3, <2>6, <3>1 DEF Kept, Live, Settled
  <2> QED
    BY <2>5, <2>6
<1>4. ASSUME NEW m \in Messages, MarkDelivered(m)
      PROVE  /\ Kept(q) => Kept(q)'
             /\ Live(q) => Live(q)'
             /\ Settled(q) => Settled(q)'
             /\ contested' = contested
  <2>1. m \in received /\ UNCHANGED <<received, row, contested>>
    BY <1>4 DEF MarkDelivered, ReceivedInv
  <2>2. q # m => event'[q] = event[q]
    BY <1>0, <1>4 DEF MarkDelivered, updateDeliveryState
  <2> QED
    BY <2>1, <2>2 DEF Kept, Live, Settled
<1>5. ASSUME NEW m \in Messages, Dequeue(m)
      PROVE  /\ Kept(q) => Kept(q)'
             /\ Live(q) => Live(q)'
             /\ Settled(q) => Settled(q)'
             /\ contested' = contested
  <2>1. m \in received /\ UNCHANGED <<received, event, contested>>
    BY <1>5 DEF Dequeue, ReceivedInv
  <2>2. q # m => row'[q] = row[q]
    BY <1>0, <1>5 DEF Dequeue, dequeue
  <2> QED
    BY <2>1, <2>2 DEF Kept, Live, Settled
<1>6. ASSUME NEW m \in Messages, Elapse(m)
      PROVE  /\ Kept(q) => Kept(q)'
             /\ Live(q) => Live(q)'
             /\ Settled(q) => Settled(q)'
             /\ contested' = contested
  <2>1. UNCHANGED <<received, event, contested>> /\ row[m] # NoRow
    BY <1>6 DEF Elapse
  <2>2. row' = [row EXCEPT ![m] = [row[m] EXCEPT !.due = TRUE]]
    BY <1>0, <1>6 DEF Elapse
  <2>3. [row[m] EXCEPT !.due = TRUE] # NoRow
    <3>1. \E n \in 0..MaxAttempts : n # 0
      BY OutboxAssumption
    <3> QED
      BY <1>0, <3>1, RowThere
  <2>4. row'[m] # NoRow /\ (q # m => row'[q] = row[q])
    BY <1>0, <2>2, <2>3
  <2> QED
    BY <2>1, <2>4 DEF Kept, Live, Settled
<1>7. ASSUME NEW m \in Messages, PcReceives(m) \/ PcFetches(m)
      PROVE  UNCHANGED <<event, row, contested>> /\ received \subseteq received'
  BY <1>7 DEF PcReceives, PcFetches
<1>8. CASE purgeExpiredChunks
  <2>1. UNCHANGED <<row, received, contested>> /\ event'[q] \in {"absent", event[q]}
    BY <1>8 DEF purgeExpiredChunks
  <2> QED
    BY <2>1 DEF Kept, Live, Settled
<1>9. ASSUME LinkUp \/ LinkDown \/ UNCHANGED vars
      PROVE  UNCHANGED <<event, row, contested>> /\ received \subseteq received'
  BY <1>9 DEF LinkUp, LinkDown, vars
<1> QED
  BY <1>1, <1>2, <1>3, <1>4, <1>5, <1>6, <1>7, <1>8, <1>9 DEF OthersStep

\* Such a step keeps what every drain holds, and every message.
LEMMA OthersHeld ==
    ASSUME TInv, ReceivedInv, ApartInv, HeldInv, LostOnlyContested, OthersStep
    PROVE  ApartInv' /\ HeldInv' /\ LostOnlyContested'
<1>1. \A m \in Messages : Kept(m) => Kept(m)'
  BY OthersMessage
<1>2. \A m \in Messages : Live(m) => Live(m)'
  BY OthersMessage
<1>3. drain' = drain
  BY DEF OthersStep, enqueueOutgoing, retryFailed, MarkDelivered, Dequeue, Elapse, PcReceives,
         PcFetches, purgeExpiredChunks, LinkUp, LinkDown, vars
<1>4. ASSUME NEW d \in Drainers PROVE HeldOf(d)'
  <2>1. \A m \in Holds(d) : m \in Messages /\ m \in Held
    BY HeldAhead DEF Held
  <2>2. \A m \in Holds(d) : Settled(m) => Settled(m)'
    BY <2>1, OthersMessage
  <2> QED
    BY <1>2, <1>3, <2>1, <2>2, HeldKept DEF HeldInv
<1>5. LostOnlyContested'
  BY <1>1 DEF LostOnlyContested, Kept
<1>6. ApartInv'
  <2>1. \A d \in Drainers : Holds(d)' = Holds(d)
    BY <1>3 DEF Holds, Ahead
  <2>2. ASSUME NEW d \in Drainers, NEW e \in Drainers, d # e, NEW m \in Holds(d) \cap Holds(e)
        PROVE  m \in contested'
    <3>1. m \in Messages /\ m \in Held /\ m \in contested
      BY <2>2, HeldAhead DEF ApartInv, Held
    <3> QED
      BY <3>1, OthersMessage
  <2> QED
    BY <2>1, <2>2 DEF ApartInv
<1> QED
  BY <1>4, <1>5, <1>6 DEF HeldInv

\* A drain reads the rows that are due, in no other's hands or contested.
LEMMA CollectHeld ==
    ASSUME TInv, NEW d \in Drainers, LostOnlyContested, Collect(d)
    PROVE  /\ HeldOf(d)' /\ LostOnlyContested'
           /\ \A m \in Holds(d)' : m \in Queued /\ row[m].due
<1>0. /\ drain \in [Drainers -> Drains] /\ d \in Drainers
      /\ UNCHANGED <<event, row, received>> /\ contested \subseteq contested'
  BY DEF Drainers, TInv, DrainType, Collect, phone, network
<1>1. PICK due : due = dueOutbox
  OBVIOUS
<1>2. drain'[d] = [Idle EXCEPT !.pc = "route", !.due = due]
  BY <1>0, <1>1 DEF Collect
<1>3. [Idle EXCEPT !.pc = "route", !.due = due] = Place("route", "none", due, 1, 0, "absent")
  <2>1. [Idle EXCEPT !.pc = "route", !.due = due]
          = [[Idle EXCEPT !.pc = "route"] EXCEPT !.due = due]
    OBVIOUS
  <2>2. [Idle EXCEPT !.pc = "route"] = Place("route", "none", << >>, 1, 0, "absent")
    BY IdleType DEF Place
  <2>3. [Place("route", "none", << >>, 1, 0, "absent") EXCEPT !.due = due]
          = Place("route", "none", due, 1, 0, "absent")
    BY DEF Place
  <2> QED
    BY <2>1, <2>2, <2>3
<1>4. /\ drain'[d].pc = "route" /\ drain'[d].next = 1 /\ drain'[d].path = "none"
      /\ drain'[d].due = due
  BY <1>2, <1>3 DEF Place
<1>5. /\ \A i \in DOMAIN due : due[i].msg \in Queued /\ row[due[i].msg].due
      /\ \A i, j \in DOMAIN due : due[i].msg = due[j].msg => i = j
  BY <1>1, DueFacts DEF TInv
<1>6. ASSUME NEW i \in DOMAIN drain'[d].due PROVE Live(drain[d].due[i].msg)'
  <2>1. i \in DOMAIN due /\ drain'[d].due[i].msg = due[i].msg
    BY <1>4, <1>6
  <2> QED
    BY <1>0, <1>5, <2>1 DEF Live, Queued
<1>7. LostOnlyContested'
  BY <1>0 DEF LostOnlyContested
<1>8. \A m \in Holds(d)' : m \in Queued /\ row[m].due
  BY <1>4, <1>5 DEF Holds, Ahead
<1> QED
  BY <1>4, <1>5, <1>6, <1>7, <1>8 DEF HeldOf

\* The other steps of a drain that write to no table.
QuietStep(d) ==
    \/ Route(d) \/ SendDirect(d) \/ MarkWaiting(d) \/ SkipOrphan(d)
    \/ AskRelay(d) \/ RelayDone(d) \/ DrainDone(d) \/ RelayAnswers(d)

\* They lose nothing and keep what it holds.
LEMMA QuietHeld ==
    ASSUME TInv, NEW d \in Drainers, HeldOf(d), LostOnlyContested, QuietStep(d)
    PROVE  HeldOf(d)' /\ Holds(d)' \subseteq Holds(d) /\ LostOnlyContested'
<1> USE DEF phone, network
<1> DEFINE r == drain[d]
<1>0. /\ drain \in [Drainers -> Drains] /\ d \in Drainers /\ DrainType
      /\ \A i \in DOMAIN r.due : r.due[i].msg \in Messages /\ i \in Nat /\ 1 <= i
      /\ r.next \in Nat /\ r.sent \in Nat
  <2>1. DrainType /\ d \in Drainers /\ drain \in [Drainers -> Drains]
    BY DEF Drainers, TInv, DrainType
  <2>2. r.due \in Seq(Due)
    BY <2>1 DEF DrainType, Drains, Due
  <2>3. \A i \in DOMAIN r.due : 1 <= i
    BY <2>2
  <2>4. r.next \in Nat /\ r.sent \in Nat
    BY <2>1 DEF Drains
  <2> QED
    BY <2>1, <2>3, <2>4, DueMessages
<1>1. UNCHANGED <<event, row, received, contested>>
  BY DEF QuietStep, Route, SendDirect, MarkWaiting, SkipOrphan, AskRelay, RelayDone,
         DrainDone, RelayAnswers, RelayAccepts, RelayRefuses
<1>2. LostOnlyContested'
  BY <1>1 DEF LostOnlyContested
<1>3. \A m \in Messages : Live(m) => Live(m)'
  BY <1>1 DEF Live
<1>4. \A i \in DOMAIN r.due : \A m \in Messages :
          (r.path = "relay" \/ r.next <= i) /\ m = r.due[i].msg => Live(m)'
  BY <1>3 DEF HeldOf
<1>6. CASE Route(d)
  <2>1. PICK path \in {"direct", "relay", "wait"} :
            drain' = [drain EXCEPT ![d].pc = "row", ![d].path = path]
    BY <1>6 DEF Route
  <2>2. Moves(d, "row", path, r.next, r.sent, r.verdict)
    BY <1>0, <2>1, DrainForms
  <2>3. r.next = 1
    BY <1>6 DEF Route, HeldOf
  <2>4. \A i \in DOMAIN r.due : \A m \in Messages : m = r.due[i].msg => Live(m)'
    BY <1>0, <1>4, <2>3
  <2> QED
    BY <1>0, <1>2, <2>2, <2>3, <2>4, HeldMoves
<1>7. CASE SendDirect(d) \/ MarkWaiting(d) \/ RelayAccepts(d)
  <2>1. PICK v : /\ Verdict(d, v)
                 /\ r.path = "relay" => v = "cloud_queued"
    <3>1. CASE SendDirect(d) \/ MarkWaiting(d)
      <4>1. r.path # "relay"
        BY <3>1 DEF SendDirect, MarkWaiting
      <4>2. \E v : Verdict(d, v)
        BY <3>1 DEF SendDirect, MarkWaiting, Waiting
      <4> QED
        BY <4>1, <4>2
    <3>2. CASE RelayAccepts(d)
      BY <3>2 DEF RelayAccepts
    <3> QED
      BY <1>7, <3>1, <3>2
  <2>2. Moves(d, "state", r.path, r.next, r.sent, v)
    BY <1>0, <2>1, DrainForms
  <2> QED
    BY <1>0, <1>2, <1>4, <2>1, <2>2, HeldMoves
<1>8. CASE SkipOrphan(d)
  <2>1. drain' = [drain EXCEPT ![d].next = @ + 1] /\ r.pc = "row" /\ r.path = "relay"
    BY <1>8 DEF SkipOrphan, More
  <2>2. Moves(d, "row", r.path, r.next + 1, r.sent, r.verdict)
    BY <1>0, <2>1, DrainForms
  <2> QED
    BY <1>0, <1>2, <1>4, <2>1, <2>2, HeldMoves
<1>9. CASE AskRelay(d)
  <2>1. Go(d, "relay") /\ r.path = "relay"
    BY <1>9 DEF AskRelay
  <2>2. Moves(d, "relay", r.path, r.next, r.sent, r.verdict)
    BY <1>0, <2>1, DrainForms
  <2> QED
    BY <1>0, <1>2, <1>4, <2>1, <2>2, HeldMoves
<1>10. CASE RelayRefuses(d) \/ RelayDone(d)
  <2>1. Leftovers(d) /\ r.path = "relay"
    BY <1>10 DEF RelayRefuses, RelayDone, HeldOf
  <2>2. Moves(d, "row", "wait", r.sent + 1, r.sent, r.verdict)
    BY <1>0, <2>1, DrainForms
  <2> QED
    BY <1>0, <1>2, <1>4, <2>1, <2>2, HeldMoves
<1>11. CASE DrainDone(d)
  <2>1. drain'[d] = Idle
    BY <1>0, <1>11 DEF DrainDone
  <2> QED
    BY <1>2, <2>1, HeldAtRest
<1> QED
  BY <1>6, <1>7, <1>8, <1>9, <1>10, <1>11 DEF QuietStep, RelayAnswers

\* A drain removes a row whose event is gone.
LEMMA DropHeld ==
    ASSUME TInv, NEW d \in Drainers, HeldOf(d), LostOnlyContested, DropOrphan(d)
    PROVE  HeldOf(d)' /\ Holds(d)' \subseteq Holds(d) /\ LostOnlyContested'
<1> DEFINE r == drain[d]
           q == Current(d).msg
<1>0. /\ drain \in [Drainers -> Drains] /\ d \in Drainers /\ DrainType
      /\ \A i \in DOMAIN r.due : r.due[i].msg \in Messages /\ i \in Nat
      /\ row \in [Messages -> Rows] /\ r.next \in Nat
  BY DueMessages DEF Drainers, TInv, DrainType, PhoneType, Drains
<1>1. /\ event[q] = "absent" /\ UNCHANGED <<event, received, contested>> /\ dequeue(q)
      /\ r.path = "direct" /\ r.pc = "row" /\ drain' = [drain EXCEPT ![d].next = @ + 1]
  BY DEF DropOrphan, network, More
<1>2. Moves(d, "row", r.path, r.next + 1, r.sent, r.verdict)
  BY <1>0, <1>1, DrainForms
<1>3. \A m \in Messages : m # q => row'[m] = row[m]
  BY <1>0, <1>1 DEF dequeue
<1>4. \A m \in Messages : (Live(m) => Live(m)') /\ (Kept(m) => Kept(m)')
  BY <1>1, <1>3 DEF Live, Kept
<1>5. LostOnlyContested'
  BY <1>4 DEF LostOnlyContested, Kept
<1>6. ASSUME NEW i \in DOMAIN r.due, NEW m \in Messages, r.next + 1 <= i, m = r.due[i].msg
      PROVE  Live(m)'
  <2>1. r.next <= i
    BY <1>0, <1>6
  <2> QED
    BY <1>4, <1>6, <2>1 DEF HeldOf
<1> QED
  BY <1>0, <1>1, <1>2, <1>5, <1>6, HeldMoves

\* A drain records what became of a message whose row is there.
LEMMA RecordStateHeld ==
    ASSUME TInv, NEW d \in Drainers, HeldOf(d), LostOnlyContested, RecordState(d)
    PROVE  HeldOf(d)' /\ Holds(d)' \subseteq Holds(d) /\ LostOnlyContested'
<1> DEFINE r == drain[d]
           q == Current(d).msg
<1>0. /\ drain \in [Drainers -> Drains] /\ d \in Drainers /\ DrainType
      /\ \A i \in DOMAIN r.due : r.due[i].msg \in Messages /\ i \in Nat
      /\ event \in [Messages -> States] /\ r.next \in Nat
  BY DueMessages DEF Drainers, TInv, DrainType, PhoneType, Drains
<1>1. /\ r.pc = "state" /\ updateDeliveryState(q, r.verdict) /\ Go(d, "outbox")
      /\ UNCHANGED <<row, received, contested>>
  BY DEF RecordState, network
<1>2. /\ r.next \in DOMAIN r.due /\ q = r.due[r.next].msg /\ q \in Messages
  BY <1>0, <1>1, CurrentType DEF DrainType
<1>3. Moves(d, "outbox", r.path, r.next, r.sent, r.verdict)
  BY <1>0, <1>1, DrainForms
<1>4. /\ \A m \in Messages : m # q => event'[m] = event[m]
      /\ event'[q] = IF event[q] = "absent" THEN "absent" ELSE r.verdict
  BY <1>0, <1>1, <1>2 DEF updateDeliveryState
<1>5. Live(q)
  BY <1>0, <1>2 DEF HeldOf
<1>6. \A m \in Messages : Live(m) => Live(m)'
  BY <1>1, <1>4 DEF Live
<1>7. LostOnlyContested'
  <2>1. \A m \in Messages : Kept(m)'
    BY <1>1, <1>4, <1>5 DEF LostOnlyContested, Kept, Live
  <2> QED
    BY <2>1 DEF LostOnlyContested, Kept
<1>8. r.path = "relay" => r.verdict = "cloud_queued"
  BY <1>1 DEF HeldOf
<1>9. \A i \in DOMAIN r.due : \A m \in Messages :
          (r.path = "relay" \/ r.next <= i) /\ m = r.due[i].msg => Live(m)'
  BY <1>6 DEF HeldOf
<1>10. ASSUME r.verdict = "failed_final", NEW m \in Messages, m = r.due[r.next].msg
       PROVE  Settled(m)'
  <2>1. m = q
    BY <1>2, <1>10
  <2>2. event'[m] \in {"failed_final", "absent"}
    BY <1>4, <1>10, <2>1
  <2> QED
    BY <2>2 DEF Settled
<1> QED
  BY <1>0, <1>2, <1>3, <1>7, <1>8, <1>9, <1>10, HeldMoves

\* A drain removes the row of a message that failed for good, or keeps the
\* row for another attempt.
LEMMA RecordRowHeld ==
    ASSUME TInv, NEW d \in Drainers, HeldOf(d), LostOnlyContested, RecordRow(d)
    PROVE  HeldOf(d)' /\ Holds(d)' \subseteq Holds(d) /\ LostOnlyContested'
<1> DEFINE r == drain[d]
           q == Current(d).msg
<1>0. /\ drain \in [Drainers -> Drains] /\ d \in Drainers /\ DrainType /\ PhoneType
      /\ \A i \in DOMAIN r.due : r.due[i].msg \in Messages /\ i \in Nat
      /\ row \in [Messages -> Rows] /\ r.next \in Nat
  BY DueMessages DEF Drainers, TInv, DrainType, PhoneType, Drains
<1>1. /\ r.pc = "outbox" /\ UNCHANGED <<event, received, contested>>
      /\ IF Exhausted(d) THEN dequeue(q) ELSE rescheduleOutbox(q, Bump(Current(d).attempts))
  BY DEF RecordRow, network
<1>2. /\ r.next \in DOMAIN r.due /\ q = r.due[r.next].msg /\ q \in Messages
      /\ Current(d).attempts \in 0..MaxAttempts
  BY <1>0, <1>1, CurrentType DEF DrainType
<1>3. PICK sent : Moves(d, "row", r.path, r.next + 1, sent, r.verdict)
  BY <1>0, DrainForms
<1>4. CASE ~Exhausted(d)
  <2>1. \A m \in Messages : row[m] # NoRow => row'[m] # NoRow
    BY <1>0, <1>1, <1>2, <1>4, Rescheduled
  <2>2. LostOnlyContested'
    BY <1>1, <2>1 DEF LostOnlyContested
  <2>3. \A m \in Messages : Live(m) => Live(m)'
    BY <1>1, <2>1 DEF Live
  <2>4. \A i \in DOMAIN r.due : \A m \in Messages :
            (r.path = "relay" \/ r.next + 1 <= i) /\ m = r.due[i].msg => Live(m)'
    BY <1>0, <2>3 DEF HeldOf
  <2> QED
    BY <1>0, <1>3, <2>2, <2>4, HeldMoves
<1>5. CASE Exhausted(d)
  <2>1. r.verdict = "failed_final" /\ r.path # "relay"
    BY <1>1, <1>5 DEF Exhausted, HeldOf
  <2>2. Settled(q)
    BY <1>1, <1>2, <2>1 DEF HeldOf
  <2>3. \A m \in Messages : m # q => row'[m] = row[m]
    BY <1>0, <1>1, <1>5 DEF dequeue
  <2>4. LostOnlyContested'
    BY <1>1, <2>2, <2>3 DEF LostOnlyContested, Settled
  <2>5. ASSUME NEW i \in DOMAIN r.due, NEW m \in Messages, r.next + 1 <= i, m = r.due[i].msg
        PROVE  Live(m)'
    <3>1. r.next <= i /\ i # r.next
      BY <1>0, <2>5
    <3>2. Live(m) /\ m # q
      BY <1>2, <2>5, <3>1 DEF HeldOf
    <3> QED
      BY <1>1, <2>3, <3>2 DEF Live
  <2> QED
    BY <1>0, <1>3, <2>1, <2>4, <2>5, HeldMoves
<1> QED
  BY <1>4, <1>5

\* A step of one drain does not disturb what the others hold.
LEMMA NeighbourHeld ==
    ASSUME TInv, HeldInv, ApartInv, NEW d \in Drainers, NEW e \in Drainers, d # e,
           DrainStep(d) \/ RelayAnswers(d)
    PROVE  HeldOf(e)'
<1>0. /\ drain \in [Drainers -> Drains] /\ DrainType /\ PhoneType
      /\ event \in [Messages -> States] /\ row \in [Messages -> Rows]
  BY DEF TInv, DrainType, PhoneType
<1>2. drain'[e] = drain[e]
  BY <1>0 DEF DrainStep, RelayAnswers, Collect, Route, DropOrphan, SendDirect, MarkWaiting, Waiting,
     SkipOrphan, AskRelay, RelayDone, Leftovers, RecordState, RecordRow, DrainDone, RelayAccepts,
     RelayRefuses, Go, Verdict
<1>3. HeldOf(e) /\ Holds(e) \subseteq Messages
  BY HeldAhead DEF HeldInv
<1>4. ASSUME QuietStep(d) \/ Collect(d)
      PROVE  \A m \in Holds(e) : (Live(m) => Live(m)') /\ (Settled(m) => Settled(m)')
  <2>1. UNCHANGED <<event, row, received>> /\ contested \subseteq contested'
    BY <1>4 DEF QuietStep, Collect, Route, SendDirect, MarkWaiting, SkipOrphan, AskRelay, RelayDone,
         DrainDone, RelayAnswers, RelayAccepts, RelayRefuses, phone, network
  <2> QED
    BY <2>1 DEF Live, Settled
<1>5. ASSUME DropOrphan(d)
      PROVE  \A m \in Holds(e) : (Live(m) => Live(m)') /\ (Settled(m) => Settled(m)')
  <2>1. PICK q : q = Current(d).msg
    OBVIOUS
  <2>2. /\ UNCHANGED <<event, received, contested>> /\ event[q] = "absent"
        /\ \A m \in Messages : m # q => row'[m] = row[m]
    BY <1>0, <1>5, <2>1 DEF DropOrphan, dequeue, network
  <2> QED
    BY <1>3, <2>2 DEF Live, Settled
<1>6. ASSUME RecordState(d) \/ RecordRow(d)
      PROVE  \A m \in Holds(e) : (Live(m) => Live(m)') /\ (Settled(m) => Settled(m)')
  <2>1. PICK q : q = Current(d).msg
    OBVIOUS
  <2>2. q \in Holds(d)
    BY <1>6, <2>1, HeldAhead DEF RecordState, RecordRow
  <2>3. \A m \in Holds(e) : m # q \/ m \in contested
    BY <2>2 DEF ApartInv
  <2>4. /\ UNCHANGED <<received, contested>>
        /\ \A m \in Messages : m # q => event'[m] = event[m] /\ row'[m] = row[m]
    BY <1>0, <1>6, <2>1 DEF RecordState, RecordRow, updateDeliveryState, dequeue,
       rescheduleOutbox, network
  <2> QED
    BY <1>3, <2>3, <2>4 DEF Live, Settled
<1>7. \A m \in Holds(e) : (Live(m) => Live(m)') /\ (Settled(m) => Settled(m)')
  BY <1>4, <1>5, <1>6 DEF DrainStep, QuietStep
<1> QED
  BY <1>2, <1>3, <1>7, HeldKept

\* A step of one drain keeps what they all hold, and every message.
LEMMA DrainHeld ==
    ASSUME TInv, ApartInv, HeldInv, LostOnlyContested, NEW d \in Drainers,
           DrainStep(d) \/ RelayAnswers(d)
    PROVE  ApartInv' /\ HeldInv' /\ LostOnlyContested'
<1>1. HeldOf(d)
  BY DEF HeldInv
<1>2. HeldOf(d)' /\ LostOnlyContested'
  BY <1>1, CollectHeld, QuietHeld, DropHeld, RecordStateHeld, RecordRowHeld
     DEF DrainStep, QuietStep
<1>3. \A e \in Drainers : HeldOf(e)'
  BY <1>2, NeighbourHeld
<1>4. \A e \in Drainers : e # d => Holds(e)' = Holds(e)
  <2>1. \A e \in Drainers : e # d => drain'[e] = drain[e]
    BY DEF DrainStep, RelayAnswers, Collect, Route, DropOrphan, SendDirect, MarkWaiting,
       Waiting, SkipOrphan, AskRelay, RelayDone, Leftovers, RecordState, RecordRow, DrainDone,
       RelayAccepts, RelayRefuses, Go, Verdict, TInv, DrainType
  <2> QED
    BY <2>1 DEF Holds, Ahead
<1>5. ASSUME NEW e \in Drainers, e # d, NEW m \in Holds(e), m \in Holds(d)'
      PROVE  m \in contested'
  <2>1. CASE Collect(d)
    <3>1. m \in Queued /\ row[m].due /\ m \in Held
      BY <1>5, <2>1, CollectHeld DEF Held
    <3> QED
      BY <2>1, <3>1 DEF Collect
  <2>2. CASE ~Collect(d)
    <3>1. Holds(d)' \subseteq Holds(d)
      BY <1>1, <2>2, QuietHeld, DropHeld, RecordStateHeld, RecordRowHeld
         DEF DrainStep, QuietStep
    <3>2. m \in contested
      BY <1>5, <3>1 DEF ApartInv
    <3>3. UNCHANGED contested
      BY <2>2 DEF DrainStep, RelayAnswers, Route, DropOrphan, SendDirect, MarkWaiting, SkipOrphan,
         AskRelay, RelayDone, RecordState, RecordRow, DrainDone, RelayAccepts, RelayRefuses
    <3> QED
      BY <3>2, <3>3
  <2> QED
    BY <2>1, <2>2
<1>6. ApartInv'
  <2>1. ASSUME NEW e \in Drainers, NEW f \in Drainers, e # f,
               NEW m \in Holds(e)' \cap Holds(f)'
        PROVE  m \in contested'
    <3>1. CASE e = d
      BY <1>4, <1>5, <2>1, <3>1
    <3>2. CASE f = d
      BY <1>4, <1>5, <2>1, <3>2
    <3>3. CASE e # d /\ f # d
      <4>1. m \in contested
        BY <1>4, <2>1, <3>3 DEF ApartInv
      <4>2. contested \subseteq contested'
        BY DEF DrainStep, RelayAnswers, Collect, Route, DropOrphan, SendDirect, MarkWaiting,
           SkipOrphan, AskRelay, RelayDone, RecordState, RecordRow, DrainDone, RelayAccepts,
           RelayRefuses
      <4> QED
        BY <4>1, <4>2
    <3> QED
      BY <3>1, <3>2, <3>3
  <2> QED
    BY <2>1 DEF ApartInv
<1> QED
  BY <1>2, <1>3, <1>6 DEF HeldInv

\* The drains that are stopped hold nothing any more.
LEMMA StoppedHeld ==
    ASSUME TInv, ApartInv, HeldInv, LostOnlyContested,
           stop \/ Crash \/ \E d \in Drainers : CancelWake(d)
    PROVE  ApartInv' /\ HeldInv' /\ LostOnlyContested'
<1>1. UNCHANGED <<event, row, received, contested>>
  BY DEF stop, Crash, CancelWake, phone, network
<1>2. ASSUME NEW e \in Drainers PROVE HeldOf(e)' /\ Holds(e)' \subseteq Holds(e)
  <2>1. drain'[e] \in {Idle, drain[e]}
    BY DEF stop, Crash, CancelWake, TInv, DrainType
  <2>2. HeldOf(e) /\ \A m \in Holds(e) : (Live(m) => Live(m)') /\ (Settled(m) => Settled(m)')
    BY <1>1 DEF HeldInv, Live, Settled
  <2>3. CASE drain'[e] = Idle
    BY <2>3, HeldAtRest
  <2>4. CASE drain'[e] = drain[e]
    <3>1. Holds(e)' = Holds(e)
      BY <2>4 DEF Holds, Ahead
    <3> QED
      BY <2>2, <2>4, <3>1, HeldKept
  <2> QED
    BY <2>1, <2>3, <2>4
<1>3. ApartInv'
  BY <1>1, <1>2 DEF ApartInv
<1> QED
  BY <1>1, <1>2, <1>3 DEF HeldInv, LostOnlyContested

\* The invariant is inductive.
LEMMA StepLInv == LInv /\ [Next]_vars => LInv'
<1> SUFFICES ASSUME LInv, [Next]_vars PROVE LInv'
  OBVIOUS
<1>1. TInv'
  BY StepPhoneType, StepDrainType, StepNetType DEF TInv, LInv
<1>2. ReceivedInv'
  BY StepReceived DEF LInv
<1>3. ASSUME OthersStep PROVE ApartInv' /\ HeldInv' /\ LostOnlyContested'
  BY <1>3, OthersHeld DEF LInv
<1>4. ASSUME NEW d \in Drainers, DrainStep(d) \/ RelayAnswers(d)
      PROVE  ApartInv' /\ HeldInv' /\ LostOnlyContested'
  BY <1>4, DrainHeld DEF LInv
<1>5. ASSUME stop \/ Crash \/ \E d \in Drainers : CancelWake(d)
      PROVE  ApartInv' /\ HeldInv' /\ LostOnlyContested'
  BY <1>5, StoppedHeld DEF LInv
<1>6. ApartInv' /\ HeldInv' /\ LostOnlyContested'
  BY <1>3, <1>4, <1>5 DEF Next, OthersStep
<1> QED
  BY <1>1, <1>2, <1>6 DEF LInv

\* It holds at first.
LEMMA InitLInv == Init => LInv
<1> SUFFICES ASSUME Init PROVE LInv
  OBVIOUS
<1>1. Idle.pc = "idle" /\ Idle.path = "none" /\ Idle.due = << >>
  BY DEF Idle
<1>2. HeldInv /\ ApartInv
  BY <1>1 DEF Init, HeldInv, HeldOf, ApartInv, Holds, Ahead
<1> QED
  BY <1>2, InitTInv DEF Init, LInv, ReceivedInv, LostOnlyContested

\* What is left of ChatSyncLoop.kt:10 in the code: a message the PC has not
\* received stays in the outbox unless its failure is shown, through flapping
\* links, a relay that refuses, purges of old chunks, cancelled drains and the
\* death of the process, and beside other drains and a user who retries, as
\* long as none of these had the message in hand together with a drain; for
\* any messages, drains, retries and limit of attempts.
THEOREM LostOnlyContestedHolds == Spec => []LostOnlyContested
<1>1. LInv => LostOnlyContested
  BY DEF LInv
<1> QED
  BY <1>1, InitLInv, StepLInv, PTL DEF Spec
=============================================================================
