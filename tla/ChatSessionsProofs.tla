------------------------- MODULE ChatSessionsProofs -------------------------
(***************************************************************************)
(* Theorems about ChatSessions, for every set of phones and of sockets and *)
(* every bound.                                                            *)
(***************************************************************************)
EXTENDS ChatSessions, FiniteSetTheorems, TLAPS

(***************************************************************************)
(* The inductive invariant.  A registry, in memory, in its file or on its  *)
(* way there, is sound when nobody is both approved and revoked, everybody *)
(* it calls revoked was revoked, and its epoch counts them: two registries *)
(* that have lost no revocation then have the same epoch, so a restart     *)
(* that loses none does not bring an old key back.                         *)
(***************************************************************************)
Histories == [opened : Nat, admitted : Nat, paired : SUBSET Devices,
              cut : SUBSET Devices, lost : BOOLEAN, restarts : Nat]
HistoryOK == history \in Histories

Sound(r) ==
    /\ r.approved \cap r.revoked = {}
    /\ r.revoked \subseteq history.cut
    /\ r.keyEpoch = Cardinality(r.revoked) + 1

RegistriesSound ==
    /\ Sound(registry)
    /\ disk # Torn => Sound(disk)
    /\ \A w \in saves : Sound(w.data)

\* While no revocation is lost the registry has them all, no key of a later
\* epoch is out, and a revoked phone has only keys of former ones.
NothingLost ==
    ~history.lost =>
        /\ history.cut \subseteq registry.revoked
        /\ \A d \in Devices : \A e \in held[d] :
              /\ e <= registry.keyEpoch
              /\ d \in history.cut => e < registry.keyEpoch

\* Each window opened admits one device, and may still admit it if it is open.
Admissions == history.admitted + (IF window.open THEN 1 ELSE 0) <= history.opened

IInv == TypeOK /\ HistoryOK /\ RegistriesSound /\ NothingLost /\ SessionsLive /\ Admissions

-----------------------------------------------------------------------------
\* Epochs are numbers from 1.
LEMMA EpochsAreNumbers == Epochs \subseteq Nat /\ 1 \in Epochs
<1>1. Cardinality(Devices) \in Nat
  BY SessionsAssumption, FS_CardinalityType
<1> QED
  BY <1>1 DEF Epochs

\* Closing sockets changes nothing but their state, and none is freed.
LEMMA ClosingKeeps ==
    ASSUME TypeOK, NEW S
    PROVE  /\ Closing(S) \in [Sockets -> [state : {"free", "open", "closing"},
                                          device : Devices \cup {None}]]
           /\ \A s \in Sockets : /\ Closing(S)[s].device = socket[s].device
                                 /\ (Closing(S)[s].state = "free") <=> (socket[s].state = "free")
BY DEF TypeOK, Closing

\* A revocation makes a sound registry of the next epoch.
LEMMA RevokedSound ==
    ASSUME TypeOK, HistoryOK, RegistriesSound, NEW d \in registry.approved
    PROVE  /\ Revoked(d) \in Registries
           /\ Revoked(d).keyEpoch = registry.keyEpoch + 1
           /\ Revoked(d).keyEpoch = Cardinality(Revoked(d).revoked) + 1
           /\ Revoked(d).approved \cap Revoked(d).revoked = {}
           /\ Revoked(d).revoked \subseteq history.cut \cup {d}
<1> DEFINE R == registry.revoked
           N == R \cup {d}
<1>1. registry \in Registries /\ d \in Devices /\ R \in SUBSET Devices /\ N \in SUBSET Devices
  BY DEF TypeOK, Registries
<1>2. d \notin R /\ registry.keyEpoch = Cardinality(R) + 1
  BY DEF RegistriesSound, Sound
<1>3. IsFiniteSet(R) /\ Cardinality(R) \in Nat
  BY <1>1, SessionsAssumption, FS_Subset, FS_CardinalityType
<1>4. Cardinality(N) = Cardinality(R) + 1
  BY <1>2, <1>3, FS_AddElement
<1>5. Cardinality(N) <= Cardinality(Devices) /\ Cardinality(Devices) \in Nat
  BY <1>1, SessionsAssumption, FS_Subset, FS_CardinalityType
<1>6. registry.keyEpoch + 1 \in Epochs
  BY <1>2, <1>3, <1>4, <1>5 DEF Epochs
<1>7. Revoked(d) \in Registries
  BY <1>1, <1>6 DEF Revoked, Registries
<1>8. Revoked(d).keyEpoch = Cardinality(Revoked(d).revoked) + 1
  BY <1>2, <1>4 DEF Revoked
<1> QED
  BY <1>7, <1>8 DEF Revoked, RegistriesSound, Sound

\* What a restart loads is a sound registry.
LEMMA LoadedSound ==
    ASSUME TypeOK, HistoryOK, RegistriesSound
    PROVE  Loaded \in Registries /\ Sound(Loaded)
<1>1. CASE disk = Torn
  <2>1. EmptyState \in Registries
    BY EpochsAreNumbers DEF EmptyState, Registries
  <2>2. Sound(EmptyState)
    BY FS_EmptySet DEF EmptyState, Sound
  <2> QED
    BY <1>1, <2>1, <2>2 DEF Loaded
<1>2. CASE disk # Torn
  BY <1>2 DEF Loaded, TypeOK, RegistriesSound
<1> QED
  BY <1>1, <1>2

(***************************************************************************)
(* The shape of a step.                                                    *)
(***************************************************************************)
\* The steps that touch neither a registry nor a key, nor a pairing.
NetStep ==
    \/ start \/ stop \/ stopped \/ lock
    \/ \E s \in Sockets :
          \/ Connect(s) \/ SocketGone(s) \/ HelloRefused(s)
          \/ \E d \in Devices : HelloKnown(s, d)
          \/ \E e \in Epochs : EventRefused(s, e) \/ EventAccepted(s, e)
    \/ \E j \in jobs : EventDone(j)

\* What a step of the specification is.
LEMMA Steps ==
    ASSUME Next
    PROVE  \/ NetStep \/ openPairing \/ closePairing \/ Restart
           \/ \E d \in Devices : revoke(d)
           \/ \E w \in saves : Save(w)
           \/ \E s \in Sockets, d \in Devices : HelloPairs(s, d) \/ HelloWrongCode(s, d)
BY DEF Next, NetStep, Hello, Event

(***************************************************************************)
(* Types.                                                                  *)
(***************************************************************************)
SocketType == [state : {"free", "open", "closing"}, device : Devices \cup {None}]

\* The steps of the server and its sockets keep the types.
LEMMA NetTyped ==
    ASSUME TypeOK, HistoryOK, NetStep
    PROVE  TypeOK' /\ HistoryOK'
<1> USE DEF rights, file, channel, links, TypeOK, HistoryOK, Histories
<1>1. CASE start
  BY <1>1 DEF start
<1>2. CASE stop
  <2>1. Closing({sessions[d] : d \in Devices}) \in [Sockets -> SocketType]
    BY ClosingKeeps DEF SocketType
  <2> QED
    BY <1>2, <2>1 DEF stop, Stopping, NoSession, SocketType
<1>3. CASE stopped
  BY <1>3 DEF stopped
<1>4. CASE lock
  <2>1. Closing({sessions[d] : d \in Devices}) \in [Sockets -> SocketType]
    BY ClosingKeeps DEF SocketType
  <2>2. CASE Stopping
    BY <1>4, <2>1, <2>2 DEF lock, Stopping, NoSession, SocketType
  <2>3. CASE server # "listening" /\ UNCHANGED <<server, links>>
    BY <1>4, <2>3 DEF lock
  <2> QED
    BY <1>4, <2>2, <2>3 DEF lock
<1>5. ASSUME NEW s \in Sockets, Connect(s) PROVE TypeOK' /\ HistoryOK'
  BY <1>5 DEF Connect
<1>6. ASSUME NEW s \in Sockets, SocketGone(s) PROVE TypeOK' /\ HistoryOK'
  <2>1. DropSession(s) \in [Devices -> Sockets \cup {None}]
    BY DEF DropSession
  <2>2. Free \in SocketType
    BY DEF Free, SocketType
  <2>3. jobs' \subseteq [socket : Sockets \cup {None}, device : Devices, epoch : Epochs]
    BY <1>6 DEF SocketGone
  <2> QED
    BY <1>6, <2>1, <2>2, <2>3 DEF SocketGone, SocketType
<1>7. ASSUME NEW s \in Sockets, HelloRefused(s) PROVE TypeOK' /\ HistoryOK'
  <2>1. Closing({s}) \in [Sockets -> SocketType]
    BY ClosingKeeps DEF SocketType
  <2> QED
    BY <1>7, <2>1 DEF HelloRefused, rejectSocket, SocketType
<1>8. ASSUME NEW s \in Sockets, NEW d \in Devices, HelloKnown(s, d)
      PROVE  TypeOK' /\ HistoryOK'
  <2>1. registry.keyEpoch \in Epochs
    BY DEF Registries
  <2> QED
    BY <1>8, <2>1 DEF HelloKnown, Welcome
<1>9. ASSUME NEW s \in Sockets, NEW e \in Epochs, EventRefused(s, e)
      PROVE  TypeOK' /\ HistoryOK'
  <2>1. Closing({s}) \in [Sockets -> SocketType]
    BY ClosingKeeps DEF SocketType
  <2> QED
    BY <1>9, <2>1 DEF EventRefused, rejectSocket, SocketType
<1>10. ASSUME NEW s \in Sockets, NEW e \in Epochs, EventAccepted(s, e)
       PROVE  TypeOK' /\ HistoryOK'
  <2>1. socket[s].device \in Devices
    BY <1>10 DEF EventAccepted, Sends
  <2> QED
    BY <1>10, <2>1 DEF EventAccepted
<1>11. ASSUME NEW j \in jobs, EventDone(j) PROVE TypeOK' /\ HistoryOK'
  BY <1>11 DEF EventDone
<1> QED
  BY <1>1, <1>2, <1>3, <1>4, <1>5, <1>6, <1>7, <1>8, <1>9, <1>10, <1>11 DEF NetStep

\* Every step keeps the types.
LEMMA TypeStep ==
    ASSUME TypeOK, HistoryOK, RegistriesSound, [Next]_vars
    PROVE  TypeOK' /\ HistoryOK'
<1> USE DEF rights, file, channel, links, TypeOK, HistoryOK, Histories
<1>1. CASE NetStep
  BY <1>1, NetTyped
<1>2. CASE openPairing
  BY <1>2, SessionsAssumption DEF openPairing
<1>3. CASE closePairing
  BY <1>3 DEF closePairing
<1>4. CASE Restart
  <2>1. Loaded \in Registries
    BY LoadedSound
  <2>2. [s \in Sockets |-> Free] \in [Sockets -> SocketType]
    BY DEF Free, SocketType
  <2>3. NoSession \in [Devices -> Sockets \cup {None}]
    BY DEF NoSession
  <2>4. Shut \in [open : BOOLEAN, failed : 0..MAX_PAIRING_ATTEMPTS]
    BY SessionsAssumption DEF Shut
  <2>5. HistoryOK'
    <3>1. (history.lost \/ ~(history.cut \subseteq Loaded.revoked)) \in BOOLEAN
      OBVIOUS
    <3>2. ASSUME NEW n \in Nat, NEW b \in BOOLEAN
          PROVE  [history EXCEPT !.restarts = n, !.lost = b] \in Histories
      BY Zenon DEF Histories
    <3>3. history.restarts + 1 \in Nat
      OBVIOUS
    <3> QED
      BY <1>4, <3>1, <3>2, <3>3 DEF Restart
  <2> QED
    BY <1>4, <2>1, <2>2, <2>3, <2>4, <2>5 DEF Restart, SocketType
<1>5. ASSUME NEW d \in Devices, revoke(d) PROVE TypeOK' /\ HistoryOK'
  <2>1. Revoked(d) \in Registries
    BY <1>5, RevokedSound DEF revoke
  <2>2. Closing({sessions[d]}) \in [Sockets -> SocketType]
    BY ClosingKeeps DEF SocketType
  <2>3. saves' \subseteq [data : Registries, truncated : BOOLEAN]
    <3>1. [data |-> Revoked(d), truncated |-> FALSE] \in [data : Registries, truncated : BOOLEAN]
      BY <2>1
    <3> QED
      BY <1>5, <3>1 DEF revoke
  <2>4. HistoryOK'
    BY <1>5 DEF revoke
  <2> QED
    BY <1>5, <2>1, <2>2, <2>3, <2>4 DEF revoke, disconnectDevice, SocketType
<1>6. ASSUME NEW w \in saves, Save(w) PROVE TypeOK' /\ HistoryOK'
  <2>1. disk' \in Registries \cup {Torn}
    BY <1>6 DEF Save, SaveTruncates, SaveEnds, SaveFails
  <2>2. saves' \subseteq [data : Registries, truncated : BOOLEAN]
    <3>1. [w EXCEPT !.truncated = TRUE] \in [data : Registries, truncated : BOOLEAN]
      OBVIOUS
    <3> QED
      BY <1>6, <3>1 DEF Save, SaveTruncates, SaveEnds, SaveFails
  <2> QED
    BY <1>6, <2>1, <2>2 DEF Save
<1>7. ASSUME NEW s \in Sockets, NEW d \in Devices, HelloPairs(s, d)
      PROVE  TypeOK' /\ HistoryOK'
  <2>1. Admitted(d) \in Registries /\ registry.keyEpoch \in Epochs
    BY DEF Admitted, Registries
  <2>2. HistoryOK'
    <3>1. history.admitted + 1 \in Nat /\ history.paired \cup {d} \in SUBSET Devices
      OBVIOUS
    <3>2. ASSUME NEW n \in Nat, NEW S \in SUBSET Devices
          PROVE  [history EXCEPT !.admitted = n, !.paired = S] \in Histories
      OBVIOUS
    <3> QED
      BY <1>7, <3>1, <3>2 DEF HelloPairs
  <2>3. [window EXCEPT !.open = FALSE] \in [open : BOOLEAN, failed : 0..MAX_PAIRING_ATTEMPTS]
    OBVIOUS
  <2>4. /\ socket' \in [Sockets -> SocketType]
        /\ sessions' \in [Devices -> Sockets \cup {None}]
        /\ held' \in [Devices -> SUBSET Epochs]
    BY <1>7, <2>1 DEF HelloPairs, Welcome, SocketType
  <2> QED
    BY <1>7, <2>1, <2>2, <2>3, <2>4 DEF HelloPairs, SocketType
<1>8. ASSUME NEW s \in Sockets, NEW d \in Devices, HelloWrongCode(s, d)
      PROVE  TypeOK' /\ HistoryOK'
  <2>1. Closing({s}) \in [Sockets -> SocketType]
    BY ClosingKeeps DEF SocketType
  <2>2. window' \in [open : BOOLEAN, failed : 0..MAX_PAIRING_ATTEMPTS]
    <3>1. CASE Exhausted
      BY <1>8, <3>1 DEF HelloWrongCode
    <3>2. CASE ~Exhausted
      <4>1. window.failed + 1 \in 0..MAX_PAIRING_ATTEMPTS
        BY <3>2, SessionsAssumption DEF Exhausted
      <4> QED
        BY <1>8, <3>2, <4>1 DEF HelloWrongCode
    <3> QED
      BY <3>1, <3>2
  <2> QED
    BY <1>8, <2>1, <2>2 DEF HelloWrongCode, rejectSocket, SocketType
<1>9. CASE UNCHANGED vars
  BY <1>9 DEF vars
<1> QED
  BY <1>1, <1>2, <1>3, <1>4, <1>5, <1>6, <1>7, <1>8, <1>9, Steps

(***************************************************************************)
(* The registries and the keys.                                            *)
(***************************************************************************)
LEMMA NetLeaves ==
    ASSUME NetStep
    PROVE  UNCHANGED <<registry, window, disk, saves, history>>
BY DEF NetStep, start, stop, stopped, lock, Connect, SocketGone, HelloRefused, HelloKnown,
       EventRefused, EventAccepted, EventDone, rights, file

\* Every step keeps every copy of the registry sound.
LEMMA RegistriesStep ==
    ASSUME TypeOK, HistoryOK, RegistriesSound, [Next]_vars
    PROVE  RegistriesSound'
<1> USE DEF RegistriesSound, Sound, rights, file
<1>1. CASE NetStep
  BY <1>1, NetLeaves
<1>2. CASE openPairing
  BY <1>2 DEF openPairing, HistoryOK, Histories
<1>3. CASE closePairing
  BY <1>3 DEF closePairing
<1>4. CASE Restart
  <2>1. Sound(Loaded)
    BY LoadedSound
  <2>2. history'.cut = history.cut
    BY <1>4 DEF Restart, HistoryOK, Histories
  <2> QED
    BY <1>4, <2>1, <2>2 DEF Restart
<1>5. ASSUME NEW d \in Devices, revoke(d) PROVE RegistriesSound'
  <2>1. history'.cut = history.cut \cup {d}
    BY <1>5 DEF revoke, HistoryOK, Histories
  <2>2. Sound(registry)' /\ registry' = Revoked(d)
    BY <1>5, <2>1, RevokedSound DEF revoke
  <2>3. \A w \in saves' : w \in saves \/ w.data = Revoked(d)
    BY <1>5 DEF revoke
  <2> QED
    BY <1>5, <2>1, <2>2, <2>3 DEF revoke
<1>6. ASSUME NEW w \in saves, Save(w) PROVE RegistriesSound'
  <2>1. registry' = registry /\ history' = history
    BY <1>6 DEF Save
  <2>2. disk' \in {disk, Torn, w.data}
    BY <1>6 DEF Save, SaveTruncates, SaveEnds, SaveFails
  <2>3. \A x \in saves' : \E y \in saves : x.data = y.data
    <3>1. [w EXCEPT !.truncated = TRUE].data = w.data
      BY DEF TypeOK
    <3> QED
      BY <1>6, <3>1 DEF Save, SaveTruncates, SaveEnds, SaveFails
  <2> QED
    BY <2>1, <2>2, <2>3
<1>7. ASSUME NEW s \in Sockets, NEW d \in Devices, HelloPairs(s, d)
      PROVE  RegistriesSound'
  <2>1. history'.cut = history.cut
    BY <1>7 DEF HelloPairs, HistoryOK, Histories
  <2>2. d \notin registry.revoked /\ registry' = Admitted(d)
    BY <1>7 DEF HelloPairs, MayPair
  <2>3. Sound(registry)'
    BY <2>1, <2>2 DEF Admitted, TypeOK, Registries
  <2> QED
    BY <1>7, <2>1, <2>3 DEF HelloPairs
<1>8. ASSUME NEW s \in Sockets, NEW d \in Devices, HelloWrongCode(s, d)
      PROVE  RegistriesSound'
  BY <1>8 DEF HelloWrongCode
<1>9. CASE UNCHANGED vars
  BY <1>9 DEF vars
<1> QED
  BY <1>1, <1>2, <1>3, <1>4, <1>5, <1>6, <1>7, <1>8, <1>9, Steps

\* Two sound registries that miss no revocation have the same epoch.
LEMMA SameEpoch ==
    ASSUME RegistriesSound, NothingLost, ~history.lost, NEW r, Sound(r),
           history.cut \subseteq r.revoked
    PROVE  r.keyEpoch = registry.keyEpoch
<1>1. r.revoked \subseteq registry.revoked /\ registry.revoked \subseteq r.revoked
  BY DEF RegistriesSound, NothingLost, Sound
<1>2. r.revoked = registry.revoked
  BY <1>1
<1> QED
  BY <1>2 DEF RegistriesSound, Sound

\* Every step keeps the keys.
LEMMA KeysStep ==
    ASSUME TypeOK, HistoryOK, RegistriesSound, NothingLost, [Next]_vars
    PROVE  NothingLost'
<1> USE DEF NothingLost, rights, file, channel, links
<1> registry.keyEpoch \in Nat /\ \A d \in Devices : held[d] \subseteq Nat
  BY EpochsAreNumbers DEF TypeOK, Registries
<1>1. CASE NetStep
  <2>1. ASSUME NEW s \in Sockets, NEW d \in Devices, HelloKnown(s, d), ~history.lost
        PROVE  NothingLost'
    <3>1. d \notin history.cut
      BY <2>1 DEF HelloKnown, RegistriesSound, Sound
    <3>2. \A x \in Devices : held'[x] \subseteq held[x] \cup (IF x = d THEN {registry.keyEpoch} ELSE {})
      BY <2>1 DEF HelloKnown, Welcome, TypeOK
    <3> QED
      BY <2>1, <3>1, <3>2 DEF HelloKnown
  <2>2. CASE UNCHANGED held
    BY <1>1, <2>2, NetLeaves
  <2>3. held' = held \/ \E s \in Sockets, d \in Devices : HelloKnown(s, d)
    BY <1>1 DEF NetStep, start, stop, stopped, lock, Connect, SocketGone, HelloRefused,
                EventRefused, EventAccepted, EventDone
  <2>4. CASE history.lost
    BY <1>1, <2>4, NetLeaves
  <2> QED
    BY <2>1, <2>2, <2>3, <2>4
<1>2. CASE openPairing
  BY <1>2 DEF openPairing, HistoryOK, Histories
<1>3. CASE closePairing
  BY <1>3 DEF closePairing
<1>4. CASE Restart
  <2>1. SUFFICES ASSUME ~history'.lost PROVE NothingLost'
    OBVIOUS
  <2>2. ~history.lost /\ history.cut \subseteq Loaded.revoked /\ history'.cut = history.cut
    BY <1>4, <2>1 DEF Restart, HistoryOK, Histories
  <2>3. Loaded.keyEpoch = registry.keyEpoch
    BY <2>2, LoadedSound, SameEpoch
  <2> QED
    BY <1>4, <2>2, <2>3 DEF Restart
<1>5. ASSUME NEW d \in Devices, revoke(d) PROVE NothingLost'
  <2>1. history'.cut = history.cut \cup {d} /\ history'.lost = history.lost
    BY <1>5 DEF revoke, HistoryOK, Histories
  <2>2. registry'.keyEpoch = registry.keyEpoch + 1
    BY <1>5, RevokedSound DEF revoke
  <2>3. registry'.revoked = registry.revoked \cup {d}
    BY <1>5 DEF revoke, Revoked
  <2> QED
    BY <1>5, <2>1, <2>2, <2>3 DEF revoke
<1>6. ASSUME NEW w \in saves, Save(w) PROVE NothingLost'
  BY <1>6 DEF Save
<1>7. ASSUME NEW s \in Sockets, NEW d \in Devices, HelloPairs(s, d)
      PROVE  NothingLost'
  <2>1. history'.cut = history.cut /\ history'.lost = history.lost
    BY <1>7 DEF HelloPairs, HistoryOK, Histories
  <2>2. registry'.revoked = registry.revoked /\ registry'.keyEpoch = registry.keyEpoch
    BY <1>7 DEF HelloPairs, Admitted, TypeOK, Registries
  <2>3. ~history.lost => d \notin history.cut
    BY <1>7 DEF HelloPairs, MayPair
  <2>4. \A x \in Devices : held'[x] \subseteq held[x] \cup (IF x = d THEN {registry.keyEpoch} ELSE {})
    BY <1>7 DEF HelloPairs, Welcome, TypeOK
  <2> QED
    BY <2>1, <2>2, <2>3, <2>4
<1>8. ASSUME NEW s \in Sockets, NEW d \in Devices, HelloWrongCode(s, d)
      PROVE  NothingLost'
  BY <1>8 DEF HelloWrongCode
<1>9. CASE UNCHANGED vars
  BY <1>9 DEF vars
<1> QED
  BY <1>1, <1>2, <1>3, <1>4, <1>5, <1>6, <1>7, <1>8, <1>9, Steps

(***************************************************************************)
(* The sessions.                                                           *)
(***************************************************************************)
\* An entry stays right when its device stays approved and its socket is not
\* freed, whichever sockets a step closes.
LEMMA SessionsKept ==
    ASSUME TypeOK, SessionsLive, NEW S,
           socket' = Closing(S),
           \A d \in Devices : sessions'[d] # None =>
               sessions'[d] = sessions[d] /\ d \in registry'.approved
    PROVE  SessionsLive'
<1> SUFFICES ASSUME NEW d \in Devices, sessions'[d] # None
             PROVE  /\ d \in registry'.approved
                    /\ Connected(sessions[d])' /\ socket'[sessions'[d]].device = d
  BY DEF SessionsLive, Connected
<1>1. sessions'[d] = sessions[d] /\ d \in registry'.approved /\ sessions[d] \in Sockets
  BY DEF TypeOK
<1>2. Connected(sessions[d]) /\ socket[sessions[d]].device = d
  BY <1>1 DEF SessionsLive
<1>3. socket'[sessions[d]] \in SocketType /\ socket'[sessions[d]].state # "free"
  BY <1>1, <1>2, ClosingKeeps DEF SocketType, Connected
<1>4. socket'[sessions[d]].device = d
  BY <1>1, <1>2, ClosingKeeps
<1> QED
  BY <1>1, <1>3, <1>4 DEF SocketType, Connected

\* A handshake makes its own entry and leaves those of other devices, none of
\* which is of the socket it came on.
LEMMA SessionsWelcome ==
    ASSUME TypeOK, SessionsLive, NEW s \in Sockets, NEW d \in Devices,
           Greets(s), Welcome(s, d),
           registry.approved \cup {d} \subseteq registry'.approved
    PROVE  SessionsLive'
<1>1. CASE unlocked
  <2> SUFFICES ASSUME NEW x \in Devices, sessions'[x] # None
               PROVE  /\ x \in registry'.approved
                      /\ Connected(sessions[x])' /\ socket'[sessions'[x]].device = x
    BY DEF SessionsLive, Connected
  <2>1. CASE x = d
    <3>1. sessions'[x] = s /\ socket' = [socket EXCEPT ![s].device = d]
      BY <1>1, <2>1 DEF Welcome, TypeOK
    <3>2. socket'[s].state = socket[s].state /\ socket'[s].device = d
      BY <3>1 DEF TypeOK
    <3> QED
      BY <2>1, <3>1, <3>2 DEF Greets, Connected
  <2>2. CASE x # d
    <3>1. sessions'[x] = sessions[x] /\ socket' = [socket EXCEPT ![s].device = d]
      BY <1>1, <2>2 DEF Welcome, TypeOK
    <3>2. sessions[x] # s
      BY <3>1, SessionsAssumption DEF SessionsLive, Greets
    <3>3. socket'[sessions[x]] = socket[sessions[x]]
      BY <3>1, <3>2 DEF TypeOK
    <3> QED
      BY <3>1, <3>3 DEF SessionsLive, Connected
  <2> QED
    BY <2>1, <2>2
<1>2. CASE ~unlocked
  BY <1>2 DEF Welcome, links, SessionsLive, Connected
<1> QED
  BY <1>1, <1>2

\* Every step keeps the sessions live.
LEMMA SessionsStep ==
    ASSUME TypeOK, SessionsLive, [Next]_vars
    PROVE  SessionsLive'
<1> USE DEF rights, file, channel, links
<1>0. ASSUME UNCHANGED <<links, registry>> PROVE SessionsLive'
  BY <1>0 DEF SessionsLive, Connected
<1>1. CASE NetStep
  <2>1. ASSUME start \/ stopped \/ \E j \in jobs : EventDone(j) PROVE SessionsLive'
    BY <2>1, <1>0 DEF start, stopped, EventDone
  <2>2. ASSUME Stopping PROVE SessionsLive'
    BY <2>2 DEF Stopping, NoSession, SessionsLive
  <2>3. CASE stop
    BY <2>2, <2>3 DEF stop
  <2>4. CASE lock
    BY <2>2, <2>4, <1>0 DEF lock
  <2>5. ASSUME NEW s \in Sockets, Connect(s) PROVE SessionsLive'
    <3>1. \A d \in Devices : sessions[d] # s
      BY <2>5, SessionsAssumption DEF Connect, SessionsLive, Free
    <3>2. \A x \in Sockets \ {s} : socket'[x] = socket[x]
      BY <2>5 DEF Connect, TypeOK
    <3>3. \A d \in Devices : sessions[d] # None => sessions[d] \in Sockets
      BY DEF TypeOK
    <3> QED
      BY <2>5, <3>1, <3>2, <3>3 DEF Connect, SessionsLive, Connected
  <2>6. ASSUME NEW s \in Sockets, SocketGone(s) PROVE SessionsLive'
    <3>1. \A d \in Devices : sessions'[d] # None => sessions'[d] = sessions[d] /\ sessions[d] # s
      BY <2>6 DEF SocketGone, DropSession
    <3>2. \A x \in Sockets \ {s} : socket'[x] = socket[x]
      BY <2>6 DEF SocketGone, TypeOK
    <3>3. \A d \in Devices : sessions[d] # None => sessions[d] \in Sockets
      BY DEF TypeOK
    <3> QED
      BY <2>6, <3>1, <3>2, <3>3 DEF SocketGone, SessionsLive, Connected
  <2>7. ASSUME NEW s \in Sockets,
               HelloRefused(s) \/ \E e \in Epochs : EventRefused(s, e)
        PROVE  SessionsLive'
    <3>1. socket' = Closing({s}) /\ sessions' = sessions /\ registry' = registry
      BY <2>7 DEF HelloRefused, EventRefused, rejectSocket
    <3>2. \A d \in Devices : sessions[d] # None => d \in registry.approved
      BY DEF SessionsLive
    <3> QED
      BY <3>1, <3>2, SessionsKept
  <2>8. ASSUME NEW s \in Sockets, NEW d \in Devices, HelloKnown(s, d) PROVE SessionsLive'
    BY <2>8, SessionsWelcome DEF HelloKnown
  <2>9. ASSUME NEW s \in Sockets, NEW e \in Epochs, EventAccepted(s, e) PROVE SessionsLive'
    BY <2>9, <1>0 DEF EventAccepted
  <2> QED
    BY <1>1, <2>1, <2>3, <2>4, <2>5, <2>6, <2>7, <2>8, <2>9 DEF NetStep
<1>2. CASE openPairing \/ closePairing
  BY <1>2, <1>0 DEF openPairing, closePairing
<1>3. CASE Restart
  BY <1>3 DEF Restart, NoSession, SessionsLive
<1>4. ASSUME NEW d \in Devices, revoke(d) PROVE SessionsLive'
  <2>1. \A x \in Devices : sessions'[x] # None => sessions'[x] = sessions[x] /\ x # d
    BY <1>4 DEF revoke, disconnectDevice, TypeOK
  <2>2. registry'.approved = registry.approved \ {d}
    BY <1>4 DEF revoke, Revoked
  <2>3. \A x \in Devices : sessions'[x] # None =>
            sessions'[x] = sessions[x] /\ x \in registry'.approved
    BY <2>1, <2>2 DEF SessionsLive
  <2>4. socket' = Closing({sessions[d]})
    BY <1>4 DEF revoke, disconnectDevice
  <2> QED
    BY <2>3, <2>4, SessionsKept
<1>5. ASSUME NEW w \in saves, Save(w) PROVE SessionsLive'
  BY <1>5, <1>0 DEF Save
<1>6. ASSUME NEW s \in Sockets, NEW d \in Devices, HelloPairs(s, d) PROVE SessionsLive'
  <2>1. registry'.approved = registry.approved \cup {d}
    BY <1>6 DEF HelloPairs, Admitted, TypeOK, Registries
  <2> QED
    BY <1>6, <2>1, SessionsWelcome DEF HelloPairs
<1>7. ASSUME NEW s \in Sockets, NEW d \in Devices, HelloWrongCode(s, d) PROVE SessionsLive'
  <2>1. socket' = Closing({s}) /\ sessions' = sessions /\ registry' = registry
    BY <1>7 DEF HelloWrongCode, rejectSocket
  <2>2. \A x \in Devices : sessions[x] # None => x \in registry.approved
    BY DEF SessionsLive
  <2> QED
    BY <2>1, <2>2, SessionsKept
<1>8. CASE UNCHANGED vars
  BY <1>8, <1>0 DEF vars
<1> QED
  BY <1>1, <1>2, <1>3, <1>4, <1>5, <1>6, <1>7, <1>8, Steps

\* What a step takes from the sessions.
SessionsTaken ==
    \A d \in Devices : sessions[d] # None /\ sessions'[d] = None =>
        \/ socket'[sessions[d]].state = "free"
        \/ d \notin registry'.approved
        \/ server' # server

\* A session goes only with its socket, a revocation or the server.
LEMMA TakenStep ==
    ASSUME TypeOK, [Next]_vars
    PROVE  SessionsTaken
<1> USE DEF rights, file, channel, links, SessionsTaken
<1>0. \A d \in Devices : sessions[d] # None => sessions[d] \in Sockets
  BY DEF TypeOK
<1>1. ASSUME NEW s \in Sockets, NEW d \in Devices, Welcome(s, d) PROVE SessionsTaken
  <2>1. s # None
    BY SessionsAssumption
  <2> QED
    BY <1>1, <2>1 DEF Welcome, TypeOK
<1>2. CASE NetStep
  <2>1. CASE start \/ stopped \/ \E j \in jobs : EventDone(j)
    BY <2>1 DEF start, stopped, EventDone
  <2>2. CASE stop \/ lock
    BY <2>2 DEF stop, lock, Stopping
  <2>3. ASSUME NEW s \in Sockets, SocketGone(s) PROVE SessionsTaken
    <3>1. socket'[s].state = "free"
      BY <2>3 DEF SocketGone, Free, TypeOK
    <3>2. \A d \in Devices : sessions[d] # None /\ sessions'[d] = None => sessions[d] = s
      BY <2>3 DEF SocketGone, DropSession
    <3> QED
      BY <3>1, <3>2
  <2>4. ASSUME NEW s \in Sockets,
               \/ Connect(s) \/ HelloRefused(s)
               \/ \E e \in Epochs : EventRefused(s, e) \/ EventAccepted(s, e)
        PROVE  SessionsTaken
    BY <2>4 DEF Connect, HelloRefused, EventRefused, EventAccepted
  <2>5. ASSUME NEW s \in Sockets, NEW d \in Devices, HelloKnown(s, d) PROVE SessionsTaken
    BY <1>1, <2>5 DEF HelloKnown
  <2> QED
    BY <1>2, <2>1, <2>2, <2>3, <2>4, <2>5 DEF NetStep
<1>3. CASE openPairing \/ closePairing
  BY <1>3 DEF openPairing, closePairing
<1>4. CASE Restart
  BY <1>0, <1>4 DEF Restart, Free
<1>5. ASSUME NEW d \in Devices, revoke(d) PROVE SessionsTaken
  <2>1. d \notin registry'.approved
    BY <1>5 DEF revoke, Revoked
  <2>2. \A x \in Devices \ {d} : sessions'[x] = sessions[x]
    BY <1>5 DEF revoke, disconnectDevice, TypeOK
  <2> QED
    BY <2>1, <2>2
<1>6. ASSUME NEW w \in saves, Save(w) PROVE SessionsTaken
  BY <1>6 DEF Save
<1>7. ASSUME NEW s \in Sockets, NEW d \in Devices, HelloPairs(s, d) PROVE SessionsTaken
  BY <1>1, <1>7 DEF HelloPairs
<1>8. ASSUME NEW s \in Sockets, NEW d \in Devices, HelloWrongCode(s, d) PROVE SessionsTaken
  BY <1>8 DEF HelloWrongCode
<1>9. CASE UNCHANGED vars
  BY <1>9 DEF vars
<1> QED
  BY <1>2, <1>3, <1>4, <1>5, <1>6, <1>7, <1>8, <1>9, Steps

(***************************************************************************)
(* The pairing windows.                                                    *)
(***************************************************************************)
LEMMA AdmissionsStep ==
    ASSUME TypeOK, HistoryOK, Admissions, [Next]_vars
    PROVE  Admissions'
<1> USE DEF rights, Admissions
<1> history.admitted \in Nat /\ history.opened \in Nat
  BY DEF HistoryOK, Histories
<1>1. CASE NetStep
  BY <1>1, NetLeaves
<1>2. CASE openPairing
  BY <1>2 DEF openPairing, HistoryOK, Histories
<1>3. CASE closePairing
  BY <1>3 DEF closePairing, TypeOK
<1>4. CASE Restart
  BY <1>4 DEF Restart, Shut, HistoryOK, Histories
<1>5. ASSUME NEW d \in Devices, revoke(d) PROVE Admissions'
  BY <1>5 DEF revoke, HistoryOK, Histories
<1>6. ASSUME NEW w \in saves, Save(w) PROVE Admissions'
  BY <1>6 DEF Save
<1>7. ASSUME NEW s \in Sockets, NEW d \in Devices, HelloPairs(s, d) PROVE Admissions'
  <2>1. window.open /\ ~window'.open
    BY <1>7 DEF HelloPairs, MayPair, TypeOK
  <2>2. history'.admitted = history.admitted + 1 /\ history'.opened = history.opened
    BY <1>7 DEF HelloPairs, HistoryOK, Histories
  <2> QED
    BY <2>1, <2>2
<1>8. ASSUME NEW s \in Sockets, NEW d \in Devices, HelloWrongCode(s, d) PROVE Admissions'
  <2>1. history' = history /\ (window'.open => window.open)
    BY <1>8 DEF HelloWrongCode, TypeOK
  <2> QED
    BY <2>1
<1>9. CASE UNCHANGED vars
  BY <1>9 DEF vars
<1> QED
  BY <1>1, <1>2, <1>3, <1>4, <1>5, <1>6, <1>7, <1>8, <1>9, Steps

(***************************************************************************)
(* The theorems.                                                           *)
(***************************************************************************)
\* The invariant holds at the start.
LEMMA InvInit == Init => IInv
<1> SUFFICES ASSUME Init PROVE IInv
  OBVIOUS
<1>1. EmptyState \in Registries
  BY EpochsAreNumbers DEF EmptyState, Registries
<1>2. TypeOK
  BY <1>1, SessionsAssumption DEF Init, TypeOK, Shut, NoSession, Free
<1>3. HistoryOK
  BY DEF Init, HistoryOK, Histories
<1>4. RegistriesSound
  BY FS_EmptySet DEF Init, RegistriesSound, Sound, EmptyState
<1>5. NothingLost /\ SessionsLive /\ Admissions
  BY DEF Init, NothingLost, SessionsLive, Admissions, NoSession, Shut
<1> QED
  BY <1>2, <1>3, <1>4, <1>5 DEF IInv

\* Every step keeps it.
LEMMA InvStep == IInv /\ [Next]_vars => IInv'
BY TypeStep, RegistriesStep, KeysStep, SessionsStep, AdmissionsStep DEF IInv

\* The invariant holds always.
THEOREM Invariance == Spec => []IInv
BY InvInit, InvStep, PTL DEF Spec

\* The type invariant, for every set of phones and of sockets.
THEOREM Typed == Spec => []TypeOK
BY Invariance, PTL DEF IInv

\* A phone that was revoked is out for good and holds no key of the current
\* epoch, through any number of restarts that have lost no revocation
\* (revoke() of chat-device-registry.mjs, persist() and load() of
\* chat-channel.mjs, handleHello() of chat-server.mjs).
THEOREM RevocationHolds == Spec => [](RevokedOut /\ KeysForward)
<1>1. IInv => RevokedOut
  BY DEF IInv, RevokedOut, RegistriesSound, Sound, NothingLost
<1>2. IInv => KeysForward
  <2> SUFFICES ASSUME IInv, ~history.lost, NEW d \in history.cut, registry.keyEpoch \in held[d]
               PROVE  FALSE
    BY DEF KeysForward
  <2>1. d \in Devices /\ registry.keyEpoch \in Nat
    BY EpochsAreNumbers DEF IInv, HistoryOK, Histories, TypeOK, Registries
  <2> QED
    BY <2>1 DEF IInv, NothingLost
<1> QED
  BY <1>1, <1>2, Invariance, PTL

\* The sessions the server counts are those of approved phones, over sockets
\* that authenticated them, however handshakes, late close events,
\* revocations and stops interleave (sessions of chat-server.mjs).
THEOREM SessionsAlwaysLive == Spec => []SessionsLive
BY Invariance, PTL DEF IInv

\* No late close event takes the session of a phone that has connected again.
THEOREM SessionsAlwaysStay == Spec => SessionStays
<1>1. TypeOK /\ [Next]_vars => [SessionsTaken]_vars
  BY TakenStep
<1>2. SessionStays <=> [][SessionsTaken]_vars
  BY PTL DEF SessionStays, SessionsTaken
<1> QED
  BY <1>1, <1>2, Typed, PTL DEF Spec

\* A window admits one phone at most, and no more wrong codes than its limit.
THEOREM CodesAlwaysSpent == Spec => []CodesSpent
<1>1. IInv => CodesSpent
  <2> SUFFICES ASSUME IInv PROVE CodesSpent
    OBVIOUS
  <2>1. history.admitted \in Nat /\ history.opened \in Nat
    BY DEF IInv, HistoryOK, Histories
  <2>2. window.failed \in 0..MAX_PAIRING_ATTEMPTS
    BY DEF IInv, TypeOK
  <2> QED
    BY <2>1, <2>2, SessionsAssumption DEF IInv, Admissions, CodesSpent
<1> QED
  BY <1>1, Invariance, PTL
=============================================================================
