---------------------------- MODULE ChatSessions ----------------------------
(***************************************************************************)
(* Who may talk to Mina: the registry of paired phones, the epoch key they *)
(* share with the PC, the WebSocket sessions and the registry's file       *)
(* (src/src/devices/chat-device-registry.mjs, chat-server.mjs,             *)
(* chat-channel.mjs, src/src/core/versioned-json-store.mjs).               *)
(*                                                                         *)
(* A handshake and a revocation run to their end without an await, so each *)
(* is one action.  What interleaves with them is the rest: frames of other *)
(* sockets, the close event of a socket, which comes after close() was     *)
(* called, the answers being generated, the saves of the registry, which   *)
(* truncate its file before they write it, and the end of the process.     *)
(*                                                                         *)
(* Proofs of identity and pairing codes are right or wrong.  A frame that  *)
(* is only answered by "rejected" changes nothing and is left out, and so  *)
(* are the phone's reasons to connect, to send or to leave.                *)
(***************************************************************************)
EXTENDS Integers, FiniteSets

CONSTANTS
    Devices,              \* phones
    Sockets,              \* names of connections, used again once closed
    None,                 \* no device, or no socket
    Torn,                 \* a file that was truncated and not written
    MAX_PAIRING_ATTEMPTS,
    MAX_DEVICES,
    MaxWindows,           \* bound: pairing windows opened
    MaxJobs,              \* bound: events being answered at once
    MaxRestarts           \* bound: ends of the process

ASSUME SessionsAssumption ==
    /\ IsFiniteSet(Devices) /\ None \notin Devices \cup Sockets
    /\ MAX_PAIRING_ATTEMPTS \in Nat /\ MAX_DEVICES \in Nat
    /\ MaxWindows \in Nat /\ MaxJobs \in Nat /\ MaxRestarts \in Nat

VARIABLES
    registry,   \* the devices approved, those revoked and the key epoch
    window,     \* the pairing window: open, and the wrong codes it has seen
    disk,       \* chat-devices.json
    saves,      \* saves of the registry that have not settled
    server,     \* chat-channel's server: "off", "listening" or "closing"
    unlocked,   \* the vault's master key is in memory
    sessions,   \* the latest authenticated socket of each device
    socket,     \* each connection: its state and whom it authenticated
    jobs,       \* events accepted and still being answered
    held,       \* epochs whose key each phone has been given
    history     \* what no code reads: see Init

rights == <<registry, window>>
file == <<disk, saves>>
channel == <<server, unlocked>>
links == <<sessions, socket>>
vars == <<rights, file, channel, links, jobs, held, history>>

-----------------------------------------------------------------------------
Epochs == 1..(Cardinality(Devices) + 1)   \* a device is revoked once

EmptyState == [approved |-> {}, revoked |-> {}, keyEpoch |-> 1]
Free == [state |-> "free", device |-> None]
NoSession == [d \in Devices |-> None]
Shut == [open |-> FALSE, failed |-> 0]

Init ==
    /\ registry = EmptyState /\ disk = EmptyState /\ saves = {}
    /\ window = Shut /\ server = "off" /\ unlocked = TRUE
    /\ sessions = NoSession /\ socket = [s \in Sockets |-> Free]
    /\ jobs = {} /\ held = [d \in Devices |-> {}]
    \* windows opened, devices admitted, admissions that stand, devices ever
    \* revoked, whether a restart lost a revocation, restarts
    /\ history = [opened |-> 0, admitted |-> 0, paired |-> {}, cut |-> {},
                  lost |-> FALSE, restarts |-> 0]

Connected(s) == socket[s].state \in {"open", "closing"}
Closing(S) == [s \in Sockets |->
    IF s \in S /\ socket[s].state = "open" THEN [socket[s] EXCEPT !.state = "closing"]
                                           ELSE socket[s]]

-----------------------------------------------------------------------------
(* The channel.                                                            *)

\* start(): a second call while the server is there changes nothing.
start ==
    /\ server = "off" /\ server' = "listening"
    /\ UNCHANGED <<rights, file, unlocked, links, jobs, held, history>>

\* stop(): only the sockets of "sessions" are closed; close() then waits for
\* every connection to end.
Stopping ==
    /\ server = "listening" /\ server' = "closing"
    /\ socket' = Closing({sessions[d] : d \in Devices})
    /\ sessions' = NoSession

stop == Stopping /\ UNCHANGED <<rights, file, unlocked, jobs, held, history>>

\* The owner locks the memory (memory.lock, src/src/ui/main.mjs:2340): the
\* master key is forgotten and stop() called.
lock ==
    /\ unlocked /\ unlocked' = FALSE
    /\ Stopping \/ (server # "listening" /\ UNCHANGED <<server, links>>)
    /\ UNCHANGED <<rights, file, jobs, held, history>>

stopped ==
    /\ server = "closing" /\ \A s \in Sockets : ~Connected(s)
    /\ server' = "off"
    /\ UNCHANGED <<rights, file, unlocked, links, jobs, held, history>>

openPairing ==
    /\ history.opened < MaxWindows
    /\ window' = [open |-> TRUE, failed |-> 0]
    /\ history' = [history EXCEPT !.opened = @ + 1]
    /\ UNCHANGED <<registry, file, channel, links, jobs, held>>

\* closePairing(), or the code expires.
closePairing ==
    /\ window.open /\ window' = [window EXCEPT !.open = FALSE]
    /\ UNCHANGED <<registry, file, channel, links, jobs, held, history>>

\* Mutant: the epoch stays.
RevokedSameEpoch(d) == [registry EXCEPT !.approved = @ \ {d}, !.revoked = @ \cup {d}]
\* What revoke() does to the registry.
Revoked(d) == [approved |-> registry.approved \ {d},
               revoked |-> registry.revoked \cup {d},
               keyEpoch |-> registry.keyEpoch + 1]

\* Mutant: the entry stays when the socket is closed.
disconnectQuiet(d) == socket' = Closing({sessions[d]}) /\ UNCHANGED sessions
\* The one socket "sessions" knows is closed, before the save is awaited.
disconnectDevice(d) ==
    /\ sessions' = [sessions EXCEPT ![d] = None]
    /\ socket' = Closing({sessions[d]})

revoke(d) ==
    /\ d \in registry.approved
    /\ registry' = Revoked(d)
    /\ disconnectDevice(d)
    /\ saves' = saves \cup {[data |-> Revoked(d), truncated |-> FALSE]}
    /\ history' = [history EXCEPT !.paired = @ \ {d}, !.cut = @ \cup {d}]
    /\ UNCHANGED <<window, disk, channel, jobs, held>>

-----------------------------------------------------------------------------
(* The file.  writeFile truncates, then writes; nothing orders two saves,  *)
(* and one that writes over another may leave the other's tail behind.     *)

SaveTruncates(w) ==
    /\ ~w.truncated /\ disk' = Torn
    /\ saves' = (saves \ {w}) \cup {[w EXCEPT !.truncated = TRUE]}

SaveEnds(w) ==
    /\ w.truncated /\ saves' = saves \ {w}
    /\ disk' = w.data \/ (disk # Torn /\ disk' = Torn)

\* persist() swallows the error.
SaveFails(w) == saves' = saves \ {w} /\ UNCHANGED disk

Save(w) ==
    /\ SaveTruncates(w) \/ SaveEnds(w) \/ SaveFails(w)
    /\ UNCHANGED <<rights, channel, links, jobs, held, history>>

\* load() sets a file it cannot parse aside and starts from nothing.
Loaded == IF disk = Torn THEN EmptyState ELSE disk

\* The process ends, asked to or not, and starts again; the phones keep
\* their keys.
Restart ==
    /\ history.restarts < MaxRestarts
    /\ registry' = Loaded /\ disk' = Loaded /\ saves' = {}
    /\ window' = Shut /\ server' = "off" /\ unlocked' = TRUE
    /\ sessions' = NoSession /\ socket' = [s \in Sockets |-> Free] /\ jobs' = {}
    /\ history' = [history EXCEPT
          !.restarts = @ + 1,
          !.lost = @ \/ ~(history.cut \subseteq Loaded.revoked)]
    /\ UNCHANGED held

-----------------------------------------------------------------------------
(* The server.                                                             *)

Connect(s) ==
    /\ server = "listening" /\ socket[s] = Free
    /\ socket' = [socket EXCEPT ![s].state = "open"]
    /\ UNCHANGED <<rights, file, channel, sessions, jobs, held, history>>

\* Mutant: any close of a device's socket drops its entry.
DropAny(s) == [d \in Devices |-> IF d = socket[s].device THEN None ELSE sessions[d]]
DropSession(s) == [d \in Devices |-> IF sessions[d] = s THEN None ELSE sessions[d]]

\* The close event, after a close() of either side or a lost connection.
\* The answers under way keep a socket that sends nothing any more.
SocketGone(s) ==
    /\ Connected(s)
    /\ socket' = [socket EXCEPT ![s] = Free]
    /\ sessions' = DropSession(s)
    /\ jobs' = {IF j.socket = s THEN [j EXCEPT !.socket = None] ELSE j : j \in jobs}
    /\ UNCHANGED <<rights, file, channel, held, history>>

rejectSocket(s) == socket' = Closing({s})

\* A socket whose close() was called still delivers the frames that arrive.
Greets(s) == Connected(s) /\ socket[s].device = None

\* No hello in time, a frame that is none, a proof that does not hold, a key
\* that is not the device's, a revoked device, no window, no room left.
HelloRefused(s) ==
    /\ Greets(s) /\ rejectSocket(s)
    /\ UNCHANGED <<rights, file, channel, sessions, jobs, held, history>>

\* The end of handleHello(): without the master key epochKeyFor() throws, and
\* what a closing socket is sent is lost.
Welcome(s, d) ==
    IF unlocked
    THEN /\ socket' = [socket EXCEPT ![s].device = d]
         /\ sessions' = [sessions EXCEPT ![d] = s]
         /\ held' = IF socket[s].state = "open"
                    THEN [held EXCEPT ![d] = @ \cup {registry.keyEpoch}] ELSE held
    ELSE UNCHANGED <<held, links>>

HelloKnown(s, d) ==
    /\ Greets(s) /\ d \in registry.approved
    /\ Welcome(s, d)
    /\ UNCHANGED <<rights, file, channel, jobs, history>>

\* Mutant: a revoked device may pair.
MayPairAgain(d) == d \notin registry.approved /\ window.open
\* approve(), for a device that may pair.
MayPair(d) == d \notin registry.revoked \cup registry.approved /\ window.open
\* Mutant: one try too many.
ExhaustedLate == window.failed > MAX_PAIRING_ATTEMPTS
Exhausted == window.failed >= MAX_PAIRING_ATTEMPTS
Admitted(d) == [registry EXCEPT !.approved = @ \cup {d}]

\* Mutant: the code may be used again.
HelloPairsReuse(s, d) ==
    /\ Greets(s) /\ MayPair(d) /\ ~Exhausted
    /\ Cardinality(registry.approved) < MAX_DEVICES
    /\ registry' = Admitted(d)
    /\ history' = [history EXCEPT !.admitted = @ + 1, !.paired = @ \cup {d}]
    /\ Welcome(s, d)
    /\ UNCHANGED <<window, file, channel, jobs>>

HelloPairs(s, d) ==
    /\ Greets(s) /\ MayPair(d) /\ ~Exhausted
    /\ Cardinality(registry.approved) < MAX_DEVICES
    /\ registry' = Admitted(d) /\ window' = [window EXCEPT !.open = FALSE]
    /\ history' = [history EXCEPT !.admitted = @ + 1, !.paired = @ \cup {d}]
    /\ Welcome(s, d)
    /\ UNCHANGED <<file, channel, jobs>>

\* A wrong code, or any code once too many were wrong.
HelloWrongCode(s, d) ==
    /\ Greets(s) /\ MayPair(d)
    /\ window' = IF Exhausted THEN [window EXCEPT !.open = FALSE]
                              ELSE [window EXCEPT !.failed = @ + 1]
    /\ rejectSocket(s)
    /\ UNCHANGED <<registry, file, channel, sessions, jobs, held, history>>

\* handleEvent(): the sender must still be approved and use the current
\* epoch, whatever it was when it said hello.
Sends(s, e) ==
    /\ Connected(s) /\ socket[s].device # None
    /\ e \in held[socket[s].device]

Accepts(s, e) == socket[s].device \in registry.approved /\ e = registry.keyEpoch

EventRefused(s, e) ==
    /\ Sends(s, e) /\ ~Accepts(s, e) /\ rejectSocket(s)
    /\ UNCHANGED <<rights, file, channel, sessions, jobs, held, history>>

\* What is sent back, the chunks of a reply or the ack of a media, goes to
\* this socket under this epoch, however long the answer takes.
EventAccepted(s, e) ==
    /\ Sends(s, e) /\ Accepts(s, e) /\ unlocked
    /\ Cardinality(jobs) < MaxJobs
    /\ jobs' = jobs \cup {[socket |-> s, device |-> socket[s].device, epoch |-> e]}
    /\ UNCHANGED <<rights, file, channel, links, held, history>>

EventDone(j) ==
    /\ jobs' = jobs \ {j}
    /\ UNCHANGED <<rights, file, channel, links, held, history>>

-----------------------------------------------------------------------------
Hello(s) ==
    \/ HelloRefused(s)
    \/ \E d \in Devices : HelloKnown(s, d) \/ HelloPairs(s, d) \/ HelloWrongCode(s, d)

Event(s) == \E e \in Epochs : EventRefused(s, e) \/ EventAccepted(s, e)

Next ==
    \/ start \/ stop \/ stopped \/ lock
    \/ openPairing \/ closePairing
    \/ \E d \in Devices : revoke(d)
    \/ \E w \in saves : Save(w)
    \/ Restart
    \/ \E s \in Sockets : Connect(s) \/ SocketGone(s) \/ Hello(s) \/ Event(s)
    \/ \E j \in jobs : EventDone(j)

Spec == Init /\ [][Next]_vars

-----------------------------------------------------------------------------
Registries == [approved : SUBSET Devices, revoked : SUBSET Devices, keyEpoch : Epochs]

\* The type invariant.
TypeOK ==
    /\ registry \in Registries /\ disk \in Registries \cup {Torn}
    /\ window \in [open : BOOLEAN, failed : 0..MAX_PAIRING_ATTEMPTS]
    /\ saves \subseteq [data : Registries, truncated : BOOLEAN]
    /\ server \in {"off", "listening", "closing"} /\ unlocked \in BOOLEAN
    /\ sessions \in [Devices -> Sockets \cup {None}]
    /\ socket \in [Sockets -> [state : {"free", "open", "closing"},
                               device : Devices \cup {None}]]
    /\ jobs \subseteq [socket : Sockets \cup {None}, device : Devices, epoch : Epochs]
    /\ held \in [Devices -> SUBSET Epochs]

\* A device the server counts as connected is approved, and its entry is a
\* socket that authenticated it and whose close event has not come: neither a
\* revocation nor a close that comes after a new handshake leaves an entry
\* behind (chat-server.mjs: sessions).
SessionsLive ==
    \A d \in Devices : sessions[d] # None =>
        /\ d \in registry.approved
        /\ Connected(sessions[d]) /\ socket[sessions[d]].device = d

\* A phone that has connected again stays reachable when the close event of
\* its former socket comes late: a device loses its entry only with that very
\* socket, by a revocation or with the server.
SessionStays ==
    [][\A d \in Devices :
          sessions[d] # None /\ sessions'[d] = None =>
              \/ socket'[sessions[d]].state = "free"
              \/ d \notin registry'.approved
              \/ server' # server]_vars

\* A code admits one phone, and five wrong ones end its window
\* (chat-device-registry.mjs: "Le code est à usage unique").
CodesSpent ==
    /\ history.admitted <= history.opened
    /\ window.failed <= MAX_PAIRING_ATTEMPTS

\* Unless a restart lost the revocation, a revoked phone stays out: neither a
\* handshake, not even one under way on another socket, nor a restart nor a
\* save that lands late admits it again.
RevokedOut == ~history.lost => history.cut \cap registry.approved = {}

\* Unless a restart lost the revocation, no revoked phone holds the key of
\* the current epoch (chat-device-registry.mjs: "l'appareil retiré ne lit
\* plus les messages FUTURS").
KeysForward ==
    ~history.lost => \A d \in history.cut : registry.keyEpoch \notin held[d]

-----------------------------------------------------------------------------
(* What the repository says and the code does not keep.                    *)

\* tests/chat-channel.test.mjs: "persiste le registre et le relit au démarrage
\* suivant".  A phone that was paired and not revoked is still paired.
PairingKept == history.paired \subseteq registry.approved

\* chat-device-registry.mjs: a revoked phone reads none of what is still to be
\* sent to the others, the answers under way included.
FutureUnreadable ==
    \A j \in jobs, d \in registry.revoked :
        j.device \in registry.approved => j.epoch \notin held[d]

\* chat-server.mjs: "une socket déjà ouverte ne doit pas survivre au retrait
\* de l'autorisation".  No answer still goes to a revoked phone.
RevokedGetsNothing ==
    \A j \in jobs : j.device \in registry.revoked /\ j.socket # None =>
        socket[j.socket].state # "open"

\* chat-server.mjs, sendMediaToDevice: what is sent to a connected phone is
\* sealed with a key it has been given, or the call fails.
MediaReadable ==
    \A d \in Devices : sessions[d] # None /\ socket[sessions[d]].state = "open" =>
        registry.keyEpoch \in held[d]

\* chat-device-registry.mjs: "on garantit seulement qu'il ne lira plus la
\* suite", which KeysForward keeps to the lives of the process that lost none.
KeysForwardAlways == \A d \in registry.revoked : registry.keyEpoch \notin held[d]
=============================================================================
