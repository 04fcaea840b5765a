--------------------------- MODULE RealtimeStream ---------------------------
(***************************************************************************)
(* Realtime frames from a producer to a page.  API, worker and gateway     *)
(* take an id from the tenant's counter, publish the frame on its channel  *)
(* and keep it in a trimmed list (realtime.publisher.ts,                   *)
(* realtime.broker.ts, realtime.emit.ts, publishAgentEvent).  One API      *)
(* instance replays and then streams to its connections, of every tenant,  *)
(* over one shared subscriber (RealtimeBroker.stream); the page's client   *)
(* reads, drops duplicates and comes back with its cursor (lib/sse.ts,     *)
(* lib/use-realtime.ts).  Redis and the network are external; a pipe holds *)
(* what was written to a connection and not read yet.  A frame is named by *)
(* when its id was taken, for two tenants use the same ids.                *)
(***************************************************************************)
EXTENDS Integers, Sequences, FiniteSets, SequencesExt

CONSTANTS
    Topics,         \* tenant:<id>:<channel>, the channels of Redis
    TenantOf,       \* the tenant of each
    Producers,      \* connections that publish
    Clients,        \* mounted useRealtime hooks
    Requests,       \* sets of topics a stream may ask for
    Conns,          \* responses the API instance can hold
    RetainedMax,    \* RETAINED_MAX: 200
    Window,         \* DEDUP_WINDOW: 64
    MaxEvents,      \* bound: frames of each tenant
    MaxDrops        \* bound: connections cut, restarts, unmounts, failures of Redis

ASSUME StreamAssumption ==
    /\ DOMAIN TenantOf = Topics /\ Requests \subseteq SUBSET Topics
    /\ \A R \in Requests : \A t, u \in R : TenantOf[t] = TenantOf[u]
    /\ RetainedMax \in Nat \ {0} /\ Window \in Nat \ {0}
    /\ \A t \in Topics : MaxEvents[TenantOf[t]] \in Nat
    /\ MaxDrops \in Nat

VARIABLES
    wants,         \* the topics each client asks for
    seq,           \* sse:seq:<tenant>, the last id each tenant took
    frames,        \* history: topic and id of each frame, as the ids were taken
    producers,     \* what each is about to do, with which frame
    retained,      \* sse:retained, newest first
    subscribed,    \* topics of the instance's subscriber connection
    conns,         \* responses of RealtimeBroker.stream
    clients,       \* RealtimeClient of each hook
    shown,         \* history: frames each dispatched since it was mounted
    crossed,       \* history: clients that have read a frame of another tenant since
    heard,         \* history: frames published in order to a stream in place, of a
                   \* client with a cursor, and retained before a next replay that works
    drops          \* history: connections cut, restarts, unmounts, failures of Redis

streamVars == <<wants, seq, frames, producers, retained, subscribed, conns, clients, shown,
                crossed, heard, drops>>

Tenants == {TenantOf[t] : t \in Topics}
TopicOf(f) == frames[f].topic
IdOf(f) == frames[f].id
Owner(f) == TenantOf[TopicOf(f)]

Quiet == [at |-> "idle", frame |-> 0]
FreeConn == [at |-> "free", client |-> {}, cursor |-> 0, todo |-> {}, pipe |-> <<>>,
             cut |-> FALSE, closed |-> FALSE]
Fresh == [at |-> "connect", cursor |-> 0, recent |-> <<>>]

InitStream ==
    /\ wants \in [Clients -> Requests]
    /\ seq = [n \in Tenants |-> 0] /\ frames = <<>>
    /\ producers = [p \in Producers |-> Quiet]
    /\ retained = [t \in Topics |-> <<>>] /\ subscribed = {}
    /\ conns = [k \in Conns |-> FreeConn]
    /\ clients = [c \in Clients |-> Fresh]
    /\ shown = [c \in Clients |-> <<>>] /\ crossed = {} /\ heard = {} /\ drops = 0

\* c reads from connection k.
Reads(c, k) == c \in conns[k].client /\ ~conns[k].cut
WantedOn(k) == UNION {wants[c] : c \in conns[k].client}
\* The listener of k is in place and writes.
Listens(k) == conns[k].at = "live" /\ ~conns[k].closed

-----------------------------------------------------------------------------
(* Producers *)

\* INCR.
TakeId(p, t) ==
    LET n == TenantOf[t]
    IN  /\ producers[p] = Quiet /\ seq[n] < MaxEvents[n]
        /\ seq' = [seq EXCEPT ![n] = @ + 1]
        /\ frames' = Append(frames, [topic |-> t, id |-> seq[n] + 1])
        /\ producers' = [producers EXCEPT ![p] = [at |-> "publish", frame |-> Len(frames) + 1]]
        /\ UNCHANGED <<wants, retained, subscribed, conns, clients, shown, crossed, heard,
                       drops>>

\* No higher id of the tenant has been published before.
InOrder(f) ==
    \A g \in f+1..Len(frames) :
        Owner(g) = Owner(f) => \E p \in Producers : producers[p] = [at |-> "publish", frame |-> g]

\* onMessage writes whatever comes over the shared connection, whoever's it is.
PublishFrame(p) ==
    LET f == producers[p].frame
        reached == {k \in Conns : TopicOf(f) \in subscribed /\ Listens(k)}
    IN  /\ producers[p].at = "publish"
        /\ conns' = [k \in Conns |->
                        IF k \in reached /\ ~conns[k].cut
                        THEN [conns[k] EXCEPT !.pipe = Append(@, f)] ELSE conns[k]]
        /\ heard' = heard \cup {<<c, f>> : c \in {d \in Clients :
                        InOrder(f) /\ clients[d].cursor > 0
                        /\ \E k \in reached : Reads(d, k)}}
        /\ producers' = [producers EXCEPT ![p].at = "retain"]
        /\ UNCHANGED <<wants, seq, frames, retained, subscribed, clients, shown, crossed,
                       drops>>

\* lpush, ltrim, expire.
Retain(p) ==
    LET f == producers[p].frame  t == TopicOf(f)
    IN  /\ producers[p].at = "retain"
        /\ retained' = [retained EXCEPT ![t] =
                           SubSeq(<<f>> \o @, 1, IF Len(@) < RetainedMax THEN Len(@) + 1
                                                 ELSE RetainedMax)]
        /\ producers' = [producers EXCEPT ![p] = Quiet]
        /\ UNCHANGED <<wants, seq, frames, subscribed, conns, clients, shown, crossed,
                       heard, drops>>

\* The producer dies, or Redis refuses: best effort.
ProducerFails(p) ==
    /\ producers[p] # Quiet /\ drops < MaxDrops
    /\ producers' = [producers EXCEPT ![p] = Quiet] /\ drops' = drops + 1
    /\ UNCHANGED <<wants, seq, frames, retained, subscribed, conns, clients, shown,
                   crossed, heard>>

-----------------------------------------------------------------------------
(* RealtimeBroker.stream *)

\* Retained frames whose id is later than the cursor of k.
Later(k, t) == {f \in ToSet(retained[t]) : IdOf(f) > conns[k].cursor}

\* Mutant of OldestFirst: newest first, as the list has them.
AsKept(S) == {s \in [1..Cardinality(S) -> S] :
                      ToSet(s) = S /\ \A i, j \in DOMAIN s : i < j => IdOf(s[i]) > IdOf(s[j])}

\* The orders in which to send S: by id, each once.
OldestFirst(S) == {s \in [1..Cardinality(S) -> S] :
                      ToSet(s) = S /\ \A i, j \in DOMAIN s : i < j => IdOf(s[i]) < IdOf(s[j])}

\* Frames of t that c heard and a replay now does not bring.
Missed(c, t, brought) ==
    {x \in heard : x[1] = c /\ TopicOf(x[2]) = t
                     /\ x[2] \notin brought /\ ~Contains(shown[c], x[2])}

\* retainedAfter, for one channel after the other.
Replay(k, t) ==
    /\ conns[k].at = "replay" /\ t \in conns[k].todo
    /\ \E events \in OldestFirst(Later(k, t)) :
          conns' = [conns EXCEPT ![k].todo = @ \ {t}, ![k].pipe = @ \o events]
    /\ heard' = heard \ UNION {Missed(c, t, ToSet(retained[t])) : c \in conns[k].client}
    /\ UNCHANGED <<wants, seq, frames, producers, retained, subscribed, clients, shown,
                   crossed, drops>>

\* Redis does not answer: nothing of this channel is replayed, the stream goes on.
ReplayFails(k, t) ==
    /\ conns[k].at = "replay" /\ t \in conns[k].todo
    /\ drops < MaxDrops /\ drops' = drops + 1
    /\ conns' = [conns EXCEPT ![k].todo = @ \ {t}]
    /\ heard' = heard \ UNION {Missed(c, t, {}) : c \in conns[k].client}
    /\ UNCHANGED <<wants, seq, frames, producers, retained, subscribed, clients, shown,
                   crossed>>

\* After the replay, unless the response was closed meanwhile.
Subscribe(k) ==
    /\ conns[k].at = "replay" /\ conns[k].todo = {}
    /\ IF conns[k].closed
       THEN conns' = [conns EXCEPT ![k] = FreeConn] /\ UNCHANGED subscribed
       ELSE /\ conns' = [conns EXCEPT ![k].at = "subscribing"]
            /\ subscribed' = subscribed \cup WantedOn(k)
    /\ UNCHANGED <<wants, seq, frames, producers, retained, clients, shown, crossed, heard,
                   drops>>

\* subscribe() has answered.  A close that came before is not seen: the listener
\* and its heartbeat stay for ever.
Attach(k) ==
    /\ conns[k].at = "subscribing" /\ conns' = [conns EXCEPT ![k].at = "live"]
    /\ UNCHANGED <<wants, seq, frames, producers, retained, subscribed, clients, shown,
                   crossed, heard, drops>>

\* 'close': the listener goes, and the shared connection leaves the channels.
Closed(k) ==
    /\ conns[k].at # "free" /\ conns[k].cut /\ ~conns[k].closed
    /\ IF conns[k].at = "live"
       THEN /\ conns' = [conns EXCEPT ![k] = FreeConn]
            /\ subscribed' = subscribed \ WantedOn(k)
       ELSE conns' = [conns EXCEPT ![k].closed = TRUE] /\ UNCHANGED subscribed
    /\ UNCHANGED <<wants, seq, frames, producers, retained, clients, shown, crossed, heard,
                   drops>>

-----------------------------------------------------------------------------
(* RealtimeClient *)

\* Mutant of Connect: every connection starts with an empty dedup window.
ConnectAnew(c, k) ==
    /\ clients[c].at = "connect" /\ conns[k] = FreeConn
    /\ clients' = [clients EXCEPT ![c].at = "open", ![c].recent = <<>>]
    /\ conns' = [conns EXCEPT ![k] = [FreeConn EXCEPT !.at = "replay", !.client = {c},
                    !.cursor = clients[c].cursor,
                    !.todo = IF clients[c].cursor = 0 THEN {} ELSE wants[c]]]
    /\ UNCHANGED <<wants, seq, frames, producers, retained, subscribed, shown, crossed,
                   heard, drops>>

\* A turn of run: fetch with Last-Event-ID.  A turn that fails only waits.
Connect(c, k) ==
    /\ clients[c].at = "connect" /\ conns[k] = FreeConn
    /\ clients' = [clients EXCEPT ![c].at = "open"]
    /\ conns' = [conns EXCEPT ![k] = [FreeConn EXCEPT !.at = "replay", !.client = {c},
                    !.cursor = clients[c].cursor,
                    !.todo = IF clients[c].cursor = 0 THEN {} ELSE wants[c]]]
    /\ UNCHANGED <<wants, seq, frames, producers, retained, subscribed, shown, crossed,
                   heard, drops>>

\* 401: run ends, running stays true and the hook does not start it again.
Unauthorized(c) ==
    /\ clients[c].at = "connect" /\ drops < MaxDrops /\ drops' = drops + 1
    /\ clients' = [clients EXCEPT ![c].at = "closed"]
    /\ UNCHANGED <<wants, seq, frames, producers, retained, subscribed, conns, shown,
                   crossed, heard>>

\* The last ids of a queue that keeps Window of them.
Recent(ids, id) == LET all == Append(ids, id)
                   IN  IF Len(all) > Window THEN Tail(all) ELSE all

\* The next frame the parser has whole.
Arrives(k) == Head(conns[k].pipe)

\* The handlers of c see the frame.
Dispatch(c, f) == shown' = [shown EXCEPT ![c] = Append(@, f)]

\* None of the channels c asks for is of the tenant of f.
Foreign(c, f) == \A t \in wants[c] : TenantOf[t] # Owner(f)

\* A frame: the cursor follows every one, the handlers see those whose id was not
\* seen lately.
Read(c, k) ==
    LET f == Arrives(k)  id == IdOf(f)
    IN  /\ Reads(c, k) /\ conns[k].pipe # <<>>
        /\ conns' = [conns EXCEPT ![k].pipe = Tail(@)]
        /\ IF Contains(clients[c].recent, id)
           THEN clients' = [clients EXCEPT ![c].cursor = id] /\ UNCHANGED shown
           ELSE /\ clients' = [clients EXCEPT ![c].cursor = id, ![c].recent = Recent(@, id)]
                /\ Dispatch(c, f)
        /\ crossed' = crossed \cup {d \in {c} : Foreign(d, f)}
        /\ UNCHANGED <<wants, seq, frames, producers, retained, subscribed, heard, drops>>

\* The connection of c is cut; the server learns of it later.
Cut(c) == conns' = [k \in Conns |-> IF Reads(c, k)
                       THEN [conns[k] EXCEPT !.cut = TRUE, !.pipe = <<>>] ELSE conns[k]]

Drop(c) ==
    /\ clients[c].at = "open" /\ drops < MaxDrops /\ drops' = drops + 1
    /\ Cut(c) /\ clients' = [clients EXCEPT ![c].at = "connect"]
    /\ UNCHANGED <<wants, seq, frames, producers, retained, subscribed, shown, crossed,
                   heard>>

\* Unmount stops the client; the next mount makes a new one.
Remount(c) ==
    /\ clients[c] # Fresh /\ drops < MaxDrops /\ drops' = drops + 1
    /\ Cut(c) /\ clients' = [clients EXCEPT ![c] = Fresh]
    /\ shown' = [shown EXCEPT ![c] = <<>>]
    /\ crossed' = crossed \ {c} /\ heard' = {x \in heard : x[1] # c}
    /\ UNCHANGED <<wants, seq, frames, producers, retained, subscribed>>

InstanceRestarts ==
    /\ \E k \in Conns : conns[k] # FreeConn
    /\ drops < MaxDrops /\ drops' = drops + 1
    /\ conns' = [k \in Conns |-> FreeConn] /\ subscribed' = {}
    /\ clients' = [c \in Clients |-> IF clients[c].at = "open"
                      THEN [clients[c] EXCEPT !.at = "connect"] ELSE clients[c]]
    /\ UNCHANGED <<wants, seq, frames, producers, retained, shown, crossed, heard>>

-----------------------------------------------------------------------------

\* emitIncidentEvent and emitAgentEvent, the publisher, the gateway's publishAgentEvent.
Producer(p) == \/ \E t \in Topics : TakeId(p, t)
               \/ PublishFrame(p) \/ Retain(p) \/ ProducerFails(p)

\* RealtimeBroker.stream, for one response.
Stream(k) == \/ \E t \in Topics : Replay(k, t) \/ ReplayFails(k, t)
             \/ Subscribe(k) \/ Attach(k) \/ Closed(k)

\* RealtimeClient.run, between start and stop.
Client(c) == \/ \E k \in Conns : Connect(c, k) \/ Read(c, k)
             \/ Unauthorized(c) \/ Drop(c) \/ Remount(c)

NextStream ==
    \/ \E p \in Producers : Producer(p)
    \/ \E k \in Conns : Stream(k)
    \/ \E c \in Clients : Client(c)
    \/ InstanceRestarts

SpecStream == InitStream /\ [][NextStream]_streamVars

-----------------------------------------------------------------------------
(* Properties *)

StreamOK ==
    /\ seq \in [Tenants -> Nat] /\ frames \in Seq([topic : Topics, id : Nat])
    /\ subscribed \subseteq Topics /\ crossed \subseteq Clients
    /\ producers \in [Producers -> [at : {"idle", "publish", "retain"}, frame : Nat]]
    /\ \A t \in Topics : Len(retained[t]) <= RetainedMax
    /\ \A k \in Conns : conns[k].at \in {"free", "replay", "subscribing", "live"}
                        /\ conns[k].pipe \in Seq(DOMAIN frames)
    /\ \A c \in Clients : clients[c].at \in {"connect", "open", "closed"}
                          /\ Len(clients[c].recent) <= Window

\* A stream of one channel loses nothing it was in place for: a frame published
\* in the order of the ids while it listened is shown, on its way, or still ahead
\* of the cursor it comes back with, for as long as it is retained and replays work,
\* whatever was cut, restarted or replayed since.  A frame of another tenant takes
\* that away: its id has nothing to do with the cursor and the window it goes into.
NothingHeardIsLost ==
    \A x \in heard :
        LET c == x[1]  f == x[2]
        IN  /\ c \notin crossed
            /\ Contains(retained[TopicOf(f)], f) /\ wants[c] = {TopicOf(f)}
            => \/ Contains(shown[c], f)
               \/ \E k \in Conns : Reads(c, k) /\ Contains(conns[k].pipe, f)
               \/ IdOf(f) > clients[c].cursor

\* A frame is shown again only when at least a window of others were shown in
\* between, whatever is replayed and however often the client reconnects.
ShownOnceInWindow ==
    \A c \in Clients : \A i, j \in DOMAIN shown[c] :
        i < j /\ shown[c][i] = shown[c][j] => j - i > Window

\* GET /realtime/stream?channels=...: a stream carries the channels it asked for,
\* of its own tenant.
OwnChannelsOnly == \A c \in Clients : \A f \in ToSet(shown[c]) : TopicOf(f) \in wants[c]
=============================================================================
