----------------------- MODULE RealtimeStreamProofs ------------------------
(***************************************************************************)
(* Theorems about RealtimeStream, for every number of producers, pages,    *)
(* responses and channels, every length of the retained list and of the    *)
(* dedup window, and every tenant: its types, that a frame is shown once   *)
(* in a window, and that a stream of one channel loses nothing it was in   *)
(* place for until a frame of another tenant reaches it.                   *)
(***************************************************************************)
EXTENDS RealtimeStream, FiniteSetTheorems, TLAPS

Names == Nat \ {0}
FrameRec == [topic : Topics, id : Nat \ {0}]
ProducerRec == [at : {"idle", "publish", "retain"}, frame : Nat]
ConnRec == [at : {"free", "replay", "subscribing", "live"}, client : SUBSET Clients,
            cursor : Nat, todo : SUBSET Topics, pipe : Seq(Names), cut : BOOLEAN,
            closed : BOOLEAN]
ClientRec == [at : {"connect", "open", "closed"}, cursor : Nat, recent : Seq(Nat)]

Types ==
    /\ wants \in [Clients -> SUBSET Topics]
    /\ seq \in [Tenants -> Nat] /\ frames \in Seq(FrameRec)
    /\ producers \in [Producers -> ProducerRec]
    /\ retained \in [Topics -> Seq(Names)] /\ \A t \in Topics : Len(retained[t]) <= RetainedMax
    /\ subscribed \subseteq Topics
    /\ conns \in [Conns -> ConnRec] /\ clients \in [Clients -> ClientRec]
    /\ shown \in [Clients -> Seq(Names)]
    /\ crossed \subseteq Clients /\ heard \subseteq Clients \X Names

\* The ids of a tenant rise, and its counter has the last of them.
IdsRise ==
    /\ \A f \in 1..Len(frames) : IdOf(f) <= seq[Owner(f)]
    /\ \A f, g \in 1..Len(frames) : f < g /\ Owner(f) = Owner(g) => IdOf(f) < IdOf(g)

\* A frame is in the hands of one producer.
OwnFrames ==
    /\ \A p \in Producers : producers[p].at # "idle" => producers[p].frame \in 1..Len(frames)
    /\ \A p, q \in Producers : producers[p].at # "idle" /\ producers[q].at # "idle"
                                 /\ producers[p].frame = producers[q].frame => p = q

\* The frames that were published, or never will be.
Sent == {f \in 1..Len(frames) :
            \A p \in Producers : producers[p].at = "publish" => producers[p].frame # f}

SentOnly ==
    /\ \A t \in Topics : \A i \in 1..Len(retained[t]) : retained[t][i] \in Sent
    /\ \A k \in Conns : \A i \in 1..Len(conns[k].pipe) : conns[k].pipe[i] \in Sent
    /\ \A c \in Clients : \A i \in 1..Len(shown[c]) : shown[c][i] \in Sent
    /\ \A x \in heard : x[2] \in Sent

\* What a client that no frame of another tenant reached has read and shown.
OwnOnly ==
    \A c \in Clients \ crossed :
        /\ clients[c].cursor > 0 => \E f \in Sent : ~Foreign(c, f) /\ clients[c].cursor = IdOf(f)
        /\ \A i \in 1..Len(shown[c]) : ~Foreign(c, shown[c][i])

\* recent has the ids of the end of s: the whole of it, or its last Window frames.
HoldsLast(recent, s) ==
    /\ Len(recent) <= Window /\ Len(recent) <= Len(s)
    /\ Len(recent) < Window => Len(recent) = Len(s)
    /\ \A i \in 1..Len(recent) : recent[i] = IdOf(s[Len(s) - Len(recent) + i])
Once(s) == \A i, j \in 1..Len(s) : i < j /\ s[i] = s[j] => j - i > Window
Windows == \A c \in Clients : HoldsLast(clients[c].recent, shown[c]) /\ Once(shown[c])

OneStream ==
    /\ \A c \in Clients : \A k \in Conns : Reads(c, k) => clients[c].at = "open"
    /\ \A c \in Clients : \A k, l \in Conns : Reads(c, k) /\ Reads(c, l) => k = l
    /\ \A k \in Conns : conns[k].closed => conns[k].cut
    /\ \A k \in Conns : /\ \A c \in conns[k].client : conns[k].todo \subseteq wants[c]
                       /\ \A c, d \in conns[k].client : c = d

\* f is in a pipe, behind frames of its tenant with smaller ids only.
ComesIn(s, f) == \E i \in 1..Len(s) :
    s[i] = f /\ \A j \in 1..i-1 : Owner(s[j]) = Owner(f) => IdOf(s[j]) < IdOf(f)
Coming(k, f) == ComesIn(conns[k].pipe, f)
\* k will replay the channel of f, from the cursor that c still has.
Awaits(c, k, f) == /\ conns[k].at = "replay" /\ TopicOf(f) \in conns[k].todo
                   /\ conns[k].pipe = <<>> /\ conns[k].cursor = clients[c].cursor
Kept(c, f) ==
    \/ \E i \in 1..Len(shown[c]) : shown[c][i] = f
    \/ /\ clients[c].cursor < IdOf(f)
       /\ \A k \in Conns : Reads(c, k) => Coming(k, f) \/ Awaits(c, k, f)
HeardKept ==
    /\ \A x \in heard : clients[x[1]].cursor > 0
    /\ \A c \in Clients \ crossed, f \in Names :
          <<c, f>> \in heard /\ wants[c] = {TopicOf(f)} => Kept(c, f)

StreamInv ==
    Types /\ IdsRise /\ OwnFrames /\ SentOnly /\ OwnOnly /\ Windows /\ OneStream /\ HeardKept

-----------------------------------------------------------------------------
(* Sequences *)

LEMMA AppendFacts ==
    ASSUME NEW S, NEW s \in Seq(S), NEW e \in S
    PROVE  /\ Append(s, e) \in Seq(S) /\ Len(Append(s, e)) = Len(s) + 1
           /\ Append(s, e)[Len(s) + 1] = e
           /\ \A i \in 1..Len(s) : Append(s, e)[i] = s[i]
  OBVIOUS

LEMMA TailFacts ==
    ASSUME NEW S, NEW s \in Seq(S), s # <<>>
    PROVE  /\ Len(s) \in Nat \ {0} /\ Head(s) = s[1] /\ s[1] \in S
           /\ Tail(s) \in Seq(S) /\ Len(Tail(s)) = Len(s) - 1
           /\ \A i \in 1..Len(s) - 1 : Tail(s)[i] = s[i + 1]
  OBVIOUS

LEMMA ConcatFacts ==
    ASSUME NEW S, NEW s \in Seq(S), NEW r \in Seq(S)
    PROVE  /\ s \o r \in Seq(S) /\ Len(s \o r) = Len(s) + Len(r)
           /\ \A i \in 1..Len(s) : (s \o r)[i] = s[i]
           /\ \A i \in 1..Len(r) : (s \o r)[Len(s) + i] = r[i]
  OBVIOUS

LEMMA SeqElements ==
    ASSUME NEW S, NEW s \in Seq(S)
    PROVE  /\ Len(s) \in Nat /\ DOMAIN s = 1..Len(s)
           /\ \A i \in 1..Len(s) : s[i] \in S
           /\ ToSet(s) \subseteq S
  BY DEF ToSet

LEMMA WiderSeq ==
    ASSUME NEW S, NEW T, S \subseteq T, NEW s \in Seq(S)
    PROVE  s \in Seq(T)
<1>1. \A i \in 1..Len(s) : s[i] \in T
  BY SeqElements
<1> QED
  BY <1>1

\* What Retain leaves of a list: the newest first, and no more than n of them.
Newest(e, s, n) == SubSeq(<<e>> \o s, 1, IF Len(s) < n THEN Len(s) + 1 ELSE n)

LEMMA TrimmedFacts ==
    ASSUME NEW S, NEW s \in Seq(S), NEW e \in S, NEW n \in Nat \ {0}, Len(s) <= n
    PROVE  /\ Newest(e, s, n) \in Seq(S) /\ Len(Newest(e, s, n)) <= n
           /\ \A i \in 1..Len(Newest(e, s, n)) :
                 Newest(e, s, n)[i] = e \/ \E j \in 1..Len(s) : Newest(e, s, n)[i] = s[j]
<1> PICK new : new = Newest(e, s, n)
  OBVIOUS
<1>1. PICK m : m = IF Len(s) < n THEN Len(s) + 1 ELSE n
  OBVIOUS
<1>2. PICK r : r = <<e>> \o s
  OBVIOUS
<1>3. Len(s) \in Nat /\ m \in Nat /\ 1 <= m /\ m <= Len(s) + 1 /\ m <= n
  BY <1>1
<1>4. r \in Seq(S) /\ Len(r) = Len(s) + 1 /\ r[1] = e
      /\ \A i \in 2..Len(s) + 1 : r[i] = s[i - 1]
  BY <1>2
<1>5. new = SubSeq(r, 1, m)
  BY <1>1, <1>2 DEF Newest
<1>6. new \in Seq(S) /\ Len(new) = m /\ \A i \in 1..m : new[i] = r[i]
  BY <1>3, <1>4, <1>5
<1>7. \A i \in 1..m : i = 1 \/ (i \in 2..Len(s) + 1 /\ i - 1 \in 1..Len(s))
  BY <1>3
<1>8. \A i \in 1..m : new[i] = e \/ \E j \in 1..Len(s) : new[i] = s[j]
  <2> TAKE i \in 1..m
  <2>1. CASE i = 1
    BY <1>4, <1>6, <2>1
  <2>2. CASE i # 1
    <3>1. i \in 2..Len(s) + 1 /\ i - 1 \in 1..Len(s)
      BY <1>7, <2>2
    <3>2. new[i] = s[i - 1]
      BY <1>4, <1>6, <3>1
    <3> QED
      BY <3>1, <3>2
  <2> QED
    BY <2>1, <2>2
<1> QED
  BY <1>3, <1>6, <1>8

-----------------------------------------------------------------------------
(* What the types say, and what a step does to a response *)

LEMMA StreamConstants ==
    /\ RetainedMax \in Nat \ {0} /\ Window \in Nat \ {0}
    /\ \A r \in Requests : r \subseteq Topics
    /\ \A t \in Topics : TenantOf[t] \in Tenants
  BY StreamAssumption DEF Tenants

LEMMA StreamTyped ==
    ASSUME Types
    PROVE  /\ Len(frames) \in Nat
           /\ \A f \in 1..Len(frames) : /\ TopicOf(f) \in Topics /\ IdOf(f) \in Nat \ {0}
                                        /\ Owner(f) \in Tenants /\ seq[Owner(f)] \in Nat
           /\ \A p \in Producers : /\ producers[p] \in ProducerRec
                                   /\ producers[p].frame \in Nat
           /\ \A t \in Topics : retained[t] \in Seq(Names)
           /\ \A c \in Clients : /\ wants[c] \subseteq Topics /\ shown[c] \in Seq(Names)
                                 /\ clients[c] \in ClientRec /\ clients[c].cursor \in Nat
                                 /\ clients[c].recent \in Seq(Nat)
           /\ \A k \in Conns : /\ conns[k] \in ConnRec /\ conns[k].client \subseteq Clients
                               /\ conns[k].cursor \in Nat
                               /\ conns[k].todo \subseteq Topics /\ conns[k].pipe \in Seq(Names)
                               /\ conns[k].cut \in BOOLEAN /\ conns[k].closed \in BOOLEAN
<1>1. frames \in Seq(FrameRec) /\ seq \in [Tenants -> Nat]
  BY DEF Types
<1>2. Len(frames) \in Nat /\ \A f \in 1..Len(frames) : frames[f] \in FrameRec
  BY <1>1
<1>3. \A f \in 1..Len(frames) : TopicOf(f) \in Topics /\ IdOf(f) \in Nat \ {0}
  BY <1>2 DEF FrameRec, TopicOf, IdOf
<1>4. \A f \in 1..Len(frames) : Owner(f) \in Tenants /\ seq[Owner(f)] \in Nat
  BY <1>1, <1>3, StreamConstants DEF Owner
<1>5. \A p \in Producers : producers[p] \in ProducerRec /\ producers[p].frame \in Nat
  BY DEF Types, ProducerRec
<1>6. /\ \A t \in Topics : retained[t] \in Seq(Names)
      /\ \A c \in Clients : wants[c] \subseteq Topics /\ shown[c] \in Seq(Names)
  BY DEF Types
<1>7. \A c \in Clients : clients[c] \in ClientRec
  BY DEF Types
<1>8. \A k \in Conns : conns[k] \in ConnRec
  BY DEF Types
<1> QED
  BY <1>2, <1>3, <1>4, <1>5, <1>6, <1>7, <1>8 DEF ClientRec, ConnRec

LEMMA QuietTyped == Quiet \in ProducerRec /\ Quiet.at = "idle"
  BY StreamConstants DEF Quiet, ProducerRec

LEMMA FreshTyped == /\ Fresh \in ClientRec /\ Fresh.at = "connect" /\ Fresh.cursor = 0
                    /\ Fresh.recent = <<>>
  BY StreamConstants DEF Fresh, ClientRec

LEMMA FreeTyped == /\ FreeConn \in ConnRec /\ FreeConn.at = "free" /\ FreeConn.client = {}
                   /\ FreeConn.todo = {} /\ FreeConn.pipe = <<>> /\ ~FreeConn.closed
                   /\ ~FreeConn.cut
  BY StreamConstants DEF FreeConn, ConnRec

\* What a replay sends: the retained frames after the cursor, by id.
LEMMA Events ==
    ASSUME Types, SentOnly, NEW k \in Conns, NEW t \in Topics,
           NEW events \in OldestFirst(Later(k, t))
    PROVE  /\ events \in Seq(Names)
           /\ \A i \in 1..Len(events) : \E j \in 1..Len(retained[t]) : events[i] = retained[t][j]
           /\ \A j \in 1..Len(retained[t]) : IdOf(retained[t][j]) > conns[k].cursor
                 => \E i \in 1..Len(events) : events[i] = retained[t][j]
           /\ \A i, j \in 1..Len(events) : i < j => IdOf(events[i]) < IdOf(events[j])
<1> DEFINE S == Later(k, t)
<1>1. DOMAIN retained[t] = 1..Len(retained[t]) /\ Len(frames) \in Nat
  BY StreamTyped, SeqElements
<1>2. S \subseteq 1..Len(frames)
  BY <1>1 DEF Later, ToSet, SentOnly, Sent
<1>3. 1..Len(frames) \subseteq Names
  BY <1>1 DEF Names
<1>12. IsFiniteSet(1..Len(frames))
  BY <1>1, FS_Interval
<1>4. Cardinality(S) \in Nat
  BY <1>2, <1>12, FS_Subset, FS_CardinalityType
<1>5. events \in [1..Cardinality(S) -> S] /\ ToSet(events) = S
      /\ \A i, j \in DOMAIN events : i < j => IdOf(events[i]) < IdOf(events[j])
  BY DEF OldestFirst
<1>6. events \in Seq(S)
  BY <1>4, <1>5
<1>7. events \in Seq(Names) /\ DOMAIN events = 1..Len(events)
  BY <1>2, <1>3, <1>6
<1>8. \A x : x \in S <=> \E i \in 1..Len(events) : events[i] = x
  BY <1>5, <1>7 DEF ToSet
<1>9. \A x : x \in S <=> /\ \E j \in 1..Len(retained[t]) : retained[t][j] = x
                         /\ IdOf(x) > conns[k].cursor
  BY <1>1 DEF Later, ToSet
<1> HIDE DEF S
<1>10. \A i \in 1..Len(events) : \E j \in 1..Len(retained[t]) : events[i] = retained[t][j]
  BY <1>8, <1>9
<1>11. \A j \in 1..Len(retained[t]) : IdOf(retained[t][j]) > conns[k].cursor
           => \E i \in 1..Len(events) : events[i] = retained[t][j]
  BY <1>8, <1>9
<1> QED
  BY <1>5, <1>7, <1>10, <1>11

\* A frame is there for every producer that has one to publish.
LEMMA PublishedTyped ==
    ASSUME Types, OwnFrames, NEW p \in Producers, producers[p].at # "idle"
    PROVE  /\ producers[p].frame \in 1..Len(frames) /\ producers[p].frame \in Names
           /\ TopicOf(producers[p].frame) \in Topics
<1>1. producers[p].frame \in 1..Len(frames)
  BY DEF OwnFrames
<1> QED
  BY <1>1, StreamTyped DEF Names

-----------------------------------------------------------------------------
(* What each step does to the responses *)

\* The request that k answers, and whether its page is still there.
SameRequest(k) == /\ conns'[k].client = conns[k].client /\ conns'[k].cursor = conns[k].cursor
                  /\ conns'[k].cut = conns[k].cut

Reached(p) == {k \in Conns : TopicOf(producers[p].frame) \in subscribed /\ Listens(k)}

LEMMA PublishConns ==
    ASSUME Types, OwnFrames, NEW p \in Producers, PublishFrame(p)
    PROVE  /\ conns' \in [Conns -> ConnRec]
           /\ \A k \in Conns : /\ SameRequest(k) /\ conns'[k].at = conns[k].at
                               /\ conns'[k].todo = conns[k].todo
                               /\ conns'[k].closed = conns[k].closed
                               /\ IF k \in Reached(p) /\ ~conns[k].cut
                                  THEN conns'[k].pipe = Append(conns[k].pipe, producers[p].frame)
                                  ELSE conns'[k].pipe = conns[k].pipe
<1>1. producers[p].at # "idle"
  BY DEF PublishFrame
<1>2. producers[p].frame \in Names
  BY <1>1, PublishedTyped
<1>3. \A k \in Conns : Append(conns[k].pipe, producers[p].frame) \in Seq(Names)
  BY <1>2, StreamTyped, AppendFacts
<1>4. conns' = [k \in Conns |-> IF k \in Reached(p) /\ ~conns[k].cut
                                THEN [conns[k] EXCEPT !.pipe = Append(@, producers[p].frame)]
                                ELSE conns[k]]
  BY DEF PublishFrame, Reached
<1>5. \A k \in Conns : conns[k] \in ConnRec
  BY StreamTyped
<1>6. ASSUME NEW k \in Conns
      PROVE  /\ conns'[k] \in ConnRec
             /\ SameRequest(k) /\ conns'[k].at = conns[k].at /\ conns'[k].todo = conns[k].todo
             /\ conns'[k].closed = conns[k].closed
             /\ IF k \in Reached(p) /\ ~conns[k].cut
                THEN conns'[k].pipe = Append(conns[k].pipe, producers[p].frame)
                ELSE conns'[k].pipe = conns[k].pipe
  <2>1. CASE k \in Reached(p) /\ ~conns[k].cut
    <3>1. conns'[k] = [conns[k] EXCEPT !.pipe = Append(@, producers[p].frame)]
      BY <1>4, <2>1
    <3> QED
      BY <1>3, <1>5, <2>1, <3>1 DEF ConnRec, SameRequest
  <2>2. CASE ~(k \in Reached(p) /\ ~conns[k].cut)
    <3>1. conns'[k] = conns[k]
      BY <1>4, <2>2
    <3> QED
      BY <1>5, <2>2, <3>1 DEF SameRequest
  <2> QED
    BY <2>1, <2>2
<1>7. conns' \in [Conns -> ConnRec]
  BY <1>4, <1>6
<1> QED
  BY <1>6, <1>7

LEMMA ReplayConns ==
    ASSUME Types, SentOnly, NEW k \in Conns, NEW t \in Topics, Replay(k, t)
    PROVE  \E events \in OldestFirst(Later(k, t)) :
              /\ conns' \in [Conns -> ConnRec] /\ SameRequest(k)
              /\ conns'[k].at = conns[k].at /\ conns'[k].closed = conns[k].closed
              /\ conns'[k].todo = conns[k].todo \ {t}
              /\ conns'[k].pipe = conns[k].pipe \o events
              /\ \A l \in Conns \ {k} : conns'[l] = conns[l]
<1>1. PICK events \in OldestFirst(Later(k, t)) :
              conns' = [conns EXCEPT ![k].todo = @ \ {t}, ![k].pipe = @ \o events]
  BY DEF Replay
<1>2. conns[k] \in ConnRec /\ conns \in [Conns -> ConnRec] /\ conns[k].pipe \in Seq(Names)
  BY StreamTyped DEF Types
<1>3. events \in Seq(Names)
  BY Events
<1>4. conns[k].pipe \o events \in Seq(Names)
  BY <1>2, <1>3
<1>5. conns'[k] = [conns[k] EXCEPT !.todo = @ \ {t}, !.pipe = @ \o events]
  BY <1>1, <1>2
<1>6. conns'[k] \in ConnRec
  BY <1>2, <1>4, <1>5 DEF ConnRec
<1>7. conns' \in [Conns -> ConnRec] /\ \A l \in Conns \ {k} : conns'[l] = conns[l]
  BY <1>1, <1>2, <1>6
<1> QED
  BY <1>2, <1>5, <1>7 DEF ConnRec, SameRequest

LEMMA ReplayFailsConns ==
    ASSUME Types, NEW k \in Conns, NEW t \in Topics, ReplayFails(k, t)
    PROVE  /\ conns' \in [Conns -> ConnRec] /\ SameRequest(k)
           /\ conns'[k].at = conns[k].at /\ conns'[k].closed = conns[k].closed
           /\ conns'[k].todo = conns[k].todo \ {t} /\ conns'[k].pipe = conns[k].pipe
           /\ \A l \in Conns \ {k} : conns'[l] = conns[l]
<1>1. conns[k] \in ConnRec /\ conns \in [Conns -> ConnRec]
  BY StreamTyped DEF Types
<1>2. conns' = [conns EXCEPT ![k].todo = @ \ {t}]
  BY DEF ReplayFails
<1>3. conns'[k] = [conns[k] EXCEPT !.todo = @ \ {t}]
  BY <1>1, <1>2
<1>4. conns'[k] \in ConnRec
  <2>1. conns[k].todo \ {t} \in SUBSET Topics
    BY StreamTyped
  <2> QED
    BY <1>1, <1>3, <2>1 DEF ConnRec
<1> QED
  BY <1>1, <1>2, <1>3, <1>4 DEF ConnRec, SameRequest

\* Subscribe, Attach and Closed: a response is given up, or gets on.
LEMMA StreamConns ==
    ASSUME Types, NEW k \in Conns, Subscribe(k) \/ Attach(k) \/ Closed(k)
    PROVE  /\ conns' \in [Conns -> ConnRec]
           /\ \A l \in Conns \ {k} : conns'[l] = conns[l]
           /\ \/ conns'[k] = FreeConn
              \/ /\ SameRequest(k) /\ conns'[k].todo = conns[k].todo
                 /\ conns'[k].pipe = conns[k].pipe
                 /\ \/ conns[k].cut /\ conns'[k].closed
                    \/ /\ conns'[k].closed = conns[k].closed
                       /\ conns[k].at # "replay" \/ conns[k].todo = {}
           /\ subscribed' \subseteq subscribed \cup WantedOn(k)
<1>1. conns[k] \in ConnRec /\ conns \in [Conns -> ConnRec] /\ FreeConn \in ConnRec
  BY StreamTyped, FreeTyped DEF Types
<1>2. \/ conns' = [conns EXCEPT ![k] = FreeConn]
      \/ /\ conns[k].at # "replay" \/ conns[k].todo = {}
         /\ \/ conns' = [conns EXCEPT ![k].at = "subscribing"]
            \/ conns' = [conns EXCEPT ![k].at = "live"]
      \/ conns[k].cut /\ conns' = [conns EXCEPT ![k].closed = TRUE]
  BY DEF Subscribe, Attach, Closed
<1>3. subscribed' \subseteq subscribed \cup WantedOn(k)
  BY DEF Subscribe, Attach, Closed
<1>4. CASE conns' = [conns EXCEPT ![k] = FreeConn]
  BY <1>1, <1>3, <1>4
<1>5. CASE /\ conns[k].at # "replay" \/ conns[k].todo = {}
           /\ \/ conns' = [conns EXCEPT ![k].at = "subscribing"]
              \/ conns' = [conns EXCEPT ![k].at = "live"]
  <2>1. \/ conns'[k] = [conns[k] EXCEPT !.at = "subscribing"]
        \/ conns'[k] = [conns[k] EXCEPT !.at = "live"]
    BY <1>1, <1>5
  <2>2. conns'[k] \in ConnRec
    BY <1>1, <2>1 DEF ConnRec
  <2>3. conns' \in [Conns -> ConnRec] /\ \A l \in Conns \ {k} : conns'[l] = conns[l]
    BY <1>1, <1>5, <2>2
  <2> QED
    BY <1>1, <1>3, <1>5, <2>1, <2>3 DEF ConnRec, SameRequest
<1>6. CASE conns[k].cut /\ conns' = [conns EXCEPT ![k].closed = TRUE]
  <2>1. conns'[k] = [conns[k] EXCEPT !.closed = TRUE]
    BY <1>1, <1>6
  <2>2. conns'[k] \in ConnRec
    BY <1>1, <2>1 DEF ConnRec
  <2>3. conns' \in [Conns -> ConnRec] /\ \A l \in Conns \ {k} : conns'[l] = conns[l]
    BY <1>1, <1>6, <2>2
  <2> QED
    BY <1>1, <1>3, <1>6, <2>1, <2>3 DEF ConnRec, SameRequest
<1> QED
  BY <1>2, <1>4, <1>5, <1>6

LEMMA ConnectConns ==
    ASSUME Types, NEW c \in Clients, NEW k \in Conns, Connect(c, k)
    PROVE  /\ conns' \in [Conns -> ConnRec]
           /\ conns'[k].at = "replay" /\ conns'[k].client = {c}
           /\ conns'[k].cursor = clients[c].cursor /\ conns'[k].pipe = <<>>
           /\ conns'[k].todo = IF clients[c].cursor = 0 THEN {} ELSE wants[c]
           /\ ~conns'[k].cut /\ ~conns'[k].closed
           /\ \A l \in Conns \ {k} : conns'[l] = conns[l]
<1> DEFINE todo == IF clients[c].cursor = 0 THEN {} ELSE wants[c]
<1> DEFINE new == [FreeConn EXCEPT !.at = "replay", !.client = {c},
                                   !.cursor = clients[c].cursor, !.todo = todo]
<1>1. conns' = [conns EXCEPT ![k] = new]
  BY DEF Connect
<1>2. FreeConn \in ConnRec /\ conns \in [Conns -> ConnRec] /\ clients[c].cursor \in Nat
      /\ todo \subseteq Topics
  BY StreamTyped, FreeTyped DEF Types
<1> HIDE DEF todo
<1>3. /\ new \in ConnRec /\ new.at = "replay" /\ new.client = {c}
      /\ new.cursor = clients[c].cursor /\ new.todo = todo
      /\ new.pipe = FreeConn.pipe /\ new.cut = FreeConn.cut /\ new.closed = FreeConn.closed
  BY <1>2 DEF ConnRec
<1>4. conns'[k] = new /\ conns' \in [Conns -> ConnRec]
      /\ \A l \in Conns \ {k} : conns'[l] = conns[l]
  BY <1>1, <1>2, <1>3
<1> QED
  BY <1>3, <1>4, FreeTyped DEF todo

LEMMA ReadConns ==
    ASSUME Types, NEW c \in Clients, NEW k \in Conns, Read(c, k)
    PROVE  /\ conns' \in [Conns -> ConnRec] /\ SameRequest(k)
           /\ conns'[k].at = conns[k].at /\ conns'[k].closed = conns[k].closed
           /\ conns'[k].todo = conns[k].todo /\ conns'[k].pipe = Tail(conns[k].pipe)
           /\ \A l \in Conns \ {k} : conns'[l] = conns[l]
           /\ Arrives(k) = conns[k].pipe[1] /\ Arrives(k) \in Names
           /\ Len(conns[k].pipe) \in Nat \ {0}
<1>1. conns[k] \in ConnRec /\ conns \in [Conns -> ConnRec] /\ conns[k].pipe \in Seq(Names)
  BY StreamTyped DEF Types
<1>2. conns[k].pipe # <<>> /\ conns' = [conns EXCEPT ![k].pipe = Tail(@)]
  BY DEF Read
<1>3. Tail(conns[k].pipe) \in Seq(Names) /\ Head(conns[k].pipe) = conns[k].pipe[1]
      /\ conns[k].pipe[1] \in Names /\ Len(conns[k].pipe) \in Nat \ {0}
  BY <1>1, <1>2, TailFacts
<1>4. conns'[k] = [conns[k] EXCEPT !.pipe = Tail(@)]
  BY <1>1, <1>2
<1>5. conns'[k] \in ConnRec
  BY <1>1, <1>3, <1>4 DEF ConnRec
<1>6. conns' \in [Conns -> ConnRec] /\ \A l \in Conns \ {k} : conns'[l] = conns[l]
  BY <1>1, <1>2, <1>5
<1> QED
  BY <1>1, <1>3, <1>4, <1>6 DEF ConnRec, SameRequest, Arrives

LEMMA CutConns ==
    ASSUME Types, NEW c \in Clients, Cut(c)
    PROVE  /\ conns' \in [Conns -> ConnRec]
           /\ \A k \in Conns : IF Reads(c, k)
                 THEN /\ conns'[k].client = conns[k].client /\ conns'[k].todo = conns[k].todo
                      /\ conns'[k].cut /\ conns'[k].pipe = <<>>
                 ELSE conns'[k] = conns[k]
<1>1. conns' = [k \in Conns |-> IF Reads(c, k)
                       THEN [conns[k] EXCEPT !.cut = TRUE, !.pipe = <<>>] ELSE conns[k]]
  BY DEF Cut
<1>2. \A k \in Conns : conns[k] \in ConnRec
  BY StreamTyped
<1>3. <<>> \in Seq(Names)
  OBVIOUS
<1>4. ASSUME NEW k \in Conns
      PROVE  /\ conns'[k] \in ConnRec
             /\ IF Reads(c, k)
                THEN /\ conns'[k].client = conns[k].client /\ conns'[k].todo = conns[k].todo
                     /\ conns'[k].cut /\ conns'[k].pipe = <<>>
                ELSE conns'[k] = conns[k]
  <2>1. CASE Reads(c, k)
    <3>1. conns'[k] = [conns[k] EXCEPT !.cut = TRUE, !.pipe = <<>>]
      BY <1>1, <2>1
    <3> QED
      BY <1>2, <1>3, <2>1, <3>1 DEF ConnRec
  <2>2. CASE ~Reads(c, k)
    BY <1>1, <1>2, <2>2
  <2> QED
    BY <2>1, <2>2
<1> QED
  BY <1>1, <1>4

-----------------------------------------------------------------------------
(* What each step does to the clients *)

LEMMA PhaseClients ==
    ASSUME Types, NEW c \in Clients, NEW at, clients' = [clients EXCEPT ![c].at = at]
    PROVE  /\ clients'[c].at = at
           /\ \A d \in Clients \ {c} : clients'[d] = clients[d]
           /\ \A d \in Clients : /\ clients'[d].cursor = clients[d].cursor
                                 /\ clients'[d].recent = clients[d].recent
<1>1. clients \in [Clients -> ClientRec] /\ clients[c] \in ClientRec
  BY DEF Types
<1>2. clients'[c] = [clients[c] EXCEPT !.at = at]
  BY <1>1
<1>3. \A d \in Clients \ {c} : clients'[d] = clients[d]
  BY <1>1
<1>4. clients'[c].at = at /\ clients'[c].cursor = clients[c].cursor
      /\ clients'[c].recent = clients[c].recent
  BY <1>1, <1>2 DEF ClientRec
<1> QED
  BY <1>3, <1>4

LEMMA ReadClients ==
    ASSUME Types, NEW c \in Clients, NEW k \in Conns, Read(c, k)
    PROVE  /\ clients'[c].at = clients[c].at /\ clients'[c].cursor = IdOf(Arrives(k))
           /\ IF Contains(clients[c].recent, IdOf(Arrives(k)))
              THEN clients'[c].recent = clients[c].recent /\ shown' = shown
              ELSE /\ clients'[c].recent = Recent(clients[c].recent, IdOf(Arrives(k)))
                   /\ shown'[c] = Append(shown[c], Arrives(k))
           /\ \A d \in Clients \ {c} : clients'[d] = clients[d] /\ shown'[d] = shown[d]
<1>1. clients \in [Clients -> ClientRec] /\ clients[c] \in ClientRec
      /\ shown \in [Clients -> Seq(Names)]
  BY DEF Types
<1>2. PICK f : f = Arrives(k)
  OBVIOUS
<1>3. PICK id : id = IdOf(f)
  OBVIOUS
<1>4. CASE Contains(clients[c].recent, id)
  <2>1. clients' = [clients EXCEPT ![c].cursor = id] /\ shown' = shown
    BY <1>2, <1>3, <1>4 DEF Read
  <2>2. clients'[c] = [clients[c] EXCEPT !.cursor = id]
        /\ \A d \in Clients \ {c} : clients'[d] = clients[d]
    BY <1>1, <2>1
  <2>3. clients'[c].at = clients[c].at /\ clients'[c].cursor = id
        /\ clients'[c].recent = clients[c].recent
    BY <1>1, <2>2 DEF ClientRec
  <2> QED
    BY <1>2, <1>3, <1>4, <2>1, <2>2, <2>3
<1>5. CASE ~Contains(clients[c].recent, id)
  <2>1. /\ clients' = [clients EXCEPT ![c].cursor = id, ![c].recent = Recent(@, id)]
        /\ shown' = [shown EXCEPT ![c] = Append(@, f)]
    BY <1>2, <1>3, <1>5 DEF Read, Dispatch
  <2>2. clients'[c] = [clients[c] EXCEPT !.cursor = id, !.recent = Recent(@, id)]
        /\ \A d \in Clients \ {c} : clients'[d] = clients[d]
    BY <1>1, <2>1
  <2>3. clients'[c].at = clients[c].at /\ clients'[c].cursor = id
        /\ clients'[c].recent = Recent(clients[c].recent, id)
    BY <1>1, <2>2 DEF ClientRec
  <2>4. shown'[c] = Append(shown[c], f) /\ \A d \in Clients \ {c} : shown'[d] = shown[d]
    BY <1>1, <2>1
  <2> QED
    BY <1>2, <1>3, <1>5, <2>2, <2>3, <2>4
<1> QED
  BY <1>4, <1>5

-----------------------------------------------------------------------------
(* Types *)

LEMMA TypesInit ==
    ASSUME InitStream
    PROVE  Types
<1>1. wants \in [Clients -> SUBSET Topics] /\ frames = <<>>
  BY StreamConstants DEF InitStream
<1>2. producers \in [Producers -> ProducerRec]
  BY QuietTyped DEF InitStream
<1>3. conns \in [Conns -> ConnRec]
  BY FreeTyped DEF InitStream
<1>4. clients \in [Clients -> ClientRec]
  BY FreshTyped DEF InitStream
<1>5. /\ retained \in [Topics -> Seq(Names)] /\ \A t \in Topics : retained[t] = <<>>
      /\ shown \in [Clients -> Seq(Names)] /\ heard = {} /\ crossed = {} /\ subscribed = {}
      /\ seq \in [Tenants -> Nat]
  BY DEF InitStream
<1>6. \A t \in Topics : Len(retained[t]) <= RetainedMax
  BY <1>5, StreamConstants
<1>7. frames \in Seq(FrameRec)
  BY <1>1
<1> QED
  BY <1>1, <1>2, <1>3, <1>4, <1>5, <1>6, <1>7 DEF Types

\* A client with a new cursor, a new phase or a longer memory is still a client.
LEMMA ClientTyped ==
    ASSUME Types, NEW c \in Clients, NEW id \in Nat, NEW at \in {"connect", "open", "closed"}
    PROVE  /\ clients[c] \in ClientRec
           /\ [clients[c] EXCEPT !.at = at] \in ClientRec
           /\ [clients[c] EXCEPT !.cursor = id] \in ClientRec
           /\ [clients[c] EXCEPT !.cursor = id, !.recent = Recent(@, id)] \in ClientRec
<1>1. clients[c] \in ClientRec /\ clients[c].recent \in Seq(Nat)
  BY StreamTyped
<1>2. Append(clients[c].recent, id) \in Seq(Nat) /\ Append(clients[c].recent, id) # <<>>
  BY <1>1, AppendFacts
<1>3. Recent(clients[c].recent, id) \in Seq(Nat)
  BY <1>2, TailFacts DEF Recent
<1> QED
  BY <1>1, <1>3 DEF ClientRec

\* A frame is named by its place, and has the next id of its tenant.
LEMMA Taken ==
    ASSUME Types, NEW p \in Producers, NEW t \in Topics, TakeId(p, t)
    PROVE  /\ frames' \in Seq(FrameRec) /\ Len(frames') = Len(frames) + 1
           /\ \A f \in 1..Len(frames) : frames'[f] = frames[f]
           /\ frames'[Len(frames) + 1] = [topic |-> t, id |-> seq[TenantOf[t]] + 1]
           /\ seq' \in [Tenants -> Nat] /\ seq'[TenantOf[t]] = seq[TenantOf[t]] + 1
           /\ \A n \in Tenants \ {TenantOf[t]} : seq'[n] = seq[n]
<1> DEFINE new == [topic |-> t, id |-> seq[TenantOf[t]] + 1]
<1>1. seq \in [Tenants -> Nat] /\ frames \in Seq(FrameRec) /\ TenantOf[t] \in Tenants
  BY StreamConstants DEF Types
<1>2. new \in FrameRec
  BY <1>1 DEF FrameRec
<1>3. frames' = Append(frames, new) /\ seq' = [seq EXCEPT ![TenantOf[t]] = @ + 1]
  BY DEF TakeId
<1>4. seq' \in [Tenants -> Nat] /\ seq'[TenantOf[t]] = seq[TenantOf[t]] + 1
      /\ \A n \in Tenants \ {TenantOf[t]} : seq'[n] = seq[n]
  BY <1>1, <1>3
<1> HIDE DEF new
<1>5. /\ frames' \in Seq(FrameRec) /\ Len(frames') = Len(frames) + 1
      /\ \A f \in 1..Len(frames) : frames'[f] = frames[f]
      /\ frames'[Len(frames) + 1] = new
  BY <1>1, <1>2, <1>3, AppendFacts
<1> QED
  BY <1>4, <1>5 DEF new

LEMMA TakeIdTypes ==
    ASSUME Types, NEW p \in Producers, NEW t \in Topics, TakeId(p, t)
    PROVE  Types'
<1>1. frames' \in Seq(FrameRec) /\ seq' \in [Tenants -> Nat]
  BY Taken
<1>2. [at |-> "publish", frame |-> Len(frames) + 1] \in ProducerRec
  BY StreamTyped DEF ProducerRec
<1>3. producers' \in [Producers -> ProducerRec]
  BY <1>2 DEF TakeId, Types
<1> QED
  BY <1>1, <1>3 DEF TakeId, Types

LEMMA PublishTypes ==
    ASSUME Types, OwnFrames, NEW p \in Producers, PublishFrame(p)
    PROVE  Types'
<1>1. producers[p].at # "idle"
  BY DEF PublishFrame
<1>2. producers[p].frame \in Names
  BY <1>1, PublishedTyped
<1>3. heard' \subseteq Clients \X Names
  BY <1>2 DEF PublishFrame, Types
<1>4. producers' = [producers EXCEPT ![p].at = "retain"] /\ producers[p] \in ProducerRec
      /\ producers \in [Producers -> ProducerRec]
  BY DEF PublishFrame, Types
<1>5. [producers[p] EXCEPT !.at = "retain"] \in ProducerRec
  BY <1>4 DEF ProducerRec
<1>6. producers' \in [Producers -> ProducerRec]
  BY <1>4, <1>5
<1>7. conns' \in [Conns -> ConnRec]
  BY PublishConns
<1> QED
  BY <1>3, <1>6, <1>7 DEF PublishFrame, Types

\* The list gets the frame and keeps no more than it may.
LEMMA RetainStep ==
    ASSUME Types, OwnFrames, NEW p \in Producers, Retain(p)
    PROVE  /\ producers[p].at = "retain" /\ producers[p].frame \in Names
           /\ producers' = [producers EXCEPT ![p] = Quiet]
           /\ producers' \in [Producers -> ProducerRec]
           /\ retained' \in [Topics -> Seq(Names)]
           /\ \A t \in Topics : Len(retained'[t]) <= RetainedMax
           /\ \A t \in Topics : \A i \in 1..Len(retained'[t]) :
                 \/ retained'[t][i] = producers[p].frame
                 \/ \E j \in 1..Len(retained[t]) : retained'[t][i] = retained[t][j]
<1> DEFINE f == producers[p].frame
<1>1. producers[p].at = "retain" /\ producers' = [producers EXCEPT ![p] = Quiet]
  BY DEF Retain
<1>2. f \in Names /\ TopicOf(f) \in Topics
  BY <1>1, PublishedTyped
<1>3. PICK u \in Topics : u = TopicOf(f)
  BY <1>2
<1>4. PICK new : new = Newest(f, retained[u], RetainedMax)
  OBVIOUS
<1>5. retained' = [retained EXCEPT ![u] = new]
  BY <1>3, <1>4 DEF Retain, Newest
<1> HIDE DEF f
<1>6. retained \in [Topics -> Seq(Names)] /\ \A t \in Topics : Len(retained[t]) <= RetainedMax
  BY DEF Types
<1>7. retained[u] \in Seq(Names) /\ Len(retained[u]) <= RetainedMax /\ RetainedMax \in Nat \ {0}
  BY <1>6, StreamConstants
<1>8. new \in Seq(Names) /\ Len(new) <= RetainedMax
      /\ \A i \in 1..Len(new) : \/ new[i] = f
                                \/ \E j \in 1..Len(retained[u]) : new[i] = retained[u][j]
  BY <1>2, <1>4, <1>7, TrimmedFacts
<1>9. /\ retained' \in [Topics -> Seq(Names)]
       /\ \A t \in Topics : IF t = u THEN retained'[t] = new ELSE retained'[t] = retained[t]
  BY <1>5, <1>6, <1>8
<1>10. producers' \in [Producers -> ProducerRec]
  BY <1>1, QuietTyped DEF Types
<1>11. ASSUME NEW t \in Topics
       PROVE  /\ Len(retained'[t]) <= RetainedMax
              /\ \A i \in 1..Len(retained'[t]) :
                    \/ retained'[t][i] = f
                    \/ \E j \in 1..Len(retained[t]) : retained'[t][i] = retained[t][j]
  <2>1. CASE t = u
    BY <1>8, <1>9, <2>1
  <2>2. CASE t # u
    BY <1>6, <1>9, <2>2
  <2> QED
    BY <2>1, <2>2
<1> QED
  BY <1>1, <1>2, <1>9, <1>10, <1>11 DEF f

\* What is read has been sent.
LEMMA ArrivesSent ==
    ASSUME Types, SentOnly, NEW c \in Clients, NEW k \in Conns, Read(c, k)
    PROVE  /\ Arrives(k) \in Sent /\ Arrives(k) \in 1..Len(frames)
           /\ IdOf(Arrives(k)) \in Nat \ {0}
<1>1. Arrives(k) = conns[k].pipe[1] /\ Len(conns[k].pipe) \in Nat \ {0}
  BY ReadConns
<1>2. Arrives(k) \in Sent
  BY <1>1 DEF SentOnly
<1> QED
  BY <1>2, StreamTyped DEF Sent

LEMMA ReadTypes ==
    ASSUME Types, SentOnly, NEW c \in Clients, NEW k \in Conns, Read(c, k)
    PROVE  Types'
<1>1. Arrives(k) \in Names /\ conns' \in [Conns -> ConnRec]
  BY ReadConns
<1>2. PICK f \in Names : f = Arrives(k)
  BY <1>1
<1>3. PICK id \in Nat : id = IdOf(f)
  BY <1>2, ArrivesSent
<1>4. clients \in [Clients -> ClientRec] /\ shown \in [Clients -> Seq(Names)]
  BY DEF Types
<1>5. crossed' \subseteq Clients
  BY DEF Types, Read
<1>6. CASE clients' = [clients EXCEPT ![c].cursor = id] /\ UNCHANGED shown
  <2>1. clients' \in [Clients -> ClientRec]
    BY <1>4, <1>6, ClientTyped
  <2> QED
    BY <1>1, <1>5, <1>6, <2>1 DEF Types, Read
<1>7. CASE /\ clients' = [clients EXCEPT ![c].cursor = id, ![c].recent = Recent(@, id)]
           /\ Dispatch(c, f)
  <2>1. [clients[c] EXCEPT !.cursor = id, !.recent = Recent(@, id)] \in ClientRec
    BY ClientTyped
  <2>2. clients' \in [Clients -> ClientRec]
    BY <1>4, <1>7, <2>1
  <2>3. Append(shown[c], f) \in Seq(Names)
    BY <1>4, AppendFacts
  <2>4. shown' \in [Clients -> Seq(Names)]
    BY <1>4, <1>7, <2>3 DEF Dispatch
  <2> QED
    BY <1>1, <1>5, <2>2, <2>4 DEF Types, Read
<1> QED
  BY <1>2, <1>3, <1>6, <1>7 DEF Read

LEMMA StreamTypesStep ==
    ASSUME Types, OwnFrames, SentOnly, NextStream
    PROVE  Types'
<1>1. ASSUME NEW p \in Producers, Producer(p)
      PROVE  Types'
  <2>1. ASSUME NEW t \in Topics, TakeId(p, t)
        PROVE  Types'
    BY <2>1, TakeIdTypes
  <2>2. CASE PublishFrame(p)
    BY <2>2, PublishTypes
  <2>3. CASE Retain(p)
    BY <2>3, RetainStep DEF Retain, Types
  <2>4. CASE ProducerFails(p)
    BY <2>4, QuietTyped DEF ProducerFails, Types
  <2> QED
    BY <1>1, <2>1, <2>2, <2>3, <2>4 DEF Producer
<1>2. ASSUME NEW k \in Conns, Stream(k)
      PROVE  Types'
  <2>1. ASSUME NEW t \in Topics, Replay(k, t)
        PROVE  Types'
    <3>1. conns' \in [Conns -> ConnRec]
      BY <2>1, ReplayConns
    <3> QED
      BY <2>1, <3>1 DEF Replay, Types
  <2>2. ASSUME NEW t \in Topics, ReplayFails(k, t)
        PROVE  Types'
    <3>1. conns' \in [Conns -> ConnRec]
      BY <2>2, ReplayFailsConns
    <3> QED
      BY <2>2, <3>1 DEF ReplayFails, Types
  <2>3. CASE Subscribe(k) \/ Attach(k) \/ Closed(k)
    <3>1. conns' \in [Conns -> ConnRec] /\ subscribed' \subseteq subscribed \cup WantedOn(k)
      BY <2>3, StreamConns
    <3>2. WantedOn(k) \subseteq Topics
      BY StreamTyped DEF WantedOn
    <3>3. UNCHANGED <<wants, seq, frames, producers, retained, clients, shown, crossed, heard>>
      BY <2>3 DEF Subscribe, Attach, Closed
    <3> QED
      BY <3>1, <3>2, <3>3 DEF Types
  <2> QED
    BY <1>2, <2>1, <2>2, <2>3 DEF Stream
<1>3. ASSUME NEW c \in Clients, Client(c)
      PROVE  Types'
  <2>1. ASSUME NEW k \in Conns, Connect(c, k)
        PROVE  Types'
    <3>1. conns' \in [Conns -> ConnRec]
      BY <2>1, ConnectConns
    <3>2. [clients[c] EXCEPT !.at = "open"] \in ClientRec
      BY StreamTyped DEF ClientRec
    <3>3. clients' \in [Clients -> ClientRec]
      BY <2>1, <3>2 DEF Connect, Types
    <3> QED
      BY <2>1, <3>1, <3>3 DEF Connect, Types
  <2>2. ASSUME NEW k \in Conns, Read(c, k)
        PROVE  Types'
    BY <2>2, ReadTypes
  <2>3. CASE Unauthorized(c)
    <3>1. [clients[c] EXCEPT !.at = "closed"] \in ClientRec
      BY StreamTyped DEF ClientRec
    <3>2. clients' \in [Clients -> ClientRec]
      BY <2>3, <3>1 DEF Unauthorized, Types
    <3> QED
      BY <2>3, <3>2 DEF Unauthorized, Types
  <2>4. CASE Drop(c)
    <3>1. conns' \in [Conns -> ConnRec]
      BY <2>4, CutConns DEF Drop
    <3>2. [clients[c] EXCEPT !.at = "connect"] \in ClientRec
      BY StreamTyped DEF ClientRec
    <3>3. clients' \in [Clients -> ClientRec]
      BY <2>4, <3>2 DEF Drop, Types
    <3> QED
      BY <2>4, <3>1, <3>3 DEF Drop, Types
  <2>5. CASE Remount(c)
    <3>1. conns' \in [Conns -> ConnRec]
      BY <2>5, CutConns DEF Remount
    <3>2. clients' \in [Clients -> ClientRec]
      BY <2>5, FreshTyped DEF Remount, Types
    <3>3. /\ shown' \in [Clients -> Seq(Names)] /\ heard' \subseteq Clients \X Names
          /\ crossed' \subseteq Clients
      BY <2>5 DEF Remount, Types
    <3> QED
      BY <2>5, <3>1, <3>2, <3>3 DEF Remount, Types
  <2> QED
    BY <1>3, <2>1, <2>2, <2>3, <2>4, <2>5 DEF Client
<1>4. CASE InstanceRestarts
  <2>1. conns' \in [Conns -> ConnRec]
    BY <1>4, FreeTyped DEF InstanceRestarts
  <2>2. \A c \in Clients : [clients[c] EXCEPT !.at = "connect"] \in ClientRec
                           /\ clients[c] \in ClientRec
    BY StreamTyped DEF ClientRec
  <2>3. clients' \in [Clients -> ClientRec]
    BY <1>4, <2>2 DEF InstanceRestarts
  <2> QED
    BY <1>4, <2>1, <2>3 DEF InstanceRestarts, Types
<1> QED
  BY <1>1, <1>2, <1>3, <1>4 DEF NextStream

-----------------------------------------------------------------------------
(* Frames: each is taken by one producer, and sent once *)

\* Steps other than those of a producer leave the frames alone.
LEMMA FramesRest ==
    ASSUME NextStream
    PROVE  /\ wants' = wants
           /\ \/ \E p \in Producers : Producer(p)
              \/ UNCHANGED <<seq, frames, producers>>
  BY DEF NextStream, Producer, Stream, Client, InstanceRestarts, Replay, ReplayFails, Subscribe,
         Attach, Closed, Connect, Read, Unauthorized, Drop, Remount, TakeId, PublishFrame, Retain,
         ProducerFails

\* The frames that were there keep their place, channel and id.
FramesStay ==
    /\ Len(frames) <= Len(frames')
    /\ \A f \in 1..Len(frames) : /\ f \in 1..Len(frames') /\ frames'[f] = frames[f]
                                 /\ TopicOf(f)' = TopicOf(f) /\ IdOf(f)' = IdOf(f)
                                 /\ Owner(f)' = Owner(f)

LEMMA SameFramesStay ==
    ASSUME Types, frames' = frames
    PROVE  FramesStay
  BY StreamTyped DEF FramesStay, TopicOf, IdOf, Owner

LEMMA TakenStay ==
    ASSUME Types, NEW p \in Producers, NEW t \in Topics, TakeId(p, t)
    PROVE  FramesStay
<1>1. /\ Len(frames) \in Nat /\ Len(frames') = Len(frames) + 1
      /\ \A f \in 1..Len(frames) : frames'[f] = frames[f]
  BY StreamTyped, Taken
<1>2. \A f \in 1..Len(frames) : f \in 1..Len(frames')
  BY <1>1
<1> QED
  BY <1>1, <1>2 DEF FramesStay, TopicOf, IdOf, Owner

LEMMA OwnFramesStep ==
    ASSUME Types, OwnFrames, NextStream
    PROVE  OwnFrames' /\ FramesStay /\ Sent \subseteq Sent'
<1>1. Len(frames) \in Nat /\ producers \in [Producers -> ProducerRec]
      /\ \A p \in Producers : producers[p] \in ProducerRec
  BY StreamTyped DEF Types
<1>2. ASSUME NEW p \in Producers, NEW t \in Topics, TakeId(p, t)
      PROVE  OwnFrames' /\ FramesStay /\ Sent \subseteq Sent'
    <2>1. producers' = [producers EXCEPT ![p] = [at |-> "publish", frame |-> Len(frames) + 1]]
      BY <1>2 DEF TakeId
    <2>2. Len(frames') = Len(frames) + 1 /\ FramesStay
      BY <1>2, Taken, TakenStay
    <2>3. /\ producers'[p].at = "publish" /\ producers'[p].frame = Len(frames) + 1
          /\ \A q \in Producers \ {p} : producers'[q] = producers[q]
      BY <1>1, <2>1
    <2>4. OwnFrames'
      BY <1>1, <2>2, <2>3 DEF OwnFrames
    <2>5. Sent \subseteq Sent'
      BY <1>1, <2>2, <2>3 DEF Sent
    <2> QED
      BY <2>2, <2>4, <2>5
<1>3. ASSUME NEW p \in Producers, PublishFrame(p)
      PROVE  OwnFrames' /\ frames' = frames /\ Sent \subseteq Sent'
    <2>1. producers' = [producers EXCEPT ![p].at = "retain"] /\ frames' = frames
          /\ producers[p].at = "publish"
      BY <1>3 DEF PublishFrame
    <2>2. /\ producers'[p].at = "retain" /\ producers'[p].frame = producers[p].frame
          /\ \A q \in Producers \ {p} : producers'[q] = producers[q]
      BY <1>1, <2>1 DEF ProducerRec
    <2> QED
      BY <2>1, <2>2 DEF OwnFrames, Sent
<1>4. ASSUME NEW p \in Producers, Retain(p) \/ ProducerFails(p)
      PROVE  OwnFrames' /\ frames' = frames /\ Sent \subseteq Sent'
    <2>1. producers' = [producers EXCEPT ![p] = Quiet] /\ frames' = frames
      BY <1>4 DEF Retain, ProducerFails
    <2>2. /\ producers'[p].at = "idle"
          /\ \A q \in Producers \ {p} : producers'[q] = producers[q]
      BY <1>1, <2>1, QuietTyped
    <2> QED
      BY <2>1, <2>2 DEF OwnFrames, Sent
<1>5. ASSUME UNCHANGED <<seq, frames, producers>>
      PROVE  OwnFrames' /\ frames' = frames /\ Sent \subseteq Sent'
  BY <1>1, <1>5 DEF OwnFrames, Sent
<1> QED
  BY <1>2, <1>3, <1>4, <1>5, FramesRest, SameFramesStay DEF Producer

LEMMA IdsRiseStep ==
    ASSUME Types, IdsRise, NextStream
    PROVE  IdsRise'
<1>1. Len(frames) \in Nat /\ \A f \in 1..Len(frames) : IdOf(f) \in Nat /\ seq[Owner(f)] \in Nat
                                                       /\ Owner(f) \in Tenants
  BY StreamTyped
<1>2. ASSUME NEW p \in Producers, NEW t \in Topics, TakeId(p, t)
      PROVE  IdsRise'
  <2> PICK last \in Nat : last = Len(frames) + 1
    BY <1>1
  <2>1. PICK n \in Tenants : n = TenantOf[t]
    BY StreamConstants
  <2>2. /\ Len(frames') = last /\ frames'[last] = [topic |-> t, id |-> seq[n] + 1]
        /\ seq'[n] = seq[n] + 1 /\ \A m \in Tenants \ {n} : seq'[m] = seq[m]
        /\ seq[n] \in Nat
    BY <1>2, <2>1, Taken DEF Types
  <2>3. Owner(last)' = n /\ IdOf(last)' = seq[n] + 1
    BY <2>1, <2>2 DEF Owner, TopicOf, IdOf
  <2>4. \A f \in 1..Len(frames) : IdOf(f)' = IdOf(f) /\ Owner(f)' = Owner(f)
    BY <1>2, TakenStay DEF FramesStay
  <2>5. \A f \in 1..Len(frames') : f = last \/ f \in 1..Len(frames)
    BY <1>1, <2>2
  <2>6. ASSUME NEW f \in 1..Len(frames)
        PROVE  IdOf(f)' <= seq'[Owner(f)'] /\ (Owner(f)' = n => IdOf(f)' < seq[n] + 1)
    <3>1. IdOf(f) <= seq[Owner(f)]
      BY DEF IdsRise
    <3>2. CASE Owner(f) = n
      BY <1>1, <2>2, <2>4, <3>1, <3>2
    <3>3. CASE Owner(f) # n
      BY <1>1, <2>2, <2>4, <3>1, <3>3
    <3> QED
      BY <3>2, <3>3
  <2>7. ASSUME NEW f \in 1..Len(frames')
        PROVE  IdOf(f)' <= seq'[Owner(f)']
    <3>1. CASE f = last
      BY <2>2, <2>3, <3>1
    <3>2. CASE f \in 1..Len(frames)
      BY <2>6, <3>2
    <3> QED
      BY <2>5, <3>1, <3>2
  <2>8. ASSUME NEW f \in 1..Len(frames'), NEW g \in 1..Len(frames'), f < g, Owner(f)' = Owner(g)'
        PROVE  IdOf(f)' < IdOf(g)'
    <3>1. f \in 1..Len(frames)
      BY <1>1, <2>2, <2>8
    <3>2. CASE g = last
      BY <2>3, <2>6, <2>8, <3>1, <3>2
    <3>3. CASE g \in 1..Len(frames)
      BY <2>4, <2>8, <3>1, <3>3 DEF IdsRise
    <3> QED
      BY <2>5, <3>2, <3>3
  <2> QED
    BY <2>7, <2>8 DEF IdsRise
<1>3. ASSUME UNCHANGED <<seq, frames>>
      PROVE  IdsRise'
  BY <1>3 DEF IdsRise, IdOf, Owner, TopicOf
<1>4. (\E p \in Producers, t \in Topics : TakeId(p, t)) \/ UNCHANGED <<seq, frames>>
  BY FramesRest DEF Producer, PublishFrame, Retain, ProducerFails
<1> QED
  BY <1>2, <1>3, <1>4

\* Frames of a tenant with the same id are the same.
LEMMA SameIdSameFrame ==
    ASSUME Types, IdsRise, NEW f \in 1..Len(frames), NEW g \in 1..Len(frames),
           Owner(f) = Owner(g), IdOf(f) = IdOf(g)
    PROVE  f = g
<1>1. ~(f < g) /\ ~(g < f)
  BY StreamTyped DEF IdsRise
<1> QED
  BY <1>1, StreamTyped

\* Once published, a frame is sent.
LEMMA PublishedIsSent ==
    ASSUME Types, OwnFrames, NextStream, NEW p \in Producers, PublishFrame(p)
    PROVE  producers[p].frame \in Sent'
<1>1. producers' = [producers EXCEPT ![p].at = "retain"] /\ frames' = frames
      /\ producers[p].at = "publish"
  BY DEF PublishFrame
<1>2. producers'[p].at = "retain" /\ \A q \in Producers \ {p} : producers'[q] = producers[q]
  BY <1>1, StreamTyped DEF Types, ProducerRec
<1>3. producers[p].frame \in 1..Len(frames)
  BY <1>1 DEF OwnFrames
<1>4. \A q \in Producers \ {p} :
         producers[q].at = "publish" => producers[q].frame # producers[p].frame
  BY <1>1 DEF OwnFrames
<1>5. \A q \in Producers :
         producers'[q].at = "publish" => producers'[q].frame # producers[p].frame
  BY <1>2, <1>4
<1> QED
  BY <1>1, <1>3, <1>5 DEF Sent

\* What is published in order has a later id than everything of its tenant that was sent.
LEMMA InOrderIsLast ==
    ASSUME Types, IdsRise, OwnFrames, NEW p \in Producers, producers[p].at = "publish",
           InOrder(producers[p].frame), NEW g \in Sent, Owner(g) = Owner(producers[p].frame)
    PROVE  IdOf(g) < IdOf(producers[p].frame)
<1> DEFINE f == producers[p].frame
<1>1. /\ g \in 1..Len(frames) /\ f \in 1..Len(frames) /\ Len(frames) \in Nat
      /\ \A q \in Producers : producers[q].at = "publish" => producers[q].frame # g
  BY StreamTyped DEF Sent, OwnFrames
<1>2. g # f
  BY <1>1
<1>3. ~(g \in f + 1..Len(frames))
  <2>1. SUFFICES ASSUME g \in f + 1..Len(frames)
                 PROVE  FALSE
    OBVIOUS
  <2>2. PICK q \in Producers : producers[q] = [at |-> "publish", frame |-> g]
    BY <2>1 DEF InOrder
  <2> QED
    BY <1>1, <2>2
<1>4. g < f
  BY <1>1, <1>2, <1>3
<1> QED
  BY <1>1, <1>4 DEF IdsRise

-----------------------------------------------------------------------------
(* What lies anywhere has been sent *)

LEMMA SentOnlyRetain ==
    ASSUME Types, OwnFrames, SentOnly, NextStream
    PROVE  \A t \in Topics : \A i \in 1..Len(retained'[t]) : retained'[t][i] \in Sent'
<1>1. Sent \subseteq Sent'
  BY OwnFramesStep
<1>2. \A t \in Topics : \A i \in 1..Len(retained[t]) : retained[t][i] \in Sent
  BY StreamTyped, SeqElements DEF SentOnly
<1>3. CASE UNCHANGED retained
  BY <1>1, <1>2, <1>3
<1>4. ASSUME NEW p \in Producers, Retain(p)
      PROVE  \A t \in Topics : \A i \in 1..Len(retained'[t]) : retained'[t][i] \in Sent'
  <2>1. producers[p].at = "retain"
    BY <1>4, RetainStep
  <2>2. producers[p].frame \in Sent
    BY <2>1 DEF OwnFrames, Sent
  <2>3. \A t \in Topics : \A i \in 1..Len(retained'[t]) :
                 \/ retained'[t][i] = producers[p].frame
                 \/ \E j \in 1..Len(retained[t]) : retained'[t][i] = retained[t][j]
    BY <1>4, RetainStep
  <2> QED
    BY <1>1, <1>2, <2>2, <2>3
<1>5. (\E p \in Producers : Retain(p)) \/ UNCHANGED retained
  BY DEF NextStream, Producer, Stream, Client, InstanceRestarts, Replay, ReplayFails, Subscribe,
         Attach, Closed, Connect, Read, Unauthorized, Drop, Remount, TakeId, PublishFrame,
         ProducerFails
<1> QED
  BY <1>3, <1>4, <1>5

\* What a step leaves in a pipe, where the ids it may add are sent.
LEMMA SentOnlyPipes ==
    ASSUME Types, OwnFrames, SentOnly, NextStream
    PROVE  \A k \in Conns : \A i \in 1..Len(conns'[k].pipe) : conns'[k].pipe[i] \in Sent'
<1>1. Sent \subseteq Sent'
  BY OwnFramesStep
<1>2. \A k \in Conns : /\ conns[k].pipe \in Seq(Names) /\ Len(conns[k].pipe) \in Nat
                       /\ \A i \in 1..Len(conns[k].pipe) : conns[k].pipe[i] \in Sent'
  BY <1>1, StreamTyped, SeqElements DEF SentOnly
<1>3. Len(FreeConn.pipe) = 0
  BY FreeTyped
<1>4. ASSUME NEW p \in Producers, PublishFrame(p), NEW k \in Conns
      PROVE  \A i \in 1..Len(conns'[k].pipe) : conns'[k].pipe[i] \in Sent'
  <2>1. producers[p].frame \in Sent'
    BY <1>4, PublishedIsSent
  <2>2. producers[p].frame \in Names
    BY <1>4, PublishedTyped DEF PublishFrame
  <2>3. PICK s : s = conns[k].pipe
    OBVIOUS
  <2>4. conns'[k].pipe = s \/ conns'[k].pipe = Append(s, producers[p].frame)
    BY <1>4, <2>3, PublishConns
  <2>5. s \in Seq(Names) /\ Len(s) \in Nat /\ \A i \in 1..Len(s) : s[i] \in Sent'
    BY <1>2, <2>3
  <2>6. CASE conns'[k].pipe = s
    BY <2>5, <2>6
  <2>7. CASE conns'[k].pipe = Append(s, producers[p].frame)
    <3>1. Len(Append(s, producers[p].frame)) = Len(s) + 1
          /\ Append(s, producers[p].frame)[Len(s) + 1] = producers[p].frame
          /\ \A i \in 1..Len(s) : Append(s, producers[p].frame)[i] = s[i]
      BY <2>2, <2>5, AppendFacts
    <3>2. \A i \in 1..Len(s) + 1 : i = Len(s) + 1 \/ i \in 1..Len(s)
      BY <2>5
    <3> QED
      BY <2>1, <2>5, <2>7, <3>1, <3>2
  <2> QED
    BY <2>4, <2>6, <2>7
<1>5. ASSUME NEW k \in Conns, NEW t \in Topics, Replay(k, t), NEW l \in Conns
      PROVE  \A i \in 1..Len(conns'[l].pipe) : conns'[l].pipe[i] \in Sent'
  <2>1. PICK events \in OldestFirst(Later(k, t)) :
              /\ conns'[k].pipe = conns[k].pipe \o events
              /\ \A m \in Conns \ {k} : conns'[m] = conns[m]
    BY <1>5, ReplayConns
  <2>2. events \in Seq(Names) /\ \A i \in 1..Len(events) :
              \E j \in 1..Len(retained[t]) : events[i] = retained[t][j]
    BY Events
  <2>3. \A i \in 1..Len(events) : events[i] \in Sent'
    BY <1>1, <2>2 DEF SentOnly
  <2>4. PICK s : s = conns[k].pipe
    OBVIOUS
  <2>5. s \in Seq(Names) /\ Len(s) \in Nat /\ \A i \in 1..Len(s) : s[i] \in Sent'
    BY <1>2, <2>4
  <2>6. /\ Len(s \o events) = Len(s) + Len(events) /\ Len(events) \in Nat
        /\ \A i \in 1..Len(s) : (s \o events)[i] = s[i]
        /\ \A i \in 1..Len(events) : (s \o events)[Len(s) + i] = events[i]
    BY <2>2, <2>5, ConcatFacts
  <2>7. ASSUME NEW i \in 1..Len(s) + Len(events)
        PROVE  (s \o events)[i] \in Sent'
    <3>1. CASE i \in 1..Len(s)
      BY <2>5, <2>6, <3>1
    <3>2. CASE i \notin 1..Len(s)
      <4>1. PICK j \in 1..Len(events) : i = Len(s) + j
        <5>1. i - Len(s) \in 1..Len(events) /\ i = Len(s) + (i - Len(s))
          BY <2>5, <2>6, <3>2
        <5> QED
          BY <5>1
      <4> QED
        BY <2>3, <2>6, <4>1
    <3> QED
      BY <3>1, <3>2
  <2>8. CASE l = k
    BY <2>1, <2>4, <2>6, <2>7, <2>8
  <2>9. CASE l # k
    BY <1>2, <2>1, <2>9
  <2> QED
    BY <2>8, <2>9
<1>6. ASSUME NEW k \in Conns, NEW c \in Clients, Read(c, k), NEW l \in Conns
      PROVE  \A i \in 1..Len(conns'[l].pipe) : conns'[l].pipe[i] \in Sent'
  <2>1. /\ conns'[k].pipe = Tail(conns[k].pipe) /\ conns[k].pipe # <<>>
        /\ \A m \in Conns \ {k} : conns'[m] = conns[m]
    BY <1>6, ReadConns DEF Read
  <2>2. Len(Tail(conns[k].pipe)) = Len(conns[k].pipe) - 1
        /\ \A i \in 1..Len(conns[k].pipe) - 1 : Tail(conns[k].pipe)[i] = conns[k].pipe[i + 1]
    BY <1>2, <2>1, TailFacts
  <2>3. \A i \in 1..Len(conns[k].pipe) - 1 : i + 1 \in 1..Len(conns[k].pipe)
    BY <1>2
  <2>4. CASE l = k
    <3> SUFFICES ASSUME NEW i \in 1..Len(conns'[k].pipe)
                 PROVE  conns'[k].pipe[i] \in Sent'
      BY <2>4
    <3>1. i \in 1..Len(conns[k].pipe) - 1 /\ conns'[k].pipe[i] = conns[k].pipe[i + 1]
      BY <2>1, <2>2
    <3>2. i + 1 \in 1..Len(conns[k].pipe)
      BY <2>3, <3>1
    <3> QED
      BY <1>2, <3>1, <3>2
  <2>5. CASE l # k
    BY <1>2, <2>1, <2>5
  <2> QED
    BY <2>4, <2>5
<1>7. ASSUME NEW l \in Conns, Len(conns'[l].pipe) = 0 \/ conns'[l].pipe = conns[l].pipe
      PROVE  \A i \in 1..Len(conns'[l].pipe) : conns'[l].pipe[i] \in Sent'
  BY <1>2, <1>7
<1>8. ASSUME NEW k \in Conns, Stream(k), NEW l \in Conns
      PROVE  \A i \in 1..Len(conns'[l].pipe) : conns'[l].pipe[i] \in Sent'
  <2>1. ASSUME NEW t \in Topics, ReplayFails(k, t)
        PROVE  conns'[l].pipe = conns[l].pipe
    BY <2>1, ReplayFailsConns
  <2>2. ASSUME Subscribe(k) \/ Attach(k) \/ Closed(k)
        PROVE  Len(conns'[l].pipe) = 0 \/ conns'[l].pipe = conns[l].pipe
    BY <1>3, <2>2, StreamConns
  <2> QED
    BY <1>5, <1>7, <1>8, <2>1, <2>2 DEF Stream
<1>9. ASSUME NEW c \in Clients, Client(c), NEW l \in Conns
      PROVE  \A i \in 1..Len(conns'[l].pipe) : conns'[l].pipe[i] \in Sent'
  <2>1. ASSUME NEW k \in Conns, Connect(c, k)
        PROVE  Len(conns'[l].pipe) = 0 \/ conns'[l].pipe = conns[l].pipe
    BY <2>1, ConnectConns
  <2>2. ASSUME Drop(c) \/ Remount(c)
        PROVE  Len(conns'[l].pipe) = 0 \/ conns'[l].pipe = conns[l].pipe
    BY <2>2, CutConns DEF Drop, Remount
  <2>3. ASSUME Unauthorized(c)
        PROVE  conns'[l].pipe = conns[l].pipe
    BY <2>3 DEF Unauthorized
  <2> QED
    BY <1>6, <1>7, <1>9, <2>1, <2>2, <2>3 DEF Client
<1>10. ASSUME NEW p \in Producers, Producer(p), NEW l \in Conns
       PROVE  \A i \in 1..Len(conns'[l].pipe) : conns'[l].pipe[i] \in Sent'
  <2>1. ASSUME ~PublishFrame(p)
        PROVE  conns'[l].pipe = conns[l].pipe
    BY <1>10, <2>1 DEF Producer, TakeId, Retain, ProducerFails
  <2> QED
    BY <1>4, <1>7, <2>1
<1>11. ASSUME InstanceRestarts, NEW l \in Conns
       PROVE  \A i \in 1..Len(conns'[l].pipe) : conns'[l].pipe[i] \in Sent'
  <2>1. conns'[l] = FreeConn
    BY <1>11 DEF InstanceRestarts
  <2> QED
    BY <1>3, <1>7, <2>1
<1> QED
  BY <1>8, <1>9, <1>10, <1>11 DEF NextStream

\* A page reads, or is mounted anew, or what it read and showed stays as it is.
LEMMA ClientStep ==
    ASSUME Types, NextStream, NEW c \in Clients
    PROVE  \/ \E k \in Conns : Read(c, k)
           \/ Remount(c)
           \/ /\ clients'[c].cursor = clients[c].cursor /\ clients'[c].recent = clients[c].recent
              /\ shown'[c] = shown[c] /\ (c \notin crossed' => c \notin crossed)
<1> DEFINE Rests == /\ clients'[c].cursor = clients[c].cursor
                    /\ clients'[c].recent = clients[c].recent
                    /\ shown'[c] = shown[c] /\ (c \notin crossed' => c \notin crossed)
<1>1. ASSUME NEW d \in Clients, Client(d)
      PROVE  \/ \E k \in Conns : Read(c, k)
             \/ Remount(c) \/ Rests
  <2>1. ASSUME \/ \E k \in Conns : Connect(d, k)
               \/ Unauthorized(d) \/ Drop(d)
        PROVE  Rests
    BY <2>1, PhaseClients DEF Connect, Unauthorized, Drop
  <2>2. ASSUME NEW k \in Conns, Read(d, k), c # d
        PROVE  Rests
    BY <2>2, ReadClients DEF Read
  <2>3. ASSUME Remount(d), c # d
        PROVE  Rests
    BY <2>3 DEF Remount, Types
  <2> QED
    BY <1>1, <2>1, <2>2, <2>3 DEF Client
<1>2. ASSUME InstanceRestarts
      PROVE  Rests
  BY <1>2, StreamTyped DEF InstanceRestarts, ClientRec
<1>3. ASSUME \/ \E p \in Producers : Producer(p)
             \/ \E k \in Conns : Stream(k)
      PROVE  Rests
  BY <1>3 DEF Producer, TakeId, PublishFrame, Retain, ProducerFails, Stream, Replay, ReplayFails,
              Subscribe, Attach, Closed
<1> QED
  BY <1>1, <1>2, <1>3 DEF NextStream

LEMMA Remounted ==
    ASSUME Types, NEW c \in Clients, Remount(c)
    PROVE  clients'[c] = Fresh /\ shown'[c] = <<>>
  BY DEF Remount, Types

\* What a page has shown after it read from k.
LEMMA ReadShown ==
    ASSUME Types, NEW c \in Clients, NEW k \in Conns, Read(c, k)
    PROVE  \A i \in 1..Len(shown'[c]) :
              shown'[c][i] = Arrives(k) \/ (i \in 1..Len(shown[c]) /\ shown'[c][i] = shown[c][i])
<1>1. shown[c] \in Seq(Names) /\ Len(shown[c]) \in Nat /\ Arrives(k) \in Names
  BY StreamTyped, ReadConns
<1>2. CASE shown' = shown
  BY <1>2
<1>3. CASE shown'[c] = Append(shown[c], Arrives(k))
  <2>1. /\ Len(shown'[c]) = Len(shown[c]) + 1 /\ shown'[c][Len(shown[c]) + 1] = Arrives(k)
        /\ \A i \in 1..Len(shown[c]) : shown'[c][i] = shown[c][i]
    BY <1>1, <1>3, AppendFacts
  <2>2. \A i \in 1..Len(shown[c]) + 1 : i = Len(shown[c]) + 1 \/ i \in 1..Len(shown[c])
    BY <1>1
  <2> QED
    BY <2>1, <2>2
<1> QED
  BY <1>2, <1>3, ReadClients

LEMMA SentOnlyShown ==
    ASSUME Types, OwnFrames, SentOnly, NextStream
    PROVE  \A c \in Clients : \A i \in 1..Len(shown'[c]) : shown'[c][i] \in Sent'
<1> SUFFICES ASSUME NEW c \in Clients
             PROVE  \A i \in 1..Len(shown'[c]) : shown'[c][i] \in Sent'
  OBVIOUS
<1>1. Sent \subseteq Sent'
  BY OwnFramesStep
<1>2. ASSUME NEW k \in Conns, Read(c, k)
      PROVE  \A i \in 1..Len(shown'[c]) : shown'[c][i] \in Sent'
  <2>1. Arrives(k) \in Sent'
    BY <1>1, <1>2, ArrivesSent
  <2>2. \A i \in 1..Len(shown[c]) : shown[c][i] \in Sent'
    BY <1>1 DEF SentOnly
  <2> QED
    BY <1>2, <2>1, <2>2, ReadShown
<1>3. CASE Remount(c)
  <2>1. Len(shown'[c]) = 0
    BY <1>3, Remounted
  <2> QED
    BY <2>1
<1>4. CASE shown'[c] = shown[c]
  BY <1>1, <1>4 DEF SentOnly
<1> QED
  BY <1>2, <1>3, <1>4, ClientStep

LEMMA SentOnlyStep ==
    ASSUME Types, OwnFrames, SentOnly, NextStream
    PROVE  SentOnly'
<1>1. Sent \subseteq Sent'
  BY OwnFramesStep
<1>2. ASSUME NEW p \in Producers, PublishFrame(p), NEW x \in heard'
      PROVE  x[2] \in Sent'
  <2>1. x \in heard \/ x[2] = producers[p].frame
    BY <1>2 DEF PublishFrame
  <2>2. producers[p].frame \in Sent'
    BY <1>2, PublishedIsSent
  <2> QED
    BY <1>1, <2>1, <2>2 DEF SentOnly
<1>3. (\E p \in Producers : PublishFrame(p)) \/ heard' \subseteq heard
  BY DEF NextStream, Producer, Stream, Client, InstanceRestarts, Replay, ReplayFails, Subscribe,
         Attach, Closed, Connect, Read, Unauthorized, Drop, Remount, TakeId, Retain, ProducerFails
<1>4. \A x \in heard' : x[2] \in Sent'
  BY <1>1, <1>2, <1>3 DEF SentOnly
<1> QED
  BY <1>4, SentOnlyRetain, SentOnlyPipes, SentOnlyShown DEF SentOnly

LEMMA ForeignStays ==
    ASSUME NextStream, FramesStay, NEW c \in Clients, NEW f \in 1..Len(frames)
    PROVE  Foreign(c, f)' <=> Foreign(c, f)
<1>1. wants' = wants
  BY FramesRest
<1>2. Owner(f)' = Owner(f)
  BY DEF FramesStay
<1> QED
  BY <1>1, <1>2 DEF Foreign

LEMMA OwnOnlyStep ==
    ASSUME Types, OwnFrames, SentOnly, OwnOnly, NextStream
    PROVE  OwnOnly'
<1>1. Sent \subseteq Sent' /\ FramesStay /\ \A f \in Sent : f \in 1..Len(frames)
  BY OwnFramesStep DEF Sent
<1> SUFFICES ASSUME NEW c \in Clients, c \notin crossed'
             PROVE  /\ clients'[c].cursor > 0
                          => \E f \in Sent' : ~Foreign(c, f)' /\ clients'[c].cursor = IdOf(f)'
                    /\ \A i \in 1..Len(shown'[c]) : ~Foreign(c, shown[c][i])'
  BY DEF OwnOnly
<1>2. \A f \in Sent : /\ f \in Sent' /\ IdOf(f)' = IdOf(f)
                      /\ (Foreign(c, f)' <=> Foreign(c, f))
  BY <1>1, ForeignStays DEF FramesStay
<1>3. \A i \in 1..Len(shown[c]) : shown[c][i] \in Sent
  BY DEF SentOnly
<1>4. ASSUME NEW k \in Conns, Read(c, k)
      PROVE  /\ clients'[c].cursor > 0
                   => \E f \in Sent' : ~Foreign(c, f)' /\ clients'[c].cursor = IdOf(f)'
             /\ \A i \in 1..Len(shown'[c]) : ~Foreign(c, shown[c][i])'
  <2>1. c \notin crossed /\ ~Foreign(c, Arrives(k))
    BY <1>4 DEF Read
  <2>2. PICK f \in Sent : f = Arrives(k)
    BY <1>4, ArrivesSent
  <2>3. f \in Sent' /\ ~Foreign(c, f)' /\ clients'[c].cursor = IdOf(f)'
    BY <1>2, <1>4, <2>1, <2>2, ReadClients
  <2>4. ASSUME NEW i \in 1..Len(shown'[c])
        PROVE  ~Foreign(c, shown[c][i])'
    <3>1. PICK g : g = shown'[c][i]
      OBVIOUS
    <3>2. g \in Sent /\ ~Foreign(c, g)
      BY <1>3, <1>4, <2>1, <2>2, <3>1, ReadShown DEF OwnOnly
    <3>3. ~Foreign(c, g)'
      BY <1>2, <3>2
    <3> QED
      BY <3>1, <3>3 DEF Foreign, Owner, TopicOf
  <2> QED
    BY <2>3, <2>4
<1>5. CASE Remount(c)
  <2>1. clients'[c].cursor = 0 /\ Len(shown'[c]) = 0
    BY <1>5, Remounted, FreshTyped
  <2> QED
    BY <2>1
<1>6. CASE /\ clients'[c].cursor = clients[c].cursor
           /\ shown'[c] = shown[c] /\ c \notin crossed
  <2>1. ASSUME NEW i \in 1..Len(shown'[c])
        PROVE  ~Foreign(c, shown[c][i])'
    <3>1. PICK g : g = shown[c][i]
      OBVIOUS
    <3>2. g \in Sent /\ ~Foreign(c, g)
      BY <1>3, <1>6, <3>1 DEF OwnOnly
    <3>3. ~Foreign(c, g)'
      BY <1>2, <3>2
    <3> QED
      BY <1>6, <3>1, <3>3 DEF Foreign, Owner, TopicOf
  <2> QED
    BY <1>2, <1>6, <2>1 DEF OwnOnly
<1> QED
  BY <1>4, <1>5, <1>6, ClientStep

-----------------------------------------------------------------------------
(* The dedup window *)

\* The queue stays the end of what was shown.
LEMMA LastStays ==
    ASSUME NEW recent \in Seq(Nat), NEW s \in Seq(Names), NEW f \in Names, HoldsLast(recent, s),
           NEW id \in Nat, id = IdOf(f)
    PROVE  HoldsLast(Recent(recent, id), Append(s, f))
<1>1. PICK all : all = Append(recent, id)
  OBVIOUS
<1>2. PICK new : new = Append(s, f)
  OBVIOUS
<1>3. /\ all \in Seq(Nat) /\ Len(all) = Len(recent) + 1 /\ all[Len(recent) + 1] = id
      /\ \A i \in 1..Len(recent) : all[i] = recent[i]
  BY <1>1, AppendFacts
<1>4. /\ new \in Seq(Names) /\ Len(new) = Len(s) + 1 /\ new[Len(s) + 1] = f
      /\ \A i \in 1..Len(s) : new[i] = s[i]
  BY <1>2, AppendFacts
<1>5. /\ Len(recent) \in Nat /\ Len(s) \in Nat /\ Window \in Nat \ {0}
      /\ Len(recent) <= Window /\ Len(recent) <= Len(s)
      /\ Len(recent) < Window => Len(recent) = Len(s)
  BY StreamConstants DEF HoldsLast
<1>6. ASSUME NEW i \in 1..Len(recent) + 1
      PROVE  all[i] = IdOf(new[Len(s) - Len(recent) + i])
  <2>1. CASE i = Len(recent) + 1
    <3>1. Len(s) - Len(recent) + i = Len(s) + 1
      BY <1>5, <2>1
    <3> QED
      BY <1>3, <1>4, <2>1, <3>1
  <2>2. CASE i \in 1..Len(recent)
    <3>1. Len(s) - Len(recent) + i \in 1..Len(s)
      BY <1>5, <2>2
    <3>2. recent[i] = IdOf(s[Len(s) - Len(recent) + i])
      BY <2>2 DEF HoldsLast
    <3> QED
      BY <1>3, <1>4, <2>2, <3>1, <3>2
  <2>3. i = Len(recent) + 1 \/ i \in 1..Len(recent)
    BY <1>5
  <2> QED
    BY <2>1, <2>2, <2>3
<1>7. CASE Len(all) > Window
  <2>1. Recent(recent, id) = Tail(all) /\ Len(recent) = Window
    BY <1>1, <1>3, <1>5, <1>7 DEF Recent
  <2>2. all # <<>>
    BY <1>3, <1>5
  <2>3. /\ Len(Tail(all)) = Len(recent)
        /\ \A i \in 1..Len(recent) : Tail(all)[i] = all[i + 1]
    BY <1>3, <1>5, <2>2, TailFacts
  <2>4. ASSUME NEW i \in 1..Len(recent)
        PROVE  Tail(all)[i] = IdOf(new[Len(new) - Len(recent) + i])
    <3>1. i + 1 \in 1..Len(recent) + 1
          /\ Len(s) - Len(recent) + (i + 1) = Len(new) - Len(recent) + i
      BY <1>4, <1>5
    <3> QED
      BY <1>6, <2>3, <3>1
  <2>5. Len(Tail(all)) <= Window /\ Len(Tail(all)) <= Len(new) /\ ~(Len(Tail(all)) < Window)
    BY <1>4, <1>5, <2>1, <2>3
  <2> QED
    BY <1>2, <2>1, <2>3, <2>4, <2>5 DEF HoldsLast
<1>8. CASE ~(Len(all) > Window)
  <2>1. Recent(recent, id) = all
    BY <1>1, <1>8 DEF Recent
  <2>2. Len(all) <= Window /\ Len(all) = Len(new) /\ Len(recent) = Len(s)
    BY <1>3, <1>4, <1>5, <1>8
  <2>3. ASSUME NEW i \in 1..Len(all)
        PROVE  all[i] = IdOf(new[Len(new) - Len(all) + i])
    <3>1. Len(s) - Len(recent) + i = Len(new) - Len(all) + i /\ i \in 1..Len(recent) + 1
      BY <1>3, <1>4, <1>5, <2>2
    <3> QED
      BY <1>6, <3>1
  <2> QED
    BY <1>2, <1>5, <2>1, <2>2, <2>3 DEF HoldsLast
<1> QED
  BY <1>7, <1>8

\* What the queue does not hold is not among the last Window that were shown.
LEMMA OnceStays ==
    ASSUME NEW recent \in Seq(Nat), NEW s \in Seq(Names), NEW f \in Names, HoldsLast(recent, s),
           ~Contains(recent, IdOf(f)), Once(s)
    PROVE  Once(Append(s, f))
<1>1. PICK new : new = Append(s, f)
  OBVIOUS
<1>2. /\ new \in Seq(Names) /\ Len(new) = Len(s) + 1 /\ new[Len(s) + 1] = f
      /\ \A i \in 1..Len(s) : new[i] = s[i]
  BY <1>1, AppendFacts
<1>3. /\ Len(recent) \in Nat /\ Len(s) \in Nat /\ Window \in Nat \ {0}
      /\ Len(recent) <= Window /\ Len(recent) <= Len(s)
      /\ Len(recent) < Window => Len(recent) = Len(s)
  BY StreamConstants DEF HoldsLast
<1>4. SUFFICES ASSUME NEW i \in 1..Len(new), NEW j \in 1..Len(new), i < j, new[i] = new[j]
               PROVE  j - i > Window
  BY <1>1 DEF Once
<1>5. i \in 1..Len(s)
  BY <1>2, <1>3, <1>4
<1>6. CASE j \in 1..Len(s)
  BY <1>2, <1>4, <1>5, <1>6 DEF Once
<1>7. CASE j = Len(s) + 1
  <2>1. s[i] = f
    BY <1>2, <1>4, <1>5, <1>7
  <2>2. ASSUME i > Len(s) - Len(recent)
        PROVE  FALSE
    <3>1. PICK m \in 1..Len(recent) : i = Len(s) - Len(recent) + m
      <4>1. i - (Len(s) - Len(recent)) \in 1..Len(recent)
            /\ i = Len(s) - Len(recent) + (i - (Len(s) - Len(recent)))
        BY <1>3, <1>5, <2>2
      <4> QED
        BY <4>1
    <3>2. recent[m] = IdOf(f)
      BY <2>1, <3>1 DEF HoldsLast
    <3> QED
      BY <3>2 DEF Contains
  <2> QED
    BY <1>3, <1>5, <1>7, <2>2
<1> QED
  BY <1>2, <1>3, <1>6, <1>7

\* What was shown keeps its ids.
LEMMA LastKept ==
    ASSUME FramesStay, NEW recent, NEW s, HoldsLast(recent, s), Len(s) \in Nat, Len(recent) \in Nat,
           \A i \in 1..Len(s) : s[i] \in 1..Len(frames)
    PROVE  HoldsLast(recent, s)'
<1>1. \A i \in 1..Len(recent) : Len(s) - Len(recent) + i \in 1..Len(s)
  BY DEF HoldsLast
<1>2. \A i \in 1..Len(s) : IdOf(s[i])' = IdOf(s[i])
  BY DEF FramesStay
<1> QED
  BY <1>1, <1>2 DEF HoldsLast

LEMMA WindowsStep ==
    ASSUME Types, OwnFrames, SentOnly, Windows, NextStream
    PROVE  Windows'
<1> SUFFICES ASSUME NEW c \in Clients
             PROVE  HoldsLast(clients[c].recent, shown[c])' /\ Once(shown[c])'
  BY DEF Windows
<1>1. PICK recent \in Seq(Nat) : recent = clients[c].recent
  BY StreamTyped
<1>2. PICK s \in Seq(Names) : s = shown[c]
  BY StreamTyped
<1>3. HoldsLast(recent, s) /\ Once(s) /\ Len(s) \in Nat /\ Len(recent) \in Nat
  BY <1>1, <1>2 DEF Windows
<1>4. FramesStay /\ \A i \in 1..Len(s) : s[i] \in 1..Len(frames)
  BY <1>2, OwnFramesStep DEF SentOnly, Sent
<1>5. HoldsLast(recent, s)'
  BY <1>3, <1>4, LastKept
<1>6. CASE clients'[c].recent = recent /\ shown'[c] = s
  BY <1>3, <1>5, <1>6 DEF HoldsLast, Once, IdOf
<1>7. ASSUME NEW k \in Conns, Read(c, k), ~Contains(recent, IdOf(Arrives(k)))
      PROVE  HoldsLast(clients[c].recent, shown[c])' /\ Once(shown[c])'
  <2>1. PICK f \in Names : f = Arrives(k)
    BY <1>7, ReadConns
  <2>2. PICK id \in Nat : id = IdOf(f)
    BY <1>7, <2>1, ArrivesSent
  <2>3. PICK last : last = Recent(recent, id)
    OBVIOUS
  <2>4. PICK new : new = Append(s, f)
    OBVIOUS
  <2>5. clients'[c].recent = last /\ shown'[c] = new /\ frames' = frames
    BY <1>1, <1>2, <1>7, <2>1, <2>2, <2>3, <2>4, ReadClients DEF Read
  <2>6. HoldsLast(last, new)
    BY <1>3, <2>2, <2>3, <2>4, LastStays
  <2>7. Once(new)
    BY <1>3, <1>7, <2>1, <2>4, OnceStays
  <2> QED
    BY <2>5, <2>6, <2>7 DEF HoldsLast, Once, IdOf
<1>8. ASSUME NEW k \in Conns, Read(c, k), Contains(recent, IdOf(Arrives(k)))
      PROVE  clients'[c].recent = recent /\ shown'[c] = s
  BY <1>1, <1>2, <1>8, ReadClients
<1>9. CASE Remount(c)
  <2>1. clients'[c].recent = <<>> /\ shown'[c] = <<>>
    BY <1>9, Remounted, FreshTyped
  <2> QED
    BY <2>1, StreamConstants DEF HoldsLast, Once
<1> QED
  BY <1>1, <1>2, <1>6, <1>7, <1>8, <1>9, ClientStep

-----------------------------------------------------------------------------
(* One stream for each client *)

LEMMA OneStreamStep ==
    ASSUME Types, OwnFrames, SentOnly, OneStream, NextStream
    PROVE  OneStream'
<1>1. wants' = wants
  BY FramesRest
\* A response that stays as it was, to a client that stays open, or is freed or cut.
<1> DEFINE Follows(k) == \/ conns'[k] = FreeConn
                         \/ /\ conns'[k].client = conns[k].client
                            /\ conns'[k].todo \subseteq conns[k].todo
                            /\ conns[k].cut => conns'[k].cut
                            /\ conns'[k].closed => conns[k].closed \/ conns'[k].cut
<1>2. ASSUME \A k \in Conns : Follows(k),
             \A c \in Clients : \/ clients'[c].at = clients[c].at
                                \/ \A k \in Conns : ~Reads(c, k)'
      PROVE  OneStream'
  <2>1. ASSUME NEW c \in Clients, NEW k \in Conns, Reads(c, k)'
        PROVE  Reads(c, k) /\ clients'[c].at = "open"
    <3>1. conns'[k] # FreeConn
      BY <2>1, FreeTyped DEF Reads
    <3>2. Reads(c, k)
      BY <1>2, <2>1, <3>1 DEF Reads
    <3> QED
      BY <1>2, <2>1, <3>2 DEF OneStream
  <2>2. ASSUME NEW k \in Conns
        PROVE  /\ conns'[k].closed => conns'[k].cut
               /\ \A c \in conns'[k].client : conns'[k].todo \subseteq wants'[c]
               /\ \A c, d \in conns'[k].client : c = d
    <3>1. CASE conns'[k] = FreeConn
      BY <3>1, FreeTyped
    <3>2. CASE conns'[k] # FreeConn
      BY <1>1, <1>2, <3>2 DEF OneStream
    <3> QED
      BY <3>1, <3>2
  <2>3. \A c \in Clients : \A k, l \in Conns : Reads(c, k)' /\ Reads(c, l)' => k = l
    BY <2>1 DEF OneStream
  <2> QED
    BY <2>1, <2>2, <2>3 DEF OneStream
<1>3. ASSUME \A k \in Conns : Follows(k), UNCHANGED clients
      PROVE  OneStream'
  BY <1>2, <1>3
<1> HIDE DEF Follows
<1>4. ASSUME NEW p \in Producers, Producer(p)
      PROVE  OneStream'
  <2>1. CASE PublishFrame(p)
    <3>1. \A k \in Conns : Follows(k)
      BY <2>1, PublishConns DEF Follows, SameRequest
    <3> QED
      BY <1>3, <2>1, <3>1 DEF PublishFrame
  <2>2. CASE ~PublishFrame(p)
    <3>1. UNCHANGED <<conns, clients>>
      BY <1>4, <2>2 DEF Producer, TakeId, Retain, ProducerFails
    <3>2. \A k \in Conns : Follows(k)
      BY <3>1 DEF Follows
    <3> QED
      BY <1>3, <3>1, <3>2
  <2> QED
    BY <2>1, <2>2
<1>5. ASSUME NEW k \in Conns, Stream(k)
      PROVE  OneStream'
  <2>1. UNCHANGED clients
    BY <1>5 DEF Stream, Replay, ReplayFails, Subscribe, Attach, Closed
  <2>2. ASSUME NEW t \in Topics, Replay(k, t), NEW l \in Conns
        PROVE  Follows(l)
    BY <2>2, ReplayConns DEF Follows, SameRequest
  <2>3. ASSUME NEW t \in Topics, ReplayFails(k, t), NEW l \in Conns
        PROVE  Follows(l)
    BY <2>3, ReplayFailsConns DEF Follows, SameRequest
  <2>4. ASSUME Subscribe(k) \/ Attach(k) \/ Closed(k), NEW l \in Conns
        PROVE  Follows(l)
    BY <2>4, StreamConns DEF Follows, SameRequest
  <2>5. \A l \in Conns : Follows(l)
    BY <1>5, <2>2, <2>3, <2>4 DEF Stream
  <2> QED
    BY <1>3, <2>1, <2>5
<1>6. ASSUME NEW c \in Clients, NEW k \in Conns, Connect(c, k)
      PROVE  OneStream'
  <2>1. clients[c].at = "connect" /\ clients' = [clients EXCEPT ![c].at = "open"]
    BY <1>6 DEF Connect
  <2>2. clients'[c].at = "open" /\ \A d \in Clients \ {c} : clients'[d] = clients[d]
    BY <2>1, PhaseClients
  <2>3. \A l \in Conns : ~Reads(c, l)
    BY <2>1 DEF OneStream
  <2>4. /\ conns'[k].client = {c} /\ ~conns'[k].closed /\ conns'[k].todo \subseteq wants[c]
        /\ \A l \in Conns \ {k} : conns'[l] = conns[l]
    BY <1>6, ConnectConns
  <2>5. ASSUME NEW d \in Clients, NEW l \in Conns, Reads(d, l)'
        PROVE  (d = c /\ l = k) \/ (d # c /\ l # k /\ Reads(d, l))
    BY <2>3, <2>4, <2>5 DEF Reads
  <2>6. \A d \in Clients : \A l \in Conns : Reads(d, l)' => clients'[d].at = "open"
    BY <2>2, <2>5 DEF OneStream
  <2>7. \A d \in Clients : \A l, m \in Conns : Reads(d, l)' /\ Reads(d, m)' => l = m
    BY <2>5 DEF OneStream
  <2>8. \A l \in Conns : /\ conns'[l].closed => conns'[l].cut
                         /\ \A d \in conns'[l].client : conns'[l].todo \subseteq wants'[d]
                         /\ \A d, e \in conns'[l].client : d = e
    BY <1>1, <2>4 DEF OneStream
  <2> QED
    BY <2>6, <2>7, <2>8 DEF OneStream
<1>7. ASSUME NEW c \in Clients, NEW k \in Conns, Read(c, k)
      PROVE  OneStream'
  <2>1. \A l \in Conns : Follows(l)
    BY <1>7, ReadConns DEF Follows, SameRequest
  <2>2. \A d \in Clients : clients'[d].at = clients[d].at
    BY <1>7, ReadClients
  <2> QED
    BY <1>2, <2>1, <2>2
<1>8. ASSUME NEW c \in Clients, Unauthorized(c)
      PROVE  OneStream'
  <2>1. clients[c].at = "connect" /\ UNCHANGED conns
        /\ \A d \in Clients \ {c} : clients'[d] = clients[d]
    BY <1>8, PhaseClients DEF Unauthorized
  <2>2. \A k \in Conns : ~Reads(c, k)'
    BY <2>1 DEF OneStream, Reads
  <2>3. \A l \in Conns : Follows(l)
    BY <2>1 DEF Follows
  <2> QED
    BY <1>2, <2>1, <2>2, <2>3
<1>9. ASSUME NEW c \in Clients, Drop(c) \/ Remount(c)
      PROVE  OneStream'
  <2>1. Cut(c)
    BY <1>9 DEF Drop, Remount
  <2>2. \A k \in Conns : Follows(k)
    BY <2>1, CutConns DEF Follows
  <2>3. \A k \in Conns : ~Reads(c, k)'
    BY <2>1, CutConns DEF Reads
  <2>4. \A d \in Clients \ {c} : clients'[d] = clients[d]
    BY <1>9, PhaseClients DEF Drop, Remount, Types
  <2> QED
    BY <1>2, <2>2, <2>3, <2>4
<1>10. CASE InstanceRestarts
  <2>1. \A k \in Conns : conns'[k] = FreeConn
    BY <1>10 DEF InstanceRestarts
  <2>2. \A k \in Conns : Follows(k)
    BY <2>1 DEF Follows
  <2>3. \A c \in Clients : \A k \in Conns : ~Reads(c, k)'
    BY <2>1, FreeTyped DEF Reads
  <2> QED
    BY <1>2, <2>2, <2>3
<1> QED
  BY <1>4, <1>5, <1>6, <1>7, <1>8, <1>9, <1>10 DEF NextStream, Client

-----------------------------------------------------------------------------
(* What comes in a pipe *)

\* Whatever is written behind it.
LEMMA ComesStill ==
    ASSUME Types, SentOnly, FramesStay, NEW k \in Conns, NEW f \in 1..Len(frames), Coming(k, f),
           Len(conns[k].pipe) <= Len(conns'[k].pipe),
           \A i \in 1..Len(conns[k].pipe) : conns'[k].pipe[i] = conns[k].pipe[i],
           Len(conns'[k].pipe) \in Nat
    PROVE  Coming(k, f)'
<1>1. PICK s \in Seq(Names) : s = conns[k].pipe
  BY StreamTyped
<1>2. PICK i \in 1..Len(s) :
         s[i] = f /\ \A j \in 1..i-1 : Owner(s[j]) = Owner(f) => IdOf(s[j]) < IdOf(f)
  BY <1>1 DEF Coming, ComesIn
<1>3. PICK r : r = conns'[k].pipe
  OBVIOUS
<1>4. i \in 1..Len(r) /\ r[i] = f /\ \A j \in 1..i-1 : j \in 1..Len(s) /\ r[j] = s[j]
  <2>1. Len(s) \in Nat /\ Len(r) \in Nat /\ Len(s) <= Len(r)
    BY <1>1, <1>3
  <2>2. i \in 1..Len(r) /\ \A j \in 1..i-1 : j \in 1..Len(s)
    BY <1>2, <2>1
  <2>3. \A j \in 1..Len(s) : r[j] = s[j]
    BY <1>1, <1>3
  <2> QED
    BY <1>2, <2>2, <2>3
<1>5. \A j \in 1..Len(s) : s[j] \in 1..Len(frames)
  BY <1>1 DEF SentOnly, Sent
<1>6. \A g \in 1..Len(frames) : Owner(g)' = Owner(g) /\ IdOf(g)' = IdOf(g)
  BY DEF FramesStay
<1>7. \A j \in 1..i-1 : Owner(s[j])' = Owner(s[j]) /\ IdOf(s[j])' = IdOf(s[j])
  BY <1>4, <1>5, <1>6
<1>8. Owner(f)' = Owner(f) /\ IdOf(f)' = IdOf(f)
  BY <1>6
<1>9. \A j \in 1..i-1 : Owner(r[j])' = Owner(f)' => IdOf(r[j])' < IdOf(f)'
  <2> TAKE j \in 1..i-1
  <2>1. PICK g : g = s[j] /\ g = r[j]
    BY <1>4
  <2>2. Owner(g)' = Owner(f)' => IdOf(g)' < IdOf(f)'
    BY <1>2, <1>7, <1>8, <2>1
  <2> QED
    BY <2>1, <2>2
<1> QED
  BY <1>3, <1>4, <1>9 DEF Coming, ComesIn

LEMMA ComesLast ==
    ASSUME Types, frames' = frames, NEW k \in Conns, NEW f \in Names,
           conns'[k].pipe = Append(conns[k].pipe, f),
           \A j \in 1..Len(conns[k].pipe) :
              Owner(conns[k].pipe[j]) = Owner(f) => IdOf(conns[k].pipe[j]) < IdOf(f)
    PROVE  Coming(k, f)'
<1>1. PICK s \in Seq(Names) : s = conns[k].pipe
  BY StreamTyped
<1>2. PICK r : r = conns'[k].pipe
  OBVIOUS
<1>3. /\ Len(r) = Len(s) + 1 /\ r[Len(s) + 1] = f /\ Len(s) \in Nat
      /\ \A j \in 1..Len(s) : r[j] = s[j]
  BY <1>1, <1>2, AppendFacts
<1>4. Len(s) + 1 \in 1..Len(r) /\ \A j \in 1..(Len(s) + 1) - 1 : j \in 1..Len(s)
  BY <1>3
<1>5. \A j \in 1..(Len(s) + 1) - 1 : Owner(r[j]) = Owner(f) => IdOf(r[j]) < IdOf(f)
  BY <1>1, <1>3, <1>4
<1> QED
  BY <1>2, <1>3, <1>4, <1>5 DEF Coming, ComesIn, Owner, TopicOf, IdOf

\* What is read before it is of another tenant, or has a smaller id.
LEMMA ComesNext ==
    ASSUME Types, frames' = frames, NEW k \in Conns, NEW f \in Names, Coming(k, f),
           conns'[k].pipe = Tail(conns[k].pipe), NEW g, g = conns[k].pipe[1]
    PROVE  \/ g = f
           \/ (Owner(g) = Owner(f) => IdOf(g) < IdOf(f)) /\ Coming(k, f)'
<1>1. PICK s \in Seq(Names) : s = conns[k].pipe
  BY StreamTyped
<1>2. PICK i \in 1..Len(s) :
         s[i] = f /\ \A j \in 1..i-1 : Owner(s[j]) = Owner(f) => IdOf(s[j]) < IdOf(f)
  BY <1>1 DEF Coming, ComesIn
<1>3. s # <<>> /\ Len(s) \in Nat
  BY <1>2
<1>4. PICK r : r = conns'[k].pipe
  OBVIOUS
<1>5. /\ Len(r) = Len(s) - 1
      /\ \A j \in 1..Len(s) - 1 : r[j] = s[j + 1]
  BY <1>1, <1>3, <1>4, TailFacts
<1>6. CASE i = 1
  BY <1>1, <1>2, <1>6
<1>7. CASE i # 1
  <2>1. 1 \in 1..i-1 /\ i - 1 \in 1..Len(s) - 1 /\ (i - 1) + 1 = i
    BY <1>3, <1>7
  <2>2. r[i - 1] = f /\ i - 1 \in 1..Len(r)
    BY <1>2, <1>5, <2>1
  <2>3. ASSUME NEW j \in 1..(i - 1) - 1
        PROVE  Owner(r[j]) = Owner(f) => IdOf(r[j]) < IdOf(f)
    <3>1. j \in 1..Len(s) - 1 /\ j + 1 \in 1..i-1
      BY <1>3, <2>1
    <3> QED
      BY <1>2, <1>5, <3>1
  <2>4. Coming(k, f)'
    BY <1>4, <2>2, <2>3 DEF Coming, ComesIn, Owner, TopicOf, IdOf
  <2> QED
    BY <1>1, <1>2, <2>1, <2>4
<1> QED
  BY <1>6, <1>7

LEMMA ComesInEvents ==
    ASSUME frames' = frames, NEW k \in Conns, NEW s \in Seq(Names), NEW f \in Names,
           \A i, j \in 1..Len(s) : i < j => IdOf(s[i]) < IdOf(s[j]),
           NEW n \in 1..Len(s), s[n] = f, conns'[k].pipe = <<>> \o s
    PROVE  Coming(k, f)'
<1>1. <<>> \o s = s /\ Len(s) \in Nat
  OBVIOUS
<1>2. \A j \in 1..n-1 : j \in 1..Len(s) /\ j < n
  BY <1>1
<1>3. \A j \in 1..n-1 : IdOf(s[j]) < IdOf(f)
  BY <1>2
<1>4. conns'[k].pipe = s
  BY <1>1
<1> QED
  BY <1>3, <1>4 DEF Coming, ComesIn, IdOf

-----------------------------------------------------------------------------
(* What was heard *)

\* A response that c reads still has the frame coming, if it had, or will replay it.
Remains(c, k, f) ==
    Reads(c, k)' => /\ Reads(c, k)
                    /\ Coming(k, f) => Coming(k, f)'
                    /\ Awaits(c, k, f) => Coming(k, f)' \/ Awaits(c, k, f)'

LEMMA KeptStays ==
    ASSUME FramesStay, NEW c \in Clients, NEW f \in 1..Len(frames), Kept(c, f),
           shown'[c] = shown[c], clients'[c].cursor = clients[c].cursor,
           \A k \in Conns : Remains(c, k, f)
    PROVE  Kept(c, f)'
<1>1. IdOf(f)' = IdOf(f)
  BY DEF FramesStay
<1> QED
  BY <1>1 DEF Kept, Remains

LEMMA ShownIsKept ==
    ASSUME NEW c \in Clients, NEW f, NEW i \in 1..Len(shown'[c]), shown'[c][i] = f
    PROVE  Kept(c, f)'
  BY DEF Kept

LEMMA UntouchedRemains ==
    ASSUME Types, SentOnly, FramesStay, NEW c \in Clients, NEW k \in Conns,
           NEW f \in 1..Len(frames), conns'[k] = conns[k], clients'[c].cursor = clients[c].cursor
    PROVE  Remains(c, k, f)
<1>1. Len(conns[k].pipe) \in Nat
  BY StreamTyped
<1>2. Coming(k, f) => Coming(k, f)'
  BY <1>1, ComesStill
<1>3. TopicOf(f)' = TopicOf(f)
  BY DEF FramesStay
<1>4. Awaits(c, k, f) => Awaits(c, k, f)'
  BY <1>3 DEF Awaits
<1> QED
  BY <1>2, <1>4 DEF Remains, Reads

\* A page does not lose what it heard, or the frames of other tenants, before it is
\* mounted anew.
LEMMA CrossedStays ==
    ASSUME StreamInv, NextStream, NEW c \in Clients, c \notin crossed', NEW f \in Names,
           <<c, f>> \in heard'
    PROVE  c \notin crossed
<1>1. ASSUME NEW d \in Clients, Remount(d)
      PROVE  c \notin crossed
  <2>1. heard' = {x \in heard : x[1] # d} /\ crossed' = crossed \ {d}
    BY <1>1 DEF Remount
  <2>2. c # d
    BY <2>1
  <2> QED
    BY <2>1, <2>2
<1>2. (\E d \in Clients : Remount(d)) \/ crossed \subseteq crossed'
  BY DEF NextStream, Producer, Stream, Client, InstanceRestarts, Replay, ReplayFails, Subscribe,
         Attach, Closed, Connect, Read, Unauthorized, Drop, TakeId, PublishFrame, Retain,
         ProducerFails
<1> QED
  BY <1>1, <1>2

LEMMA HeardFacts ==
    ASSUME StreamInv, NextStream, NEW c \in Clients, NEW f \in Names, <<c, f>> \in heard
    PROVE  /\ f \in 1..Len(frames) /\ FramesStay /\ clients[c].cursor > 0
           /\ c \notin crossed /\ wants[c] = {TopicOf(f)} => Kept(c, f)
<1>1. f \in Sent
  BY DEF StreamInv, SentOnly
<1>2. f \in 1..Len(frames)
  BY <1>1 DEF Sent
<1> QED
  BY <1>2, OwnFramesStep DEF StreamInv, HeardKept

\* Where one channel is wanted, its tenant is the only one that is not foreign.
LEMMA OneTenant ==
    ASSUME NEW c \in Clients, NEW f, wants[c] = {TopicOf(f)}, NEW g
    PROVE  Foreign(c, g) <=> Owner(g) # Owner(f)
  BY DEF Foreign, Owner

LEMMA KeptPublish ==
    ASSUME StreamInv, NextStream, NEW p \in Producers, PublishFrame(p), NEW c \in Clients,
           c \notin crossed, NEW f \in Names, <<c, f>> \in heard', wants[c] = {TopicOf(f)}
    PROVE  Kept(c, f)'
<1>1. /\ producers[p].at = "publish" /\ frames' = frames /\ clients' = clients /\ shown' = shown
      /\ heard' = heard \cup {<<d, producers[p].frame>> : d \in {d \in Clients :
                        InOrder(producers[p].frame) /\ clients[d].cursor > 0
                        /\ \E k \in Reached(p) : Reads(d, k)}}
  BY DEF PublishFrame, Reached
<1>2. Types /\ OwnFrames /\ SentOnly /\ OneStream /\ IdsRise /\ OwnOnly
  BY DEF StreamInv
<1>3. \A k \in Conns : /\ SameRequest(k) /\ conns'[k].at = conns[k].at
                       /\ conns'[k].todo = conns[k].todo
                       /\ IF k \in Reached(p) /\ ~conns[k].cut
                          THEN conns'[k].pipe = Append(conns[k].pipe, producers[p].frame)
                          ELSE conns'[k].pipe = conns[k].pipe
  BY <1>2, PublishConns
<1>4. producers[p].frame \in Names /\ producers[p].frame \in 1..Len(frames)
  BY <1>1, <1>2, PublishedTyped
<1>5. CASE <<c, f>> \in heard
  <2>1. Kept(c, f) /\ f \in 1..Len(frames) /\ FramesStay
    BY <1>5, HeardFacts
  <2>2. ASSUME NEW k \in Conns
        PROVE  Remains(c, k, f)
    <3>1. /\ Len(conns'[k].pipe) \in Nat /\ Len(conns[k].pipe) <= Len(conns'[k].pipe)
          /\ \A i \in 1..Len(conns[k].pipe) : conns'[k].pipe[i] = conns[k].pipe[i]
      <4>1. conns[k].pipe \in Seq(Names)
        BY <1>2, StreamTyped
      <4>2. CASE conns'[k].pipe = Append(conns[k].pipe, producers[p].frame)
        BY <1>4, <4>1, <4>2, AppendFacts
      <4>3. CASE conns'[k].pipe = conns[k].pipe
        BY <4>1, <4>3
      <4> QED
        BY <1>3, <4>2, <4>3
    <3>2. Coming(k, f) => Coming(k, f)'
      BY <1>2, <2>1, <3>1, ComesStill
    <3>3. Awaits(c, k, f) => Awaits(c, k, f)'
      BY <1>1, <1>3 DEF Awaits, SameRequest, Reached, Listens, TopicOf
    <3> QED
      BY <1>3, <3>2, <3>3 DEF Remains, Reads, SameRequest
  <2> QED
    BY <1>1, <2>1, <2>2, KeptStays
<1>6. CASE <<c, f>> \notin heard
  <2>1. PICK k \in Reached(p) : /\ f = producers[p].frame /\ InOrder(f)
                                /\ clients[c].cursor > 0 /\ Reads(c, k)
    BY <1>1, <1>6
  <2>2. \A g \in Sent : Owner(g) = Owner(f) => IdOf(g) < IdOf(f)
    BY <1>1, <1>2, <2>1, InOrderIsLast
  <2>3. clients[c].cursor < IdOf(f)
    BY <1>2, <2>1, <2>2, OneTenant DEF OwnOnly
  <2>4. ASSUME NEW l \in Conns, Reads(c, l)'
        PROVE  Coming(l, f)'
    <3>1. Reads(c, l)
      BY <1>3, <2>4 DEF Reads, SameRequest
    <3>2. l = k /\ k \in Conns /\ ~conns[k].cut
      BY <1>2, <2>1, <3>1 DEF OneStream, Reached, Reads
    <3>3. conns'[l].pipe = Append(conns[l].pipe, f)
      BY <1>3, <2>1, <3>2
    <3>4. \A i \in 1..Len(conns[l].pipe) : Owner(conns[l].pipe[i]) = Owner(f)
                                             => IdOf(conns[l].pipe[i]) < IdOf(f)
      BY <1>2, <2>2 DEF SentOnly
    <3> QED
      BY <1>1, <1>2, <3>3, <3>4, ComesLast
  <2> QED
    BY <1>1, <2>3, <2>4 DEF Kept, IdOf
<1> QED
  BY <1>5, <1>6

LEMMA KeptReplay ==
    ASSUME StreamInv, NextStream, NEW k \in Conns, NEW t \in Topics, Replay(k, t),
           NEW c \in Clients, c \notin crossed, NEW f \in Names, <<c, f>> \in heard',
           wants[c] = {TopicOf(f)}
    PROVE  Kept(c, f)'
<1>1. /\ conns[k].at = "replay" /\ t \in conns[k].todo /\ clients' = clients /\ shown' = shown
      /\ heard' = heard \ UNION {Missed(d, t, ToSet(retained[t])) : d \in conns[k].client}
      /\ <<c, f>> \in heard /\ frames' = frames
  BY DEF Replay
<1>2. Types /\ OwnFrames /\ OneStream /\ SentOnly
  BY DEF StreamInv
<1>3. Kept(c, f) /\ f \in 1..Len(frames) /\ FramesStay
  BY <1>1, HeardFacts
<1>4. PICK events \in OldestFirst(Later(k, t)) :
              /\ SameRequest(k) /\ conns'[k].pipe = conns[k].pipe \o events
              /\ \A l \in Conns \ {k} : conns'[l] = conns[l]
  BY <1>2, ReplayConns
<1>5. /\ events \in Seq(Names)
      /\ \A j \in 1..Len(retained[t]) : IdOf(retained[t][j]) > conns[k].cursor
            => \E i \in 1..Len(events) : events[i] = retained[t][j]
      /\ \A i, j \in 1..Len(events) : i < j => IdOf(events[i]) < IdOf(events[j])
  BY <1>2, Events
<1>6. CASE Reads(c, k) /\ Awaits(c, k, f) /\ clients[c].cursor < IdOf(f)
  <2>1. c \in conns[k].client /\ t = TopicOf(f)
    BY <1>1, <1>2, <1>6 DEF Reads, OneStream
  <2>2. f \in ToSet(retained[t]) \/ Contains(shown[c], f)
    BY <1>1, <2>1 DEF Missed
  <2>3. CASE Contains(shown[c], f)
    BY <1>1, <2>3 DEF Kept, Contains
  <2>4. CASE f \in ToSet(retained[t])
    <3>1. PICK j \in 1..Len(retained[t]) : retained[t][j] = f
      BY <1>2, <2>4, StreamTyped, SeqElements DEF ToSet
    <3>2. conns[k].pipe = <<>> /\ conns[k].cursor < IdOf(f)
      BY <1>6 DEF Awaits
    <3>3. conns[k].cursor \in Nat /\ IdOf(f) \in Nat
      BY <1>2, <1>3, StreamTyped
    <3>4. PICK n \in 1..Len(events) : events[n] = f
      BY <1>5, <3>1, <3>2, <3>3
    <3>5. conns'[k].pipe = <<>> \o events
      BY <1>4, <3>2
    <3>6. Coming(k, f)'
      BY <1>1, <1>5, <3>4, <3>5, ComesInEvents
    <3>7. \A l \in Conns : Reads(c, l)' => l = k
      BY <1>2, <1>4, <1>6 DEF OneStream, Reads
    <3> QED
      BY <1>1, <1>6, <3>6, <3>7 DEF Kept, IdOf
  <2> QED
    BY <2>2, <2>3, <2>4
<1>7. CASE ~(Reads(c, k) /\ Awaits(c, k, f) /\ clients[c].cursor < IdOf(f))
  <2>1. Coming(k, f) => Coming(k, f)'
    <3>1. conns[k].pipe \in Seq(Names)
      BY <1>2, StreamTyped
    <3>2. /\ Len(conns'[k].pipe) \in Nat /\ Len(conns[k].pipe) <= Len(conns'[k].pipe)
          /\ \A i \in 1..Len(conns[k].pipe) : conns'[k].pipe[i] = conns[k].pipe[i]
      <4>1. PICK s \in Seq(Names) : s = conns[k].pipe
        BY <3>1
      <4>2. /\ Len(s \o events) = Len(s) + Len(events)
            /\ \A i \in 1..Len(s) : (s \o events)[i] = s[i]
        BY <1>5, ConcatFacts
      <4>3. Len(s) \in Nat /\ Len(events) \in Nat
        BY <1>5
      <4> QED
        BY <1>4, <4>1, <4>2, <4>3
    <3> QED
      BY <1>2, <1>3, <3>2, ComesStill
  <2>2. CASE clients[c].cursor < IdOf(f)
    <3>1. Remains(c, k, f)
      BY <1>4, <1>7, <2>1, <2>2 DEF Remains, Reads, SameRequest
    <3>2. \A l \in Conns \ {k} : Remains(c, l, f)
      BY <1>1, <1>2, <1>3, <1>4, UntouchedRemains
    <3> QED
      BY <1>1, <1>3, <3>1, <3>2, KeptStays
  <2>3. CASE ~(clients[c].cursor < IdOf(f))
    BY <1>1, <1>3, <2>3 DEF Kept
  <2> QED
    BY <2>2, <2>3
<1> QED
  BY <1>6, <1>7

LEMMA KeptReplayFails ==
    ASSUME StreamInv, NextStream, NEW k \in Conns, NEW t \in Topics, ReplayFails(k, t),
           NEW c \in Clients, c \notin crossed, NEW f \in Names, <<c, f>> \in heard',
           wants[c] = {TopicOf(f)}
    PROVE  Kept(c, f)'
<1>1. /\ t \in conns[k].todo /\ clients' = clients /\ shown' = shown
      /\ heard' = heard \ UNION {Missed(d, t, {}) : d \in conns[k].client}
      /\ <<c, f>> \in heard
  BY DEF ReplayFails
<1>2. Types /\ OwnFrames /\ OneStream /\ SentOnly
  BY DEF StreamInv
<1>3. Kept(c, f) /\ f \in 1..Len(frames) /\ FramesStay
  BY <1>1, HeardFacts
<1>4. /\ SameRequest(k) /\ conns'[k].pipe = conns[k].pipe
      /\ \A l \in Conns \ {k} : conns'[l] = conns[l]
  BY <1>2, ReplayFailsConns
<1>5. CASE Reads(c, k)
  <2>1. c \in conns[k].client /\ (t = TopicOf(f))
    BY <1>1, <1>2, <1>5 DEF Reads, OneStream
  <2>2. Contains(shown[c], f)
    BY <1>1, <2>1 DEF Missed
  <2> QED
    BY <1>1, <2>2 DEF Kept, Contains
<1>6. CASE ~Reads(c, k)
  <2>1. Remains(c, k, f)
    BY <1>4, <1>6 DEF Remains, Reads, SameRequest
  <2>2. \A l \in Conns \ {k} : Remains(c, l, f)
    BY <1>1, <1>2, <1>3, <1>4, UntouchedRemains
  <2> QED
    BY <1>1, <1>3, <2>1, <2>2, KeptStays
<1> QED
  BY <1>5, <1>6

LEMMA KeptConnect ==
    ASSUME StreamInv, NextStream, NEW d \in Clients, NEW k \in Conns, Connect(d, k),
           NEW c \in Clients, c \notin crossed, NEW f \in Names, <<c, f>> \in heard',
           wants[c] = {TopicOf(f)}
    PROVE  Kept(c, f)'
<1>1. /\ clients[d].at = "connect" /\ clients' = [clients EXCEPT ![d].at = "open"]
      /\ shown' = shown /\ <<c, f>> \in heard /\ frames' = frames
  BY DEF Connect
<1>2. Types /\ OwnFrames /\ OneStream /\ SentOnly
  BY DEF StreamInv
<1>3. Kept(c, f) /\ clients[c].cursor > 0 /\ f \in 1..Len(frames) /\ FramesStay
  BY <1>1, HeardFacts
<1>4. clients'[c].cursor = clients[c].cursor
  BY <1>1, <1>2, PhaseClients
<1>5. /\ conns'[k].at = "replay" /\ conns'[k].client = {d}
      /\ conns'[k].cursor = clients[d].cursor /\ conns'[k].pipe = <<>>
      /\ conns'[k].todo = IF clients[d].cursor = 0 THEN {} ELSE wants[d]
      /\ \A l \in Conns \ {k} : conns'[l] = conns[l]
  BY <1>2, ConnectConns
<1>6. CASE c = d
  <2>1. \A l \in Conns : Reads(c, l)' => l = k
    BY <1>1, <1>2, <1>5, <1>6 DEF OneStream, Reads
  <2>2. conns'[k].todo = {TopicOf(f)} /\ clients[c].cursor \in Nat
    BY <1>2, <1>3, <1>5, <1>6, StreamTyped
  <2>3. Awaits(c, k, f)'
    BY <1>1, <1>4, <1>5, <1>6, <2>2 DEF Awaits, TopicOf
  <2>4. (\E i \in 1..Len(shown[c]) : shown[c][i] = f) \/ clients[c].cursor < IdOf(f)
    BY <1>3 DEF Kept
  <2> QED
    BY <1>1, <1>4, <2>1, <2>3, <2>4 DEF Kept, IdOf
<1>7. CASE c # d
  <2>1. Remains(c, k, f)
    BY <1>5, <1>7 DEF Remains, Reads
  <2>2. \A l \in Conns \ {k} : Remains(c, l, f)
    BY <1>2, <1>3, <1>4, <1>5, UntouchedRemains
  <2> QED
    BY <1>1, <1>3, <1>4, <2>1, <2>2, KeptStays
<1> QED
  BY <1>6, <1>7

LEMMA KeptRead ==
    ASSUME StreamInv, NextStream, NEW d \in Clients, NEW k \in Conns, Read(d, k),
           NEW c \in Clients, c \notin crossed', NEW f \in Names, <<c, f>> \in heard',
           wants[c] = {TopicOf(f)}
    PROVE  Kept(c, f)'
<1>1. Reads(d, k) /\ <<c, f>> \in heard /\ frames' = frames
      /\ crossed' = crossed \cup {e \in {d} : Foreign(e, Arrives(k))}
  BY DEF Read
<1>2. Types /\ OwnFrames /\ OneStream /\ Windows /\ SentOnly /\ IdsRise /\ OwnOnly
  BY DEF StreamInv
<1>3. Kept(c, f) /\ c \notin crossed /\ f \in 1..Len(frames) /\ FramesStay
  BY <1>1, HeardFacts
<1>4. /\ SameRequest(k) /\ conns'[k].pipe = Tail(conns[k].pipe)
      /\ \A l \in Conns \ {k} : conns'[l] = conns[l]
      /\ Arrives(k) = conns[k].pipe[1]
  BY <1>2, ReadConns
<1>5. /\ clients'[d].cursor = IdOf(Arrives(k))
      /\ IF Contains(clients[d].recent, IdOf(Arrives(k)))
         THEN shown' = shown ELSE shown'[d] = Append(shown[d], Arrives(k))
      /\ \A e \in Clients \ {d} : clients'[e] = clients[e] /\ shown'[e] = shown[e]
  BY <1>2, ReadClients
<1>6. CASE c = d
  <2>1. PICK g \in Sent : g = Arrives(k)
    BY <1>2, ArrivesSent
  <2>2. Owner(g) = Owner(f) /\ g \in 1..Len(frames) /\ g \in Names
    BY <1>1, <1>6, <2>1, OneTenant DEF Sent, Names
  <2>3. PICK s \in Seq(Names) : s = shown[c]
    BY <1>2, StreamTyped
  <2>4. /\ Len(Append(s, g)) = Len(s) + 1
        /\ Append(s, g)[Len(s) + 1] = g /\ Len(s) \in Nat
        /\ \A i \in 1..Len(s) : Append(s, g)[i] = s[i]
    BY <2>2, AppendFacts
  <2>5. /\ Len(s) <= Len(shown'[c]) /\ \A i \in 1..Len(s) : shown'[c][i] = s[i]
        /\ shown'[c] = s \/ (Len(shown'[c]) = Len(s) + 1 /\ shown'[c][Len(s) + 1] = g)
    BY <1>5, <1>6, <2>1, <2>3, <2>4
  <2>6. CASE \E i \in 1..Len(s) : s[i] = f
    <3>1. PICK i \in 1..Len(s) : s[i] = f
      BY <2>6
    <3>2. i \in 1..Len(shown'[c]) /\ shown'[c][i] = f
      BY <2>4, <2>5, <3>1
    <3> QED
      BY <3>2, ShownIsKept
  <2>7. CASE clients[c].cursor < IdOf(f) /\ (Coming(k, f) \/ Awaits(c, k, f))
    <3>1. Coming(k, f)
      BY <1>6, <2>7 DEF Awaits, Read
    <3>2. g = f \/ (IdOf(g) < IdOf(f) /\ Coming(k, f)')
      BY <1>1, <1>2, <1>4, <2>1, <2>2, <3>1, ComesNext
    <3>3. CASE IdOf(g) < IdOf(f) /\ Coming(k, f)'
      <4>1. \A l \in Conns : Reads(c, l)' => l = k
        BY <1>1, <1>2, <1>4, <1>6 DEF OneStream, Reads
      <4>2. clients'[c].cursor < IdOf(f)'
        BY <1>1, <1>5, <1>6, <2>1, <3>3 DEF IdOf
      <4> QED
        BY <3>3, <4>1, <4>2 DEF Kept
    <3>4. CASE g = f /\ Contains(clients[c].recent, IdOf(g))
      <4>1. PICK r \in Seq(Nat) : r = clients[c].recent
        BY <1>2, StreamTyped
      <4>2. PICK i \in 1..Len(r) : r[i] = IdOf(f)
        BY <3>4, <4>1 DEF Contains
      <4>3. /\ r[i] = IdOf(s[Len(s) - Len(r) + i]) /\ Len(r) <= Len(s) /\ Len(r) \in Nat
        <5>1. HoldsLast(r, s)
          BY <1>2, <2>3, <4>1 DEF Windows
        <5>2. Len(r) \in Nat
          BY <4>1
        <5> QED
          BY <4>2, <5>1, <5>2 DEF HoldsLast
      <4>4. PICK j \in 1..Len(s) : j = Len(s) - Len(r) + i
        BY <2>4, <4>3
      <4>5. s[j] \in 1..Len(frames) /\ ~Foreign(c, s[j])
        BY <1>2, <1>3, <2>3 DEF SentOnly, Sent, OwnOnly
      <4>6. s[j] = f
        BY <1>2, <1>3, <4>2, <4>3, <4>4, <4>5, OneTenant, SameIdSameFrame
      <4> QED
        BY <2>6, <4>6
    <3>5. CASE g = f /\ ~Contains(clients[c].recent, IdOf(g))
      <4>1. shown'[c] = Append(s, g)
        BY <1>5, <1>6, <2>1, <2>3, <3>5
      <4>2. Len(s) + 1 \in 1..Len(shown'[c]) /\ shown'[c][Len(s) + 1] = f
        BY <2>4, <3>5, <4>1
      <4> QED
        BY <4>2, ShownIsKept
    <3> QED
      BY <3>2, <3>3, <3>4, <3>5
  <2> QED
    BY <1>1, <1>3, <1>6, <2>3, <2>6, <2>7 DEF Kept
<1>7. CASE c # d
  <2>1. ~Reads(c, k) /\ ~Reads(c, k)'
    BY <1>1, <1>2, <1>4, <1>7 DEF OneStream, Reads, SameRequest
  <2>2. Remains(c, k, f)
    BY <2>1 DEF Remains
  <2>3. clients'[c] = clients[c] /\ shown'[c] = shown[c]
    BY <1>5, <1>7
  <2>4. \A l \in Conns \ {k} : Remains(c, l, f)
    BY <1>2, <1>3, <1>4, <2>3, UntouchedRemains
  <2> QED
    BY <1>3, <2>2, <2>3, <2>4, KeptStays
<1> QED
  BY <1>6, <1>7

\* A page has a cursor as long as something it heard counts.
LEMMA HeardCursor ==
    ASSUME StreamInv, NextStream, NEW c \in Clients, NEW f \in Names, <<c, f>> \in heard'
    PROVE  clients'[c].cursor > 0
<1>1. Types /\ SentOnly
  BY DEF StreamInv
<1>2. CASE \E k \in Conns : Read(c, k)
  BY <1>1, <1>2, ReadClients, ArrivesSent
<1>3. ~Remount(c)
  BY DEF Remount
<1>4. CASE clients'[c].cursor = clients[c].cursor
  <2>1. ASSUME <<c, f>> \in heard
        PROVE  clients[c].cursor > 0
    BY <2>1, HeardFacts
  <2>2. ASSUME NEW p \in Producers, PublishFrame(p), <<c, f>> \notin heard
        PROVE  clients[c].cursor > 0
    BY <2>2 DEF PublishFrame
  <2>3. (\E p \in Producers : PublishFrame(p)) \/ heard' \subseteq heard
    BY DEF NextStream, Producer, Stream, Client, InstanceRestarts, Replay, ReplayFails, Subscribe,
           Attach, Closed, Connect, Read, Unauthorized, Drop, Remount, TakeId, Retain, ProducerFails
  <2> QED
    BY <1>4, <2>1, <2>2, <2>3
<1> QED
  BY <1>1, <1>2, <1>3, <1>4, ClientStep

LEMMA HeardKeptStep ==
    ASSUME StreamInv, NextStream
    PROVE  HeardKept'
<1>1. Types /\ OwnFrames /\ OneStream /\ SentOnly /\ Types' /\ wants' = wants /\ FramesStay
  BY StreamTypesStep, OwnFramesStep, FramesRest DEF StreamInv
<1>2. ASSUME NEW x \in heard'
      PROVE  clients'[x[1]].cursor > 0
  <2>1. PICK c \in Clients, f \in Names : x = <<c, f>>
    BY <1>1 DEF Types
  <2> QED
    BY <2>1, HeardCursor
<1> SUFFICES ASSUME NEW c \in Clients, c \notin crossed', NEW f \in Names, <<c, f>> \in heard',
                    wants[c] = {TopicOf(f)'}
             PROVE  Kept(c, f)'
  BY <1>1, <1>2 DEF HeardKept
<1>3. c \notin crossed
  BY CrossedStays
<1>4. (\E p \in Producers : PublishFrame(p)) \/ heard' \subseteq heard
  BY DEF NextStream, Producer, Stream, Client, InstanceRestarts, Replay, ReplayFails, Subscribe,
         Attach, Closed, Connect, Read, Unauthorized, Drop, Remount, TakeId, Retain, ProducerFails
<1>5. CASE \E p \in Producers : PublishFrame(p)
  <2>1. TopicOf(f)' = TopicOf(f)
    BY <1>5 DEF PublishFrame, TopicOf
  <2> QED
    BY <1>3, <1>5, <2>1, KeptPublish
<1>6. CASE heard' \subseteq heard /\ ~\E p \in Producers : PublishFrame(p)
  <2>1. f \in 1..Len(frames) /\ <<c, f>> \in heard /\ TopicOf(f)' = TopicOf(f)
    BY <1>1, <1>6, HeardFacts DEF FramesStay
  <2>2. wants[c] = {TopicOf(f)} /\ Kept(c, f)
    BY <1>3, <2>1, HeardFacts
  \* Whose client and responses stay as they were, but for those it loses.
  <2>3. ASSUME shown'[c] = shown[c], clients'[c].cursor = clients[c].cursor,
               \A k \in Conns : Remains(c, k, f)
        PROVE  Kept(c, f)'
    BY <1>1, <2>1, <2>2, <2>3, KeptStays
  <2>4. ASSUME NEW p \in Producers, Producer(p)
        PROVE  Kept(c, f)'
    <3>1. UNCHANGED <<conns, clients, shown>>
      BY <1>6, <2>4 DEF Producer, TakeId, Retain, ProducerFails
    <3>2. \A k \in Conns : Remains(c, k, f)
      BY <1>1, <2>1, <3>1, UntouchedRemains
    <3> QED
      BY <2>3, <3>1, <3>2
  <2>5. ASSUME NEW k \in Conns, Stream(k)
        PROVE  Kept(c, f)'
    <3>1. UNCHANGED <<clients, shown>>
      BY <2>5 DEF Stream, Replay, ReplayFails, Subscribe, Attach, Closed
    <3>2. ASSUME NEW t \in Topics, Replay(k, t) \/ ReplayFails(k, t)
          PROVE  Kept(c, f)'
      BY <1>3, <2>2, <3>2, KeptReplay, KeptReplayFails
    <3>3. ASSUME Subscribe(k) \/ Attach(k) \/ Closed(k)
          PROVE  \A l \in Conns : Remains(c, l, f)
      <4>1. /\ \A l \in Conns \ {k} : conns'[l] = conns[l]
            /\ \/ conns'[k] = FreeConn
               \/ /\ SameRequest(k) /\ conns'[k].pipe = conns[k].pipe
                  /\ conns[k].cut \/ conns[k].at # "replay" \/ conns[k].todo = {}
        BY <1>1, <3>3, StreamConns
      <4>2. \A l \in Conns \ {k} : Remains(c, l, f)
        BY <1>1, <2>1, <3>1, <4>1, UntouchedRemains
      <4>3. Len(conns[k].pipe) \in Nat
        BY <1>1, StreamTyped
      <4>4. ASSUME conns'[k] = FreeConn
            PROVE  Remains(c, k, f)
        BY <4>4, FreeTyped DEF Remains, Reads
      <4>5. ASSUME /\ SameRequest(k) /\ conns'[k].pipe = conns[k].pipe
                   /\ conns[k].cut \/ conns[k].at # "replay" \/ conns[k].todo = {}
            PROVE  Remains(c, k, f)
        <5>1. Coming(k, f) => Coming(k, f)'
          BY <1>1, <2>1, <4>3, <4>5, ComesStill
        <5> QED
          BY <4>5, <5>1 DEF Remains, Reads, Awaits, SameRequest
      <4> QED
        BY <4>1, <4>2, <4>4, <4>5, Zenon
    <3> QED
      BY <2>3, <2>5, <3>1, <3>2, <3>3 DEF Stream
  <2>6. ASSUME NEW d \in Clients, Client(d)
        PROVE  Kept(c, f)'
    <3>1. ASSUME NEW k \in Conns, Connect(d, k)
          PROVE  Kept(c, f)'
      BY <1>3, <2>2, <3>1, KeptConnect
    <3>2. ASSUME NEW k \in Conns, Read(d, k)
          PROVE  Kept(c, f)'
      BY <2>2, <3>2, KeptRead
    <3>3. CASE Unauthorized(d)
      <4>1. UNCHANGED <<conns, shown>> /\ clients'[c].cursor = clients[c].cursor
        BY <1>1, <3>3, PhaseClients DEF Unauthorized
      <4>2. \A k \in Conns : Remains(c, k, f)
        BY <1>1, <2>1, <4>1, UntouchedRemains
      <4> QED
        BY <2>3, <4>1, <4>2
    <3>4. CASE Drop(d) \/ Remount(d)
      <4>1. Cut(d)
        BY <3>4 DEF Drop, Remount
      <4>2. \A k \in Conns : IF Reads(d, k)
                             THEN conns'[k].cut /\ conns'[k].client = conns[k].client
                             ELSE conns'[k] = conns[k]
        BY <1>1, <4>1, CutConns
      <4>3. clients'[c].cursor = clients[c].cursor /\ shown'[c] = shown[c]
        <5>1. CASE Drop(d)
          BY <1>1, <5>1, PhaseClients DEF Drop
        <5>2. CASE Remount(d)
          <6>1. c # d
            BY <5>2 DEF Remount
          <6> QED
            BY <1>1, <5>2, <6>1 DEF Remount, Types
        <5> QED
          BY <3>4, <5>1, <5>2
      <4>4. ASSUME NEW k \in Conns
            PROVE  Remains(c, k, f)
        <5>1. CASE Reads(d, k)
          BY <4>2, <5>1 DEF Remains, Reads
        <5>2. CASE ~Reads(d, k)
          BY <1>1, <2>1, <4>2, <4>3, <5>2, UntouchedRemains
        <5> QED
          BY <5>1, <5>2
      <4> QED
        BY <2>3, <4>3, <4>4
    <3> QED
      BY <2>6, <3>1, <3>2, <3>3, <3>4 DEF Client
  <2>7. CASE InstanceRestarts
    <3>1. shown' = shown /\ \A k \in Conns : conns'[k] = FreeConn
      BY <2>7 DEF InstanceRestarts
    <3>2. clients'[c].cursor = clients[c].cursor
      BY <1>1, <2>7, StreamTyped DEF InstanceRestarts, ClientRec
    <3>3. \A k \in Conns : Remains(c, k, f)
      BY <3>1, FreeTyped DEF Remains, Reads
    <3> QED
      BY <2>3, <3>1, <3>2, <3>3
  <2> QED
    BY <2>4, <2>5, <2>6, <2>7 DEF NextStream
<1> QED
  BY <1>4, <1>5, <1>6

-----------------------------------------------------------------------------
(* Theorems *)

\* StreamInv is inductive: the ids are those that were taken, the queue of a client is
\* the end of what it showed, it has one stream, and what was heard is in its way.
THEOREM StreamInvariant == SpecStream => []StreamInv
<1>1. InitStream => StreamInv
  <2>1. SUFFICES ASSUME InitStream
                 PROVE  StreamInv
    OBVIOUS
  <2>2. Types
    BY <2>1, TypesInit
  <2>3. \A k \in Conns : conns[k] = FreeConn
    BY <2>1 DEF InitStream
  <2>4. \A c \in Clients : clients[c] = Fresh /\ shown[c] = <<>>
    BY <2>1 DEF InitStream
  <2>5. \A p \in Producers : producers[p].at = "idle"
    BY <2>1, QuietTyped DEF InitStream
  <2>6. \A t \in Topics : retained[t] = <<>>
    BY <2>1 DEF InitStream
  <2>7. heard = {}
    BY <2>1 DEF InitStream
  <2>8. OwnFrames
    BY <2>5 DEF OwnFrames
  <2>9. SentOnly
    BY <2>3, <2>4, <2>6, <2>7, FreeTyped, FreshTyped DEF SentOnly
  <2>10. Windows
    <3>1. \A c \in Clients : clients[c].recent = <<>> /\ shown[c] = <<>>
      BY <2>4, FreshTyped
    <3>2. Len(<<>>) = 0 /\ Window \in Nat
      BY StreamConstants
    <3>3. HoldsLast(<<>>, <<>>) /\ Once(<<>>)
      BY <3>2 DEF HoldsLast, Once
    <3> QED
      BY <3>1, <3>3, Zenon DEF Windows
  <2>11. OneStream
    BY <2>3, FreeTyped DEF OneStream, Reads
  <2>12. HeardKept
    BY <2>7 DEF HeardKept
  <2>13. IdsRise
    BY <2>1 DEF InitStream, IdsRise
  <2>14. OwnOnly
    BY <2>4, FreshTyped DEF OwnOnly
  <2> QED
    BY <2>2, <2>8, <2>9, <2>10, <2>11, <2>12, <2>13, <2>14 DEF StreamInv
<1>2. StreamInv /\ [NextStream]_streamVars => StreamInv'
  <2>1. ASSUME StreamInv, NextStream
        PROVE  StreamInv'
    <3>1. Types' /\ OwnFrames' /\ SentOnly' /\ OneStream'
      BY <2>1, StreamTypesStep, OwnFramesStep, SentOnlyStep, OneStreamStep DEF StreamInv
    <3>2. IdsRise' /\ OwnOnly' /\ Windows' /\ HeardKept'
      BY <2>1, IdsRiseStep, OwnOnlyStep, WindowsStep, HeardKeptStep DEF StreamInv
    <3> QED
      BY <3>1, <3>2 DEF StreamInv
  <2>2. ASSUME StreamInv, UNCHANGED streamVars
        PROVE  StreamInv'
    <3>1. UNCHANGED <<wants, seq, frames, producers, retained, subscribed, conns, clients,
                      shown, crossed, heard, drops>>
      BY <2>2 DEF streamVars
    <3>2. \A f \in Nat : TopicOf(f)' = TopicOf(f) /\ IdOf(f)' = IdOf(f) /\ Owner(f)' = Owner(f)
      BY <3>1 DEF TopicOf, IdOf, Owner
    <3>3. Types' /\ OwnFrames' /\ Sent' = Sent
      BY <2>2, <3>1 DEF StreamInv, Types, OwnFrames, Sent
    <3>4. SentOnly'
      BY <2>2, <3>1, <3>3 DEF StreamInv, SentOnly
    <3>5. IdsRise'
      BY <2>2, <3>1 DEF StreamInv, IdsRise, IdOf, Owner, TopicOf
    <3>6. OwnOnly'
      BY <2>2, <3>1, <3>3 DEF StreamInv, OwnOnly, Foreign, IdOf, Owner, TopicOf
    <3>7. Windows' /\ OneStream'
      BY <2>2, <3>1 DEF StreamInv, Windows, HoldsLast, Once, IdOf, OneStream, Reads
    <3>8. ASSUME NEW c \in Clients, NEW f \in Names, Kept(c, f)
          PROVE  Kept(c, f)'
      <4>1. \A k \in Conns : /\ Reads(c, k)' = Reads(c, k) /\ Coming(k, f)' = Coming(k, f)
                             /\ Awaits(c, k, f)' = Awaits(c, k, f)
        BY <3>1 DEF Reads, Coming, ComesIn, Awaits, IdOf, Owner, TopicOf
      <4>2. IdOf(f)' = IdOf(f)
        BY <3>1 DEF IdOf
      <4> QED
        BY <3>1, <3>8, <4>1, <4>2 DEF Kept
    <3>9. HeardKept'
      BY <2>2, <3>1, <3>2, <3>8 DEF StreamInv, HeardKept, TopicOf
    <3> QED
      BY <3>3, <3>4, <3>5, <3>6, <3>7, <3>9 DEF StreamInv
  <2> QED
    BY <2>1, <2>2
<1> QED
  BY <1>1, <1>2, PTL DEF SpecStream

\* Every variable of the realtime modules keeps a value of its type: no list is longer
\* than it may be, whatever is published, cut and replayed, by whichever tenant.
THEOREM StreamTypeCorrect == SpecStream => []StreamOK
<1>1. StreamInv => StreamOK
  <2>1. SUFFICES ASSUME StreamInv
                 PROVE  StreamOK
    OBVIOUS
  <2>2. Types /\ Windows /\ SentOnly
    BY <2>1 DEF StreamInv
  <2>3. producers \in [Producers -> [at : {"idle", "publish", "retain"}, frame : Nat]]
    BY <2>2 DEF Types, ProducerRec
  <2>4. \A k \in Conns : /\ conns[k].at \in {"free", "replay", "subscribing", "live"}
                         /\ conns[k].pipe \in Seq(DOMAIN frames)
    <3> TAKE k \in Conns
    <3>1. PICK pipe \in Seq(Names) : pipe = conns[k].pipe
      BY <2>2, StreamTyped
    <3>2. \A i \in 1..Len(pipe) : pipe[i] \in DOMAIN frames
      BY <2>2, <3>1, SeqElements DEF SentOnly, Sent, Types
    <3>3. pipe \in Seq(DOMAIN frames)
      BY <3>2
    <3> QED
      BY <2>2, <3>1, <3>3, StreamTyped DEF ConnRec
  <2>5. \A c \in Clients : /\ clients[c].at \in {"connect", "open", "closed"}
                           /\ Len(clients[c].recent) <= Window
    BY <2>2, StreamTyped DEF ClientRec, Windows, HoldsLast
  <2>6. frames \in Seq([topic : Topics, id : Nat])
    <3>1. PICK s \in Seq(FrameRec) : s = frames
      BY <2>2 DEF Types
    <3>2. FrameRec \subseteq [topic : Topics, id : Nat]
      BY DEF FrameRec
    <3> QED
      BY <3>1, <3>2, WiderSeq
  <2> QED
    BY <2>2, <2>3, <2>4, <2>5, <2>6 DEF StreamOK, Types
<1> QED
  BY <1>1, StreamInvariant, PTL

\* A page shows a frame once in a window (RealtimeClient.isDuplicate), although every
\* reconnect replays from the cursor and streams of one instance write to each other.
THEOREM FramesShownOnce == SpecStream => []ShownOnceInWindow
<1>1. StreamInv => ShownOnceInWindow
  <2>1. SUFFICES ASSUME StreamInv
                 PROVE  ShownOnceInWindow
    OBVIOUS
  <2>2. \A c \in Clients : Once(shown[c]) /\ DOMAIN shown[c] = 1..Len(shown[c])
    BY <2>1, StreamTyped, SeqElements DEF StreamInv, Windows
  <2> QED
    BY <2>2 DEF ShownOnceInWindow, Once
<1> QED
  BY <1>1, StreamInvariant, PTL

\* What a stream of one channel was in place for reaches its page: shown, in the pipe, or
\* ahead of the cursor it comes back with (RealtimeBroker.stream, RealtimeClient.run), as
\* long as no frame of another tenant came down that stream.
THEOREM HeardFramesReachThePage == SpecStream => []NothingHeardIsLost
<1>1. StreamInv => NothingHeardIsLost
  <2>1. SUFFICES ASSUME StreamInv, NEW x \in heard, x[1] \notin crossed,
                        wants[x[1]] = {TopicOf(x[2])}, ~Contains(shown[x[1]], x[2])
                 PROVE  IdOf(x[2]) > clients[x[1]].cursor
    BY DEF NothingHeardIsLost
  <2>2. PICK c \in Clients, f \in Names : x = <<c, f>>
    BY <2>1 DEF StreamInv, Types
  <2>3. Kept(c, f) /\ f \in 1..Len(frames)
    BY <2>1, <2>2 DEF StreamInv, HeardKept, SentOnly, Sent
  <2>4. clients[c].cursor < IdOf(f)
    BY <2>1, <2>2, <2>3 DEF Kept, Contains
  <2> QED
    BY <2>1, <2>2, <2>3, <2>4, StreamTyped DEF StreamInv
<1> QED
  BY <1>1, StreamInvariant, PTL

=============================================================================
