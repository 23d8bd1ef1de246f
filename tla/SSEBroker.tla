------------------------------ MODULE SSEBroker ------------------------------
(***************************************************************************)
(* Server-sent events of one tenant on one API instance: the SSEBroker     *)
(* (streaming/sse.py), its subscriptions and clients, the durable log and  *)
(* the PostgreSQL notification bridge (streaming/postgres_notifications.py)*)
(* through which the instance learns of events that other instances        *)
(* commit.                                                                 *)
(*                                                                         *)
(* Everything runs on one event loop.  The sections under the tenant lock  *)
(* contain no await, so each is one step, and a task is interrupted only   *)
(* where it waits for the database: a query is one step that reads and one *)
(* that uses what was read.                                                *)
(***************************************************************************)
EXTENDS Sequences, SSEReplayLog

CONSTANTS Clients,
          Events,       \* how many events are committed at most
          Matching,     \* those that match event_type_prefixes
          QueueSize,    \* subscriber_queue_size
          BufferSize,   \* replay_buffer_max_events
          NoteSize,     \* queue_size of the bridge
          Worlds        \* the deployments looked at, see world

ASSUME BrokerAssumption ==
  /\ {Events, QueueSize, BufferSize, NoteSize} \subseteq Nat \ {0}
  /\ Matching \subseteq 0..(Events - 1)
  /\ Worlds \subseteq
       [bridged: BOOLEAN,   \* sse_notification_enabled
        events: 1..Events,  \* how many events are committed
        kinds: SUBSET {"db", "disconnect", "expire", "bridge"},
        left: Nat]          \* how many faults of these kinds may happen

Seqs == 0..(Events - 1)
Cursors == Seqs \union {None, Start}
Uncached == -3

VARIABLES
  rows, live,   \* the log
  mine,         \* local appends whose task has not resumed
  latest,       \* _latest_cache
  cached,       \* _replay_cache: {[after, page]}
  sub,          \* subscriptions, by client
  sync,         \* the task that holds the synchronize lock
  gaps,         \* deliver() calls that wait to synchronize
  sent,         \* NOTIFYs under way to the bridge
  bridge,       \* the bridge task
  seen, base,   \* what a client has received, and after which number
  world         \* the deployment, and the faults left

log == <<rows, live>>
caches == <<latest, cached>>
notes == <<sent, bridge>>
client == <<seen, base>>
vars == <<rows, live, mine, latest, cached, sub, sync, gaps, sent, bridge,
          seen, base, world>>

Outcomes == {"page", "stale", "error"}    \* of a replay query
Querying == {"latest", "latestRead", "replay", "replayRead"}
Places == {"off", "open"} \union Querying

\* _Subscriber, SSESubscription and the locals of its initialization.
Subs ==
  [at: Places, state: {"REPLAYING", "DRAINING", "LIVE"}, closed: BOOLEAN,
   after: Cursors, last: Cursors, queue: Seq(Seqs), buffer: SUBSET Seqs,
   initial: Seq(Seqs), hand: Cursors,
   goal: {"subscribe", "handover", "drain"}, \* who calls _subscription_replay
   latest: Cursors,             \* latest_sequence
   cursor: Cursors, through: Cursors, page: SUBSET Seqs, outcome: Outcomes,
   merged: SUBSET Seqs]

NoSub ==
  [at |-> "off", state |-> "REPLAYING", closed |-> FALSE, after |-> None,
   last |-> Start, queue |-> <<>>, buffer |-> {}, initial |-> <<>>,
   hand |-> None, goal |-> "subscribe", latest |-> None, cursor |-> None,
   through |-> None, page |-> {}, outcome |-> "page", merged |-> {}]

NoSync == [by |-> "nobody", through |-> None, cursor |-> None, page |-> {},
           at |-> "pick", outcome |-> "page"]

TypeOK ==
  /\ live \subseteq rows /\ rows \subseteq Seqs
  /\ mine \in [Seqs -> {"no", "publish", "persist"}]
  /\ latest \in Cursors \union {Uncached}
  /\ cached \subseteq [after: Cursors, page: SUBSET Seqs]
  /\ sub \in [Clients -> Subs]
  /\ \A c \in Clients : /\ Len(sub[c].queue) <= QueueSize
                         /\ Cardinality(sub[c].buffer) <= BufferSize
  /\ sync \in [by: {"nobody", "deliver", "bridge"}, through: Cursors,
               cursor: Cursors, page: SUBSET Seqs, at: {"pick", "read", "use"},
               outcome: Outcomes]
  /\ gaps \subseteq Seqs /\ sent \subseteq Seqs
  /\ bridge \in [at: {"down", "starting", "ready", "busy"}, full: BOOLEAN,
                 queue: SUBSET Seqs, through: Cursors]
  /\ seen \in [Clients -> Seq(Seqs)]
  /\ base \in [Clients -> Cursors]
  /\ \E w \in Worlds :
       world \in {[w EXCEPT !.left = n] : n \in 0..w.left}

\* The lifespan waits for a bridge to be ready before requests are served.
Init ==
  /\ world \in Worlds
  /\ rows = {} /\ live = {}
  /\ mine = [n \in Seqs |-> "no"]
  /\ latest = Uncached /\ cached = {}
  /\ sub = [c \in Clients |-> NoSub]
  /\ sync = NoSync /\ gaps = {} /\ sent = {}
  /\ bridge = [at |-> IF world.bridged THEN "ready" ELSE "down", full |-> FALSE,
               queue |-> {}, through |-> None]
  /\ seen = [c \in Clients |-> <<>>]
  /\ base = [c \in Clients |-> Start]

-----------------------------------------------------------------------------
\* Helpers

Fault(kind) ==
  /\ kind \in world.kinds
  /\ world.left > 0
  /\ world' = [world EXCEPT !.left = @ - 1]

At(c) == sub[c].at

Sorted(S) ==
  [i \in 1..Cardinality(S) |->
     CHOOSE n \in S : Cardinality({m \in S : m < n}) = i - 1]

\* _active_subscribers, and those in state LIVE.
Active == {c \in Clients : At(c) # "off" /\ ~sub[c].closed}
LiveSubs == {c \in Active : sub[c].state = "LIVE"}

LowestCursor == Min({sub[c].last : c \in LiveSubs})

\* _close_subscriber_locked: buffer and queue are dropped, the marker wakes
\* the reader.
Closed(s) == [s EXCEPT !.closed = TRUE, !.buffer = {}, !.queue = <<>>]

\* _buffer_replay_event_locked, for every event of a page.
Buffered(s, page) ==
  LET buffer == s.buffer \union After(page, s.last)
  IN  IF Cardinality(buffer) > BufferSize THEN Closed(s)
      ELSE [s EXCEPT !.buffer = buffer]

QueuedDroppingOldest(s, page) ==
  LET new == After(page, s.last)
      queue == s.queue \o Sorted(new \intersect Matching)
      over == Len(queue) - QueueSize
  IN  IF new = {} THEN s
      ELSE [s EXCEPT !.last = Max(new),
                     !.queue = IF over > 0 THEN SubSeq(queue, over + 1,
                                                       Len(queue))
                                           ELSE queue]

\* The loop of _fan_out_locked over one LIVE subscriber.
Queued(s, page) ==
  LET new == After(page, s.last)
      queue == s.queue \o Sorted(new \intersect Matching)
  IN  IF new = {} THEN s
      ELSE IF ~Contiguous(new, s.last) \/ Len(queue) > QueueSize THEN Closed(s)
      ELSE [s EXCEPT !.last = Max(new), !.queue = queue]

\* _fan_out_locked
FanOut(page) ==
  [c \in Clients |->
     IF c \notin Active THEN sub[c]
     ELSE IF sub[c].state = "LIVE" THEN Queued(sub[c], page)
     ELSE Buffered(sub[c], page)]

\* _store_latest_sequence
StoredLatest(n) ==
  IF latest # Uncached /\ (n = None \/ latest > n) THEN latest ELSE n

\* _record_durable_event
RecordDurable(n) == cached' = {} /\ latest' = StoredLatest(n)

EntryTail(entry) == IF entry.page = {} THEN entry.after ELSE Max(entry.page)

\* Size limits and expiry are left to the reader of the cache, which may
\* always miss.
StoreReplay(after, page) ==
  LET entry == [after |-> after, page |-> page]
      old == {e \in cached : e.after = after}
  IN  cached' = IF \E e \in old : EntryTail(e) > EntryTail(entry) THEN cached
                ELSE (cached \ old) \union {entry}

\* _cached_replay
MayServe(entry, after, through) ==
  /\ entry.after = after
  /\ through # None => EntryTail(entry) # None /\ EntryTail(entry) >= through

\* _first_sequence_gap: the last number before the first hole, if any.
NoGap == -3

FirstGap(S, cursor) ==
  LET from == IF cursor = None THEN Min(S) - 1 ELSE cursor
  IN  IF S = {} \/ Contiguous(S, from) THEN NoGap
      ELSE IF Min(S) <= from THEN from
      ELSE Min({n \in from..Max(S) : n + 1 \notin S})

SetSub(c, s) == sub' = [sub EXCEPT ![c] = s]

\* _remove_subscriber.  When it was the last one the caches go, and queries
\* that are still under way are cancelled.
Gone(c) ==
  LET last == Active \subseteq {c}
  IN  /\ sub' = [d \in Clients |->
                   IF d = c \/ (last /\ At(d) \in Querying) THEN NoSub
                   ELSE sub[d]]
      /\ latest' = IF last THEN Uncached ELSE latest
      /\ cached' = IF last THEN {} ELSE cached

-----------------------------------------------------------------------------
\* The log

\* append commits on this instance (how # "no") or on another one; the row
\* trigger notifies the listeners.
Commit(how) ==
  LET n == NextSequence(rows)
  IN  /\ n < world.events
      /\ rows' = rows \union {n} /\ live' = live \union {n}
      /\ how = "no" => world.bridged
      /\ how = "persist" => bridge.at \in {"ready", "busy"}
      /\ mine' = [mine EXCEPT ![n] = how]
      /\ sent' = IF bridge.at = "down" THEN sent ELSE sent \union {n}
      /\ UNCHANGED <<caches, sub, sync, gaps, bridge, client, world>>

Expire ==
  /\ live # {}
  /\ Fault("expire")
  /\ live' = live \ {Min(live)}
  /\ UNCHANGED <<rows, mine, caches, sub, sync, gaps, notes, client>>

DeleteExpired ==
  /\ rows # {} /\ Deletable(rows, live) # {}
  /\ rows' = rows \ Deletable(rows, live)
  /\ UNCHANGED <<live, mine, caches, sub, sync, gaps, notes, client, world>>

-----------------------------------------------------------------------------
\* SSEBroker.persist and SSEBroker.deliver, once append has returned

PublishReturns(n) ==
  LET inOrder == LiveSubs = {} \/ n <= LowestCursor + 1
  IN  /\ mine[n] # "no"
      /\ mine' = [mine EXCEPT ![n] = "no"]
      /\ RecordDurable(n)
      /\ IF mine[n] = "persist" THEN UNCHANGED <<sub, gaps>>
         ELSE IF inOrder THEN sub' = FanOut({n}) /\ UNCHANGED gaps
         ELSE /\ sub' = [c \in Clients |->
                           IF c \in Active \ LiveSubs
                             THEN Buffered(sub[c], {n}) ELSE sub[c]]
              /\ gaps' = gaps \union {n}
      /\ UNCHANGED <<log, sync, notes, client, world>>

-----------------------------------------------------------------------------
\* _synchronize_tenant, for a deliver that met a gap or for the bridge

SyncReturn(by, through, ok) ==
  /\ sync' = NoSync
  /\ gaps' = IF by = "deliver" THEN gaps \ {through} ELSE gaps
  /\ bridge' = IF by # "bridge" THEN bridge
               ELSE [bridge EXCEPT !.at = IF ok THEN "ready" ELSE "down",
                                   !.through = None]
  /\ sent' = IF by = "bridge" /\ ~ok THEN {} ELSE sent

\* The start of a round.
SyncRound(by, through) ==
  /\ IF LiveSubs = {} \/ (through # None /\ LowestCursor >= through)
       THEN SyncReturn(by, through, TRUE)
       ELSE /\ sync' = [NoSync EXCEPT !.by = by, !.through = through,
                                      !.at = "read", !.cursor = LowestCursor]
            /\ UNCHANGED <<gaps, notes>>
  /\ UNCHANGED <<log, mine, caches, sub, client, world>>

SyncForDeliver(n) ==
  /\ sync.by = "nobody" /\ n \in gaps
  /\ SyncRound("deliver", n)

SyncForBridge ==
  /\ sync.by = "nobody" /\ bridge.at \in {"starting", "busy"}
  /\ SyncRound("bridge", bridge.through)

SyncAgain ==
  /\ sync.by # "nobody" /\ sync.at = "pick"
  /\ SyncRound(sync.by, sync.through)

SyncRead ==
  /\ sync.at = "read"
  /\ \/ /\ sync' = [sync EXCEPT !.at = "use",
                      !.outcome = IF StaleCursor(rows, live, sync.cursor)
                                    THEN "stale" ELSE "page",
                      !.page = Page(live, sync.cursor)]
        /\ UNCHANGED world
     \/ /\ Fault("db")
        /\ sync' = [sync EXCEPT !.at = "use", !.outcome = "error"]
  /\ UNCHANGED <<log, mine, caches, sub, gaps, notes, client>>

\* A page is fanned out and the next round begins, unless it reached the
\* requested event.  A cursor that is too old closes every subscriber.
SyncUse ==
  LET page == sync.page
      through == sync.through
      broken == \/ sync.outcome = "error"
                \/ page = {} /\ through # None
                \/ ~Contiguous(page, sync.cursor)
  IN  /\ sync.at = "use"
      /\ IF sync.outcome = "stale"
           THEN /\ sub' = [c \in Clients |-> IF c \in Active
                                               THEN Closed(sub[c]) ELSE sub[c]]
                /\ SyncReturn(sync.by, through, TRUE)
                /\ UNCHANGED caches
         ELSE IF broken \/ page = {}
           THEN /\ SyncReturn(sync.by, through, ~broken)
                /\ UNCHANGED <<sub, caches>>
           ELSE /\ RecordDurable(Max(page))
                /\ sub' = FanOut(page)
                /\ IF through # None /\ Max(page) >= through
                     THEN SyncReturn(sync.by, through, TRUE)
                     ELSE /\ sync' = [sync EXCEPT !.at = "pick", !.page = {}]
                          /\ UNCHANGED <<gaps, notes>>
      /\ UNCHANGED <<log, mine, client, world>>

-----------------------------------------------------------------------------
\* PostgresSSENotificationBridge

\* LISTEN, then synchronize_active_tenants.
BridgeConnect ==
  /\ world.bridged /\ bridge.at = "down"
  /\ bridge' = [bridge EXCEPT !.at = "starting", !.through = None]
  /\ UNCHANGED <<log, mine, caches, sub, sync, gaps, sent, client, world>>

NotifyArrivesDropping(n) ==
  /\ n \in sent
  /\ sent' = sent \ {n}
  /\ bridge' = IF Cardinality(bridge.queue) >= NoteSize THEN bridge
               ELSE [bridge EXCEPT !.queue = @ \union {n}]
  /\ UNCHANGED <<log, mine, caches, sub, sync, gaps, client, world>>

\* _on_notification
NotifyArrives(n) ==
  /\ n \in sent
  /\ sent' = sent \ {n}
  /\ bridge' = IF Cardinality(bridge.queue) >= NoteSize
                 THEN [bridge EXCEPT !.full = TRUE]
                 ELSE [bridge EXCEPT !.queue = @ \union {n}]
  /\ UNCHANGED <<log, mine, caches, sub, sync, gaps, client, world>>

\* _consume: an overflow first, then the whole queue at once.
BridgeConsume ==
  /\ bridge.at = "ready"
  /\ \/ /\ bridge.full
        /\ bridge' = [bridge EXCEPT !.full = FALSE, !.at = "busy",
                                    !.through = None]
     \/ /\ ~bridge.full /\ bridge.queue # {}
        /\ bridge' = [bridge EXCEPT !.queue = {}, !.at = "busy",
                                    !.through = Max(bridge.queue)]
  /\ UNCHANGED <<log, mine, caches, sub, sync, gaps, sent, client, world>>

BridgeLost ==
  /\ bridge.at = "ready"
  /\ Fault("bridge")
  /\ bridge' = [bridge EXCEPT !.at = "down"]
  /\ sent' = {}
  /\ UNCHANGED <<log, mine, caches, sub, sync, gaps, client>>

-----------------------------------------------------------------------------
\* SSESubscription: admission, hand-over to live delivery, reading

\* The client connects, again with the Last-Event-ID it has if it wants to
\* go on; the subscriber is registered before anything is read.
Connect(c, after) ==
  /\ At(c) = "off"
  /\ after # None => seen[c] # <<>> /\ after = seen[c][Len(seen[c])]
  /\ SetSub(c, [NoSub EXCEPT !.at = "latest", !.after = after,
                  !.last = IF after = None THEN Start ELSE after])
  /\ IF after = None
       THEN /\ seen' = [seen EXCEPT ![c] = <<>>]
            /\ base' = [base EXCEPT ![c] = Start]
       ELSE UNCHANGED client
  /\ UNCHANGED <<log, mine, caches, sync, gaps, notes, world>>

Admitted(s, n) ==
  [s EXCEPT !.at = "replay", !.latest = n, !.cursor = s.after, !.through = n]

\* _latest_sequence: from the cache, from a query of its own, or from the
\* query another subscription has under way.
LatestCached(c) ==
  /\ At(c) = "latest" /\ latest # Uncached
  /\ SetSub(c, Admitted(sub[c], latest))
  /\ UNCHANGED <<log, mine, caches, sync, gaps, notes, client, world>>

LatestRead(c) ==
  /\ At(c) = "latest"
  /\ \/ /\ SetSub(c, [sub[c] EXCEPT !.at = "latestRead",
                                    !.latest = Latest(rows)])
        /\ UNCHANGED world
     \/ /\ Fault("db")
        /\ SetSub(c, [sub[c] EXCEPT !.at = "latestRead", !.outcome = "error"])
     \/ /\ \E d \in Clients :
             /\ At(d) = "latestRead"
             /\ SetSub(c, [sub[c] EXCEPT !.at = "latestRead",
                             !.latest = sub[d].latest,
                             !.outcome = sub[d].outcome])
        /\ UNCHANGED world
  /\ UNCHANGED <<log, mine, caches, sync, gaps, notes, client>>

LatestUse(c) ==
  /\ At(c) = "latestRead"
  /\ IF sub[c].outcome = "error" THEN Gone(c)
     ELSE /\ latest' = StoredLatest(sub[c].latest)
          /\ SetSub(c, Admitted(sub[c], latest'))
          /\ UNCHANGED cached
  /\ UNCHANGED <<log, mine, sync, gaps, notes, client, world>>

\* The query of _coalesced_replay, or the result of the same query of another
\* subscription.
ReplayRead(c) ==
  LET s == sub[c]
  IN  /\ At(c) = "replay"
      /\ \/ /\ SetSub(c, [s EXCEPT !.at = "replayRead",
                            !.outcome = IF StaleCursor(rows, live, s.cursor)
                                          THEN "stale" ELSE "page",
                            !.page = Page(live, s.cursor)])
            /\ UNCHANGED world
         \/ /\ Fault("db")
            /\ SetSub(c, [s EXCEPT !.at = "replayRead", !.outcome = "error"])
         \/ /\ \E d \in Clients :
                 /\ At(d) = "replayRead"
                 /\ sub[d].cursor = s.cursor /\ sub[d].through = s.through
                 /\ SetSub(c, [s EXCEPT !.at = "replayRead",
                                 !.page = sub[d].page,
                                 !.outcome = sub[d].outcome])
            /\ UNCHANGED world
      /\ UNCHANGED <<log, mine, caches, sync, gaps, notes, client>>

Fetching(s, goal, cursor) ==
  [s EXCEPT !.at = "replay", !.goal = goal, !.cursor = cursor,
            !.through = Max(s.buffer), !.page = {}]

HandedOverAsRead(s) ==
  [s EXCEPT !.at = "open", !.initial = Sorted(s.merged \intersect Matching),
            !.last = IF s.merged # {} THEN Max(s.merged)
                     ELSE IF s.after # None THEN s.after
                     ELSE IF s.latest # None THEN s.latest ELSE Start,
            !.buffer = {},
            !.state = IF s.merged \intersect Matching # {} THEN "DRAINING"
                                                           ELSE "LIVE"]

HandedOverAtLatest(s) ==
  [HandedOverAsRead([s EXCEPT !.merged = @ \union s.buffer]) EXCEPT
     !.last = IF s.after # None THEN s.after
              ELSE IF s.latest # None THEN s.latest ELSE Start]

\* A round of _activate_subscription: what was replayed and what was buffered
\* in the meantime must join without a hole, or the hole is fetched first.
HandedOver(s) ==
  LET all == s.merged \union s.buffer
      from == IF s.after = None /\ s.merged = {} /\ s.buffer # {}
                THEN IF s.latest # None THEN s.latest ELSE Start
                ELSE s.after
      gap == FirstGap(all, from)
  IN  IF s.closed THEN [s EXCEPT !.at = "open"]
      ELSE IF gap # NoGap THEN Fetching(s, "handover", gap)
      ELSE HandedOverAsRead([s EXCEPT !.merged = all])

\* A round of _drain_subscription_tail, before the last replayed event is
\* given to the client.
Drained(s) ==
  LET all == s.merged \union s.buffer
      gap == FirstGap(all, s.last)
  IN  IF s.closed \/ s.state # "DRAINING" THEN [s EXCEPT !.at = "open"]
      ELSE IF gap # NoGap /\ s.buffer = {}
        THEN [Closed(s) EXCEPT !.at = "open"]
      ELSE IF gap # NoGap THEN Fetching(s, "drain", gap)
      ELSE [s EXCEPT !.at = "open", !.buffer = {},
              !.initial = Sorted(all \intersect Matching),
              !.last = IF all = {} THEN s.last ELSE Max(all),
              !.state = IF all \intersect Matching = {} THEN "LIVE"
                                                        ELSE "DRAINING"]

\* One more page of _subscription_replay: [s EXCEPT ...] or failure.
PageEnd(s, page) == IF page = {} THEN s.cursor ELSE Max(page)

Reached(s, page) ==
  \/ s.through = None
  \/ PageEnd(s, page) # None /\ PageEnd(s, page) >= s.through
  \/ page = {} /\ s.goal = "subscribe" /\ s.after = None

Resumed(s, page) ==
  LET t == [s EXCEPT !.merged = @ \union page, !.cursor = PageEnd(s, page)]
  IN  IF ~Reached(s, page) THEN [t EXCEPT !.at = "replay", !.page = {}]
      ELSE IF s.goal = "drain" THEN Drained(t) ELSE HandedOver(t)

PageUsable(s, page) ==
  /\ FirstGap(page, s.cursor) = NoGap
  /\ page # {} \/ Reached(s, page)

\* The locals of a finished call are forgotten.
Idle(t) ==
  [t EXCEPT !.hand = None, !.goal = "drain", !.latest = None, !.after = None,
            !.cursor = None, !.through = None, !.page = {}, !.merged = {},
            !.outcome = "page"]

\* The client gets the event in hand when the drain is over; without a cursor
\* it is owed everything from the first event of the hand-over.
Advance(c, t, all) ==
  /\ SetSub(c, IF t.at = "open" THEN Idle(t) ELSE t)
  /\ seen' = IF t.at = "open" /\ t.hand # None
               THEN [seen EXCEPT ![c] = Append(@, t.hand)] ELSE seen
  /\ base' = IF /\ t.at = "open" /\ t.goal # "drain"
                /\ t.after = None /\ ~t.closed
               THEN [base EXCEPT ![c] = IF all = {} THEN t.last
                                                    ELSE Min(all) - 1]
               ELSE base

UsePage(c, page) ==
  LET s == sub[c]
  IN  IF PageUsable(s, page)
        THEN Advance(c, Resumed(s, page), s.merged \union page \union s.buffer)
        ELSE Gone(c) /\ UNCHANGED client

ReplayCached(c) ==
  /\ At(c) = "replay"
  /\ \E e \in cached :
       /\ MayServe(e, sub[c].cursor, sub[c].through)
       /\ PageUsable(sub[c], e.page)
       /\ UsePage(c, e.page)
  /\ UNCHANGED <<log, mine, caches, sync, gaps, notes, world>>

\* A stale cursor is answered 409 on admission; later it closes the
\* subscriber.  Any other error ends the stream.
ReplayUse(c) ==
  LET s == sub[c]
  IN  /\ At(c) = "replayRead"
      /\ \/ /\ s.outcome = "page"
            /\ PageUsable(s, s.page)
            /\ StoreReplay(s.cursor, s.page)
            /\ UsePage(c, s.page)
            /\ UNCHANGED latest
         \/ /\ s.outcome = "stale" /\ s.goal # "subscribe"
            /\ Advance(c, [Closed(s) EXCEPT !.at = "open"], {})
            /\ UNCHANGED caches
         \/ /\ \/ s.outcome = "error"
               \/ s.outcome = "stale" /\ s.goal = "subscribe"
               \/ s.outcome = "page" /\ ~PageUsable(s, s.page)
            /\ Gone(c)
            /\ UNCHANGED client
      /\ UNCHANGED <<log, mine, sync, gaps, notes, world>>

\* __anext__: replayed events first, the last of them after a drain.
TakeInitial(c) ==
  LET s == [sub[c] EXCEPT !.initial = Tail(@), !.hand = Head(sub[c].initial)]
  IN  /\ At(c) = "open" /\ sub[c].initial # <<>>
      /\ Advance(c, IF s.initial = <<>>
                      THEN Drained([s EXCEPT !.goal = "drain", !.merged = {}])
                      ELSE [s EXCEPT !.goal = "drain"], {})
      /\ UNCHANGED <<log, mine, caches, sync, gaps, notes, world>>

TakeQueued(c) ==
  /\ At(c) = "open" /\ sub[c].initial = <<>> /\ sub[c].queue # <<>>
  /\ SetSub(c, [sub[c] EXCEPT !.queue = Tail(@)])
  /\ seen' = [seen EXCEPT ![c] = Append(@, Head(sub[c].queue))]
  /\ UNCHANGED <<log, mine, caches, sync, gaps, notes, base, world>>

\* The reader finds its subscriber closed.
EndOfStream(c) ==
  /\ At(c) = "open" /\ sub[c].initial = <<>> /\ sub[c].closed
  /\ Gone(c)
  /\ UNCHANGED <<log, mine, sync, gaps, notes, client, world>>

Disconnect(c) ==
  /\ At(c) # "off"
  /\ Fault("disconnect")
  /\ Gone(c)
  /\ UNCHANGED <<log, mine, sync, gaps, notes, client>>

-----------------------------------------------------------------------------

ServerStep ==
  \/ \E n \in Seqs :
       PublishReturns(n) \/ SyncForDeliver(n) \/ NotifyArrives(n)
  \/ SyncForBridge \/ SyncAgain \/ SyncRead \/ SyncUse
  \/ BridgeConnect \/ BridgeConsume

Reading(c) ==
  \/ LatestCached(c) \/ LatestRead(c) \/ LatestUse(c)
  \/ ReplayCached(c) \/ ReplayRead(c) \/ ReplayUse(c)
  \/ TakeInitial(c) \/ TakeQueued(c) \/ EndOfStream(c)

Next ==
  \/ \E how \in {"no", "publish", "persist"} : Commit(how)
  \/ Expire \/ DeleteExpired
  \/ ServerStep
  \/ BridgeLost
  \/ \E c \in Clients :
       \/ \E after \in Cursors : Connect(c, after)
       \/ Reading(c)
       \/ Disconnect(c)

Spec == Init /\ [][Next]_vars

\* Every task of the event loop goes on when it can, and clients reconnect.
\* asyncio.Lock serves its waiters in the order they came, so a task that
\* waits for the synchronize lock gets it although others take it in between:
\* strong fairness.  Nothing makes producers publish, or any fault happen.
Fairness ==
  /\ WF_vars(\E n \in Seqs : PublishReturns(n))
  /\ WF_vars(\E n \in Seqs : NotifyArrives(n))
  /\ SF_vars(\E n \in Seqs : SyncForDeliver(n))
  /\ SF_vars(SyncForBridge)
  /\ WF_vars(SyncAgain \/ SyncRead \/ SyncUse)
  /\ WF_vars(BridgeConnect \/ BridgeConsume)
  /\ \A c \in Clients :
       /\ WF_vars(\E after \in Cursors : Connect(c, after))
       /\ WF_vars(Reading(c))

FairSpec == Spec /\ Fairness

-----------------------------------------------------------------------------
\* Properties

\* Everything a client is owed up to number n.
Owed(c, n) == Sorted({m \in Matching : base[c] < m /\ m <= n})

\* A client never has a silent hole, a duplicate or a reordering, across
\* replay, hand-over, live delivery, drops and reconnects with its
\* Last-Event-ID: what it has received is always exactly what it is owed up
\* to the last event received.
NoSilentGap ==
  \A c \in Clients :
    seen[c] # <<>> => seen[c] = Owed(c, seen[c][Len(seen[c])])

\* The reason: from the hand-over on, what was received, what is in hand,
\* what is still to be read from the replay and what is queued add up to all
\* events through last_sequence.
Handed(c) == IF sub[c].hand = None THEN <<>> ELSE <<sub[c].hand>>

CursorAccountsForAll ==
  \A c \in Clients :
    (At(c) # "off" /\ sub[c].state # "REPLAYING" /\ ~sub[c].closed) =>
      seen[c] \o Handed(c) \o sub[c].initial \o sub[c].queue
        = Owed(c, sub[c].last)

\* Without the bridge, on one instance: every event reaches every client that
\* keeps reconnecting, whatever phase its subscription is in when the event
\* is committed.
EventuallySeen ==
  \A c \in Clients :
    <>[](~world.bridged =>
           \A n \in rows \intersect Matching :
             base[c] >= n \/ \E i \in DOMAIN seen[c] : seen[c][i] = n)

\* With the bridge: an event that has been notified reaches a subscriber that
\* is LIVE by then, or that subscriber is closed and its client told so,
\* through queue overflow, coalesced notifications and loss of the connection.
LiveSubscriberCatchesUp ==
  \A c \in Clients, n \in Seqs :
    (c \in LiveSubs /\ sub[c].last < n /\ n \in sent \union bridge.queue)
      ~> (c \notin LiveSubs \/ sub[c].last >= n)

=============================================================================
