------------------------- MODULE RelaySubscriptions -------------------------
(***************************************************************************)
(* Live subscriptions of one relay node: the subscription registry         *)
(* (buzz-relay/src/subscription.rs), the REQ and CLOSE handlers, the       *)
(* clean-up of a connection, the eviction of a member who lost a channel,  *)
(* and the Redis topics the node listens to for them (buzz-pubsub).        *)
(*                                                                         *)
(* A REQ runs in a task of its own; CLOSE and the clean-up run in the      *)
(* connection's receive loop; evictions run beside both.  The registry     *)
(* keeps the subscriptions, under a lock for each connection, and an index *)
(* for fan-out, under a lock for each key: a registration enters it key by *)
(* key, a removal takes its entries out key by key, and a key left empty   *)
(* is deleted in a step of its own, with whatever it holds by then.        *)
(* Topics are reference-counted: a registration retains its topics in a    *)
(* later step than it registers, and whoever removes it releases them.     *)
(*                                                                         *)
(* One community; filters are abstracted to the topics they select, so the *)
(* kind and #p indexes are one index with a key for each topic.  Redis,    *)
(* the other nodes and the database are external.                          *)
(***************************************************************************)
EXTENDS Integers, Sequences, SequencesExt, FiniteSets

CONSTANTS
    Conn, SubId, Channel,
    MaxSubs,      \* MAX_SUBSCRIPTIONS
    MaxHandlers,  \* permits of handler_semaphore
    Plans         \* bounds: what may happen in a run.  For each connection
                  \* how many REQs, CLOSEs, losses and revocations; how many
                  \* events and Redis outages; the REQs to choose from

Global == "global"
Topic == Channel \cup {Global}
(* A subscription has channels or the global scope.                        *)
Scope == ((SUBSET Channel) \ {{}}) \cup {{Global}}
Plan == [at : [Conn -> [reqs : Nat, closes : Nat, losses : Nat, revokes : Nat]],
         events : Nat, outages : Nat, asks : SUBSET (SubId \X Scope)]

ASSUME RelaySubscriptionsAssumption ==
    /\ IsFiniteSet(Conn) /\ IsFiniteSet(SubId) /\ IsFiniteSet(Channel)
    /\ Global \notin Channel /\ Plans \subseteq Plan
    /\ MaxSubs \in Nat \ {0} /\ MaxHandlers \in Nat \ {0}

VARIABLES
    status,   \* of a connection: "open", "leaving", "gone"
    member,   \* the channels each connection's user may read
    local,    \* conn.subscriptions: the ids the limit counts
    subs,     \* the registry: the scope of each subscription, {} if none
    index,    \* the fan-out indexes: their entries ...
    keys,     \* ... and the keys present, some without an entry
    jobs,     \* the calls of remove_from_index under way
    tasks,    \* the REQ handlers, in order of dispatch
    inline,   \* what the receive loop of a connection is doing
    evictor,  \* the eviction under way
    count,    \* desired_topics
    timers,   \* topics with a debounced unsubscribe pending
    cmds,     \* commands to the Redis subscriber task
    redis,    \* that task
    active,   \* the topics it is subscribed to
    event,    \* an event and how far it has come
    got,      \* the subscriptions it was sent to
    plan,     \* what may still happen in this run
    stray,    \* history: topics released by an eviction that found the
              \* subscription replaced by one without the channel
    lost,     \* history: index entries deleted with a key that was empty
              \* when it was looked at, and not put back
    short     \* history: the subscriptions whose history query failed, or
              \* was full before it came to the event

indexVars == <<index, keys, lost>>
regVars == <<local, subs, indexVars, jobs>>
topicVars == <<count, timers, cmds>>
redisVars == <<redis, active>>
eventVars == <<event, got, short>>
connVars == <<status, member>>
vars == <<connVars, regVars, tasks, inline, evictor, topicVars, redisVars, eventVars,
          plan, stray>>

Idle == [pc |-> "idle"]

Init ==
    /\ status = [c \in Conn |-> "open"] /\ member = [c \in Conn |-> Channel]
    /\ local = [c \in Conn |-> {}]
    /\ subs = [c \in Conn |-> [s \in SubId |-> {}]]
    /\ index = {} /\ keys = {} /\ lost = {} /\ jobs = {}
    /\ tasks = <<>> /\ inline = [c \in Conn |-> Idle] /\ evictor = Idle
    /\ count = [t \in Topic |-> 0] /\ timers = {} /\ cmds = <<>>
    /\ redis = [pc |-> "loop", todo |-> {}] /\ active = {}
    /\ event = Idle /\ got = {} /\ short = {}
    /\ plan \in Plans /\ stray = {}

Spend(k) == plan[k] > 0 /\ plan' = [plan EXCEPT ![k] = @ - 1]
SpendAt(c, k) == plan.at[c][k] > 0 /\ plan' = [plan EXCEPT !.at[c][k] = @ - 1]

(***************************************************************************)
(* Topics: retain_topic and release_topic.                                 *)
(***************************************************************************)

LoweredAnyway(n) == n - 1
(* A release of a topic that nobody retains is ignored.                    *)
Lowered(n) == IF n = 0 THEN 0 ELSE n - 1

(* The last release starts the debounce.                                   *)
Release(t) ==
    /\ count' = [count EXCEPT ![t] = Lowered(@)]
    /\ timers' = IF count[t] = 1 THEN timers \cup {t} ELSE timers
    /\ UNCHANGED cmds

DebounceEnds(t) ==
    /\ t \in timers
    /\ timers' = timers \ {t} /\ cmds' = Append(cmds, [op |-> "unsubscribe", topic |-> t])
    /\ UNCHANGED <<connVars, regVars, tasks, inline, evictor, count, redisVars, eventVars,
                   plan, stray>>

(***************************************************************************)
(* The registry.                                                           *)
(***************************************************************************)

(* Topics are released and retained one after the other, in some order.    *)
First(S) == CHOOSE t \in S : TRUE

Entries(c, s, scope) == {c} \X {s} \X scope

(* A removal holds the lock of its connection's subscriptions until the    *)
(* index is done with; only the clean-up lets go of it before.             *)
Job == [conn : Conn, by : {"req", "close", "evict", "clean"}, todo : SUBSET (SubId \X Topic),
        drop : SUBSET Topic]
Locked(c) == \E j \in jobs : j.conn = c /\ j.by # "clean"
Over(j) == j.todo = {} /\ j.drop = {}

Started(c, by, todo) ==
    {j \in {[conn |-> c, by |-> by, todo |-> todo, drop |-> {}]} : ~Over(j)}
Continued(j, k) == (jobs \ {j}) \cup {x \in {k} : ~Over(x)}

(* remove_from_index, for one key: the entry goes, and the key is found    *)
(* empty or not, under the lock of the key ...                             *)
Unindex(j) ==
    /\ j.drop = {}
    /\ LET p == First(j.todo)
           entry == <<j.conn, p[1], p[2]>>
           emptied == {t \in keys \cap {p[2]} : \A x \in index : x[3] = t => x = entry}
       IN  /\ index' = index \ {entry} /\ lost' = lost \ {entry}
           /\ jobs' = Continued(j, [j EXCEPT !.todo = @ \ {p}, !.drop = emptied])
    /\ UNCHANGED <<connVars, local, subs, keys, tasks, inline, evictor, topicVars,
                   redisVars, eventVars, plan, stray>>

(* ... which is given back before the key is removed, so that an entry     *)
(* put there in between is removed with it.                                *)
DropKey(j) ==
    /\ j.drop # {}
    /\ index' = {x \in index : x[3] \notin j.drop} /\ keys' = keys \ j.drop
    /\ lost' = lost \cup (index \ index')
    /\ jobs' = Continued(j, [j EXCEPT !.drop = {}])
    /\ UNCHANGED <<connVars, local, subs, tasks, inline, evictor, topicVars, redisVars,
                   eventVars, plan, stray>>

(* remove_subscription, which starts the removal from the index.           *)
Unregister(c, s, by) ==
    /\ ~Locked(c)
    /\ subs' = [subs EXCEPT ![c][s] = {}]
    /\ jobs' = jobs \cup Started(c, by, {s} \X subs[c][s])

(***************************************************************************)
(* handle_req.                                                             *)
(***************************************************************************)

Running == {i \in DOMAIN tasks : tasks[i].pc # "done"}
Goto(i, pc) == tasks' = [tasks EXCEPT ![i].pc = pc]

(* The receive loop spawns the handler if a permit is free.                *)
Dispatch(c, s, ask) ==
    /\ status[c] = "open" /\ inline[c] = Idle
    /\ Cardinality(Running) < MaxHandlers /\ SpendAt(c, "reqs")
    /\ tasks' = Append(tasks, [conn |-> c, sub |-> s, ask |-> ask, scope |-> {},
                               rest |-> {}, todo |-> {}, told |-> Global, pc |-> "check"])
    /\ UNCHANGED <<connVars, regVars, inline, evictor, topicVars, redisVars, eventVars, stray>>

(* The limit on subscriptions, and the channels the user may read.         *)
Check(i) ==
    /\ tasks[i].pc = "check"
    /\ LET c == tasks[i].conn
           s == tasks[i].sub
           scope == tasks[i].ask \cap (member[c] \cup {Global})
           refused == \/ s \notin local[c] /\ Cardinality(local[c]) >= MaxSubs
                      \/ scope = {}
       IN  tasks' = [tasks EXCEPT ![i].scope = scope,
                                  ![i].pc = IF refused THEN "done" ELSE "replace"]
    /\ UNCHANGED <<connVars, regVars, inline, evictor, topicVars, redisVars, eventVars,
                   plan, stray>>

(* The connection notes the id.  Then register_with_scope, in three steps: *)
(* a subscription of the same name is removed, the new one is stored, then *)
(* indexed.                                                                *)
Replace(i) ==
    /\ tasks[i].pc = "replace"
    /\ local' = [local EXCEPT ![tasks[i].conn] = @ \cup {tasks[i].sub}]
    /\ Unregister(tasks[i].conn, tasks[i].sub, "req")
    /\ tasks' = [tasks EXCEPT ![i].todo = subs[tasks[i].conn][tasks[i].sub],
                              ![i].pc = "store"]
    /\ UNCHANGED <<connVars, indexVars, inline, evictor, topicVars, redisVars, eventVars,
                   plan, stray>>

Store(i) ==
    /\ tasks[i].pc = "store" /\ ~Locked(tasks[i].conn)
    /\ subs' = [subs EXCEPT ![tasks[i].conn][tasks[i].sub] = tasks[i].scope]
    /\ tasks' = [tasks EXCEPT ![i].rest = tasks[i].scope, ![i].pc = "index"]
    /\ UNCHANGED <<connVars, local, indexVars, jobs, inline, evictor, topicVars,
                   redisVars, eventVars, plan, stray>>

ToRetainInactive(scope) == scope \ active
(* Every topic is retained, whether or not the node listens to it already. *)
ToRetain(scope) == scope

AfterRetain(todo) == IF todo = {} THEN "query" ELSE "retain"
StartRetain(i) ==
    tasks' = [tasks EXCEPT ![i].todo = ToRetain(tasks[i].scope),
                           ![i].pc = AfterRetain(ToRetain(tasks[i].scope))]

(* One key after the other, each under its own lock.                       *)
Index(i) ==
    /\ tasks[i].pc = "index"
    /\ LET t == First(tasks[i].rest)
           entry == <<tasks[i].conn, tasks[i].sub, t>>
       IN  /\ index' = index \cup {entry} /\ keys' = keys \cup {t} /\ lost' = lost \ {entry}
           /\ IF tasks[i].rest # {t} THEN tasks' = [tasks EXCEPT ![i].rest = @ \ {t}]
              ELSE IF tasks[i].todo = {} THEN StartRetain(i) ELSE Goto(i, "release")
    /\ UNCHANGED <<connVars, local, subs, jobs, inline, evictor, topicVars, redisVars,
                   eventVars, plan, stray>>

(* The topics of the subscription replaced are released.                   *)
ReleaseReplaced(i) ==
    /\ tasks[i].pc = "release"
    /\ LET t == First(tasks[i].todo) IN
       /\ Release(t)
       /\ IF tasks[i].todo = {t} THEN StartRetain(i)
                                 ELSE tasks' = [tasks EXCEPT ![i].todo = @ \ {t}]
    /\ UNCHANGED <<connVars, regVars, inline, evictor, redisVars, eventVars, plan, stray>>

(* Each topic is retained; for the first retain the Redis task is told,    *)
(* after the lock is released.                                             *)
Retain(i) ==
    /\ tasks[i].pc = "retain"
    /\ LET t == First(tasks[i].todo) IN
       /\ count' = [count EXCEPT ![t] = @ + 1]
       /\ tasks' = [tasks EXCEPT ![i].todo = @ \ {t},
                      ![i].pc = IF count[t] = 0 THEN "tell" ELSE AfterRetain(tasks[i].todo \ {t}),
                      ![i].told = t]
    /\ UNCHANGED <<connVars, regVars, inline, evictor, timers, cmds, redisVars, eventVars,
                   plan, stray>>

Tell(i) ==
    /\ tasks[i].pc = "tell" /\ Goto(i, AfterRetain(tasks[i].todo))
    /\ cmds' = Append(cmds, [op |-> "subscribe", topic |-> tasks[i].told])
    /\ UNCHANGED <<connVars, regVars, inline, evictor, count, timers, redisVars, eventVars,
                   plan, stray>>

StoredAfterFanOut == event.pc = "done"
(* An event is committed before it is fanned out.                          *)
Stored == event.pc # "idle"

(* The stored events are sent, then EOSE.  A query that fails is answered  *)
(* by EOSE alone, and one that finds more than a page sends the newest.    *)
Query(i) ==
    /\ tasks[i].pc = "query" /\ Goto(i, "done")
    /\ LET here == {p \in {<<tasks[i].conn, tasks[i].sub>>} :
                       Stored /\ event.topic \in tasks[i].scope}
       IN  \/ got' = got \cup here /\ UNCHANGED short
           \/ short' = short \cup here /\ UNCHANGED got
    /\ UNCHANGED <<connVars, regVars, inline, evictor, topicVars, redisVars, event,
                   plan, stray>>

ReqStep(i) ==
    \/ Check(i) \/ Replace(i) \/ Store(i) \/ Index(i)
    \/ ReleaseReplaced(i) \/ Retain(i) \/ Tell(i) \/ Query(i)

(***************************************************************************)
(* The receive loop: handle_close, and the clean-up when the socket ends.  *)
(***************************************************************************)

Inline(c, rec) == inline' = [inline EXCEPT ![c] = rec]
ThenRelease(todo) == IF todo = {} THEN Idle ELSE [pc |-> "releasing", todo |-> todo]

(* A CLOSE deregisters the subscription, releases its topics and is then   *)
(* acknowledged.                                                           *)
HandleClose(c, s) ==
    /\ status[c] = "open" /\ inline[c] = Idle /\ SpendAt(c, "closes")
    /\ local' = [local EXCEPT ![c] = @ \ {s}]
    /\ Unregister(c, s, "close")
    /\ Inline(c, ThenRelease({s} \X subs[c][s]))
    /\ UNCHANGED <<connVars, indexVars, tasks, evictor, topicVars, redisVars, eventVars, stray>>

Leave(c) ==
    /\ status[c] = "open" /\ inline[c] = Idle /\ SpendAt(c, "losses")
    /\ status' = [status EXCEPT ![c] = "leaving"]
    /\ UNCHANGED <<member, regVars, tasks, inline, evictor, topicVars, redisVars,
                   eventVars, stray>>

All(c) == {p \in SubId \X Topic : p[2] \in subs[c][p[1]]}

(* remove_connection: the lock is given back before the index is cleared.  *)
RemoveConnection(c) ==
    /\ status[c] = "leaving" /\ inline[c] = Idle /\ ~Locked(c)
    /\ subs' = [subs EXCEPT ![c] = [s \in SubId |-> {}]]
    /\ jobs' = jobs \cup Started(c, "clean", All(c))
    /\ Inline(c, [pc |-> "releasing", todo |-> All(c)])
    /\ UNCHANGED <<connVars, local, indexVars, tasks, evictor, topicVars, redisVars,
                   eventVars, plan, stray>>

(* The loop waits for the removal it started.                              *)
Unindexing(c) == \E j \in jobs : j.conn = c /\ j.by \in {"close", "clean"}

InlineRelease(c) ==
    /\ inline[c].pc = "releasing" /\ inline[c].todo # {} /\ ~Unindexing(c)
    /\ LET p == First(inline[c].todo)
           rest == inline[c].todo \ {p}
       IN  /\ Release(p[2])
           /\ Inline(c, IF status[c] = "open" THEN ThenRelease(rest)
                        ELSE [pc |-> "releasing", todo |-> rest])
    /\ UNCHANGED <<connVars, regVars, tasks, evictor, redisVars, eventVars, plan, stray>>

(* The connection manager forgets the connection.                          *)
Deregister(c) ==
    /\ status[c] = "leaving" /\ inline[c] = [pc |-> "releasing", todo |-> {}]
    /\ status' = [status EXCEPT ![c] = "gone"] /\ Inline(c, Idle)
    /\ UNCHANGED <<member, regVars, tasks, evictor, topicVars, redisVars, eventVars, plan, stray>>

(***************************************************************************)
(* evict_conn_channel_subscriptions, for a user who lost the channel.      *)
(***************************************************************************)

(* The subscriptions with the channel are listed under one lock ...        *)
Revoke(c, ch) ==
    /\ status[c] # "gone" /\ evictor = Idle /\ ch \in member[c] /\ ~Locked(c)
    /\ SpendAt(c, "revokes")
    /\ member' = [member EXCEPT ![c] = @ \ {ch}]
    /\ LET listed == {s \in SubId : ch \in subs[c][s]} IN
       evictor' = IF listed = {} THEN Idle
                  ELSE [pc |-> "strip", conn |-> c, channel |-> ch, todo |-> listed,
                        stripped |-> {}, removed |-> {}]
    /\ UNCHANGED <<status, regVars, tasks, inline, topicVars, redisVars, eventVars, stray>>

StrippedWhole(c, s, ch) == {s} \X subs[c][s]
(* Only the entry of the channel that is lost leaves the index.            *)
Stripped(c, s, ch) == {<<s, ch>>}

(* ... and stripped of it one by one, each under the lock taken again:     *)
(* without a new look whether the subscription has the channel still.      *)
Strip ==
    /\ evictor.pc = "strip" /\ evictor.todo # {} /\ ~Locked(evictor.conn)
    /\ LET c == evictor.conn
           ch == evictor.channel
           s == First(evictor.todo)
       IN  IF subs[c][s] \in {{}, {Global}}
           THEN /\ evictor' = [evictor EXCEPT !.todo = @ \ {s}]
                /\ UNCHANGED <<subs, jobs, stray>>
           ELSE /\ subs' = [subs EXCEPT ![c][s] = @ \ {ch}]
                /\ jobs' = jobs \cup Started(c, "evict", Stripped(c, s, ch))
                /\ evictor' = [evictor EXCEPT !.todo = @ \ {s}, !.stripped = @ \cup {s},
                                 !.removed = @ \cup (IF subs'[c][s] = {} THEN {s} ELSE {})]
                /\ stray' = IF ch \in subs[c][s] THEN stray ELSE stray \cup {ch}
    /\ UNCHANGED <<connVars, local, indexVars, tasks, inline, topicVars, redisVars,
                   eventVars, plan>>

(* The connection forgets those that had no other channel.                 *)
ForgetLocal ==
    /\ evictor.pc = "strip" /\ evictor.todo = {} /\ \A j \in jobs : j.by # "evict"
    /\ local' = [local EXCEPT ![evictor.conn] = @ \ evictor.removed]
    /\ evictor' = IF evictor.stripped = {} THEN Idle ELSE [evictor EXCEPT !.pc = "release"]
    /\ UNCHANGED <<connVars, subs, indexVars, jobs, tasks, inline, topicVars, redisVars, eventVars,
                   plan, stray>>

(* One release for every subscription stripped.                            *)
EvictRelease ==
    /\ evictor.pc = "release"
    /\ LET s == First(evictor.stripped) IN
       /\ Release(evictor.channel)
       /\ evictor' = IF evictor.stripped = {s} THEN Idle
                     ELSE [evictor EXCEPT !.stripped = @ \ {s}]
    /\ UNCHANGED <<connVars, regVars, tasks, inline, redisVars, eventVars, plan, stray>>

(***************************************************************************)
(* The Redis subscriber task: connect_and_subscribe.                       *)
(***************************************************************************)

(* On a new connection the topics wanted are read, then subscribed.        *)
RedisConnects ==
    /\ redis.pc = "down"
    /\ redis' = [pc |-> "connected", todo |-> {t \in Topic : count[t] > 0}]
    /\ UNCHANGED <<connVars, regVars, tasks, inline, evictor, topicVars, active, eventVars,
                   plan, stray>>

SubscribeInitial ==
    /\ redis.pc = "connected"
    /\ redis' = [pc |-> "loop", todo |-> {}] /\ active' = redis.todo
    /\ UNCHANGED <<connVars, regVars, tasks, inline, evictor, topicVars, eventVars, plan, stray>>

UnwantedAlways(t) == TRUE
(* desired_refcount, read when the command is handled.                     *)
Unwanted(t) == count[t] = 0

(* A topic is given up only if nobody wants it when the command is read.   *)
RedisCommand ==
    /\ redis.pc = "loop" /\ cmds # <<>>
    /\ cmds' = Tail(cmds)
    /\ LET t == Head(cmds).topic IN
       \/ Head(cmds).op = "subscribe" /\ active' = active \cup {t} /\ UNCHANGED redis
       \/ /\ Head(cmds).op = "unsubscribe" /\ UNCHANGED active
          /\ redis' = IF Unwanted(t) THEN [pc |-> "giving up", todo |-> {t}] ELSE redis
    /\ UNCHANGED <<connVars, regVars, tasks, inline, evictor, count, timers, eventVars,
                   plan, stray>>

GiveUp ==
    /\ redis.pc = "giving up"
    /\ active' = active \ redis.todo /\ redis' = [pc |-> "loop", todo |-> {}]
    /\ UNCHANGED <<connVars, regVars, tasks, inline, evictor, topicVars, eventVars, plan, stray>>

RedisDrops ==
    /\ redis.pc # "down" /\ Spend("outages")
    /\ redis' = [pc |-> "down", todo |-> {}] /\ active' = {}
    /\ UNCHANGED <<connVars, regVars, tasks, inline, evictor, topicVars, eventVars, stray>>

(***************************************************************************)
(* An event, committed by this node or by another one.                     *)
(***************************************************************************)

CommitEvent(t, origin) ==
    /\ event = Idle /\ Spend("events")
    /\ event' = [pc |-> "stored", topic |-> t, origin |-> origin, candidates |-> {},
               matched |-> {}]
    /\ UNCHANGED <<connVars, regVars, tasks, inline, evictor, topicVars, redisVars, got, short,
                   stray>>

(* This node fans its own events out itself, and skips the echo; another   *)
(* node's reach it on an active topic only.                                *)
Reach ==
    /\ event.pc = "stored"
    /\ event' = [event EXCEPT !.pc = IF event.origin = "remote" /\ event.topic \notin active
                                     THEN "missed" ELSE "here"]
    /\ UNCHANGED <<connVars, regVars, tasks, inline, evictor, topicVars, redisVars, got, short,
                   plan, stray>>

(* fan_out_scoped: the candidates are copied from the index, ...           *)
Candidates ==
    /\ event.pc = "here"
    /\ event' = [event EXCEPT !.pc = "matching",
                   !.candidates = {p \in Conn \X SubId : <<p[1], p[2], event.topic>> \in index}]
    /\ UNCHANGED <<connVars, regVars, tasks, inline, evictor, topicVars, redisVars, got, short,
                   plan, stray>>

(* ... each is matched with the registry, push_match, ...                  *)
Match(p) ==
    /\ event.pc = "matching" /\ p \in event.candidates /\ ~Locked(p[1])
    /\ event' = [event EXCEPT !.candidates = @ \ {p},
                   !.matched = IF event.topic \in subs[p[1]][p[2]] THEN @ \cup {p} ELSE @]
    /\ UNCHANGED <<connVars, regVars, tasks, inline, evictor, topicVars, redisVars, got, short,
                   plan, stray>>

(* ... and filter_fanout_by_access keeps the connections that may read the *)
(* channel.                                                                *)
Deliver ==
    /\ event.pc = "matching" /\ event.candidates = {}
    /\ event' = [event EXCEPT !.pc = "done"]
    /\ got' = got \cup {p \in event.matched : /\ status[p[1]] # "gone"
                                            /\ event.topic \in member[p[1]] \cup {Global}}
    /\ UNCHANGED <<connVars, regVars, tasks, inline, evictor, topicVars, redisVars, short,
                   plan, stray>>

Step ==
    \/ \E i \in DOMAIN tasks : ReqStep(i)
    \/ \E c \in Conn : RemoveConnection(c) \/ InlineRelease(c) \/ Deregister(c)
    \/ \E j \in jobs : Unindex(j) \/ DropKey(j)
    \/ Strip \/ ForgetLocal \/ EvictRelease
    \/ \E t \in Topic : DebounceEnds(t)
    \/ RedisConnects \/ SubscribeInitial \/ RedisCommand \/ GiveUp
    \/ Reach \/ Candidates \/ (\E p \in Conn \X SubId : Match(p)) \/ Deliver

Next ==
    \/ Step
    \/ \E c \in Conn, ask \in plan.asks : Dispatch(c, ask[1], ask[2]) \/ HandleClose(c, ask[1])
    \/ \E c \in Conn : Leave(c) \/ (\E ch \in Channel : Revoke(c, ch))
    \/ RedisDrops
    \/ \E t \in UNION {ask[2] : ask \in plan.asks}, o \in {"local", "remote"} : CommitEvent(t, o)

Spec == Init /\ [][Next]_vars

(* Tasks run to their end, timers fire, and the subscriber reconnects as   *)
(* often as Redis fails.                                                   *)
FairSpec == Spec /\ WF_vars(Step)

-----------------------------------------------------------------------------
(***************************************************************************)
(* Properties.                                                             *)
(***************************************************************************)

TaskType == [conn : Conn, sub : SubId, ask : SUBSET Topic, scope : SUBSET Topic,
             rest : SUBSET Topic, todo : SUBSET Topic, told : Topic,
             pc : {"check", "replace", "store", "index", "release", "retain",
                   "tell", "query", "done"}]

TypeOK ==
    /\ status \in [Conn -> {"open", "leaving", "gone"}] /\ member \in [Conn -> SUBSET Channel]
    /\ local \in [Conn -> SUBSET SubId]
    /\ subs \in [Conn -> [SubId -> Scope \cup {{}}]]
    /\ index \subseteq Conn \X SubId \X keys /\ keys \subseteq Topic /\ jobs \subseteq Job
    /\ \A i \in DOMAIN tasks : tasks[i] \in TaskType
    /\ Cardinality(Running) <= MaxHandlers
    /\ count \in [Topic -> Nat] /\ timers \subseteq Topic /\ active \subseteq Topic
    /\ got \cup short \subseteq Conn \X SubId /\ stray \subseteq Channel

TasksOf(c, s, pcs) ==
    {i \in DOMAIN tasks : tasks[i].conn = c /\ tasks[i].sub = s /\ tasks[i].pc \in pcs}

(* A subscription of an open connection is in the fan-out index for each   *)
(* of its channels, or its REQ is about to put it there, or the entry was  *)
(* lost with its key: no other removal, by a replacement, a CLOSE or an    *)
(* eviction that runs at the same time, takes an entry of a registration   *)
(* that stands (register_with_scope, remove_subscription_inner,            *)
(* remove_channel_subscriptions_scoped, remove_from_index).                *)
RegisteredIsIndexed ==
    \A c \in Conn, s \in SubId : status[c] = "open" =>
        \A t \in subs[c][s] :
            \/ <<c, s, t>> \in index \cup lost
            \/ \E i \in TasksOf(c, s, {"index"}) : t \in tasks[i].rest

Holders(t) == {p \in Conn \X SubId : t \in subs[p[1]][p[2]]}
(* Tasks that have registered the topic and not yet retained it.           *)
Retaining(t) ==
    {i \in DOMAIN tasks : \/ tasks[i].pc \in {"index", "release"} /\ t \in tasks[i].scope
                          \/ tasks[i].pc \in {"retain", "tell"} /\ t \in tasks[i].todo}
(* Releases of the topic still to come, by whoever removed a subscription. *)
Releasing(t) ==
    Cardinality({i \in DOMAIN tasks : /\ tasks[i].pc \in {"store", "index", "release"}
                                      /\ t \in tasks[i].todo})
    + Cardinality({p \in Conn \X SubId : /\ inline[p[1]] # Idle
                                         /\ <<p[2], t>> \in inline[p[1]].todo})
    + (IF evictor # Idle /\ evictor.channel = t THEN Cardinality(evictor.stripped) ELSE 0)

(* The reference count of a topic never falls behind: it covers the        *)
(* subscriptions that hold the topic and the releases still to come, once  *)
(* the retains still to come are added.  So a topic in use is not given    *)
(* up, although subscriptions are removed before their own retain, and     *)
(* replaced by two REQs at once; a topic that an eviction released for a   *)
(* replaced subscription is the exception (retain_topic, release_topic).   *)
CountCovers ==
    \A t \in Topic \ stray :
        count[t] + Cardinality(Retaining(t)) >= Cardinality(Holders(t)) + Releasing(t)

(* The subscriptions that hold the topic of the event and were not sent    *)
(* it, though their REQ is over and its history query went well.           *)
Missing ==
    {p \in Holders(event.topic) \ (got \cup short) :
        /\ status[p[1]] = "open" /\ event.topic \in member[p[1]] \cup {Global}
        /\ TasksOf(p[1], p[2], {"index", "release", "retain", "tell", "query"}) = {}}

(* No subscription misses an event between its history and its live feed:  *)
(* once the event was fanned out and the REQ has sent its history, the     *)
(* event was sent by one or the other.  The exceptions are an event of     *)
(* another node that was published before this node listened to the topic, *)
(* a history query that failed or was full, and a subscription whose index *)
(* entry was lost (handle_req, fan_out_scoped, connect_and_subscribe).     *)
NothingMissed ==
    event.pc = "done" => \A p \in Missing : <<p[1], p[2], event.topic>> \in lost

(* A subscription that was sent EOSE is sent the events that come later,   *)
(* by fan-out, as ARCHITECTURE.md says.  It is not: a removal that empties *)
(* the key of a topic deletes the key with the entry that a registration   *)
(* put there meanwhile (remove_from_index).                                *)
LiveAfterEose == event.pc = "done" => Missing = {}

(* The node comes to listen to every topic an open connection is           *)
(* subscribed to, whatever debounced unsubscriptions and Redis outages     *)
(* intervene (release_topic, connect_and_subscribe).                       *)
TopicsServed ==
    []<>(\A t \in Topic \ stray : Holders(t) # {} => t \in active)
=============================================================================
