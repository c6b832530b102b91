---------------------- MODULE RelaySubscriptionsProofs ----------------------
(***************************************************************************)
(* What holds of the subscription registry and its topics for any          *)
(* connections, subscriptions, channels, handlers and plans.               *)
(***************************************************************************)
EXTENDS RelaySubscriptions, SequenceTheorems, FiniteSetTheorems, TLAPS

TaskPC == {"check", "replace", "store", "index", "release", "retain", "tell", "query", "done"}
Task == [conn : Conn, sub : SubId, ask : Scope, scope : Scope \cup {{}}, rest : SUBSET Topic,
         todo : SUBSET Topic, told : Topic, pc : TaskPC]

(* A handler past its checks has a scope, and works off a list that is not *)
(* empty.                                                                  *)
TaskFits(k) ==
    /\ k.pc \notin {"check", "done"} => k.scope \in Scope
    /\ k.pc = "index" => k.rest # {} /\ k.rest \subseteq k.scope
    /\ k.pc \in {"release", "retain"} => k.todo # {}

ConnOK == /\ status \in [Conn -> {"open", "leaving", "gone"}]
          /\ member \in [Conn -> SUBSET Channel]
RegOK == /\ local \in [Conn -> SUBSET SubId]
         /\ subs \in [Conn -> [SubId -> Scope \cup {{}}]]
(* An entry has its key; a removal under way has something left to do.     *)
IndexOK == /\ index \subseteq Conn \X SubId \X keys /\ keys \subseteq Topic
           /\ jobs \subseteq Job /\ \A j \in jobs : ~Over(j)
TasksOK == /\ tasks \in Seq(Task) /\ \A i \in DOMAIN tasks : TaskFits(tasks[i])
           /\ Cardinality(Running) <= MaxHandlers
InlineRecord == [pc : {"releasing"}, todo : SUBSET (SubId \X Topic)]
InlineOK == inline \in [Conn -> {Idle} \cup InlineRecord]
EvictorRecord == [pc : {"strip", "release"}, conn : Conn, channel : Channel,
                  todo : SUBSET SubId, stripped : SUBSET SubId, removed : SUBSET SubId]
EvictorOK == /\ evictor \in {Idle} \cup EvictorRecord
             /\ evictor.pc = "release" => evictor.stripped # {}
Command == [op : {"subscribe", "unsubscribe"}, topic : Topic]
TopicOK == /\ count \in [Topic -> Nat] /\ timers \subseteq Topic
           /\ cmds \in Seq(Command)
RedisOK == /\ redis \in [pc : {"loop", "down", "connected", "giving up"}, todo : SUBSET Topic]
           /\ active \subseteq Topic
EventRecord == [pc : {"stored", "here", "missed", "matching", "done"}, topic : Topic,
                origin : {"local", "remote"}, candidates : SUBSET (Conn \X SubId),
                matched : SUBSET (Conn \X SubId)]
EventOK == /\ event \in {Idle} \cup EventRecord
           /\ got \subseteq Conn \X SubId /\ short \subseteq Conn \X SubId
PlanOK == /\ DOMAIN plan = {"at", "events", "outages", "asks"}
          /\ plan.asks \subseteq SubId \X Scope
StrayOK == stray \subseteq Channel

TypeInv == ConnOK /\ RegOK /\ IndexOK /\ TasksOK /\ InlineOK /\ EvictorOK /\ TopicOK
           /\ RedisOK /\ EventOK /\ PlanOK /\ StrayOK

(* A subscription is in the index or lost it with the key, or a handler    *)
(* will put it there.                                                      *)
Pending(c, s, t) ==
    \E i \in DOMAIN tasks : /\ tasks[i].conn = c /\ tasks[i].sub = s /\ tasks[i].pc = "index"
                            /\ t \in tasks[i].rest
Indexed(c, s, t) == <<c, s, t>> \in index \cup lost \/ Pending(c, s, t)
(* What a removal is about to take out of the index is not registered: the *)
(* lock of the connection keeps it so, or the connection is leaving.       *)
Stale(j) == \A p \in j.todo : status[j.conn] = "open" => p[2] \notin subs[j.conn][p[1]]
JobInv == \A j \in jobs : (j.by = "clean" => status[j.conn] # "open") /\ Stale(j)
EntryInv ==
    \A c \in Conn, s \in SubId : status[c] = "open" => \A t \in subs[c][s] : Indexed(c, s, t)

Sending == {"index", "release", "retain", "tell", "query"}

(* Once the candidates are copied, a subscription to the event's topic is  *)
(* among them, or lost its entry, or its handler will look for the event   *)
(* in the history.                                                         *)
Fed(c, s, t) ==
    \/ <<c, s>> \in got \cup short \/ <<c, s, t>> \in lost
    \/ event.pc = "matching" /\ <<c, s>> \in event.candidates \cup event.matched
    \/ \E i \in DOMAIN tasks : /\ tasks[i].conn = c /\ tasks[i].sub = s
                               /\ tasks[i].pc \in Sending /\ t \in tasks[i].scope
Due(c, s, t) == t \in subs[c][s] /\ status[c] = "open" /\ t \in member[c] \cup {Global}
FedInv ==
    event.pc \in {"matching", "done"} =>
        \A c \in Conn, s \in SubId : Due(c, s, event.topic) => Fed(c, s, event.topic)

-----------------------------------------------------------------------------
(* Scopes and topics. *)

LEMMA ScopeFacts ==
    /\ \A S \in Scope : S \subseteq Topic /\ S # {} /\ (S = {Global} \/ S \subseteq Channel)
    /\ \A S \in SUBSET Channel : S # {} => S \in Scope
    /\ {Global} \in Scope
    /\ Global \notin Channel /\ Channel \subseteq Topic /\ Global \in Topic
BY RelaySubscriptionsAssumption DEF Scope, Topic

LEMMA FirstIn == ASSUME NEW S, S # {} PROVE First(S) \in S
BY DEF First

LEMMA TypeNow ==
    ASSUME TypeInv
    PROVE  /\ ConnOK /\ RegOK /\ IndexOK /\ TasksOK /\ InlineOK /\ EvictorOK /\ TopicOK /\ RedisOK
           /\ EventOK /\ PlanOK /\ StrayOK
BY DEF TypeInv

LEMMA TaskNow ==
    ASSUME TasksOK, NEW i \in DOMAIN tasks
    PROVE  tasks[i] \in Task /\ TaskFits(tasks[i])
BY DEF TasksOK

-----------------------------------------------------------------------------
(* A step of one handler. *)

TaskGoes(i, pc, scope, todo) ==
    /\ tasks' \in Seq(Task) /\ DOMAIN tasks' = DOMAIN tasks
    /\ \A j \in DOMAIN tasks : j # i => tasks'[j] = tasks[j]
    /\ tasks'[i].conn = tasks[i].conn /\ tasks'[i].sub = tasks[i].sub
    /\ tasks'[i].pc = pc /\ tasks'[i].scope = scope /\ tasks'[i].todo = todo

LEMMA TaskSet ==
    ASSUME tasks \in Seq(Task), NEW i \in DOMAIN tasks, NEW r \in Task,
           r.conn = tasks[i].conn, r.sub = tasks[i].sub,
           tasks' = [tasks EXCEPT ![i] = r]
    PROVE  TaskGoes(i, r.pc, r.scope, r.todo)
<1>1. i \in 1..Len(tasks)
  OBVIOUS
<1>2. tasks' \in Seq(Task)
  BY <1>1, ExceptSeq
<1> QED
  BY <1>2 DEF TaskGoes

LEMMA TaskField ==
    ASSUME tasks \in Seq(Task), NEW i \in DOMAIN tasks, NEW pc \in TaskPC,
           NEW scope \in Scope \cup {{}}, NEW todo \in SUBSET Topic, NEW told \in Topic,
           tasks' = [tasks EXCEPT ![i] = [tasks[i] EXCEPT !.pc = pc, !.scope = scope,
                                            !.todo = todo, !.told = told]]
    PROVE  TaskGoes(i, pc, scope, todo)
<1> DEFINE r == [tasks[i] EXCEPT !.pc = pc, !.scope = scope, !.todo = todo, !.told = told]
<1>1. tasks[i] \in Task
  OBVIOUS
<1>2. r \in Task /\ r.conn = tasks[i].conn /\ r.sub = tasks[i].sub
      /\ r.pc = pc /\ r.scope = scope /\ r.todo = todo
  BY <1>1 DEF Task
<1> HIDE DEF r
<1>3. tasks' = [tasks EXCEPT ![i] = r]
  BY DEF r
<1> QED
  BY <1>2, <1>3, TaskSet

LEMMA GotoGoes ==
    ASSUME TasksOK, NEW i \in DOMAIN tasks, NEW pc \in TaskPC, Goto(i, pc)
    PROVE  TaskGoes(i, pc, tasks[i].scope, tasks[i].todo)
<1>1. tasks[i] \in Task /\ tasks \in Seq(Task)
  BY TaskNow DEF TasksOK
<1>2. /\ tasks[i].scope \in Scope \cup {{}} /\ tasks[i].todo \in SUBSET Topic
      /\ tasks[i].told \in Topic
  BY <1>1 DEF Task
<1>3. [tasks[i] EXCEPT !.pc = pc] =
        [tasks[i] EXCEPT !.pc = pc, !.scope = tasks[i].scope, !.todo = tasks[i].todo,
                         !.told = tasks[i].told]
  BY <1>1 DEF Task
<1>4. tasks' = [tasks EXCEPT ![i] = [tasks[i] EXCEPT !.pc = pc]]
  BY DEF Goto
<1> QED
  BY <1>1, <1>2, <1>3, <1>4, TaskField

LEMMA CheckGoes ==
    ASSUME TypeInv, NEW i \in DOMAIN tasks, Check(i)
    PROVE  \E scope \in Scope \cup {{}} :
               \/ TaskGoes(i, "done", scope, tasks[i].todo)
               \/ scope # {} /\ TaskGoes(i, "replace", scope, tasks[i].todo)
<1> DEFINE c == tasks[i].conn
           scope == tasks[i].ask \cap (member[c] \cup {Global})
<1>1. tasks[i] \in Task /\ tasks \in Seq(Task) /\ ConnOK
  BY TypeNow, TaskNow DEF TasksOK
<1>2. /\ c \in Conn /\ tasks[i].ask \in Scope /\ tasks[i].todo \in SUBSET Topic
      /\ tasks[i].told \in Topic
  BY <1>1 DEF Task
<1>3. member[c] \subseteq Channel
  BY <1>1, <1>2 DEF ConnOK
<1>4. scope \in Scope \cup {{}}
  <2>1. CASE tasks[i].ask = {Global}
    <3>1. scope = {Global}
      BY <2>1
    <3> QED
      BY <3>1, ScopeFacts
  <2>2. CASE tasks[i].ask \subseteq Channel
    <3>1. scope \in SUBSET Channel
      BY <2>2
    <3> QED
      BY <3>1, ScopeFacts
  <2> QED
    BY <1>2, <2>1, <2>2, ScopeFacts
<1> HIDE DEF c, scope
<1>5. PICK pc \in {"done", "replace"} :
         /\ tasks' = [tasks EXCEPT ![i].scope = scope, ![i].pc = pc]
         /\ pc = "replace" => scope # {}
  BY DEF Check, c, scope
<1>6. [tasks EXCEPT ![i].scope = scope, ![i].pc = pc] =
        [tasks EXCEPT ![i] = [tasks[i] EXCEPT !.scope = scope, !.pc = pc]]
  BY <1>1
<1> DEFINE r == [tasks[i] EXCEPT !.scope = scope, !.pc = pc]
<1>7. /\ r \in Task /\ r.conn = tasks[i].conn /\ r.sub = tasks[i].sub
      /\ r.pc = pc /\ r.scope = scope /\ r.todo = tasks[i].todo
  BY <1>1, <1>4 DEF Task, TaskPC
<1>8. tasks' = [tasks EXCEPT ![i] = r]
  BY <1>5, <1>6
<1> HIDE DEF r
<1>9. TaskGoes(i, pc, scope, tasks[i].todo)
  BY <1>1, <1>7, <1>8, TaskSet
<1> QED
  BY <1>4, <1>5, <1>9

LEMMA ReplaceGoes ==
    ASSUME TypeInv, NEW i \in DOMAIN tasks, Replace(i)
    PROVE  TaskGoes(i, "store", tasks[i].scope, subs[tasks[i].conn][tasks[i].sub])
<1> DEFINE todo == subs[tasks[i].conn][tasks[i].sub]
<1>1. tasks[i] \in Task /\ tasks \in Seq(Task) /\ RegOK
  BY TypeNow, TaskNow DEF TasksOK
<1>2. tasks[i].conn \in Conn /\ tasks[i].sub \in SubId
  BY <1>1 DEF Task
<1>3. todo \in Scope \cup {{}}
  BY <1>1, <1>2 DEF RegOK
<1>4. todo \in SUBSET Topic
  BY <1>3, ScopeFacts
<1>5. tasks' = [tasks EXCEPT ![i].todo = todo, ![i].pc = "store"]
  BY DEF Replace
<1> HIDE DEF todo
<1>6. [tasks EXCEPT ![i].todo = todo, ![i].pc = "store"] =
        [tasks EXCEPT ![i] = [tasks[i] EXCEPT !.todo = todo, !.pc = "store"]]
  BY <1>1
<1> DEFINE r == [tasks[i] EXCEPT !.todo = todo, !.pc = "store"]
<1>7. /\ r \in Task /\ r.conn = tasks[i].conn /\ r.sub = tasks[i].sub
      /\ r.pc = "store" /\ r.scope = tasks[i].scope /\ r.todo = todo
  BY <1>1, <1>4 DEF Task, TaskPC
<1>8. tasks' = [tasks EXCEPT ![i] = r]
  BY <1>5, <1>6
<1> HIDE DEF r
<1>9. TaskGoes(i, "store", tasks[i].scope, todo)
  BY <1>1, <1>7, <1>8, TaskSet
<1> QED
  BY <1>9 DEF todo

LEMMA StoreGoes ==
    ASSUME TypeInv, NEW i \in DOMAIN tasks, Store(i)
    PROVE  /\ TaskGoes(i, "index", tasks[i].scope, tasks[i].todo)
           /\ tasks'[i].rest = tasks[i].scope
<1> DEFINE scope == tasks[i].scope
           r == [tasks[i] EXCEPT !.rest = scope, !.pc = "index"]
<1>1. tasks[i] \in Task /\ tasks \in Seq(Task)
  BY TypeNow, TaskNow DEF TasksOK
<1>2. scope \in SUBSET Topic
  BY <1>1, ScopeFacts DEF Task
<1> HIDE DEF scope
<1>3. tasks' = [tasks EXCEPT ![i].rest = scope, ![i].pc = "index"]
  BY DEF Store, scope
<1>4. /\ r \in Task /\ r.conn = tasks[i].conn /\ r.sub = tasks[i].sub
      /\ r.pc = "index" /\ r.scope = tasks[i].scope /\ r.todo = tasks[i].todo
      /\ r.rest = scope
  BY <1>1, <1>2 DEF Task, TaskPC
<1>5. tasks' = [tasks EXCEPT ![i] = r]
  BY <1>1, <1>3
<1> HIDE DEF r
<1>6. TaskGoes(i, "index", tasks[i].scope, tasks[i].todo)
  BY <1>1, <1>4, <1>5, TaskSet
<1> QED
  BY <1>4, <1>5, <1>6 DEF scope

LEMMA StartRetainGoes ==
    ASSUME TypeInv, NEW i \in DOMAIN tasks, StartRetain(i), tasks[i].scope \in Scope
    PROVE  TaskGoes(i, "retain", tasks[i].scope, tasks[i].scope)
<1> DEFINE scope == tasks[i].scope
<1>1. tasks[i] \in Task /\ tasks \in Seq(Task)
  BY TypeNow, TaskNow DEF TasksOK
<1>2. scope # {} /\ scope \in SUBSET Topic
  BY ScopeFacts
<1>3. tasks' = [tasks EXCEPT ![i].todo = scope, ![i].pc = "retain"]
  BY <1>2 DEF StartRetain, ToRetain, AfterRetain
<1> HIDE DEF scope
<1>4. [tasks EXCEPT ![i].todo = scope, ![i].pc = "retain"] =
        [tasks EXCEPT ![i] = [tasks[i] EXCEPT !.todo = scope, !.pc = "retain"]]
  BY <1>1
<1> DEFINE r == [tasks[i] EXCEPT !.todo = scope, !.pc = "retain"]
<1>5. /\ r \in Task /\ r.conn = tasks[i].conn /\ r.sub = tasks[i].sub
      /\ r.pc = "retain" /\ r.scope = tasks[i].scope /\ r.todo = scope
  BY <1>1, <1>2 DEF Task, TaskPC
<1>6. tasks' = [tasks EXCEPT ![i] = r]
  BY <1>3, <1>4
<1> HIDE DEF r
<1>7. TaskGoes(i, "retain", tasks[i].scope, scope)
  BY <1>1, <1>5, <1>6, TaskSet
<1> QED
  BY <1>7 DEF scope

LEMMA IndexGoes ==
    ASSUME TypeInv, NEW i \in DOMAIN tasks, Index(i)
    PROVE  \E t \in tasks[i].rest :
             /\ index' = index \cup {<<tasks[i].conn, tasks[i].sub, t>>}
             /\ lost' = lost \ {<<tasks[i].conn, tasks[i].sub, t>>}
             /\ keys' = keys \cup {t}
             /\ \/ /\ tasks[i].rest = {t} /\ tasks[i].todo = {}
                   /\ TaskGoes(i, "retain", tasks[i].scope, tasks[i].scope)
                \/ /\ tasks[i].rest = {t} /\ tasks[i].todo # {}
                   /\ TaskGoes(i, "release", tasks[i].scope, tasks[i].todo)
                \/ /\ TaskGoes(i, "index", tasks[i].scope, tasks[i].todo)
                   /\ tasks[i].rest \ {t} # {} /\ tasks'[i].rest = tasks[i].rest \ {t}
<1> DEFINE t == First(tasks[i].rest)
<1>1. TasksOK /\ TaskFits(tasks[i]) /\ tasks[i] \in Task /\ tasks \in Seq(Task)
  BY TypeNow, TaskNow DEF TasksOK
<1>2. tasks[i].scope \in Scope /\ tasks[i].rest # {} /\ tasks[i].pc = "index"
  BY <1>1 DEF TaskFits, Index
<1>3. t \in tasks[i].rest
  BY <1>2, FirstIn
<1>4. /\ index' = index \cup {<<tasks[i].conn, tasks[i].sub, t>>}
      /\ lost' = lost \ {<<tasks[i].conn, tasks[i].sub, t>>}
      /\ keys' = keys \cup {t}
      /\ IF tasks[i].rest # {t} THEN tasks' = [tasks EXCEPT ![i].rest = @ \ {t}]
         ELSE IF tasks[i].todo = {} THEN StartRetain(i) ELSE Goto(i, "release")
  BY DEF Index
<1> HIDE DEF t
<1>5. CASE tasks[i].rest = {t} /\ tasks[i].todo = {}
  <2>1. StartRetain(i)
    BY <1>4, <1>5
  <2>2. TaskGoes(i, "retain", tasks[i].scope, tasks[i].scope)
    BY <1>2, <2>1, StartRetainGoes
  <2> QED
    BY <1>3, <1>4, <1>5, <2>2
<1>6. CASE tasks[i].rest = {t} /\ tasks[i].todo # {}
  <2>1. Goto(i, "release")
    BY <1>4, <1>6
  <2>2. TaskGoes(i, "release", tasks[i].scope, tasks[i].todo)
    BY <1>1, <2>1, GotoGoes DEF TaskPC
  <2> QED
    BY <1>3, <1>4, <1>6, <2>2
<1>7. CASE tasks[i].rest # {t}
  <2> DEFINE r == [tasks[i] EXCEPT !.rest = tasks[i].rest \ {t}]
  <2>1. tasks' = [tasks EXCEPT ![i] = r]
    BY <1>1, <1>4, <1>7
  <2>2. /\ r \in Task /\ r.conn = tasks[i].conn /\ r.sub = tasks[i].sub
        /\ r.pc = "index" /\ r.scope = tasks[i].scope /\ r.todo = tasks[i].todo
        /\ r.rest = tasks[i].rest \ {t}
    BY <1>1, <1>2 DEF Task
  <2> HIDE DEF r
  <2>3. TaskGoes(i, "index", tasks[i].scope, tasks[i].todo)
    BY <1>1, <2>1, <2>2, TaskSet
  <2>4. tasks'[i].rest = tasks[i].rest \ {t} /\ tasks[i].rest \ {t} # {}
    BY <1>1, <1>3, <1>7, <2>1, <2>2
  <2> QED
    BY <1>3, <1>4, <2>3, <2>4
<1> QED
  BY <1>5, <1>6, <1>7

LEMMA ReleaseGoes ==
    ASSUME TypeInv, NEW i \in DOMAIN tasks, ReleaseReplaced(i)
    PROVE  \E t \in tasks[i].todo :
              /\ Release(t)
              /\ \/ /\ tasks[i].todo = {t}
                    /\ TaskGoes(i, "retain", tasks[i].scope, tasks[i].scope)
                 \/ /\ tasks[i].todo \ {t} # {}
                    /\ TaskGoes(i, "release", tasks[i].scope, tasks[i].todo \ {t})
<1> DEFINE t == First(tasks[i].todo)
<1>1. TasksOK /\ TaskFits(tasks[i]) /\ tasks[i] \in Task /\ tasks \in Seq(Task)
  BY TypeNow, TaskNow DEF TasksOK
<1>2. tasks[i].scope \in Scope /\ tasks[i].todo # {} /\ tasks[i].pc = "release"
  BY <1>1 DEF TaskFits, ReleaseReplaced
<1>3. t \in tasks[i].todo
  BY <1>2, FirstIn
<1>4. /\ Release(t)
      /\ IF tasks[i].todo = {t} THEN StartRetain(i)
                                ELSE tasks' = [tasks EXCEPT ![i].todo = @ \ {t}]
  BY DEF ReleaseReplaced
<1> HIDE DEF t
<1>5. CASE tasks[i].todo = {t}
  BY <1>2, <1>3, <1>4, <1>5, StartRetainGoes
<1>6. CASE tasks[i].todo # {t}
  <2> DEFINE r == [tasks[i] EXCEPT !.todo = tasks[i].todo \ {t}]
  <2>1. tasks' = [tasks EXCEPT ![i] = r]
    BY <1>1, <1>4, <1>6
  <2>2. /\ r \in Task /\ r.conn = tasks[i].conn /\ r.sub = tasks[i].sub
        /\ r.pc = "release" /\ r.scope = tasks[i].scope /\ r.todo = tasks[i].todo \ {t}
    BY <1>1, <1>2 DEF Task
  <2> HIDE DEF r
  <2>3. TaskGoes(i, "release", tasks[i].scope, tasks[i].todo \ {t})
    BY <1>1, <2>1, <2>2, TaskSet
  <2> QED
    BY <1>3, <1>4, <1>6, <2>3
<1> QED
  BY <1>5, <1>6

LEMMA RetainGoes ==
    ASSUME TypeInv, NEW i \in DOMAIN tasks, Retain(i)
    PROVE  \E t \in tasks[i].todo, pc \in {"tell", "retain", "query"} :
              /\ count' = [count EXCEPT ![t] = @ + 1]
              /\ pc = "retain" => tasks[i].todo \ {t} # {}
              /\ pc = "query" => tasks[i].todo \ {t} = {}
              /\ TaskGoes(i, pc, tasks[i].scope, tasks[i].todo \ {t})
<1> DEFINE t == First(tasks[i].todo)
           pc == IF count[t] = 0 THEN "tell" ELSE AfterRetain(tasks[i].todo \ {t})
           todo == tasks[i].todo \ {t}
           r == [tasks[i] EXCEPT !.todo = todo, !.pc = pc, !.told = t]
<1>1. TasksOK /\ TaskFits(tasks[i]) /\ tasks[i] \in Task /\ tasks \in Seq(Task)
  BY TypeNow, TaskNow DEF TasksOK
<1>2. tasks[i].todo # {}
  BY <1>1 DEF TaskFits, Retain
<1>3. t \in tasks[i].todo
  BY <1>2, FirstIn
<1>4. /\ count' = [count EXCEPT ![t] = @ + 1]
      /\ tasks' = [tasks EXCEPT ![i].todo = @ \ {t}, ![i].pc = pc, ![i].told = t]
  BY DEF Retain
<1>5. /\ pc \in {"tell", "retain", "query"} /\ (pc = "retain" => todo # {})
      /\ (pc = "query" => todo = {})
  BY DEF AfterRetain
<1> HIDE DEF pc, t
<1>6. todo \in SUBSET Topic /\ t \in Topic
  BY <1>1, <1>3 DEF Task
<1>7. tasks' = [tasks EXCEPT ![i] = r]
  BY <1>1, <1>4
<1>8. /\ r \in Task /\ r.conn = tasks[i].conn /\ r.sub = tasks[i].sub
      /\ r.pc = pc /\ r.scope = tasks[i].scope /\ r.todo = todo
  BY <1>1, <1>5, <1>6 DEF Task, TaskPC
<1> HIDE DEF r
<1>9. TaskGoes(i, pc, tasks[i].scope, todo)
  BY <1>1, <1>7, <1>8, TaskSet
<1> QED
  BY <1>3, <1>4, <1>5, <1>9

LEMMA TellGoes ==
    ASSUME TypeInv, NEW i \in DOMAIN tasks, Tell(i)
    PROVE  \/ tasks[i].todo = {} /\ TaskGoes(i, "query", tasks[i].scope, tasks[i].todo)
           \/ tasks[i].todo # {} /\ TaskGoes(i, "retain", tasks[i].scope, tasks[i].todo)
<1>1. TasksOK
  BY TypeNow
<1>2. /\ AfterRetain(tasks[i].todo) \in TaskPC
      /\ AfterRetain(tasks[i].todo) = IF tasks[i].todo = {} THEN "query" ELSE "retain"
  BY DEF AfterRetain, TaskPC
<1> QED
  BY <1>1, <1>2, GotoGoes DEF Tell

LEMMA QueryGoes ==
    ASSUME TypeInv, NEW i \in DOMAIN tasks, Query(i)
    PROVE  TaskGoes(i, "done", tasks[i].scope, tasks[i].todo)
BY TypeNow, GotoGoes DEF Query, TaskPC

(* A step that leaves the handler in order leaves all of them in order.    *)
LEMMA TasksKept ==
    ASSUME TasksOK, NEW i \in DOMAIN tasks, NEW pc, NEW scope, NEW todo,
           TaskGoes(i, pc, scope, todo), tasks[i].pc # "done",
           pc \notin {"check", "done"} => scope \in Scope,
           pc \in {"release", "retain"} => todo # {},
           pc = "index" => tasks'[i].rest # {} /\ tasks'[i].rest \subseteq scope
    PROVE  TasksOK'
<1>1. \A j \in DOMAIN tasks' : TaskFits(tasks'[j])
  <2> SUFFICES ASSUME NEW j \in DOMAIN tasks'
               PROVE  TaskFits(tasks'[j])
    OBVIOUS
  <2>1. j \in DOMAIN tasks
    BY DEF TaskGoes
  <2>2. CASE j = i
    BY <2>2 DEF TaskGoes, TaskFits
  <2>3. CASE j # i
    BY <2>1, <2>3 DEF TaskGoes, TasksOK
  <2> QED
    BY <2>2, <2>3
<1>2. Running' \subseteq Running
  BY DEF Running, TaskGoes
<1>3. IsFiniteSet(Running)
  <2>1. DOMAIN tasks = 1..Len(tasks) /\ Len(tasks) \in Nat
    BY DEF TasksOK
  <2>2. IsFiniteSet(1..Len(tasks))
    BY <2>1, FS_Interval
  <2>3. Running \subseteq 1..Len(tasks)
    BY <2>1 DEF Running
  <2> QED
    BY <2>2, <2>3, FS_Subset
<1>4. /\ Cardinality(Running') <= Cardinality(Running)
      /\ Cardinality(Running) \in Nat /\ Cardinality(Running') \in Nat
  BY <1>2, <1>3, FS_Subset, FS_CardinalityType
<1>5. MaxHandlers \in Nat /\ Cardinality(Running) <= MaxHandlers
  BY RelaySubscriptionsAssumption DEF TasksOK
<1>6. Cardinality(Running') <= MaxHandlers
  BY <1>4, <1>5
<1> QED
  BY <1>1, <1>6 DEF TasksOK, TaskGoes

(* Whatever a handler does, all of them stay in order.                     *)
LEMMA ReqStepKeeps ==
    ASSUME TypeInv, NEW i \in DOMAIN tasks, ReqStep(i)
    PROVE  TasksOK'
<1> DEFINE k == tasks[i]
<1>1. TasksOK /\ TaskFits(k) /\ k \in Task
  BY TypeNow, TaskNow
<1>2. CASE Check(i)
  <2>1. k.pc = "check"
    BY <1>2 DEF Check
  <2>2. PICK scope \in Scope \cup {{}} :
               \/ TaskGoes(i, "done", scope, k.todo)
               \/ scope # {} /\ TaskGoes(i, "replace", scope, k.todo)
    BY <1>2, CheckGoes
  <2>3. CASE TaskGoes(i, "done", scope, k.todo)
    BY <1>1, <2>1, <2>3, TasksKept
  <2>4. CASE scope # {} /\ TaskGoes(i, "replace", scope, k.todo)
    BY <1>1, <2>1, <2>4, TasksKept
  <2> QED
    BY <2>2, <2>3, <2>4
<1>3. CASE Replace(i)
  <2>1. k.pc = "replace" /\ k.scope \in Scope
    BY <1>1, <1>3 DEF Replace, TaskFits
  <2> QED
    BY <1>1, <1>3, <2>1, ReplaceGoes, TasksKept
<1>4. CASE Store(i)
  <2>1. k.pc = "store" /\ k.scope \in Scope
    BY <1>1, <1>4 DEF Store, TaskFits
  <2> QED
    BY <1>1, <1>4, <2>1, StoreGoes, ScopeFacts, TasksKept
<1>5. CASE Index(i)
  <2>1. k.pc = "index" /\ k.scope \in Scope
    BY <1>1, <1>5 DEF Index, TaskFits
  <2>2. k.scope # {}
    BY <2>1, ScopeFacts
  <2>3. \/ TaskGoes(i, "retain", k.scope, k.scope)
        \/ k.todo # {} /\ TaskGoes(i, "release", k.scope, k.todo)
        \/ /\ TaskGoes(i, "index", k.scope, k.todo)
           /\ tasks'[i].rest # {} /\ tasks'[i].rest \subseteq k.scope
    BY <1>1, <1>5, <2>1, IndexGoes DEF TaskFits
  <2> QED
    BY <1>1, <2>1, <2>2, <2>3, TasksKept
<1>6. CASE ReleaseReplaced(i)
  <2>1. k.pc = "release" /\ k.scope \in Scope
    BY <1>1, <1>6 DEF ReleaseReplaced, TaskFits
  <2>2. k.scope # {}
    BY <2>1, ScopeFacts
  <2>3. PICK t \in k.todo :
           \/ TaskGoes(i, "retain", k.scope, k.scope)
           \/ k.todo \ {t} # {} /\ TaskGoes(i, "release", k.scope, k.todo \ {t})
    BY <1>6, ReleaseGoes
  <2> QED
    BY <1>1, <2>1, <2>2, <2>3, TasksKept
<1>7. CASE Retain(i)
  <2>1. k.pc = "retain" /\ k.scope \in Scope
    BY <1>1, <1>7 DEF Retain, TaskFits
  <2>2. PICK t \in k.todo, pc \in {"tell", "retain", "query"} :
              /\ pc = "retain" => k.todo \ {t} # {}
              /\ TaskGoes(i, pc, k.scope, k.todo \ {t})
    BY <1>7, RetainGoes
  <2> QED
    BY <1>1, <2>1, <2>2, TasksKept
<1>8. CASE Tell(i)
  <2>1. k.pc = "tell" /\ k.scope \in Scope
    BY <1>1, <1>8 DEF Tell, TaskFits
  <2> QED
    BY <1>1, <1>8, <2>1, TellGoes, TasksKept
<1>9. CASE Query(i)
  <2>1. k.pc = "query"
    BY <1>9 DEF Query
  <2> QED
    BY <1>1, <1>9, <2>1, QueryGoes, TasksKept
<1> QED
  BY <1>2, <1>3, <1>4, <1>5, <1>6, <1>7, <1>8, <1>9 DEF ReqStep

LEMMA DispatchKeeps ==
    ASSUME TypeInv, NEW c \in Conn, NEW s \in SubId, NEW ask \in Scope, Dispatch(c, s, ask)
    PROVE  /\ TasksOK'
           /\ DOMAIN tasks' = DOMAIN tasks \cup {Len(tasks) + 1}
           /\ Len(tasks) + 1 \notin DOMAIN tasks
           /\ \A j \in DOMAIN tasks : tasks'[j] = tasks[j]
           /\ tasks'[Len(tasks) + 1].pc = "check"
<1> DEFINE n == Len(tasks) + 1
           r == [conn |-> c, sub |-> s, ask |-> ask, scope |-> {},
                 rest |-> {}, todo |-> {}, told |-> Global, pc |-> "check"]
<1>1. TasksOK /\ tasks \in Seq(Task) /\ Len(tasks) \in Nat
  BY TypeNow DEF TasksOK
<1>2. r \in Task /\ TaskFits(r) /\ r.pc = "check"
  BY ScopeFacts DEF Task, TaskPC, TaskFits
<1>3. tasks' = Append(tasks, r)
  BY DEF Dispatch
<1> HIDE DEF r
<1>4. /\ tasks' \in Seq(Task) /\ DOMAIN tasks = 1..Len(tasks) /\ DOMAIN tasks' = 1..n
      /\ (\A j \in DOMAIN tasks : tasks'[j] = tasks[j]) /\ tasks'[n] = r
  BY <1>1, <1>2, <1>3
<1>5. DOMAIN tasks' = DOMAIN tasks \cup {n} /\ n \notin DOMAIN tasks
  BY <1>1, <1>4
<1>6. \A j \in DOMAIN tasks' : TaskFits(tasks'[j])
  BY <1>1, <1>2, <1>4, <1>5 DEF TasksOK
<1>7. Running' = Running \cup {n} /\ n \notin Running
  BY <1>2, <1>4, <1>5 DEF Running
<1>8. IsFiniteSet(Running)
  <2>1. IsFiniteSet(1..Len(tasks))
    BY <1>1, FS_Interval
  <2>2. Running \subseteq 1..Len(tasks)
    BY <1>4 DEF Running
  <2> QED
    BY <2>1, <2>2, FS_Subset
<1>9. Cardinality(Running') = Cardinality(Running) + 1 /\ Cardinality(Running) \in Nat
  BY <1>7, <1>8, FS_AddElement, FS_CardinalityType
<1>10. Cardinality(Running) < MaxHandlers /\ MaxHandlers \in Nat
  BY RelaySubscriptionsAssumption DEF Dispatch
<1>11. Cardinality(Running') <= MaxHandlers
  BY <1>9, <1>10
<1> QED
  BY <1>2, <1>4, <1>5, <1>6, <1>11 DEF TasksOK

-----------------------------------------------------------------------------
(* Type correctness: what each kind of step does to the parts.             *)

LEMMA PlanKept ==
    ASSUME PlanOK, NEW c, NEW k, SpendAt(c, k)
    PROVE  PlanOK' /\ plan'.asks = plan.asks
BY DEF PlanOK, SpendAt

LEMMA PlanSpent ==
    ASSUME PlanOK, NEW k \in {"events", "outages"}, Spend(k)
    PROVE  PlanOK' /\ plan'.asks = plan.asks
BY DEF PlanOK, Spend

LEMMA ReleaseKeeps ==
    ASSUME TopicOK, NEW t \in Topic, Release(t)
    PROVE  TopicOK'
<1>1. count[t] \in Nat
  BY DEF TopicOK
<1>2. Lowered(count[t]) \in Nat
  BY <1>1 DEF Lowered
<1>3. count' = [count EXCEPT ![t] = Lowered(count[t])]
  BY DEF Release
<1>4. count' \in [Topic -> Nat]
  BY <1>2, <1>3 DEF TopicOK
<1>5. timers' \subseteq Topic /\ cmds' \in Seq(Command)
  BY DEF TopicOK, Release
<1> QED
  BY <1>4, <1>5 DEF TopicOK

LEMMA TasksSame == ASSUME TasksOK, UNCHANGED tasks PROVE TasksOK'
BY DEF TasksOK, Running, TaskFits

LEMMA UnregisterKeeps ==
    ASSUME RegOK, NEW c \in Conn, NEW s \in SubId, NEW by, Unregister(c, s, by)
    PROVE  /\ subs' \in [Conn -> [SubId -> Scope \cup {{}}]]
           /\ subs'[c][s] = {}
           /\ \A d \in Conn, u \in SubId : <<d, u>> # <<c, s>> => subs'[d][u] = subs[d][u]
BY DEF RegOK, Unregister

LEMMA StartedFits ==
    ASSUME NEW c \in Conn, NEW by \in {"req", "close", "evict", "clean"},
           NEW todo \in SUBSET (SubId \X Topic)
    PROVE  /\ Started(c, by, todo) \subseteq Job
           /\ \A j \in Started(c, by, todo) :
                 ~Over(j) /\ j.conn = c /\ j.by = by /\ j.todo = todo
<1> DEFINE r == [conn |-> c, by |-> by, todo |-> todo, drop |-> {}]
<1>1. r \in Job /\ r.conn = c /\ r.by = by /\ r.todo = todo
  BY DEF Job
<1> HIDE DEF r
<1>2. Started(c, by, todo) = {j \in {r} : ~Over(j)}
  BY DEF Started, r
<1> QED
  BY <1>1, <1>2

(* A removal that starts leaves the index and the others alone.            *)
LEMMA StartKeeps ==
    ASSUME IndexOK, NEW c \in Conn, NEW by \in {"req", "close", "evict", "clean"},
           NEW todo \in SUBSET (SubId \X Topic), UNCHANGED indexVars,
           jobs' = jobs \cup Started(c, by, todo)
    PROVE  IndexOK'
BY StartedFits DEF IndexOK, indexVars, Over

LEMMA UnregisterStarts ==
    ASSUME RegOK, NEW c \in Conn, NEW s \in SubId,
           NEW by \in {"req", "close", "evict", "clean"}, Unregister(c, s, by)
    PROVE  /\ {s} \X subs[c][s] \in SUBSET (SubId \X Topic)
           /\ jobs' = jobs \cup Started(c, by, {s} \X subs[c][s])
<1>1. subs[c][s] \in Scope \cup {{}}
  BY DEF RegOK
<1>2. subs[c][s] \in SUBSET Topic
  BY <1>1, ScopeFacts
<1> QED
  BY <1>2 DEF Unregister

LEMMA UnregisterTypes ==
    ASSUME RegOK, IndexOK, NEW c \in Conn, NEW s \in SubId,
           NEW by \in {"req", "close", "evict", "clean"}, Unregister(c, s, by),
           UNCHANGED indexVars
    PROVE  IndexOK'
<1> DEFINE todo == {s} \X subs[c][s]
<1>1. todo \in SUBSET (SubId \X Topic) /\ jobs' = jobs \cup Started(c, by, todo)
  BY UnregisterStarts
<1> HIDE DEF todo
<1> QED
  BY <1>1, StartKeeps

(* What a step of a removal does: it takes out an entry, or a key with     *)
(* all it holds, and never adds anything to its list.                      *)
LEMMA JobGoes ==
    ASSUME IndexOK, NEW j \in jobs, Unindex(j) \/ DropKey(j)
    PROVE  \E k \in Job :
             /\ k.conn = j.conn /\ k.by = j.by /\ k.todo \subseteq j.todo
             /\ jobs' = Continued(j, k)
             /\ \/ /\ UNCHANGED keys
                   /\ \E p \in j.todo :
                        /\ index' = index \ {<<j.conn, p[1], p[2]>>}
                        /\ lost' = lost \ {<<j.conn, p[1], p[2]>>}
                \/ /\ index' = {x \in index : x[3] \notin j.drop} /\ keys' = keys \ j.drop
                   /\ lost' = lost \cup (index \ index')
<1>1. j \in Job /\ ~Over(j)
  BY DEF IndexOK
<1>2. CASE Unindex(j)
  <2> DEFINE p == First(j.todo)
             entry == <<j.conn, p[1], p[2]>>
             emptied == {t \in keys \cap {p[2]} : \A x \in index : x[3] = t => x = entry}
             k == [j EXCEPT !.todo = j.todo \ {p}, !.drop = emptied]
  <2>1. p \in j.todo
    BY <1>1, <1>2, FirstIn DEF Unindex, Over
  <2>2. emptied \in SUBSET Topic
    BY DEF IndexOK
  <2>3. /\ index' = index \ {entry} /\ lost' = lost \ {entry} /\ UNCHANGED keys
        /\ jobs' = Continued(j, k)
    BY <1>2 DEF Unindex
  <2> HIDE DEF p, emptied
  <2>4. k \in Job /\ k.conn = j.conn /\ k.by = j.by /\ k.todo \subseteq j.todo
    BY <1>1, <2>2 DEF Job
  <2> HIDE DEF k
  <2> QED
    BY <2>1, <2>3, <2>4
<1>3. CASE DropKey(j)
  <2> DEFINE k == [j EXCEPT !.drop = {}]
  <2>1. /\ index' = {x \in index : x[3] \notin j.drop} /\ keys' = keys \ j.drop
        /\ lost' = lost \cup (index \ index') /\ jobs' = Continued(j, k)
    BY <1>3 DEF DropKey
  <2>2. k \in Job /\ k.conn = j.conn /\ k.by = j.by /\ k.todo \subseteq j.todo
    BY <1>1 DEF Job
  <2> HIDE DEF k
  <2> QED
    BY <2>1, <2>2
<1> QED
  BY <1>2, <1>3

LEMMA JobTypes ==
    ASSUME TypeInv, NEW j \in jobs, Unindex(j) \/ DropKey(j)
    PROVE  /\ TypeInv'
           /\ UNCHANGED <<status, member, local, subs, tasks, inline, evictor, count, event,
                          got, short, stray>>
<1>1. UNCHANGED <<status, member, local, subs, tasks, inline, evictor, count, timers, cmds,
                  redis, active, event, got, short, plan, stray>>
  BY DEF Unindex, DropKey, connVars, topicVars, redisVars, eventVars
<1>2. /\ ConnOK' /\ RegOK' /\ InlineOK' /\ EvictorOK' /\ TopicOK' /\ RedisOK' /\ EventOK'
      /\ PlanOK' /\ StrayOK'
  BY <1>1, TypeNow
  DEF ConnOK, RegOK, InlineOK, EvictorOK, TopicOK, RedisOK, EventOK, PlanOK, StrayOK
<1>3. TasksOK'
  BY <1>1, TypeNow, TasksSame
<1>4. IndexOK /\ index \subseteq Conn \X SubId \X keys
  BY TypeNow DEF IndexOK
<1>5. PICK k \in Job :
             /\ jobs' = Continued(j, k)
             /\ \/ UNCHANGED keys /\ index' \subseteq index
                \/ index' = {x \in index : x[3] \notin j.drop} /\ keys' = keys \ j.drop
  BY <1>4, JobGoes
<1>6. index' \subseteq Conn \X SubId \X keys' /\ keys' \subseteq Topic
  <2>1. CASE UNCHANGED keys /\ index' \subseteq index
    BY <1>4, <2>1 DEF IndexOK
  <2>2. CASE index' = {x \in index : x[3] \notin j.drop} /\ keys' = keys \ j.drop
    BY <1>4, <2>2 DEF IndexOK
  <2> QED
    BY <1>5, <2>1, <2>2
<1>7. jobs' \subseteq Job /\ \A x \in jobs' : ~Over(x)
  BY <1>4, <1>5 DEF IndexOK, Continued
<1>8. IndexOK'
  BY <1>6, <1>7 DEF IndexOK, Over
<1> QED
  BY <1>1, <1>2, <1>3, <1>8 DEF TypeInv

LEMMA SubsSet ==
    ASSUME RegOK, NEW c \in Conn, NEW s \in SubId, NEW S \in Scope \cup {{}},
           subs' = [subs EXCEPT ![c][s] = S]
    PROVE  /\ subs' \in [Conn -> [SubId -> Scope \cup {{}}]]
           /\ subs'[c][s] = S
           /\ \A d \in Conn, u \in SubId : <<d, u>> # <<c, s>> => subs'[d][u] = subs[d][u]
BY DEF RegOK

LEMMA ReqStepTypes ==
    ASSUME TypeInv, NEW i \in DOMAIN tasks, ReqStep(i)
    PROVE  TypeInv'
<1> DEFINE k == tasks[i]
<1>1. TasksOK /\ TaskFits(k) /\ k \in Task
  BY TypeNow, TaskNow
<1>2. k.conn \in Conn /\ k.sub \in SubId /\ k.todo \in SUBSET Topic /\ k.told \in Topic
  BY <1>1 DEF Task
<1>3. UNCHANGED <<status, member, inline, evictor, redis, active, event, plan, stray>>
  BY DEF ReqStep, Check, Replace, Store, Index, ReleaseReplaced, Retain, Tell, Query,
         connVars, redisVars, eventVars
<1>4. ConnOK' /\ InlineOK' /\ EvictorOK' /\ RedisOK' /\ PlanOK' /\ StrayOK'
  BY <1>3, TypeNow DEF ConnOK, InlineOK, EvictorOK, RedisOK, PlanOK, StrayOK
<1>5. TasksOK'
  BY ReqStepKeeps
<1>6. RegOK'
  <2>1. CASE Replace(i)
    <3>1. /\ local' = [local EXCEPT ![k.conn] = @ \cup {k.sub}]
          /\ Unregister(k.conn, k.sub, "req")
      BY <2>1 DEF Replace
    <3>2. local' \in [Conn -> SUBSET SubId]
      BY <1>2, <3>1, TypeNow DEF RegOK
    <3> QED
      BY <1>2, <3>1, <3>2, TypeNow, UnregisterKeeps DEF RegOK
  <2>2. CASE Store(i)
    <3>1. k.scope \in Scope
      BY <1>1, <2>2 DEF Store, TaskFits
    <3>2. subs' = [subs EXCEPT ![k.conn][k.sub] = k.scope] /\ UNCHANGED local
      BY <2>2 DEF Store
    <3>3. subs' \in [Conn -> [SubId -> Scope \cup {{}}]]
      BY <1>2, <3>1, <3>2, TypeNow, SubsSet
    <3> QED
      BY <3>2, <3>3, TypeNow DEF RegOK
  <2>3. CASE UNCHANGED <<local, subs>>
    BY <2>3, TypeNow DEF RegOK
  <2> QED
    BY <2>1, <2>2, <2>3
    DEF ReqStep, Check, Index, ReleaseReplaced, Retain, Tell, Query, regVars
<1>9. IndexOK'
  <2>1. CASE Replace(i)
    <3>1. Unregister(k.conn, k.sub, "req") /\ UNCHANGED indexVars
      BY <2>1 DEF Replace
    <3> QED
      BY <1>2, <3>1, TypeNow, UnregisterTypes
  <2>2. CASE Index(i)
    <3>1. PICK t \in k.rest :
            index' = index \cup {<<k.conn, k.sub, t>>} /\ keys' = keys \cup {t}
      BY <2>2, IndexGoes
    <3>2. t \in Topic
      BY <1>1 DEF Task
    <3>3. UNCHANGED jobs
      BY <2>2 DEF Index
    <3>4. index' \subseteq Conn \X SubId \X keys' /\ keys' \subseteq Topic
      BY <1>2, <3>1, <3>2, TypeNow DEF IndexOK
    <3> QED
      BY <3>3, <3>4, TypeNow DEF IndexOK, Over
  <2>3. CASE UNCHANGED <<index, keys, jobs>>
    BY <2>3, TypeNow DEF IndexOK, Over
  <2> QED
    BY <2>1, <2>2, <2>3
    DEF ReqStep, Check, Store, ReleaseReplaced, Retain, Tell, Query, regVars, indexVars
<1>7. TopicOK'
  <2>1. CASE ReleaseReplaced(i)
    BY <1>2, <2>1, ReleaseGoes, ReleaseKeeps, TypeNow
  <2>2. CASE Retain(i)
    <3>1. PICK t \in k.todo : count' = [count EXCEPT ![t] = @ + 1]
      BY <2>2, RetainGoes
    <3>2. UNCHANGED <<timers, cmds>>
      BY <2>2 DEF Retain
    <3> QED
      BY <1>2, <3>1, <3>2, TypeNow DEF TopicOK
  <2>3. CASE Tell(i)
    <3>1. /\ cmds' = Append(cmds, [op |-> "subscribe", topic |-> k.told])
          /\ UNCHANGED <<count, timers>>
      BY <2>3 DEF Tell
    <3>2. [op |-> "subscribe", topic |-> k.told] \in Command
      BY <1>2 DEF Command
    <3>3. cmds' \in Seq(Command)
      BY <3>1, <3>2, TypeNow DEF TopicOK
    <3> QED
      BY <3>1, <3>3, TypeNow DEF TopicOK
  <2>4. CASE UNCHANGED <<count, timers, cmds>>
    BY <2>4, TypeNow DEF TopicOK
  <2> QED
    BY <2>1, <2>2, <2>3, <2>4
    DEF ReqStep, Check, Replace, Store, Index, Query, topicVars
<1>8. EventOK'
  <2>1. CASE Query(i)
    <3>1. /\ got' \subseteq got \cup {<<k.conn, k.sub>>}
          /\ short' \subseteq short \cup {<<k.conn, k.sub>>}
      BY <2>1 DEF Query
    <3> QED
      BY <1>2, <1>3, <3>1, TypeNow DEF EventOK
  <2>2. CASE UNCHANGED <<got, short>>
    BY <1>3, <2>2, TypeNow DEF EventOK
  <2> QED
    BY <2>1, <2>2
    DEF ReqStep, Check, Replace, Store, Index, ReleaseReplaced, Retain, Tell, eventVars
<1> QED
  BY <1>4, <1>5, <1>6, <1>7, <1>8, <1>9 DEF TypeInv

(* What the receive loop of a connection is set to.                        *)
LEMMA InlineKept ==
    ASSUME InlineOK, NEW c \in Conn, NEW r \in {Idle} \cup InlineRecord, Inline(c, r)
    PROVE  InlineOK'
BY DEF InlineOK, Inline

LEMMA ThenReleaseFits ==
    ASSUME NEW todo \in SUBSET (SubId \X Topic)
    PROVE  ThenRelease(todo) \in {Idle} \cup InlineRecord
BY DEF ThenRelease, Idle, InlineRecord

LEMMA InlineNow ==
    ASSUME InlineOK, NEW c \in Conn, inline[c].pc # "idle"
    PROVE  inline[c] \in InlineRecord
BY DEF InlineOK, Idle

LEMMA HandleCloseTypes ==
    ASSUME TypeInv, NEW c \in Conn, NEW s \in SubId, HandleClose(c, s)
    PROVE  TypeInv'
<1>1. UNCHANGED <<status, member, tasks, evictor, count, timers, cmds, redis, active, event,
                  got, short, stray>>
  BY DEF HandleClose, connVars, topicVars, redisVars, eventVars
<1>2. /\ ConnOK' /\ EvictorOK' /\ TopicOK' /\ RedisOK' /\ EventOK' /\ StrayOK'
  BY <1>1, TypeNow DEF ConnOK, EvictorOK, TopicOK, RedisOK, EventOK, StrayOK
<1>3. PlanOK'
  BY TypeNow, PlanKept DEF HandleClose
<1>4. RegOK'
  <2>1. local' = [local EXCEPT ![c] = @ \ {s}] /\ Unregister(c, s, "close")
    BY DEF HandleClose
  <2>2. local' \in [Conn -> SUBSET SubId]
    BY <2>1, TypeNow DEF RegOK
  <2> QED
    BY <2>1, <2>2, TypeNow, UnregisterKeeps DEF RegOK
<1>5. InlineOK'
  <2>1. subs[c][s] \in Scope \cup {{}}
    BY TypeNow DEF RegOK
  <2>2. subs[c][s] \in SUBSET Topic
    BY <2>1, ScopeFacts
  <2>3. {s} \X subs[c][s] \in SUBSET (SubId \X Topic)
    BY <2>2
  <2>4. Inline(c, ThenRelease({s} \X subs[c][s]))
    BY DEF HandleClose
  <2> QED
    BY <1>1, <2>3, <2>4, TypeNow, InlineKept, ThenReleaseFits
<1>6. IndexOK'
  <2>1. Unregister(c, s, "close") /\ UNCHANGED indexVars
    BY DEF HandleClose
  <2> QED
    BY <2>1, TypeNow, UnregisterTypes
<1> QED
  BY <1>1, <1>2, <1>3, <1>4, <1>5, <1>6, TasksSame, TypeNow DEF TypeInv

LEMMA LeaveTypes ==
    ASSUME TypeInv, NEW c \in Conn, Leave(c)
    PROVE  TypeInv'
<1>1. UNCHANGED <<member, local, subs, index, keys, jobs, tasks, inline, evictor, count, timers, cmds,
                  redis, active, event, got, short, stray>>
  BY DEF Leave, regVars, indexVars, topicVars, redisVars, eventVars
<1>2. RegOK' /\ IndexOK' /\ EvictorOK' /\ TopicOK' /\ RedisOK' /\ EventOK' /\ StrayOK'
  BY <1>1, TypeNow DEF RegOK, IndexOK, Over, EvictorOK, TopicOK, RedisOK, EventOK, StrayOK
<1>3. PlanOK'
  BY TypeNow, PlanKept DEF Leave
<1>4. status' = [status EXCEPT ![c] = "leaving"] /\ inline[c] = Idle
  BY DEF Leave
<1>5. ConnOK'
  BY <1>1, <1>4, TypeNow DEF ConnOK
<1>6. InlineOK'
  BY <1>1, <1>4, TypeNow DEF InlineOK, ConnOK
<1> QED
  BY <1>1, <1>2, <1>3, <1>5, <1>6, TasksSame, TypeNow DEF TypeInv

LEMMA CleanUpTypes ==
    ASSUME TypeInv, NEW c \in Conn, RemoveConnection(c) \/ InlineRelease(c) \/ Deregister(c)
    PROVE  TypeInv'
<1>1. UNCHANGED <<member, local, tasks, evictor, redis, active, event, got, short, plan, stray,
                  index, keys, lost>>
  BY DEF RemoveConnection, InlineRelease, Deregister,
         connVars, regVars, indexVars, redisVars, eventVars
<1>2. /\ EvictorOK' /\ RedisOK' /\ EventOK' /\ PlanOK' /\ StrayOK' /\ TasksOK'
  BY <1>1, TypeNow, TasksSame DEF EvictorOK, RedisOK, EventOK, PlanOK, StrayOK
<1>3. CASE RemoveConnection(c)
  <2>1. /\ subs' = [subs EXCEPT ![c] = [s \in SubId |-> {}]] /\ status[c] = "leaving"
        /\ Inline(c, [pc |-> "releasing", todo |-> All(c)])
        /\ jobs' = jobs \cup Started(c, "clean", All(c))
        /\ UNCHANGED <<status, indexVars, count, timers, cmds>>
    BY <1>3 DEF RemoveConnection, connVars, topicVars
  <2>2. ConnOK' /\ TopicOK'
    BY <1>1, <2>1, TypeNow DEF ConnOK, TopicOK
  <2>3. RegOK'
    BY <1>1, <2>1, TypeNow DEF RegOK
  <2>4. All(c) \in SUBSET (SubId \X Topic)
    BY DEF All
  <2>5. [pc |-> "releasing", todo |-> All(c)] \in InlineRecord
    BY <2>4 DEF InlineRecord
  <2>6. InlineOK'
    BY <2>1, <2>5, TypeNow, InlineKept
  <2>7. IndexOK'
    BY <2>1, <2>4, TypeNow, StartKeeps
  <2> QED
    BY <1>2, <2>2, <2>3, <2>6, <2>7 DEF TypeInv
<1>5. CASE InlineRelease(c)
  <2> DEFINE p == First(inline[c].todo)
             rest == inline[c].todo \ {p}
             r == IF status[c] = "open" THEN ThenRelease(rest)
                  ELSE [pc |-> "releasing", todo |-> rest]
  <2>1. /\ inline[c].pc = "releasing" /\ inline[c].todo # {}
        /\ Release(p[2]) /\ Inline(c, r)
        /\ UNCHANGED <<status, local, subs, jobs>>
    BY <1>5 DEF InlineRelease, connVars, regVars
  <2>2. ConnOK' /\ RegOK' /\ IndexOK'
    BY <1>1, <2>1, TypeNow DEF ConnOK, RegOK, IndexOK, Over
  <2>3. inline[c] \in InlineRecord
    BY <2>1, TypeNow, InlineNow
  <2>4. inline[c].todo \in SUBSET (SubId \X Topic)
    BY <2>3 DEF InlineRecord
  <2>5. p \in inline[c].todo
    BY <2>1, FirstIn
  <2> HIDE DEF p
  <2>6. p[2] \in Topic /\ rest \in SUBSET (SubId \X Topic)
    BY <2>4, <2>5
  <2>7. TopicOK'
    BY <2>1, <2>6, ReleaseKeeps, TypeNow
  <2>8. r \in {Idle} \cup InlineRecord
    BY <2>6, ThenReleaseFits DEF InlineRecord
  <2> HIDE DEF r
  <2>9. InlineOK'
    BY <2>1, <2>8, TypeNow, InlineKept
  <2> QED
    BY <1>2, <2>2, <2>7, <2>9 DEF TypeInv
<1>6. CASE Deregister(c)
  <2>1. /\ status' = [status EXCEPT ![c] = "gone"] /\ inline' = [inline EXCEPT ![c] = Idle]
        /\ UNCHANGED <<local, subs, jobs, count, timers, cmds>>
    BY <1>6 DEF Deregister, Inline, regVars, topicVars
  <2>2. ConnOK' /\ RegOK' /\ IndexOK' /\ TopicOK'
    BY <1>1, <2>1, TypeNow DEF ConnOK, RegOK, IndexOK, Over, TopicOK
  <2>3. InlineOK'
    BY <2>1, TypeNow DEF InlineOK
  <2> QED
    BY <1>2, <2>2, <2>3 DEF TypeInv
<1> QED
  BY <1>3, <1>5, <1>6

LEMMA DispatchTypes ==
    ASSUME TypeInv, NEW c \in Conn, NEW s \in SubId, NEW ask \in Scope, Dispatch(c, s, ask)
    PROVE  TypeInv'
<1>1. UNCHANGED <<status, member, local, subs, index, keys, jobs, inline, evictor, count, timers,
                  cmds, redis, active, event, got, short, stray>>
  BY DEF Dispatch, connVars, regVars, indexVars, topicVars, redisVars, eventVars
<1>2. /\ ConnOK' /\ RegOK' /\ IndexOK' /\ InlineOK' /\ EvictorOK' /\ TopicOK' /\ RedisOK'
      /\ EventOK' /\ StrayOK'
  BY <1>1, TypeNow
  DEF ConnOK, RegOK, IndexOK, Over, InlineOK, EvictorOK, TopicOK, RedisOK, EventOK, StrayOK
<1>3. PlanOK'
  BY TypeNow, PlanKept DEF Dispatch
<1> QED
  BY <1>2, <1>3, DispatchKeeps DEF TypeInv

LEMMA EvictorNow ==
    ASSUME EvictorOK, evictor.pc # "idle"
    PROVE  /\ evictor \in EvictorRecord
           /\ evictor.conn \in Conn /\ evictor.channel \in Channel
           /\ evictor.todo \in SUBSET SubId /\ evictor.stripped \in SUBSET SubId
           /\ evictor.removed \in SUBSET SubId
BY DEF EvictorOK, EvictorRecord, Idle

LEMMA RevokeTypes ==
    ASSUME TypeInv, NEW c \in Conn, NEW ch \in Channel, Revoke(c, ch)
    PROVE  TypeInv'
<1>1. /\ UNCHANGED <<status, local, subs, index, keys, jobs, tasks, inline, count, timers, cmds, redis,
                     active, event, got, short, stray>>
      /\ member' = [member EXCEPT ![c] = @ \ {ch}]
  BY DEF Revoke, regVars, indexVars, topicVars, redisVars, eventVars
<1>2. /\ RegOK' /\ IndexOK' /\ TasksOK' /\ InlineOK' /\ TopicOK' /\ RedisOK' /\ EventOK'
      /\ StrayOK'
  BY <1>1, TypeNow, TasksSame DEF RegOK, IndexOK, Over, InlineOK, TopicOK, RedisOK, EventOK, StrayOK
<1>3. PlanOK'
  BY TypeNow, PlanKept DEF Revoke
<1>4. ConnOK'
  BY <1>1, TypeNow DEF ConnOK
<1>5. EvictorOK'
  <2> DEFINE listed == {s \in SubId : ch \in subs[c][s]}
             r == [pc |-> "strip", conn |-> c, channel |-> ch, todo |-> listed,
                   stripped |-> {}, removed |-> {}]
  <2>1. evictor' = IF listed = {} THEN Idle ELSE r
    BY DEF Revoke
  <2>2. listed \in SUBSET SubId
    OBVIOUS
  <2> HIDE DEF listed
  <2>3. r \in EvictorRecord /\ r.pc = "strip"
    BY <2>2 DEF EvictorRecord
  <2> HIDE DEF r
  <2> QED
    BY <2>1, <2>3 DEF EvictorOK, Idle
<1> QED
  BY <1>2, <1>3, <1>4, <1>5 DEF TypeInv

(* The eviction goes on to the next subscription; the one it looked at has *)
(* lost the channel, unless it has no channels any more.                   *)
LEMMA StripMoves ==
    ASSUME TypeInv, Strip
    PROVE  \E s \in evictor.todo :
             LET c == evictor.conn
                 ch == evictor.channel
             IN  /\ evictor' \in EvictorRecord /\ evictor'.pc = "strip"
                 /\ evictor'.channel = ch
                 /\ \/ /\ UNCHANGED <<subs, jobs, stray>>
                       /\ evictor'.stripped = evictor.stripped
                    \/ /\ subs[c][s] \subseteq Channel /\ subs[c][s] # {}
                       /\ subs' = [subs EXCEPT ![c][s] = subs[c][s] \ {ch}]
                       /\ jobs' = jobs \cup Started(c, "evict", {<<s, ch>>})
                       /\ stray' = IF ch \in subs[c][s] THEN stray ELSE stray \cup {ch}
                       /\ evictor'.stripped = evictor.stripped \cup {s}
<1> DEFINE c == evictor.conn
           ch == evictor.channel
           s == First(evictor.todo)
<1>1. evictor.pc = "strip" /\ evictor.todo # {}
  BY DEF Strip
<1>2. /\ evictor \in EvictorRecord /\ c \in Conn /\ ch \in Channel
      /\ evictor.todo \in SUBSET SubId
  BY <1>1, TypeNow, EvictorNow
<1>3. s \in evictor.todo /\ s \in SubId
  BY <1>1, <1>2, FirstIn
<1>4. IF subs[c][s] \in {{}, {Global}}
      THEN /\ evictor' = [evictor EXCEPT !.todo = evictor.todo \ {s}]
           /\ UNCHANGED <<subs, jobs, stray>>
      ELSE /\ subs' = [subs EXCEPT ![c][s] = subs[c][s] \ {ch}]
           /\ jobs' = jobs \cup Started(c, "evict", {<<s, ch>>})
           /\ evictor' = [evictor EXCEPT !.todo = evictor.todo \ {s},
                            !.stripped = evictor.stripped \cup {s},
                            !.removed = evictor.removed \cup (IF subs'[c][s] = {} THEN {s} ELSE {})]
           /\ stray' = IF ch \in subs[c][s] THEN stray ELSE stray \cup {ch}
  BY DEF Strip, Stripped
<1> HIDE DEF s
<1>5. CASE subs[c][s] \in {{}, {Global}}
  <2>1. evictor' \in EvictorRecord /\ evictor'.pc = "strip" /\ evictor'.channel = ch
        /\ evictor'.stripped = evictor.stripped
    BY <1>1, <1>2, <1>4, <1>5 DEF EvictorRecord
  <2> QED
    BY <1>3, <1>4, <1>5, <2>1
<1>6. CASE subs[c][s] \notin {{}, {Global}}
  <2>1. subs[c][s] \in Scope \cup {{}}
    BY <1>2, <1>3, TypeNow DEF RegOK
  <2>2. subs[c][s] \subseteq Channel /\ subs[c][s] # {}
    BY <1>6, <2>1, ScopeFacts
  <2> DEFINE gone == IF subs'[c][s] = {} THEN {s} ELSE {}
  <2>3. gone \in SUBSET SubId
    BY <1>3
  <2>4. evictor' = [evictor EXCEPT !.todo = evictor.todo \ {s},
                            !.stripped = evictor.stripped \cup {s},
                            !.removed = evictor.removed \cup gone]
    BY <1>4, <1>6
  <2> HIDE DEF gone
  <2>5. /\ evictor' \in EvictorRecord /\ evictor'.pc = "strip" /\ evictor'.channel = ch
        /\ evictor'.stripped = evictor.stripped \cup {s}
    BY <1>1, <1>2, <1>3, <2>3, <2>4 DEF EvictorRecord
  <2> QED
    BY <1>3, <1>4, <1>6, <2>2, <2>5
<1> QED
  BY <1>5, <1>6

LEMMA EvictTypes ==
    ASSUME TypeInv, Strip \/ ForgetLocal \/ EvictRelease
    PROVE  TypeInv'
<1>1. UNCHANGED <<status, member, tasks, inline, redis, active, event, got, short, plan>>
  BY DEF Strip, ForgetLocal, EvictRelease, connVars, redisVars, eventVars
<1>2. /\ ConnOK' /\ TasksOK' /\ InlineOK' /\ RedisOK' /\ EventOK' /\ PlanOK'
  BY <1>1, TypeNow, TasksSame DEF ConnOK, InlineOK, RedisOK, EventOK, PlanOK
<1>3. evictor.pc # "idle"
  BY DEF Strip, ForgetLocal, EvictRelease
<1>4. /\ evictor \in EvictorRecord
      /\ evictor.conn \in Conn /\ evictor.channel \in Channel
      /\ evictor.todo \in SUBSET SubId /\ evictor.stripped \in SUBSET SubId
      /\ evictor.removed \in SUBSET SubId
  BY <1>3, TypeNow, EvictorNow
<1>5. CASE Strip
  <2>1. UNCHANGED <<local, indexVars, count, timers, cmds>>
    BY <1>5 DEF Strip, topicVars
  <2>2. TopicOK'
    BY <2>1, TypeNow DEF TopicOK
  <2>3. PICK s \in evictor.todo :
             LET c == evictor.conn
                 ch == evictor.channel
             IN  /\ evictor' \in EvictorRecord /\ evictor'.pc = "strip"
                 /\ \/ UNCHANGED <<subs, jobs, stray>>
                    \/ /\ subs[c][s] \subseteq Channel
                       /\ subs' = [subs EXCEPT ![c][s] = subs[c][s] \ {ch}]
                       /\ jobs' = jobs \cup Started(c, "evict", {<<s, ch>>})
                       /\ stray' = IF ch \in subs[c][s] THEN stray ELSE stray \cup {ch}
    BY <1>5, StripMoves
  <2>4. EvictorOK'
    BY <2>3 DEF EvictorOK
  <2>5. StrayOK'
    BY <1>4, <2>3, TypeNow DEF StrayOK
  <2>6. RegOK'
    <3>1. CASE UNCHANGED subs
      BY <2>1, <3>1, TypeNow DEF RegOK
    <3>2. CASE /\ subs[evictor.conn][s] \subseteq Channel
               /\ subs' = [subs EXCEPT ![evictor.conn][s] =
                             subs[evictor.conn][s] \ {evictor.channel}]
      <4>1. subs[evictor.conn][s] \ {evictor.channel} \in SUBSET Channel
        BY <3>2
      <4>2. subs[evictor.conn][s] \ {evictor.channel} \in Scope \cup {{}}
        BY <4>1, ScopeFacts
      <4>3. subs' \in [Conn -> [SubId -> Scope \cup {{}}]]
        BY <1>4, <3>2, <4>2, SubsSet, TypeNow
      <4> QED
        BY <2>1, <4>3, TypeNow DEF RegOK
    <3> QED
      BY <2>3, <3>1, <3>2
  <2>7. IndexOK'
    <3>1. CASE UNCHANGED jobs
      BY <2>1, <3>1, TypeNow DEF IndexOK, Over, indexVars
    <3>2. CASE jobs' = jobs \cup Started(evictor.conn, "evict", {<<s, evictor.channel>>})
      <4>1. {<<s, evictor.channel>>} \in SUBSET (SubId \X Topic)
        BY <1>4, ScopeFacts
      <4> QED
        BY <1>4, <2>1, <3>2, <4>1, TypeNow, StartKeeps
    <3> QED
      BY <2>3, <3>1, <3>2
  <2> QED
    BY <1>2, <2>2, <2>4, <2>5, <2>6, <2>7 DEF TypeInv
<1>6. CASE ForgetLocal
  <2>1. /\ local' = [local EXCEPT ![evictor.conn] = @ \ evictor.removed]
        /\ evictor' = IF evictor.stripped = {} THEN Idle ELSE [evictor EXCEPT !.pc = "release"]
        /\ UNCHANGED <<subs, index, keys, jobs, count, timers, cmds, stray>>
    BY <1>6 DEF ForgetLocal, indexVars, topicVars
  <2>2. TopicOK' /\ StrayOK'
    BY <2>1, TypeNow DEF TopicOK, StrayOK
  <2>3. RegOK' /\ IndexOK'
    BY <1>4, <2>1, TypeNow DEF RegOK, IndexOK, Over
  <2>4. EvictorOK'
    <3>1. CASE evictor.stripped = {}
      BY <2>1, <3>1 DEF EvictorOK, Idle
    <3>2. CASE evictor.stripped # {}
      <4>1. evictor' = [evictor EXCEPT !.pc = "release"]
        BY <2>1, <3>2
      <4>2. evictor' \in EvictorRecord /\ evictor'.stripped = evictor.stripped
        BY <1>4, <4>1 DEF EvictorRecord
      <4> QED
        BY <3>2, <4>2 DEF EvictorOK
    <3> QED
      BY <3>1, <3>2
  <2> QED
    BY <1>2, <2>2, <2>3, <2>4 DEF TypeInv
<1>7. CASE EvictRelease
  <2> DEFINE s == First(evictor.stripped)
  <2>1. /\ Release(evictor.channel)
        /\ evictor' = IF evictor.stripped = {s} THEN Idle
                      ELSE [evictor EXCEPT !.stripped = evictor.stripped \ {s}]
        /\ UNCHANGED <<local, subs, index, keys, jobs, stray>>
    BY <1>7 DEF EvictRelease, regVars, indexVars
  <2>2. RegOK' /\ IndexOK' /\ StrayOK'
    BY <2>1, TypeNow DEF RegOK, IndexOK, Over, StrayOK
  <2>3. TopicOK'
    BY <1>4, <2>1, ReleaseKeeps, ScopeFacts, TypeNow
  <2>4. evictor.pc = "release" /\ evictor.stripped # {}
    BY <1>7, TypeNow DEF EvictRelease, EvictorOK
  <2>5. s \in evictor.stripped
    BY <2>4, FirstIn
  <2> HIDE DEF s
  <2>6. EvictorOK'
    <3>1. CASE evictor.stripped = {s}
      BY <2>1, <3>1 DEF EvictorOK, Idle
    <3>2. CASE evictor.stripped # {s}
      <4>1. evictor' = [evictor EXCEPT !.stripped = evictor.stripped \ {s}]
        BY <2>1, <3>2
      <4>2. evictor' \in EvictorRecord /\ evictor'.stripped = evictor.stripped \ {s}
        BY <1>4, <4>1 DEF EvictorRecord
      <4>3. evictor'.stripped # {}
        BY <2>5, <3>2, <4>2
      <4> QED
        BY <4>2, <4>3 DEF EvictorOK
    <3> QED
      BY <3>1, <3>2
  <2> QED
    BY <1>2, <2>2, <2>3, <2>6 DEF TypeInv
<1> QED
  BY <1>5, <1>6, <1>7

(* A step of the Redis subscriber, or of a debounce.                       *)
RedisStep ==
    \/ \E t \in Topic : DebounceEnds(t)
    \/ RedisConnects \/ SubscribeInitial \/ RedisCommand \/ GiveUp \/ RedisDrops

LEMMA RedisStepTypes ==
    ASSUME TypeInv, RedisStep
    PROVE  /\ TypeInv'
           /\ UNCHANGED <<status, member, local, subs, index, keys, lost, jobs, tasks, inline, evictor, count,
                          event, got, short, stray>>
<1>1. UNCHANGED <<status, member, local, subs, index, keys, lost, jobs, tasks, inline, evictor, count,
                  event, got, short, stray>>
  BY DEF RedisStep, DebounceEnds, RedisConnects, SubscribeInitial, RedisCommand, GiveUp,
         RedisDrops, connVars, regVars, indexVars, topicVars, eventVars
<1>2. /\ ConnOK' /\ RegOK' /\ IndexOK' /\ TasksOK' /\ InlineOK' /\ EvictorOK' /\ EventOK'
      /\ StrayOK'
  BY <1>1, TypeNow, TasksSame DEF ConnOK, RegOK, IndexOK, Over, InlineOK, EvictorOK, EventOK, StrayOK
<1>3. PlanOK'
  <2>1. CASE RedisDrops
    BY <2>1, TypeNow, PlanSpent DEF RedisDrops
  <2>2. CASE UNCHANGED plan
    BY <2>2, TypeNow DEF PlanOK
  <2> QED
    BY <2>1, <2>2
    DEF RedisStep, DebounceEnds, RedisConnects, SubscribeInitial, RedisCommand, GiveUp
<1>4. TopicOK'
  <2>1. ASSUME NEW t \in Topic, DebounceEnds(t) PROVE TopicOK'
    <3>1. /\ timers' = timers \ {t}
          /\ cmds' = Append(cmds, [op |-> "unsubscribe", topic |-> t])
      BY <2>1 DEF DebounceEnds
    <3>2. [op |-> "unsubscribe", topic |-> t] \in Command
      BY DEF Command
    <3>3. cmds' \in Seq(Command)
      BY <3>1, <3>2, TypeNow DEF TopicOK
    <3> QED
      BY <1>1, <3>1, <3>3, TypeNow DEF TopicOK
  <2>2. CASE RedisCommand
    <3>1. cmds # <<>> /\ cmds' = Tail(cmds) /\ UNCHANGED timers
      BY <2>2 DEF RedisCommand
    <3>2. cmds' \in Seq(Command)
      BY <3>1, TypeNow DEF TopicOK
    <3> QED
      BY <1>1, <3>1, <3>2, TypeNow DEF TopicOK
  <2>3. CASE UNCHANGED <<timers, cmds>>
    BY <1>1, <2>3, TypeNow DEF TopicOK
  <2> QED
    BY <2>1, <2>2, <2>3
    DEF RedisStep, RedisConnects, SubscribeInitial, GiveUp, RedisDrops, topicVars
<1>5. RedisOK'
  <2>1. CASE RedisCommand
    <3>1. Head(cmds).topic \in Topic
      <4>1. cmds # <<>> /\ cmds \in Seq(Command)
        BY <2>1, TypeNow DEF RedisCommand, TopicOK
      <4>2. Head(cmds) \in Command
        BY <4>1
      <4> QED
        BY <4>2 DEF Command
    <3> DEFINE t == Head(cmds).topic
    <3>2. /\ active' \in {active, active \cup {t}}
          /\ redis' \in {redis, [pc |-> "giving up", todo |-> {t}]}
      BY <2>1 DEF RedisCommand
    <3> HIDE DEF t
    <3>3. t \in Topic
      BY <3>1 DEF t
    <3>4. active' \subseteq Topic
      BY <3>2, <3>3, TypeNow DEF RedisOK
    <3>5. [pc |-> "giving up", todo |-> {t}]
            \in [pc : {"loop", "down", "connected", "giving up"}, todo : SUBSET Topic]
      BY <3>3
    <3> QED
      BY <3>2, <3>4, <3>5, TypeNow DEF RedisOK
  <2>2. CASE \E t \in Topic : DebounceEnds(t)
    BY <2>2, TypeNow DEF DebounceEnds, RedisOK, redisVars
  <2>3. CASE RedisConnects
    <3>1. UNCHANGED active /\ redis' = [pc |-> "connected", todo |-> {t \in Topic : count[t] > 0}]
      BY <2>3 DEF RedisConnects
    <3> QED
      BY <3>1, TypeNow DEF RedisOK
  <2>4. CASE SubscribeInitial
    <3>1. redis' = [pc |-> "loop", todo |-> {}] /\ active' = redis.todo
      BY <2>4 DEF SubscribeInitial
    <3> QED
      BY <3>1, TypeNow DEF RedisOK
  <2>5. CASE GiveUp
    <3>1. redis' = [pc |-> "loop", todo |-> {}] /\ active' = active \ redis.todo
      BY <2>5 DEF GiveUp
    <3> QED
      BY <3>1, TypeNow DEF RedisOK
  <2>6. CASE RedisDrops
    <3>1. redis' = [pc |-> "down", todo |-> {}] /\ active' = {}
      BY <2>6 DEF RedisDrops
    <3> QED
      BY <3>1, TypeNow DEF RedisOK
  <2> QED
    BY <2>1, <2>2, <2>3, <2>4, <2>5, <2>6 DEF RedisStep
<1> QED
  BY <1>1, <1>2, <1>3, <1>4, <1>5 DEF TypeInv

(* A step of an event.                                                     *)
EventStep ==
    \/ \E t \in Topic, o \in {"local", "remote"} : CommitEvent(t, o)
    \/ Reach \/ Candidates \/ (\E p \in Conn \X SubId : Match(p)) \/ Deliver

LEMMA EventNow ==
    ASSUME EventOK, event.pc # "idle"
    PROVE  /\ event \in EventRecord /\ event.topic \in Topic
           /\ event.candidates \in SUBSET (Conn \X SubId)
           /\ event.matched \in SUBSET (Conn \X SubId)
BY DEF EventOK, EventRecord, Idle

LEMMA EventStepTypes ==
    ASSUME TypeInv, EventStep
    PROVE  /\ TypeInv'
           /\ UNCHANGED <<status, member, local, subs, index, keys, lost, jobs, tasks, inline,
                          evictor, count, short, stray>>
<1>1. UNCHANGED <<status, member, local, subs, index, keys, lost, jobs, tasks, inline, evictor,
                  count, timers, cmds, redis, active, short, stray>>
  BY DEF EventStep, CommitEvent, Reach, Candidates, Match, Deliver, connVars, regVars,
         indexVars, topicVars, redisVars
<1>2. /\ ConnOK' /\ RegOK' /\ IndexOK' /\ TasksOK' /\ InlineOK' /\ EvictorOK' /\ TopicOK' /\ RedisOK'
      /\ StrayOK'
  BY <1>1, TypeNow, TasksSame
  DEF ConnOK, RegOK, IndexOK, Over, InlineOK, EvictorOK, TopicOK, RedisOK, StrayOK
<1>3. PlanOK'
  <2>1. CASE \E t \in Topic, o \in {"local", "remote"} : CommitEvent(t, o)
    BY <2>1, TypeNow, PlanSpent DEF CommitEvent
  <2>2. CASE UNCHANGED plan
    BY <2>2, TypeNow DEF PlanOK
  <2> QED
    BY <2>1, <2>2 DEF EventStep, Reach, Candidates, Match, Deliver
<1>4. EventOK'
  <2>1. ASSUME NEW t \in Topic, NEW o \in {"local", "remote"}, CommitEvent(t, o)
        PROVE  EventOK'
    <3>1. /\ event' = [pc |-> "stored", topic |-> t, origin |-> o, candidates |-> {},
                     matched |-> {}]
          /\ UNCHANGED got
      BY <2>1 DEF CommitEvent
    <3> QED
      BY <1>1, <3>1, TypeNow DEF EventOK, EventRecord
  <2>2. CASE Reach
    <3> DEFINE to == IF event.origin = "remote" /\ event.topic \notin active
                     THEN "missed" ELSE "here"
    <3>1. event.pc = "stored" /\ event' = [event EXCEPT !.pc = to] /\ UNCHANGED got
      BY <2>2 DEF Reach
    <3>2. to \in {"missed", "here"}
      OBVIOUS
    <3> HIDE DEF to
    <3>3. event \in EventRecord
      BY <3>1, TypeNow, EventNow
    <3> QED
      BY <1>1, <3>1, <3>2, <3>3, TypeNow DEF EventOK, EventRecord
  <2>3. CASE Candidates
    <3> DEFINE found == {p \in Conn \X SubId : <<p[1], p[2], event.topic>> \in index}
    <3>1. /\ event.pc = "here" /\ UNCHANGED got
          /\ event' = [event EXCEPT !.pc = "matching", !.candidates = found]
      BY <2>3 DEF Candidates
    <3>2. found \in SUBSET (Conn \X SubId)
      OBVIOUS
    <3> HIDE DEF found
    <3>3. event \in EventRecord
      BY <3>1, TypeNow, EventNow
    <3> QED
      BY <1>1, <3>1, <3>2, <3>3, TypeNow DEF EventOK, EventRecord
  <2>4. ASSUME NEW p \in Conn \X SubId, Match(p) PROVE EventOK'
    <3> DEFINE hit == IF event.topic \in subs[p[1]][p[2]]
                      THEN event.matched \cup {p} ELSE event.matched
               left == event.candidates \ {p}
    <3>1. /\ event.pc = "matching" /\ UNCHANGED got
          /\ event' = [event EXCEPT !.candidates = left, !.matched = hit]
      BY <2>4 DEF Match
    <3>2. /\ event \in EventRecord /\ event.candidates \in SUBSET (Conn \X SubId)
          /\ event.matched \in SUBSET (Conn \X SubId)
      BY <3>1, TypeNow, EventNow
    <3>3. left \in SUBSET (Conn \X SubId) /\ hit \in SUBSET (Conn \X SubId)
      BY <3>2
    <3> HIDE DEF left, hit
    <3>4. event' \in EventRecord
      BY <3>1, <3>2, <3>3 DEF EventRecord
    <3> QED
      BY <1>1, <3>1, <3>4, TypeNow DEF EventOK
  <2>5. CASE Deliver
    <3>1. /\ event.pc = "matching" /\ event' = [event EXCEPT !.pc = "done"]
          /\ got' \subseteq got \cup event.matched
      BY <2>5 DEF Deliver
    <3>2. event \in EventRecord /\ event.matched \in SUBSET (Conn \X SubId)
      BY <3>1, TypeNow, EventNow
    <3>3. got' \subseteq Conn \X SubId
      BY <3>1, <3>2, TypeNow DEF EventOK
    <3>4. event' \in EventRecord
      BY <3>1, <3>2 DEF EventRecord
    <3> QED
      BY <1>1, <3>3, <3>4, TypeNow DEF EventOK
  <2> QED
    BY <2>1, <2>2, <2>3, <2>4, <2>5 DEF EventStep
<1> QED
  BY <1>1, <1>2, <1>3, <1>4 DEF TypeInv

-----------------------------------------------------------------------------
(* The steps of the system, by who takes them.                             *)

LEMMA NextSteps ==
    ASSUME TypeInv, Next
    PROVE  \/ \E i \in DOMAIN tasks : ReqStep(i)
           \/ \E c \in Conn, s \in SubId, ask \in Scope : Dispatch(c, s, ask)
           \/ \E c \in Conn, s \in SubId : HandleClose(c, s)
           \/ \E c \in Conn : Leave(c)
           \/ \E c \in Conn : RemoveConnection(c) \/ InlineRelease(c) \/ Deregister(c)
           \/ \E j \in jobs : Unindex(j) \/ DropKey(j)
           \/ \E c \in Conn, ch \in Channel : Revoke(c, ch)
           \/ Strip \/ ForgetLocal \/ EvictRelease
           \/ RedisStep
           \/ EventStep
<1>1. \A ask \in plan.asks : ask[1] \in SubId /\ ask[2] \in Scope
  BY TypeNow DEF PlanOK
<1>2. \A t \in UNION {ask[2] : ask \in plan.asks} : t \in Topic
  BY <1>1, ScopeFacts
<1>3. CASE Step
  BY <1>3 DEF Step, RedisStep, EventStep
<1>4. CASE \E c \in Conn, ask \in plan.asks :
              Dispatch(c, ask[1], ask[2]) \/ HandleClose(c, ask[1])
  BY <1>1, <1>4
<1>5. CASE \E c \in Conn : Leave(c) \/ (\E ch \in Channel : Revoke(c, ch))
  BY <1>5
<1>6. CASE RedisDrops
  BY <1>6 DEF RedisStep
<1>7. CASE \E t \in UNION {ask[2] : ask \in plan.asks}, o \in {"local", "remote"} :
              CommitEvent(t, o)
  BY <1>2, <1>7 DEF EventStep
<1> QED
  BY <1>3, <1>4, <1>5, <1>6, <1>7 DEF Next

LEMMA TypeInvInit ==
    ASSUME Init
    PROVE  TypeInv
<1>1. ConnOK /\ RegOK /\ IndexOK /\ InlineOK /\ EvictorOK /\ EventOK /\ StrayOK
  BY DEF Init, ConnOK, RegOK, IndexOK, InlineOK, EvictorOK, EventOK, StrayOK, Idle
<1>2. TopicOK /\ RedisOK
  BY DEF Init, TopicOK, RedisOK
<1>3. TasksOK
  <2>1. tasks = <<>>
    BY DEF Init
  <2>2. Running = {}
    BY <2>1 DEF Running
  <2>3. Cardinality(Running) = 0
    BY <2>2, FS_EmptySet
  <2> QED
    BY <2>1, <2>3, RelaySubscriptionsAssumption DEF TasksOK
<1>4. PlanOK
  <2>1. plan \in Plan
    BY RelaySubscriptionsAssumption DEF Init
  <2> QED
    BY <2>1 DEF Plan, PlanOK
<1> QED
  BY <1>1, <1>2, <1>3, <1>4 DEF TypeInv

LEMMA TypeInvNext ==
    ASSUME TypeInv, [Next]_vars
    PROVE  TypeInv'
<1>1. CASE UNCHANGED vars
  BY <1>1, TypeNow, TasksSame
  DEF vars, connVars, regVars, indexVars, topicVars, redisVars, eventVars, TypeInv, ConnOK,
      RegOK, IndexOK, Over, InlineOK, EvictorOK, TopicOK, RedisOK, EventOK, PlanOK, StrayOK
<1>2. CASE Next
  BY <1>2, NextSteps, ReqStepTypes, DispatchTypes, HandleCloseTypes, LeaveTypes, CleanUpTypes,
     JobTypes, RevokeTypes, EvictTypes, RedisStepTypes, EventStepTypes
<1> QED
  BY <1>1, <1>2

LEMMA TypeInvMeans == ASSUME TypeInv PROVE TypeOK
<1>1. \A i \in DOMAIN tasks : tasks[i] \in TaskType
  <2> SUFFICES ASSUME NEW i \in DOMAIN tasks PROVE tasks[i] \in TaskType
    OBVIOUS
  <2>1. tasks[i] \in Task
    BY TypeNow, TaskNow
  <2>2. tasks[i].ask \in SUBSET Topic /\ tasks[i].scope \in SUBSET Topic
    BY <2>1, ScopeFacts DEF Task
  <2> QED
    BY <2>1, <2>2 DEF Task, TaskType, TaskPC
<1> QED
  BY <1>1, TypeNow
  DEF TypeOK, ConnOK, RegOK, IndexOK, TasksOK, TopicOK, RedisOK, EventOK, StrayOK

(* Whatever REQs, CLOSEs, losses, evictions and Redis outages interleave,  *)
(* every part of the relay's subscription state stays well formed: a       *)
(* registered scope is a set of channels or the global one, reference      *)
(* counts never go negative (release_topic), and no more handlers run than *)
(* handler_semaphore has permits.                                          *)
THEOREM SubscriptionTypeCorrect == Spec => []TypeOK
<1>1. Init => TypeInv
  BY TypeInvInit
<1>2. TypeInv /\ [Next]_vars => TypeInv'
  BY TypeInvNext
<1>3. TypeInv => TypeOK
  BY TypeInvMeans
<1> QED
  BY <1>1, <1>2, <1>3, PTL DEF Spec

-----------------------------------------------------------------------------
(* RegisteredIsIndexed.                                                    *)

(* No subscription gets a topic, and no connection is opened.              *)
Shrinks ==
    /\ \A c \in Conn : status'[c] = "open" => status[c] = "open"
    /\ \A c \in Conn, s \in SubId : subs'[c][s] \subseteq subs[c][s]

LEMMA JobsKept ==
    ASSUME IndexOK, JobInv, Shrinks,
           \A x \in jobs' :
              \/ \E j \in jobs : x.conn = j.conn /\ x.by = j.by /\ x.todo \subseteq j.todo
              \/ (x.by = "clean" => status'[x.conn] # "open") /\ Stale(x)'
    PROVE  JobInv'
<1> SUFFICES ASSUME NEW x \in jobs'
             PROVE  (x.by = "clean" => status'[x.conn] # "open") /\ Stale(x)'
  BY DEF JobInv
<1>1. ASSUME NEW j \in jobs, x.conn = j.conn, x.by = j.by, x.todo \subseteq j.todo
      PROVE  (x.by = "clean" => status'[x.conn] # "open") /\ Stale(x)'
  <2>1. j \in Job /\ (j.by = "clean" => status[j.conn] # "open") /\ Stale(j)
    BY <1>1 DEF IndexOK, JobInv
  <2>2. j.conn \in Conn /\ \A p \in j.todo : p[1] \in SubId
    BY <2>1 DEF Job
  <2> QED
    BY <1>1, <2>1, <2>2 DEF Stale, Shrinks
<1> QED
  BY <1>1

LEMMA EntriesKept ==
    ASSUME EntryInv, Shrinks,
           ASSUME NEW c \in Conn, NEW s \in SubId, NEW t \in subs'[c][s],
                  status'[c] = "open", Indexed(c, s, t)
           PROVE  Indexed(c, s, t)'
    PROVE  EntryInv'
BY DEF EntryInv, Shrinks

(* The steps of the others: all but the handlers, the removals from the    *)
(* index and the event.                                                    *)
OtherStep ==
    \/ \E c \in Conn, s \in SubId, ask \in Scope : Dispatch(c, s, ask)
    \/ \E c \in Conn, s \in SubId : HandleClose(c, s)
    \/ \E c \in Conn : Leave(c) \/ RemoveConnection(c) \/ InlineRelease(c) \/ Deregister(c)
    \/ \E c \in Conn, ch \in Channel : Revoke(c, ch)
    \/ Strip \/ ForgetLocal \/ EvictRelease \/ RedisStep

LEMMA OthersShrink ==
    ASSUME TypeInv, OtherStep
    PROVE  /\ UNCHANGED <<event, got, short, index, lost>>
           /\ \A j \in DOMAIN tasks : j \in DOMAIN tasks' /\ tasks'[j] = tasks[j]
           /\ Shrinks /\ \A c \in Conn : member'[c] \subseteq member[c]
<1>1. UNCHANGED <<event, got, short, index, lost>>
  BY RedisStepTypes
  DEF OtherStep, Dispatch, HandleClose, Leave, RemoveConnection, InlineRelease,
      Deregister, Revoke, Strip, ForgetLocal, EvictRelease, eventVars, regVars, indexVars
<1>2. \A j \in DOMAIN tasks : j \in DOMAIN tasks' /\ tasks'[j] = tasks[j]
  <2>1. CASE \E c \in Conn, s \in SubId, ask \in Scope : Dispatch(c, s, ask)
    BY <2>1, DispatchKeeps
  <2>2. CASE UNCHANGED tasks
    BY <2>2
  <2> QED
    BY <2>1, <2>2, RedisStepTypes
    DEF OtherStep, HandleClose, Leave, RemoveConnection, InlineRelease,
        Deregister, Revoke, Strip, ForgetLocal, EvictRelease
<1>3. \A c \in Conn : /\ status'[c] = "open" => status[c] = "open"
                      /\ member'[c] \subseteq member[c]
  <2>1. CASE \E d \in Conn : Leave(d) \/ Deregister(d)
    BY <2>1, TypeNow DEF Leave, Deregister, ConnOK
  <2>2. CASE \E d \in Conn, ch \in Channel : Revoke(d, ch)
    BY <2>2, TypeNow DEF Revoke, ConnOK
  <2>3. CASE UNCHANGED <<status, member>>
    BY <2>3
  <2> QED
    BY <2>1, <2>2, <2>3, RedisStepTypes
    DEF OtherStep, Dispatch, HandleClose, RemoveConnection, InlineRelease,
        Strip, ForgetLocal, EvictRelease, connVars
<1>4. \A c \in Conn, s \in SubId : subs'[c][s] \subseteq subs[c][s]
  <2>1. ASSUME NEW d \in Conn, NEW u \in SubId, HandleClose(d, u)
        PROVE  \A c \in Conn, s \in SubId : subs'[c][s] \subseteq subs[c][s]
    <3>1. subs' = [subs EXCEPT ![d][u] = {}]
      BY <2>1 DEF HandleClose, Unregister
    <3> QED
      BY <3>1, TypeNow DEF RegOK
  <2>2. ASSUME NEW d \in Conn, RemoveConnection(d)
        PROVE  \A c \in Conn, s \in SubId : subs'[c][s] \subseteq subs[c][s]
    <3>1. subs' = [subs EXCEPT ![d] = [s \in SubId |-> {}]]
      BY <2>2 DEF RemoveConnection
    <3> QED
      BY <3>1, TypeNow DEF RegOK
  <2>3. CASE Strip
    <3>1. PICK u \in evictor.todo :
             \/ UNCHANGED subs
             \/ subs' = [subs EXCEPT ![evictor.conn][u] = subs[evictor.conn][u] \ {evictor.channel}]
      BY <2>3, StripMoves
    <3> DEFINE d == evictor.conn
               S == subs[d][u] \ {evictor.channel}
    <3>2. S \subseteq subs[d][u] /\ (UNCHANGED subs \/ subs' = [subs EXCEPT ![d][u] = S])
      BY <3>1
    <3>3. d \in Conn /\ u \in SubId
      BY <2>3, TypeNow, EvictorNow DEF Strip
    <3> HIDE DEF S, d
    <3> QED
      BY <3>2, <3>3, TypeNow DEF RegOK
  <2>4. CASE UNCHANGED subs
    BY <2>4
  <2> QED
    BY <2>1, <2>2, <2>3, <2>4, RedisStepTypes
    DEF OtherStep, Dispatch, Leave, InlineRelease, Deregister, Revoke, ForgetLocal,
        EvictRelease, regVars
<1> QED
  BY <1>1, <1>2, <1>3, <1>4 DEF Shrinks

(* A removal that starts takes out what is registered no more.             *)
LEMMA UnregisterJobs ==
    ASSUME RegOK, NEW c \in Conn, NEW s \in SubId, NEW by \in {"req", "close"},
           Unregister(c, s, by)
    PROVE  \A x \in jobs' : x \in jobs \/ (x.by # "clean" /\ Stale(x)')
<1> DEFINE todo == {s} \X subs[c][s]
<1>1. todo \in SUBSET (SubId \X Topic) /\ jobs' = jobs \cup Started(c, by, todo)
  BY UnregisterStarts
<1>2. \A p \in todo : p[1] = s
  OBVIOUS
<1>3. subs'[c][s] = {}
  BY UnregisterKeeps
<1> HIDE DEF todo
<1>4. \A x \in Started(c, by, todo) : x.conn = c /\ x.by = by /\ x.todo = todo
  BY <1>1, StartedFits
<1> QED
  BY <1>1, <1>2, <1>3, <1>4 DEF Stale

LEMMA OthersJobs ==
    ASSUME TypeInv, OtherStep, NEW x \in jobs'
    PROVE  x \in jobs \/ ((x.by = "clean" => status'[x.conn] # "open") /\ Stale(x)')
<1>1. ASSUME NEW c \in Conn, NEW s \in SubId, HandleClose(c, s)
      PROVE  x \in jobs \/ (x.by # "clean" /\ Stale(x)')
  BY <1>1, TypeNow, UnregisterJobs DEF HandleClose
<1>2. ASSUME NEW c \in Conn, RemoveConnection(c)
      PROVE  x \in jobs \/ ((x.by = "clean" => status'[x.conn] # "open") /\ Stale(x)')
  <2>1. /\ jobs' = jobs \cup Started(c, "clean", All(c)) /\ status'[c] = "leaving"
        /\ All(c) \in SUBSET (SubId \X Topic)
    BY <1>2 DEF RemoveConnection, connVars, All
  <2>2. x \in jobs \/ x.conn = c
    BY <2>1, StartedFits
  <2> QED
    BY <2>1, <2>2 DEF Stale
<1>3. CASE Strip
  <2> DEFINE d == evictor.conn
             ch == evictor.channel
  <2>1. PICK u \in evictor.todo :
           \/ UNCHANGED jobs
           \/ /\ subs' = [subs EXCEPT ![d][u] = subs[d][u] \ {ch}]
              /\ jobs' = jobs \cup Started(d, "evict", {<<u, ch>>})
    BY <1>3, StripMoves
  <2>2. d \in Conn /\ u \in SubId /\ ch \in Topic
    BY <1>3, TypeNow, EvictorNow, ScopeFacts DEF Strip
  <2> HIDE DEF d, ch
  <2>3. CASE UNCHANGED jobs
    BY <2>3
  <2>4. CASE /\ subs' = [subs EXCEPT ![d][u] = subs[d][u] \ {ch}]
             /\ jobs' = jobs \cup Started(d, "evict", {<<u, ch>>})
    <3>1. ch \notin subs'[d][u]
      BY <2>2, <2>4, TypeNow DEF RegOK
    <3>2. {<<u, ch>>} \in SUBSET (SubId \X Topic)
      BY <2>2
    <3>3. x \in jobs \/ (x.conn = d /\ x.by = "evict" /\ x.todo = {<<u, ch>>})
      BY <2>2, <2>4, <3>2, StartedFits
    <3> QED
      BY <3>1, <3>3 DEF Stale
  <2> QED
    BY <2>1, <2>3, <2>4
<1>4. CASE UNCHANGED jobs
  BY <1>4
<1> QED
  BY <1>1, <1>2, <1>3, <1>4, RedisStepTypes
  DEF OtherStep, Dispatch, Leave, InlineRelease, Deregister, Revoke, ForgetLocal,
      EvictRelease, regVars

LEMMA IndexOthers ==
    ASSUME TypeInv, JobInv, EntryInv, OtherStep
    PROVE  JobInv' /\ EntryInv'
<1>1. /\ UNCHANGED <<index, lost>> /\ Shrinks
      /\ \A j \in DOMAIN tasks : j \in DOMAIN tasks' /\ tasks'[j] = tasks[j]
  BY OthersShrink
<1>2. JobInv'
  BY <1>1, OthersJobs, JobsKept, TypeNow
<1>3. \A c, s, t : Indexed(c, s, t) => Indexed(c, s, t)'
  BY <1>1 DEF Indexed, Pending
<1>4. EntryInv'
  BY <1>1, <1>3, EntriesKept
<1> QED
  BY <1>2, <1>4

(* A removal takes out its own entries, which are stale, or moves those it *)
(* finds under the key to the lost ones.                                   *)
LEMMA IndexJobs ==
    ASSUME TypeInv, JobInv, EntryInv, NEW j \in jobs, Unindex(j) \/ DropKey(j)
    PROVE  JobInv' /\ EntryInv'
<1>1. UNCHANGED <<status, subs, tasks>>
  BY JobTypes
<1>2. Shrinks
  BY <1>1 DEF Shrinks
<1>3. PICK k \in Job :
             /\ k.conn = j.conn /\ k.by = j.by /\ k.todo \subseteq j.todo
             /\ jobs' = Continued(j, k)
             /\ \/ \E p \in j.todo :
                        /\ index' = index \ {<<j.conn, p[1], p[2]>>}
                        /\ lost' = lost \ {<<j.conn, p[1], p[2]>>}
                \/ lost' = lost \cup (index \ index')
  BY TypeNow, JobGoes
<1>4. JobInv'
  <2>1. \A x \in jobs' :
              \E y \in jobs : x.conn = y.conn /\ x.by = y.by /\ x.todo \subseteq y.todo
    BY <1>3 DEF Continued
  <2> QED
    BY <1>2, <2>1, JobsKept, TypeNow
<1>5. ASSUME NEW c \in Conn, NEW s \in SubId, NEW t \in subs[c][s],
             status[c] = "open", Indexed(c, s, t)
      PROVE  Indexed(c, s, t)'
  <2>1. ASSUME <<c, s, t>> \in index \cup lost
        PROVE  <<c, s, t>> \in index' \cup lost'
    <3>1. ASSUME NEW p \in j.todo PROVE <<j.conn, p[1], p[2]>> # <<c, s, t>>
      BY <1>5 DEF JobInv, Stale
    <3> QED
      BY <1>3, <2>1, <3>1
  <2> QED
    BY <1>1, <1>5, <2>1 DEF Indexed, Pending
<1>6. EntryInv'
  BY <1>1, <1>2, <1>5, EntriesKept
<1> QED
  BY <1>4, <1>6

LEMMA IndexReqStep ==
    ASSUME TypeInv, JobInv, EntryInv, NEW i \in DOMAIN tasks, ReqStep(i)
    PROVE  JobInv' /\ EntryInv'
<1> DEFINE k == tasks[i]
<1>1. TasksOK /\ TaskFits(k) /\ k \in Task /\ RegOK /\ IndexOK
  BY TypeNow, TaskNow
<1>2. k.conn \in Conn /\ k.sub \in SubId /\ k.todo \in SUBSET Topic
  BY <1>1 DEF Task
<1>3. UNCHANGED status
  BY DEF ReqStep, Check, Replace, Store, Index, ReleaseReplaced, Retain, Tell, Query, connVars
<1>4. ASSUME NEW pc, NEW scope, NEW todo, TaskGoes(i, pc, scope, todo), k.pc # "index",
             NEW c, NEW s, NEW t, Pending(c, s, t)
      PROVE  Pending(c, s, t)'
  BY <1>4 DEF TaskGoes, Pending
<1>5. CASE Check(i) \/ ReleaseReplaced(i) \/ Retain(i) \/ Tell(i) \/ Query(i)
  <2>1. UNCHANGED <<subs, index, lost, jobs>> /\ k.pc # "index"
    BY <1>5 DEF Check, ReleaseReplaced, Retain, Tell, Query, regVars, indexVars
  <2>2. PICK pc, scope, todo : TaskGoes(i, pc, scope, todo)
    BY <1>5, CheckGoes, ReleaseGoes, RetainGoes, TellGoes, QueryGoes
  <2>3. \A c, s, t : Indexed(c, s, t) => Indexed(c, s, t)'
    BY <1>4, <2>1, <2>2 DEF Indexed
  <2> QED
    BY <1>3, <2>1, <2>3 DEF JobInv, Stale, EntryInv
<1>6. CASE Replace(i)
  <2>1. Unregister(k.conn, k.sub, "req") /\ k.pc = "replace" /\ UNCHANGED <<index, lost>>
    BY <1>6 DEF Replace, indexVars
  <2>2. \A c \in Conn, s \in SubId : subs'[c][s] \subseteq subs[c][s]
    BY <1>1, <1>2, <2>1, UnregisterKeeps
  <2>3. Shrinks
    BY <1>3, <2>2 DEF Shrinks
  <2>4. JobInv'
    BY <1>1, <1>2, <2>1, <2>3, UnregisterJobs, JobsKept
  <2>5. \A c, s, t : Indexed(c, s, t) => Indexed(c, s, t)'
    BY <1>4, <1>6, <2>1, ReplaceGoes DEF Indexed
  <2> QED
    BY <2>3, <2>4, <2>5, EntriesKept
<1>7. CASE Store(i)
  <2>1. /\ k.pc = "store" /\ k.scope \in Scope /\ ~Locked(k.conn)
        /\ subs' = [subs EXCEPT ![k.conn][k.sub] = k.scope] /\ UNCHANGED <<index, lost, jobs>>
    BY <1>1, <1>7 DEF Store, TaskFits, indexVars
  <2>2. TaskGoes(i, "index", k.scope, k.todo) /\ tasks'[i].rest = k.scope
    BY <1>7, StoreGoes
  <2>3. \A c \in Conn, s \in SubId : <<c, s>> # <<k.conn, k.sub>> => subs'[c][s] = subs[c][s]
    BY <1>1, <1>2, <2>1, SubsSet
  <2>4. ASSUME NEW j \in jobs
        PROVE  (j.by = "clean" => status'[j.conn] # "open") /\ Stale(j)'
    <3>1. (j.by = "clean" => status[j.conn] # "open") /\ Stale(j) /\ j \in Job
      BY <1>1 DEF JobInv, IndexOK
    <3>2. j.conn \in Conn /\ \A p \in j.todo : p[1] \in SubId
      BY <3>1 DEF Job
    <3>3. CASE j.conn = k.conn
      <4>1. status[j.conn] # "open"
        BY <2>1, <3>1, <3>3 DEF Locked
      <4> QED
        BY <1>3, <4>1 DEF Stale
    <3>4. CASE j.conn # k.conn
      BY <1>3, <2>3, <3>1, <3>2, <3>4 DEF Stale
    <3> QED
      BY <3>3, <3>4
  <2>5. JobInv'
    BY <2>1, <2>4 DEF JobInv
  <2>6. ASSUME NEW c \in Conn, NEW s \in SubId, status[c] = "open", NEW t \in subs'[c][s]
        PROVE  Indexed(c, s, t)'
    <3>1. CASE c = k.conn /\ s = k.sub
      <4>1. subs'[k.conn][k.sub] = k.scope
        BY <1>1, <1>2, <2>1 DEF RegOK
      <4>2. t \in k.scope
        BY <2>6, <3>1, <4>1
      <4> QED
        BY <2>2, <3>1, <4>2 DEF Indexed, Pending, TaskGoes
    <3>2. CASE ~(c = k.conn /\ s = k.sub)
      <4>1. Indexed(c, s, t)
        BY <2>3, <2>6, <3>2 DEF EntryInv
      <4> QED
        BY <1>4, <2>1, <2>2, <4>1 DEF Indexed
    <3> QED
      BY <3>1, <3>2
  <2> QED
    BY <1>3, <2>5, <2>6 DEF EntryInv
<1>8. CASE Index(i)
  <2>1. UNCHANGED <<subs, jobs>>
    BY <1>8 DEF Index
  <2>2. PICK u \in k.rest :
             /\ index' = index \cup {<<k.conn, k.sub, u>>}
             /\ lost' = lost \ {<<k.conn, k.sub, u>>}
             /\ \/ k.rest = {u} /\ \E pc, scope, todo : TaskGoes(i, pc, scope, todo)
                \/ /\ TaskGoes(i, "index", k.scope, k.todo)
                   /\ tasks'[i].rest = k.rest \ {u}
    BY <1>8, IndexGoes
  <2>3. ASSUME NEW c, NEW s, NEW t, Indexed(c, s, t) PROVE Indexed(c, s, t)'
    <3>1. CASE <<c, s, t>> \in index \cup lost
      BY <2>2, <3>1 DEF Indexed
    <3>2. CASE Pending(c, s, t)
      <4>1. PICK j \in DOMAIN tasks :
               /\ tasks[j].conn = c /\ tasks[j].sub = s /\ tasks[j].pc = "index"
               /\ t \in tasks[j].rest
        BY <3>2 DEF Pending
      <4>2. CASE j # i
        BY <2>2, <4>1, <4>2 DEF TaskGoes, Pending, Indexed
      <4>3. CASE j = i /\ t = u
        BY <2>2, <4>1, <4>3 DEF Indexed
      <4>4. CASE j = i /\ t # u
        BY <2>2, <4>1, <4>4 DEF TaskGoes, Pending, Indexed
      <4> QED
        BY <4>2, <4>3, <4>4
    <3> QED
      BY <2>3, <3>1, <3>2 DEF Indexed
  <2> QED
    BY <1>3, <2>1, <2>3 DEF JobInv, Stale, EntryInv
<1> QED
  BY <1>5, <1>6, <1>7, <1>8 DEF ReqStep

LEMMA StepKinds ==
    ASSUME TypeInv, Next
    PROVE  \/ \E i \in DOMAIN tasks : ReqStep(i)
           \/ \E j \in jobs : Unindex(j) \/ DropKey(j)
           \/ OtherStep \/ EventStep
BY NextSteps DEF OtherStep

LEMMA IndexInvNext ==
    ASSUME TypeInv, JobInv, EntryInv, [Next]_vars
    PROVE  JobInv' /\ EntryInv'
<1>1. CASE UNCHANGED <<status, subs, index, lost, jobs, tasks>>
  BY <1>1 DEF JobInv, Stale, EntryInv, Indexed, Pending
<1>2. CASE UNCHANGED vars
  BY <1>1, <1>2 DEF vars, connVars, regVars, indexVars
<1>3. CASE EventStep
  BY <1>1, <1>3, EventStepTypes
<1> QED
  BY <1>2, <1>3, StepKinds, IndexReqStep, IndexOthers, IndexJobs

(* A subscription of an open connection is found by fan-out under each of  *)
(* its channels, or its handler is about to index it, or the entry went    *)
(* with its key, for any number of handlers, clients and evictions: a      *)
(* removal of register_with_scope, remove_subscription_inner or            *)
(* remove_channel_subscriptions_scoped takes no entry of a registration    *)
(* made at the same time, unless it is of a key that it found empty.       *)
THEOREM RegisteredIsIndexedCorrect == Spec => []RegisteredIsIndexed
<1>1. Init => TypeInv /\ JobInv /\ EntryInv
  BY TypeInvInit DEF Init, JobInv, EntryInv
<1>2. TypeInv /\ JobInv /\ EntryInv /\ [Next]_vars => TypeInv' /\ JobInv' /\ EntryInv'
  BY TypeInvNext, IndexInvNext
<1>3. EntryInv => RegisteredIsIndexed
  BY DEF EntryInv, RegisteredIsIndexed, Indexed, Pending, TasksOf
<1> QED
  BY <1>1, <1>2, <1>3, PTL DEF Spec

-----------------------------------------------------------------------------
(* NothingMissed.                                                          *)

LEMMA FedKept ==
    ASSUME FedInv, UNCHANGED event,
           ASSUME NEW c \in Conn, NEW s \in SubId, event.pc \in {"matching", "done"},
                  Due(c, s, event.topic)'
           PROVE  \/ Fed(c, s, event.topic)'
                  \/ Due(c, s, event.topic) /\ (Fed(c, s, event.topic) => Fed(c, s, event.topic)')
    PROVE  FedInv'
BY DEF FedInv

LEMMA FedReqStep ==
    ASSUME TypeInv, FedInv, NEW i \in DOMAIN tasks, ReqStep(i)
    PROVE  FedInv'
<1> DEFINE k == tasks[i]
<1>1. TasksOK /\ TaskFits(k) /\ k \in Task /\ RegOK
  BY TypeNow, TaskNow
<1>2. k.conn \in Conn /\ k.sub \in SubId /\ k.todo \in SUBSET Topic
  BY <1>1 DEF Task
<1>3. UNCHANGED <<status, member, event>> /\ got \subseteq got' /\ short \subseteq short'
  BY DEF ReqStep, Check, Replace, Store, Index, ReleaseReplaced, Retain, Tell, Query, connVars,
         eventVars
<1> SUFFICES ASSUME NEW c \in Conn, NEW s \in SubId, event.pc \in {"matching", "done"},
                    Due(c, s, event.topic)'
             PROVE  \/ Fed(c, s, event.topic)'
                    \/ /\ Due(c, s, event.topic)
                       /\ Fed(c, s, event.topic) => Fed(c, s, event.topic)'
  BY <1>3, FedKept
<1> DEFINE t == event.topic
<1>4. ASSUME subs'[c][s] = subs[c][s] PROVE Due(c, s, t)
  BY <1>3, <1>4 DEF Due
<1>5. ASSUME NEW pc, NEW scope, NEW todo, TaskGoes(i, pc, scope, todo),
             \/ k.pc \notin Sending
             \/ pc \in Sending /\ scope = k.scope
             \/ t \in k.scope => <<k.conn, k.sub>> \in got' \cup short',
             UNCHANGED lost
      PROVE  Fed(c, s, t) => Fed(c, s, t)'
  <2>1. \A j \in DOMAIN tasks : j # i => j \in DOMAIN tasks' /\ tasks'[j] = tasks[j]
    BY <1>5 DEF TaskGoes
  <2>2. /\ i \in DOMAIN tasks' /\ tasks'[i].conn = k.conn /\ tasks'[i].sub = k.sub
        /\ tasks'[i].pc = pc /\ tasks'[i].scope = scope
    BY <1>5 DEF TaskGoes
  <2> QED
    BY <1>3, <1>5, <2>1, <2>2 DEF Fed
<1>6. CASE Check(i)
  <2>1. UNCHANGED <<subs, lost>> /\ k.pc \notin Sending
    BY <1>6 DEF Check, regVars, indexVars, Sending
  <2> QED
    BY <1>4, <1>5, <1>6, <2>1, CheckGoes
<1>7. CASE Replace(i)
  <2>1. Unregister(k.conn, k.sub, "req") /\ k.pc \notin Sending /\ UNCHANGED lost
    BY <1>7 DEF Replace, Sending, indexVars
  <2>2. <<c, s>> # <<k.conn, k.sub>>
    BY <1>1, <1>2, <2>1, UnregisterKeeps DEF Due
  <2>3. subs'[c][s] = subs[c][s]
    BY <1>1, <1>2, <2>1, <2>2, UnregisterKeeps
  <2> QED
    BY <1>4, <1>5, <1>7, <2>1, <2>3, ReplaceGoes
<1>8. CASE Store(i)
  <2>1. /\ k.pc \notin Sending /\ k.scope \in Scope
        /\ subs' = [subs EXCEPT ![k.conn][k.sub] = k.scope] /\ UNCHANGED lost
    BY <1>1, <1>8 DEF Store, TaskFits, Sending, indexVars
  <2>2. TaskGoes(i, "index", k.scope, k.todo)
    BY <1>8, StoreGoes
  <2>3. CASE c = k.conn /\ s = k.sub
    <3>a. subs'[k.conn][k.sub] = k.scope
      BY <1>1, <1>2, <2>1 DEF RegOK
    <3>1. subs'[c][s] = k.scope
      BY <2>3, <3>a
    <3>2. t \in k.scope
      BY <1>3, <3>1 DEF Due
    <3> QED
      BY <1>3, <2>2, <2>3, <3>2 DEF Fed, TaskGoes, Sending
  <2>4. CASE ~(c = k.conn /\ s = k.sub)
    <3>1. subs'[c][s] = subs[c][s]
      BY <1>1, <1>2, <2>1, <2>4, SubsSet
    <3> QED
      BY <1>4, <1>5, <2>1, <2>2, <3>1
  <2> QED
    BY <2>3, <2>4
<1>a. CASE Index(i)
  <2>1. UNCHANGED subs /\ k.pc = "index"
    BY <1>a DEF Index
  <2>2. PICK u \in k.rest : /\ lost' = lost \ {<<k.conn, k.sub, u>>}
                            /\ \E pc \in Sending : \E todo : TaskGoes(i, pc, k.scope, todo)
    BY <1>a, IndexGoes DEF Sending
  <2>3. k.rest \subseteq k.scope
    BY <1>1, <2>1 DEF TaskFits
  <2>p. PICK pc \in Sending : \E todo : TaskGoes(i, pc, k.scope, todo)
    BY <2>2
  <2>4. PICK todo : TaskGoes(i, pc, k.scope, todo)
    BY <2>p
  <2>5. \A j \in DOMAIN tasks : j # i => j \in DOMAIN tasks' /\ tasks'[j] = tasks[j]
    BY <2>4 DEF TaskGoes
  <2>6. /\ i \in DOMAIN tasks' /\ tasks'[i].conn = k.conn /\ tasks'[i].sub = k.sub
        /\ tasks'[i].pc \in Sending /\ tasks'[i].scope = k.scope
    BY <2>4 DEF TaskGoes
  <2>7. Fed(c, s, t) => Fed(c, s, t)'
    BY <1>3, <2>2, <2>3, <2>5, <2>6 DEF Fed
  <2> QED
    BY <1>4, <2>1, <2>7
<1>9. CASE ReleaseReplaced(i) \/ Retain(i) \/ Tell(i)
  <2>1. UNCHANGED <<subs, lost>>
    BY <1>9 DEF ReleaseReplaced, Retain, Tell, regVars, indexVars
  <2>2. PICK pc, todo : TaskGoes(i, pc, k.scope, todo) /\ pc \in {"release", "retain", "tell", "query"}
    BY <1>9, ReleaseGoes, RetainGoes, TellGoes
  <2> QED
    BY <1>4, <1>5, <2>1, <2>2 DEF Sending
<1>10. CASE Query(i)
  <2>1. UNCHANGED <<subs, lost>> /\ (t \in k.scope => <<k.conn, k.sub>> \in got' \cup short')
    BY <1>10 DEF Query, regVars, indexVars, Stored
  <2> QED
    BY <1>4, <1>5, <1>10, <2>1, QueryGoes
<1> QED
  BY <1>6, <1>7, <1>8, <1>9, <1>10, <1>a DEF ReqStep

(* Every other step of the registry only ends subscriptions.               *)
LEMMA FedOthers ==
    ASSUME TypeInv, FedInv, OtherStep
    PROVE  FedInv'
<1>1. /\ UNCHANGED <<event, got, short, lost>> /\ Shrinks
      /\ \A j \in DOMAIN tasks : j \in DOMAIN tasks' /\ tasks'[j] = tasks[j]
      /\ \A c \in Conn : member'[c] \subseteq member[c]
  BY OthersShrink
<1> SUFFICES ASSUME NEW c \in Conn, NEW s \in SubId, event.pc \in {"matching", "done"},
                    Due(c, s, event.topic)'
             PROVE  /\ Due(c, s, event.topic)
                    /\ Fed(c, s, event.topic) => Fed(c, s, event.topic)'
  BY <1>1, FedKept
<1>2. Due(c, s, event.topic)
  BY <1>1 DEF Due, Shrinks
<1>3. Fed(c, s, event.topic) => Fed(c, s, event.topic)'
  BY <1>1 DEF Fed
<1> QED
  BY <1>2, <1>3

(* A removal forgets a lost entry only when it is stale.                   *)
LEMMA FedJobs ==
    ASSUME TypeInv, JobInv, FedInv, NEW j \in jobs, Unindex(j) \/ DropKey(j)
    PROVE  FedInv'
<1>1. UNCHANGED <<status, member, subs, tasks, event, got, short>>
  BY JobTypes
<1>2. lost \subseteq lost' \/ \E p \in j.todo : lost' = lost \ {<<j.conn, p[1], p[2]>>}
  BY TypeNow, JobGoes
<1> SUFFICES ASSUME NEW c \in Conn, NEW s \in SubId, event.pc \in {"matching", "done"},
                    Due(c, s, event.topic)'
             PROVE  /\ Due(c, s, event.topic)
                    /\ Fed(c, s, event.topic) => Fed(c, s, event.topic)'
  BY <1>1, FedKept
<1>3. Due(c, s, event.topic)
  BY <1>1 DEF Due
<1>4. \A p \in j.todo : <<j.conn, p[1], p[2]>> # <<c, s, event.topic>>
  BY <1>3 DEF JobInv, Stale, Due
<1>5. Fed(c, s, event.topic) => Fed(c, s, event.topic)'
  BY <1>1, <1>2, <1>4 DEF Fed
<1> QED
  BY <1>3, <1>5

(* The candidates are all there, because the index is; and a match is sent *)
(* to every one of them that still holds the topic.                        *)
LEMMA FedEvent ==
    ASSUME TypeInv, EntryInv, FedInv, EventStep
    PROVE  FedInv'
<1>1. UNCHANGED <<status, member, subs, index, lost, tasks, short>>
  BY EventStepTypes
<1>2. CASE \E t \in Topic, o \in {"local", "remote"} : CommitEvent(t, o)
  BY <1>2 DEF CommitEvent, FedInv
<1>3. CASE Reach
  <2>1. event.pc = "stored"
    BY <1>3 DEF Reach
  <2>2. event \in EventRecord
    BY <2>1, TypeNow, EventNow
  <2>3. event'.pc \in {"missed", "here"}
    BY <1>3, <2>2 DEF Reach, EventRecord
  <2> QED
    BY <2>3 DEF FedInv
<1>4. CASE Candidates
  <2> DEFINE found == {p \in Conn \X SubId : <<p[1], p[2], event.topic>> \in index}
             t == event.topic
  <2>1. event.pc = "here" /\ event' = [event EXCEPT !.pc = "matching", !.candidates = found]
    BY <1>4 DEF Candidates
  <2>2. event \in EventRecord
    BY <2>1, TypeNow, EventNow
  <2> HIDE DEF found
  <2>3. event'.pc = "matching" /\ event'.topic = t /\ event'.candidates = found
    BY <2>1, <2>2 DEF EventRecord
  <2>4. ASSUME NEW c \in Conn, NEW s \in SubId, Due(c, s, t)'
        PROVE  Fed(c, s, t)'
    <3>1. t \in subs[c][s] /\ status[c] = "open"
      BY <1>1, <2>3, <2>4 DEF Due
    <3>2. CASE <<c, s, t>> \in index
      <4>1. <<c, s>> \in found
        BY <3>2 DEF found
      <4> QED
        BY <2>3, <4>1 DEF Fed
    <3>3. CASE <<c, s, t>> \in lost
      BY <1>1, <2>3, <3>3 DEF Fed
    <3>4. CASE Pending(c, s, t)
      <4>1. PICK j \in DOMAIN tasks :
               /\ tasks[j].conn = c /\ tasks[j].sub = s /\ tasks[j].pc = "index"
               /\ t \in tasks[j].rest
        BY <3>4 DEF Pending
      <4>2. t \in tasks[j].scope
        BY <4>1, TypeNow DEF TasksOK, TaskFits
      <4> QED
        BY <1>1, <2>3, <4>1, <4>2 DEF Fed, Sending
    <3> QED
      BY <3>1, <3>2, <3>3, <3>4 DEF EntryInv, Indexed
  <2> QED
    BY <2>3, <2>4 DEF FedInv
<1>5. ASSUME NEW p \in Conn \X SubId, Match(p) PROVE FedInv'
  <2> DEFINE t == event.topic
             hit == IF t \in subs[p[1]][p[2]] THEN event.matched \cup {p} ELSE event.matched
             left == event.candidates \ {p}
  <2>1. /\ event.pc = "matching" /\ UNCHANGED got
        /\ event' = [event EXCEPT !.candidates = left, !.matched = hit]
    BY <1>5 DEF Match
  <2>2. event \in EventRecord
    BY <2>1, TypeNow, EventNow
  <2>3. /\ event'.pc = "matching" /\ event'.topic = t
        /\ event'.candidates = left /\ event'.matched = hit
    BY <2>1, <2>2 DEF EventRecord
  <2>4. ASSUME NEW c \in Conn, NEW s \in SubId, Due(c, s, t)'
        PROVE  Fed(c, s, t)'
    <3>1. Due(c, s, t)
      BY <1>1, <2>3, <2>4 DEF Due
    <3>2. Fed(c, s, t)
      BY <2>1, <3>1 DEF FedInv
    <3>3. <<c, s>> \in event.candidates \cup event.matched
              => <<c, s>> \in event'.candidates \cup event'.matched
      BY <2>3, <3>1 DEF Due
    <3> QED
      BY <1>1, <2>1, <2>3, <3>2, <3>3 DEF Fed
  <2> QED
    BY <2>3, <2>4 DEF FedInv
<1>6. CASE Deliver
  <2> DEFINE t == event.topic
  <2>1. /\ event.pc = "matching" /\ event.candidates = {}
        /\ event' = [event EXCEPT !.pc = "done"]
    BY <1>6 DEF Deliver
  <2>2. event \in EventRecord
    BY <2>1, TypeNow, EventNow
  <2>3. event'.pc = "done" /\ event'.topic = t
    BY <2>1, <2>2 DEF EventRecord
  <2>4. ASSUME NEW c \in Conn, NEW s \in SubId, Due(c, s, t)'
        PROVE  Fed(c, s, t)'
    <3>1. Due(c, s, t)
      BY <1>1, <2>3, <2>4 DEF Due
    <3>2. Fed(c, s, t)
      BY <2>1, <3>1 DEF FedInv
    <3>3. <<c, s>> \in event.matched => <<c, s>> \in got'
      BY <1>6, <3>1 DEF Deliver, Due
    <3>4. got \subseteq got'
      BY <1>6 DEF Deliver
    <3> QED
      BY <1>1, <2>1, <2>3, <3>2, <3>3, <3>4 DEF Fed
  <2> QED
    BY <2>3, <2>4 DEF FedInv
<1> QED
  BY <1>2, <1>3, <1>4, <1>5, <1>6 DEF EventStep

LEMMA FedInvNext ==
    ASSUME TypeInv, JobInv, EntryInv, FedInv, [Next]_vars
    PROVE  FedInv'
<1>1. CASE UNCHANGED vars
  BY <1>1 DEF FedInv, Due, Fed, vars, connVars, regVars, indexVars, eventVars
<1>2. CASE Next
  BY <1>2, StepKinds, FedReqStep, FedOthers, FedJobs, FedEvent
<1> QED
  BY <1>1, <1>2

(* Between the history that handle_req sends and the live feed of          *)
(* fan_out_scoped no subscription misses an event that reached the node,   *)
(* for any number of clients and in any interleaving, unless its query     *)
(* failed or was full or its index entry went with the key: the handler    *)
(* indexes before it queries, and an event is committed before it is       *)
(* fanned out.                                                             *)
THEOREM NothingMissedCorrect == Spec => []NothingMissed
<1>1. Init => TypeInv /\ JobInv /\ EntryInv /\ FedInv
  BY TypeInvInit DEF Init, JobInv, EntryInv, FedInv, Idle
<1>2. TypeInv /\ JobInv /\ EntryInv /\ FedInv /\ [Next]_vars
        => TypeInv' /\ JobInv' /\ EntryInv' /\ FedInv'
  BY TypeInvNext, IndexInvNext, FedInvNext
<1>3. FedInv => NothingMissed
  <2> SUFFICES ASSUME FedInv, event.pc = "done", NEW p \in Missing
               PROVE  <<p[1], p[2], event.topic>> \in lost
    BY DEF NothingMissed
  <2>1. /\ p[1] \in Conn /\ p[2] \in SubId /\ p = <<p[1], p[2]>>
        /\ event.topic \in subs[p[1]][p[2]]
    BY DEF Missing, Holders
  <2>2. Fed(p[1], p[2], event.topic)
    BY <2>1 DEF FedInv, Due, Missing
  <2> QED
    BY <2>1, <2>2 DEF Fed, Sending, TasksOf, Missing
<1> QED
  BY <1>1, <1>2, <1>3, PTL DEF Spec

-----------------------------------------------------------------------------
(* CountCovers.  The count of a topic and the five numbers it is compared  *)
(* with; each step changes a number by what it does to one member.         *)

Has(S, x) == IF x \in S THEN 1 ELSE 0
Same(t, u) == IF t = u THEN 1 ELSE 0
(* Whether a handler at pc has the topic to retain, or to release.         *)
Retains(pc, scope, todo, t) ==
    IF \/ pc \in {"index", "release"} /\ t \in scope
       \/ pc \in {"retain", "tell"} /\ t \in todo
    THEN 1 ELSE 0
Releases(pc, todo, t) == IF pc \in {"store", "index", "release"} /\ t \in todo THEN 1 ELSE 0
LoopReleases(p, t) == inline[p[1]] # Idle /\ <<p[2], t>> \in inline[p[1]].todo

ByTask(t) ==
    {i \in DOMAIN tasks : tasks[i].pc \in {"store", "index", "release"} /\ t \in tasks[i].todo}
ByLoop(t) == {p \in Conn \X SubId : LoopReleases(p, t)}
ByEvictor(t) == IF evictor # Idle /\ evictor.channel = t THEN Cardinality(evictor.stripped) ELSE 0

RetainingN(t) == Cardinality(Retaining(t))
HoldersN(t) == Cardinality(Holders(t))
ByTaskN(t) == Cardinality(ByTask(t))
ByLoopN(t) == Cardinality(ByLoop(t))

Covers(t) == count[t] + RetainingN(t) >= HoldersN(t) + (ByTaskN(t) + ByLoopN(t) + ByEvictor(t))

LEMMA CoversNow == CountCovers <=> \A t \in Topic \ stray : Covers(t)
BY DEF CountCovers, Covers, Releasing, RetainingN, HoldersN, ByTaskN, ByLoopN, ByTask, ByLoop,
       ByEvictor, LoopReleases

LEMMA CoversThen == CountCovers' <=> \A t \in Topic \ stray' : Covers(t)'
BY DEF CountCovers, Covers, Releasing, RetainingN, HoldersN, ByTaskN, ByLoopN, ByTask, ByLoop,
       ByEvictor, LoopReleases

(* Two finite sets that differ in one element at most.                     *)
LEMMA DifferAt ==
    ASSUME NEW S, NEW T, NEW x, IsFiniteSet(S), \A y : y # x => (y \in S <=> y \in T)
    PROVE  /\ Cardinality(S) \in Nat /\ Cardinality(T) \in Nat
           /\ Cardinality(T) + Has(S, x) = Cardinality(S) + Has(T, x)
<1> DEFINE R == S \ {x}
<1>1. IsFiniteSet(R) /\ Cardinality(R) \in Nat
  BY FS_RemoveElement, FS_CardinalityType
<1>2. x \notin R
  OBVIOUS
<1>3. S = IF x \in S THEN R \cup {x} ELSE R
  OBVIOUS
<1>4. T = IF x \in T THEN R \cup {x} ELSE R
  OBVIOUS
<1> HIDE DEF R
<1>5. Cardinality(R \cup {x}) = Cardinality(R) + 1
  BY <1>1, <1>2, FS_AddElement
<1>6. Cardinality(S) = Cardinality(R) + Has(S, x)
  <2>1. CASE x \in S
    BY <1>1, <1>3, <1>5, <2>1 DEF Has
  <2>2. CASE x \notin S
    BY <1>1, <1>3, <2>2 DEF Has
  <2> QED
    BY <2>1, <2>2
<1>7. Cardinality(T) = Cardinality(R) + Has(T, x)
  <2>1. CASE x \in T
    BY <1>1, <1>4, <1>5, <2>1 DEF Has
  <2>2. CASE x \notin T
    BY <1>1, <1>4, <2>2 DEF Has
  <2> QED
    BY <2>1, <2>2
<1>8. Has(S, x) \in {0, 1} /\ Has(T, x) \in {0, 1}
  BY DEF Has
<1> QED
  BY <1>1, <1>6, <1>7, <1>8

LEMMA SetsFinite ==
    ASSUME TypeInv, NEW t
    PROVE  /\ IsFiniteSet(DOMAIN tasks) /\ IsFiniteSet(Retaining(t)) /\ IsFiniteSet(ByTask(t))
           /\ IsFiniteSet(Conn \X SubId) /\ IsFiniteSet(Holders(t)) /\ IsFiniteSet(ByLoop(t))
           /\ RetainingN(t) \in Nat /\ HoldersN(t) \in Nat /\ ByTaskN(t) \in Nat
           /\ ByLoopN(t) \in Nat /\ ByEvictor(t) \in Nat
<1>1. tasks \in Seq(Task)
  BY TypeNow DEF TasksOK
<1>2. DOMAIN tasks = 1..Len(tasks) /\ Len(tasks) \in Nat
  BY <1>1
<1>3. IsFiniteSet(DOMAIN tasks)
  BY <1>2, FS_Interval
<1>4. IsFiniteSet(Retaining(t)) /\ IsFiniteSet(ByTask(t))
  <2>1. Retaining(t) \subseteq DOMAIN tasks /\ ByTask(t) \subseteq DOMAIN tasks
    BY DEF Retaining, ByTask
  <2> QED
    BY <1>3, <2>1, FS_Subset
<1>5. IsFiniteSet(Conn \X SubId)
  BY RelaySubscriptionsAssumption, FS_Product
<1>6. IsFiniteSet(Holders(t)) /\ IsFiniteSet(ByLoop(t))
  <2>1. Holders(t) \subseteq Conn \X SubId /\ ByLoop(t) \subseteq Conn \X SubId
    BY DEF Holders, ByLoop
  <2> QED
    BY <1>5, <2>1, FS_Subset
<1>7. ByEvictor(t) \in Nat
  <2>1. CASE evictor # Idle
    <3>1. evictor.stripped \subseteq SubId
      BY <2>1, TypeNow DEF EvictorOK, EvictorRecord
    <3>2. IsFiniteSet(evictor.stripped)
      BY <3>1, RelaySubscriptionsAssumption, FS_Subset
    <3> QED
      BY <3>2, FS_CardinalityType DEF ByEvictor
  <2>2. CASE evictor = Idle
    BY <2>2 DEF ByEvictor
  <2> QED
    BY <2>1, <2>2
<1> QED
  BY <1>3, <1>4, <1>5, <1>6, <1>7, FS_CardinalityType DEF RetainingN, HoldersN, ByTaskN, ByLoopN

(* What a handler's step does to the numbers of handlers.                  *)
LEMMA TaskNumbers ==
    ASSUME TypeInv, NEW i \in DOMAIN tasks, NEW pc, NEW scope, NEW todo,
           TaskGoes(i, pc, scope, todo), NEW t
    PROVE  /\ RetainingN(t)' \in Nat /\ ByTaskN(t)' \in Nat
           /\ RetainingN(t)' + Retains(tasks[i].pc, tasks[i].scope, tasks[i].todo, t) =
                RetainingN(t) + Retains(pc, scope, todo, t)
           /\ ByTaskN(t)' + Releases(tasks[i].pc, tasks[i].todo, t) =
                ByTaskN(t) + Releases(pc, todo, t)
<1>1. IsFiniteSet(Retaining(t)) /\ IsFiniteSet(ByTask(t))
  BY SetsFinite
<1>2. /\ \A j : j # i => (j \in Retaining(t) <=> j \in Retaining(t)')
      /\ Has(Retaining(t), i) = Retains(tasks[i].pc, tasks[i].scope, tasks[i].todo, t)
      /\ Has(Retaining(t)', i) = Retains(pc, scope, todo, t)
  BY DEF Retaining, Retains, Has, TaskGoes
<1>3. /\ \A j : j # i => (j \in ByTask(t) <=> j \in ByTask(t)')
      /\ Has(ByTask(t), i) = Releases(tasks[i].pc, tasks[i].todo, t)
      /\ Has(ByTask(t)', i) = Releases(pc, todo, t)
  BY DEF ByTask, Releases, Has, TaskGoes
<1>4. /\ RetainingN(t)' \in Nat
      /\ RetainingN(t)' + Has(Retaining(t), i) = RetainingN(t) + Has(Retaining(t)', i)
  BY <1>1, <1>2, DifferAt DEF RetainingN
<1>5. /\ ByTaskN(t)' \in Nat
      /\ ByTaskN(t)' + Has(ByTask(t), i) = ByTaskN(t) + Has(ByTask(t)', i)
  BY <1>1, <1>3, DifferAt DEF ByTaskN
<1> QED
  BY <1>2, <1>3, <1>4, <1>5

(* What setting one subscription does to the number of holders.            *)
LEMMA HolderNumbers ==
    ASSUME TypeInv, NEW c \in Conn, NEW s \in SubId, NEW t,
           \A d \in Conn, u \in SubId : <<d, u>> # <<c, s>> => subs'[d][u] = subs[d][u]
    PROVE  /\ HoldersN(t)' \in Nat
           /\ HoldersN(t)' + Has(subs[c][s], t) = HoldersN(t) + Has(subs'[c][s], t)
<1>1. IsFiniteSet(Holders(t))
  BY SetsFinite
<1>2. /\ \A p : p # <<c, s>> => (p \in Holders(t) <=> p \in Holders(t)')
      /\ <<c, s>> \in Holders(t) <=> t \in subs[c][s]
      /\ <<c, s>> \in Holders(t)' <=> t \in subs'[c][s]
  BY DEF Holders
<1>3. /\ HoldersN(t)' \in Nat
      /\ HoldersN(t)' + Has(Holders(t), <<c, s>>) = HoldersN(t) + Has(Holders(t)', <<c, s>>)
  BY <1>1, <1>2, DifferAt DEF HoldersN
<1> QED
  BY <1>2, <1>3 DEF Has

LEMMA ReleaseNumbers ==
    ASSUME TypeInv, NEW u \in Topic, Release(u), NEW t \in Topic
    PROVE  count[t] \in Nat /\ count'[t] \in Nat /\ count'[t] + Same(t, u) >= count[t]
<1>1. count[t] \in Nat /\ count \in [Topic -> Nat]
  BY TypeNow DEF TopicOK
<1>2. count'[t] = IF t = u THEN Lowered(count[t]) ELSE count[t]
  BY <1>1 DEF Release
<1> QED
  BY <1>1, <1>2 DEF Lowered, Same

LEMMA SameByTask == ASSUME NEW t, UNCHANGED tasks
                    PROVE  RetainingN(t)' = RetainingN(t) /\ ByTaskN(t)' = ByTaskN(t)
BY DEF RetainingN, ByTaskN, Retaining, ByTask

LEMMA SameHolders == ASSUME NEW t, UNCHANGED subs PROVE HoldersN(t)' = HoldersN(t)
BY DEF HoldersN, Holders

LEMMA SameByLoop == ASSUME NEW t, UNCHANGED inline PROVE ByLoopN(t)' = ByLoopN(t)
BY DEF ByLoopN, ByLoop, LoopReleases

LEMMA SameByEvictor == ASSUME NEW t, UNCHANGED evictor PROVE ByEvictor(t)' = ByEvictor(t)
BY DEF ByEvictor

LEMMA CoversReqStep ==
    ASSUME TypeInv, NEW i \in DOMAIN tasks, ReqStep(i), NEW t \in Topic, Covers(t)
    PROVE  Covers(t)'
<1> DEFINE k == tasks[i]
<1>1. TasksOK /\ TaskFits(k) /\ k \in Task /\ RegOK /\ TopicOK
  BY TypeNow, TaskNow
<1>2. k.conn \in Conn /\ k.sub \in SubId /\ k.todo \in SUBSET Topic /\ count[t] \in Nat
  BY <1>1 DEF Task, TopicOK
<1>3. UNCHANGED <<inline, evictor>>
  BY DEF ReqStep, Check, Replace, Store, Index, ReleaseReplaced, Retain, Tell, Query
<1>4. ByLoopN(t)' = ByLoopN(t) /\ ByEvictor(t)' = ByEvictor(t)
  BY <1>3, SameByLoop, SameByEvictor
<1>5. /\ RetainingN(t) \in Nat /\ HoldersN(t) \in Nat /\ ByTaskN(t) \in Nat
      /\ ByLoopN(t) \in Nat /\ ByEvictor(t) \in Nat
  BY SetsFinite
<1>6. ASSUME UNCHANGED <<subs, count>>,
             NEW pc, NEW scope, NEW todo, TaskGoes(i, pc, scope, todo),
             Retains(k.pc, k.scope, k.todo, t) = Retains(pc, scope, todo, t),
             Releases(k.pc, k.todo, t) = Releases(pc, todo, t)
      PROVE  Covers(t)'
  <2>1. HoldersN(t)' = HoldersN(t)
    BY <1>6, SameHolders
  <2>2. Retains(k.pc, k.scope, k.todo, t) \in {0, 1} /\ Releases(k.pc, k.todo, t) \in {0, 1}
    BY DEF Retains, Releases
  <2>3. RetainingN(t)' \in Nat /\ ByTaskN(t)' \in Nat
        /\ RetainingN(t)' + Retains(k.pc, k.scope, k.todo, t) =
             RetainingN(t) + Retains(k.pc, k.scope, k.todo, t)
        /\ ByTaskN(t)' + Releases(k.pc, k.todo, t) = ByTaskN(t) + Releases(k.pc, k.todo, t)
    BY <1>6, TaskNumbers
  <2>4. RetainingN(t)' = RetainingN(t) /\ ByTaskN(t)' = ByTaskN(t)
    BY <1>5, <2>2, <2>3
  <2> QED
    BY <1>4, <1>6, <2>1, <2>4 DEF Covers
<1>7. CASE Check(i)
  <2>1. UNCHANGED <<subs, count>> /\ k.pc = "check"
    BY <1>7 DEF Check, regVars, topicVars
  <2>a. PICK pc \in {"done", "replace"} : \E scope : TaskGoes(i, pc, scope, k.todo)
    BY <1>7, CheckGoes
  <2>2. PICK scope : TaskGoes(i, pc, scope, k.todo)
    BY <2>a
  <2>3. /\ Retains(k.pc, k.scope, k.todo, t) = 0 /\ Releases(k.pc, k.todo, t) = 0
        /\ Retains(pc, scope, k.todo, t) = 0
        /\ Releases(pc, k.todo, t) = 0
    BY <2>1 DEF Has, Retains, Releases
  <2> QED
    BY <1>6, <2>1, <2>2, <2>3
<1>8. CASE Replace(i)
  <2> DEFINE old == subs[k.conn][k.sub]
  <2>1. Unregister(k.conn, k.sub, "req") /\ k.pc = "replace" /\ UNCHANGED count
    BY <1>8 DEF Replace, topicVars
  <2>2. TaskGoes(i, "store", k.scope, old)
    BY <1>8, ReplaceGoes
  <2>3. /\ subs'[k.conn][k.sub] = {}
        /\ \A d \in Conn, u \in SubId : <<d, u>> # <<k.conn, k.sub>> => subs'[d][u] = subs[d][u]
    BY <1>1, <1>2, <2>1, UnregisterKeeps
  <2>4. /\ HoldersN(t)' \in Nat
        /\ HoldersN(t)' + Has(old, t) = HoldersN(t) + Has(subs'[k.conn][k.sub], t)
    BY <1>2, <2>3, HolderNumbers
  <2>5. Has(subs'[k.conn][k.sub], t) = 0 /\ Has(old, t) \in {0, 1}
    BY <2>3 DEF Has
  <2>6. /\ RetainingN(t)' \in Nat /\ ByTaskN(t)' \in Nat
        /\ RetainingN(t)' + Retains(k.pc, k.scope, k.todo, t) =
                RetainingN(t) + Retains("store", k.scope, old, t)
        /\ ByTaskN(t)' + Releases(k.pc, k.todo, t) =
                ByTaskN(t) + Releases("store", old, t)
    BY <2>2, TaskNumbers
  <2> HIDE DEF old
  <2>7. /\ Retains(k.pc, k.scope, k.todo, t) = 0 /\ Releases(k.pc, k.todo, t) = 0
        /\ Retains("store", k.scope, old, t) = 0
        /\ Releases("store", old, t) = Has(old, t)
    BY <2>1 DEF Has, Retains, Releases
  <2>8. RetainingN(t)' = RetainingN(t) /\ ByTaskN(t)' = ByTaskN(t) + Has(old, t)
    BY <1>5, <2>5, <2>6, <2>7
  <2>9. HoldersN(t)' + Has(old, t) = HoldersN(t)
    BY <1>5, <2>4, <2>5
  <2> QED
    BY <1>2, <1>4, <1>5, <2>1, <2>4, <2>5, <2>8, <2>9 DEF Covers
<1>9. CASE Store(i)
  <2>1. /\ k.pc = "store" /\ k.scope \in Scope /\ UNCHANGED count
        /\ subs' = [subs EXCEPT ![k.conn][k.sub] = k.scope]
    BY <1>1, <1>9 DEF Store, TaskFits, topicVars
  <2>2. TaskGoes(i, "index", k.scope, k.todo)
    BY <1>9, StoreGoes
  <2>3. /\ subs'[k.conn][k.sub] = k.scope
        /\ \A d \in Conn, u \in SubId : <<d, u>> # <<k.conn, k.sub>> => subs'[d][u] = subs[d][u]
    BY <1>1, <1>2, <2>1 DEF RegOK
  <2>4. /\ HoldersN(t)' \in Nat
        /\ HoldersN(t)' + Has(subs[k.conn][k.sub], t) = HoldersN(t) + Has(subs'[k.conn][k.sub], t)
    BY <1>2, <2>3, HolderNumbers
  <2>5. /\ Has(subs[k.conn][k.sub], t) \in {0, 1} /\ Has(k.scope, t) \in {0, 1}
        /\ Has(subs'[k.conn][k.sub], t) = Has(k.scope, t)
    BY <2>3 DEF Has
  <2>6. /\ RetainingN(t)' \in Nat /\ ByTaskN(t)' \in Nat
        /\ RetainingN(t)' + Retains(k.pc, k.scope, k.todo, t) =
                RetainingN(t) + Retains("index", k.scope, k.todo, t)
        /\ ByTaskN(t)' + Releases(k.pc, k.todo, t) =
                ByTaskN(t) + Releases("index", k.todo, t)
    BY <2>2, TaskNumbers
  <2>7. /\ Retains(k.pc, k.scope, k.todo, t) = 0 /\ Releases(k.pc, k.todo, t) = Has(k.todo, t)
        /\ Retains("index", k.scope, k.todo, t) = Has(k.scope, t)
        /\ Releases("index", k.todo, t) = Has(k.todo, t)
        /\ Has(k.todo, t) \in {0, 1}
    BY <2>1 DEF Has, Retains, Releases
  <2>8. RetainingN(t)' = RetainingN(t) + Has(k.scope, t) /\ ByTaskN(t)' = ByTaskN(t)
    BY <1>5, <2>5, <2>6, <2>7
  <2>9. HoldersN(t)' <= HoldersN(t) + Has(k.scope, t)
    BY <1>5, <2>4, <2>5
  <2> QED
    BY <1>2, <1>4, <1>5, <2>1, <2>4, <2>5, <2>8, <2>9 DEF Covers
<1>10. CASE Index(i)
  <2>1. UNCHANGED <<subs, count>> /\ k.pc = "index"
    BY <1>10 DEF Index, topicVars
  <2>2. CASE k.todo = {} /\ TaskGoes(i, "retain", k.scope, k.scope)
    <3>1. /\ Retains(k.pc, k.scope, k.todo, t) = Retains("retain", k.scope, k.scope, t)
          /\ Releases(k.pc, k.todo, t) =
               Releases("retain", k.scope, t)
      BY <2>1, <2>2 DEF Has, Retains, Releases
    <3> QED
      BY <1>6, <2>1, <2>2, <3>1
  <2>3. CASE TaskGoes(i, "release", k.scope, k.todo)
    <3>1. /\ Retains(k.pc, k.scope, k.todo, t) = Retains("release", k.scope, k.todo, t)
          /\ Releases(k.pc, k.todo, t) =
               Releases("release", k.todo, t)
      BY <2>1 DEF Has, Retains, Releases
    <3> QED
      BY <1>6, <2>1, <2>3, <3>1
  <2>4. CASE TaskGoes(i, "index", k.scope, k.todo)
    BY <1>6, <2>1, <2>4
  <2> QED
    BY <1>10, <2>2, <2>3, <2>4, IndexGoes
<1>11. CASE Tell(i)
  <2>1. UNCHANGED <<subs, count>> /\ k.pc = "tell"
    BY <1>11 DEF Tell, regVars
  <2>2. CASE k.todo = {} /\ TaskGoes(i, "query", k.scope, k.todo)
    <3>1. /\ Retains(k.pc, k.scope, k.todo, t) = Retains("query", k.scope, k.todo, t)
          /\ Releases(k.pc, k.todo, t) =
               Releases("query", k.todo, t)
      BY <2>1, <2>2 DEF Has, Retains, Releases
    <3> QED
      BY <1>6, <2>1, <2>2, <3>1
  <2>3. CASE TaskGoes(i, "retain", k.scope, k.todo)
    <3>1. /\ Retains(k.pc, k.scope, k.todo, t) = Retains("retain", k.scope, k.todo, t)
          /\ Releases(k.pc, k.todo, t) =
               Releases("retain", k.todo, t)
      BY <2>1 DEF Has, Retains, Releases
    <3> QED
      BY <1>6, <2>1, <2>3, <3>1
  <2> QED
    BY <1>11, <2>2, <2>3, TellGoes
<1>12. CASE Query(i)
  <2>1. UNCHANGED <<subs, count>> /\ k.pc = "query"
    BY <1>12 DEF Query, regVars, topicVars
  <2>2. TaskGoes(i, "done", k.scope, k.todo)
    BY <1>12, QueryGoes
  <2>3. /\ Retains(k.pc, k.scope, k.todo, t) = Retains("done", k.scope, k.todo, t)
        /\ Releases(k.pc, k.todo, t) =
             Releases("done", k.todo, t)
    BY <2>1 DEF Has, Retains, Releases
  <2> QED
    BY <1>6, <2>1, <2>2, <2>3
<1>13. CASE ReleaseReplaced(i)
  <2>1. UNCHANGED subs /\ k.pc = "release" /\ HoldersN(t)' = HoldersN(t)
    BY <1>13, SameHolders DEF ReleaseReplaced, regVars
  <2>2. PICK u \in k.todo :
              /\ Release(u)
              /\ \/ k.todo = {u} /\ TaskGoes(i, "retain", k.scope, k.scope)
                 \/ TaskGoes(i, "release", k.scope, k.todo \ {u})
    BY <1>13, ReleaseGoes
  <2>3. count'[t] \in Nat /\ count'[t] + Same(t, u) >= count[t] /\ Same(t, u) \in {0, 1}
    BY <1>2, <2>2, ReleaseNumbers DEF Same
  <2>4. /\ Retains(k.pc, k.scope, k.todo, t) = Has(k.scope, t)
        /\ Releases(k.pc, k.todo, t) = Has(k.todo, t)
        /\ Has(k.scope, t) \in {0, 1} /\ Has(k.todo, t) \in {0, 1}
    BY <2>1 DEF Has, Retains, Releases
  <2>5. /\ RetainingN(t)' = RetainingN(t)
        /\ ByTaskN(t)' \in Nat /\ ByTaskN(t)' + Same(t, u) = ByTaskN(t)
    <3>1. CASE k.todo = {u} /\ TaskGoes(i, "retain", k.scope, k.scope)
      <4>1. /\ RetainingN(t)' \in Nat /\ ByTaskN(t)' \in Nat
            /\ RetainingN(t)' + Retains(k.pc, k.scope, k.todo, t) =
                 RetainingN(t) + Retains("retain", k.scope, k.scope, t)
            /\ ByTaskN(t)' + Releases(k.pc, k.todo, t) =
                 ByTaskN(t) + Releases("retain", k.scope, t)
        BY <3>1, TaskNumbers
      <4>2. /\ Retains("retain", k.scope, k.scope, t) = Has(k.scope, t)
            /\ Releases("retain", k.scope, t) = 0
            /\ Has(k.todo, t) = Same(t, u)
        BY <3>1 DEF Has, Same, Retains, Releases
      <4> QED
        BY <1>5, <2>4, <4>1, <4>2
    <3>2. CASE TaskGoes(i, "release", k.scope, k.todo \ {u})
      <4>1. /\ RetainingN(t)' \in Nat /\ ByTaskN(t)' \in Nat
            /\ RetainingN(t)' + Retains(k.pc, k.scope, k.todo, t) =
                 RetainingN(t) + Retains("release", k.scope, k.todo \ {u}, t)
            /\ ByTaskN(t)' + Releases(k.pc, k.todo, t) =
                 ByTaskN(t) + Releases("release", k.todo \ {u}, t)
        BY <3>2, TaskNumbers
      <4>2. /\ Retains("release", k.scope, k.todo \ {u}, t) = Has(k.scope, t)
            /\ Releases("release", k.todo \ {u}, t) + Same(t, u)
                 = Has(k.todo, t)
            /\ Releases("release", k.todo \ {u}, t) \in {0, 1}
        BY <2>2 DEF Has, Same, Retains, Releases
      <4> QED
        BY <1>5, <2>3, <2>4, <4>1, <4>2
    <3> QED
      BY <2>2, <3>1, <3>2
  <2> QED
    BY <1>2, <1>4, <1>5, <2>1, <2>3, <2>5 DEF Covers
<1>14. CASE Retain(i)
  <2>1. UNCHANGED subs /\ k.pc = "retain" /\ HoldersN(t)' = HoldersN(t)
    BY <1>14, SameHolders DEF Retain, regVars
  <2>2. PICK u \in k.todo, pc \in {"tell", "retain", "query"} :
              /\ count' = [count EXCEPT ![u] = @ + 1]
              /\ pc = "query" => k.todo \ {u} = {}
              /\ TaskGoes(i, pc, k.scope, k.todo \ {u})
    BY <1>14, RetainGoes
  <2>3. count'[t] = count[t] + Same(t, u) /\ Same(t, u) \in {0, 1}
    BY <1>1, <1>2, <2>2 DEF Same, TopicOK
  <2>4. /\ RetainingN(t)' \in Nat /\ ByTaskN(t)' \in Nat
        /\ RetainingN(t)' + Retains(k.pc, k.scope, k.todo, t) =
             RetainingN(t) + Retains(pc, k.scope, k.todo \ {u}, t)
        /\ ByTaskN(t)' + Releases(k.pc, k.todo, t) =
             ByTaskN(t) + Releases(pc, k.todo \ {u}, t)
    BY <2>2, TaskNumbers
  <2>5. /\ Retains(k.pc, k.scope, k.todo, t) = Has(k.todo, t) /\ Releases(k.pc, k.todo, t) = 0
        /\ Retains(pc, k.scope, k.todo \ {u}, t) = Has(k.todo \ {u}, t)
        /\ Releases(pc, k.todo \ {u}, t) = 0
    BY <2>1, <2>2 DEF Has, Retains, Releases
  <2>6. Has(k.todo, t) = Has(k.todo \ {u}, t) + Same(t, u) /\ Has(k.todo \ {u}, t) \in {0, 1}
    BY <2>2 DEF Has, Same
  <2>7. RetainingN(t)' + Same(t, u) = RetainingN(t) /\ ByTaskN(t)' = ByTaskN(t)
    BY <1>5, <2>3, <2>4, <2>5, <2>6
  <2> QED
    BY <1>2, <1>4, <1>5, <2>1, <2>3, <2>4, <2>7 DEF Covers
<1> QED
  BY <1>7, <1>8, <1>9, <1>10, <1>11, <1>12, <1>13, <1>14 DEF ReqStep

LEMMA LoopNumbers ==
    ASSUME TypeInv, NEW c \in Conn, NEW s \in SubId, NEW t,
           \A p \in Conn \X SubId : p # <<c, s>> => (LoopReleases(p, t) <=> LoopReleases(p, t)')
    PROVE  /\ ByLoopN(t)' \in Nat
           /\ ByLoopN(t)' + Has(ByLoop(t), <<c, s>>) = ByLoopN(t) + Has(ByLoop(t)', <<c, s>>)
<1>1. IsFiniteSet(ByLoop(t))
  BY SetsFinite
<1>2. \A p : p # <<c, s>> => (p \in ByLoop(t) <=> p \in ByLoop(t)')
  BY DEF ByLoop
<1> QED
  BY <1>1, <1>2, DifferAt DEF ByLoopN

LEMMA CoversClose ==
    ASSUME TypeInv, NEW c \in Conn, NEW s \in SubId, HandleClose(c, s), NEW t \in Topic, Covers(t)
    PROVE  Covers(t)'
<1> DEFINE old == subs[c][s]
           r == ThenRelease({s} \X old)
<1>1. /\ Unregister(c, s, "close") /\ inline[c] = Idle /\ inline' = [inline EXCEPT ![c] = r]
      /\ UNCHANGED <<tasks, evictor, count>>
  BY DEF HandleClose, Inline, topicVars
<1>2. RegOK /\ TopicOK /\ InlineOK /\ count[t] \in Nat
  BY TypeNow DEF TopicOK
<1>3. /\ RetainingN(t) \in Nat /\ HoldersN(t) \in Nat /\ ByTaskN(t) \in Nat
      /\ ByLoopN(t) \in Nat /\ ByEvictor(t) \in Nat
  BY SetsFinite
<1>4. RetainingN(t)' = RetainingN(t) /\ ByTaskN(t)' = ByTaskN(t) /\ ByEvictor(t)' = ByEvictor(t)
  BY <1>1, SameByTask, SameByEvictor
<1>5. /\ subs'[c][s] = {}
      /\ \A d \in Conn, u \in SubId : <<d, u>> # <<c, s>> => subs'[d][u] = subs[d][u]
  BY <1>1, <1>2, UnregisterKeeps
<1>6. /\ HoldersN(t)' \in Nat
      /\ HoldersN(t)' + Has(old, t) = HoldersN(t) + Has(subs'[c][s], t)
  BY <1>5, HolderNumbers
<1>7. Has(subs'[c][s], t) = 0 /\ Has(old, t) \in {0, 1}
  BY <1>5 DEF Has
<1>8. \A u \in SubId : (r # Idle /\ <<u, t>> \in r.todo) <=> (u = s /\ t \in old)
  <2>1. CASE old = {}
    BY <2>1 DEF ThenRelease
  <2>2. CASE old # {}
    <3>0. {s} \X old # {}
      <4>1. PICK x : x \in old
        BY <2>2
      <4>2. <<s, x>> \in {s} \X old
        BY <4>1
      <4> QED
        BY <4>2
    <3>1. r = [pc |-> "releasing", todo |-> {s} \X old]
      BY <3>0 DEF ThenRelease
    <3>2. r # Idle /\ r.todo = {s} \X old
      BY <3>1 DEF Idle
    <3> HIDE DEF r
    <3> QED
      BY <3>2
  <2> QED
    BY <2>1, <2>2
<1> HIDE DEF r
<1>9. inline'[c] = r /\ \A d \in Conn : d # c => inline'[d] = inline[d]
  BY <1>1, <1>2 DEF InlineOK
<1>10. \A p \in Conn \X SubId : p # <<c, s>> => (LoopReleases(p, t) <=> LoopReleases(p, t)')
  <2> SUFFICES ASSUME NEW d \in Conn, NEW u \in SubId, <<d, u>> # <<c, s>>
               PROVE  LoopReleases(<<d, u>>, t) <=> LoopReleases(<<d, u>>, t)'
    OBVIOUS
  <2>1. CASE d = c
    BY <1>1, <1>8, <1>9, <2>1 DEF LoopReleases
  <2>2. CASE d # c
    BY <1>9, <2>2 DEF LoopReleases
  <2> QED
    BY <2>1, <2>2
<1>11. Has(ByLoop(t), <<c, s>>) = 0 /\ Has(ByLoop(t)', <<c, s>>) = Has(old, t)
  BY <1>1, <1>8, <1>9 DEF Has, ByLoop, LoopReleases
<1>12. ByLoopN(t)' \in Nat /\ ByLoopN(t)' = ByLoopN(t) + Has(old, t)
  BY <1>3, <1>7, <1>10, <1>11, LoopNumbers
<1> HIDE DEF old
<1> QED
  BY <1>1, <1>2, <1>3, <1>4, <1>6, <1>7, <1>12 DEF Covers

(* A connection's holdings become releases of its clean-up.                *)
LEMMA CoversRemove ==
    ASSUME TypeInv, NEW c \in Conn, RemoveConnection(c), NEW t \in Topic, Covers(t)
    PROVE  Covers(t)'
<1> DEFINE r == [pc |-> "releasing", todo |-> All(c)]
           D == {p \in Conn \X SubId : p[1] = c /\ t \in subs[c][p[2]]}
<1>1. /\ inline[c] = Idle /\ inline' = [inline EXCEPT ![c] = r]
      /\ subs' = [subs EXCEPT ![c] = [s \in SubId |-> {}]]
      /\ UNCHANGED <<tasks, evictor, count>>
  BY DEF RemoveConnection, Inline, topicVars
<1>2. RegOK /\ TopicOK /\ InlineOK /\ count[t] \in Nat
  BY TypeNow DEF TopicOK
<1>3. /\ RetainingN(t) \in Nat /\ HoldersN(t) \in Nat /\ ByTaskN(t) \in Nat
      /\ ByLoopN(t) \in Nat /\ ByEvictor(t) \in Nat
      /\ IsFiniteSet(Holders(t)) /\ IsFiniteSet(ByLoop(t)) /\ IsFiniteSet(Conn \X SubId)
  BY SetsFinite
<1>4. RetainingN(t)' = RetainingN(t) /\ ByTaskN(t)' = ByTaskN(t) /\ ByEvictor(t)' = ByEvictor(t)
  BY <1>1, SameByTask, SameByEvictor
<1>5. IsFiniteSet(D) /\ Cardinality(D) \in Nat
  BY <1>3, FS_Subset, FS_CardinalityType
<1>6. r # Idle /\ \A u \in SubId : <<u, t>> \in r.todo <=> t \in subs[c][u]
  BY DEF Idle, All
<1> HIDE DEF r
<1>7. inline'[c] = r /\ \A d \in Conn : d # c => inline'[d] = inline[d]
  BY <1>1, <1>2 DEF InlineOK
<1>8. /\ \A u \in SubId : subs'[c][u] = {}
      /\ \A d \in Conn : d # c => subs'[d] = subs[d]
  BY <1>1, <1>2 DEF RegOK
<1>9. Holders(t)' = Holders(t) \ D /\ Holders(t) \cap D = D
  BY <1>8 DEF Holders
<1>10. ByLoop(t)' = ByLoop(t) \cup D /\ ByLoop(t) \cap D = {}
  BY <1>1, <1>6, <1>7 DEF ByLoop, LoopReleases
<1> HIDE DEF D
<1>11. HoldersN(t)' = HoldersN(t) - Cardinality(D)
  BY <1>3, <1>9, FS_Difference DEF HoldersN
<1>12. ByLoopN(t)' = ByLoopN(t) + Cardinality(D)
  <2>1. Cardinality(ByLoop(t) \cup D) =
          Cardinality(ByLoop(t)) + Cardinality(D) - Cardinality(ByLoop(t) \cap D)
    BY <1>3, <1>5, FS_Union
  <2>2. Cardinality(ByLoop(t) \cap D) = 0
    BY <1>10, FS_EmptySet
  <2> QED
    BY <1>3, <1>5, <1>10, <2>1, <2>2 DEF ByLoopN
<1> QED
  BY <1>1, <1>2, <1>3, <1>4, <1>5, <1>11, <1>12 DEF Covers

LEMMA CoversCleanUp ==
    ASSUME TypeInv, NEW c \in Conn, InlineRelease(c) \/ Deregister(c),
           NEW t \in Topic, Covers(t)
    PROVE  Covers(t)'
<1>1. UNCHANGED <<tasks, evictor, subs>>
  BY DEF InlineRelease, Deregister, regVars
<1>2. RegOK /\ TopicOK /\ InlineOK /\ count[t] \in Nat
  BY TypeNow DEF TopicOK
<1>3. /\ RetainingN(t) \in Nat /\ HoldersN(t) \in Nat /\ ByTaskN(t) \in Nat
      /\ ByLoopN(t) \in Nat /\ ByEvictor(t) \in Nat
  BY SetsFinite
<1>4. /\ RetainingN(t)' = RetainingN(t) /\ ByTaskN(t)' = ByTaskN(t)
      /\ ByEvictor(t)' = ByEvictor(t) /\ HoldersN(t)' = HoldersN(t)
  BY <1>1, SameByTask, SameByEvictor, SameHolders
<1>5. CASE Deregister(c)
  <2>1. /\ inline[c] = [pc |-> "releasing", todo |-> {}] /\ UNCHANGED count
        /\ inline' = [inline EXCEPT ![c] = Idle]
    BY <1>5 DEF Deregister, Inline, topicVars
  <2>2. /\ inline'[c] = Idle /\ inline[c].todo = {}
        /\ \A d \in Conn : d # c => inline'[d] = inline[d]
    BY <1>2, <2>1 DEF InlineOK
  <2>3. ByLoop(t)' = ByLoop(t)
    BY <2>2 DEF ByLoop, LoopReleases
  <2> QED
    BY <1>4, <2>1, <2>3 DEF Covers, ByLoopN
<1>6. CASE InlineRelease(c)
  <2> DEFINE p == First(inline[c].todo)
             rest == inline[c].todo \ {p}
             r == IF status[c] = "open" THEN ThenRelease(rest)
                  ELSE [pc |-> "releasing", todo |-> rest]
  <2>1. /\ inline[c].pc = "releasing" /\ inline[c].todo # {}
        /\ Release(p[2]) /\ inline' = [inline EXCEPT ![c] = r]
    BY <1>6 DEF InlineRelease, Inline
  <2>2. inline[c] \in InlineRecord
    BY <1>2, <2>1, InlineNow
  <2>3. inline[c].todo \in SUBSET (SubId \X Topic) /\ inline[c] # Idle
    BY <2>1, <2>2 DEF InlineRecord, Idle
  <2>4. p \in inline[c].todo
    BY <2>1, FirstIn
  <2> HIDE DEF p
  <2>5. p[1] \in SubId /\ p[2] \in Topic /\ p = <<p[1], p[2]>>
    BY <2>3, <2>4
  <2>6. \A u \in SubId : (r # Idle /\ <<u, t>> \in r.todo) <=> <<u, t>> \in rest
    <3>1. CASE r = Idle
      BY <3>1 DEF ThenRelease, Idle
    <3>2. CASE r # Idle
      <4>1. r = [pc |-> "releasing", todo |-> rest]
        BY <3>2 DEF ThenRelease
      <4>2. r.todo = rest
        BY <4>1
      <4> QED
        BY <3>2, <4>2
    <3> QED
      BY <3>1, <3>2
  <2> HIDE DEF r
  <2>7. inline'[c] = r /\ \A d \in Conn : d # c => inline'[d] = inline[d]
    BY <1>2, <2>1 DEF InlineOK
  <2> DEFINE s == p[1]
  <2>8. \A q \in Conn \X SubId : q # <<c, s>> => (LoopReleases(q, t) <=> LoopReleases(q, t)')
    <3> SUFFICES ASSUME NEW d \in Conn, NEW u \in SubId, <<d, u>> # <<c, s>>
                 PROVE  LoopReleases(<<d, u>>, t) <=> LoopReleases(<<d, u>>, t)'
      OBVIOUS
    <3>1. CASE d = c
      <4>1. u # s
        BY <3>1
      <4>2. <<u, t>> \in rest <=> <<u, t>> \in inline[c].todo
        BY <2>5, <4>1
      <4> QED
        BY <2>3, <2>6, <2>7, <3>1, <4>2 DEF LoopReleases
    <3>2. CASE d # c
      BY <2>7, <3>2 DEF LoopReleases
    <3> QED
      BY <3>1, <3>2
  <2>9. Has(ByLoop(t), <<c, s>>) = Has(inline[c].todo, <<s, t>>)
    BY <2>3, <2>5 DEF Has, ByLoop, LoopReleases
  <2>10. Has(ByLoop(t)', <<c, s>>) = Has(rest, <<s, t>>)
    BY <2>5, <2>6, <2>7 DEF Has, ByLoop, LoopReleases
  <2>11. /\ Has(inline[c].todo, <<s, t>>) = Has(rest, <<s, t>>) + Same(t, p[2])
         /\ Has(rest, <<s, t>>) \in {0, 1} /\ Same(t, p[2]) \in {0, 1}
    BY <2>4, <2>5 DEF Has, Same
  <2>12. /\ ByLoopN(t)' \in Nat
         /\ ByLoopN(t)' + Has(ByLoop(t), <<c, s>>) = ByLoopN(t) + Has(ByLoop(t)', <<c, s>>)
    BY <2>5, <2>8, LoopNumbers
  <2>13. ByLoopN(t)' + Same(t, p[2]) = ByLoopN(t)
    BY <1>3, <2>9, <2>10, <2>11, <2>12
  <2>14. count'[t] \in Nat /\ count'[t] + Same(t, p[2]) >= count[t]
    BY <2>1, <2>5, ReleaseNumbers
  <2> QED
    BY <1>2, <1>3, <1>4, <2>11, <2>12, <2>13, <2>14 DEF Covers
<1> QED
  BY <1>5, <1>6

(* An eviction: what it strips it owes, unless the subscription it found   *)
(* was another one.                                                        *)
LEMMA CoversEvict ==
    ASSUME TypeInv, Strip \/ ForgetLocal \/ EvictRelease,
           NEW t \in Topic, t \notin stray', Covers(t)
    PROVE  Covers(t)'
<1>1. UNCHANGED <<tasks, inline>>
  BY DEF Strip, ForgetLocal, EvictRelease
<1>2. RegOK /\ TopicOK /\ EvictorOK /\ count[t] \in Nat
  BY TypeNow DEF TopicOK
<1>3. /\ RetainingN(t) \in Nat /\ HoldersN(t) \in Nat /\ ByTaskN(t) \in Nat
      /\ ByLoopN(t) \in Nat /\ ByEvictor(t) \in Nat
  BY SetsFinite
<1>4. /\ RetainingN(t)' = RetainingN(t) /\ ByTaskN(t)' = ByTaskN(t) /\ ByLoopN(t)' = ByLoopN(t)
  BY <1>1, SameByTask, SameByLoop
<1>5. evictor.pc # "idle"
  BY DEF Strip, ForgetLocal, EvictRelease
<1>6. /\ evictor \in EvictorRecord /\ evictor # Idle
      /\ evictor.conn \in Conn /\ evictor.channel \in Channel
      /\ evictor.todo \in SUBSET SubId /\ evictor.stripped \in SUBSET SubId
  BY <1>2, <1>5, EvictorNow DEF Idle
<1>7. IsFiniteSet(evictor.stripped) /\ Cardinality(evictor.stripped) \in Nat
  BY <1>6, RelaySubscriptionsAssumption, FS_Subset, FS_CardinalityType
<1>8. ByEvictor(t) = IF t = evictor.channel THEN Cardinality(evictor.stripped) ELSE 0
  BY <1>6 DEF ByEvictor
<1>9. CASE Strip
  <2> DEFINE c == evictor.conn
             ch == evictor.channel
  <2>1. PICK s \in evictor.todo :
             /\ evictor' \in EvictorRecord /\ evictor'.pc = "strip" /\ evictor'.channel = ch
             /\ \/ UNCHANGED <<subs, jobs, stray>> /\ evictor'.stripped = evictor.stripped
                \/ /\ subs[c][s] \subseteq Channel /\ subs[c][s] # {}
                   /\ subs' = [subs EXCEPT ![c][s] = subs[c][s] \ {ch}]
                   /\ stray' = IF ch \in subs[c][s] THEN stray ELSE stray \cup {ch}
                   /\ evictor'.stripped = evictor.stripped \cup {s}
    BY <1>9, StripMoves
  <2>2. UNCHANGED count
    BY <1>9 DEF Strip, topicVars
  <2>3. evictor' # Idle
    BY <2>1 DEF Idle
  <2>4. ByEvictor(t)' = IF t = ch THEN Cardinality(evictor'.stripped) ELSE 0
    BY <2>1, <2>3 DEF ByEvictor
  <2>5. CASE UNCHANGED subs /\ evictor'.stripped = evictor.stripped
    <3>1. HoldersN(t)' = HoldersN(t) /\ ByEvictor(t)' = ByEvictor(t)
      BY <1>8, <2>4, <2>5, SameHolders
    <3> QED
      BY <1>4, <2>2, <3>1 DEF Covers
  <2>6. CASE /\ subs[c][s] \subseteq Channel
             /\ subs' = [subs EXCEPT ![c][s] = subs[c][s] \ {ch}]
             /\ stray' = IF ch \in subs[c][s] THEN stray ELSE stray \cup {ch}
             /\ evictor'.stripped = evictor.stripped \cup {s}
    <3>1. s \in SubId /\ c \in Conn
      BY <1>6
    <3> DEFINE S == subs[c][s] \ {ch}
    <3>2. subs' = [subs EXCEPT ![c][s] = S]
      BY <2>6
    <3> HIDE DEF c, ch, S
    <3>3. /\ subs'[c][s] = S
          /\ \A d \in Conn, u \in SubId : <<d, u>> # <<c, s>> => subs'[d][u] = subs[d][u]
      BY <1>2, <3>1, <3>2 DEF RegOK
    <3>4. /\ HoldersN(t)' \in Nat
          /\ HoldersN(t)' + Has(subs[c][s], t) = HoldersN(t) + Has(subs'[c][s], t)
      BY <3>1, <3>3, HolderNumbers
    <3>5. CASE t = ch
      <4>1. t \in subs[c][s]
        BY <2>6, <3>5
      <4>2. Has(subs[c][s], t) = 1 /\ Has(subs'[c][s], t) = 0
        BY <3>3, <3>5, <4>1 DEF Has, S
      <4>3. HoldersN(t)' + 1 = HoldersN(t)
        BY <1>3, <3>4, <4>2
      <4>4. /\ Cardinality(evictor.stripped \cup {s}) \in Nat
            /\ Cardinality(evictor.stripped \cup {s}) <= Cardinality(evictor.stripped) + 1
        <5>1. Cardinality(evictor.stripped \cup {s}) =
                IF s \in evictor.stripped THEN Cardinality(evictor.stripped)
                ELSE Cardinality(evictor.stripped) + 1
          BY <1>7, FS_AddElement
        <5> QED
          BY <1>7, <5>1
      <4>5. ByEvictor(t)' = Cardinality(evictor.stripped \cup {s})
            /\ ByEvictor(t) = Cardinality(evictor.stripped)
        BY <1>8, <2>4, <2>6, <3>5 DEF ch
      <4> QED
        BY <1>2, <1>3, <1>4, <1>7, <2>2, <3>4, <4>3, <4>4, <4>5 DEF Covers
    <3>6. CASE t # ch
      <4>1. Has(subs[c][s], t) = Has(subs'[c][s], t) /\ Has(subs[c][s], t) \in {0, 1}
        BY <3>3, <3>6 DEF Has, S
      <4>2. HoldersN(t)' = HoldersN(t)
        BY <1>3, <3>4, <4>1
      <4>3. ByEvictor(t)' = 0 /\ ByEvictor(t) = 0
        BY <1>8, <2>4, <3>6 DEF ch
      <4> QED
        BY <1>4, <2>2, <4>2, <4>3 DEF Covers
    <3> QED
      BY <3>5, <3>6
  <2> QED
    BY <2>1, <2>5, <2>6
<1>10. CASE ForgetLocal
  <2>1. /\ UNCHANGED <<subs, count>>
        /\ evictor' = IF evictor.stripped = {} THEN Idle ELSE [evictor EXCEPT !.pc = "release"]
    BY <1>10 DEF ForgetLocal, topicVars
  <2>2. HoldersN(t)' = HoldersN(t)
    BY <2>1, SameHolders
  <2>3. CASE evictor.stripped = {}
    <3>1. ByEvictor(t) = 0
      BY <1>8, <2>3, FS_EmptySet
    <3>2. ByEvictor(t)' = 0
      BY <2>1, <2>3 DEF ByEvictor
    <3> QED
      BY <1>4, <2>1, <2>2, <3>1, <3>2 DEF Covers
  <2>4. CASE evictor.stripped # {}
    <3>1. /\ evictor'.channel = evictor.channel /\ evictor'.stripped = evictor.stripped
          /\ evictor' # Idle
      BY <1>6, <2>1, <2>4 DEF EvictorRecord, Idle
    <3>2. ByEvictor(t)' = ByEvictor(t)
      BY <1>6, <3>1 DEF ByEvictor
    <3> QED
      BY <1>4, <2>1, <2>2, <3>2 DEF Covers
  <2> QED
    BY <2>3, <2>4
<1>11. CASE EvictRelease
  <2> DEFINE s == First(evictor.stripped)
             ch == evictor.channel
  <2>1. /\ UNCHANGED subs /\ Release(ch)
        /\ evictor' = IF evictor.stripped = {s} THEN Idle
                      ELSE [evictor EXCEPT !.stripped = evictor.stripped \ {s}]
    BY <1>11 DEF EvictRelease, regVars
  <2>2. HoldersN(t)' = HoldersN(t)
    BY <2>1, SameHolders
  <2>3. evictor.stripped # {}
    BY <1>2, <1>11 DEF EvictRelease, EvictorOK
  <2>4. s \in evictor.stripped
    BY <2>3, FirstIn
  <2> HIDE DEF s
  <2>5. /\ Cardinality(evictor.stripped \ {s}) = Cardinality(evictor.stripped) - 1
        /\ Cardinality(evictor.stripped \ {s}) \in Nat
    BY <1>7, <2>4, FS_RemoveElement, FS_CardinalityType
  <2>6. count'[t] \in Nat /\ count'[t] + Same(t, ch) >= count[t] /\ Same(t, ch) \in {0, 1}
    BY <1>6, <2>1, ReleaseNumbers, ScopeFacts DEF Same
  <2>7. ByEvictor(t)' \in Nat /\ ByEvictor(t)' + Same(t, ch) = ByEvictor(t)
    <3>1. CASE evictor.stripped = {s}
      <4>1. ByEvictor(t)' = 0
        BY <2>1, <3>1 DEF ByEvictor
      <4>2. evictor.stripped \ {s} = {}
        BY <3>1
      <4>3. Cardinality(evictor.stripped \ {s}) = 0
        BY <4>2, FS_EmptySet
      <4>4. Cardinality(evictor.stripped) = 1
        BY <1>7, <2>5, <4>3
      <4> QED
        BY <1>8, <4>1, <4>4 DEF Same
    <3>2. CASE evictor.stripped # {s}
      <4>1. /\ evictor'.channel = ch /\ evictor'.stripped = evictor.stripped \ {s}
            /\ evictor' \in EvictorRecord
        BY <1>6, <2>1, <3>2 DEF EvictorRecord
      <4>2. evictor' # Idle
        BY <4>1 DEF EvictorRecord, Idle
      <4>3. ByEvictor(t)' = IF t = ch THEN Cardinality(evictor.stripped \ {s}) ELSE 0
        BY <4>1, <4>2 DEF ByEvictor
      <4> QED
        BY <1>7, <1>8, <2>5, <4>3 DEF Same
    <3> QED
      BY <3>1, <3>2
  <2> QED
    BY <1>2, <1>3, <1>4, <2>2, <2>6, <2>7 DEF Covers
<1> QED
  BY <1>9, <1>10, <1>11

LEMMA CoversSame ==
    ASSUME NEW t, UNCHANGED <<tasks, subs, inline, evictor, count>>, Covers(t)
    PROVE  Covers(t)'
BY SameByTask, SameHolders, SameByLoop, SameByEvictor DEF Covers

LEMMA CoversDispatch ==
    ASSUME TypeInv, NEW c \in Conn, NEW s \in SubId, NEW ask \in Scope, Dispatch(c, s, ask),
           NEW t, Covers(t)
    PROVE  Covers(t)'
<1>1. UNCHANGED <<subs, inline, evictor, count>>
  BY DEF Dispatch, regVars, topicVars
<1>2. /\ DOMAIN tasks' = DOMAIN tasks \cup {Len(tasks) + 1}
      /\ \A j \in DOMAIN tasks : tasks'[j] = tasks[j]
      /\ tasks'[Len(tasks) + 1].pc = "check" /\ Len(tasks) + 1 \notin DOMAIN tasks
  BY DispatchKeeps
<1>3. Retaining(t)' = Retaining(t) /\ ByTask(t)' = ByTask(t)
  BY <1>2 DEF Retaining, ByTask
<1> QED
  BY <1>1, <1>3, SameHolders, SameByLoop, SameByEvictor DEF Covers, RetainingN, ByTaskN

LEMMA CoversRevoke ==
    ASSUME TypeInv, NEW c \in Conn, NEW ch \in Channel, Revoke(c, ch), NEW t, Covers(t)
    PROVE  Covers(t)'
<1>1. UNCHANGED <<tasks, subs, inline, count>> /\ evictor = Idle
  BY DEF Revoke, regVars, topicVars
<1>2. evictor' = Idle \/ evictor'.stripped = {}
  BY DEF Revoke
<1>3. ByEvictor(t) = 0 /\ ByEvictor(t)' = 0
  BY <1>1, <1>2, FS_EmptySet DEF ByEvictor
<1> QED
  BY <1>1, <1>3, SameByTask, SameHolders, SameByLoop DEF Covers

LEMMA CountCoversNext ==
    ASSUME TypeInv, CountCovers, [Next]_vars
    PROVE  CountCovers'
<1>1. stray \subseteq stray'
  <2>1. CASE Strip
    BY <2>1 DEF Strip
  <2>2. CASE UNCHANGED stray
    BY <2>2
  <2>3. CASE UNCHANGED vars
    BY <2>3 DEF vars
  <2>4. CASE Next
    BY <2>1, <2>2, <2>4, NextSteps, JobTypes, RedisStepTypes, EventStepTypes
    DEF ReqStep, Check, Replace, Store, Index, ReleaseReplaced, Retain, Tell, Query, Dispatch,
        HandleClose, Leave, RemoveConnection, InlineRelease, Deregister,
        Revoke, ForgetLocal, EvictRelease
  <2> QED
    BY <2>3, <2>4
<1> SUFFICES ASSUME NEW t \in Topic, t \notin stray'
             PROVE  Covers(t)'
  BY CoversThen
<1>2. Covers(t)
  BY <1>1, CoversNow
<1>3. CASE UNCHANGED vars
  BY <1>2, <1>3, CoversSame DEF vars, regVars, topicVars
<1>4. CASE Next
  <2>1. CASE \E c \in Conn : Leave(c)
    BY <1>2, <2>1, CoversSame DEF Leave, regVars, topicVars
  <2>2. CASE RedisStep \/ EventStep
    BY <1>2, <2>2, CoversSame, RedisStepTypes, EventStepTypes
  <2>3. CASE \E i \in DOMAIN tasks : ReqStep(i)
    BY <1>2, <2>3, CoversReqStep
  <2>4. CASE \E c \in Conn, s \in SubId, ask \in Scope : Dispatch(c, s, ask)
    BY <1>2, <2>4, CoversDispatch
  <2>5. CASE \E c \in Conn, s \in SubId : HandleClose(c, s)
    BY <1>2, <2>5, CoversClose
  <2>6. CASE \E c \in Conn : RemoveConnection(c) \/ InlineRelease(c) \/ Deregister(c)
    BY <1>2, <2>6, CoversRemove, CoversCleanUp
  <2>7. CASE \E c \in Conn, ch \in Channel : Revoke(c, ch)
    BY <1>2, <2>7, CoversRevoke
  <2>8. CASE Strip \/ ForgetLocal \/ EvictRelease
    BY <1>2, <2>8, CoversEvict
  <2>9. CASE \E j \in jobs : Unindex(j) \/ DropKey(j)
    BY <1>2, <2>9, CoversSame, JobTypes
  <2> QED
    BY <1>4, <2>1, <2>2, <2>3, <2>4, <2>5, <2>6, <2>7, <2>8, <2>9, NextSteps
<1> QED
  BY <1>3, <1>4

(* The reference count of a topic never falls behind its subscriptions,    *)
(* however many clients there are and however their handlers, clean-ups    *)
(* and evictions interleave: with the retains still to come it covers the  *)
(* subscriptions that hold the topic and the releases still to come        *)
(* (retain_topic, release_topic), but for a topic that an eviction         *)
(* released on behalf of a subscription replaced in between.               *)
THEOREM CountCoversCorrect == Spec => []CountCovers
<1>1. Init => TypeInv /\ CountCovers
  <2> SUFFICES ASSUME Init, NEW t \in Topic PROVE Covers(t)
    BY TypeInvInit, CoversNow
  <2>1. Retaining(t) = {} /\ Holders(t) = {} /\ ByTask(t) = {} /\ ByLoop(t) = {}
    BY DEF Init, Retaining, Holders, ByTask, ByLoop, LoopReleases
  <2>2. ByEvictor(t) = 0 /\ count[t] = 0
    BY DEF Init, ByEvictor
  <2> QED
    BY <2>1, <2>2, FS_EmptySet DEF Covers, RetainingN, HoldersN, ByTaskN, ByLoopN
<1>2. TypeInv /\ CountCovers /\ [Next]_vars => TypeInv' /\ CountCovers'
  BY TypeInvNext, CountCoversNext
<1> QED
  BY <1>1, <1>2, PTL DEF Spec
=============================================================================
