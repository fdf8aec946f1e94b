------------------------------ MODULE AsyncCalls ------------------------------
(***************************************************************************)
(* NPN_PluginThreadAsyncCall (windows/pluginloader/npnfunctions.c) and its *)
(* other half in PROCESS_WINDOW_EVENTS (pluginloader.c): threads of the    *)
(* plugin push callbacks on a lock-free list of their instance, the main   *)
(* thread of pluginloader.exe takes whole lists and runs them.             *)
(*                                                                         *)
(* A callback may call into the page, and what the page does may reach the *)
(* main thread again before the callback returns: events processed in a    *)
(* nested event loop, instances made and destroyed.  The browser does not  *)
(* destroy an instance while code of that very instance is on its stack,   *)
(* and a plugin stops the threads that work for an instance in its         *)
(* NPP_Destroy.                                                            *)
(***************************************************************************)
EXTENDS Integers, Sequences, SequencesExt, FiniteSetsExt

\* No name is one of TimerThread's: ThreadProofs extends both modules.
CONSTANTS
    Npp,         \* addresses of NPP structures: numbers, std::set orders them
    Caller,      \* threads of plugins that make async calls
    Node,        \* addresses malloc may return for an AsyncCallback
    NoNode,      \* NULL
    MaxCalls,    \* bound: calls accepted
    MaxDepth     \* bound: nested PROCESS_WINDOW_EVENTS

ASSUME NppAssumption    == Npp \subseteq Nat \ {0}
ASSUME CallerAssumption == IsFiniteSet(Caller)
ASSUME NodeAssumption   == NoNode \notin Node
ASSUME BoundsAssumption == MaxCalls \in Nat /\ MaxDepth \in Nat \ {0}

VARIABLES
    instances,   \* instanceList
    list,        \* list[i]: ndata->asyncCalls, from the head: the newest first
    pending,     \* pendingAsyncCalls
    push,        \* push[t]: what thread t is doing in NPN_PluginThreadAsyncCall
    rounds,      \* the nested PROCESS_WINDOW_EVENTS, innermost last
    history      \* accepted: number of calls; done, dropped: those that are over

asyncVars == <<instances, list, pending, push, rounds, history>>

\* A call is named by its place in the order in which the calls were accepted.
Callback(node, n, i) == [node |-> node, id |-> n, instance |-> i]

\* Where a thread is, with the local variables it still needs.
Push(pc, instance, node, next) ==
    [pc |-> pc, instance |-> instance, node |-> node, next |-> next]
NotPushing == Push("none", 0, NoNode, NoNode)

Round(pc, at, queue, count) == [pc |-> pc, at |-> at, queue |-> queue, count |-> count]

AsyncInit ==
    /\ instances = {}
    /\ list = [i \in Npp |-> <<>>]
    /\ pending = 0
    /\ push = [t \in Caller |-> NotPushing]
    /\ rounds = <<>>
    /\ history = [accepted |-> 0, done |-> {}, dropped |-> {}]

Pushing(pc) == {t \in Caller : push[t].pc = pc}

Preparing   == Pushing("read") \cup Pushing("swap")

\* The callbacks that exist, by where they are.
Listed == UNION {ToSet(list[i]) : i \in Npp}
Taken  == UNION {ToSet(rounds[r].queue) : r \in DOMAIN rounds}
Open   == Listed \cup Taken

InUse == {c.node : c \in Open} \cup {push[t].node : t \in Preparing}

-----------------------------------------------------------------------------
(***************************************************************************)
(* NPN_PluginThreadAsyncCall.                                              *)
(***************************************************************************)
\* Bound: MaxCalls.
CallBegin(t, i) ==
    /\ push[t] = NotPushing
    /\ i \in instances
    /\ history.accepted + Cardinality(Preparing) < MaxCalls
    /\ \E n \in Node \ InUse : push' = [push EXCEPT ![t] = Push("read", i, n, NoNode)]
    /\ UNCHANGED <<instances, list, pending, rounds, history>>

HeadNode(i) == IF list[i] = <<>> THEN NoNode ELSE Head(list[i]).node

\* nextAsyncCall = ndata->asyncCalls; asyncCall->next = nextAsyncCall.
CallRead(t) ==
    /\ push[t].pc = "read"
    /\ push' = [push EXCEPT ![t] = Push("swap", @.instance, @.node, HeadNode(@.instance))]
    /\ UNCHANGED <<instances, list, pending, rounds, history>>

Accept(t, i, older) ==
    /\ list' = [list EXCEPT ![i] = <<Callback(push[t].node, history.accepted + 1, i)>> \o older]
    /\ history' = [history EXCEPT !.accepted = @ + 1]
    /\ push' = [push EXCEPT ![t] = Push("count", i, NoNode, NoNode)]
    /\ UNCHANGED <<instances, pending, rounds>>

\* What a stale head still leads to.
From(i, node) ==
    IF \E k \in DOMAIN list[i] : list[i][k].node = node
    THEN SubSeq(list[i], CHOOSE k \in DOMAIN list[i] : list[i][k].node = node, Len(list[i]))
    ELSE <<>>

\* Mutant of CallSwap: a plain assignment instead of the compare-and-exchange.
CallStore(t) ==
    /\ push[t].pc = "swap"
    /\ Accept(t, push[t].instance, From(push[t].instance, push[t].next))

\* InterlockedCompareExchangePointer: the addresses are compared, and nothing
\* else; if the head has changed the loop starts over.
CallSwap(t) ==
    /\ push[t].pc = "swap"
    /\ LET i == push[t].instance
       IN  IF HeadNode(i) = push[t].next
           THEN Accept(t, i, list[i])
           ELSE /\ push' = [push EXCEPT ![t] = Push("read", i, @.node, NoNode)]
                /\ UNCHANGED <<instances, list, pending, rounds, history>>

\* InterlockedIncrement(&pendingAsyncCalls).
CallCount(t) ==
    /\ push[t].pc = "count"
    /\ pending' = pending + 1
    /\ push' = [push EXCEPT ![t] = NotPushing]
    /\ UNCHANGED <<instances, list, rounds, history>>

-----------------------------------------------------------------------------
(***************************************************************************)
(* The main thread.  It can be entered when it is idle or from a callback. *)
(***************************************************************************)
Inner == Last(rounds)
SetInner(r) == rounds' = Append(Front(rounds), r)
At(pc) == rounds # <<>> /\ Inner.pc = pc

Enterable == rounds # <<>> => Inner.pc = "running"

\* The test of pendingAsyncCalls; if it fails nothing happens.
EventsBegin ==
    /\ Enterable
    /\ Len(rounds) < MaxDepth
    /\ pending > 0
    /\ rounds' = Append(rounds, Round("next", 0, <<>>, 0))
    /\ UNCHANGED <<instances, list, pending, push, history>>

Later == {i \in instances : i > Inner.at}

TakeFrom(i, queue) ==
    /\ list' = [list EXCEPT ![i] = <<>>]
    /\ SetInner(Round("run", i, queue, Inner.count))
    /\ UNCHANGED <<instances, pending, push, history>>

RoundEnd(left) ==
    /\ pending' = left
    /\ rounds' = Front(rounds)
    /\ UNCHANGED <<instances, list, push, history>>

\* Mutant of EventsTake: the counter is set to 0.
EventsTakeResets ==
    /\ At("next")
    /\ IF Later = {} THEN RoundEnd(0)
       ELSE TakeFrom(Min(Later), Reverse(list[Min(Later)]))

\* The next instance of instanceList: its whole list is taken in one exchange
\* and reversed.  After the last one the calls that were run are subtracted.
EventsTake ==
    /\ At("next")
    /\ IF Later = {} THEN RoundEnd(pending - Inner.count)
       ELSE TakeFrom(Min(Later), Reverse(list[Min(Later)]))

\* asyncCall->func(asyncCall->userData) begins ...
CallbackBegin ==
    /\ At("run")
    /\ SetInner(Round(IF Inner.queue = <<>> THEN "next" ELSE "running",
                      Inner.at, Inner.queue, Inner.count))
    /\ UNCHANGED <<instances, list, pending, push, history>>

\* Mutant of CallbackEnd: the call is not counted.
CallbackEndNotCounted ==
    /\ At("running")
    /\ SetInner(Round("run", Inner.at, Tail(Inner.queue), Inner.count))
    /\ history' = [history EXCEPT !.done = @ \cup {Head(Inner.queue).id}]
    /\ UNCHANGED <<instances, list, pending, push>>

\* ... and has returned.
CallbackEnd ==
    /\ At("running")
    /\ SetInner(Round("run", Inner.at, Tail(Inner.queue), Inner.count + 1))
    /\ history' = [history EXCEPT !.done = @ \cup {Head(Inner.queue).id}]
    /\ UNCHANGED <<instances, list, pending, push>>

NppNew(i) ==
    /\ Enterable
    /\ i \notin instances
    /\ instances' = instances \cup {i}
    /\ UNCHANGED <<list, pending, push, rounds, history>>

\* FUNCTION_NPP_DESTROY drops the calls it finds and leaves the counter alone.
NppDestroy(i) ==
    /\ Enterable
    /\ i \in instances
    /\ \A r \in DOMAIN rounds : rounds[r].at # i
    /\ \A t \in Caller : push[t] # NotPushing => push[t].instance # i
    /\ instances' = instances \ {i}
    /\ list' = [list EXCEPT ![i] = <<>>]
    /\ history' = [history EXCEPT !.dropped = @ \cup {c.id : c \in ToSet(list[i])}]
    /\ UNCHANGED <<pending, push, rounds>>

PluginThread(t) == CallRead(t) \/ CallSwap(t) \/ CallCount(t)

MainThread == EventsTake \/ CallbackBegin \/ CallbackEnd

AsyncNext ==
    \/ \E t \in Caller : PluginThread(t) \/ \E i \in Npp : CallBegin(t, i)
    \/ EventsBegin
    \/ MainThread
    \/ \E i \in Npp : NppNew(i) \/ NppDestroy(i)

AsyncSpec == AsyncInit /\ [][AsyncNext]_asyncVars

\* Threads are scheduled; Linux keeps asking for events whenever the main
\* thread is idle; a callback returns after finitely many nested events.
AsyncFairness ==
    /\ \A t \in Caller : WF_asyncVars(PluginThread(t))
    /\ SF_asyncVars(rounds = <<>> /\ EventsBegin)
    /\ WF_asyncVars(EventsTake \/ CallbackBegin)
    /\ SF_asyncVars(CallbackEnd)

AsyncFairSpec == AsyncSpec /\ AsyncFairness

-----------------------------------------------------------------------------
Ids(calls) == {c.id : c \in calls}
Ascending(queue) == \A m, n \in DOMAIN queue : m < n => queue[m].id < queue[n].id
Descending(queue) == \A m, n \in DOMAIN queue : m < n => queue[m].id > queue[n].id

\* Every call that was accepted is in exactly one place: in a list, taken by a
\* round, done, or dropped with its instance.
EachCallOnce ==
    /\ 1 .. history.accepted = Ids(Open) \cup history.done \cup history.dropped
    /\ Ids(Open) \cap (history.done \cup history.dropped) = {}
    /\ history.done \cap history.dropped = {}

\* No memory is used for two calls.
NoMemoryTwice ==
    /\ \A c, d \in Open : c.id = d.id \/ c.node = d.node => c = d
    /\ \A t \in Preparing :
          /\ \A c \in Open : c.node # push[t].node
          /\ \A u \in Preparing : push[u].node = push[t].node => u = t

\* A list holds calls of its own instance, which exists, the newest first.
ListsFit ==
    \A i \in Npp :
        /\ \A c \in ToSet(list[i]) : c.instance = i /\ i \in instances
        /\ Descending(list[i])

\* A round runs its calls in the order in which they were accepted, and none
\* that another round has taken.
RoundsFit ==
    \A r \in DOMAIN rounds :
        /\ Ascending(rounds[r].queue)
        /\ \A q \in DOMAIN rounds :
              q # r => ToSet(rounds[q].queue) \cap ToSet(rounds[r].queue) = {}

\* What is still in a list came after what was taken from it.
LaterListed == \A c \in Listed, d \in Taken : c.instance = d.instance => c.id > d.id

\* No call is lost, run twice or run out of order by threads that push while
\* rounds, nested or not, take whole lists.
NothingLostOrRepeated ==
    EachCallOnce /\ NoMemoryTwice /\ ListsFit /\ RoundsFit /\ LaterListed

\* What the rounds that go on have run and not yet subtracted.
RunSoFar(seq) ==
    LET sum[n \in 0 .. Len(seq)] == IF n = 0 THEN 0 ELSE sum[n - 1] + seq[n].count
    IN  sum[Len(seq)]

\* The counter, which threads increment after the fact and rounds decrease at
\* their end, is never too small to wake the main thread up: it counts the
\* calls that are listed, taken or dropped, except those still being counted.
CountBalances ==
    pending + Cardinality(Pushing("count"))
        = Cardinality(Open) + Cardinality(history.dropped) + RunSoFar(rounds)

\* A call is run, unless its instance is destroyed first.
EveryCallRuns ==
    \A n \in 1 .. MaxCalls :
        history.accepted >= n ~> n \in history.done \cup history.dropped
=============================================================================
