------------------------------- MODULE Streams -------------------------------
(***************************************************************************)
(* Streams and the data that goes with URL requests.  An NPStream is the   *)
(* browser's: the Linux side names it when it is announced, the Windows    *)
(* side makes a copy, asking back for its contents.  Notify data is the    *)
(* plugin's: the Windows side names it, and the Linux side makes a         *)
(* reference count for it, so that several requests may share it.          *)
(*                                                                         *)
(* As in ObjectProxy, Rpc is what allows a message without nested calls to *)
(* be one step.  The browser does not destroy a stream before NPP_NewStream *)
(* has returned, nor twice, and answers the request of a stream only when  *)
(* it has announced the stream; it may announce one that it has announced  *)
(* before, and may use one that is gone (the comments call these bugs of   *)
(* Chrome and Opera).  The plugin does not use a stream that is gone.      *)
(***************************************************************************)
EXTENDS HandleIds, Sequences, SequencesExt

CONSTANTS
    Stream,      \* addresses of the browser's NPStreams
    Data,        \* addresses of the plugin's notify data
    NULL,        \* no notify data
    MaxCount,    \* bound: references to one notify data
    MaxDepth     \* bound: nested calls

ASSUME NullAssumption == NULL \notin Data

\* There are more IDs than there can be streams, or notify data, at one time:
\* they take memory, and there are 2^32 - 1 IDs.
ASSUME EnoughIdsAssumption ==
    /\ IsFiniteSet(Stream) /\ Cardinality(Stream) <= MaxId
    /\ IsFiniteSet(Data) /\ Cardinality(Data) <= MaxId

VARIABLES
    tables,    \* the handle tables of both sides, and the assertion that fired
    open,      \* streams the browser has announced and not destroyed
    requests,  \* requests[n]: URL requests with notify data n not yet answered
    asked,     \* asked[n], history: the plugin's pointer they were made with
    leaked,    \* leaked[n], history: requests with n the browser turned down
    stack      \* the nested calls between browser and plugin, innermost last

vars == <<tables, open, requests, asked, leaked, stack>>

Empty == [i \in {} |-> 0]

\* lin, win: HMGR_TYPE_NPStream; refs, data: HMGR_TYPE_NotifyData, with
\* NotifyDataRefCount.referenceCount on Linux and the pointer on Windows.
\* The copy's stream is a history of the original it was made for.
Init ==
    /\ tables = [lin |-> Empty, win |-> Empty, refs |-> Empty, data |-> Empty, fault |-> "none"]
    /\ open = {}
    /\ requests = [n \in Id |-> 0]
    /\ asked = [n \in Id |-> NULL]
    /\ leaked = [n \in Id |-> 0]
    /\ stack = <<>>

Go == tables.fault = "none"

\* Who is called: the plugin's function, or the browser's.
PluginCalls  == {"newstream", "destroystream", "write", "urlnotify", "events"}
PluginTurn   == stack # <<>> /\ Last(stack).kind \in PluginCalls
BrowserTurn  == ~PluginTurn

\* again: NPP_NewStream goes on when the stream it destroys is gone.
Frame(kind, stream, notify) ==
    [kind |-> kind, stream |-> stream, notify |-> notify, again |-> FALSE]
Call(f) == Len(stack) < MaxDepth /\ stack' = Append(stack, f)

\* The calls that are about a stream, or about notify data.
Active(kinds, s) == \E k \in DOMAIN stack : stack[k].kind \in kinds /\ stack[k].stream = s
CallsWith(calls, kinds, n) ==
    Cardinality({k \in DOMAIN calls : calls[k].kind \in kinds /\ calls[k].notify = n})

-----------------------------------------------------------------------------
\* The helpers take and return all tables; the first assertion that fails is
\* the last thing to happen.
DbgAssert(t, holds, what) ==
    IF holds \/ t.fault # "none" THEN t ELSE [t EXCEPT !.fault = what]

Named(t, s) == \E i \in DOMAIN t.lin : t.lin[i] = s
IdOf(t, s)  == CHOOSE i \in DOMAIN t.lin : t.lin[i] = s

\* handleManager_existsByPtr and handleManager_removeByPtr on Linux.
ForgetLinux(t, s) ==
    DbgAssert([t EXCEPT !.lin = [i \in {j \in DOMAIN @ : @[j] # s} |-> @[i]]],
              Named(t, s), "removeUnknown")

ForgetWindows(t, i) ==
    DbgAssert([t EXCEPT !.win = Erase(@, i)], i \in DOMAIN t.win,
              "removeUnknown")

\* Linux, writeHandleStream for a new stream.
NameStream(t, s) ==
    IF Named(t, s) THEN t
    ELSE LET i == GetFreeID(DOMAIN t.lin)
         IN  DbgAssert([t EXCEPT !.lin = Insert(@, i, s)], i # 0, "noFreeId")

\* Windows, readHandleStream for an ID it has not seen: createNPStream asks
\* for the contents (LIN_HANDLE_MANAGER_REQUEST_STREAM_INFO), and only then
\* does the table get its entry.
CopyStream(t, i, s, n) ==
    LET known   == DbgAssert(t, i \in DOMAIN t.lin, "wrongSide")
        written == DbgAssert(known, n = 0 \/ n \in DOMAIN t.refs, "unknown")
        read    == DbgAssert(written, n = 0 \/ n \in DOMAIN t.data, "wrongSide")
    IN  [read EXCEPT !.win = Insert(@, i,
            [stream |-> s, notify |-> n,
             data |-> IF n \in DOMAIN t.data THEN t.data[n] ELSE NULL])]

\* Linux, writeHandleStream(stream, HMGR_SHOULD_EXIST), and what Windows makes
\* of it; and the same in the other direction.
Known(t, s) ==
    LET u == DbgAssert(t, Named(t, s), "unknown")
    IN  DbgAssert(u, Named(t, s) => IdOf(t, s) \in DOMAIN t.win, "unknown")

-----------------------------------------------------------------------------
(***************************************************************************)
(* The browser.                                                            *)
(***************************************************************************)
\* NPP_NewStream, from writeHandleStream to the plugin's newstream.
Announce(t, s, n, calls) ==
    LET named == NameStream(t, s)
        i     == IdOf(named, s)
        fresh == DbgAssert(named, i \notin DOMAIN t.win, "notNew")
    IN  /\ tables' = CopyStream(fresh, i, s, n)
        /\ stack' = Append(calls, Frame("newstream", s, n))
        /\ open' = open \cup {s}

\* Streams for a request with notify data n that are being announced.
Announcing(n) == CallsWith(stack, {"newstream", "destroystream"}, n)

\* Mutant: the test for an existing stream is left out.
NewStreamUnchecked(s, n) ==
    /\ Go /\ BrowserTurn
    /\ Len(stack) < MaxDepth
    /\ ~Active({"newstream", "destroystream"}, s)
    /\ n # 0 => requests[n] > Announcing(n)
    /\ Announce(tables, s, n, stack)
    /\ UNCHANGED <<requests, asked, leaked>>

\* NPP_NewStream.  One that exists already is destroyed first: its frame
\* remembers what to go on with.
NewStream(s, n) ==
    /\ Go /\ BrowserTurn
    /\ Len(stack) < MaxDepth
    /\ ~Active({"newstream", "destroystream"}, s)
    /\ n # 0 => requests[n] > Announcing(n)
    /\ IF Named(tables, s)
       THEN /\ tables' = Known(tables, s)
            /\ stack' = Append(stack, [Frame("destroystream", s, n) EXCEPT !.again = TRUE])
            /\ UNCHANGED open
       ELSE Announce(tables, s, n, stack)
    /\ UNCHANGED <<requests, asked, leaked>>

\* NPP_DestroyStream, also for a stream that is not known (any more).
DestroyStream(s) ==
    /\ Go /\ BrowserTurn
    /\ ~Active({"newstream", "destroystream"}, s)
    /\ Named(tables, s)
    /\ tables' = Known(tables, s)
    /\ Call(Frame("destroystream", s, 0))
    /\ UNCHANGED <<open, requests, asked, leaked>>

\* NPP_WriteReady and NPP_Write; for an unknown stream they do nothing.
Write(s) ==
    /\ Go /\ BrowserTurn
    /\ Named(tables, s)
    /\ tables' = Known(tables, s)
    /\ Call(Frame("write", s, 0))
    /\ UNCHANGED <<open, requests, asked, leaked>>

\* NPP_URLNotify, up to the plugin's urlnotify.
UrlNotify(n) ==
    /\ Go /\ BrowserTurn
    /\ requests[n] > Announcing(n)
    /\ requests' = [requests EXCEPT ![n] = @ - 1]
    /\ LET u == DbgAssert(tables, n \in DOMAIN tables.refs, "unknown")
       IN  tables' = DbgAssert(u, n \in DOMAIN tables.data, "unknown")
    /\ Call(Frame("urlnotify", NULL, n))
    /\ UNCHANGED <<open, asked, leaked>>

\* PROCESS_WINDOW_EVENTS and whatever else gives the plugin a turn.
Events ==
    /\ Go /\ BrowserTurn
    /\ Call(Frame("events", NULL, 0))
    /\ UNCHANGED <<tables, open, requests, asked, leaked>>

\* The browser returns from geturlnotify, posturlnotify or destroystream.
BrowserReturn ==
    /\ Go
    /\ stack # <<>> /\ Last(stack).kind \in {"geturl", "destroy"}
    /\ stack' = Front(stack)
    /\ UNCHANGED <<tables, open, requests, asked, leaked>>

\* It returns from newstream, with a new stream or with an error, which
\* NPN_NewStream does not pass on.
BrowserNewStreamReturn ==
    /\ Go
    /\ stack # <<>> /\ Last(stack).kind = "create"
    /\ stack' = Front(stack)
    /\ \/ UNCHANGED <<tables, open>>
       \/ \E s \in Stream \ open :
             LET t == NameStream(tables, s)
                 i == IdOf(t, s)
             IN  /\ tables' = IF i \in DOMAIN t.win THEN t ELSE CopyStream(t, i, s, 0)
                 /\ open' = open \cup {s}
    /\ UNCHANGED <<requests, asked, leaked>>

-----------------------------------------------------------------------------
(***************************************************************************)
(* The plugin.                                                             *)
(***************************************************************************)
\* Mutant: the Linux side counts when the browser has returned, i.e. never
\* for a request that is answered before.
CountedRequest(t, n) == [t EXCEPT !.refs = Insert(@, n, IF n \in DOMAIN @ THEN @[n] ELSE 1)]

\* Linux, FUNCTION_NPN_GET_URL_NOTIFY: make the count if there is none yet,
\* and count before the browser is asked.
CountRequest(t, n) == [t EXCEPT !.refs = Insert(@, n, (IF n \in DOMAIN @ THEN @[n] ELSE 0) + 1)]

\* NPN_GetURLNotify and NPN_PostURLNotify.  The browser accepts the request,
\* and may then answer it before it returns, or turns it down.
GetUrlNotify(d) ==
    /\ Go /\ PluginTurn
    /\ LET known == {n \in DOMAIN tables.data : tables.data[n] = d}
           n     == IF known # {} THEN Min(known) ELSE GetFreeID(DOMAIN tables.data)
           named == DbgAssert([tables EXCEPT !.data = Insert(@, n, d)], n # 0, "noFreeId")
       IN  /\ n \in DOMAIN tables.refs => tables.refs[n] < MaxCount
           /\ tables' = CountRequest(named, n)
           /\ asked' = [asked EXCEPT ![n] = d]
           /\ \/ /\ requests' = [requests EXCEPT ![n] = @ + 1]
                 /\ UNCHANGED leaked
              \/ /\ leaked' = [leaked EXCEPT ![n] = @ + 1]
                 /\ UNCHANGED requests
           /\ Call(Frame("geturl", NULL, n))
    /\ UNCHANGED open

\* NPN_DestroyStream.
PluginDestroyStream(i) ==
    /\ Go /\ PluginTurn
    /\ i \in DOMAIN tables.win
    /\ tables' = DbgAssert(tables, i \in DOMAIN tables.lin, "wrongSide")
    /\ Call(Frame("destroy", tables.win[i].stream, 0))
    /\ UNCHANGED <<open, requests, asked, leaked>>

\* NPN_NewStream.
PluginNewStream ==
    /\ Go /\ PluginTurn
    /\ Call(Frame("create", NULL, 0))
    /\ UNCHANGED <<tables, open, requests, asked, leaked>>

\* Mutant: NPP_NewStream does not forget a stream the plugin turned down.
NewStreamReturnHalf ==
    /\ Go
    /\ stack # <<>> /\ Last(stack).kind = "newstream"
    /\ stack' = Front(stack)
    /\ \/ UNCHANGED <<tables, open>>
       \/ LET s == Last(stack).stream
          IN  /\ tables' = ForgetWindows(tables, IdOf(tables, s))
              /\ open' = open \ {s}
    /\ UNCHANGED <<requests, asked, leaked>>

\* The plugin returns from newstream; if it wants no stream both sides forget
\* it, Windows before it answers.
NewStreamReturn ==
    /\ Go
    /\ stack # <<>> /\ Last(stack).kind = "newstream"
    /\ stack' = Front(stack)
    /\ \/ UNCHANGED <<tables, open>>
       \/ LET s == Last(stack).stream
          IN  /\ tables' = ForgetLinux(ForgetWindows(tables, IdOf(tables, s)), s)
              /\ open' = open \ {s}
    /\ UNCHANGED <<requests, asked, leaked>>

\* The plugin returns from destroystream.  Windows forgets the stream after
\* it has answered; then NPP_NewStream may go on.
DestroyStreamReturn ==
    /\ Go
    /\ stack # <<>> /\ Last(stack).kind = "destroystream"
    /\ LET f == Last(stack)
           t == ForgetLinux(ForgetWindows(tables, IdOf(tables, f.stream)), f.stream)
       IN  IF f.again /\ t.fault = "none"
           THEN Announce(t, f.stream, f.notify, Front(stack))
           ELSE /\ tables' = t
                /\ open' = open \ {f.stream}
                /\ stack' = Front(stack)
    /\ UNCHANGED <<requests, asked, leaked>>

\* Mutant: the data is freed with the first answer.
UrlNotifyReturnFrees ==
    /\ Go
    /\ stack # <<>> /\ Last(stack).kind = "urlnotify"
    /\ stack' = Front(stack)
    /\ LET n == Last(stack).notify
       IN  tables' = [tables EXCEPT !.refs = Erase(@, n), !.data = Erase(@, n)]
    /\ UNCHANGED <<open, requests, asked, leaked>>

\* The plugin returns from urlnotify.  With the last reference both sides
\* forget the data (WIN_HANDLE_MANAGER_FREE_NOTIFY_DATA_ASYNC).
UrlNotifyReturn ==
    /\ Go
    /\ stack # <<>> /\ Last(stack).kind = "urlnotify"
    /\ stack' = Front(stack)
    /\ LET n == Last(stack).notify
           live == DbgAssert(tables, n \in DOMAIN tables.refs /\ tables.refs[n] > 0,
                             "zeroCount")
       IN  tables' =
             IF live.fault # "none" THEN live
             ELSE IF tables.refs[n] > 1 THEN [tables EXCEPT !.refs[n] = @ - 1]
             ELSE DbgAssert([tables EXCEPT !.refs = Erase(@, n), !.data = Erase(@, n)],
                            n \in DOMAIN tables.data, "unknown")
    /\ UNCHANGED <<open, requests, asked, leaked>>

PluginReturn ==
    /\ Go
    /\ stack # <<>> /\ Last(stack).kind \in {"write", "events"}
    /\ stack' = Front(stack)
    /\ UNCHANGED <<tables, open, requests, asked, leaked>>

Browser ==
    \/ \E s \in Stream : (\E n \in Id \cup {0} : NewStream(s, n)) \/ DestroyStream(s) \/ Write(s)
    \/ \E n \in Id : UrlNotify(n)
    \/ Events
    \/ BrowserReturn
    \/ BrowserNewStreamReturn

Plugin ==
    \/ \E d \in Data : GetUrlNotify(d)
    \/ \E i \in Id : PluginDestroyStream(i)
    \/ PluginNewStream
    \/ NewStreamReturn
    \/ DestroyStreamReturn
    \/ UrlNotifyReturn
    \/ PluginReturn

Next == Browser \/ Plugin

Spec == Init /\ [][Next]_vars

-----------------------------------------------------------------------------
\* No assertion of the handle manager and of NPP_URLNotify ever fires, although
\* streams are announced twice, destroyed from either side in nested calls and
\* used when they are gone.
NoAssertionFails == tables.fault = "none"

\* Both sides know the same streams, each ID stands for the stream the copy
\* was made for, and these are the streams the browser has open.
StreamsAgree ==
    /\ DOMAIN tables.lin = DOMAIN tables.win
    /\ \A i \in DOMAIN tables.lin : tables.lin[i] = tables.win[i].stream
    /\ {tables.lin[i] : i \in DOMAIN tables.lin} = open

InCall(n) == CallsWith(stack, {"urlnotify"}, n)

\* Notify data lives exactly as long as a request refers to it: its count is
\* the number of requests not yet answered, of answers being given, and of
\* requests the browser turned down (nobody takes those back).
NotifyCountsBalance ==
    /\ DOMAIN tables.refs = DOMAIN tables.data
    /\ \A n \in Id :
          requests[n] + InCall(n) + leaked[n] =
             IF n \in DOMAIN tables.refs THEN tables.refs[n] ELSE 0

\* The plugin gets back, with the answer and in the stream, the very pointer
\* it made the request with, although IDs are shared and reused.
DataIntact ==
    /\ \A n \in Id : requests[n] + InCall(n) > 0 =>
          n \in DOMAIN tables.data /\ tables.data[n] = asked[n]
    /\ \A k \in DOMAIN stack :
          stack[k].kind = "newstream" /\ stack[k].notify # 0 =>
             \E i \in DOMAIN tables.win :
                /\ tables.win[i].stream = stack[k].stream
                /\ tables.win[i].data # NULL
=============================================================================
