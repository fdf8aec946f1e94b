----------------------------- MODULE ObjectProxy -----------------------------
(***************************************************************************)
(* Scriptable objects across the bridge: the life of an NPObject that the  *)
(* page and the plugin both use.  The real object, with the browser's      *)
(* reference count, lives on the Linux side; the Windows side keeps a      *)
(* proxy with a count of its own for every object the plugin has a pointer *)
(* to.  Both sides name the object by an ID, and each must forget the ID   *)
(* exactly when the other does.                                            *)
(*                                                                         *)
(* There are two sorts of objects: those of the page, and those the plugin *)
(* makes with NPN_CreateObject ("custom"), whose methods run on the        *)
(* Windows side.  Rpc shows that the two threads take turns and that each  *)
(* side reads messages in the order they were written, before its own call *)
(* returns: so a message without nested calls is one step here, and the    *)
(* messages one handler sends are applied in their order.                  *)
(***************************************************************************)
EXTENDS HandleIds, Sequences, SequencesExt

CONSTANTS
    Addr,              \* addresses of objects on the Linux side
    MaxRefs,           \* bound: references the page or the plugin collects
    MaxArgs,           \* bound: objects among the arguments of one call
    MaxDepth,          \* bound: nested calls
    ReentrantCallee    \* may a method run again on an object it runs on?

ASSUME ReentrantCalleeAssumption == ReentrantCallee \in BOOLEAN

ASSUME MaxArgsAssumption == MaxArgs \in Nat

\* The addresses a run uses for its objects are not more than there are IDs,
\* of which the code has 2^32 - 1.
ASSUME EnoughIdsAssumption == IsFiniteSet(Addr) /\ Cardinality(Addr) <= MaxId

VARIABLES
    obj,     \* obj[a]: sort, NPObject.referenceCount, and how much of it is the page's
    tables,  \* the handle tables of both sides, and the assertion that fired
    own,     \* own[id]: references the plugin holds through the proxy id
    stack    \* the nested calls between page and plugin, innermost last

vars == <<obj, tables, own, stack>>

-----------------------------------------------------------------------------
(***************************************************************************)
(* The tables.  lin: ID -> address (HMGR_TYPE_NPObject on Linux).  win: ID *)
(* -> proxy; the proxy's addr is a history of the object it was made for.  *)
(* The helpers below take and return the whole record, in the order in     *)
(* which a handler applies them.                                           *)
(***************************************************************************)
EmptyTables == [lin |-> [i \in {} |-> 0], win |-> [i \in {} |-> 0], fault |-> "none"]

\* DBG_ASSERT: the first assertion that fails is the last thing to happen.
DbgAssert(t, holds, what) ==
    IF holds \/ t.fault # "none" THEN t ELSE [t EXCEPT !.fault = what]

Named(t, a) == \E i \in DOMAIN t.lin : t.lin[i] = a
IdOf(t, a)  == CHOOSE i \in DOMAIN t.lin : t.lin[i] = a

\* Linux, writeHandleObj: name the object, with a new ID if it has none.
LinWrite(t, a) ==
    IF Named(t, a) THEN t
    ELSE LET i == GetFreeID(DOMAIN t.lin)
         IN  DbgAssert([t EXCEPT !.lin = Insert(@, i, a)], i # 0, "noFreeId")

\* Linux, handleManager_removeByPtr.
LinRemove(t, i) ==
    DbgAssert([t EXCEPT !.lin = Erase(@, i)], i \in DOMAIN t.lin,
           "removeUnknown")

\* Linux, readHandleObj: the object must be known (only Windows makes objects
\* for unknown IDs); with the flag set its ID is forgotten at once.
LinRead(t, i, delete) ==
    LET u == DbgAssert(t, i \in DOMAIN t.lin, "wrongSide")
    IN  IF delete THEN LinRemove(u, i) ELSE u

Proxy(ref, custom, addr) == [ref |-> ref, custom |-> custom, addr |-> addr]

\* The proxy of i is counted n times more.
Count(t, i, n) ==
    LET p == t.win[i]
    IN  [t EXCEPT !.win = Insert(@, i, Proxy(p.ref + n, p.custom, p.addr))]

\* Mutant: only a new proxy is counted.
WinReadNewOnly(t, i, a) ==
    IF i \in DOMAIN t.win THEN t
    ELSE [t EXCEPT !.win = Insert(@, i, Proxy(1, FALSE, a))]

\* Windows, readHandleObjIncRef for an ID that Linux sent.
WinRead(t, i, a) ==
    IF i \in DOMAIN t.win THEN Count(t, i, 1)
    ELSE [t EXCEPT !.win = Insert(@, i, Proxy(1, FALSE, a))]

\* The reference to be given up is the proxy's last: writeHandleObjDecRef and
\* writeVariantReleaseDecRef then flag the value, so that Linux forgets the ID
\* on reading it.
LastRef(t, i) == i \in DOMAIN t.win /\ t.win[i].ref = 1 /\ ~t.win[i].custom

\* Mutant: the other side is not told that the proxy has gone.
WinDecRefSilent(t, i, remote) ==
    IF LastRef(t, i) THEN [t EXCEPT !.win = Erase(@, i)]
    ELSE Count(t, i, -1)

\* Windows, objectDecRef.  REFCOUNT_CUSTOM keeps the count of a custom object
\* from reaching zero.  A proxy that goes is also removed on the Linux side:
\* by LIN_HANDLE_MANAGER_FREE_OBJECT_ASYNC, or by the caller (remote FALSE).
WinDecRef(t, i, remote) ==
    IF i \notin DOMAIN t.win THEN DbgAssert(t, FALSE, "freedProxy") ELSE
    LET u == DbgAssert(t, t.win[i].ref > 0, "zeroCount")
    IN  IF LastRef(t, i)
        THEN LET gone == [u EXCEPT !.win = Erase(@, i)]
             IN  IF remote THEN LinRemove(LinRead(gone, i, FALSE), i) ELSE gone
        ELSE Count(u, i, -1)

\* Linux writes a list of objects, the last one first.
WriteAll(t, objs) ==
    LET written[n \in 0 .. Len(objs)] ==
            IF n = 0 THEN t ELSE LinWrite(written[n - 1], objs[Len(objs) + 1 - n])
    IN  written[Len(objs)]

\* Windows reads the list.
ReadAll(t, objs) ==
    LET read[n \in 0 .. Len(objs)] ==
            IF n = 0 THEN t ELSE WinRead(read[n - 1], IdOf(t, objs[n]), objs[n])
    IN  read[Len(objs)]

PassToWindows(t, objs) == ReadAll(WriteAll(t, objs), objs)

\* WIN_HANDLE_MANAGER_FREE_OBJECT: objectKill takes the reference the handler
\* has just counted, and insists that there is no other.
WinKill(t, i) ==
    IF i \notin DOMAIN t.win THEN DbgAssert(t, FALSE, "unknown")
    ELSE DbgAssert([t EXCEPT !.win = Erase(@, i)],
                t.win[i].custom /\ t.win[i].ref + 1 = 1,
                "notLastReference")

-----------------------------------------------------------------------------
Object(sort, refs, held) == [sort |-> sort, refs |-> refs, held |-> held]
Free == Object("none", 0, 0)

\* o with more references, and more that are the page's.
Adjust(o, refs, held) == Object(o.sort, o.refs + refs, o.held + held)

Frame(kind, callee, args) == [kind |-> kind, callee |-> callee, args |-> args]

\* Whose turn it is: the plugin's in a method, getvalue or deallocate call,
\* the page's in a call the plugin made, and when nothing is going on.
PluginTurn == stack # <<>> /\ Last(stack).kind \in {"method", "getvalue", "deallocate"}
PageTurn   == ~PluginTurn

Occurrences(seq, x) == Cardinality({n \in DOMAIN seq : seq[n] = x})

\* The methods of i that are running, and the places where i is an argument of
\* a method that is running.
RunsOn(calls, i) == {n \in DOMAIN calls : calls[n].kind = "method" /\ calls[n].callee = i}
PassedIn(calls, i) ==
    {p \in (DOMAIN calls) \X (1 .. MaxArgs) :
        /\ calls[p[1]].kind = "method"
        /\ p[2] \in DOMAIN calls[p[1]].args
        /\ calls[p[1]].args[p[2]] = i}

\* References Windows took for the duration of the methods that are running:
\* one for the object itself, one for each argument.
InFlight(i) == Cardinality(RunsOn(stack, i)) + Cardinality(PassedIn(stack, i))

Dying == {stack[n].callee : n \in {m \in DOMAIN stack : stack[m].kind = "deallocate"}}

\* References to a that the browser holds for the arguments of running methods.
ForArgs(a) ==
    IF Named(tables, a) THEN Cardinality(PassedIn(stack, IdOf(tables, a))) ELSE 0

\* A script has a reference of its own to a; it keeps at least one while a
\* method of a is running, however often.
PageHas == {a \in Addr : obj[a].held > ForArgs(a)}

Locked(a) ==
    ForArgs(a) + IF Named(tables, a) /\ RunsOn(stack, IdOf(tables, a)) # {} THEN 1 ELSE 0

PluginHas == {i \in DOMAIN tables.win : own[i] > 0 \/ InFlight(i) > 0}

Init ==
    /\ obj = [a \in Addr |-> Free]
    /\ tables = EmptyTables
    /\ own = [i \in Id |-> 0]
    /\ stack = <<>>

Go == tables.fault = "none"

Call(f) == Len(stack) < MaxDepth /\ stack' = Append(stack, f)

-----------------------------------------------------------------------------
(***************************************************************************)
(* The page and the browser.                                               *)
(***************************************************************************)
\* A script makes an object, or the browser wraps one for the plugin.
PageNewObject(a) ==
    /\ Go /\ PageTurn
    /\ obj[a] = Free
    /\ obj' = [obj EXCEPT ![a] = Object("page", 1, 1)]
    /\ UNCHANGED <<tables, own, stack>>

PageRetain(a) ==
    /\ Go /\ PageTurn
    /\ a \in PageHas
    /\ obj[a].held < MaxRefs
    /\ obj' = [obj EXCEPT ![a] = Adjust(@, 1, 1)]
    /\ UNCHANGED <<tables, own, stack>>

\* The last reference is gone.  The browser frees a page object; for a custom
\* one it calls NPDeallocateFunction, which has the Windows side kill the
\* proxy and run the plugin's deallocate before the ID and the memory go.
Deallocate(t, a) ==
    IF obj[a].sort = "custom" /\ Named(t, a)
    THEN /\ tables' = WinKill(t, IdOf(t, a))
         /\ obj' = [obj EXCEPT ![a] = Object("custom", 0, 0)]
         /\ Call(Frame("deallocate", IdOf(t, a), <<>>))
    ELSE /\ tables' = t
         /\ obj' = [obj EXCEPT ![a] = Free]
         /\ UNCHANGED stack

PageDrop(a) ==
    /\ Go /\ PageTurn
    /\ obj[a].held > Locked(a)
    /\ UNCHANGED own
    /\ IF obj[a].refs = 1 THEN Deallocate(tables, a)
       ELSE /\ obj' = [obj EXCEPT ![a] = Adjust(@, -1, -1)]
            /\ UNCHANGED <<tables, stack>>

\* A script calls a method of a plugin object (NPInvokeFunction; reading or
\* setting a property has the same shape).  The browser holds a reference for
\* every argument while the call lasts.
PageInvoke(a, args) ==
    /\ Go /\ PageTurn
    /\ a \in PageHas /\ obj[a].sort = "custom"
    /\ \A b \in ToSet(args) : b \in PageHas /\ obj[b].held < MaxRefs
    /\ LET t == PassToWindows(tables, <<a>> \o args)
           f == Frame("method", IdOf(t, a), [n \in DOMAIN args |-> IdOf(t, args[n])])
       IN  /\ ~ReentrantCallee => RunsOn(stack, f.callee) = {}
           /\ tables' = t
           /\ Call(f)
    /\ obj' = [b \in Addr |-> Adjust(obj[b], Occurrences(args, b), Occurrences(args, b))]
    /\ UNCHANGED own

\* The page looks at the plugin element: FUNCTION_NPP_GETVALUE_OBJECT.
PageGetScriptable ==
    /\ Go /\ PageTurn
    /\ Call(Frame("getvalue", 0, <<>>))
    /\ UNCHANGED <<obj, tables, own>>

\* The Linux side hands the plugin an object: writeVariantRelease leaves the
\* reference that came with it to the plugin, Windows counts one more.
HandToPlugin(a) ==
    LET t == PassToWindows(tables, <<a>>)
    IN  /\ tables' = t
        /\ own' = [own EXCEPT ![IdOf(t, a)] = @ + 1]
        /\ obj' = [obj EXCEPT ![a] = Adjust(@, 1, 0)]

\* Bound: the plugin keeps at most MaxRefs references to one object.
PluginMayTake(a) == Named(tables, a) => own[IdOf(tables, a)] < MaxRefs

\* A script the plugin called returns, with an object or without.
ScriptReturn ==
    /\ Go
    /\ stack # <<>> /\ Last(stack).kind = "script"
    /\ stack' = Front(stack)
    /\ \/ UNCHANGED <<obj, tables, own>>
       \/ \E a \in PageHas : PluginMayTake(a) /\ HandToPlugin(a)

-----------------------------------------------------------------------------
(***************************************************************************)
(* The plugin.                                                             *)
(***************************************************************************)
\* NPN_GetValue: the window or the plugin element.
PluginGetValue(a) ==
    /\ Go /\ PluginTurn
    /\ a \in PageHas /\ obj[a].sort = "page" /\ PluginMayTake(a)
    /\ HandToPlugin(a)
    /\ UNCHANGED stack

\* NPN_CreateObject: Linux makes the object and names it, Windows makes a
\* proxy of the plugin's class for the new ID.
PluginCreate(a) ==
    /\ Go /\ PluginTurn
    /\ obj[a] = Free
    /\ obj' = [obj EXCEPT ![a] = Object("custom", 1, 0)]
    /\ LET t == LinWrite(tables, a)
           i == IdOf(t, a)
       IN  /\ tables' = [DbgAssert(t, i \notin DOMAIN t.win, "notNew") EXCEPT
                           !.win = Insert(@, i, Proxy(1, TRUE, a))]
           /\ own' = [own EXCEPT ![i] = 1]
    /\ UNCHANGED stack

\* NPN_RetainObject: both counts go up, and Linux checks that the browser's
\* is the larger one.
PluginRetain(i) ==
    /\ Go /\ PluginTurn
    /\ i \in PluginHas /\ own[i] < MaxRefs
    /\ own' = [own EXCEPT ![i] = @ + 1]
    /\ LET t == LinRead(Count(tables, i, 1), i, FALSE)
       IN  IF t.fault # "none" THEN tables' = t /\ UNCHANGED obj
           ELSE LET a == t.lin[i]
                IN  /\ obj' = [obj EXCEPT ![a] = Adjust(@, 1, 0)]
                    /\ tables' = DbgAssert(t, t.win[i].ref <= obj[a].refs + 1, "countTooSmall")
    /\ UNCHANGED stack

\* NPN_ReleaseObject.  Linux forgets the ID with the proxy's last reference;
\* the browser may then free the object.
PluginRelease(i) ==
    /\ Go /\ PluginTurn
    /\ own[i] > 0
    /\ own' = [own EXCEPT ![i] = @ - 1]
    /\ LET last == LastRef(tables, i)
           t    == LinRead(WinDecRef(tables, i, FALSE), i, last)
       IN  IF t.fault # "none" THEN tables' = t /\ UNCHANGED <<obj, stack>>
           ELSE LET a == tables.lin[i]
                    u == DbgAssert(t, tables.win[i].ref <= obj[a].refs, "countTooSmall")
                    v == DbgAssert(u, obj[a].refs = 1 /\ Named(t, a) => tables.win[i].custom,
                                "killObjectNotSet")
                IN  IF obj[a].refs = 1 /\ v.fault = "none" THEN Deallocate(v, a)
                    ELSE /\ obj' = [obj EXCEPT ![a] = Adjust(@, -1, 0)]
                         /\ tables' = v
                         /\ UNCHANGED stack

\* NPN_Invoke and its kin: Linux must know every object that is sent.
PluginInvoke(i) ==
    /\ Go /\ PluginTurn
    /\ i \in PluginHas
    /\ tables' = LinRead(tables, i, FALSE)
    /\ Call(Frame("script", 0, <<>>))
    /\ UNCHANGED <<obj, own>>

\* Windows, freeVariantArrayDecRef: the references to a list of objects go.
DropAll(t, ids) ==
    LET dropped[n \in 0 .. Len(ids)] ==
            IF n = 0 THEN t ELSE WinDecRef(dropped[n - 1], ids[n], TRUE)
    IN  dropped[Len(ids)]

\* Mutant: the reference to the object itself is forgotten.
DropCallRefsArgsOnly(t, f) == DropAll(t, f.args)

\* The end of a method: first the references to the arguments and to the
\* object are dropped (freeVariantArrayDecRef, objectDecRef) ...
DropCallRefs(t, f) ==
    IF f.kind # "method" THEN t
    ELSE WinDecRef(DropAll(t, f.args), f.callee, TRUE)

\* ... then the result is written with the plugin's reference to it, which
\* the browser takes over.  Linux looks the ID up when RETURN has arrived,
\* after all that was sent before.
WriteResult(t, r) == LinRead(WinDecRef(t, r, FALSE), r, LastRef(t, r))

\* Mutant: the result is written first.  If it is also an argument its flag is
\* not set, and the argument's last reference takes the handle away before
\* Linux looks the result up.
ReturnTablesEarly(f, r) ==
    LinRead(DropCallRefs(WinDecRef(tables, r, FALSE), f), r, LastRef(tables, r))

ReturnTables(f, r) == WriteResult(DropCallRefs(tables, f), r)

\* Bound, as for the plugin.
PageMayTake(r) == r \in DOMAIN tables.lin => obj[tables.lin[r]].held < MaxRefs

PluginReturn ==
    /\ Go
    /\ stack # <<>> /\ Last(stack).kind \in {"method", "getvalue"}
    /\ stack' = Front(stack)
    /\ \/ /\ tables' = DropCallRefs(tables, Last(stack))
          /\ UNCHANGED <<obj, own>>
       \/ \E r \in Id :
             /\ own[r] > 0 /\ PageMayTake(r)
             /\ tables' = ReturnTables(Last(stack), r)
             /\ own' = [own EXCEPT ![r] = @ - 1]
             /\ obj' = [a \in Addr |->
                          IF tables'.fault = "none" /\ a = tables.lin[r]
                          THEN Adjust(obj[a], 0, 1) ELSE obj[a]]

\* Mutant: the memory is freed but the ID stays in the table.
DeallocateReturnKeepsId ==
    /\ Go
    /\ stack # <<>> /\ Last(stack).kind = "deallocate"
    /\ stack' = Front(stack)
    /\ obj' = [a \in Addr |->
                 IF Last(stack).callee \in DOMAIN tables.lin /\ a = tables.lin[Last(stack).callee]
                 THEN Free ELSE obj[a]]
    /\ UNCHANGED <<own, tables>>

\* The plugin's deallocate has returned: NPDeallocateFunction forgets the ID
\* and frees the object.
DeallocateReturn ==
    /\ Go
    /\ stack # <<>> /\ Last(stack).kind = "deallocate"
    /\ stack' = Front(stack)
    /\ LET i == Last(stack).callee
       IN  /\ tables' = LinRemove(tables, i)
           /\ obj' = [a \in Addr |->
                        IF i \in DOMAIN tables.lin /\ a = tables.lin[i] THEN Free ELSE obj[a]]
    /\ UNCHANGED own

ArgLists == UNION {[1 .. n -> Addr] : n \in 0 .. MaxArgs}

Page ==
    \/ \E a \in Addr : PageNewObject(a) \/ PageRetain(a) \/ PageDrop(a)
    \/ \E a \in Addr, args \in ArgLists : PageInvoke(a, args)
    \/ PageGetScriptable
    \/ ScriptReturn

Plugin ==
    \/ \E a \in Addr : PluginGetValue(a) \/ PluginCreate(a)
    \/ \E i \in Id : PluginRetain(i) \/ PluginRelease(i) \/ PluginInvoke(i)
    \/ PluginReturn
    \/ DeallocateReturn

Next == Page \/ Plugin

Spec == Init /\ [][Next]_vars

-----------------------------------------------------------------------------
\* No assertion of objectDecRef, objectKill, the handle manager and the
\* handlers of NPN_RetainObject and NPN_ReleaseObject (basicplugin.c:502, 504
\* and 535) ever fires.
NoAssertionFails == tables.fault = "none"

\* Both sides know the same IDs, and an ID names the object its proxy was made
\* for although IDs and addresses are reused; only while an object is being
\* deallocated does Linux know one more.
TablesAgree ==
    /\ \A i \in DOMAIN tables.win :
          i \in DOMAIN tables.lin /\ tables.lin[i] = tables.win[i].addr
    /\ DOMAIN tables.lin \ DOMAIN tables.win \subseteq Dying

\* The Linux table never keeps the address of an object that was freed.
NothingDangles == \A i \in DOMAIN tables.lin : obj[tables.lin[i]].sort # "none"

\* The counts balance: the browser's count is what the page and the plugin
\* hold together, the proxy's is what the plugin holds and what the methods
\* that are running use.
CountsBalance ==
    /\ \A i \in DOMAIN tables.win : tables.win[i].ref = own[i] + InFlight(i)
    /\ \A a \in Addr :
          obj[a].refs = obj[a].held
                        + IF Named(tables, a) THEN own[IdOf(tables, a)] ELSE 0

\* A pointer the plugin has a reference to, or was given for a call that is
\* still running, is the pointer of a live proxy.
PluginPointersLive ==
    \A i \in Id : own[i] > 0 \/ InFlight(i) > 0 => i \in DOMAIN tables.win
=============================================================================
