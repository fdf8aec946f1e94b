--------------------------------- MODULE Rpc ---------------------------------
(***************************************************************************)
(* The synchronous, re-entrant calls that libpipelight.so (in the browser) *)
(* and pluginloader.exe (under Wine) make to each other over two pipes.    *)
(*                                                                         *)
(* Each side has one thread that uses the pipes.  A call writes its        *)
(* arguments and BLOCKCMD_CALL_DIRECT and then sits in readCommands until  *)
(* BLOCKCMD_RETURN arrives; whatever calls the other side makes meanwhile  *)
(* are dispatched from inside that loop.  The messages carry no call ID: a *)
(* RETURN ends the innermost readCommands, and values are taken from the   *)
(* back of that loop's Stack.  The ids and tags below are history, used by *)
(* the properties and never by a guard that the code does not have.        *)
(***************************************************************************)
EXTENDS Integers, Sequences, SequencesExt

CONSTANTS
    Call,        \* identities of calls (reused once a call has returned)
    NumArgs,     \* NumArgs[c]: how many values the function of call c reads
    NumResults,  \* NumResults[c]: how many values it writes before RETURN
    Budget,      \* bound: calls and notifications one handler makes
    PipeSize     \* bound: blocks a pipe holds before a writer blocks

ASSUME NumArgsAssumption    == NumArgs \in [Call -> Nat]
ASSUME NumResultsAssumption == NumResults \in [Call -> Nat]
ASSUME BudgetAssumption     == Budget \in Nat
ASSUME PipeSizeAssumption   == PipeSize \in Nat \ {0}

Side == {"linux", "windows"}
Peer(s) == IF s = "linux" THEN "windows" ELSE "linux"

VARIABLES
    frames,    \* frames[s]: the nested activations of side s, innermost last
    buffer,    \* buffer[s]: blocks in the stdio buffer of commPipeOut
    flushing,  \* flushing[s]: side s is inside fflush
    pipe,      \* pipe[s]: blocks side s has written and its peer not yet read
    fault      \* the DBG_ASSERT that ended a process, if any

vars == <<frames, buffer, flushing, pipe, fault>>

-----------------------------------------------------------------------------
\* Blocks.  A value is tagged with the call whose argument or result it is;
\* the one argument of a notification belongs to no call.
Push(kind, c, i)  == [block |-> "push", kind |-> kind, id |-> c, pos |-> i]
CallDirect(c)     == [block |-> "call", id |-> c]
Notification      == [block |-> "async"]
Return(c)         == [block |-> "return", id |-> c]

NotifyArg == [block |-> "push", kind |-> "handle"]

Args(c)    == [i \in 1 .. NumArgs[c] |-> Push("arg", c, i)]
Results(c) == [i \in 1 .. NumResults[c] |-> Push("result", c, i)]

\* Mutant: only calls flush the stream.
FlushCallsOnly == {"call", "async"}

\* Blocks up to BLOCKCMD_FLUSH_REQUIRED flush the stream: calls, with or
\* without an answer, and returns.
FlushRequired == {"call", "async", "return"}

\* Activations.  The bottom of the Windows side is main(), which reads
\* commands for ever and must never see a RETURN; the bottom of the Linux
\* side is a call of the browser into the plugin.
Main       == [kind |-> "main", values |-> <<>>]
Entry      == [kind |-> "entry", budget |-> Budget]
Reading(c) == [kind |-> "call", id |-> c, values |-> <<>>]
Handler(c, args) ==
    [kind |-> "handler", id |-> c, args |-> args, budget |-> Budget, written |-> 0]
Returned(c) == [kind |-> "returned", id |-> c]

Top(s) == Last(frames[s])

HasTop(s, kinds) == frames[s] # <<>> /\ Top(s).kind \in kinds

\* Side s executes the browser's, the plugin's or the bridge's own code.
Running(s) == HasTop(s, {"entry", "handler"}) /\ ~flushing[s]
\* Side s is blocked in readCommands.
Blocked(s) == HasTop(s, {"main", "call"}) /\ ~flushing[s]

InUse == {c \in Call : \E s \in Side : \E i \in DOMAIN frames[s] :
             frames[s][i].kind \in {"call", "handler", "returned"} /\ frames[s][i].id = c}

Init ==
    /\ frames = [s \in Side |-> IF s = "windows" THEN <<Main>> ELSE <<>>]
    /\ buffer = [s \in Side |-> <<>>]
    /\ flushing = [s \in Side |-> FALSE]
    /\ pipe = [s \in Side |-> <<>>]
    /\ fault = "none"

SetTop(s, f) == frames' = [frames EXCEPT ![s] = Front(@) \o f]

\* writeCommand, for a series of blocks: fwrite into the stream and, if the
\* last one asks for it, fflush before the thread goes on.
Write(s, blocks) ==
    /\ buffer' = [buffer EXCEPT ![s] = @ \o blocks]
    /\ flushing' = [flushing EXCEPT ![s] = Last(blocks).block \in FlushRequired]
    /\ UNCHANGED <<pipe, fault>>

-----------------------------------------------------------------------------
\* The browser calls an NPP_* function or a method of a proxy object ...
BrowserEnter ==
    /\ frames["linux"] = <<>>
    /\ frames' = [frames EXCEPT !["linux"] = <<Entry>>]
    /\ UNCHANGED <<buffer, flushing, pipe, fault>>

\* ... and gets control back.
BrowserLeave ==
    /\ HasTop("linux", {"entry"})
    /\ Running("linux")
    /\ frames' = [frames EXCEPT !["linux"] = <<>>]
    /\ UNCHANGED <<buffer, flushing, pipe, fault>>

Spend(f) == [f EXCEPT !.budget = @ - 1]

\* Mutant: the caller goes on without waiting for the answer.
StartCallNoWait(s, c) ==
    /\ Running(s)
    /\ Top(s).budget > 0
    /\ c \notin InUse
    /\ SetTop(s, <<Spend(Top(s))>>)
    /\ Write(s, Append(Args(c), CallDirect(c)))

\* writeXXX for each argument, callFunction, and readCommands on a Stack of
\* its own (readResultVoid and its kin).
StartCall(s, c) ==
    /\ Running(s)
    /\ Top(s).budget > 0
    /\ c \notin InUse
    /\ SetTop(s, <<Spend(Top(s)), Reading(c)>>)
    /\ Write(s, Append(Args(c), CallDirect(c)))

\* A message without an answer: LIN_HANDLE_MANAGER_FREE_OBJECT_ASYNC from
\* Windows, WIN_HANDLE_MANAGER_FREE_NOTIFY_DATA_ASYNC from Linux.  It may be
\* written between two result values (objectDecRef in the middle of
\* writeVariantReleaseDecRef).
Notify(s) ==
    /\ Running(s)
    /\ Top(s).budget > 0
    /\ SetTop(s, <<Spend(Top(s))>>)
    /\ Write(s, <<NotifyArg, Notification>>)

\* A handler writes one of its result values; nothing is flushed yet.
WriteResult(s) ==
    /\ Running(s)
    /\ Top(s).kind = "handler"
    /\ Top(s).written < NumResults[Top(s).id]
    /\ SetTop(s, <<[Top(s) EXCEPT !.written = @ + 1]>>)
    /\ Write(s, <<Results(Top(s).id)[Top(s).written + 1]>>)

\* Mutant: an early return that leaves out the remaining result values.
ReturnCommandEarly(s) ==
    /\ Running(s)
    /\ Top(s).kind = "handler"
    /\ SetTop(s, <<Returned(Top(s).id)>>)
    /\ Write(s, <<Return(Top(s).id)>>)

\* returnCommand.  Some handlers still have work to do after it ("ASYNC" in
\* the source: freeing handles and memory), during which they use no pipe.
ReturnCommand(s) ==
    /\ Running(s)
    /\ Top(s).kind = "handler"
    /\ Top(s).written = NumResults[Top(s).id]
    /\ SetTop(s, <<Returned(Top(s).id)>>)
    /\ Write(s, <<Return(Top(s).id)>>)

\* The handler is done: its dispatcher goes back to readCommands.
FinishHandler(s) ==
    /\ HasTop(s, {"returned"})
    /\ ~flushing[s]
    /\ SetTop(s, <<>>)
    /\ UNCHANGED <<buffer, flushing, pipe, fault>>

\* fflush: write(2) what the pipe takes, and return when all is written.
Flush(s) ==
    /\ flushing[s]
    /\ buffer[s] # <<>>
    /\ Len(pipe[s]) < PipeSize
    /\ pipe' = [pipe EXCEPT ![s] = Append(@, Head(buffer[s]))]
    /\ buffer' = [buffer EXCEPT ![s] = Tail(@)]
    /\ flushing' = [flushing EXCEPT ![s] = Len(buffer[s]) > 1]
    /\ UNCHANGED <<frames, fault>>

\* fwrite may pass a full stdio buffer on to the pipe without a flush.
Spill(s) ==
    /\ Running(s)
    /\ buffer[s] # <<>>
    /\ Len(pipe[s]) < PipeSize
    /\ pipe' = [pipe EXCEPT ![s] = Append(@, Head(buffer[s]))]
    /\ buffer' = [buffer EXCEPT ![s] = Tail(@)]
    /\ UNCHANGED <<frames, flushing, fault>>

-----------------------------------------------------------------------------
(***************************************************************************)
(* readCommands: take the next block.  Values go to the Stack of this      *)
(* loop; a call is dispatched at once and takes its arguments from the     *)
(* back of that same Stack; RETURN leaves the loop, and the caller takes   *)
(* the results from the back.                                              *)
(***************************************************************************)
Fail(reason) ==
    /\ fault' = reason
    /\ UNCHANGED <<frames, buffer, flushing, pipe>>

Consume(s) ==
    /\ pipe' = [pipe EXCEPT ![Peer(s)] = Tail(@)]
    /\ UNCHANGED <<buffer, flushing, fault>>

\* Mutant: the values are taken from the front, as from a queue.
PoppedFromFront(values, n) == SubSeq(values, 1, n)

\* readXXX, n times: the last n values, and what remains below them.
Popped(values, n) == SubSeq(values, Len(values) - n + 1, Len(values))
Below(values, n)  == SubSeq(values, 1, Len(values) - n)

ReceivePush(s, block) ==
    /\ SetTop(s, <<[Top(s) EXCEPT !.values = Append(@, block)]>>)
    /\ Consume(s)

ReceiveCall(s, block) ==
    LET n == NumArgs[block.id]
    IN  IF Len(Top(s).values) < n THEN Fail("no return value found")
        ELSE /\ SetTop(s, << [Top(s) EXCEPT !.values = Below(@, n)],
                             Handler(block.id, Popped(Top(s).values, n)) >>)
             /\ Consume(s)

\* Mutant: the handler of a notification ends with returnCommand, as the
\* handlers of calls do.
ReceiveNotificationAnswered(s) ==
    /\ Top(s).values # <<>>
    /\ SetTop(s, <<[Top(s) EXCEPT !.values = Below(@, 1)]>>)
    /\ pipe' = [pipe EXCEPT ![Peer(s)] = Tail(@)]
    /\ buffer' = [buffer EXCEPT ![s] = Append(@, Return(CHOOSE c \in Call : TRUE))]
    /\ flushing' = [flushing EXCEPT ![s] = TRUE]
    /\ UNCHANGED fault

\* The handlers of the two notifications remove a handle and free memory.
\* They answer nothing and make no call.
ReceiveNotification(s) ==
    IF Top(s).values = <<>> THEN Fail("no return value found")
    ELSE IF Last(Top(s).values) # NotifyArg THEN Fail("wrong return value")
    ELSE /\ SetTop(s, <<[Top(s) EXCEPT !.values = Below(@, 1)]>>)
         /\ Consume(s)

ReceiveReturn(s) ==
    IF Top(s).kind = "main" THEN Fail("BLOCKCMD_RETURN not allowed here")
    ELSE IF Len(Top(s).values) < NumResults[Top(s).id]
    THEN Fail("no return value found")
    ELSE SetTop(s, <<>>) /\ Consume(s)

Receive(s) ==
    /\ Blocked(s)
    /\ pipe[Peer(s)] # <<>>
    /\ LET block == Head(pipe[Peer(s)])
       IN  \/ block.block = "push"   /\ ReceivePush(s, block)
           \/ block.block = "call"   /\ ReceiveCall(s, block)
           \/ block.block = "async"  /\ ReceiveNotification(s)
           \/ block.block = "return" /\ ReceiveReturn(s)

-----------------------------------------------------------------------------
\* What the bridge's own code decides.
Proceed(s) ==
    /\ fault = "none"
    /\ \/ WriteResult(s)
       \/ ReturnCommand(s)
       \/ FinishHandler(s)
       \/ Flush(s)
       \/ Receive(s)

\* What the browser, the plugin and the C library decide.
Environment ==
    /\ fault = "none"
    /\ \/ BrowserEnter
       \/ BrowserLeave
       \/ \E s \in Side, c \in Call : StartCall(s, c)
       \/ \E s \in Side : Notify(s) \/ Spill(s)

Next == (\E s \in Side : Proceed(s)) \/ Environment

Spec == Init /\ [][Next]_vars

\* Each process goes on: a thread that is not blocked takes its next step,
\* and a plugin or browser function called by a handler returns after
\* finitely many calls of its own.
Fairness == \A s \in Side : WF_vars(Proceed(s))

FairSpec == Spec /\ Fairness

-----------------------------------------------------------------------------
PushBlock == [block : {"push"}, kind : {"arg", "result"}, id : Call, pos : Nat]
             \cup {NotifyArg}
Block == PushBlock \cup [block : {"call", "return"}, id : Call] \cup {Notification}

Frame ==
    [kind : {"main"}, values : Seq(PushBlock)]
    \cup [kind : {"entry"}, budget : 0 .. Budget]
    \cup [kind : {"call"}, id : Call, values : Seq(PushBlock)]
    \cup [kind : {"handler"}, id : Call, args : Seq(PushBlock),
          budget : 0 .. Budget, written : Nat]
    \cup [kind : {"returned"}, id : Call]

\* The shape of the two processes' stacks and of what the pipes carry.
TypeOK ==
    /\ frames \in [Side -> Seq(Frame)]
    /\ buffer \in [Side -> Seq(Block)]
    /\ flushing \in [Side -> BOOLEAN]
    /\ pipe \in [Side -> Seq(Block)]
    /\ \A s \in Side : Len(pipe[s]) <= PipeSize
    /\ fault \in {"none", "no return value found", "wrong return value",
                  "BLOCKCMD_RETURN not allowed here"}

\* No DBG_ASSERT of readCommands and of the readXXX functions ever fires: the
\* Windows main loop sees no RETURN (it reads with allowReturn = false), and
\* every value read is there.
NoProtocolFault == fault = "none"

\* The two threads take turns: the bridge has no lock because at any time at
\* most one side executes browser, plugin or handler code (what follows a
\* returnCommand aside).
TakeTurns == ~ \A s \in Side : HasTop(s, {"entry", "handler"})

\* A side that waits for the other has left nothing in its own stdio buffer.
NothingHeldBack == \A s \in Side : Blocked(s) => buffer[s] = <<>>

\* A handler gets the arguments of its call, whatever the caller's Stack held
\* below them, and a RETURN ends the call it answers, with exactly the results
\* of that call at the back of the Stack, whatever was called, answered or
\* notified between two of them.
ValuesIntact ==
    \A s \in Side :
        /\ HasTop(s, {"handler"}) => Top(s).args = Args(Top(s).id)
        /\ LET in == pipe[Peer(s)]
           IN  Blocked(s) /\ in # <<>> /\ Head(in).block = "return" =>
                  /\ Top(s).kind = "call"
                  /\ Head(in).id = Top(s).id
                  /\ Top(s).values = Results(Top(s).id)

\* Every call gets its answer.
EveryCallReturns ==
    \A c \in Call :
        LET waiting == \E s \in Side : \E i \in DOMAIN frames[s] :
                          frames[s][i].kind = "call" /\ frames[s][i].id = c
        IN  waiting ~> ~waiting

-----------------------------------------------------------------------------
\* The calls that are open on one side, and who made them; a handler that has
\* sent its RETURN no longer counts.  Each activation above the bottom belongs
\* to one call.
Level(s) == IF HasTop(s, {"returned"}) THEN Len(frames[s]) - 1 ELSE Len(frames[s])

OpenOn(s) ==
    [i \in 1 .. Level(s) - 1 |->
        [id |-> frames[s][i + 1].id,
         by |-> IF frames[s][i + 1].kind = "call" THEN s ELSE Peer(s)]]

OpenCalls ==
    IF Len(OpenOn("linux")) >= Len(OpenOn("windows"))
    THEN OpenOn("linux") ELSE OpenOn("windows")

\* Across both processes the calls behave as those of one thread: see
\* NestedCalls.
Nested == INSTANCE NestedCalls WITH open <- OpenCalls

ImplementsNestedCalls == Nested!Spec
=============================================================================
