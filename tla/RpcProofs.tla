------------------------------ MODULE RpcProofs ------------------------------
(***************************************************************************)
(* Proofs about Rpc for any number of calls, arguments and results and for *)
(* pipes of any size.                                                      *)
(***************************************************************************)
EXTENDS Rpc, TLAPS, SequenceTheorems

\* The innermost element and the rest of a stack that is not empty.
LEMMA FrontAndLast ==
    ASSUME NEW S, NEW q \in Seq(S), q # <<>>
    PROVE  /\ Front(q) \in Seq(S)
           /\ Last(q) \in S
BY DEF Front, Last

\* Replacing the top of a stack by one element or by two.
LEMMA ReplaceTop ==
    ASSUME NEW S, NEW q \in Seq(S), NEW r \in Seq(S)
    PROVE  /\ q \o r \in Seq(S)
           /\ r # <<>> => q \o r # <<>> /\ Last(q \o r) = Last(r)
<1>1. q \o r \in Seq(S) /\ Len(q \o r) = Len(q) + Len(r)
  BY ConcatProperties
<1>2. ASSUME r # <<>> PROVE Last(q \o r) = Last(r)
  <2>1. Len(r) \in Nat /\ Len(r) > 0 /\ Len(q) \in Nat
    BY <1>2
  <2>2. (q \o r)[Len(q) + Len(r)] = r[Len(r)]
    BY <2>1
  <2> QED BY <1>1, <2>2 DEF Last
<1>3. r # <<>> => q \o r # <<>>
  BY <1>1
<1> QED BY <1>1, <1>2, <1>3

LEMMA TopIsAFrame ==
    ASSUME TypeOK, NEW s \in Side, frames[s] # <<>>
    PROVE  Top(s) \in Frame
BY FrontAndLast DEF TypeOK, Top

LEMMA SetTopKeepsType ==
    ASSUME TypeOK, NEW s \in Side, frames[s] # <<>>,
           NEW f \in Seq(Frame), SetTop(s, f)
    PROVE  /\ frames' \in [Side -> Seq(Frame)]
           /\ frames'[s] = Front(frames[s]) \o f
           /\ f # <<>> => frames'[s] # <<>> /\ Last(frames'[s]) = Last(f)
           /\ \A t \in Side \ {s} : frames'[t] = frames[t]
<1>1. frames[s] \in Seq(Frame) /\ frames \in [Side -> Seq(Frame)]
  BY DEF TypeOK
<1>2. Front(frames[s]) \in Seq(Frame)
  BY <1>1, FrontAndLast
<1>3. Front(frames[s]) \o f \in Seq(Frame)
  BY <1>2, ReplaceTop
<1>4. frames' = [frames EXCEPT ![s] = Front(frames[s]) \o f]
  BY DEF SetTop
<1>5. frames'[s] = Front(frames[s]) \o f
  BY <1>1, <1>4
<1> QED BY <1>1, <1>2, <1>3, <1>4, <1>5, ReplaceTop

-----------------------------------------------------------------------------
\* What an activation of a given kind is made of.
LEMMA FrameKinds ==
    ASSUME NEW f \in Frame
    PROVE  /\ f.kind \in {"main", "entry", "call", "handler", "returned"}
           /\ f.kind \in {"entry", "handler"} => f.budget \in 0 .. Budget
           /\ f.kind \in {"main", "call"} => f.values \in Seq(PushBlock)
           /\ f.kind \in {"call", "handler", "returned"} => f.id \in Call
           /\ f.kind = "handler" => f.written \in Nat
BY DEF Frame

LEMMA NewFrames ==
    ASSUME NEW c \in Call, NEW args \in Seq(PushBlock)
    PROVE  /\ Entry \in Frame
           /\ Reading(c) \in Frame
           /\ Handler(c, args) \in Frame
           /\ Returned(c) \in Frame
BY BudgetAssumption DEF Frame, Entry, Reading, Handler, Returned

LEMMA ChangedFrames ==
    ASSUME NEW f \in Frame
    PROVE  /\ f.kind \in {"entry", "handler"} /\ f.budget > 0 =>
                Spend(f) \in Frame /\ Spend(f).kind = f.kind
           /\ f.kind = "handler" =>
                /\ [f EXCEPT !.written = @ + 1] \in Frame
                /\ [f EXCEPT !.written = @ + 1].kind = "handler"
           /\ \A v \in Seq(PushBlock) : f.kind \in {"main", "call"} =>
                /\ [f EXCEPT !.values = v] \in Frame
                /\ [f EXCEPT !.values = v].kind = f.kind
<1> USE BudgetAssumption
<1>1. f.kind \in {"entry", "handler"} /\ f.budget > 0 =>
         Spend(f) \in Frame /\ Spend(f).kind = f.kind
  BY DEF Frame, Spend
<1>2. f.kind = "handler" =>
         /\ [f EXCEPT !.written = @ + 1] \in Frame
         /\ [f EXCEPT !.written = @ + 1].kind = "handler"
  BY DEF Frame
<1>3. \A v \in Seq(PushBlock) : f.kind \in {"main", "call"} =>
         /\ [f EXCEPT !.values = v] \in Frame
         /\ [f EXCEPT !.values = v].kind = f.kind
  BY DEF Frame
<1> QED BY <1>1, <1>2, <1>3

\* Arguments, results and the other blocks.
LEMMA BlockTypes ==
    ASSUME NEW c \in Call
    PROVE  /\ Args(c) \in Seq(PushBlock)
           /\ \A i \in 1 .. NumResults[c] : Results(c)[i] \in PushBlock
           /\ PushBlock \subseteq Block
           /\ CallDirect(c) \in Block /\ Return(c) \in Block
           /\ NotifyArg \in PushBlock /\ Notification \in Block
<1>1. NumArgs[c] \in Nat /\ NumResults[c] \in Nat
  BY NumArgsAssumption, NumResultsAssumption
<1>2. \A i \in Nat : Push("arg", c, i) \in PushBlock /\ Push("result", c, i) \in PushBlock
  BY DEF Push, PushBlock
<1>3. Args(c) \in Seq(PushBlock)
  <2>1. Args(c) = [i \in 1 .. NumArgs[c] |-> Push("arg", c, i)]
    BY DEF Args
  <2>2. \A i \in 1 .. NumArgs[c] : Push("arg", c, i) \in PushBlock
    BY <1>1, <1>2
  <2> QED BY <1>1, <2>1, <2>2, IsASeq
<1>4. \A i \in 1 .. NumResults[c] : Results(c)[i] \in PushBlock
  BY <1>1, <1>2 DEF Results
<1>5. PushBlock \subseteq Block
  BY DEF Block
<1>6. CallDirect(c) \in Block /\ Return(c) \in Block
  BY DEF Block, CallDirect, Return
<1>7. NotifyArg \in PushBlock /\ Notification \in Block
  BY DEF PushBlock, Block
<1> QED BY <1>3, <1>4, <1>5, <1>6, <1>7

\* What writeCommand leaves well typed.
LEMMA WriteKeepsType ==
    ASSUME TypeOK, NEW s \in Side, NEW blocks \in Seq(Block), blocks # <<>>,
           Write(s, blocks)
    PROVE  /\ buffer' \in [Side -> Seq(Block)]
           /\ flushing' \in [Side -> BOOLEAN]
           /\ pipe' = pipe /\ fault' = fault
           /\ flushing'[s] = (Last(blocks).block \in FlushRequired)
           /\ \A t \in Side \ {s} : buffer'[t] = buffer[t] /\ flushing'[t] = flushing[t]
<1>1. buffer[s] \in Seq(Block)
  BY DEF TypeOK
<1>2. buffer[s] \o blocks \in Seq(Block)
  BY <1>1, ConcatProperties
<1>3. (Last(blocks).block \in FlushRequired) \in BOOLEAN
  OBVIOUS
<1> QED BY <1>1, <1>2, <1>3 DEF TypeOK, Write

\* One activation in place of the top.
LEMMA SetTopOne ==
    ASSUME TypeOK, NEW s \in Side, frames[s] # <<>>,
           NEW f \in Frame, SetTop(s, <<f>>)
    PROVE  /\ frames' \in [Side -> Seq(Frame)]
           /\ frames'[s] # <<>> /\ Top(s)' = f
           /\ \A t \in Side \ {s} : frames'[t] = frames[t]
<1>1. <<f>> \in Seq(Frame) /\ <<f>> # <<>> /\ Last(<<f>>) = f
  BY DEF Last
<1>2. frames'[s] # <<>> /\ Last(frames'[s]) = f
  BY <1>1, SetTopKeepsType
<1> QED BY <1>1, <1>2, SetTopKeepsType DEF Top

-----------------------------------------------------------------------------
LEMMA InitTyped == Init => TypeOK
<1> SUFFICES ASSUME Init PROVE TypeOK
  OBVIOUS
<1>1. Main \in Frame
  BY DEF Main, Frame
<1>2. frames \in [Side -> Seq(Frame)]
  <2> QED BY <1>1 DEF Init
<1>3. fault = "none"
  BY DEF Init
<1>4. \A s \in Side : Len(pipe[s]) <= PipeSize
  BY PipeSizeAssumption DEF Init
<1>5. /\ buffer \in [Side -> Seq(Block)]
      /\ flushing \in [Side -> BOOLEAN]
      /\ pipe \in [Side -> Seq(Block)]
  <2> QED BY DEF Init
<1> QED BY <1>2, <1>3, <1>4, <1>5 DEF TypeOK

-----------------------------------------------------------------------------
\* A side that writes keeps its values in the stdio buffer only as long as it
\* is in a handler: whatever else it writes ends in a flush, and readCommands
\* is left with RETURN, after which there is nothing to write.
BufferOfHandler ==
    \A s \in Side : ~flushing[s] /\ buffer[s] # <<>> => HasTop(s, {"handler"})

RpcInv == TypeOK /\ BufferOfHandler

\* A step of side s leaves the stacks and buffers of its peer alone.
LEMMA OtherSideKept ==
    ASSUME BufferOfHandler, NEW s \in Side,
           \A t \in Side \ {s} : /\ frames'[t] = frames[t]
                                /\ buffer'[t] = buffer[t]
                                /\ flushing'[t] = flushing[t],
           \/ flushing'[s]
           \/ buffer'[s] = <<>>
           \/ frames'[s] # <<>> /\ Top(s)'.kind = "handler"
    PROVE  BufferOfHandler'
<1>1. SUFFICES ASSUME NEW t \in Side, ~flushing'[t], buffer'[t] # <<>>
               PROVE  frames'[t] # <<>> /\ Last(frames'[t]).kind \in {"handler"}
  BY DEF BufferOfHandler, HasTop, Top
<1>2. CASE t = s
  BY <1>1, <1>2 DEF Top
<1>3. CASE t # s
  BY <1>1, <1>3 DEF BufferOfHandler, HasTop, Top
<1> QED BY <1>2, <1>3

-----------------------------------------------------------------------------
\* The steps on side s, one lemma for each kind.
LEMMA StartCallStep ==
    ASSUME RpcInv, NEW s \in Side, NEW c \in Call, StartCall(s, c)
    PROVE  RpcInv'
<1>1. frames[s] # <<>> /\ Top(s).kind \in {"entry", "handler"}
  BY DEF StartCall, Running, HasTop
<1>2. TypeOK /\ BufferOfHandler /\ Top(s) \in Frame
  BY <1>1, TopIsAFrame DEF RpcInv
<1>3. <<Spend(Top(s)), Reading(c)>> \in Seq(Frame)
  <2>1. Spend(Top(s)) \in Frame
    BY <1>1, <1>2, ChangedFrames DEF StartCall
  <2>2. Reading(c) \in Frame
    BY EmptySeq, NewFrames
  <2> QED BY <2>1, <2>2
<1>4. /\ frames' \in [Side -> Seq(Frame)]
      /\ \A t \in Side \ {s} : frames'[t] = frames[t]
  BY <1>1, <1>2, <1>3, SetTopKeepsType DEF StartCall
<1>5. Args(c) \in Seq(Block) /\ CallDirect(c) \in Block
  BY BlockTypes
<1>6. /\ Append(Args(c), CallDirect(c)) \in Seq(Block)
      /\ Append(Args(c), CallDirect(c)) # <<>>
      /\ Last(Append(Args(c), CallDirect(c))) = CallDirect(c)
  BY <1>5, AppendProperties DEF Last
<1>7. flushing'[s]
  <2>1. CallDirect(c).block \in FlushRequired
    BY DEF CallDirect, FlushRequired
  <2> QED BY <1>2, <1>6, <2>1, WriteKeepsType DEF StartCall
<1>8. TypeOK'
  BY <1>2, <1>4, <1>6, WriteKeepsType DEF StartCall, TypeOK
<1>9. BufferOfHandler'
  BY <1>2, <1>4, <1>6, <1>7, WriteKeepsType, OtherSideKept, ZenonT(60) DEF StartCall
<1> QED BY <1>8, <1>9 DEF RpcInv

LEMMA NotifyStep ==
    ASSUME RpcInv, NEW s \in Side, Notify(s)
    PROVE  RpcInv'
<1>1. frames[s] # <<>> /\ Top(s).kind \in {"entry", "handler"}
  BY DEF Notify, Running, HasTop
<1>2. TypeOK /\ BufferOfHandler /\ Top(s) \in Frame
  BY <1>1, TopIsAFrame DEF RpcInv
<1>3. Spend(Top(s)) \in Frame
  BY <1>1, <1>2, ChangedFrames DEF Notify
<1>4. /\ frames' \in [Side -> Seq(Frame)]
      /\ \A t \in Side \ {s} : frames'[t] = frames[t]
  BY <1>1, <1>2, <1>3, SetTopOne DEF Notify
<1>5. NotifyArg \in Block /\ Notification \in Block
  BY DEF Block, PushBlock
<1>6. /\ <<NotifyArg, Notification>> \in Seq(Block)
      /\ <<NotifyArg, Notification>> # <<>>
      /\ Last(<<NotifyArg, Notification>>) = Notification
  BY <1>5 DEF Last
<1>7. flushing'[s]
  <2>1. Notification.block \in FlushRequired
    BY DEF Notification, FlushRequired
  <2> QED BY <1>2, <1>6, <2>1, WriteKeepsType DEF Notify
<1>8. TypeOK'
  BY <1>2, <1>4, <1>6, WriteKeepsType DEF Notify, TypeOK
<1>9. BufferOfHandler'
  BY <1>2, <1>4, <1>6, <1>7, WriteKeepsType, OtherSideKept, ZenonT(60) DEF Notify
<1> QED BY <1>8, <1>9 DEF RpcInv

LEMMA WriteResultStep ==
    ASSUME RpcInv, NEW s \in Side, WriteResult(s)
    PROVE  RpcInv'
<1> DEFINE f == [Top(s) EXCEPT !.written = @ + 1]
           value == Results(Top(s).id)[Top(s).written + 1]
<1>1. frames[s] # <<>> /\ Top(s).kind = "handler"
  BY DEF WriteResult, Running, HasTop
<1>2. TypeOK /\ BufferOfHandler /\ Top(s) \in Frame
  BY <1>1, TopIsAFrame DEF RpcInv
<1>3. f \in Frame /\ f.kind = "handler"
  BY <1>1, <1>2, ChangedFrames
<1>4. value \in Block
  <2>1. Top(s).id \in Call /\ Top(s).written \in Nat
    BY <1>1, <1>2, FrameKinds
  <2>2. Top(s).written + 1 \in 1 .. NumResults[Top(s).id]
    BY <2>1, NumResultsAssumption DEF WriteResult
  <2> QED BY <2>1, <2>2, BlockTypes
<1>5. SetTop(s, <<f>>) /\ Write(s, <<value>>)
  BY DEF WriteResult
<1> HIDE DEF f, value
<1>6. /\ frames' \in [Side -> Seq(Frame)]
      /\ frames'[s] # <<>> /\ Top(s)' = f
      /\ \A t \in Side \ {s} : frames'[t] = frames[t]
  BY <1>1, <1>2, <1>3, <1>5, SetTopOne
<1>7. <<value>> \in Seq(Block) /\ <<value>> # <<>>
  BY <1>4
<1>8. TypeOK'
  BY <1>2, <1>5, <1>6, <1>7, WriteKeepsType DEF TypeOK
<1>9. BufferOfHandler'
  BY <1>2, <1>3, <1>5, <1>6, <1>7, WriteKeepsType, OtherSideKept
<1> QED BY <1>8, <1>9 DEF RpcInv

LEMMA ReturnCommandStep ==
    ASSUME RpcInv, NEW s \in Side, ReturnCommand(s)
    PROVE  RpcInv'
<1> DEFINE f == Returned(Top(s).id)
           block == Return(Top(s).id)
<1>1. frames[s] # <<>> /\ Top(s).kind = "handler"
  BY DEF ReturnCommand, Running, HasTop
<1>2. TypeOK /\ BufferOfHandler /\ Top(s) \in Frame
  BY <1>1, TopIsAFrame DEF RpcInv
<1>3. Top(s).id \in Call
  BY <1>1, <1>2, FrameKinds
<1>4. f \in Frame /\ block \in Block
  BY <1>3, NewFrames, BlockTypes, EmptySeq
<1>5. block.block \in FlushRequired
  BY DEF Return, FlushRequired
<1>6. SetTop(s, <<f>>) /\ Write(s, <<block>>)
  BY DEF ReturnCommand
<1> HIDE DEF f, block
<1>7. /\ frames' \in [Side -> Seq(Frame)]
      /\ \A t \in Side \ {s} : frames'[t] = frames[t]
  BY <1>1, <1>2, <1>4, <1>6, SetTopOne
<1>8. <<block>> \in Seq(Block) /\ <<block>> # <<>> /\ Last(<<block>>) = block
  BY <1>4 DEF Last
<1>9. TypeOK'
  BY <1>2, <1>6, <1>7, <1>8, WriteKeepsType DEF TypeOK
<1>10. flushing'[s]
  BY <1>2, <1>5, <1>6, <1>8, WriteKeepsType
<1>11. BufferOfHandler'
  BY <1>2, <1>6, <1>7, <1>8, <1>10, WriteKeepsType, OtherSideKept, ZenonT(60)
<1> QED BY <1>9, <1>11 DEF RpcInv

LEMMA FinishHandlerStep ==
    ASSUME RpcInv, NEW s \in Side, FinishHandler(s)
    PROVE  RpcInv'
<1>1. /\ frames[s] # <<>> /\ Top(s).kind = "returned" /\ ~flushing[s]
      /\ UNCHANGED <<buffer, flushing, pipe, fault>>
  BY DEF FinishHandler, HasTop
<1>2. TypeOK /\ BufferOfHandler
  BY DEF RpcInv
<1>3. /\ frames' \in [Side -> Seq(Frame)]
      /\ \A t \in Side \ {s} : frames'[t] = frames[t]
  BY <1>1, <1>2, EmptySeq, SetTopKeepsType DEF FinishHandler
<1>4. buffer'[s] = <<>>
  BY <1>1, <1>2 DEF BufferOfHandler, HasTop
<1>5. TypeOK'
  BY <1>1, <1>2, <1>3 DEF TypeOK
<1>6. BufferOfHandler'
  BY <1>1, <1>2, <1>3, <1>4, OtherSideKept
<1> QED BY <1>5, <1>6 DEF RpcInv

\* One block moves from the stdio buffer of side s into its pipe.
LEMMA BlockWritten ==
    ASSUME TypeOK, NEW s \in Side, buffer[s] # <<>>, Len(pipe[s]) < PipeSize,
           pipe' = [pipe EXCEPT ![s] = Append(@, Head(buffer[s]))],
           buffer' = [buffer EXCEPT ![s] = Tail(@)]
    PROVE  /\ pipe' \in [Side -> Seq(Block)]
           /\ \A t \in Side : Len(pipe'[t]) <= PipeSize
           /\ buffer' \in [Side -> Seq(Block)]
           /\ Len(buffer'[s]) = Len(buffer[s]) - 1
           /\ \A t \in Side \ {s} : buffer'[t] = buffer[t]
<1>1. /\ buffer \in [Side -> Seq(Block)] /\ buffer[s] \in Seq(Block)
      /\ pipe \in [Side -> Seq(Block)] /\ pipe[s] \in Seq(Block)
      /\ \A t \in Side : Len(pipe[t]) <= PipeSize
  BY DEF TypeOK
<1>2. /\ Head(buffer[s]) \in Block
      /\ Tail(buffer[s]) \in Seq(Block)
      /\ Len(Tail(buffer[s])) = Len(buffer[s]) - 1
  BY <1>1, HeadTailProperties
<1>3. /\ Append(pipe[s], Head(buffer[s])) \in Seq(Block)
      /\ Len(Append(pipe[s], Head(buffer[s]))) <= PipeSize
  BY <1>1, <1>2, AppendProperties, PipeSizeAssumption
<1> QED BY <1>1, <1>2, <1>3

LEMMA FlushStep ==
    ASSUME RpcInv, NEW s \in Side, Flush(s)
    PROVE  RpcInv'
<1>1. TypeOK /\ BufferOfHandler
  BY DEF RpcInv
<1>2. /\ pipe' \in [Side -> Seq(Block)]
      /\ \A t \in Side : Len(pipe'[t]) <= PipeSize
      /\ buffer' \in [Side -> Seq(Block)]
      /\ Len(buffer'[s]) = Len(buffer[s]) - 1
      /\ \A t \in Side \ {s} : buffer'[t] = buffer[t]
  BY <1>1, BlockWritten DEF Flush
<1>3. flushing' = [flushing EXCEPT ![s] = Len(buffer[s]) > 1] /\ UNCHANGED <<frames, fault>>
  BY DEF Flush
<1>4. TypeOK'
  <2>1. flushing' \in [Side -> BOOLEAN]
    <3>1. (Len(buffer[s]) > 1) \in BOOLEAN
      OBVIOUS
    <3> QED BY <1>1, <1>3, <3>1 DEF TypeOK
  <2> QED BY <1>1, <1>2, <1>3, <2>1 DEF TypeOK
<1>5. flushing'[s] \/ buffer'[s] = <<>>
  <2>1. buffer[s] \in Seq(Block) /\ buffer'[s] \in Seq(Block) /\ flushing \in [Side -> BOOLEAN]
    BY <1>1, <1>2 DEF TypeOK
  <2>2. flushing'[s] = (Len(buffer[s]) > 1)
    BY <1>3, <2>1
  <2>3. Len(buffer[s]) > 1 \/ Len(buffer'[s]) = 0
    <3> DEFINE n == Len(buffer[s])
               m == Len(buffer'[s])
    <3>1. n \in Nat /\ m \in Nat /\ m = n - 1
      BY <1>2, <2>1, LenProperties
    <3> HIDE DEF n, m
    <3>2. n > 1 \/ m = 0
      BY <3>1
    <3> QED BY <3>2 DEF n, m
  <2> QED BY <2>1, <2>2, <2>3, EmptySeq
<1>6. \A t \in Side \ {s} : flushing'[t] = flushing[t] /\ frames'[t] = frames[t]
  BY <1>1, <1>3 DEF TypeOK
<1>7. BufferOfHandler'
  BY <1>1, <1>2, <1>5, <1>6, OtherSideKept
<1> QED BY <1>4, <1>7 DEF RpcInv

LEMMA SpillStep ==
    ASSUME RpcInv, NEW s \in Side, Spill(s)
    PROVE  RpcInv'
<1>1. TypeOK /\ BufferOfHandler
  BY DEF RpcInv
<1>2. /\ pipe' \in [Side -> Seq(Block)]
      /\ \A t \in Side : Len(pipe'[t]) <= PipeSize
      /\ buffer' \in [Side -> Seq(Block)]
      /\ \A t \in Side \ {s} : buffer'[t] = buffer[t]
  BY <1>1, BlockWritten DEF Spill
<1>3. ~flushing[s] /\ buffer[s] # <<>> /\ UNCHANGED <<frames, flushing, fault>>
  BY DEF Spill, Running
<1>4. TypeOK'
  BY <1>1, <1>2, <1>3 DEF TypeOK
<1>5. frames'[s] # <<>> /\ Top(s)'.kind = "handler"
  BY <1>1, <1>3 DEF BufferOfHandler, HasTop, Top
<1>6. BufferOfHandler'
  BY <1>1, <1>2, <1>3, <1>5, OtherSideKept
<1> QED BY <1>4, <1>6 DEF RpcInv

LEMMA BrowserSteps ==
    ASSUME RpcInv, BrowserEnter \/ BrowserLeave
    PROVE  RpcInv'
<1>1. TypeOK /\ BufferOfHandler /\ "linux" \in Side
  BY DEF RpcInv, Side
<1>2. PICK q \in Seq(Frame) : /\ frames' = [frames EXCEPT !["linux"] = q]
                             /\ UNCHANGED <<buffer, flushing, pipe, fault>>
  <2>1. Entry \in Frame
    BY BudgetAssumption DEF Entry, Frame
  <2>2. <<Entry>> \in Seq(Frame) /\ <<>> \in Seq(Frame)
    BY <2>1, EmptySeq
  <2>3. CASE BrowserEnter
    BY <2>2, <2>3 DEF BrowserEnter
  <2>4. CASE BrowserLeave
    BY <2>2, <2>4 DEF BrowserLeave
  <2> QED BY <2>3, <2>4
<1>3. flushing["linux"] \/ buffer["linux"] = <<>>
  BY <1>1 DEF BrowserEnter, BrowserLeave, BufferOfHandler, HasTop
<1>4. /\ frames' \in [Side -> Seq(Frame)]
      /\ \A t \in Side \ {"linux"} : frames'[t] = frames[t]
  BY <1>1, <1>2 DEF TypeOK
<1>5. TypeOK'
  BY <1>1, <1>2, <1>4 DEF TypeOK
<1>6. BufferOfHandler'
  BY <1>1, <1>2, <1>3, <1>4, OtherSideKept
<1> QED BY <1>5, <1>6 DEF RpcInv

-----------------------------------------------------------------------------
\* The values readXXX takes from the Stack, and those it leaves there.
LEMMA PoppedAndBelow ==
    ASSUME NEW S, NEW values \in Seq(S), NEW n \in Nat, n <= Len(values)
    PROVE  Popped(values, n) \in Seq(S) /\ Below(values, n) \in Seq(S)
<1>1. Len(values) \in Nat /\ \A i \in 1 .. Len(values) : values[i] \in S
  BY LenProperties, ElementOfSeq
<1>2. \A i \in Len(values) - n + 1 .. Len(values) : values[i] \in S
  BY <1>1
<1>3. Popped(values, n) \in Seq(S)
  BY <1>1, <1>2, SubSeqProperties DEF Popped
<1>4. \A i \in 1 .. Len(values) - n : values[i] \in S
  BY <1>1
<1>5. Below(values, n) \in Seq(S)
  BY <1>1, <1>4, SubSeqProperties DEF Below
<1> QED BY <1>3, <1>5

\* What the cases of readCommands have in common: the stack of side s changes,
\* the block leaves the pipe, and a side that reads has written everything.
LEMMA ReadStep ==
    ASSUME RpcInv, NEW s \in Side, Blocked(s), pipe[Peer(s)] # <<>>, Consume(s),
           frames' \in [Side -> Seq(Frame)],
           \A t \in Side \ {s} : frames'[t] = frames[t]
    PROVE  RpcInv'
<1>1. TypeOK /\ BufferOfHandler /\ Peer(s) \in Side
  BY DEF RpcInv, Side, Peer
<1>2. UNCHANGED <<buffer, flushing, fault>> /\ pipe' = [pipe EXCEPT ![Peer(s)] = Tail(@)]
  BY DEF Consume
<1>3. /\ Tail(pipe[Peer(s)]) \in Seq(Block)
      /\ Len(Tail(pipe[Peer(s)])) = Len(pipe[Peer(s)]) - 1
      /\ Len(pipe[Peer(s)]) \in Nat
  BY <1>1, HeadTailProperties, LenProperties DEF TypeOK
<1>4. pipe' \in [Side -> Seq(Block)] /\ \A t \in Side : Len(pipe'[t]) <= PipeSize
  <2>1. /\ pipe \in [Side -> Seq(Block)] /\ PipeSize \in Nat
        /\ \A t \in Side : Len(pipe[t]) <= PipeSize
    BY <1>1, PipeSizeAssumption DEF TypeOK
  <2>2. Len(Tail(pipe[Peer(s)])) <= PipeSize
    BY <1>1, <1>3, <2>1
  <2> QED BY <1>1, <1>2, <1>3, <2>1, <2>2
<1>5. TypeOK'
  BY <1>1, <1>2, <1>4 DEF TypeOK
<1>6. buffer[s] = <<>>
  BY <1>1 DEF Blocked, BufferOfHandler, HasTop
<1>7. BufferOfHandler'
  BY <1>1, <1>2, <1>6, OtherSideKept
<1> QED BY <1>5, <1>7 DEF RpcInv

\* A DBG_ASSERT stops everything where it is.
LEMMA FailStep ==
    ASSUME RpcInv, NEW r \in {"no return value found", "wrong return value",
                              "BLOCKCMD_RETURN not allowed here"}, Fail(r)
    PROVE  RpcInv'
BY DEF RpcInv, TypeOK, BufferOfHandler, HasTop, Top, Fail

LEMMA ReceiveStep ==
    ASSUME RpcInv, NEW s \in Side, Receive(s)
    PROVE  RpcInv'
<1> DEFINE block == Head(pipe[Peer(s)])
<1>1. Blocked(s) /\ pipe[Peer(s)] # <<>>
  BY DEF Receive
<1>2. frames[s] # <<>> /\ Top(s).kind \in {"main", "call"}
  BY <1>1 DEF Blocked, HasTop
<1>3. TypeOK /\ Top(s) \in Frame /\ Top(s).values \in Seq(PushBlock)
  BY <1>2, TopIsAFrame, FrameKinds DEF RpcInv
<1>4. block \in Block
  <2>1. Peer(s) \in Side
    BY DEF Side, Peer
  <2> QED BY <1>1, <1>3, <2>1, HeadTailProperties DEF TypeOK
<1>5. \A v \in Seq(PushBlock) : [Top(s) EXCEPT !.values = v] \in Frame
  BY <1>2, <1>3, ChangedFrames
<1>6. \/ block.block = "push" /\ ReceivePush(s, block)
      \/ block.block = "call" /\ ReceiveCall(s, block)
      \/ block.block = "async" /\ ReceiveNotification(s)
      \/ block.block = "return" /\ ReceiveReturn(s)
  BY DEF Receive
<1>7. block.block = "push" => block \in PushBlock
  BY <1>4 DEF Block, Notification
<1>8. block.block = "call" => block.id \in Call
  BY <1>4 DEF Block, PushBlock, NotifyArg, Notification
<1> HIDE DEF block
<1>9. CASE block.block = "push" /\ ReceivePush(s, block)
  <2> DEFINE v == Append(Top(s).values, block)
  <2>1. v \in Seq(PushBlock)
    BY <1>3, <1>7, <1>9, AppendProperties
  <2>2. SetTop(s, <<[Top(s) EXCEPT !.values = v]>>) /\ Consume(s)
    BY <1>9 DEF ReceivePush
  <2> HIDE DEF v
  <2> QED BY <1>1, <1>2, <1>3, <1>5, <2>1, <2>2, SetTopOne, ReadStep
<1>10. CASE block.block = "call" /\ ReceiveCall(s, block)
  <2> DEFINE n == NumArgs[block.id]
             v == Below(Top(s).values, n)
             args == Popped(Top(s).values, n)
             q == <<[Top(s) EXCEPT !.values = v], Handler(block.id, args)>>
  <2>1. n \in Nat
    BY <1>8, <1>10, NumArgsAssumption
  <2>2. CASE Len(Top(s).values) < n
    BY <1>10, <2>2, FailStep DEF ReceiveCall
  <2>3. CASE ~(Len(Top(s).values) < n)
    <3>1. v \in Seq(PushBlock) /\ args \in Seq(PushBlock)
      <4>1. n <= Len(Top(s).values)
        BY <1>3, <2>1, <2>3, LenProperties
      <4> HIDE DEF n
      <4> QED BY <1>3, <2>1, <4>1, PoppedAndBelow
    <3>2. SetTop(s, q) /\ Consume(s)
      BY <1>10, <2>3 DEF ReceiveCall
    <3>3. Handler(block.id, args) \in Frame /\ [Top(s) EXCEPT !.values = v] \in Frame
      <4> HIDE DEF v, args
      <4> QED BY <1>5, <1>8, <1>10, <3>1, NewFrames
    <3>4. q \in Seq(Frame)
      <4> HIDE DEF v, args
      <4> QED BY <3>3
    <3> HIDE DEF q
    <3> QED BY <1>1, <1>2, <1>3, <3>2, <3>4, SetTopKeepsType, ReadStep
  <2> QED BY <2>2, <2>3
<1>11. CASE block.block = "async" /\ ReceiveNotification(s)
  <2> DEFINE v == Below(Top(s).values, 1)
  <2>1. CASE Top(s).values = <<>> \/ Last(Top(s).values) # NotifyArg
    BY <1>11, <2>1, FailStep DEF ReceiveNotification
  <2>2. CASE ~(Top(s).values = <<>> \/ Last(Top(s).values) # NotifyArg)
    <3>1. v \in Seq(PushBlock)
      <4>1. 1 <= Len(Top(s).values)
        BY <1>3, <2>2, LenProperties, EmptySeq
      <4> QED BY <1>3, <4>1, PoppedAndBelow
    <3>2. SetTop(s, <<[Top(s) EXCEPT !.values = v]>>) /\ Consume(s)
      BY <1>11, <2>2 DEF ReceiveNotification
    <3> HIDE DEF v
    <3> QED BY <1>1, <1>2, <1>3, <1>5, <3>1, <3>2, SetTopOne, ReadStep
  <2> QED BY <2>1, <2>2
<1>12. CASE block.block = "return" /\ ReceiveReturn(s)
  <2>1. CASE Fail("BLOCKCMD_RETURN not allowed here") \/ Fail("no return value found")
    BY <2>1, FailStep
  <2>2. CASE SetTop(s, <<>>) /\ Consume(s)
    BY <1>1, <1>2, <1>3, <2>2, EmptySeq, SetTopKeepsType, ReadStep
  <2> QED BY <1>12, <2>1, <2>2 DEF ReceiveReturn
<1> QED BY <1>6, <1>9, <1>10, <1>11, <1>12

-----------------------------------------------------------------------------
LEMMA RpcInvHolds == Spec => []RpcInv
<1>1. Init => RpcInv
  <2>1. Init => BufferOfHandler
    BY DEF Init, BufferOfHandler
  <2> QED BY <2>1, InitTyped DEF RpcInv
<1>2. RpcInv /\ [Next]_vars => RpcInv'
  <2> SUFFICES ASSUME RpcInv, [Next]_vars PROVE RpcInv'
    OBVIOUS
  <2>1. CASE UNCHANGED vars
    BY <2>1 DEF vars, RpcInv, TypeOK, BufferOfHandler, HasTop, Top
  <2>2. ASSUME NEW s \in Side, Proceed(s) PROVE RpcInv'
    BY <2>2, WriteResultStep, ReturnCommandStep, FinishHandlerStep, FlushStep,
       ReceiveStep DEF Proceed
  <2>3. CASE Environment
    BY <2>3, BrowserSteps, StartCallStep, NotifyStep, SpillStep DEF Environment
  <2> QED BY <2>1, <2>2, <2>3 DEF Next
<1> QED BY <1>1, <1>2, PTL DEF Spec

\* The two processes' stacks, buffers and pipes have the shape the code gives
\* them, with any calls, and no pipe holds more than it can take.
THEOREM TypeCorrect == Spec => []TypeOK
<1>1. RpcInv => TypeOK
  BY DEF RpcInv
<1> QED BY <1>1, RpcInvHolds, PTL

\* A thread never waits in readCommands for an answer to something it has not
\* flushed: the flush flag of BLOCKCMD_CALL_DIRECT and BLOCKCMD_RETURN is
\* enough, however many calls nest and however often the buffer spills.
THEOREM NothingIsHeldBack == Spec => []NothingHeldBack
<1>1. RpcInv => NothingHeldBack
  BY DEF RpcInv, BufferOfHandler, NothingHeldBack, Blocked, HasTop
<1> QED BY <1>1, RpcInvHolds, PTL

-----------------------------------------------------------------------------
(***************************************************************************)
(* The protocol needs no identity of a call: for any number of calls,      *)
(* arguments, results and nested handlers, and pipes of any size, the two  *)
(* threads take turns, every readXXX finds the value it wants, and both    *)
(* processes together do what one thread would (NestedCalls).              *)
(*                                                                         *)
(* The inductive invariant says who has the turn, and what is on its way   *)
(* then: only the side that has the turn, or has just handed it over, has  *)
(* written anything that is not read yet.                                  *)
(***************************************************************************)
Value        == [block : {"push"}, kind : {"arg", "result"}, id : Call, pos : Nat]
ControlBlock == [block : {"call", "return"}, id : Call]

LEMMA BlocksDiffer ==
    /\ \A b \in Value : b.block = "push" /\ b # NotifyArg /\ b # Notification /\ b \notin ControlBlock
    /\ NotifyArg.block = "push" /\ NotifyArg \notin ControlBlock /\ NotifyArg # Notification
    /\ Notification.block = "async" /\ Notification \notin ControlBlock
    /\ PushBlock = Value \cup {NotifyArg} /\ Block = PushBlock \cup ControlBlock \cup {Notification}
BY DEF Value, ControlBlock, NotifyArg, Notification, PushBlock, Block

\* The stream out holds what is left of the values of total, of which the
\* reader has taken n[0] to its Stack; at position j of the stream n[j] of them
\* have gone by.  A notification may come between two values, its argument may
\* be on the Stack already, and a call or a return ends the stream.
CarriesWith(n, stack, out, total) ==
    /\ n \in [0 .. Len(out) -> 0 .. Len(total)]
    /\ n[Len(out)] = Len(total)
    /\ \A j \in 1 .. Len(out) :
         \/ out[j] \in Value /\ n[j] = n[j - 1] + 1 /\ out[j] = total[n[j]]
         \/ out[j] = NotifyArg /\ n[j] = n[j - 1] /\ j < Len(out) /\ out[j + 1] = Notification
         \/ out[j] = Notification /\ n[j] = n[j - 1] /\ (j > 1 => out[j - 1] = NotifyArg)
         \/ out[j] \in ControlBlock /\ n[j] = n[j - 1] /\ j = Len(out)
    /\ stack = IF out # <<>> /\ out[1] = Notification
               THEN Append(SubSeq(total, 1, n[0]), NotifyArg) ELSE SubSeq(total, 1, n[0])

Carries(stack, out, total) == \E n : CarriesWith(n, stack, out, total)

NoControl(out) == \A j \in 1 .. Len(out) : out[j] \notin ControlBlock

-----------------------------------------------------------------------------
LEMMA PrefixProperties ==
    ASSUME NEW S, NEW q \in Seq(S), NEW k \in 0 .. Len(q)
    PROVE  /\ SubSeq(q, 1, k) \in Seq(S) /\ Len(SubSeq(q, 1, k)) = k
           /\ \A i \in 1 .. k : SubSeq(q, 1, k)[i] = q[i]
<1>1. Len(q) \in Nat /\ \A i \in 1 .. Len(q) : q[i] \in S
  BY LenProperties, ElementOfSeq
<1>2. \A i \in 1 .. k : q[i] \in S
  BY <1>1
<1> QED BY <1>1, <1>2, SubSeqProperties

LEMMA PrefixOfConcat ==
    ASSUME NEW S, NEW q \in Seq(S), NEW w \in Seq(S), NEW k \in 0 .. Len(q)
    PROVE  SubSeq(q \o w, 1, k) = SubSeq(q, 1, k)
<1>1. Len(q) \in Nat /\ Len(w) \in Nat
  BY LenProperties
<1>2. /\ q \o w \in Seq(S) /\ Len(q \o w) = Len(q) + Len(w)
      /\ \A i \in 1 .. Len(q) : (q \o w)[i] = q[i]
  BY <1>1, ConcatProperties
<1>3. k \in 0 .. Len(q \o w)
  BY <1>1, <1>2
<1>4. /\ SubSeq(q \o w, 1, k) \in Seq(S) /\ Len(SubSeq(q \o w, 1, k)) = k
      /\ \A i \in 1 .. k : SubSeq(q \o w, 1, k)[i] = (q \o w)[i]
  BY <1>2, <1>3, PrefixProperties
<1>5. /\ SubSeq(q, 1, k) \in Seq(S) /\ Len(SubSeq(q, 1, k)) = k
      /\ \A i \in 1 .. k : SubSeq(q, 1, k)[i] = q[i]
  BY PrefixProperties
<1>6. \A i \in 1 .. k : SubSeq(q \o w, 1, k)[i] = SubSeq(q, 1, k)[i]
  BY <1>1, <1>2, <1>4, <1>5
<1> QED BY <1>4, <1>5, <1>6, SeqEqual

\* Values are written behind the others.
LEMMA CarriesValues ==
    ASSUME NEW stack, NEW out \in Seq(Block), NEW total \in Seq(Value), NEW w \in Seq(Value),
           Carries(stack, out, total), NoControl(out)
    PROVE  /\ out \o w \in Seq(Block) /\ total \o w \in Seq(Value)
           /\ Carries(stack, out \o w, total \o w) /\ NoControl(out \o w)
<1> DEFINE O == out \o w
           T == total \o w
<1>1. PICK n : CarriesWith(n, stack, out, total)
  BY DEF Carries
<1> DEFINE m == [j \in 0 .. Len(out) + Len(w) |-> IF j <= Len(out) THEN n[j] ELSE Len(total) + (j - Len(out))]
<1>2. Len(out) \in Nat /\ Len(total) \in Nat /\ Len(w) \in Nat
  BY LenProperties
<1>3. w \in Seq(Block)
  BY SeqMonotonic, BlocksDiffer
<1>4. /\ O \in Seq(Block) /\ Len(O) = Len(out) + Len(w)
      /\ \A i \in 1 .. Len(O) : O[i] = IF i <= Len(out) THEN out[i] ELSE w[i - Len(out)]
  BY <1>3, ConcatProperties
<1>5. /\ T \in Seq(Value) /\ Len(T) = Len(total) + Len(w)
      /\ \A i \in 1 .. Len(T) : T[i] = IF i <= Len(total) THEN total[i] ELSE w[i - Len(total)]
  BY ConcatProperties
<1>6. \A i \in 1 .. Len(w) : w[i] \in Value
  BY ElementOfSeq
<1>7. n \in [0 .. Len(out) -> 0 .. Len(total)] /\ n[Len(out)] = Len(total)
  BY <1>1 DEF CarriesWith
<1> HIDE DEF O, T
<1>8. m \in [0 .. Len(O) -> 0 .. Len(T)] /\ m[Len(O)] = Len(T)
  BY <1>2, <1>4, <1>5, <1>7
<1>15. \A i \in 0 .. Len(O) : m[i] = IF i <= Len(out) THEN n[i] ELSE Len(total) + (i - Len(out))
  BY <1>4
<1> HIDE DEF m
<1>9. ASSUME NEW j \in 1 .. Len(O)
      PROVE  \/ O[j] \in Value /\ m[j] = m[j - 1] + 1 /\ O[j] = T[m[j]]
             \/ O[j] = NotifyArg /\ m[j] = m[j - 1] /\ j < Len(O) /\ O[j + 1] = Notification
             \/ O[j] = Notification /\ m[j] = m[j - 1] /\ (j > 1 => O[j - 1] = NotifyArg)
  <2>3. /\ j \in Nat /\ j - 1 \in 0 .. Len(O) /\ j \in 0 .. Len(O)
        /\ j <= Len(out) => j \in 1 .. Len(out) /\ j \in 0 .. Len(out) /\ j - 1 \in 0 .. Len(out)
    BY <1>2, <1>4
  <2>1. CASE j <= Len(out)
    <3>1. /\ m[j] = n[j] /\ m[j - 1] = n[j - 1] /\ O[j] = out[j]
          /\ j < Len(out) => O[j + 1] = out[j + 1]
          /\ j > 1 => O[j - 1] = out[j - 1]
      <4>1. m[j] = n[j] /\ m[j - 1] = n[j - 1] /\ O[j] = out[j]
        BY <1>2, <1>4, <1>15, <2>1, <2>3
      <4>2. j < Len(out) => O[j + 1] = out[j + 1]
        BY <1>2, <1>4, <2>3
      <4>3. j > 1 => O[j - 1] = out[j - 1]
        BY <1>2, <1>4, <2>1, <2>3
      <4> QED BY <4>1, <4>2, <4>3
    <3>5. n[j] \in 0 .. Len(total) /\ (n[j] > 0 => T[n[j]] = total[n[j]])
      <4>1. n[j] \in 0 .. Len(total)
        BY <1>7, <2>1, <2>3
      <4>2. n[j] > 0 => n[j] \in 1 .. Len(T) /\ n[j] <= Len(total)
        BY <1>2, <1>5, <4>1
      <4> QED BY <1>5, <4>1, <4>2
    <3>2. out[j] \notin ControlBlock /\ j \in 1 .. Len(out)
      BY <1>2, <2>1 DEF NoControl
    <3>3. \/ out[j] \in Value /\ n[j] = n[j - 1] + 1 /\ out[j] = total[n[j]]
          \/ out[j] = NotifyArg /\ n[j] = n[j - 1] /\ j < Len(out) /\ out[j + 1] = Notification
          \/ out[j] = Notification /\ n[j] = n[j - 1] /\ (j > 1 => out[j - 1] = NotifyArg)
      BY <1>1, <3>2 DEF CarriesWith
    <3>4. n[j - 1] \in Nat /\ Len(out) <= Len(O)
      BY <1>2, <1>4, <1>7, <2>1, <2>3
    <3>6. CASE out[j] \in Value /\ n[j] = n[j - 1] + 1 /\ out[j] = total[n[j]]
      <4>1. n[j] > 0
        BY <3>4, <3>6
      <4> QED BY <3>1, <3>5, <3>6, <4>1
    <3>7. CASE out[j] = NotifyArg /\ n[j] = n[j - 1] /\ j < Len(out) /\ out[j + 1] = Notification
      <4>1. j < Len(O)
        BY <1>2, <1>4, <2>3, <3>7
      <4> QED BY <3>1, <3>7, <4>1
    <3>8. CASE out[j] = Notification /\ n[j] = n[j - 1] /\ (j > 1 => out[j - 1] = NotifyArg)
      BY <3>1, <3>8
    <3> QED BY <3>3, <3>6, <3>7, <3>8
  <2>2. CASE ~(j <= Len(out))
    <3>1. /\ m[j] = Len(total) + (j - Len(out)) /\ O[j] = w[j - Len(out)]
          /\ j - Len(out) \in 1 .. Len(w)
      BY <1>2, <1>4, <1>15, <2>2, <2>3
    <3>2. m[j - 1] = Len(total) + (j - 1 - Len(out))
      <4>1. CASE j - 1 = Len(out)
        BY <1>2, <1>7, <1>15, <2>3, <4>1
      <4>2. CASE j - 1 # Len(out)
        BY <1>2, <1>15, <2>2, <2>3, <4>2
      <4> QED BY <4>1, <4>2
    <3>3. T[m[j]] = w[j - Len(out)]
      <4>1. /\ m[j] \in 1 .. Len(T) /\ ~(m[j] <= Len(total))
            /\ m[j] - Len(total) = j - Len(out)
        BY <1>2, <1>5, <2>3, <3>1
      <4> QED BY <1>5, <4>1
    <3> QED BY <1>2, <1>6, <3>1, <3>2, <3>3
  <2> QED BY <2>1, <2>2
<1>10. NoControl(O)
  BY <1>9, BlocksDiffer DEF NoControl
<1>11. SubSeq(T, 1, m[0]) = SubSeq(total, 1, n[0]) /\ m[0] = n[0]
  BY <1>2, <1>4, <1>7, <1>15, PrefixOfConcat DEF T
<1>12. (O # <<>> /\ O[1] = Notification) = (out # <<>> /\ out[1] = Notification)
  <2>1. CASE out = <<>>
    <3>1. Len(out) = 0
      BY <2>1
    <3>2. O # <<>> => O[1] \in Value
      BY <1>2, <1>4, <1>6, <3>1, EmptySeq
    <3> QED BY <2>1, <3>2, BlocksDiffer
  <2>2. CASE out # <<>>
    <3>1. Len(out) > 0
      BY <1>2, <2>2, EmptySeq
    <3>2. O # <<>> /\ O[1] = out[1]
      BY <1>2, <1>4, <3>1
    <3> QED BY <2>2, <3>2
  <2> QED BY <2>1, <2>2
<1>13. stack = IF O # <<>> /\ O[1] = Notification
               THEN Append(SubSeq(T, 1, m[0]), NotifyArg) ELSE SubSeq(T, 1, m[0])
  BY <1>1, <1>11, <1>12 DEF CarriesWith
<1>14. CarriesWith(m, stack, O, T)
  <2> QED BY <1>8, <1>9, <1>13 DEF CarriesWith
<1> QED BY <1>4, <1>5, <1>10, <1>14 DEF Carries, O, T

\* A notification, or the block that hands the turn over, is written.
LEMMA CarriesOther ==
    ASSUME NEW stack, NEW out \in Seq(Block), NEW total \in Seq(Value), NEW w \in Seq(Block),
           Carries(stack, out, total), NoControl(out),
           w = <<NotifyArg, Notification>> \/ \E b \in ControlBlock : w = <<b>>
    PROVE  Carries(stack, out \o w, total)
<1> DEFINE O == out \o w
<1>1. PICK n : CarriesWith(n, stack, out, total)
  BY DEF Carries
<1> DEFINE m == [j \in 0 .. Len(out) + Len(w) |-> IF j <= Len(out) THEN n[j] ELSE Len(total)]
<1>2. Len(out) \in Nat /\ Len(total) \in Nat /\ Len(w) \in {1, 2}
  BY LenProperties
<1>4. /\ O \in Seq(Block) /\ Len(O) = Len(out) + Len(w)
      /\ \A i \in 1 .. Len(O) : O[i] = IF i <= Len(out) THEN out[i] ELSE w[i - Len(out)]
  BY ConcatProperties
<1>5. Len(O) \in Nat /\ Len(out) < Len(O)
  <2>1. Len(O) = Len(out) + Len(w)
    BY <1>4
  <2>2. ASSUME NEW k \in Nat, NEW l \in {1, 2} PROVE k + l \in Nat /\ k < k + l
    OBVIOUS
  <2> QED BY <1>2, <2>1, <2>2
<1>7. n \in [0 .. Len(out) -> 0 .. Len(total)] /\ n[Len(out)] = Len(total)
  BY <1>1 DEF CarriesWith
<1> HIDE DEF O
<1>8. m \in [0 .. Len(O) -> 0 .. Len(total)] /\ m[Len(O)] = Len(total)
  BY <1>2, <1>4, <1>7
<1>15. \A i \in 0 .. Len(O) : m[i] = IF i <= Len(out) THEN n[i] ELSE Len(total)
  BY <1>4
<1> HIDE DEF m
<1>9. ASSUME NEW j \in 1 .. Len(O)
      PROVE  \/ O[j] \in Value /\ m[j] = m[j - 1] + 1 /\ O[j] = total[m[j]]
             \/ O[j] = NotifyArg /\ m[j] = m[j - 1] /\ j < Len(O) /\ O[j + 1] = Notification
             \/ O[j] = Notification /\ m[j] = m[j - 1] /\ (j > 1 => O[j - 1] = NotifyArg)
             \/ O[j] \in ControlBlock /\ m[j] = m[j - 1] /\ j = Len(O)
  <2>3. /\ j \in Nat /\ j - 1 \in 0 .. Len(O) /\ j \in 0 .. Len(O)
        /\ j <= Len(out) => j \in 1 .. Len(out) /\ j \in 0 .. Len(out) /\ j - 1 \in 0 .. Len(out)
    BY <1>2, <1>4
  <2>1. CASE j <= Len(out)
    <3>1. /\ m[j] = n[j] /\ m[j - 1] = n[j - 1] /\ O[j] = out[j]
          /\ j < Len(out) => j < Len(O) /\ O[j + 1] = out[j + 1]
          /\ j > 1 => O[j - 1] = out[j - 1]
      <4>1. m[j] = n[j] /\ m[j - 1] = n[j - 1] /\ O[j] = out[j]
        BY <1>4, <1>15, <2>1, <2>3
      <4>2. j < Len(out) => j < Len(O) /\ O[j + 1] = out[j + 1]
        <5>1. j < Len(out) => j < Len(O) /\ j + 1 <= Len(out) /\ j + 1 \in 1 .. Len(O)
          BY <1>2, <1>5, <2>3
        <5> QED BY <1>4, <5>1
      <4>3. j > 1 => O[j - 1] = out[j - 1]
        BY <1>2, <1>4, <2>1, <2>3
      <4> QED BY <4>1, <4>2, <4>3
    <3>2. out[j] \notin ControlBlock
      BY <2>1, <2>3 DEF NoControl
    <3>3. \/ out[j] \in Value /\ n[j] = n[j - 1] + 1 /\ out[j] = total[n[j]]
          \/ out[j] = NotifyArg /\ n[j] = n[j - 1] /\ j < Len(out) /\ out[j + 1] = Notification
          \/ out[j] = Notification /\ n[j] = n[j - 1] /\ (j > 1 => out[j - 1] = NotifyArg)
      BY <1>1, <2>1, <2>3, <3>2 DEF CarriesWith
    <3> QED BY <3>1, <3>3
  <2>2. CASE ~(j <= Len(out))
    <3>1. m[j] = Len(total) /\ m[j - 1] = Len(total)
      <4>1. m[j] = Len(total)
        BY <1>15, <2>2, <2>3
      <4>2. CASE j - 1 = Len(out)
        BY <1>2, <1>7, <1>15, <2>3, <4>2
      <4>3. CASE j - 1 # Len(out)
        BY <1>2, <1>15, <2>2, <2>3, <4>3
      <4> QED BY <4>1, <4>2, <4>3
    <3>2. O[j] = w[j - Len(out)]
      BY <1>4, <2>2
    <3>3. CASE w = <<NotifyArg, Notification>>
      <4>1. Len(w) = 2 /\ w[1] = NotifyArg /\ w[2] = Notification
        BY <3>3
      <4>2. CASE j = Len(out) + 1
        <5>1. Len(O) = Len(out) + 2 /\ j - Len(out) = 1
          BY <1>2, <1>4, <4>1, <4>2
        <5>3. j < Len(O) /\ j + 1 \in 1 .. Len(O) /\ ~(j + 1 <= Len(out)) /\ j + 1 - Len(out) = 2
          BY <1>2, <2>3, <4>2, <5>1
        <5>2. O[j + 1] = w[2]
          <6>1. O[j + 1] = w[j + 1 - Len(out)]
            BY <1>4, <5>3
          <6> QED BY <5>3, <6>1
        <5> QED BY <3>1, <3>2, <4>1, <5>1, <5>2, <5>3
      <4>3. CASE j # Len(out) + 1
        <5>1. j = Len(out) + 2
          BY <1>2, <1>4, <2>2, <2>3, <4>1, <4>3
        <5>2. j - Len(out) = 2 /\ j - 1 - Len(out) = 1 /\ j - 1 \in 1 .. Len(O) /\ ~(j - 1 <= Len(out))
          BY <1>2, <1>4, <4>1, <5>1
        <5>3. O[j - 1] = w[1]
          BY <1>4, <5>2
        <5> QED BY <3>1, <3>2, <4>1, <5>2, <5>3
      <4> QED BY <4>2, <4>3
    <3>4. CASE \E b \in ControlBlock : w = <<b>>
      <4>1. Len(w) = 1 /\ w[1] \in ControlBlock
        BY <3>4
      <4>2. j = Len(O) /\ j - Len(out) = 1
        BY <1>2, <1>4, <2>2, <2>3, <4>1
      <4> QED BY <3>1, <3>2, <4>1, <4>2
    <3> QED BY <3>3, <3>4
  <2> QED BY <2>1, <2>2
<1>11. m[0] = n[0]
  BY <1>2, <1>4, <1>15
<1>12. (O # <<>> /\ O[1] = Notification) = (out # <<>> /\ out[1] = Notification)
  <2>1. CASE out = <<>>
    <3>1. Len(out) = 0 /\ O[1] = w[1]
      BY <1>2, <1>4, <2>1
    <3>2. w[1] # Notification
      <4>1. CASE w = <<NotifyArg, Notification>>
        <5>1. w[1] = NotifyArg
          BY <4>1
        <5> QED BY <5>1, BlocksDiffer
      <4>2. CASE \E b \in ControlBlock : w = <<b>>
        <5>1. w[1] \in ControlBlock
          BY <4>2
        <5> QED BY <5>1, BlocksDiffer
      <4> QED BY <4>1, <4>2
    <3> QED BY <2>1, <3>1, <3>2
  <2>2. CASE out # <<>>
    <3>1. Len(out) > 0
      BY <1>2, <2>2, EmptySeq
    <3>2. O # <<>> /\ O[1] = out[1]
      BY <1>2, <1>4, <3>1
    <3> QED BY <2>2, <3>2
  <2> QED BY <2>1, <2>2
<1>13. stack = IF O # <<>> /\ O[1] = Notification
               THEN Append(SubSeq(total, 1, m[0]), NotifyArg) ELSE SubSeq(total, 1, m[0])
  BY <1>1, <1>11, <1>12 DEF CarriesWith
<1>14. CarriesWith(m, stack, O, total)
  BY <1>8, <1>9, <1>13 DEF CarriesWith
<1> QED BY <1>14 DEF Carries, O

\* What readCommands finds at the head of the stream, and what is left.
LEMMA CarriesRead ==
    ASSUME NEW stack, NEW out \in Seq(Block), NEW total \in Seq(Value),
           Carries(stack, out, total), out # <<>>
    PROVE  /\ Head(out) \in PushBlock => Carries(Append(stack, Head(out)), Tail(out), total)
           /\ Head(out) = Notification =>
                /\ stack \in Seq(PushBlock) /\ stack # <<>> /\ stack[Len(stack)] = NotifyArg
                /\ Carries(SubSeq(stack, 1, Len(stack) - 1), Tail(out), total)
           /\ Head(out) \in ControlBlock => Len(out) = 1 /\ stack = total
<1> DEFINE R == Tail(out)
<1>1. PICK n : CarriesWith(n, stack, out, total)
  BY DEF Carries
<1> DEFINE m == [j \in 0 .. Len(R) |-> n[j + 1]]
           P == SubSeq(total, 1, n[0])
<1>2. Len(out) \in Nat /\ Len(out) > 0 /\ Len(total) \in Nat
  BY LenProperties, EmptySeq
<1>3. /\ R \in Seq(Block) /\ Len(R) = Len(out) - 1 /\ Len(R) \in Nat
      /\ \A i \in 1 .. Len(R) : R[i] = out[i + 1]
      /\ Head(out) = out[1]
  BY <1>2, HeadTailProperties
<1>4. /\ n \in [0 .. Len(out) -> 0 .. Len(total)] /\ n[Len(out)] = Len(total)
      /\ n[0] \in 0 .. Len(total) /\ n[1] \in 0 .. Len(total)
  <2>1. n \in [0 .. Len(out) -> 0 .. Len(total)] /\ n[Len(out)] = Len(total)
    BY <1>1 DEF CarriesWith
  <2>2. 0 \in 0 .. Len(out) /\ 1 \in 0 .. Len(out)
    BY <1>2
  <2> QED BY <2>1, <2>2
<1>5. \A j \in 1 .. Len(out) :
         \/ out[j] \in Value /\ n[j] = n[j - 1] + 1 /\ out[j] = total[n[j]]
         \/ out[j] = NotifyArg /\ n[j] = n[j - 1] /\ j < Len(out) /\ out[j + 1] = Notification
         \/ out[j] = Notification /\ n[j] = n[j - 1] /\ (j > 1 => out[j - 1] = NotifyArg)
         \/ out[j] \in ControlBlock /\ n[j] = n[j - 1] /\ j = Len(out)
  BY <1>1 DEF CarriesWith
<1>6. 1 \in 1 .. Len(out) /\ 1 - 1 = 0 /\ 1 + 1 = 2 /\ (1 < Len(out) => 2 \in 1 .. Len(out))
  BY <1>2
<1>7. stack = IF out[1] = Notification THEN Append(P, NotifyArg) ELSE P
  BY <1>1 DEF CarriesWith
<1>8. /\ P \in Seq(Value) /\ P \in Seq(PushBlock) /\ Len(P) = n[0]
      /\ \A i \in 1 .. n[0] : P[i] = total[i]
  <2>1. P \in Seq(Value) /\ Len(P) = n[0] /\ \A i \in 1 .. n[0] : P[i] = total[i]
    BY <1>4, PrefixProperties
  <2>2. Value \subseteq PushBlock
    BY BlocksDiffer
  <2> QED BY <2>1, <2>2, SeqMonotonic
<1> HIDE DEF R, P
<1>9. m \in [0 .. Len(R) -> 0 .. Len(total)] /\ m[Len(R)] = Len(total) /\ m[0] = n[1]
      /\ \A j \in 0 .. Len(R) : m[j] = n[j + 1]
  <2>1. \A j \in 0 .. Len(R) : j + 1 \in 0 .. Len(out)
    BY <1>2, <1>3
  <2>2. Len(R) + 1 = Len(out) /\ 0 \in 0 .. Len(R) /\ Len(R) \in 0 .. Len(R)
    BY <1>2, <1>3
  <2> QED BY <1>4, <2>1, <2>2
<1> HIDE DEF m
<1>10. ASSUME NEW j \in 1 .. Len(R)
       PROVE  \/ R[j] \in Value /\ m[j] = m[j - 1] + 1 /\ R[j] = total[m[j]]
              \/ R[j] = NotifyArg /\ m[j] = m[j - 1] /\ j < Len(R) /\ R[j + 1] = Notification
              \/ R[j] = Notification /\ m[j] = m[j - 1] /\ (j > 1 => R[j - 1] = NotifyArg)
              \/ R[j] \in ControlBlock /\ m[j] = m[j - 1] /\ j = Len(R)
  <2>1. /\ j + 1 \in 1 .. Len(out) /\ j \in 0 .. Len(R) /\ j - 1 \in 0 .. Len(R) /\ j + 1 > 1
        /\ j + 1 - 1 = j /\ j - 1 + 1 = j
        /\ j + 1 < Len(out) => j < Len(R) /\ j + 1 \in 1 .. Len(R)
        /\ j + 1 = Len(out) => j = Len(R)
        /\ j > 1 => j - 1 \in 1 .. Len(R)
    BY <1>2, <1>3
  <2>2. /\ m[j] = n[j + 1] /\ m[j - 1] = n[j] /\ R[j] = out[j + 1]
        /\ j + 1 < Len(out) => R[j + 1] = out[j + 1 + 1]
        /\ j > 1 => R[j - 1] = out[j]
    BY <1>3, <1>9, <2>1
  <2>3. \/ out[j + 1] \in Value /\ n[j + 1] = n[j] + 1 /\ out[j + 1] = total[n[j + 1]]
        \/ out[j + 1] = NotifyArg /\ n[j + 1] = n[j] /\ j + 1 < Len(out) /\ out[j + 1 + 1] = Notification
        \/ out[j + 1] = Notification /\ n[j + 1] = n[j] /\ out[j] = NotifyArg
        \/ out[j + 1] \in ControlBlock /\ n[j + 1] = n[j] /\ j + 1 = Len(out)
    BY <1>5, <2>1
  <2> QED BY <2>1, <2>2, <2>3
<1>11. R # <<>> /\ R[1] = Notification <=> 1 < Len(out) /\ out[2] = Notification
  <2>1. R # <<>> <=> 1 < Len(out)
    <3>1. R # <<>> => Len(R) # 0
      BY <1>3, EmptySeq
    <3>2. R = <<>> => Len(R) = 0
      OBVIOUS
    <3> QED BY <1>2, <1>3, <3>1, <3>2
  <2>2. 1 < Len(out) => R[1] = out[2]
    BY <1>2, <1>3
  <2> QED BY <2>1, <2>2
<1>12. 1 < Len(out) /\ out[2] = Notification => out[1] = NotifyArg
  BY <1>5, <1>6, BlocksDiffer
<1>13. ASSUME NEW v, v = IF R # <<>> /\ R[1] = Notification
                         THEN Append(SubSeq(total, 1, n[1]), NotifyArg) ELSE SubSeq(total, 1, n[1])
       PROVE  Carries(v, R, total)
  <2>1. CarriesWith(m, v, R, total)
    BY <1>9, <1>10, <1>13 DEF CarriesWith
  <2> QED BY <2>1 DEF Carries
<1>14. CASE out[1] \in Value
  <2>1. out[1] # Notification /\ out[1] # NotifyArg /\ out[1] \in PushBlock /\ out[1] \notin ControlBlock
    BY <1>14, BlocksDiffer
  <2>2. n[1] = n[0] + 1 /\ out[1] = total[n[1]]
    BY <1>5, <1>6, <2>1
  <2>3. SubSeq(total, 1, n[1]) = Append(P, out[1])
    <3> DEFINE Q == SubSeq(total, 1, n[1])
    <3>1. Q \in Seq(Value) /\ Len(Q) = n[1] /\ \A i \in 1 .. n[1] : Q[i] = total[i]
      BY <1>4, PrefixProperties
    <3>2. /\ Append(P, out[1]) \in Seq(Value) /\ Len(Append(P, out[1])) = n[0] + 1
          /\ \A i \in 1 .. n[0] + 1 : Append(P, out[1])[i] = IF i <= n[0] THEN P[i] ELSE out[1]
      BY <1>4, <1>8, <1>14, AppendProperties
    <3> HIDE DEF Q
    <3>3. \A i \in 1 .. n[1] : Q[i] = Append(P, out[1])[i]
      BY <1>4, <1>8, <2>2, <3>1, <3>2
    <3>4. Len(Q) = Len(Append(P, out[1]))
      BY <2>2, <3>1, <3>2
    <3>5. Q = Append(P, out[1])
      BY <3>1, <3>2, <3>3, <3>4, SeqEqual, SMTT(60)
    <3> QED BY <3>5 DEF Q
  <2>4. Carries(Append(stack, out[1]), R, total)
    BY <1>7, <1>11, <1>12, <1>13, <2>1, <2>3
  <2> QED BY <1>3, <2>1, <2>4 DEF R
<1>15. CASE out[1] = NotifyArg
  <2>1. out[1] # Notification /\ out[1] \notin ControlBlock
    BY <1>15, BlocksDiffer
  <2>2. n[1] = n[0] /\ 1 < Len(out) /\ out[2] = Notification
    BY <1>5, <1>6, <1>15, BlocksDiffer
  <2>3. Carries(Append(stack, out[1]), R, total)
    BY <1>7, <1>11, <1>13, <1>15, <2>1, <2>2 DEF P
  <2> QED BY <1>3, <2>1, <2>3 DEF R
<1>16. CASE out[1] = Notification
  <2>1. out[1] \notin ControlBlock /\ out[1] \notin PushBlock
    BY <1>16, BlocksDiffer
  <2>2. n[1] = n[0]
    BY <1>5, <1>6, <1>16, BlocksDiffer
  <2>3. stack = Append(P, NotifyArg) /\ NotifyArg \in PushBlock
    BY <1>7, <1>16, BlocksDiffer
  <2>4. /\ stack \in Seq(PushBlock) /\ Len(stack) = n[0] + 1 /\ stack[n[0] + 1] = NotifyArg
        /\ \A i \in 1 .. n[0] : stack[i] = P[i]
    BY <1>4, <1>8, <2>3, AppendProperties
  <2>5. SubSeq(stack, 1, Len(stack) - 1) = P
    <3>1. Len(stack) - 1 = n[0] /\ n[0] \in 0 .. Len(stack)
      BY <1>4, <2>4
    <3>2. /\ SubSeq(stack, 1, n[0]) \in Seq(PushBlock) /\ Len(SubSeq(stack, 1, n[0])) = n[0]
          /\ \A i \in 1 .. n[0] : SubSeq(stack, 1, n[0])[i] = stack[i]
      BY <2>4, <3>1, PrefixProperties
    <3> QED BY <1>8, <2>4, <3>1, <3>2, SeqEqual
  <2>6. Carries(P, R, total)
    BY <1>11, <1>12, <1>13, <1>16, <2>2, BlocksDiffer DEF P
  <2>7. stack # <<>>
    BY <1>4, <2>4
  <2> QED BY <1>3, <2>1, <2>3, <2>4, <2>5, <2>6, <2>7 DEF R
<1>17. CASE out[1] \in ControlBlock
  <2>1. out[1] # Notification /\ out[1] \notin PushBlock
    BY <1>17, BlocksDiffer
  <2>2. Len(out) = 1 /\ n[1] = n[0]
    BY <1>5, <1>6, <1>17, BlocksDiffer
  <2>3. P = total
    BY <1>4, <2>2, SubSeqFull DEF P
  <2> QED BY <1>3, <1>7, <2>1, <2>2, <2>3
<1> QED BY <1>5, <1>6, <1>14, <1>15, <1>16, <1>17

\* Nothing is on its way.
LEMMA CarriesNothing ==
    ASSUME NEW total \in Seq(Value)
    PROVE  Carries(total, <<>>, total)
<1> DEFINE n == [j \in 0 .. 0 |-> Len(total)]
<1>1. Len(total) \in Nat /\ Len(<<>>) = 0 /\ SubSeq(total, 1, Len(total)) = total
  BY LenProperties, SubSeqFull
<1>2. n \in [0 .. Len(<<>>) -> 0 .. Len(total)] /\ n[Len(<<>>)] = Len(total) /\ n[0] = Len(total)
  BY <1>1
<1> HIDE DEF n
<1>3. CarriesWith(n, total, <<>>, total)
  BY <1>1, <1>2 DEF CarriesWith
<1> QED BY <1>3 DEF Carries

-----------------------------------------------------------------------------
(***************************************************************************)
(* Two stacks of activations, q of the side that has the turn or has just  *)
(* handed it over, and r of its peer.  The activations at the same height  *)
(* belong to the same call.                                                *)
(***************************************************************************)
Nests(f, g) == \/ f.kind \in {"entry", "handler"} /\ g.kind = "call"
               \/ f.kind \in {"main", "call"} /\ g.kind \in {"handler", "returned"}

Height(q) == IF q # <<>> /\ q[Len(q)].kind = "returned" THEN Len(q) - 1 ELSE Len(q)

\* The results a handler has written.
Written(f) == IF f.kind = "handler" THEN SubSeq(Results(f.id), 1, f.written) ELSE <<>>

GoodFrame(f) ==
    f \in Frame /\ (f.kind = "handler" => f.args = Args(f.id) /\ f.written \in 0 .. NumResults[f.id])

GoodStack(q) ==
    /\ q \in Seq(Frame)
    /\ q # <<>> => q[1].kind \in {"entry", "main"}
    /\ \A i \in 2 .. Len(q) : Nests(q[i - 1], q[i])
    /\ \A i \in 1 .. Len(q) : GoodFrame(q[i])

SameCall(f, g) == /\ f.id = g.id
                  /\ f.kind = "call" <=> g.kind = "handler"
                  /\ f.kind = "handler" <=> g.kind = "call"

Matched(q, r) == \A i \in 2 .. Height(q) : i <= Height(r) => SameCall(q[i], r[i])

\* A readCommands that waits behind a nested call has on its Stack what the
\* handler of its own call has written until now.
Settled(q, r) ==
    \A i \in 1 .. Height(q) - 1 :
        q[i].kind \in {"main", "call"} => i <= Len(r) /\ q[i].values = Written(r[i])

Pair(q, r) == GoodStack(q) /\ GoodStack(r) /\ Matched(q, r) /\ Settled(q, r) /\ Settled(r, q)

LEMMA PairSymmetric == \A q, r : Pair(q, r) => Pair(r, q)
<1> SUFFICES ASSUME NEW q, NEW r, Pair(q, r) PROVE Matched(r, q)
  BY DEF Pair
<1>1. Height(q) \in Int /\ Height(r) \in Int
  BY DEF Pair, GoodStack, Height
<1> QED BY <1>1 DEF Pair, Matched, SameCall

LEMMA Heights ==
    ASSUME NEW q, GoodStack(q)
    PROVE  /\ Len(q) \in Nat /\ Height(q) \in 0 .. Len(q)
           /\ q # <<>> => Len(q) > 0 /\ Height(q) > 0
           /\ \A i \in 1 .. Len(q) : q[i] \in Frame /\ GoodFrame(q[i])
           /\ \A i \in 1 .. Len(q) - 1 : Nests(q[i], q[i + 1]) /\ q[i].kind # "returned"
           /\ q # <<>> /\ q[Len(q)].kind = "returned" => Len(q) > 1 /\ Height(q) = Len(q) - 1
           /\ q # <<>> /\ q[Len(q)].kind # "returned" => Height(q) = Len(q)
<1>1. Len(q) \in Nat /\ (q # <<>> => Len(q) > 0) /\ \A i \in 1 .. Len(q) : q[i] \in Frame /\ GoodFrame(q[i])
  BY LenProperties, EmptySeq, ElementOfSeq DEF GoodStack
<1>2. \A i \in 1 .. Len(q) - 1 : Nests(q[i], q[i + 1]) /\ q[i].kind # "returned"
  <2>1. ASSUME NEW i \in 1 .. Len(q) - 1 PROVE Nests(q[i], q[i + 1])
    <3>1. i + 1 \in 2 .. Len(q) /\ i + 1 - 1 = i
      BY <1>1
    <3> QED BY <3>1 DEF GoodStack
  <2> QED BY <2>1 DEF Nests
<1>3. q # <<>> /\ q[Len(q)].kind = "returned" => Len(q) > 1
  <2>1. ASSUME q # <<>>, q[Len(q)].kind = "returned" PROVE Len(q) # 1
    BY <2>1 DEF GoodStack
  <2>2. ASSUME NEW k \in Nat, k > 0, k # 1 PROVE k > 1
    BY <2>2
  <2> QED BY <1>1, <2>1, <2>2
<1>4. Height(q) \in 0 .. Len(q) /\ (q # <<>> => Height(q) > 0)
  BY <1>1, <1>3, EmptySeq DEF Height
<1> QED BY <1>1, <1>2, <1>3, <1>4 DEF Height

\* The innermost activation is replaced by another one of the same call.
Replaced(q, p, g) ==
    p \in Seq(Frame) /\ Len(p) = Len(q) /\ p[Len(q)] = g /\ \A i \in 1 .. Len(q) - 1 : p[i] = q[i]

LEMMA ReplacePair ==
    ASSUME NEW q, NEW r, NEW p, NEW g, Pair(q, r), q # <<>>, Replaced(q, p, g), GoodFrame(g),
           g.kind = q[Len(q)].kind, g.kind \in {"call", "handler"} => g.id = q[Len(q)].id,
           g.kind = "handler" => Height(r) <= Len(q), g.kind # "returned"
    PROVE  Pair(p, r) /\ Height(p) = Height(q) /\ p # <<>> /\ Height(q) = Len(q)
<1>1. GoodStack(q) /\ GoodStack(r)
  BY DEF Pair
<1>2. Len(q) \in Nat /\ Len(q) > 0 /\ Height(q) = Len(q)
  BY <1>1, Heights
<1>3. Len(r) \in Nat /\ Height(r) \in 0 .. Len(r)
  BY <1>1, Heights
<1>4. /\ p \in Seq(Frame) /\ Len(p) = Len(q) /\ p[Len(p)] = g /\ p # <<>>
      /\ \A i \in 1 .. Len(q) : i # Len(q) => p[i] = q[i]
  BY <1>2 DEF Replaced
<1>5. Height(p) = Len(p)
  BY <1>4 DEF Height
<1>6. \A i \in 1 .. Len(q) : /\ p[i].kind = q[i].kind
                             /\ p[i].kind \in {"call", "handler"} => p[i].id = q[i].id
                             /\ GoodFrame(p[i])
  BY <1>1, <1>2, <1>4, Heights
<1>7. GoodStack(p)
  <2>1. p[1].kind \in {"entry", "main"}
    BY <1>1, <1>2, <1>6 DEF GoodStack
  <2>2. ASSUME NEW i \in 2 .. Len(p) PROVE Nests(p[i - 1], p[i])
    <3>1. i \in 1 .. Len(q) /\ i - 1 \in 1 .. Len(q) /\ i \in 2 .. Len(q)
      BY <1>2, <1>4
    <3>2. Nests(q[i - 1], q[i])
      BY <1>1, <3>1 DEF GoodStack
    <3> QED BY <1>6, <3>1, <3>2 DEF Nests
  <2> QED BY <1>4, <1>6, <2>1, <2>2 DEF GoodStack
<1>8. Matched(p, r)
  <2> SUFFICES ASSUME NEW i \in 2 .. Height(p), i <= Height(r) PROVE SameCall(p[i], r[i])
    BY DEF Matched
  <2>1. i \in 1 .. Len(q) /\ i \in 2 .. Height(q) /\ i - 1 \in 1 .. Len(q) - 1 /\ i - 1 + 1 = i
    BY <1>2, <1>4, <1>5
  <2>2. SameCall(q[i], r[i])
    BY <2>1 DEF Pair, Matched
  <2>3. p[i].kind \in {"call", "handler"}
    <3>1. Nests(q[i - 1], q[i]) /\ (i < Len(q) => q[i].kind # "returned")
      <4>1. Nests(q[i - 1], q[i])
        BY <1>1, <2>1 DEF GoodStack
      <4>2. i < Len(q) => i \in 1 .. Len(q) - 1
        BY <1>2, <2>1
      <4> QED BY <1>1, <4>1, <4>2, Heights
    <3>2. i = Len(q) => q[i].kind # "returned"
      OBVIOUS
    <3> QED BY <1>2, <1>6, <2>1, <3>1, <3>2 DEF Nests
  <2> QED BY <1>6, <2>1, <2>2, <2>3 DEF SameCall
<1>9. Settled(p, r)
  <2> SUFFICES ASSUME NEW i \in 1 .. Height(p) - 1, p[i].kind \in {"main", "call"}
               PROVE  i <= Len(r) /\ p[i].values = Written(r[i])
    BY DEF Settled
  <2>1. i \in 1 .. Height(q) - 1 /\ p[i] = q[i]
    BY <1>2, <1>4, <1>5
  <2> QED BY <2>1 DEF Pair, Settled
<1>10. Settled(r, p)
  <2> SUFFICES ASSUME NEW i \in 1 .. Height(r) - 1, r[i].kind \in {"main", "call"}
               PROVE  i <= Len(p) /\ r[i].values = Written(p[i])
    BY DEF Settled
  <2>1. i <= Len(q) /\ r[i].values = Written(q[i])
    BY DEF Pair, Settled
  <2>2. i \in 1 .. Len(q)
    BY <1>2, <1>3, <2>1
  <2>3. CASE i # Len(q)
    BY <1>4, <2>1, <2>2, <2>3
  <2>4. CASE i = Len(q)
    <3>1. g.kind # "handler"
      BY <1>2, <1>3, <2>4
    <3> QED BY <1>4, <2>1, <2>4, <3>1 DEF Written
  <2> QED BY <2>3, <2>4
<1> QED BY <1>1, <1>2, <1>4, <1>5, <1>7, <1>8, <1>9, <1>10 DEF Pair

\* A call is made, or dispatched: an activation more.
LEMMA PushPair ==
    ASSUME NEW q, NEW r, NEW h, Pair(q, r), q # <<>>, GoodFrame(h), h.kind \in {"call", "handler"},
           Nests(q[Len(q)], h), Height(r) <= Len(q) + 1,
           Height(r) = Len(q) + 1 => SameCall(h, r[Len(q) + 1]),
           q[Len(q)].kind \in {"main", "call"} => Len(q) <= Len(r) /\ q[Len(q)].values = Written(r[Len(q)])
    PROVE  Pair(Append(q, h), r) /\ Height(Append(q, h)) = Len(q) + 1
<1> DEFINE p == Append(q, h)
<1>1. GoodStack(q) /\ GoodStack(r)
  BY DEF Pair
<1>2. Len(q) \in Nat /\ Len(q) > 0 /\ Height(q) = Len(q)
  <2>1. q[Len(q)].kind # "returned"
    BY DEF Nests
  <2> QED BY <1>1, <2>1, Heights
<1>3. Len(r) \in Nat /\ Height(r) \in 0 .. Len(r)
  BY <1>1, Heights
<1>4. /\ p \in Seq(Frame) /\ Len(p) = Len(q) + 1 /\ p[Len(q) + 1] = h
      /\ \A i \in 1 .. Len(q) : p[i] = q[i]
  <2>1. q \in Seq(Frame) /\ h \in Frame
    BY <1>1 DEF GoodStack, GoodFrame
  <2> QED BY <1>2, <2>1, AppendProperties
<1> HIDE DEF p
<1>5. p # <<>> /\ Height(p) = Len(q) + 1
  BY <1>2, <1>4 DEF Height
<1>6. \A i \in 1 .. Len(p) : GoodFrame(p[i])
  <2>1. \A i \in 1 .. Len(q) : GoodFrame(q[i])
    BY <1>1, Heights
  <2> QED BY <1>2, <1>4, <2>1
<1>7. GoodStack(p)
  <2>1. p[1].kind \in {"entry", "main"}
    BY <1>1, <1>2, <1>4 DEF GoodStack
  <2>2. ASSUME NEW i \in 2 .. Len(p) PROVE Nests(p[i - 1], p[i])
    <3>1. CASE i = Len(q) + 1
      <4>1. i - 1 = Len(q) /\ Len(q) \in 1 .. Len(q)
        BY <1>2, <3>1
      <4> QED BY <1>4, <3>1, <4>1
    <3>2. CASE i # Len(q) + 1
      <4>1. i \in 2 .. Len(q) /\ i - 1 \in 1 .. Len(q) /\ i \in 1 .. Len(q)
        BY <1>2, <1>4, <3>2
      <4>2. Nests(q[i - 1], q[i])
        BY <1>1, <4>1 DEF GoodStack
      <4> QED BY <1>4, <4>1, <4>2
    <3> QED BY <3>1, <3>2
  <2> QED BY <1>4, <1>6, <2>1, <2>2 DEF GoodStack
<1>8. Matched(p, r)
  <2> SUFFICES ASSUME NEW i \in 2 .. Height(p), i <= Height(r) PROVE SameCall(p[i], r[i])
    BY DEF Matched
  <2>1. CASE i = Len(q) + 1
    <3>1. Height(r) = Len(q) + 1
      BY <1>2, <1>3, <2>1
    <3> QED BY <1>4, <2>1, <3>1
  <2>2. CASE i # Len(q) + 1
    <3>1. i \in 2 .. Height(q) /\ i \in 1 .. Len(q)
      BY <1>2, <1>5, <2>2
    <3> QED BY <1>4, <3>1 DEF Pair, Matched
  <2> QED BY <2>1, <2>2
<1>9. Settled(p, r)
  <2> SUFFICES ASSUME NEW i \in 1 .. Height(p) - 1, p[i].kind \in {"main", "call"}
               PROVE  i <= Len(r) /\ p[i].values = Written(r[i])
    BY DEF Settled
  <2>1. i \in 1 .. Len(q) /\ p[i] = q[i]
    BY <1>2, <1>4, <1>5
  <2>2. CASE i = Len(q)
    BY <2>1, <2>2
  <2>3. CASE i # Len(q)
    <3>1. i \in 1 .. Height(q) - 1
      BY <1>2, <2>1, <2>3
    <3> QED BY <2>1, <3>1 DEF Pair, Settled
  <2> QED BY <2>2, <2>3
<1>10. Settled(r, p)
  <2> SUFFICES ASSUME NEW i \in 1 .. Height(r) - 1, r[i].kind \in {"main", "call"}
               PROVE  i <= Len(p) /\ r[i].values = Written(p[i])
    BY DEF Settled
  <2>1. i <= Len(q) /\ r[i].values = Written(q[i])
    BY DEF Pair, Settled
  <2>2. i \in 1 .. Len(q) /\ i <= Len(p)
    BY <1>2, <1>3, <1>4, <2>1
  <2> QED BY <1>4, <2>1, <2>2
<1> QED BY <1>1, <1>5, <1>7, <1>8, <1>9, <1>10 DEF Pair, p

\* An activation ends: it answers, or has its answer.
Shortened(q, p) == p \in Seq(Frame) /\ Len(p) = Len(q) - 1 /\ \A i \in 1 .. Len(q) - 1 : p[i] = q[i]

LEMMA PopPair ==
    ASSUME NEW q, NEW r, NEW p, Pair(q, r), q # <<>>, Shortened(q, p), Height(r) <= Len(q)
    PROVE  Pair(p, r) /\ Height(p) = Len(q) - 1
<1>1. GoodStack(q) /\ GoodStack(r)
  BY DEF Pair
<1>2. Len(q) \in Nat /\ Len(q) > 0 /\ Height(q) \in 0 .. Len(q) /\ Len(q) - 1 <= Height(q)
  BY <1>1, Heights
<1>3. Len(r) \in Nat /\ Height(r) \in 0 .. Len(r)
  BY <1>1, Heights
<1>4. /\ p \in Seq(Frame) /\ Len(p) = Len(q) - 1 /\ Len(p) \in Nat
      /\ \A i \in 1 .. Len(p) : i \in 1 .. Len(q) /\ p[i] = q[i]
  BY <1>2 DEF Shortened
<1>5. Height(p) = Len(p)
  <2>1. p # <<>> => Len(p) \in 1 .. Len(p)
    BY <1>4, EmptySeq
  <2>2. p # <<>> => p[Len(p)].kind # "returned"
    BY <1>1, <1>4, <2>1, Heights
  <2> QED BY <2>2 DEF Height
<1>6. GoodStack(p)
  <2>1. p # <<>> => p[1].kind \in {"entry", "main"}
    <3>1. p # <<>> => 1 \in 1 .. Len(p)
      BY <1>4, EmptySeq
    <3> QED BY <1>1, <1>4, <3>1 DEF GoodStack
  <2>2. ASSUME NEW i \in 2 .. Len(p) PROVE Nests(p[i - 1], p[i])
    <3>1. i \in 2 .. Len(q) /\ i - 1 \in 1 .. Len(p) /\ i \in 1 .. Len(p)
      BY <1>2, <1>4
    <3>2. Nests(q[i - 1], q[i])
      BY <1>1, <3>1 DEF GoodStack
    <3> QED BY <1>4, <3>1, <3>2
  <2>3. \A i \in 1 .. Len(p) : GoodFrame(p[i])
    BY <1>1, <1>4, Heights
  <2> QED BY <1>4, <2>1, <2>2, <2>3 DEF GoodStack
<1>7. Matched(p, r)
  <2> SUFFICES ASSUME NEW i \in 2 .. Height(p), i <= Height(r) PROVE SameCall(p[i], r[i])
    BY DEF Matched
  <2>1. i \in 2 .. Height(q) /\ i \in 1 .. Len(p)
    BY <1>2, <1>4, <1>5
  <2> QED BY <1>4, <2>1 DEF Pair, Matched
<1>8. Settled(p, r)
  <2> SUFFICES ASSUME NEW i \in 1 .. Height(p) - 1, p[i].kind \in {"main", "call"}
               PROVE  i <= Len(r) /\ p[i].values = Written(r[i])
    BY DEF Settled
  <2>1. i \in 1 .. Height(q) - 1 /\ i \in 1 .. Len(p)
    BY <1>2, <1>4, <1>5
  <2> QED BY <1>4, <2>1 DEF Pair, Settled
<1>9. Settled(r, p)
  <2> SUFFICES ASSUME NEW i \in 1 .. Height(r) - 1, r[i].kind \in {"main", "call"}
               PROVE  i <= Len(p) /\ r[i].values = Written(p[i])
    BY DEF Settled
  <2>1. i <= Len(q) /\ r[i].values = Written(q[i])
    BY DEF Pair, Settled
  <2>2. i \in 1 .. Len(p)
    BY <1>2, <1>3, <1>4
  <2> QED BY <1>4, <2>1, <2>2
<1> QED BY <1>1, <1>4, <1>5, <1>6, <1>7, <1>8, <1>9 DEF Pair

\* A handler has written its results and the RETURN behind them.
LEMMA ReturnPair ==
    ASSUME NEW q, NEW r, NEW p, NEW g, Pair(q, r), q # <<>>, Replaced(q, p, g), GoodFrame(g),
           q[Len(q)].kind = "handler", g.kind = "returned", Height(r) = Len(q)
    PROVE  /\ Pair(p, r) /\ p # <<>> /\ p[Len(p)] = g /\ Height(p) = Len(q) - 1 /\ Len(q) > 1
           /\ r[Len(q)].kind = "call" /\ r[Len(q)].id = q[Len(q)].id
           /\ p[Len(q) - 1].kind \in {"main", "call"}
           /\ p[Len(q) - 1].values = Written(r[Len(q) - 1])
<1>1. GoodStack(q) /\ GoodStack(r)
  BY DEF Pair
<1>2. Len(q) \in Nat /\ Len(q) > 1 /\ Height(q) = Len(q)
  <2>1. Len(q) \in Nat /\ Len(q) > 0 /\ Height(q) = Len(q)
    BY <1>1, Heights
  <2>2. Len(q) # 1
    BY <1>1 DEF GoodStack
  <2> QED BY <2>1, <2>2
<1>3. Len(r) \in Nat /\ Height(r) \in 0 .. Len(r) /\ Len(r) >= Len(q)
  BY <1>1, <1>2, Heights
<1>4. /\ p \in Seq(Frame) /\ Len(p) = Len(q) /\ p[Len(p)] = g /\ p # <<>>
      /\ \A i \in 1 .. Len(q) : i # Len(q) => p[i] = q[i]
  BY <1>2 DEF Replaced
<1>5. Height(p) = Len(q) - 1
  BY <1>4 DEF Height
<1>6. Len(q) \in 2 .. Height(q) /\ Len(q) - 1 \in 1 .. Len(q) /\ Len(q) - 1 # Len(q)
      /\ Len(q) - 1 \in 1 .. Height(q) - 1
  BY <1>2
<1>7. r[Len(q)].kind = "call" /\ r[Len(q)].id = q[Len(q)].id
  BY <1>6 DEF Pair, Matched, SameCall
<1>8. Nests(q[Len(q) - 1], q[Len(q)]) /\ q[Len(q) - 1].kind \in {"main", "call"}
  BY <1>1, <1>6 DEF GoodStack, Nests
<1>9. p[Len(q) - 1] = q[Len(q) - 1] /\ q[Len(q) - 1].values = Written(r[Len(q) - 1])
  BY <1>4, <1>6, <1>8 DEF Pair, Settled
<1>10. GoodStack(p)
  <2>1. p[1].kind \in {"entry", "main"}
    BY <1>1, <1>2, <1>4 DEF GoodStack
  <2>2. ASSUME NEW i \in 2 .. Len(p) PROVE Nests(p[i - 1], p[i])
    <3>1. CASE i = Len(q)
      BY <1>4, <1>8, <1>9, <3>1 DEF Nests
    <3>2. CASE i # Len(q)
      <4>1. i \in 2 .. Len(q) /\ i - 1 \in 1 .. Len(q) /\ i - 1 # Len(q) /\ i \in 1 .. Len(q)
        BY <1>2, <1>4, <3>2
      <4> QED BY <1>1, <1>4, <3>2, <4>1 DEF GoodStack
    <3> QED BY <3>1, <3>2
  <2>3. \A i \in 1 .. Len(p) : GoodFrame(p[i])
    BY <1>1, <1>4, Heights
  <2> QED BY <1>4, <2>1, <2>2, <2>3 DEF GoodStack
<1>11. Matched(p, r)
  <2> SUFFICES ASSUME NEW i \in 2 .. Height(p), i <= Height(r) PROVE SameCall(p[i], r[i])
    BY DEF Matched
  <2>1. i \in 2 .. Height(q) /\ i \in 1 .. Len(q) /\ i # Len(q)
    BY <1>2, <1>5
  <2> QED BY <1>4, <2>1 DEF Pair, Matched
<1>12. Settled(p, r)
  <2> SUFFICES ASSUME NEW i \in 1 .. Height(p) - 1, p[i].kind \in {"main", "call"}
               PROVE  i <= Len(r) /\ p[i].values = Written(r[i])
    BY DEF Settled
  <2>1. i \in 1 .. Height(q) - 1 /\ i \in 1 .. Len(q) /\ i # Len(q)
    BY <1>2, <1>5
  <2> QED BY <1>4, <2>1 DEF Pair, Settled
<1>13. Settled(r, p)
  <2> SUFFICES ASSUME NEW i \in 1 .. Height(r) - 1, r[i].kind \in {"main", "call"}
               PROVE  i <= Len(p) /\ r[i].values = Written(p[i])
    BY DEF Settled
  <2>1. i <= Len(q) /\ r[i].values = Written(q[i])
    BY DEF Pair, Settled
  <2>2. i \in 1 .. Len(q) /\ i # Len(q)
    BY <1>2, <1>3
  <2> QED BY <1>4, <2>1, <2>2
<1> QED BY <1>1, <1>2, <1>4, <1>5, <1>7, <1>8, <1>9, <1>10, <1>11, <1>12, <1>13 DEF Pair

-----------------------------------------------------------------------------
(***************************************************************************)
(* Who has the turn: the side with the stack q runs, or it has made a      *)
(* call, or its handler has answered, and out is what its peer, with the   *)
(* stack r, has not read yet.                                              *)
(***************************************************************************)
Waiting(q) == q # <<>> /\ q[Len(q)].kind \in {"main", "call", "returned"}

\* The activation that reads, now or when the handler above it is finished.
Receiver(q) == q[Height(q)]

Produced(q) == IF q = <<>> THEN <<>> ELSE Written(q[Len(q)])

Runs(q, r, out) ==
    /\ q # <<>> => q[Len(q)].kind \in {"entry", "handler"}
    /\ Waiting(r)
    /\ Height(r) = IF q = <<>> THEN 1 ELSE Len(q)
    /\ NoControl(out)
    /\ Carries(Receiver(r).values, out, Produced(q))

HasCalled(q, r, out) ==
    /\ q # <<>> /\ q[Len(q)].kind = "call" /\ q[Len(q)].values = <<>>
    /\ Waiting(r) /\ Height(r) = Len(q) - 1
    /\ out # <<>> /\ out[Len(out)] = CallDirect(q[Len(q)].id)
    /\ Carries(Receiver(r).values, out, Written(q[Len(q) - 1]) \o Args(q[Len(q)].id))

HasAnswered(q, r, out) ==
    /\ Waiting(q) /\ Waiting(r) /\ Height(r) = Height(q) + 1
    /\ Receiver(r).kind = "call"
    /\ Receiver(q).values = Written(r[Height(q)])
    /\ out # <<>> /\ out[Len(out)] = Return(Receiver(r).id)
    /\ Carries(Receiver(r).values, out, Results(Receiver(r).id))

Turn(q, r, out) == Runs(q, r, out) \/ HasCalled(q, r, out) \/ HasAnswered(q, r, out)

LEMMA Totals ==
    /\ \A c \in Call : /\ Args(c) \in Seq(Value) /\ Len(Args(c)) = NumArgs[c] /\ NumArgs[c] \in Nat
                       /\ Results(c) \in Seq(Value) /\ Len(Results(c)) = NumResults[c] /\ NumResults[c] \in Nat
    /\ \A f : GoodFrame(f) => Written(f) \in Seq(Value)
<1>1. ASSUME NEW c \in Call
      PROVE  /\ Args(c) \in Seq(Value) /\ Len(Args(c)) = NumArgs[c] /\ NumArgs[c] \in Nat
             /\ Results(c) \in Seq(Value) /\ Len(Results(c)) = NumResults[c] /\ NumResults[c] \in Nat
  <2>1. NumArgs[c] \in Nat /\ NumResults[c] \in Nat
    BY NumArgsAssumption, NumResultsAssumption
  <2>2. \A i \in Nat : Push("arg", c, i) \in Value /\ Push("result", c, i) \in Value
    BY DEF Push, Value
  <2>3. \A i \in 1 .. NumArgs[c] : Push("arg", c, i) \in Value
    BY <2>1, <2>2
  <2>4. \A i \in 1 .. NumResults[c] : Push("result", c, i) \in Value
    BY <2>1, <2>2
  <2>5. Args(c) \in Seq(Value)
    BY <2>1, <2>3, IsASeq DEF Args
  <2>6. Results(c) \in Seq(Value)
    BY <2>1, <2>4, IsASeq DEF Results
  <2>7. Len(Args(c)) = NumArgs[c] /\ Len(Results(c)) = NumResults[c]
    BY <2>1 DEF Args, Results
  <2> QED BY <2>1, <2>5, <2>6, <2>7
<1>2. ASSUME NEW f, GoodFrame(f) PROVE Written(f) \in Seq(Value)
  <2>1. CASE f.kind = "handler"
    <3>1. f.id \in Call /\ f.written \in 0 .. NumResults[f.id]
      BY <1>2, <2>1, FrameKinds DEF GoodFrame
    <3>2. f.written \in 0 .. Len(Results(f.id)) /\ Results(f.id) \in Seq(Value)
      BY <1>1, <3>1
    <3> QED BY <2>1, <3>2, PrefixProperties DEF Written
  <2>2. CASE f.kind # "handler"
    BY <2>2, EmptySeq DEF Written
  <2> QED BY <2>1, <2>2
<1> QED BY <1>1, <1>2

LEMMA WaitingReceiver ==
    ASSUME NEW r, GoodStack(r), Waiting(r)
    PROVE  /\ Height(r) \in 1 .. Len(r) /\ Len(r) \in Nat
           /\ Receiver(r) \in Frame /\ Receiver(r).kind \in {"main", "call"}
           /\ Receiver(r).values \in Seq(PushBlock)
           /\ r[Len(r)].kind # "returned" => Receiver(r) = r[Len(r)] /\ Height(r) = Len(r)
           /\ r[Len(r)].kind = "returned" => Height(r) = Len(r) - 1
<1>1. Len(r) \in Nat /\ Len(r) > 0 /\ r # <<>>
  BY Heights DEF Waiting
<1>2. CASE r[Len(r)].kind = "returned"
  <2>1. Len(r) > 1 /\ Height(r) = Len(r) - 1
    BY <1>1, <1>2, Heights
  <2>2. Height(r) \in 1 .. Len(r) /\ Len(r) - 1 \in 1 .. Len(r) - 1 /\ Len(r) - 1 + 1 = Len(r)
    BY <1>1, <2>1
  <2>3. Nests(r[Len(r) - 1], r[Len(r)])
    BY <2>2, Heights
  <2>4. Receiver(r).kind \in {"main", "call"} /\ Receiver(r) \in Frame
    BY <1>2, <2>1, <2>2, <2>3, Heights DEF Nests, Receiver
  <2> QED BY <1>1, <1>2, <2>1, <2>2, <2>4, FrameKinds
<1>3. CASE r[Len(r)].kind # "returned"
  <2>1. Height(r) = Len(r) /\ Height(r) \in 1 .. Len(r)
    BY <1>1, <1>3, Heights
  <2>2. Receiver(r) = r[Len(r)] /\ Receiver(r) \in Frame
    BY <1>1, <2>1, Heights DEF Receiver
  <2>3. Receiver(r).kind \in {"main", "call"}
    BY <1>3, <2>2 DEF Waiting
  <2> QED BY <1>1, <1>3, <2>1, <2>2, <2>3, FrameKinds
<1> QED BY <1>2, <1>3

\* The running side writes: a notification or a result.
LEMMA RunsOn ==
    ASSUME NEW q, NEW r, NEW p, NEW g, NEW out, NEW more, Pair(q, r), Runs(q, r, out),
           q # <<>>, Replaced(q, p, g), GoodFrame(g), g.kind = q[Len(q)].kind,
           g.kind = "handler" => g.id = q[Len(q)].id,
           NoControl(more), Carries(Receiver(r).values, more, Written(g))
    PROVE  Pair(p, r) /\ Runs(p, r, more)
<1>1. g.kind \in {"entry", "handler"} /\ Height(r) = Len(q) /\ Len(q) \in Nat /\ Len(q) > 0
  BY Heights DEF Runs, Pair
<1>2. Pair(p, r) /\ p # <<>> /\ Len(p) = Len(q) /\ p[Len(p)] = g
  <2>1. Height(r) <= Len(q)
    BY <1>1
  <2> QED BY <1>1, <2>1, ReplacePair DEF Replaced
<1> QED BY <1>1, <1>2 DEF Runs, Produced

\* The running side makes a call.
LEMMA RunsToHasCalled ==
    ASSUME NEW q, NEW r, NEW p, NEW g, NEW out \in Seq(Block), NEW c \in Call,
           Pair(q, r), Runs(q, r, out),
           q # <<>>, Replaced(q, p, g), GoodFrame(g), g.kind = q[Len(q)].kind,
           g.kind = "handler" => g.id = q[Len(q)].id,
           Written(g) = Written(q[Len(q)])
    PROVE  /\ Pair(Append(p, Reading(c)), r)
           /\ HasCalled(Append(p, Reading(c)), r, out \o Append(Args(c), CallDirect(c)))
<1> DEFINE h == Reading(c)
           w == Args(c)
           b == CallDirect(c)
<1>1. g.kind \in {"entry", "handler"} /\ Height(r) = Len(q) /\ Len(q) \in Nat /\ Len(q) > 0
  BY Heights DEF Runs, Pair
<1>2. Carries(Receiver(r).values, out, Written(g)) /\ NoControl(out)
  BY DEF Runs, Produced
<1>3. Pair(p, r) /\ Runs(p, r, out) /\ p # <<>> /\ Len(p) = Len(q) /\ p[Len(p)] = g
  <2>1. p # <<>> /\ Len(p) = Len(q) /\ p[Len(p)] = g
    BY <1>1 DEF Replaced
  <2> QED BY <1>2, <2>1, RunsOn
<1>4. GoodFrame(h) /\ h.kind = "call" /\ h.values = <<>> /\ h.id = c
  BY EmptySeq, NewFrames DEF GoodFrame, Reading
<1>5. /\ Pair(Append(p, h), r)
      /\ Len(Append(p, h)) = Len(p) + 1 /\ Append(p, h)[Len(p) + 1] = h /\ Append(p, h)[Len(p)] = g
  <2>1. Pair(Append(p, h), r)
    <3>1. Height(r) <= Len(p) + 1 /\ Height(r) # Len(p) + 1
      BY <1>1, <1>3
    <3>2. Nests(p[Len(p)], h) /\ p[Len(p)].kind \notin {"main", "call"}
      BY <1>1, <1>3, <1>4 DEF Nests
    <3> QED BY <1>3, <1>4, <3>1, <3>2, PushPair
  <2>2. p \in Seq(Frame) /\ Len(p) \in Nat /\ Len(p) \in 1 .. Len(p)
    BY <1>1, <1>3 DEF Replaced
  <2> QED BY <1>3, <1>4, <2>1, <2>2, AppendProperties DEF GoodFrame
<1>6. w \in Seq(Value) /\ w \in Seq(Block) /\ b \in ControlBlock /\ b \in Block
  <2>1. b \in ControlBlock
    BY DEF CallDirect, ControlBlock
  <2>2. Value \subseteq Block
    BY BlocksDiffer
  <2> QED BY <2>1, <2>2, Totals, BlocksDiffer, SeqMonotonic
<1>7. Written(g) \in Seq(Value)
  BY Totals
<1> HIDE DEF h, w, b
<1>8. /\ out \o w \in Seq(Block) /\ Written(g) \o w \in Seq(Value)
      /\ Carries(Receiver(r).values, out \o w, Written(g) \o w) /\ NoControl(out \o w)
  BY <1>2, <1>6, <1>7, CarriesValues
<1>9. <<b>> \in Seq(Block)
  BY <1>6
<1>10. Carries(Receiver(r).values, (out \o w) \o <<b>>, Written(g) \o w)
  BY <1>6, <1>8, <1>9, CarriesOther
<1>11. (out \o w) \o <<b>> = out \o Append(w, b)
  <2>1. Append(w, b) = w \o <<b>>
    BY <1>6
  <2> QED BY <1>6, <1>9, <2>1, ConcatAssociative
<1>12. LET o == (out \o w) \o <<b>> IN o # <<>> /\ o[Len(o)] = b
  <2> DEFINE x == out \o w
             o == x \o <<b>>
  <2>1. x \in Seq(Block)
    BY <1>8
  <2> HIDE DEF x
  <2>2. Len(o) = Len(x) + 1 /\ Len(x) \in Nat /\ o \in Seq(Block)
    BY <1>9, <2>1, ConcatProperties, LenProperties
  <2>3. o[Len(o)] = <<b>>[1]
    BY <1>9, <2>1, <2>2
  <2>4. o # <<>>
    BY <2>2
  <2> QED BY <2>3, <2>4 DEF x
<1>13. Waiting(r) /\ Height(r) = Len(p) + 1 - 1 /\ Len(p) + 1 - 1 = Len(p) /\ Append(p, h) # <<>>
  BY <1>1, <1>3, <1>5 DEF Runs
<1> DEFINE z == Append(p, h)
           o == out \o Append(w, b)
<1>14. z # <<>> /\ z[Len(z)] = h /\ Len(z) - 1 = Len(p) /\ z[Len(z) - 1] = g /\ Pair(z, r)
  <2>1. /\ Len(z) = Len(p) + 1 /\ z[Len(p) + 1] = h /\ z[Len(p)] = g /\ Pair(z, r) /\ z # <<>>
        /\ Len(p) \in Nat
    BY <1>1, <1>3, <1>5, <1>13
  <2> HIDE DEF z
  <2>2. Len(z) - 1 = Len(p)
    BY <2>1
  <2> QED BY <2>1, <2>2
<1>15. o # <<>> /\ o[Len(o)] = b /\ Carries(Receiver(r).values, o, Written(g) \o w)
  BY <1>10, <1>11, <1>12
<1> HIDE DEF z, o
<1>16. HasCalled(z, r, o)
  <2>1. CallDirect(h.id) = b /\ Args(h.id) = w
    BY <1>4 DEF w, b
  <2>2. Waiting(r) /\ Height(r) = Len(z) - 1
    BY <1>13, <1>14
  <2> QED BY <1>4, <1>14, <1>15, <2>1, <2>2 DEF HasCalled
<1> QED BY <1>14, <1>16 DEF z, o, h, w, b

\* The running handler answers.
LEMMA RunsToHasAnswered ==
    ASSUME NEW q, NEW r, NEW p, NEW g, NEW out \in Seq(Block), Pair(q, r), Runs(q, r, out),
           q # <<>>, q[Len(q)].kind = "handler", q[Len(q)].written = NumResults[q[Len(q)].id],
           Replaced(q, p, g), GoodFrame(g), g.kind = "returned"
    PROVE  Pair(p, r) /\ HasAnswered(p, r, out \o <<Return(q[Len(q)].id)>>)
<1> DEFINE f == q[Len(q)]
           b == Return(f.id)
           o == out \o <<b>>
<1>1. Height(r) = Len(q) /\ Waiting(r) /\ NoControl(out) /\ Carries(Receiver(r).values, out, Written(f))
  BY DEF Runs, Produced
<1>2. /\ Pair(p, r) /\ p # <<>> /\ p[Len(p)] = g /\ Height(p) = Len(q) - 1 /\ Len(q) > 1
      /\ r[Len(q)].kind = "call" /\ r[Len(q)].id = f.id
      /\ p[Len(q) - 1].kind \in {"main", "call"}
      /\ p[Len(q) - 1].values = Written(r[Len(q) - 1])
  BY <1>1, ReturnPair
<1>3. GoodFrame(f) /\ f.id \in Call /\ Len(q) \in Nat
  <2>1. GoodStack(q)
    BY DEF Pair
  <2>2. Len(q) \in Nat /\ Len(q) \in 1 .. Len(q)
    BY <2>1, Heights
  <2> QED BY <2>1, <2>2, Heights, FrameKinds
<1>4. Written(f) = Results(f.id) /\ Written(f) \in Seq(Value)
  <2>1. /\ f.kind = "handler" /\ f.written = Len(Results(f.id)) /\ Results(f.id) \in Seq(Value)
    BY <1>3, Totals
  <2>2. SubSeq(Results(f.id), 1, Len(Results(f.id))) = Results(f.id)
    BY <2>1, SubSeqFull
  <2> QED BY <2>1, <2>2 DEF Written
<1>5. b \in ControlBlock /\ <<b>> \in Seq(Block)
  <2>1. b \in ControlBlock
    BY <1>3 DEF Return, ControlBlock
  <2>2. b \in Block
    BY <2>1, BlocksDiffer
  <2> HIDE DEF b
  <2> QED BY <2>1, <2>2
<1> HIDE DEF b, f
<1>6. Carries(Receiver(r).values, o, Results(f.id))
  BY <1>1, <1>4, <1>5, CarriesOther
<1>7. o # <<>> /\ o[Len(o)] = b
  <2>1. Len(o) = Len(out) + 1 /\ Len(out) \in Nat /\ o \in Seq(Block)
    BY <1>5, ConcatProperties, LenProperties
  <2>2. o[Len(o)] = <<b>>[1]
    BY <1>5, <2>1
  <2> QED BY <2>1, <2>2
<1> HIDE DEF o
<1>8. Receiver(r) = r[Len(q)] /\ Receiver(p) = p[Len(q) - 1] /\ Height(r) = Height(p) + 1
  BY <1>1, <1>2, <1>3 DEF Receiver
<1>9. Waiting(p)
  BY <1>2 DEF Waiting
<1>10. Return(Receiver(r).id) = b /\ Results(Receiver(r).id) = Results(f.id) /\ Receiver(r).kind = "call"
  BY <1>2, <1>8 DEF b
<1>11. HasAnswered(p, r, o)
  BY <1>1, <1>2, <1>6, <1>7, <1>8, <1>9, <1>10 DEF HasAnswered
<1> QED BY <1>2, <1>11 DEF o, b, f

\* What the next block says about the turn and about the reader's Stack.
LEMMA AtHead ==
    ASSUME NEW q, NEW r, NEW out \in Seq(Block), Pair(q, r), Turn(q, r, out), out # <<>>
    PROVE  /\ Head(out) \in Block
           /\ Head(out) = Notification =>
                /\ Receiver(r).values # <<>>
                /\ Receiver(r).values[Len(Receiver(r).values)] = NotifyArg
           /\ Head(out) \in ControlBlock /\ Head(out).block = "call" =>
                /\ HasCalled(q, r, out) /\ Len(out) = 1 /\ Head(out) = CallDirect(q[Len(q)].id)
                /\ Receiver(r).values = Written(q[Len(q) - 1]) \o Args(q[Len(q)].id)
           /\ Head(out) \in ControlBlock /\ Head(out).block = "return" =>
                /\ HasAnswered(q, r, out) /\ Len(out) = 1 /\ Head(out) = Return(Receiver(r).id)
                /\ Receiver(r).values = Results(Receiver(r).id)
<1> DEFINE v == Receiver(r).values
<1>1. GoodStack(q) /\ GoodStack(r)
  BY DEF Pair
<1>2. Head(out) = out[1] /\ Head(out) \in Block /\ Len(out) \in Nat /\ Len(out) > 0
  BY HeadTailProperties, LenProperties, EmptySeq
<1>3. ASSUME Runs(q, r, out)
      PROVE  \E total \in Seq(Value) : Carries(v, out, total)
  <2>1. Produced(q) \in Seq(Value)
    <3>1. q # <<>> => GoodFrame(q[Len(q)])
      <4>1. q # <<>> => Len(q) \in 1 .. Len(q)
        BY <1>1, Heights
      <4> QED BY <1>1, <4>1, Heights
    <3> QED BY <3>1, EmptySeq, Totals DEF Produced
  <2> QED BY <1>3, <2>1 DEF Runs
<1>4. ASSUME HasCalled(q, r, out)
      PROVE  Written(q[Len(q) - 1]) \o Args(q[Len(q)].id) \in Seq(Value)
  <2>1. Len(q) \in Nat /\ Len(q) > 1 /\ q[Len(q)].id \in Call
    <3>1. Height(r) = Len(q) - 1 /\ Height(r) > 0 /\ Len(q) \in Nat /\ Len(q) > 0
      BY <1>1, <1>4, Heights DEF HasCalled, Waiting
    <3>2. Len(q) \in 1 .. Len(q) /\ Len(q) > 1
      BY <3>1
    <3>3. q[Len(q)] \in Frame /\ q[Len(q)].kind = "call"
      BY <1>1, <1>4, <3>2, Heights DEF HasCalled
    <3> QED BY <3>1, <3>2, <3>3, FrameKinds
  <2>2. Len(q) - 1 \in 1 .. Len(q)
    BY <2>1
  <2>3. Written(q[Len(q) - 1]) \in Seq(Value) /\ Args(q[Len(q)].id) \in Seq(Value)
    BY <1>1, <2>1, <2>2, Heights, Totals
  <2> QED BY <2>3, ConcatProperties
<1>5. ASSUME HasAnswered(q, r, out)
      PROVE  Results(Receiver(r).id) \in Seq(Value)
  <2>1. Receiver(r) \in Frame /\ Receiver(r).kind = "call"
    BY <1>1, <1>5, WaitingReceiver DEF HasAnswered
  <2> QED BY <2>1, FrameKinds, Totals
<1>6. \E total \in Seq(Value) : Carries(v, out, total)
  BY <1>3, <1>4, <1>5 DEF Turn, HasCalled, HasAnswered
<1>7. Head(out) = Notification => v # <<>> /\ v[Len(v)] = NotifyArg
  BY <1>6, CarriesRead
<1>8. Head(out) \in ControlBlock => Len(out) = 1
  BY <1>6, CarriesRead
<1>9. Head(out) \in ControlBlock => ~Runs(q, r, out)
  BY <1>2 DEF Runs, NoControl
<1>10. \A c : CallDirect(c).block = "call" /\ Return(c).block = "return"
  BY DEF CallDirect, Return
<1>11. ASSUME Head(out) \in ControlBlock, HasCalled(q, r, out)
       PROVE  /\ Head(out) = CallDirect(q[Len(q)].id)
              /\ v = Written(q[Len(q) - 1]) \o Args(q[Len(q)].id)
  <2>1. Head(out) = CallDirect(q[Len(q)].id)
    BY <1>2, <1>8, <1>11 DEF HasCalled
  <2> DEFINE total == Written(q[Len(q) - 1]) \o Args(q[Len(q)].id)
  <2>2. total \in Seq(Value) /\ Carries(v, out, total)
    BY <1>4, <1>11 DEF HasCalled
  <2> HIDE DEF total, v
  <2>3. v = total
    BY <1>11, <2>2, CarriesRead
  <2> QED BY <2>1, <2>3 DEF total, v
<1>12. ASSUME Head(out) \in ControlBlock, HasAnswered(q, r, out)
       PROVE  Head(out) = Return(Receiver(r).id) /\ v = Results(Receiver(r).id)
  <2>1. Head(out) = Return(Receiver(r).id)
    BY <1>2, <1>8, <1>12 DEF HasAnswered
  <2> DEFINE total == Results(Receiver(r).id)
  <2>2. total \in Seq(Value) /\ Carries(v, out, total)
    BY <1>5, <1>12 DEF HasAnswered
  <2> HIDE DEF total, v
  <2>3. v = total
    BY <1>12, <2>2, CarriesRead
  <2> QED BY <2>1, <2>3 DEF total, v
<1> QED BY <1>2, <1>7, <1>8, <1>9, <1>10, <1>11, <1>12 DEF Turn

\* A value or a notification is read.
LEMMA ReadsOn ==
    ASSUME NEW q, NEW r, NEW p, NEW g, NEW out \in Seq(Block), Pair(q, r), Turn(q, r, out), out # <<>>,
           r # <<>>, r[Len(r)].kind \in {"main", "call"},
           Replaced(r, p, g), GoodFrame(g), g.kind = r[Len(r)].kind,
           g.kind = "call" => g.id = r[Len(r)].id,
           \/ Head(out) \in PushBlock /\ g.values = Append(r[Len(r)].values, Head(out))
           \/ Head(out) = Notification
                /\ g.values = SubSeq(r[Len(r)].values, 1, Len(r[Len(r)].values) - 1)
    PROVE  Pair(q, p) /\ Turn(q, p, Tail(out))
<1> DEFINE f == r[Len(r)]
           rest == Tail(out)
<1>1. GoodStack(q) /\ GoodStack(r) /\ Pair(r, q)
  BY PairSymmetric DEF Pair
<1>2. Pair(p, q) /\ Height(p) = Height(r) /\ p # <<>> /\ Height(r) = Len(r)
  BY <1>1, ReplacePair
<1>3. Pair(q, p)
  BY <1>2, PairSymmetric
<1>4. Len(r) \in Nat /\ Len(r) > 0 /\ Len(p) = Len(r) /\ p[Len(p)] = g
  BY <1>1, Heights DEF Replaced
<1>5. Receiver(r) = f /\ Receiver(p) = g /\ Waiting(r) /\ Waiting(p)
  BY <1>2, <1>4 DEF Receiver, Waiting
<1>6. Head(out) \notin ControlBlock
  BY BlocksDiffer
<1>7. /\ Len(out) \in Nat /\ Len(out) > 0 /\ Head(out) = out[1]
      /\ rest \in Seq(Block) /\ Len(rest) = Len(out) - 1 /\ \A i \in 1 .. Len(rest) : rest[i] = out[i + 1]
  BY HeadTailProperties, LenProperties, EmptySeq
<1>8. ASSUME NEW total \in Seq(Value), Carries(f.values, out, total)
      PROVE  Carries(g.values, rest, total)
  <2>1. /\ Head(out) \in PushBlock => Carries(Append(f.values, Head(out)), rest, total)
        /\ Head(out) = Notification => Carries(SubSeq(f.values, 1, Len(f.values) - 1), rest, total)
    BY <1>8, CarriesRead
  <2> QED BY <2>1
<1>9. ASSUME out[Len(out)] \in ControlBlock
      PROVE  rest # <<>> /\ rest[Len(rest)] = out[Len(out)]
  <2>1. Len(out) # 1
    BY <1>6, <1>7, <1>9
  <2>2. Len(rest) > 0 /\ Len(rest) \in 1 .. Len(rest) /\ Len(rest) + 1 = Len(out)
    BY <1>7, <2>1
  <2>3. rest # <<>>
    <3>1. Len(<<>>) = 0
      BY EmptySeq
    <3>2. Len(rest) # 0
      BY <2>2
    <3> HIDE DEF rest
    <3> QED BY <3>1, <3>2
  <2> QED BY <1>7, <2>2, <2>3
<1> HIDE DEF rest, f
<1>10. CASE Runs(q, r, out)
  <2>1. Produced(q) \in Seq(Value)
    <3>1. q # <<>> => GoodFrame(q[Len(q)])
      <4>1. q # <<>> => Len(q) \in 1 .. Len(q)
        BY <1>1, Heights
      <4> QED BY <1>1, <4>1, Heights
    <3> QED BY <3>1, EmptySeq, Totals DEF Produced
  <2>2. Carries(Receiver(p).values, rest, Produced(q))
    BY <1>5, <1>8, <1>10, <2>1 DEF Runs
  <2>3. NoControl(rest)
    <3>1. \A i \in 1 .. Len(rest) : i + 1 \in 1 .. Len(out)
      BY <1>7
    <3> QED BY <1>7, <1>10, <3>1 DEF Runs, NoControl
  <2> QED BY <1>2, <1>3, <1>5, <1>10, <2>2, <2>3 DEF Runs, Turn, rest
<1>11. CASE HasCalled(q, r, out)
  <2>1. Height(r) = Len(q) - 1 /\ Len(q) \in Nat /\ q # <<>> /\ q[Len(q)].kind = "call"
    BY <1>1, <1>11, Heights DEF HasCalled
  <2>2. Len(q) \in 1 .. Len(q) /\ Len(q) - 1 \in 1 .. Len(q)
    BY <1>2, <1>4, <2>1
  <2>3. Written(q[Len(q) - 1]) \in Seq(Value) /\ q[Len(q)].id \in Call
    BY <1>1, <2>1, <2>2, Heights, Totals, FrameKinds
  <2>4. Written(q[Len(q) - 1]) \o Args(q[Len(q)].id) \in Seq(Value)
    BY <2>3, Totals, ConcatProperties
  <2>5. Carries(Receiver(p).values, rest, Written(q[Len(q) - 1]) \o Args(q[Len(q)].id))
    BY <1>5, <1>8, <1>11, <2>4 DEF HasCalled
  <2>6. rest # <<>> /\ rest[Len(rest)] = CallDirect(q[Len(q)].id)
    <3>1. CallDirect(q[Len(q)].id) \in ControlBlock
      BY <2>3 DEF CallDirect, ControlBlock
    <3> QED BY <1>9, <1>11, <3>1 DEF HasCalled
  <2> QED BY <1>2, <1>3, <1>5, <1>11, <2>5, <2>6 DEF HasCalled, Turn, rest
<1>12. CASE HasAnswered(q, r, out)
  <2>1. f.kind = "call" /\ f.id \in Call /\ g.id = f.id /\ g.kind = "call"
    <3>1. Receiver(r) \in Frame /\ Receiver(r).kind = "call"
      BY <1>1, <1>5, <1>12, WaitingReceiver DEF HasAnswered
    <3> QED BY <1>5, <3>1, FrameKinds DEF f
  <2>2. Carries(Receiver(p).values, rest, Results(g.id))
    BY <1>5, <1>8, <1>12, <2>1, Totals DEF HasAnswered
  <2>3. rest # <<>> /\ rest[Len(rest)] = Return(g.id)
    <3>1. Return(f.id) \in ControlBlock
      BY <2>1 DEF Return, ControlBlock
    <3> QED BY <1>5, <1>9, <1>12, <2>1, <3>1 DEF HasAnswered
  <2>4. Height(q) \in 1 .. Len(r) - 1
    BY <1>1, <1>2, <1>4, <1>12, WaitingReceiver DEF HasAnswered
  <2>5. p[Height(q)] = r[Height(q)]
    BY <2>4 DEF Replaced
  <2> QED BY <1>2, <1>3, <1>5, <1>12, <2>1, <2>2, <2>3, <2>5 DEF HasAnswered, Turn, rest
<1> QED BY <1>10, <1>11, <1>12 DEF Turn

\* The call is dispatched to its handler.
LEMMA Dispatched ==
    ASSUME NEW q, NEW r, NEW p, NEW g, NEW h, NEW out, Pair(q, r), HasCalled(q, r, out),
           r[Len(r)].kind \in {"main", "call"},
           Replaced(r, p, g), GoodFrame(g), g.kind = r[Len(r)].kind,
           g.kind = "call" => g.id = r[Len(r)].id,
           g.values = Written(q[Len(q) - 1]),
           GoodFrame(h), h.kind = "handler", h.id = q[Len(q)].id, h.written = 0
    PROVE  Pair(Append(p, h), q) /\ Runs(Append(p, h), q, <<>>)
<1>1. GoodStack(q) /\ GoodStack(r) /\ Pair(r, q) /\ r # <<>>
  BY PairSymmetric DEF Pair, HasCalled, Waiting
<1>2. Pair(p, q) /\ Height(p) = Height(r) /\ p # <<>> /\ Height(r) = Len(r)
  BY <1>1, ReplacePair
<1>3. Len(r) \in Nat /\ Len(r) > 0 /\ Len(p) = Len(r) /\ p[Len(p)] = g /\ p \in Seq(Frame)
  BY <1>1, Heights DEF Replaced
<1>4. /\ q # <<>> /\ q[Len(q)].kind = "call" /\ q[Len(q)].values = <<>> /\ Len(q) \in Nat
      /\ Height(q) = Len(q) /\ Len(q) = Len(p) + 1 /\ Len(p) = Len(q) - 1
  <2>1. q # <<>> /\ q[Len(q)].kind = "call" /\ q[Len(q)].values = <<>> /\ Height(r) = Len(q) - 1
    BY DEF HasCalled
  <2>2. Len(q) \in Nat /\ Height(q) = Len(q)
    BY <1>1, <2>1, Heights
  <2> QED BY <1>2, <1>3, <2>1, <2>2
<1>5. Pair(Append(p, h), q) /\ Height(Append(p, h)) = Len(p) + 1
  <2>1. Nests(p[Len(p)], h)
    BY <1>3 DEF Nests
  <2>2. SameCall(h, q[Len(p) + 1])
    BY <1>4 DEF SameCall
  <2>3. Height(q) <= Len(p) + 1 /\ Len(p) <= Len(q)
    BY <1>3, <1>4
  <2>4. p[Len(p)].values = Written(q[Len(p)])
    BY <1>3, <1>4
  <2> QED BY <1>2, <2>1, <2>2, <2>3, <2>4, PushPair
<1>6. /\ Append(p, h) # <<>> /\ Len(Append(p, h)) = Len(p) + 1 /\ Append(p, h)[Len(p) + 1] = h
  BY <1>3, AppendProperties DEF GoodFrame
<1> DEFINE z == Append(p, h)
<1>7. z # <<>> /\ Len(z) = Len(q) /\ z[Len(z)] = h
  BY <1>4, <1>6
<1> HIDE DEF z
<1>8. Written(h) = <<>>
  BY SubSeqEmpty DEF Written
<1>9. Receiver(q).values = <<>> /\ Waiting(q)
  BY <1>4 DEF Receiver, Waiting
<1>10. NoControl(<<>>) /\ Carries(<<>>, <<>>, <<>>)
  <2>1. <<>> \in Seq(Value)
    BY EmptySeq
  <2>2. Carries(<<>>, <<>>, <<>>)
    BY <2>1, CarriesNothing
  <2> QED BY <2>2 DEF NoControl
<1>11. Runs(z, q, <<>>)
  BY <1>4, <1>7, <1>8, <1>9, <1>10 DEF Runs, Produced
<1> QED BY <1>5, <1>11 DEF z

\* The caller has its answer.
LEMMA HasReturned ==
    ASSUME NEW q, NEW r, NEW p, NEW out, Pair(q, r), HasAnswered(q, r, out),
           r[Len(r)].kind # "returned", Shortened(r, p)
    PROVE  Pair(p, q) /\ Runs(p, q, <<>>)
<1>1. GoodStack(q) /\ GoodStack(r) /\ Pair(r, q) /\ r # <<>> /\ Waiting(q) /\ Waiting(r)
  BY PairSymmetric DEF Pair, HasAnswered, Waiting
<1>2. /\ Height(r) = Len(r) /\ Len(r) \in Nat /\ Receiver(r) = r[Len(r)] /\ r[Len(r)].kind = "call"
      /\ Height(q) = Len(r) - 1 /\ Height(q) \in Nat /\ Height(q) > 0
  <2>1. Height(r) = Len(r) /\ Len(r) \in Nat /\ Receiver(r) = r[Len(r)]
    BY <1>1, WaitingReceiver
  <2>2. Height(q) \in 1 .. Len(q) /\ Len(q) \in Nat
    BY <1>1, WaitingReceiver
  <2>3. Height(r) = Height(q) + 1 /\ Receiver(r).kind = "call"
    BY DEF HasAnswered
  <2> QED BY <2>1, <2>2, <2>3
<1>3. Height(q) <= Len(r) /\ Len(r) - 1 \in 1 .. Len(r) - 1 /\ Len(r) - 1 + 1 = Len(r)
  BY <1>2
<1>4. Pair(p, q) /\ Height(p) = Len(r) - 1
  BY <1>1, <1>3, PopPair
<1>5. Len(p) = Len(r) - 1 /\ p[Len(r) - 1] = r[Len(r) - 1] /\ p # <<>>
  BY <1>3 DEF Shortened
<1>6. r[Len(r) - 1].kind \in {"entry", "handler"} /\ GoodFrame(r[Len(r) - 1])
  <2>1. Nests(r[Len(r) - 1], r[Len(r)])
    BY <1>1, <1>3, Heights
  <2>2. Len(r) - 1 \in 1 .. Len(r)
    BY <1>2, <1>3
  <2> QED BY <1>1, <1>2, <2>1, <2>2, Heights DEF Nests
<1>7. Receiver(q).values = Written(r[Len(r) - 1])
  BY <1>2 DEF HasAnswered
<1>8. NoControl(<<>>) /\ Carries(Receiver(q).values, <<>>, Written(r[Len(r) - 1]))
  BY <1>6, <1>7, CarriesNothing, Totals DEF NoControl
<1>9. Produced(p) = Written(r[Len(r) - 1]) /\ Height(q) = Len(p) /\ p[Len(p)].kind \in {"entry", "handler"}
  BY <1>2, <1>5, <1>6 DEF Produced
<1> QED BY <1>1, <1>4, <1>5, <1>8, <1>9 DEF Runs

\* A handler that has answered is finished, on either side.
LEMMA PeerFinishes ==
    ASSUME NEW q, NEW r, NEW p, NEW out, Pair(q, r), Turn(q, r, out),
           r # <<>>, r[Len(r)].kind = "returned", Shortened(r, p)
    PROVE  Pair(q, p) /\ Turn(q, p, out)
<1>1. GoodStack(q) /\ GoodStack(r) /\ Pair(r, q) /\ Waiting(r)
  BY PairSymmetric DEF Pair, Waiting
<1>2. /\ Len(r) \in Nat /\ Height(r) = Len(r) - 1 /\ Height(r) \in 1 .. Len(r) - 1
      /\ Receiver(r).kind \in {"main", "call"}
  BY <1>1, WaitingReceiver
<1>3. Len(q) \in Nat /\ Height(q) \in 0 .. Len(q) /\ (q # <<>> => Height(q) > 0)
  BY <1>1, Heights
<1>4. Height(q) <= Len(r)
  <2>1. Runs(q, r, out) => Height(q) <= Len(r)
    <3>1. CASE q = <<>>
      BY <1>2, <1>3, <3>1
    <3>2. CASE q # <<>>
      BY <1>2, <1>3, <3>2 DEF Runs
    <3> QED BY <3>1, <3>2
  <2>2. HasCalled(q, r, out) => Height(q) <= Len(r)
    BY <1>2, <1>3 DEF HasCalled
  <2>3. HasAnswered(q, r, out) => Height(q) <= Len(r)
    BY <1>2, <1>3 DEF HasAnswered
  <2> QED BY <2>1, <2>2, <2>3 DEF Turn
<1>5. Pair(p, q) /\ Height(p) = Height(r)
  BY <1>1, <1>2, <1>4, PopPair
<1>6. Pair(q, p)
  BY <1>5, PairSymmetric
<1>7. Len(p) = Height(r) /\ p # <<>> /\ \A i \in 1 .. Height(r) : p[i] = r[i]
  BY <1>2 DEF Shortened
<1>8. Receiver(p) = Receiver(r) /\ Waiting(p)
  BY <1>2, <1>5, <1>7 DEF Receiver, Waiting
<1>9. HasAnswered(q, r, out) => p[Height(q)] = r[Height(q)]
  <2>1. HasAnswered(q, r, out) => Height(q) \in 1 .. Height(r)
    BY <1>2, <1>3 DEF HasAnswered, Waiting
  <2> QED BY <1>7, <2>1
<1>10. Runs(q, r, out) => Runs(q, p, out)
  BY <1>5, <1>8 DEF Runs
<1>11. HasCalled(q, r, out) => HasCalled(q, p, out)
  BY <1>5, <1>8 DEF HasCalled
<1>12. HasAnswered(q, r, out) => HasAnswered(q, p, out)
  BY <1>5, <1>8, <1>9 DEF HasAnswered
<1> QED BY <1>6, <1>10, <1>11, <1>12 DEF Turn

LEMMA OwnFinishes ==
    ASSUME NEW q, NEW r, NEW p, NEW out, Pair(q, r), Turn(q, r, out),
           q # <<>>, q[Len(q)].kind = "returned", Shortened(q, p)
    PROVE  Pair(p, r) /\ Turn(p, r, out)
<1>1. GoodStack(q) /\ GoodStack(r) /\ Waiting(q)
  BY DEF Pair, Waiting
<1>2. /\ Len(q) \in Nat /\ Height(q) = Len(q) - 1 /\ Height(q) \in 1 .. Len(q) - 1
      /\ Receiver(q).kind \in {"main", "call"}
  BY <1>1, WaitingReceiver
<1>3. HasAnswered(q, r, out)
  BY DEF Turn, Runs, HasCalled
<1>4. Height(r) = Len(q)
  BY <1>2, <1>3 DEF HasAnswered
<1>5. Pair(p, r) /\ Height(p) = Height(q)
  BY <1>2, <1>4, PopPair
<1>6. Len(p) = Height(q) /\ p # <<>> /\ \A i \in 1 .. Height(q) : p[i] = q[i]
  BY <1>2 DEF Shortened
<1>7. Receiver(p) = Receiver(q) /\ Waiting(p)
  BY <1>2, <1>5, <1>6 DEF Receiver, Waiting
<1> QED BY <1>3, <1>5, <1>7 DEF HasAnswered, Turn

\* The browser calls the plugin, and has control again.
LEMMA BrowserEnters ==
    ASSUME NEW r, NEW out, Pair(<<>>, r), Turn(<<>>, r, out)
    PROVE  Pair(<<Entry>>, r) /\ Turn(<<Entry>>, r, out)
<1>1. Runs(<<>>, r, out)
  BY DEF Turn, HasCalled, HasAnswered, Waiting
<1>2. GoodFrame(Entry) /\ Entry.kind = "entry"
  BY BudgetAssumption DEF GoodFrame, Entry, Frame
<1> DEFINE q == <<Entry>>
<1>3. q \in Seq(Frame) /\ q # <<>> /\ Len(q) = 1 /\ q[1] = Entry
  BY <1>2 DEF GoodFrame
<1> HIDE DEF q
<1>4. GoodStack(q) /\ Height(q) = 1
  BY <1>2, <1>3 DEF GoodStack, Height
<1>5. Height(r) = 1 /\ GoodStack(r)
  BY <1>1 DEF Runs, Pair
<1>6. Matched(q, r) /\ Settled(q, r) /\ Settled(r, q)
  BY <1>4, <1>5 DEF Matched, Settled
<1>7. Produced(q) = <<>> /\ Produced(<<>>) = <<>>
  BY <1>2, <1>3 DEF Produced, Written
<1>8. Runs(q, r, out)
  BY <1>1, <1>2, <1>3, <1>5, <1>7 DEF Runs
<1> QED BY <1>4, <1>5, <1>6, <1>8 DEF Pair, Turn, q

LEMMA BrowserLeaves ==
    ASSUME NEW q, NEW r, NEW out, Pair(q, r), Turn(q, r, out), q # <<>>, q[Len(q)].kind = "entry"
    PROVE  Pair(<<>>, r) /\ Turn(<<>>, r, out)
<1>1. GoodStack(q) /\ GoodStack(r) /\ Len(q) \in Nat /\ Len(q) > 0
  BY Heights DEF Pair
<1>2. Len(q) = 1
  <2>1. ASSUME Len(q) # 1 PROVE FALSE
    <3>1. Len(q) - 1 \in 1 .. Len(q) - 1 /\ Len(q) - 1 + 1 = Len(q)
      BY <1>1, <2>1
    <3>2. Nests(q[Len(q) - 1], q[Len(q)])
      BY <1>1, <3>1, Heights
    <3> QED BY <3>2 DEF Nests
  <2> QED BY <2>1
<1>3. Runs(q, r, out) /\ Height(r) = 1
  BY <1>2 DEF Turn, HasCalled, HasAnswered, Waiting, Runs
<1>4. GoodStack(<<>>) /\ Height(<<>>) = 0
  BY EmptySeq DEF GoodStack, Height
<1>5. Matched(<<>>, r) /\ Settled(<<>>, r) /\ Settled(r, <<>>)
  BY <1>3, <1>4 DEF Matched, Settled
<1>6. Produced(q) = <<>> /\ Produced(<<>>) = <<>>
  BY <1>2 DEF Produced, Written
<1>7. Runs(<<>>, r, out)
  BY <1>3, <1>6 DEF Runs
<1> QED BY <1>1, <1>4, <1>5, <1>7 DEF Pair, Turn

-----------------------------------------------------------------------------
(***************************************************************************)
(* The two processes.  Out(s) is all that side s has written and its peer  *)
(* has not read.                                                           *)
(***************************************************************************)
Out(s) == pipe[s] \o buffer[s]

HasTurn(s) ==
    /\ Out(Peer(s)) = <<>>
    /\ Pair(frames[s], frames[Peer(s)])
    /\ Turn(frames[s], frames[Peer(s)], Out(s))

Bottom(s, q) ==
    /\ s = "windows" => q # <<>>
    /\ q # <<>> => q[1].kind = IF s = "linux" THEN "entry" ELSE "main"

Bottoms == \A s \in Side : Bottom(s, frames[s])

NestingInv == RpcInv /\ fault = "none" /\ Bottoms /\ \E s \in Side : HasTurn(s)

LEMMA Peers == \A s \in Side : Peer(s) \in Side /\ Peer(s) # s /\ Peer(Peer(s)) = s /\ Side = {s, Peer(s)}
BY DEF Side, Peer

\* What SetTop does to a stack.
LEMMA StackOps ==
    ASSUME NEW q \in Seq(Frame), q # <<>>, NEW g \in Frame
    PROVE  /\ Replaced(q, Front(q) \o <<g>>, g)
           /\ \A h \in Frame : Front(q) \o <<g, h>> = Append(Front(q) \o <<g>>, h)
           /\ Shortened(q, Front(q) \o <<>>)
           /\ Last(q) = q[Len(q)]
<1>1. Len(q) \in Nat /\ Len(q) > 0 /\ \A i \in 1 .. Len(q) : q[i] \in Frame
  BY LenProperties, EmptySeq, ElementOfSeq
<1> DEFINE F == Front(q)
<1>2. /\ F \in Seq(Frame) /\ Len(F) = Len(q) - 1 /\ \A i \in 1 .. Len(q) - 1 : F[i] = q[i]
  <2>1. Len(q) - 1 \in 0 .. Len(q) /\ F = SubSeq(q, 1, Len(q) - 1)
    BY <1>1 DEF Front
  <2> QED BY <2>1, PrefixProperties
<1> HIDE DEF F
<1>3. <<g>> \in Seq(Frame) /\ Len(<<g>>) = 1 /\ <<g>>[1] = g
  OBVIOUS
<1>4. /\ F \o <<g>> \in Seq(Frame) /\ Len(F \o <<g>>) = Len(q)
      /\ (F \o <<g>>)[Len(q)] = g /\ \A i \in 1 .. Len(q) - 1 : (F \o <<g>>)[i] = q[i]
  <2>1. F \o <<g>> \in Seq(Frame) /\ Len(F \o <<g>>) = Len(F) + 1
    BY <1>2, <1>3, ConcatProperties
  <2>2. (F \o <<g>>)[Len(F) + 1] = <<g>>[1] /\ \A i \in 1 .. Len(F) : (F \o <<g>>)[i] = F[i]
    BY <1>1, <1>2, <1>3
  <2> QED BY <1>1, <1>2, <1>3, <2>1, <2>2
<1>5. Replaced(q, F \o <<g>>, g)
  BY <1>4 DEF Replaced
<1>6. ASSUME NEW h \in Frame PROVE F \o <<g, h>> = Append(F \o <<g>>, h)
  <2>1. <<g, h>> = <<g>> \o <<h>> /\ <<h>> \in Seq(Frame)
    BY <1>3
  <2>2. (F \o <<g>>) \o <<h>> = F \o (<<g>> \o <<h>>)
    BY <1>2, <1>3, <2>1, ConcatAssociative
  <2>3. (F \o <<g>>) \o <<h>> = Append(F \o <<g>>, h)
    BY <1>4
  <2> QED BY <2>1, <2>2, <2>3
<1>7. F \o <<>> = F
  BY <1>2, ConcatEmptySeq
<1>8. Shortened(q, F)
  BY <1>2 DEF Shortened
<1> QED BY <1>5, <1>6, <1>7, <1>8 DEF F, Last

LEMMA BottomKept ==
    ASSUME NEW s \in Side, NEW q \in Seq(Frame), Bottom(s, q), q # <<>>
    PROVE  /\ \A p, g : Replaced(q, p, g)
                 /\ (g.kind = q[Len(q)].kind \/ q[Len(q)].kind \notin {"entry", "main"})
                 => Bottom(s, p) /\ p # <<>>
           /\ \A h \in Frame : Bottom(s, Append(q, h))
           /\ \A p : Shortened(q, p) /\ q[Len(q)].kind \notin {"entry", "main"} => Bottom(s, p) /\ p # <<>>
<1>1. Len(q) \in Nat /\ Len(q) > 0 /\ q[1].kind \in {"entry", "main"}
  <2>1. Len(q) \in Nat /\ Len(q) > 0
    BY LenProperties, EmptySeq
  <2> QED BY <2>1 DEF Bottom
<1>2. Len(q) = 1 \/ 1 \in 1 .. Len(q) - 1
  <2>1. \A k \in Nat : k > 0 => k = 1 \/ 1 \in 1 .. k - 1
    OBVIOUS
  <2> QED BY <1>1, <2>1
<1>3. ASSUME NEW p, NEW g, Replaced(q, p, g),
             g.kind = q[Len(q)].kind \/ q[Len(q)].kind \notin {"entry", "main"}
      PROVE  Bottom(s, p) /\ p # <<>>
  <2>1. p # <<>>
    BY <1>1, <1>3, EmptySeq DEF Replaced
  <2>2. p[1].kind = q[1].kind
    BY <1>1, <1>2, <1>3 DEF Replaced
  <2> QED BY <2>1, <2>2 DEF Bottom
<1>4. ASSUME NEW h \in Frame PROVE Bottom(s, Append(q, h))
  <2>1. Append(q, h) # <<>> /\ Append(q, h)[1] = q[1]
    BY <1>1, AppendProperties
  <2> QED BY <2>1 DEF Bottom
<1>5. ASSUME NEW p, Shortened(q, p), q[Len(q)].kind \notin {"entry", "main"}
      PROVE  Bottom(s, p) /\ p # <<>>
  <2>1. Len(q) # 1
    BY <1>1, <1>5
  <2>2. p[1] = q[1]
    BY <1>2, <1>5, <2>1 DEF Shortened
  <2>3. p # <<>>
    <3>1. Len(p) # 0
      BY <1>1, <1>5, <2>1 DEF Shortened
    <3> QED BY <3>1, EmptySeq
  <2> QED BY <2>2, <2>3 DEF Bottom
<1> QED BY <1>3, <1>4, <1>5

\* The streams.
LEMMA Regroup ==
    ASSUME NEW a \in Seq(Block), NEW b \in Seq(Block), NEW c \in Seq(Block)
    PROVE  (a \o b) \o c = a \o (b \o c)
BY ConcatAssociative

LEMMA OutTyped == ASSUME TypeOK, NEW s \in Side PROVE Out(s) \in Seq(Block)
BY ConcatProperties DEF TypeOK, Out

LEMMA OutWritten ==
    ASSUME TypeOK, NEW s \in Side, NEW blocks \in Seq(Block), Write(s, blocks)
    PROVE  Out(s)' = Out(s) \o blocks /\ Out(Peer(s))' = Out(Peer(s)) /\ fault' = fault
<1>1. Peer(s) \in Side /\ Peer(s) # s
  BY Peers
<1>2. pipe[s] \in Seq(Block) /\ buffer[s] \in Seq(Block) /\ buffer \in [Side -> Seq(Block)]
  BY DEF TypeOK
<1>3. buffer'[s] = buffer[s] \o blocks /\ buffer'[Peer(s)] = buffer[Peer(s)] /\ pipe' = pipe /\ fault' = fault
  BY <1>1, <1>2 DEF Write
<1>4. pipe[s] \o (buffer[s] \o blocks) = (pipe[s] \o buffer[s]) \o blocks
  <2>1. \A a, b, c \in Seq(Block) : (a \o b) \o c = a \o (b \o c)
    BY Regroup
  <2> QED BY <1>2, <2>1, Zenon
<1> QED BY <1>3, <1>4 DEF Out

LEMMA OutMoved ==
    ASSUME TypeOK, NEW s \in Side, buffer[s] # <<>>,
           pipe' = [pipe EXCEPT ![s] = Append(@, Head(buffer[s]))],
           buffer' = [buffer EXCEPT ![s] = Tail(@)]
    PROVE  \A t \in Side : Out(t)' = Out(t)
<1> DEFINE a == pipe[s]
           b == buffer[s]
<1>1. /\ a \in Seq(Block) /\ b \in Seq(Block) /\ b # <<>>
      /\ buffer \in [Side -> Seq(Block)] /\ pipe \in [Side -> Seq(Block)]
  BY DEF TypeOK
<1>2. pipe'[s] = Append(a, Head(b)) /\ buffer'[s] = Tail(b)
  BY <1>1
<1>3. \A t \in Side : t # s => pipe'[t] = pipe[t] /\ buffer'[t] = buffer[t]
  BY <1>1
<1> HIDE DEF a, b
<1>4. Append(a, Head(b)) \o Tail(b) = a \o b
  <2>1. /\ Head(b) \in Block /\ Tail(b) \in Seq(Block) /\ Head(b) = b[1]
        /\ Len(b) \in Nat /\ Len(b) > 0 /\ Len(Tail(b)) = Len(b) - 1
        /\ \A i \in 1 .. Len(Tail(b)) : Tail(b)[i] = b[i + 1]
    BY <1>1, HeadTailProperties, LenProperties, EmptySeq
  <2>2. <<Head(b)>> \o Tail(b) = b
    <3> DEFINE c == <<Head(b)>> \o Tail(b)
    <3>1. c \in Seq(Block) /\ Len(c) = Len(b)
      BY <2>1, ConcatProperties
    <3>2. \A i \in 1 .. Len(b) : c[i] = b[i]
      BY <2>1
    <3> HIDE DEF c
    <3>3. c = b
      BY <1>1, <3>1, <3>2, SeqEqual
    <3> QED BY <3>3 DEF c
  <2>3. Append(a, Head(b)) = a \o <<Head(b)>> /\ <<Head(b)>> \in Seq(Block)
    BY <1>1, <2>1
  <2>4. (a \o <<Head(b)>>) \o Tail(b) = a \o (<<Head(b)>> \o Tail(b))
    BY <1>1, <2>1, <2>3, Regroup
  <2> QED BY <2>2, <2>3, <2>4
<1> QED BY <1>2, <1>3, <1>4 DEF Out, a, b

LEMMA OutRead ==
    ASSUME TypeOK, NEW s \in Side, pipe[Peer(s)] # <<>>
    PROVE  /\ Out(Peer(s)) # <<>> /\ Head(Out(Peer(s))) = Head(pipe[Peer(s)])
           /\ Consume(s) => /\ Out(Peer(s))' = Tail(Out(Peer(s))) /\ Out(s)' = Out(s)
                            /\ fault' = fault
<1> DEFINE a == pipe[Peer(s)]
           b == buffer[Peer(s)]
<1>1. /\ a \in Seq(Block) /\ b \in Seq(Block) /\ a # <<>> /\ Peer(s) \in Side /\ Peer(s) # s
      /\ buffer \in [Side -> Seq(Block)] /\ pipe \in [Side -> Seq(Block)]
  BY Peers DEF TypeOK
<1>2. Consume(s) => /\ pipe'[Peer(s)] = Tail(a) /\ pipe'[s] = pipe[s]
                    /\ buffer' = buffer /\ fault' = fault
  BY <1>1 DEF Consume
<1> HIDE DEF a, b
<1>3. /\ Tail(a) \in Seq(Block) /\ Head(a) = a[1]
      /\ Len(a) \in Nat /\ Len(a) > 0 /\ Len(b) \in Nat /\ Len(Tail(a)) = Len(a) - 1
      /\ \A i \in 1 .. Len(Tail(a)) : Tail(a)[i] = a[i + 1]
  BY <1>1, HeadTailProperties, LenProperties, EmptySeq
<1> DEFINE c == a \o b
           d == Tail(a) \o b
<1>4. /\ c \in Seq(Block) /\ Len(c) = Len(a) + Len(b) /\ c # <<>>
      /\ d \in Seq(Block) /\ Len(d) = Len(a) - 1 + Len(b) /\ Len(c) > 0
  BY <1>1, <1>3, ConcatProperties, EmptySeq
<1>5. \A i \in 1 .. Len(a) + Len(b) : c[i] = IF i <= Len(a) THEN a[i] ELSE b[i - Len(a)]
  BY <1>1, <1>3
<1>6. \A i \in 1 .. Len(a) - 1 + Len(b) :
         d[i] = IF i <= Len(a) - 1 THEN Tail(a)[i] ELSE b[i - (Len(a) - 1)]
  BY <1>1, <1>3
<1>7. \A i \in 1 .. Len(a) - 1 + Len(b) : d[i] = c[i + 1]
  <2> TAKE i \in 1 .. Len(a) - 1 + Len(b)
  <2> HIDE DEF c, d
  <2>1. i + 1 \in 1 .. Len(a) + Len(b) /\ i \in Int
    BY <1>3
  <2>2. CASE i <= Len(a) - 1
    <3>1. i + 1 <= Len(a) /\ i \in 1 .. Len(Tail(a))
      BY <1>3, <2>1, <2>2
    <3>2. d[i] = Tail(a)[i] /\ c[i + 1] = a[i + 1]
      BY <1>5, <1>6, <2>1, <2>2, <3>1
    <3> QED BY <1>3, <3>1, <3>2
  <2>3. CASE ~(i <= Len(a) - 1)
    <3>1. ~(i + 1 <= Len(a)) /\ i + 1 - Len(a) = i - (Len(a) - 1)
      BY <1>3, <2>1, <2>3
    <3> QED BY <1>5, <1>6, <2>1, <2>3, <3>1
  <2> QED BY <2>2, <2>3
<1> HIDE DEF c, d
<1>8. Head(c) = c[1] /\ Tail(c) \in Seq(Block) /\ Len(Tail(c)) = Len(c) - 1
      /\ \A i \in 1 .. Len(Tail(c)) : Tail(c)[i] = c[i + 1]
  BY <1>4, HeadTailProperties
<1>9. Head(c) = Head(a)
  BY <1>3, <1>5, <1>8
<1>10. Tail(c) = d
  BY <1>3, <1>4, <1>7, <1>8, SeqEqual
<1> QED BY <1>2, <1>4, <1>9, <1>10 DEF Out, a, b, c, d

-----------------------------------------------------------------------------
\* A side that executes code has the turn, and its peer waits.
LEMMA RunningHasTurn ==
    ASSUME NestingInv, NEW s \in Side, HasTop(s, {"entry", "handler"})
    PROVE  /\ Out(Peer(s)) = <<>> /\ Pair(frames[s], frames[Peer(s)])
           /\ Runs(frames[s], frames[Peer(s)], Out(s))
           /\ frames[s] # <<>> /\ frames[s] \in Seq(Frame)
           /\ Top(s) = frames[s][Len(frames[s])] /\ GoodFrame(Top(s))
<1>1. PICK t \in Side : HasTurn(t)
  BY DEF NestingInv
<1>2. frames[s] # <<>> /\ Top(s) = frames[s][Len(frames[s])] /\ Top(s).kind \in {"entry", "handler"}
  BY DEF HasTop, Top, Last
<1>3. frames[s] \in Seq(Frame)
  BY DEF NestingInv, RpcInv, TypeOK
<1>4. t = s
  <2>1. Waiting(frames[Peer(t)])
    BY <1>1 DEF HasTurn, Turn, Runs, HasCalled, HasAnswered
  <2>2. s # Peer(t)
    BY <1>2, <2>1 DEF Waiting
  <2> QED BY <2>2, Peers
<1>5. HasTurn(s)
  BY <1>1, <1>4
<1>6. Runs(frames[s], frames[Peer(s)], Out(s))
  BY <1>2, <1>5 DEF HasTurn, Turn, HasCalled, HasAnswered, Waiting
<1>7. GoodFrame(Top(s))
  <2>1. GoodStack(frames[s])
    BY <1>5 DEF HasTurn, Pair
  <2>2. Len(frames[s]) \in 1 .. Len(frames[s])
    BY <1>2, <2>1, Heights
  <2> QED BY <1>2, <2>1, <2>2, Heights
<1> QED BY <1>2, <1>3, <1>5, <1>6, <1>7 DEF HasTurn

\* A side that has something to read waits for its peer, which has the turn.
LEMMA ReaderWaits ==
    ASSUME NestingInv, NEW s \in Side, Blocked(s), pipe[Peer(s)] # <<>>
    PROVE  /\ Out(s) = <<>> /\ Pair(frames[Peer(s)], frames[s])
           /\ Turn(frames[Peer(s)], frames[s], Out(Peer(s)))
           /\ Out(Peer(s)) # <<>> /\ Out(Peer(s)) \in Seq(Block)
           /\ frames[s] # <<>> /\ frames[s] \in Seq(Frame)
           /\ Top(s) = frames[s][Len(frames[s])] /\ Top(s).kind \in {"main", "call"}
           /\ Top(s) = Receiver(frames[s]) /\ GoodFrame(Top(s)) /\ Top(s).values \in Seq(PushBlock)
<1>1. PICK t \in Side : HasTurn(t)
  BY DEF NestingInv
<1>2. /\ frames[s] # <<>> /\ Top(s) = frames[s][Len(frames[s])] /\ Top(s).kind \in {"main", "call"}
      /\ frames[s] \in Seq(Frame)
  BY DEF Blocked, HasTop, Top, Last, NestingInv, RpcInv, TypeOK
<1>3. Out(Peer(s)) # <<>> /\ Out(Peer(s)) \in Seq(Block)
  BY OutRead, OutTyped, Peers DEF NestingInv, RpcInv
<1>4. t = Peer(s)
  <2>1. t # s
    BY <1>1, <1>3 DEF HasTurn
  <2> QED BY <2>1, Peers
<1>5. HasTurn(Peer(s)) /\ Peer(Peer(s)) = s
  BY <1>1, <1>4, Peers
<1>6. Top(s) = Receiver(frames[s]) /\ GoodFrame(Top(s)) /\ Top(s).values \in Seq(PushBlock)
  <2>1. GoodStack(frames[s])
    BY <1>5 DEF HasTurn, Pair
  <2>2. Len(frames[s]) \in 1 .. Len(frames[s]) /\ Height(frames[s]) = Len(frames[s])
    BY <1>2, <2>1, Heights
  <2> QED BY <1>2, <2>1, <2>2, Heights, FrameKinds DEF Receiver
<1> QED BY <1>2, <1>3, <1>5, <1>6 DEF HasTurn

\* What has to be shown of a step of side s which leaves the turn with it, or
\* takes it.
LEMMA TurnKept ==
    ASSUME NestingInv, RpcInv', fault' = "none", NEW s \in Side, NEW t \in Side,
           frames'[Peer(s)] = frames[Peer(s)], Bottom(s, frames'[s]),
           Out(Peer(t))' = <<>>, Pair(frames'[t], frames'[Peer(t)]),
           Turn(frames'[t], frames'[Peer(t)], Out(t)')
    PROVE  NestingInv'
<1>1. Bottoms'
  <2> SUFFICES ASSUME NEW u \in Side PROVE Bottom(u, frames'[u])
    BY DEF Bottoms
  <2>1. CASE u = s
    BY <2>1
  <2>2. CASE u = Peer(s)
    BY <2>2 DEF NestingInv, Bottoms
  <2> QED BY <2>1, <2>2, Peers
<1>2. HasTurn(t)'
  BY DEF HasTurn
<1> QED BY <1>1, <1>2 DEF NestingInv

LEMMA BlocksToWrite ==
    ASSUME NEW c \in Call
    PROVE  /\ Append(Args(c), CallDirect(c)) \in Seq(Block) /\ Append(Args(c), CallDirect(c)) # <<>>
           /\ <<Return(c)>> \in Seq(Block)
           /\ <<NotifyArg, Notification>> \in Seq(Block)
<1>1. Args(c) \in Seq(PushBlock) /\ PushBlock \subseteq Block /\ CallDirect(c) \in Block
      /\ Return(c) \in Block /\ NotifyArg \in Block /\ Notification \in Block
  BY BlockTypes
<1>2. Args(c) \in Seq(Block)
  BY <1>1, SeqMonotonic
<1> QED BY <1>1, <1>2, AppendProperties

-----------------------------------------------------------------------------
\* The steps.
LEMMA StartCallTurn ==
    ASSUME NestingInv, NEW s \in Side, NEW c \in Call, StartCall(s, c)
    PROVE  NestingInv'
<1> DEFINE q == frames[s]
           r == frames[Peer(s)]
           g == Spend(Top(s))
           p == Front(q) \o <<g>>
           z == Append(p, Reading(c))
           blocks == Append(Args(c), CallDirect(c))
<1>1. HasTop(s, {"entry", "handler"}) /\ Top(s).budget > 0
  BY DEF StartCall, Running
<1>2. /\ Out(Peer(s)) = <<>> /\ Pair(q, r) /\ Runs(q, r, Out(s)) /\ q # <<>> /\ q \in Seq(Frame)
      /\ Top(s) = q[Len(q)] /\ GoodFrame(Top(s))
  BY <1>1, RunningHasTurn
<1>3. Top(s).kind \in {"entry", "handler"} /\ Top(s) \in Frame
  BY <1>1, <1>2 DEF HasTop, GoodFrame
<1>4. GoodFrame(g) /\ g.kind = Top(s).kind /\ g \in Frame
      /\ (g.kind = "handler" => g.id = Top(s).id /\ g.written = Top(s).written)
  <2>1. g \in Frame /\ g.kind = Top(s).kind
    BY <1>1, <1>3, ChangedFrames
  <2>2. g = [Top(s) EXCEPT !.budget = Top(s).budget - 1]
    BY DEF Spend
  <2>3. Top(s).kind = "handler" => g.id = Top(s).id /\ g.written = Top(s).written /\ g.args = Top(s).args
    BY <1>3, <2>2 DEF Frame
  <2> QED BY <1>2, <2>1, <2>3 DEF GoodFrame
<1>5. Written(g) = Written(q[Len(q)])
  BY <1>2, <1>4 DEF Written
<1>6. Replaced(q, p, g) /\ Front(q) \o <<g, Reading(c)>> = z
  <2>1. Reading(c) \in Frame
    BY EmptySeq, NewFrames
  <2> QED BY <1>2, <1>4, <2>1, StackOps
<1>7. frames' = [frames EXCEPT ![s] = z] /\ Write(s, blocks)
  BY <1>6 DEF StartCall, SetTop
<1>8. TypeOK /\ frames \in [Side -> Seq(Frame)] /\ Peer(s) \in Side /\ Peer(s) # s
  BY Peers DEF NestingInv, RpcInv, TypeOK
<1>9. Out(s)' = Out(s) \o blocks /\ Out(Peer(s))' = <<>> /\ fault' = "none"
  <2>1. blocks \in Seq(Block)
    BY BlocksToWrite
  <2> QED BY <1>2, <1>7, <1>8, <2>1, OutWritten DEF NestingInv
<1>10. Out(s) \in Seq(Block)
  BY <1>8, OutTyped
<1>11. frames'[s] = z /\ frames'[Peer(s)] = r
  BY <1>7, <1>8
<1> HIDE DEF q, r, g
<1>12. Pair(z, r) /\ HasCalled(z, r, Out(s)')
  <2> HIDE DEF p
  <2> QED BY <1>2, <1>4, <1>5, <1>6, <1>9, <1>10, RunsToHasCalled
<1>13. Bottom(s, z)
  <2>1. Bottom(s, q)
    BY DEF NestingInv, Bottoms, q
  <2>2. Bottom(s, p) /\ p # <<>> /\ p \in Seq(Frame) /\ Reading(c) \in Frame
    BY <1>2, <1>4, <1>6, <2>1, BottomKept, EmptySeq, NewFrames DEF Replaced
  <2> HIDE DEF p
  <2> QED BY <2>2, BottomKept
<1>14. RpcInv'
  BY StartCallStep DEF NestingInv
<1> HIDE DEF z, blocks
<1> QED BY <1>9, <1>11, <1>12, <1>13, <1>14, TurnKept DEF Turn, r

\* The running side writes something that leaves the turn with it.
LEMMA StillRuns ==
    ASSUME NestingInv, NEW s \in Side, HasTop(s, {"entry", "handler"}), NEW more \in Seq(Block),
           NEW g, SetTop(s, <<g>>), Write(s, more), RpcInv',
           GoodFrame(g), g.kind = Top(s).kind, g.kind = "handler" => g.id = Top(s).id,
           NoControl(Out(s) \o more),
           Carries(Receiver(frames[Peer(s)]).values, Out(s) \o more, Written(g))
    PROVE  NestingInv'
<1> DEFINE q == frames[s]
           r == frames[Peer(s)]
           p == Front(q) \o <<g>>
<1>1. /\ Out(Peer(s)) = <<>> /\ Pair(q, r) /\ Runs(q, r, Out(s)) /\ q # <<>> /\ q \in Seq(Frame)
      /\ Top(s) = q[Len(q)]
  BY RunningHasTurn
<1>2. Replaced(q, p, g)
  BY <1>1, StackOps DEF GoodFrame
<1>3. TypeOK /\ frames \in [Side -> Seq(Frame)] /\ Peer(s) \in Side /\ Peer(s) # s
  BY Peers DEF NestingInv, RpcInv, TypeOK
<1>4. Out(s)' = Out(s) \o more /\ Out(Peer(s))' = <<>> /\ fault' = "none"
  BY <1>1, <1>3, OutWritten DEF NestingInv
<1>5. frames'[s] = p /\ frames'[Peer(s)] = r
  BY <1>3 DEF SetTop
<1>6. Bottom(s, q)
  BY DEF NestingInv, Bottoms
<1> HIDE DEF p
<1>7. Pair(p, r) /\ Runs(p, r, Out(s) \o more)
  <2> HIDE DEF q
  <2>1. Carries(Receiver(r).values, Out(s) \o more, Written(g))
    OBVIOUS
  <2> HIDE DEF r
  <2> QED BY <1>1, <1>2, <2>1, RunsOn
<1>8. Bottom(s, p)
  BY <1>1, <1>2, <1>6, BottomKept
<1> QED BY <1>4, <1>5, <1>7, <1>8, TurnKept DEF Turn

LEMMA Spent ==
    ASSUME NEW f, GoodFrame(f), f.kind \in {"entry", "handler"}, f.budget > 0
    PROVE  /\ GoodFrame(Spend(f)) /\ Spend(f).kind = f.kind
           /\ f.kind = "handler" => Spend(f).id = f.id
           /\ Written(Spend(f)) = Written(f)
<1>1. f \in Frame
  BY DEF GoodFrame
<1>2. Spend(f) \in Frame /\ Spend(f).kind = f.kind
  BY <1>1, ChangedFrames
<1>3. Spend(f) = [f EXCEPT !.budget = f.budget - 1]
  BY DEF Spend
<1>4. f.kind = "handler" => /\ Spend(f).id = f.id /\ Spend(f).written = f.written
                            /\ Spend(f).args = f.args
  BY <1>1, <1>3 DEF Frame
<1> QED BY <1>2, <1>4 DEF GoodFrame, Written

LEMMA NotifyTurn ==
    ASSUME NestingInv, NEW s \in Side, Notify(s)
    PROVE  NestingInv'
<1> DEFINE more == <<NotifyArg, Notification>>
           out == Out(s)
           g == Spend(Top(s))
           v == Receiver(frames[Peer(s)]).values
<1>1. /\ HasTop(s, {"entry", "handler"}) /\ Top(s).budget > 0 /\ SetTop(s, <<g>>) /\ Write(s, more)
  BY DEF Notify, Running
<1>2. /\ Runs(frames[s], frames[Peer(s)], out) /\ frames[s] # <<>>
      /\ Top(s) = frames[s][Len(frames[s])] /\ GoodFrame(Top(s)) /\ Top(s).kind \in {"entry", "handler"}
  BY <1>1, RunningHasTurn DEF HasTop
<1>3. out \in Seq(Block)
  BY OutTyped DEF NestingInv, RpcInv
<1>4. more \in Seq(Block)
  <2>1. NotifyArg \in Block /\ Notification \in Block
    BY BlocksDiffer
  <2> QED BY <2>1
<1>5. NoControl(out) /\ Carries(v, out, Written(Top(s)))
  BY <1>2 DEF Runs, Produced
<1>6. GoodFrame(g) /\ g.kind = Top(s).kind /\ (g.kind = "handler" => g.id = Top(s).id)
      /\ Written(g) = Written(Top(s))
  BY <1>1, <1>2, Spent
<1> HIDE DEF out, g, v
<1>7. Written(Top(s)) \in Seq(Value)
  BY <1>2, Totals
<1>8. Carries(v, out \o more, Written(Top(s)))
  BY <1>3, <1>4, <1>5, <1>7, CarriesOther
<1>9. NoControl(out \o more)
  <2>1. /\ Len(more) = 2 /\ Len(out) \in Nat
        /\ Len(out \o more) = Len(out) + 2
    BY <1>3, <1>4, ConcatProperties, LenProperties
  <2>2. more[1] \notin ControlBlock /\ more[2] \notin ControlBlock
    BY BlocksDiffer
  <2>3. \A i \in 1 .. Len(out) + 2 : (out \o more)[i] = IF i <= Len(out) THEN out[i] ELSE more[i - Len(out)]
    BY <1>3, <1>4, <2>1, ConcatProperties
  <2> SUFFICES ASSUME NEW i \in 1 .. Len(out) + 2 PROVE (out \o more)[i] \notin ControlBlock
    BY <2>1 DEF NoControl
  <2>4. CASE i <= Len(out)
    <3>1. i \in 1 .. Len(out)
      BY <2>1, <2>4
    <3> QED BY <1>5, <2>3, <2>4, <3>1 DEF NoControl
  <2>5. CASE ~(i <= Len(out))
    <3>1. i - Len(out) \in {1, 2}
      BY <2>1, <2>5
    <3> HIDE DEF more
    <3> QED BY <2>2, <2>3, <2>5, <3>1
  <2> QED BY <2>4, <2>5
<1>10. RpcInv'
  BY NotifyStep DEF NestingInv
<1> HIDE DEF more
<1> QED BY <1>1, <1>4, <1>6, <1>8, <1>9, <1>10, StillRuns DEF out, v

LEMMA WriteResultTurn ==
    ASSUME NestingInv, NEW s \in Side, WriteResult(s)
    PROVE  NestingInv'
<1> DEFINE f == Top(s)
           k == f.written + 1
           more == <<Results(f.id)[k]>>
           out == Out(s)
           g == [f EXCEPT !.written = k]
           v == Receiver(frames[Peer(s)]).values
<1>1. /\ HasTop(s, {"entry", "handler"}) /\ f.kind = "handler" /\ f.written < NumResults[f.id]
      /\ SetTop(s, <<g>>) /\ Write(s, more)
  BY DEF WriteResult, Running
<1>2. /\ Runs(frames[s], frames[Peer(s)], out) /\ frames[s] # <<>>
      /\ f = frames[s][Len(frames[s])] /\ GoodFrame(f)
  BY <1>1, RunningHasTurn
<1>3. out \in Seq(Block)
  BY OutTyped DEF NestingInv, RpcInv
<1> HIDE DEF f, out, v
<1>4. /\ f \in Frame /\ f.id \in Call /\ f.args = Args(f.id) /\ f.written \in 0 .. NumResults[f.id]
      /\ Results(f.id) \in Seq(Value) /\ Len(Results(f.id)) = NumResults[f.id] /\ NumResults[f.id] \in Nat
  <2>1. /\ f \in Frame /\ f.id \in Call /\ f.args = Args(f.id) /\ f.written \in 0 .. NumResults[f.id]
    BY <1>1, <1>2, FrameKinds DEF GoodFrame
  <2> QED BY <2>1, Totals
<1>5. k \in 1 .. Len(Results(f.id)) /\ k - 1 = f.written /\ k \in 0 .. NumResults[f.id]
  BY <1>1, <1>4
<1>6. GoodFrame(g) /\ g.kind = "handler" /\ g.id = f.id /\ g.written = k
  <2>1. g \in Frame /\ g.kind = "handler"
    BY <1>1, <1>4, ChangedFrames
  <2>2. g.id = f.id /\ g.written = k /\ g.args = f.args
    <3> HIDE DEF k
    <3> QED BY <1>1, <1>4 DEF Frame
  <2> QED BY <1>4, <1>5, <2>1, <2>2 DEF GoodFrame
<1>7. NoControl(out) /\ Carries(v, out, Written(f))
  BY <1>2 DEF Runs, Produced, v
<1> HIDE DEF g
<1>8. Written(g) = Written(f) \o more /\ more \in Seq(Value)
  <2>1. SubSeq(Results(f.id), 1, k) = SubSeq(Results(f.id), 1, k - 1) \o <<Results(f.id)[k]>>
    <3>1. 1 \in 1 .. Len(Results(f.id)) /\ k \in 1 .. Len(Results(f.id))
      BY <1>4, <1>5
    <3> HIDE DEF k
    <3> QED BY <1>4, <3>1, SubSeqRecursiveSecond
  <2>2. Results(f.id)[k] \in Value
    <3> HIDE DEF k
    <3> QED BY <1>4, <1>5, ElementOfSeq
  <2>3. Written(g) = SubSeq(Results(f.id), 1, k)
    BY <1>6 DEF Written
  <2>4. Written(f) = SubSeq(Results(f.id), 1, k - 1)
    BY <1>1, <1>5 DEF Written
  <2> HIDE DEF k
  <2>5. more \in Seq(Value)
    BY <2>2
  <2>6. Written(g) = Written(f) \o more
    BY <2>1, <2>3, <2>4, Zenon
  <2> QED BY <2>5, <2>6
<1>9. Written(f) \in Seq(Value)
  BY <1>2, Totals
<1> HIDE DEF more
<1>10. Carries(v, out \o more, Written(g)) /\ NoControl(out \o more)
  BY <1>3, <1>7, <1>8, <1>9, CarriesValues
<1>11. more \in Seq(Block)
  <2>1. Value \subseteq Block
    BY BlocksDiffer
  <2> QED BY <1>8, <2>1, SeqMonotonic
<1>12. RpcInv'
  BY WriteResultStep DEF NestingInv
<1> QED BY <1>1, <1>6, <1>10, <1>11, <1>12, StillRuns DEF f, out, v

LEMMA ReturnCommandTurn ==
    ASSUME NestingInv, NEW s \in Side, ReturnCommand(s)
    PROVE  NestingInv'
<1> DEFINE q == frames[s]
           r == frames[Peer(s)]
           g == Returned(Top(s).id)
           p == Front(q) \o <<g>>
           more == <<Return(Top(s).id)>>
<1>1. /\ HasTop(s, {"entry", "handler"}) /\ Top(s).kind = "handler"
      /\ Top(s).written = NumResults[Top(s).id] /\ SetTop(s, <<g>>) /\ Write(s, more)
  BY DEF ReturnCommand, Running
<1>2. /\ Out(Peer(s)) = <<>> /\ Pair(q, r) /\ Runs(q, r, Out(s)) /\ q # <<>> /\ q \in Seq(Frame)
      /\ Top(s) = q[Len(q)] /\ GoodFrame(Top(s))
  BY <1>1, RunningHasTurn
<1>3. Top(s).id \in Call
  BY <1>1, <1>2, FrameKinds DEF GoodFrame
<1>4. GoodFrame(g) /\ g \in Frame /\ g.kind = "returned"
  BY <1>3, EmptySeq, NewFrames DEF GoodFrame, Returned
<1>5. Replaced(q, p, g)
  BY <1>2, <1>4, StackOps
<1>6. TypeOK /\ frames \in [Side -> Seq(Frame)] /\ Peer(s) \in Side /\ Peer(s) # s
  BY Peers DEF NestingInv, RpcInv, TypeOK
<1>7. Out(s)' = Out(s) \o more /\ Out(Peer(s))' = <<>> /\ fault' = "none"
  <2>1. more \in Seq(Block)
    BY <1>3, BlocksToWrite
  <2> HIDE DEF more
  <2> QED BY <1>1, <1>2, <1>6, <2>1, OutWritten DEF NestingInv
<1>8. frames'[s] = p /\ frames'[Peer(s)] = r
  BY <1>1, <1>6 DEF SetTop
<1>9. Bottom(s, q) /\ Out(s) \in Seq(Block)
  BY <1>6, OutTyped DEF NestingInv, Bottoms
<1> HIDE DEF p, g, q, r
<1>10. Pair(p, r) /\ HasAnswered(p, r, Out(s) \o more)
  BY <1>1, <1>2, <1>4, <1>5, <1>9, RunsToHasAnswered
<1>11. Bottom(s, p)
  BY <1>1, <1>2, <1>5, <1>9, BottomKept
<1>12. RpcInv'
  BY ReturnCommandStep DEF NestingInv
<1> HIDE DEF more
<1> QED BY <1>7, <1>8, <1>10, <1>11, <1>12, TurnKept DEF Turn, r

LEMMA FinishHandlerTurn ==
    ASSUME NestingInv, NEW s \in Side, FinishHandler(s)
    PROVE  NestingInv'
<1> DEFINE q == frames[s]
           p == Front(q) \o <<>>
<1>1. q # <<>> /\ Top(s) = q[Len(q)] /\ Top(s).kind = "returned" /\ SetTop(s, <<>>)
      /\ UNCHANGED <<buffer, flushing, pipe, fault>>
  BY DEF FinishHandler, HasTop, Top, Last
<1>2. TypeOK /\ frames \in [Side -> Seq(Frame)] /\ q \in Seq(Frame) /\ Peer(s) \in Side /\ Peer(s) # s
  BY Peers DEF NestingInv, RpcInv, TypeOK
<1>3. Shortened(q, p)
  <2>1. Entry \in Frame
    BY BudgetAssumption DEF Entry, Frame
  <2> QED BY <1>1, <1>2, <2>1, StackOps
<1>4. frames'[s] = p /\ frames'[Peer(s)] = frames[Peer(s)]
  BY <1>1, <1>2 DEF SetTop
<1>5. \A t \in Side : Out(t)' = Out(t)
  BY <1>1 DEF Out
<1>6. Bottom(s, q) /\ fault' = "none"
  BY <1>1 DEF NestingInv, Bottoms
<1>7. RpcInv'
  BY FinishHandlerStep DEF NestingInv
<1>8. Bottom(s, p)
  <2> HIDE DEF p
  <2> QED BY <1>1, <1>2, <1>3, <1>6, BottomKept
<1> HIDE DEF p, q
<1>9. PICK t \in Side : HasTurn(t)
  BY DEF NestingInv
<1>10. CASE t = s
  <2>1. Pair(p, frames[Peer(s)]) /\ Turn(p, frames[Peer(s)], Out(s))
    BY <1>1, <1>3, <1>9, <1>10, OwnFinishes DEF HasTurn, q
  <2>2. Out(Peer(s))' = <<>> /\ Out(s)' = Out(s)
    BY <1>2, <1>5, <1>9, <1>10 DEF HasTurn
  <2> QED BY <1>4, <1>6, <1>7, <1>8, <2>1, <2>2, TurnKept
<1>11. CASE t = Peer(s)
  <2>1. Peer(t) = s
    BY <1>11, Peers
  <2>2. Pair(frames[t], p) /\ Turn(frames[t], p, Out(t))
    BY <1>1, <1>3, <1>9, <2>1, PeerFinishes DEF HasTurn, q
  <2>3. Out(s)' = <<>> /\ Out(t)' = Out(t)
    BY <1>5, <1>9, <2>1 DEF HasTurn
  <2> QED BY <1>4, <1>6, <1>7, <1>8, <1>11, <2>1, <2>2, <2>3, TurnKept
<1> QED BY <1>10, <1>11, Peers

\* A block on its way changes nothing.
LEMMA MovedTurn ==
    ASSUME NestingInv, NEW s \in Side, Flush(s) \/ Spill(s)
    PROVE  NestingInv'
<1>1. /\ buffer[s] # <<>> /\ frames' = frames /\ fault' = fault
      /\ pipe' = [pipe EXCEPT ![s] = Append(@, Head(buffer[s]))]
      /\ buffer' = [buffer EXCEPT ![s] = Tail(@)]
  BY DEF Flush, Spill
<1>2. \A t \in Side : Out(t)' = Out(t)
  BY <1>1, OutMoved DEF NestingInv, RpcInv
<1>3. RpcInv'
  BY FlushStep, SpillStep DEF NestingInv
<1>4. Bottoms'
  BY <1>1 DEF NestingInv, Bottoms
<1>5. PICK t \in Side : HasTurn(t)
  BY DEF NestingInv
<1>6. HasTurn(t)'
  BY <1>1, <1>2, <1>5, Peers DEF HasTurn
<1> QED BY <1>1, <1>3, <1>4, <1>6 DEF NestingInv

LEMMA BrowserTurn ==
    ASSUME NestingInv, BrowserEnter \/ BrowserLeave
    PROVE  NestingInv'
<1> DEFINE s == "linux"
           r == frames[Peer(s)]
<1>1. /\ s \in Side /\ Peer(s) \in Side /\ Peer(s) # s /\ Peer(Peer(s)) = s /\ Side = {s, Peer(s)}
      /\ TypeOK /\ frames \in [Side -> Seq(Frame)]
  BY Peers DEF Side, NestingInv, RpcInv, TypeOK
<1>2. UNCHANGED <<buffer, flushing, pipe, fault>>
  BY DEF BrowserEnter, BrowserLeave
<1>3. \A t \in Side : Out(t)' = Out(t)
  BY <1>2 DEF Out
<1>4. RpcInv' /\ fault' = "none"
  BY <1>2, BrowserSteps DEF NestingInv
<1>5. CASE BrowserEnter
  <2>1. frames[s] = <<>> /\ frames'[s] = <<Entry>> /\ frames'[Peer(s)] = r
    BY <1>1, <1>5 DEF BrowserEnter
  <2>2. PICK t \in Side : HasTurn(t)
    BY DEF NestingInv
  <2>3. t = s
    <3>1. frames[Peer(t)] # <<>>
      BY <2>2 DEF HasTurn, Turn, Runs, HasCalled, HasAnswered, Waiting
    <3> QED BY <1>1, <2>1, <3>1
  <2>4. Pair(<<Entry>>, r) /\ Turn(<<Entry>>, r, Out(s)) /\ Out(Peer(s)) = <<>>
    BY <2>1, <2>2, <2>3, BrowserEnters DEF HasTurn
  <2>5. Bottom(s, <<Entry>>)
    BY DEF Bottom, Entry
  <2> QED BY <1>1, <1>3, <1>4, <2>1, <2>4, <2>5, TurnKept
<1>6. CASE BrowserLeave
  <2>1. /\ HasTop(s, {"entry"}) /\ frames'[s] = <<>> /\ frames'[Peer(s)] = r
    BY <1>1, <1>6 DEF BrowserLeave
  <2>2. /\ Out(Peer(s)) = <<>> /\ Pair(frames[s], r) /\ Runs(frames[s], r, Out(s))
        /\ frames[s] # <<>> /\ frames[s][Len(frames[s])].kind = "entry"
    <3>1. HasTop(s, {"entry", "handler"})
      BY <2>1 DEF HasTop
    <3> QED BY <1>1, <2>1, <3>1, RunningHasTurn DEF HasTop
  <2>3. Pair(<<>>, r) /\ Turn(<<>>, r, Out(s))
    BY <2>2, BrowserLeaves DEF Turn
  <2>4. Bottom(s, <<>>)
    BY DEF Bottom
  <2> QED BY <1>1, <1>3, <1>4, <2>1, <2>2, <2>3, <2>4, TurnKept
<1> QED BY <1>5, <1>6

-----------------------------------------------------------------------------
\* The block that is read, and what the readXXX functions find.
LEMMA ReadFacts ==
    ASSUME NestingInv, NEW s \in Side, Receive(s)
    PROVE  LET out   == Out(Peer(s))
               block == Head(pipe[Peer(s)])
               q     == frames[Peer(s)]
           IN  /\ Blocked(s) /\ pipe[Peer(s)] # <<>> /\ block = Head(out) /\ block \in Block
               /\ \/ block \in PushBlock /\ ReceivePush(s, block)
                  \/ /\ block \in ControlBlock /\ block.block = "call" /\ ReceiveCall(s, block)
                     /\ HasCalled(q, frames[s], out) /\ Len(out) = 1
                     /\ block = CallDirect(q[Len(q)].id) /\ q[Len(q)].id \in Call
                     /\ Top(s).values = Written(q[Len(q) - 1]) \o Args(q[Len(q)].id)
                     /\ Written(q[Len(q) - 1]) \in Seq(Value)
                  \/ /\ block = Notification /\ ReceiveNotification(s)
                     /\ Top(s).values # <<>> /\ Last(Top(s).values) = NotifyArg
                  \/ /\ block \in ControlBlock /\ block.block = "return" /\ ReceiveReturn(s)
                     /\ HasAnswered(q, frames[s], out) /\ Len(out) = 1
                     /\ block = Return(Top(s).id) /\ Top(s).kind = "call"
                     /\ Top(s).values = Results(Top(s).id)
<1> DEFINE out   == Out(Peer(s))
           block == Head(pipe[Peer(s)])
           q     == frames[Peer(s)]
<1>1. Blocked(s) /\ pipe[Peer(s)] # <<>>
  BY DEF Receive
<1>2. /\ Pair(q, frames[s]) /\ Turn(q, frames[s], out)
      /\ out # <<>> /\ out \in Seq(Block)
      /\ Top(s) = Receiver(frames[s])
  BY <1>1, ReaderWaits
<1>3. block = Head(out)
  BY <1>1, OutRead DEF NestingInv, RpcInv
<1>4. \/ block.block = "push" /\ ReceivePush(s, block)
      \/ block.block = "call" /\ ReceiveCall(s, block)
      \/ block.block = "async" /\ ReceiveNotification(s)
      \/ block.block = "return" /\ ReceiveReturn(s)
  BY DEF Receive
<1> HIDE DEF block, q, out
<1>5. /\ Head(out) \in Block
      /\ Head(out) = Notification =>
           /\ Receiver(frames[s]).values # <<>>
           /\ Receiver(frames[s]).values[Len(Receiver(frames[s]).values)] = NotifyArg
      /\ Head(out) \in ControlBlock /\ Head(out).block = "call" =>
           /\ HasCalled(q, frames[s], out) /\ Len(out) = 1 /\ Head(out) = CallDirect(q[Len(q)].id)
           /\ Receiver(frames[s]).values = Written(q[Len(q) - 1]) \o Args(q[Len(q)].id)
      /\ Head(out) \in ControlBlock /\ Head(out).block = "return" =>
           /\ HasAnswered(q, frames[s], out) /\ Len(out) = 1 /\ Head(out) = Return(Receiver(frames[s]).id)
           /\ Receiver(frames[s]).values = Results(Receiver(frames[s]).id)
  BY <1>2, AtHead
<1>6. block \in PushBlock \/ block \in ControlBlock \/ block = Notification
  BY <1>3, <1>5, BlocksDiffer
<1>7. CASE block \in PushBlock
  <2>1. block.block = "push"
    BY <1>7, BlocksDiffer
  <2> QED BY <1>1, <1>3, <1>4, <1>5, <1>7, <2>1 DEF block, out, q
<1>8. CASE block = Notification
  <2>1. block.block = "async"
    BY <1>8, BlocksDiffer
  <2>2. ReceiveNotification(s)
    BY <1>4, <2>1
  <2>3. Top(s).values # <<>> /\ Last(Top(s).values) = NotifyArg
    BY <1>2, <1>3, <1>5, <1>8 DEF Last
  <2> QED BY <1>1, <1>3, <1>5, <1>8, <2>2, <2>3 DEF block, out, q
<1>9. CASE block \in ControlBlock
  <2>1. block.block \in {"call", "return"}
    BY <1>9 DEF ControlBlock
  <2>2. CASE block.block = "call"
    <3>1. ReceiveCall(s, block)
      BY <1>4, <2>2
    <3>2. /\ HasCalled(q, frames[s], out) /\ Len(out) = 1 /\ block = CallDirect(q[Len(q)].id)
          /\ Top(s).values = Written(q[Len(q) - 1]) \o Args(q[Len(q)].id)
      BY <1>2, <1>3, <1>5, <1>9, <2>2
    <3>3. q[Len(q)].id \in Call /\ Written(q[Len(q) - 1]) \in Seq(Value)
      <4>1. GoodStack(q) /\ GoodStack(frames[s])
        BY <1>2 DEF Pair
      <4>2. Len(q) \in Nat /\ Len(q) > 1
        <5>1. Height(frames[s]) = Len(q) - 1 /\ Height(frames[s]) \in Nat /\ Height(frames[s]) > 0
              /\ Len(q) \in Nat
          <6>1. Waiting(frames[s]) /\ Height(frames[s]) = Len(q) - 1
            BY <3>2 DEF HasCalled
          <6>2. Height(frames[s]) \in 1 .. Len(frames[s]) /\ Len(frames[s]) \in Nat /\ Len(q) \in Nat
            BY <4>1, <6>1, WaitingReceiver, Heights
          <6> QED BY <6>1, <6>2
        <5> QED BY <5>1
      <4>3. Len(q) \in 1 .. Len(q) /\ Len(q) - 1 \in 1 .. Len(q)
        BY <4>2
      <4>4. GoodFrame(q[Len(q)]) /\ GoodFrame(q[Len(q) - 1]) /\ q[Len(q)].kind = "call"
        BY <3>2, <4>1, <4>3, Heights DEF HasCalled
      <4> QED BY <4>4, FrameKinds, Totals DEF GoodFrame
    <3> QED BY <1>1, <1>3, <1>5, <1>9, <2>2, <3>1, <3>2, <3>3 DEF block, out, q
  <2>3. CASE block.block = "return"
    <3>1. ReceiveReturn(s)
      BY <1>4, <2>3
    <3>2. /\ HasAnswered(q, frames[s], out) /\ Len(out) = 1 /\ block = Return(Top(s).id)
          /\ Top(s).values = Results(Top(s).id)
      BY <1>2, <1>3, <1>5, <1>9, <2>3
    <3>3. Top(s).kind = "call"
      BY <1>2, <3>2 DEF HasAnswered
    <3> QED BY <1>1, <1>3, <1>5, <1>9, <2>3, <3>1, <3>2, <3>3 DEF block, out, q
  <2> QED BY <2>1, <2>2, <2>3
<1> QED BY <1>6, <1>7, <1>8, <1>9

\* The values of an activation that reads are replaced.
LEMMA NewValues ==
    ASSUME NEW f, GoodFrame(f), f.kind \in {"main", "call"}, NEW v \in Seq(PushBlock)
    PROVE  LET g == [f EXCEPT !.values = v]
           IN  /\ GoodFrame(g) /\ g.kind = f.kind /\ g.values = v
               /\ g.kind = "call" => g.id = f.id
<1> DEFINE g == [f EXCEPT !.values = v]
<1>1. f \in Frame
  BY DEF GoodFrame
<1>2. g \in Frame /\ g.kind = f.kind
  BY <1>1, ChangedFrames
<1>3. g.values = v /\ (f.kind = "call" => g.id = f.id)
  BY <1>1 DEF Frame
<1> HIDE DEF g
<1>4. GoodFrame(g)
  BY <1>2 DEF GoodFrame
<1> QED BY <1>2, <1>3, <1>4 DEF g

\* A stream of one block is empty when that is read.
LEMMA LastRead ==
    ASSUME NEW out \in Seq(Block), Len(out) = 1
    PROVE  Tail(out) = <<>>
<1>1. out # <<>>
  BY EmptySeq
<1>2. Tail(out) \in Seq(Block) /\ Len(Tail(out)) = 0
  BY <1>1, HeadTailProperties
<1> QED BY <1>2, EmptySeq

\* The cases of readCommands.
LEMMA ReadOnTurn ==
    ASSUME NestingInv, NEW s \in Side, Receive(s), NEW v \in Seq(PushBlock),
           SetTop(s, <<[Top(s) EXCEPT !.values = v]>>), Consume(s),
           \/ Head(Out(Peer(s))) \in PushBlock /\ v = Append(Top(s).values, Head(Out(Peer(s))))
           \/ Head(Out(Peer(s))) = Notification
                /\ v = SubSeq(Top(s).values, 1, Len(Top(s).values) - 1)
    PROVE  NestingInv'
<1> DEFINE q == frames[Peer(s)]
           r == frames[s]
           g == [Top(s) EXCEPT !.values = v]
           p == Front(r) \o <<g>>
           out == Out(Peer(s))
<1>1. Blocked(s) /\ pipe[Peer(s)] # <<>>
  BY DEF Receive
<1>2. /\ Out(s) = <<>> /\ Pair(q, r) /\ Turn(q, r, out) /\ out # <<>> /\ out \in Seq(Block)
      /\ r # <<>> /\ r \in Seq(Frame) /\ Top(s) = r[Len(r)] /\ Top(s).kind \in {"main", "call"}
      /\ GoodFrame(Top(s))
  BY <1>1, ReaderWaits
<1>3. GoodFrame(g) /\ g.kind = Top(s).kind /\ g.values = v /\ (g.kind = "call" => g.id = Top(s).id)
  BY <1>2, NewValues
<1>4. g \in Frame
  BY <1>3 DEF GoodFrame
<1>5. Replaced(r, p, g)
  <2> HIDE DEF g
  <2> QED BY <1>2, <1>4, StackOps
<1>6. /\ TypeOK /\ frames \in [Side -> Seq(Frame)] /\ Peer(s) \in Side /\ Peer(s) # s /\ Peer(Peer(s)) = s
  BY Peers DEF NestingInv, RpcInv, TypeOK
<1>7. frames'[s] = p /\ frames'[Peer(s)] = q
  BY <1>6 DEF SetTop
<1>8. Out(Peer(s))' = Tail(out) /\ Out(s)' = <<>> /\ fault' = "none"
  BY <1>1, <1>2, <1>6, OutRead DEF NestingInv
<1>9. Bottom(s, r) /\ RpcInv'
  BY ReceiveStep DEF NestingInv, Bottoms
<1> HIDE DEF g, p
<1>10. Pair(q, p) /\ Turn(q, p, Tail(out))
  <2>1. \/ Head(out) \in PushBlock /\ g.values = Append(r[Len(r)].values, Head(out))
        \/ Head(out) = Notification
             /\ g.values = SubSeq(r[Len(r)].values, 1, Len(r[Len(r)].values) - 1)
    BY <1>2, <1>3
  <2> HIDE DEF q, r, out
  <2> QED BY <1>2, <1>3, <1>5, <2>1, ReadsOn
<1>11. Bottom(s, p)
  BY <1>2, <1>3, <1>5, <1>9, BottomKept
<1> QED BY <1>6, <1>7, <1>8, <1>9, <1>10, <1>11, TurnKept

\* readXXX takes the values that were pushed last and leaves the others.
LEMMA TakenFromBack ==
    ASSUME NEW w \in Seq(Value), NEW a \in Seq(Value)
    PROVE  Below(w \o a, Len(a)) = w /\ Popped(w \o a, Len(a)) = a
<1> DEFINE z == w \o a
           l == Len(w) + 1
           u == Len(w) + Len(a)
           b == SubSeq(z, l, u)
<1>1. /\ Len(z) = Len(w) + Len(a) /\ Len(w) \in Nat /\ Len(a) \in Nat
      /\ z \in Seq(Value) /\ \A i \in 1 .. Len(w) + Len(a) :
           z[i] = IF i <= Len(w) THEN w[i] ELSE a[i - Len(w)]
  BY ConcatProperties, LenProperties
<1>2. Below(z, Len(a)) = w
  <2>1. Len(w) \in 0 .. Len(w) /\ Len(z) - Len(a) = Len(w)
    BY <1>1
  <2>2. SubSeq(z, 1, Len(w)) = SubSeq(w, 1, Len(w))
    BY <2>1, PrefixOfConcat
  <2>3. SubSeq(w, 1, Len(w)) = w
    BY SubSeqFull
  <2> HIDE DEF z
  <2> QED BY <2>1, <2>2, <2>3 DEF Below
<1> HIDE DEF z
<1>3. /\ l \in Int /\ u \in Int /\ \A i \in l .. u : z[i] \in Value
  <2>1. l \in Int /\ u \in Int
    BY <1>1
  <2>2. ASSUME NEW i \in l .. u PROVE z[i] \in Value
    <3>1. i \in 1 .. Len(z)
      BY <1>1
    <3> QED BY <1>1, <3>1, ElementOfSeq
  <2> QED BY <2>1, <2>2
<1>4. u - l + 1 = Len(a) /\ (IF l <= u THEN u - l + 1 ELSE 0) = Len(a)
  BY <1>1
<1>5. \A i \in 1 .. Len(a) : z[l + i - 1] = a[i]
  <2> TAKE i \in 1 .. Len(a)
  <2>1. l + i - 1 = Len(w) + i /\ Len(w) + i \in 1 .. Len(w) + Len(a) /\ ~(Len(w) + i <= Len(w))
        /\ Len(w) + i - Len(w) = i
    BY <1>1
  <2> HIDE DEF l
  <2> QED BY <1>1, <2>1
<1>6. Len(z) - Len(a) + 1 = l /\ Len(z) = u
  BY <1>1
<1> HIDE DEF l, u
<1>7. /\ b \in Seq(Value) /\ Len(b) = IF l <= u THEN u - l + 1 ELSE 0
      /\ \A i \in 1 .. u - l + 1 : b[i] = z[l + i - 1]
  BY <1>3, SubSeqProperties
<1> HIDE DEF b
<1>8. Len(b) = Len(a) /\ \A i \in 1 .. Len(b) : b[i] = a[i]
  BY <1>4, <1>5, <1>7
<1>9. b = a
  BY <1>7, <1>8, SeqEqual
<1>10. Popped(z, Len(a)) = a
  BY <1>6, <1>9 DEF Popped, b
<1> QED BY <1>2, <1>10 DEF z

LEMMA ReceiveCallTurn ==
    ASSUME NestingInv, NEW s \in Side, NEW block, Receive(s), ReceiveCall(s, block),
           HasCalled(frames[Peer(s)], frames[s], Out(Peer(s))), Len(Out(Peer(s))) = 1,
           block = CallDirect(frames[Peer(s)][Len(frames[Peer(s)])].id),
           frames[Peer(s)][Len(frames[Peer(s)])].id \in Call,
           Written(frames[Peer(s)][Len(frames[Peer(s)]) - 1]) \in Seq(Value),
           Top(s).values = Written(frames[Peer(s)][Len(frames[Peer(s)]) - 1])
                               \o Args(frames[Peer(s)][Len(frames[Peer(s)])].id)
    PROVE  NestingInv'
<1> DEFINE q == frames[Peer(s)]
           r == frames[s]
           c == q[Len(q)].id
           w == Written(q[Len(q) - 1])
           g == [Top(s) EXCEPT !.values = w]
           h == Handler(c, Args(c))
           p == Front(r) \o <<g>>
           z == Append(p, h)
           out == Out(Peer(s))
<1>1. Blocked(s) /\ pipe[Peer(s)] # <<>>
  BY DEF Receive
<1>2. /\ Out(s) = <<>> /\ Pair(q, r) /\ out # <<>> /\ out \in Seq(Block)
      /\ r # <<>> /\ r \in Seq(Frame) /\ Top(s) = r[Len(r)] /\ Top(s).kind \in {"main", "call"}
      /\ GoodFrame(Top(s)) /\ Top(s).values \in Seq(PushBlock)
  BY <1>1, ReaderWaits
<1>3. /\ c \in Call /\ block.id = c /\ Args(c) \in Seq(Value) /\ Len(Args(c)) = NumArgs[c]
      /\ NumArgs[c] \in Nat /\ w \in Seq(Value) /\ Top(s).values = w \o Args(c)
  <2>1. c \in Call /\ w \in Seq(Value) /\ Top(s).values = w \o Args(c)
    OBVIOUS
  <2>2. block.id = c
    BY DEF CallDirect
  <2> HIDE DEF c, w
  <2> QED BY <2>1, <2>2, Totals
<1> HIDE DEF c, w
<1>4. /\ ~(Len(Top(s).values) < NumArgs[c])
      /\ Below(Top(s).values, NumArgs[c]) = w /\ Popped(Top(s).values, NumArgs[c]) = Args(c)
  <2>1. Below(w \o Args(c), Len(Args(c))) = w /\ Popped(w \o Args(c), Len(Args(c))) = Args(c)
    BY <1>3, TakenFromBack
  <2>2. Len(w \o Args(c)) = Len(w) + Len(Args(c)) /\ Len(w) \in Nat
    BY <1>3, ConcatProperties, LenProperties, ZenonT(60)
  <2> DEFINE n == NumArgs[c]
             wz == w \o Args(c)
  <2>3. n \in Nat /\ Len(Args(c)) = n /\ Top(s).values = wz
    BY <1>3
  <2>4. Len(wz) = Len(w) + n /\ Below(wz, n) = w /\ Popped(wz, n) = Args(c)
    BY <2>1, <2>2, <2>3
  <2> HIDE DEF n, wz
  <2>5. ~(Len(wz) < n)
    BY <2>2, <2>3, <2>4
  <2> QED BY <2>3, <2>4, <2>5 DEF n
<1>5. SetTop(s, <<g, h>>) /\ Consume(s)
  BY <1>3, <1>4 DEF ReceiveCall
<1>6. /\ Value \subseteq PushBlock /\ w \in Seq(PushBlock) /\ Args(c) \in Seq(PushBlock)
  <2>1. Value \subseteq PushBlock
    BY BlocksDiffer
  <2> QED BY <1>3, <2>1, SeqMonotonic
<1>7. GoodFrame(g) /\ g.kind = Top(s).kind /\ g.values = w /\ (g.kind = "call" => g.id = Top(s).id)
  BY <1>2, <1>6, NewValues
<1>8. GoodFrame(h) /\ h.kind = "handler" /\ h.id = c /\ h.written = 0
  <2>1. h \in Frame
    BY <1>3, <1>6, NewFrames
  <2>2. h.kind = "handler" /\ h.id = c /\ h.written = 0 /\ h.args = Args(c)
    BY DEF Handler
  <2>3. 0 \in 0 .. NumResults[c]
    BY <1>3, Totals
  <2> HIDE DEF h
  <2> QED BY <2>1, <2>2, <2>3 DEF GoodFrame
<1>9. g \in Frame /\ h \in Frame
  BY <1>7, <1>8 DEF GoodFrame
<1> HIDE DEF g, h
<1>10. Replaced(r, p, g) /\ Front(r) \o <<g, h>> = z
  BY <1>2, <1>9, StackOps
<1>11. /\ TypeOK /\ frames \in [Side -> Seq(Frame)] /\ Peer(s) \in Side /\ Peer(s) # s /\ Peer(Peer(s)) = s
  BY Peers DEF NestingInv, RpcInv, TypeOK
<1>12. frames'[s] = z /\ frames'[Peer(s)] = q
  BY <1>5, <1>10, <1>11 DEF SetTop
<1>13. Out(Peer(s))' = <<>> /\ Out(s)' = <<>> /\ fault' = "none"
  BY <1>1, <1>2, <1>5, <1>11, OutRead, LastRead DEF NestingInv
<1>14. Bottom(s, r) /\ RpcInv'
  BY ReceiveStep DEF NestingInv, Bottoms
<1>15. Pair(z, q) /\ Runs(z, q, <<>>)
  <2>1. g.values = Written(q[Len(q) - 1]) /\ h.id = q[Len(q)].id
    BY <1>7, <1>8 DEF w, c
  <2>2. HasCalled(q, r, out)
    OBVIOUS
  <2> HIDE DEF p, q, r, out
  <2> QED BY <1>2, <1>7, <1>8, <1>10, <2>1, <2>2, Dispatched
<1>16. Bottom(s, z)
  <2>1. Bottom(s, p) /\ p # <<>> /\ p \in Seq(Frame)
    <3> HIDE DEF p
    <3> QED BY <1>2, <1>7, <1>10, <1>14, BottomKept DEF Replaced
  <2> HIDE DEF p
  <2> QED BY <1>9, <2>1, BottomKept
<1> HIDE DEF z
<1> QED BY <1>11, <1>12, <1>13, <1>14, <1>15, <1>16, TurnKept DEF Turn

LEMMA ReceiveReturnTurn ==
    ASSUME NestingInv, NEW s \in Side, Receive(s), SetTop(s, <<>>), Consume(s),
           HasAnswered(frames[Peer(s)], frames[s], Out(Peer(s))), Len(Out(Peer(s))) = 1,
           Top(s).kind = "call"
    PROVE  NestingInv'
<1> DEFINE q == frames[Peer(s)]
           r == frames[s]
           p == Front(r) \o <<>>
           out == Out(Peer(s))
<1>1. Blocked(s) /\ pipe[Peer(s)] # <<>>
  BY DEF Receive
<1>2. /\ Out(s) = <<>> /\ Pair(q, r) /\ out \in Seq(Block)
      /\ r # <<>> /\ r \in Seq(Frame) /\ Top(s) = r[Len(r)] /\ GoodFrame(Top(s))
  BY <1>1, ReaderWaits
<1>3. Shortened(r, p)
  BY <1>2, StackOps DEF GoodFrame
<1>4. /\ TypeOK /\ frames \in [Side -> Seq(Frame)] /\ Peer(s) \in Side /\ Peer(s) # s /\ Peer(Peer(s)) = s
  BY Peers DEF NestingInv, RpcInv, TypeOK
<1>5. frames'[s] = p /\ frames'[Peer(s)] = q
  BY <1>4 DEF SetTop
<1>6. Out(Peer(s))' = <<>> /\ Out(s)' = <<>> /\ fault' = "none"
  BY <1>1, <1>2, <1>4, OutRead, LastRead DEF NestingInv
<1>7. Bottom(s, r) /\ RpcInv'
  BY ReceiveStep DEF NestingInv, Bottoms
<1> HIDE DEF p
<1>8. Pair(p, q) /\ Runs(p, q, <<>>)
  <2>1. HasAnswered(q, r, out) /\ r[Len(r)].kind # "returned"
    BY <1>2
  <2> HIDE DEF q, r, out
  <2> QED BY <1>2, <1>3, <2>1, HasReturned
<1>9. Bottom(s, p)
  BY <1>2, <1>3, <1>7, BottomKept
<1> QED BY <1>4, <1>5, <1>6, <1>7, <1>8, <1>9, TurnKept DEF Turn

LEMMA ReceiveTurn ==
    ASSUME NestingInv, NEW s \in Side, Receive(s)
    PROVE  NestingInv'
<1> DEFINE block == Head(pipe[Peer(s)])
           values == Top(s).values
           q == frames[Peer(s)]
           out == Out(Peer(s))
<1>1. block = Head(out) /\ Blocked(s) /\ pipe[Peer(s)] # <<>>
  BY ReadFacts
<1>2. values \in Seq(PushBlock)
  BY <1>1, ReaderWaits
<1>3. CASE block \in PushBlock /\ ReceivePush(s, block)
  <2>1. Append(values, block) \in Seq(PushBlock)
    BY <1>2, <1>3, AppendProperties
  <2> QED BY <1>1, <1>3, <2>1, ReadOnTurn DEF ReceivePush
<1>4. CASE /\ ReceiveCall(s, block) /\ HasCalled(q, frames[s], out) /\ Len(out) = 1
           /\ block = CallDirect(q[Len(q)].id) /\ q[Len(q)].id \in Call
           /\ values = Written(q[Len(q) - 1]) \o Args(q[Len(q)].id)
           /\ Written(q[Len(q) - 1]) \in Seq(Value)
  <2> HIDE DEF block
  <2> QED BY <1>4, ReceiveCallTurn
<1>5. CASE /\ block = Notification /\ ReceiveNotification(s)
           /\ values # <<>> /\ Last(values) = NotifyArg
  <2>1. Below(values, 1) = SubSeq(values, 1, Len(values) - 1)
    BY DEF Below
  <2>2. Below(values, 1) \in Seq(PushBlock)
    <3>1. 1 <= Len(values)
      BY <1>2, <1>5, LenProperties, EmptySeq
    <3> QED BY <1>2, <3>1, PoppedAndBelow
  <2>3. SetTop(s, <<[Top(s) EXCEPT !.values = Below(values, 1)]>>) /\ Consume(s)
    BY <1>5 DEF ReceiveNotification
  <2> QED BY <1>1, <1>5, <2>1, <2>2, <2>3, ReadOnTurn
<1>6. CASE /\ ReceiveReturn(s) /\ HasAnswered(q, frames[s], out) /\ Len(out) = 1
           /\ Top(s).kind = "call" /\ values = Results(Top(s).id)
  <2>1. ~(Len(values) < NumResults[Top(s).id])
    <3>1. Top(s).id \in Call
      <4>1. Top(s) \in Frame
        BY <1>1, ReaderWaits DEF GoodFrame
      <4> QED BY <1>6, <4>1, FrameKinds
    <3>2. Len(values) = NumResults[Top(s).id] /\ NumResults[Top(s).id] \in Nat
      BY <1>6, <3>1, Totals
    <3> QED BY <3>2
  <2>2. SetTop(s, <<>>) /\ Consume(s)
    BY <1>6, <2>1 DEF ReceiveReturn
  <2> QED BY <1>6, <2>2, ReceiveReturnTurn
<1> HIDE DEF block, values, q, out
<1> QED BY <1>3, <1>4, <1>5, <1>6, ReadFacts DEF block, values, q, out

-----------------------------------------------------------------------------
LEMMA NestingInit == Init => NestingInv
<1> SUFFICES ASSUME Init PROVE NestingInv
  OBVIOUS
<1>1. /\ frames["linux"] = <<>> /\ frames["windows"] = <<Main>> /\ fault = "none"
      /\ \A s \in Side : pipe[s] = <<>> /\ buffer[s] = <<>>
  BY DEF Init, Side
<1>2. RpcInv
  BY InitTyped DEF Init, BufferOfHandler, RpcInv
<1>3. Bottoms
  BY <1>1 DEF Bottoms, Bottom, Side, Main
<1>4. "linux" \in Side /\ Peer("linux") = "windows" /\ "windows" \in Side
  BY DEF Side, Peer
<1>5. Out("linux") = <<>> /\ Out("windows") = <<>>
  BY <1>1, <1>4 DEF Out
<1> DEFINE r == <<Main>>
<1>6. Main \in Frame /\ Main.kind = "main" /\ Main.values = <<>> /\ GoodFrame(Main)
  BY EmptySeq DEF Main, Frame, GoodFrame
<1>7. r \in Seq(Frame) /\ r # <<>> /\ Len(r) = 1 /\ r[1] = Main
  BY <1>6
<1> HIDE DEF r
<1>8. GoodStack(r) /\ Height(r) = 1
  BY <1>6, <1>7 DEF GoodStack, Height
<1>9. GoodStack(<<>>) /\ Height(<<>>) = 0
  BY EmptySeq DEF GoodStack, Height
<1>10. Pair(<<>>, r)
  BY <1>8, <1>9 DEF Pair, Matched, Settled
<1>11. NoControl(<<>>) /\ Carries(<<>>, <<>>, <<>>)
  <2>1. <<>> \in Seq(Value)
    BY EmptySeq
  <2>2. Carries(<<>>, <<>>, <<>>)
    BY <2>1, CarriesNothing
  <2> QED BY <2>2 DEF NoControl
<1>12. Runs(<<>>, r, <<>>)
  BY <1>6, <1>7, <1>8, <1>11 DEF Runs, Waiting, Receiver, Produced
<1>13. HasTurn("linux")
  BY <1>1, <1>4, <1>5, <1>10, <1>12 DEF HasTurn, Turn, r
<1> QED BY <1>1, <1>2, <1>3, <1>4, <1>13 DEF NestingInv

LEMMA NestingStep == NestingInv /\ [Next]_vars => NestingInv'
<1> SUFFICES ASSUME NestingInv, [Next]_vars PROVE NestingInv'
  OBVIOUS
<1>1. CASE UNCHANGED vars
  <2>1. RpcInv'
    BY <1>1 DEF NestingInv, vars, RpcInv, TypeOK, BufferOfHandler, HasTop, Top
  <2>2. fault' = "none" /\ Bottoms'
    BY <1>1 DEF NestingInv, vars, Bottoms
  <2>3. PICK t \in Side : HasTurn(t)
    BY DEF NestingInv
  <2>4. HasTurn(t)'
    BY <1>1, <2>3 DEF vars, HasTurn, Out
  <2> QED BY <2>1, <2>2, <2>4 DEF NestingInv
<1>2. ASSUME NEW s \in Side, Proceed(s) PROVE NestingInv'
  BY <1>2, WriteResultTurn, ReturnCommandTurn, FinishHandlerTurn, MovedTurn, ReceiveTurn DEF Proceed
<1>3. CASE Environment
  BY <1>3, BrowserTurn, StartCallTurn, NotifyTurn, MovedTurn DEF Environment
<1> QED BY <1>1, <1>2, <1>3 DEF Next

LEMMA NestingHolds == Spec => []NestingInv
BY NestingInit, NestingStep, PTL DEF Spec

\* At most one of the two threads executes browser, plugin or handler code,
\* however deep the calls nest: the bridge needs no lock.
THEOREM ThreadsTakeTurns == Spec => []TakeTurns
<1>1. NestingInv => TakeTurns
  <2> SUFFICES ASSUME NestingInv, \A s \in Side : HasTop(s, {"entry", "handler"}) PROVE FALSE
    BY DEF TakeTurns
  <2>1. "linux" \in Side /\ Peer("linux") \in Side
    BY Peers DEF Side
  <2>2. Waiting(frames[Peer("linux")])
    BY <2>1, RunningHasTurn DEF Runs
  <2> QED BY <2>1, <2>2 DEF Waiting, HasTop, Top, Last
<1> QED BY <1>1, NestingHolds, PTL

\* No DBG_ASSERT of readCommands or of a readXXX function can fire, for any
\* numbers of arguments and results and any nesting.
THEOREM ProtocolNeverFails == Spec => []NoProtocolFault
<1>1. NestingInv => NoProtocolFault
  BY DEF NestingInv, NoProtocolFault
<1> QED BY <1>1, NestingHolds, PTL

\* Every handler gets the arguments of its call, and every RETURN finds the
\* call it answers with all of its results on the Stack.
THEOREM ValuesStayIntact == Spec => []ValuesIntact
<1>1. NestingInv => ValuesIntact
  <2> SUFFICES ASSUME NestingInv, NEW s \in Side
               PROVE  /\ HasTop(s, {"handler"}) => Top(s).args = Args(Top(s).id)
                      /\ Blocked(s) /\ pipe[Peer(s)] # <<>> /\ Head(pipe[Peer(s)]).block = "return" =>
                            /\ Top(s).kind = "call"
                            /\ Head(pipe[Peer(s)]).id = Top(s).id
                            /\ Top(s).values = Results(Top(s).id)
    BY DEF ValuesIntact
  <2>1. ASSUME HasTop(s, {"handler"}) PROVE Top(s).args = Args(Top(s).id)
    <3>1. HasTop(s, {"entry", "handler"}) /\ Top(s).kind = "handler"
      BY <2>1 DEF HasTop
    <3>2. GoodFrame(Top(s))
      BY <3>1, RunningHasTurn
    <3> QED BY <3>1, <3>2 DEF GoodFrame
  <2>2. ASSUME Blocked(s), pipe[Peer(s)] # <<>>, Head(pipe[Peer(s)]).block = "return"
        PROVE  /\ Top(s).kind = "call"
               /\ Head(pipe[Peer(s)]).id = Top(s).id
               /\ Top(s).values = Results(Top(s).id)
    <3> DEFINE out == Out(Peer(s))
               q == frames[Peer(s)]
    <3>1. /\ Pair(q, frames[s]) /\ Turn(q, frames[s], out)
          /\ out # <<>> /\ out \in Seq(Block)
          /\ Top(s) = Receiver(frames[s])
      BY <2>2, ReaderWaits
    <3>2. Head(pipe[Peer(s)]) = Head(out)
      BY <2>2, OutRead DEF NestingInv, RpcInv
    <3> HIDE DEF q, out
    <3>3. /\ Head(out) \in Block
          /\ Head(out) \in ControlBlock /\ Head(out).block = "return" =>
               /\ HasAnswered(q, frames[s], out) /\ Head(out) = Return(Receiver(frames[s]).id)
               /\ Receiver(frames[s]).values = Results(Receiver(frames[s]).id)
      BY <3>1, AtHead
    <3>4. Head(out) \in ControlBlock
      BY <2>2, <3>2, <3>3, BlocksDiffer
    <3>5. Receiver(frames[s]).kind = "call"
      BY <2>2, <3>2, <3>3, <3>4 DEF HasAnswered
    <3> QED BY <2>2, <3>1, <3>2, <3>3, <3>4, <3>5 DEF Return
  <2> QED BY <2>1, <2>2
<1> QED BY <1>1, NestingHolds, PTL

-----------------------------------------------------------------------------
(***************************************************************************)
(* Both processes as one thread.  The calls that are open are those of the *)
(* higher stack; below its top the other one says the same.                *)
(***************************************************************************)
Opened(s, q) ==
    [i \in 1 .. Height(q) - 1 |->
        [id |-> q[i + 1].id, by |-> IF q[i + 1].kind = "call" THEN s ELSE Peer(s)]]

Joined(f) ==
    IF Len(Opened("linux", f["linux"])) >= Len(Opened("windows", f["windows"]))
    THEN Opened("linux", f["linux"]) ELSE Opened("windows", f["windows"])

OpenCall == [id : Call, by : Side]

LEMMA OpenCallsJoined == OpenCalls = Joined(frames) /\ OpenCalls' = Joined(frames')
<1>1. \A s \in Side : Level(s) = Height(frames[s]) /\ Level(s)' = Height(frames'[s])
  BY DEF Level, HasTop, Top, Last, Height
<1>2. \A s \in Side : OpenOn(s) = Opened(s, frames[s]) /\ OpenOn(s)' = Opened(s, frames'[s])
  BY <1>1 DEF OpenOn, Opened
<1>3. "linux" \in Side /\ "windows" \in Side
  BY DEF Side
<1> QED BY <1>2, <1>3 DEF OpenCalls, Joined

LEMMA OpenedFacts ==
    ASSUME NEW s \in Side, NEW q, GoodStack(q)
    PROVE  /\ Opened(s, q) \in Seq(OpenCall)
           /\ Len(Opened(s, q)) = IF q = <<>> THEN 0 ELSE Height(q) - 1
           /\ DOMAIN Opened(s, q) = 1 .. Height(q) - 1
           /\ \A i \in 1 .. Height(q) - 1 :
                /\ Opened(s, q)[i].id = q[i + 1].id
                /\ Opened(s, q)[i] = [id |-> q[i + 1].id,
                                      by |-> IF q[i + 1].kind = "call" THEN s ELSE Peer(s)]
                /\ q[i + 1].kind \in {"call", "handler"} /\ q[i + 1].id \in Call
                /\ i + 1 \in 1 .. Len(q)
<1>1. /\ Len(q) \in Nat /\ Height(q) \in 0 .. Len(q) /\ (q # <<>> => Height(q) > 0)
  BY Heights
<1>2. ASSUME NEW i \in 1 .. Height(q) - 1
      PROVE  /\ q[i + 1].kind \in {"call", "handler"} /\ q[i + 1].id \in Call /\ i + 1 \in 1 .. Len(q)
  <2>1. i \in 1 .. Len(q) - 1 /\ i + 1 \in 1 .. Len(q) /\ i + 1 <= Height(q)
    BY <1>1
  <2>2. Nests(q[i], q[i + 1]) /\ q[i + 1] \in Frame
    BY <2>1, Heights
  <2>3. q[i + 1].kind # "returned"
    <3>1. CASE i + 1 = Len(q)
      <4>1. q # <<>> /\ Height(q) = Len(q)
        BY <1>1, <2>1, <3>1, EmptySeq
      <4>2. q[Len(q)].kind = "returned" => Height(q) = Len(q) - 1
        BY <4>1, Heights
      <4> QED BY <1>1, <3>1, <4>1, <4>2
    <3>2. CASE i + 1 # Len(q)
      <4>1. i + 1 \in 1 .. Len(q) - 1
        BY <1>1, <2>1, <3>2
      <4> QED BY <4>1, Heights
    <3> QED BY <3>1, <3>2
  <2>4. q[i + 1].kind \in {"call", "handler"}
    BY <2>2, <2>3 DEF Nests
  <2> QED BY <2>1, <2>2, <2>4, FrameKinds
<1>3. \E n \in Nat : n = (IF q = <<>> THEN 0 ELSE Height(q) - 1) /\ 1 .. Height(q) - 1 = 1 .. n
  <2>1. CASE q = <<>>
    <3>1. Height(q) = 0
      BY <2>1, EmptySeq DEF Height
    <3>2. 1 .. 0 - 1 = 1 .. 0
      OBVIOUS
    <3> QED BY <2>1, <3>1, <3>2
  <2>2. CASE q # <<>>
    <3>1. Height(q) - 1 \in Nat
      BY <1>1, <2>2
    <3> QED BY <2>2, <3>1
  <2> QED BY <2>1, <2>2
<1>4. PICK n \in Nat : n = (IF q = <<>> THEN 0 ELSE Height(q) - 1) /\ 1 .. Height(q) - 1 = 1 .. n
  BY <1>3
<1> DEFINE e(i) == [id |-> q[i + 1].id, by |-> IF q[i + 1].kind = "call" THEN s ELSE Peer(s)]
<1>5. Opened(s, q) = [i \in 1 .. n |-> e(i)]
  BY <1>4 DEF Opened
<1>6. \A i \in 1 .. n : e(i) \in OpenCall
  BY <1>2, <1>4, Peers DEF OpenCall
<1>7. Opened(s, q) \in Seq(OpenCall) /\ Len(Opened(s, q)) = n
  <2> HIDE DEF e
  <2> QED BY <1>5, <1>6
<1> QED BY <1>2, <1>4, <1>5, <1>7

\* What both stacks know, they know alike.
LEMMA JoinedIsHigher ==
    ASSUME NEW s \in Side, NEW f, Pair(f[s], f[Peer(s)]), Height(f[Peer(s)]) <= Height(f[s])
    PROVE  Joined(f) = Opened(s, f[s])
<1> DEFINE q == f[s]
           r == f[Peer(s)]
           a == Opened(s, q)
           b == Opened(Peer(s), r)
<1>1. GoodStack(q) /\ GoodStack(r) /\ Peer(s) \in Side /\ Matched(q, r) /\ Height(r) <= Height(q)
  BY Peers DEF Pair
<1>2. /\ a \in Seq(OpenCall) /\ b \in Seq(OpenCall)
      /\ Len(a) = (IF q = <<>> THEN 0 ELSE Height(q) - 1)
      /\ Len(b) = (IF r = <<>> THEN 0 ELSE Height(r) - 1)
  BY <1>1, OpenedFacts
<1>3. /\ Height(q) \in Nat /\ Height(r) \in Nat
      /\ q = <<>> => Height(q) = 0
      /\ r = <<>> => Height(r) = 0
      /\ r # <<>> => Height(r) > 0
  <2>1. Height(<<>>) = 0
    BY EmptySeq DEF Height
  <2> QED BY <1>1, <2>1, Heights
<1>4. Len(b) <= Len(a)
  BY <1>1, <1>2, <1>3
<1>5. ASSUME Len(b) = Len(a) PROVE a = b
  <2>1. \A i \in 1 .. Len(a) : i \in 1 .. Height(q) - 1 /\ i \in 1 .. Height(r) - 1
                               /\ i + 1 \in 2 .. Height(q) /\ i + 1 <= Height(r)
    BY <1>2, <1>3, <1>5
  <2>2. ASSUME NEW i \in 1 .. Len(a) PROVE a[i] = b[i]
    <3>1. SameCall(q[i + 1], r[i + 1])
      BY <1>1, <2>1 DEF Matched
    <3>2. /\ a[i] = [id |-> q[i + 1].id, by |-> IF q[i + 1].kind = "call" THEN s ELSE Peer(s)]
          /\ b[i] = [id |-> r[i + 1].id, by |-> IF r[i + 1].kind = "call" THEN Peer(s) ELSE Peer(Peer(s))]
          /\ q[i + 1].kind \in {"call", "handler"} /\ r[i + 1].kind \in {"call", "handler"}
      BY <1>1, <2>1, OpenedFacts
    <3> QED BY <3>1, <3>2, Peers DEF SameCall
  <2> HIDE DEF a, b
  <2> QED BY <1>2, <1>5, <2>2, SeqEqual
<1>6. Len(a) \in Nat /\ Len(b) \in Nat
  BY <1>2, LenProperties
<1> HIDE DEF a, b, q, r
<1>7. CASE s = "linux"
  <2>1. Peer(s) = "windows"
    BY <1>7 DEF Peer
  <2> QED BY <1>4, <1>6, <1>7, <2>1 DEF Joined, a, b, q, r
<1>8. CASE s = "windows"
  <2>1. Peer(s) = "linux"
    BY <1>8 DEF Peer
  <2>2. Joined(f) = IF Len(b) >= Len(a) THEN b ELSE a
    BY <1>8, <2>1 DEF Joined, a, b, q, r
  <2>3. Len(b) >= Len(a) => Len(b) = Len(a)
    BY <1>4, <1>6
  <2> QED BY <1>5, <2>2, <2>3 DEF a, q
<1> QED BY <1>7, <1>8 DEF Side

LEMMA BothPaired ==
    ASSUME NEW f, NEW t \in Side, Pair(f[t], f[Peer(t)]), NEW s \in Side
    PROVE  Pair(f[s], f[Peer(s)]) /\ GoodStack(f[s])
<1>1. CASE s = t
  BY <1>1 DEF Pair
<1>2. CASE s = Peer(t)
  <2>1. Peer(s) = t
    BY <1>2, Peers
  <2> QED BY <1>2, <2>1, PairSymmetric DEF Pair
<1> QED BY <1>1, <1>2, Peers

LEMMA AlwaysPaired ==
    /\ NestingInv => \A s \in Side : Pair(frames[s], frames[Peer(s)]) /\ GoodStack(frames[s])
    /\ NestingInv' => \A s \in Side : Pair(frames'[s], frames'[Peer(s)]) /\ GoodStack(frames'[s])
<1>1. ASSUME NestingInv, NEW s \in Side PROVE Pair(frames[s], frames[Peer(s)]) /\ GoodStack(frames[s])
  <2>1. PICK t \in Side : HasTurn(t)
    BY <1>1 DEF NestingInv
  <2> QED BY <2>1, BothPaired DEF HasTurn
<1>2. ASSUME NestingInv', NEW s \in Side PROVE Pair(frames'[s], frames'[Peer(s)]) /\ GoodStack(frames'[s])
  <2>1. PICK t \in Side : HasTurn(t)'
    BY <1>2 DEF NestingInv
  <2> QED BY <2>1, BothPaired DEF HasTurn
<1> QED BY <1>1, <1>2

\* Nothing is opened or closed where the stacks keep their shape.
LEMMA SameShape ==
    ASSUME NEW s \in Side, NEW q, NEW p, NEW g, GoodStack(q), q # <<>>, Replaced(q, p, g),
           g.kind = q[Len(q)].kind, g.kind # "returned",
           g.kind \in {"call", "handler"} => g.id = q[Len(q)].id
    PROVE  Opened(s, p) = Opened(s, q)
<1>1. Len(q) \in Nat /\ Len(q) > 0 /\ Height(q) = Len(q)
  BY Heights
<1>2. Len(p) = Len(q) /\ p[Len(q)] = g /\ \A i \in 1 .. Len(q) - 1 : p[i] = q[i]
  BY DEF Replaced
<1>3. Height(p) = Len(p)
  BY <1>2 DEF Height
<1>4. ASSUME NEW i \in 1 .. Height(q) - 1
      PROVE  p[i + 1].id = q[i + 1].id /\ p[i + 1].kind = q[i + 1].kind
  <2>1. q[i + 1].kind \in {"call", "handler"}
    BY OpenedFacts
  <2>2. CASE i + 1 = Len(q)
    BY <1>2, <2>1, <2>2
  <2>3. CASE i + 1 # Len(q)
    <3>1. i + 1 \in 1 .. Len(q) - 1
      BY <1>1, <2>3
    <3> QED BY <1>2, <3>1
  <2> QED BY <2>2, <2>3
<1>5. Height(p) = Height(q)
  BY <1>1, <1>2, <1>3
<1> QED BY <1>4, <1>5 DEF Opened

\* What SetTop does to the stacks of both sides.
LEMMA StackSet ==
    ASSUME NestingInv, NEW s \in Side, frames[s] # <<>>, NEW h, SetTop(s, h)
    PROVE  /\ frames'[s] = Front(frames[s]) \o h /\ frames'[Peer(s)] = frames[Peer(s)]
           /\ frames[s] \in Seq(Frame) /\ Top(s) = frames[s][Len(frames[s])]
<1>1. frames \in [Side -> Seq(Frame)] /\ Peer(s) \in Side /\ Peer(s) # s
  BY Peers DEF NestingInv, RpcInv, TypeOK
<1> QED BY <1>1 DEF SetTop, Top, Last

LEMMA SameOpen ==
    ASSUME NEW f, NEW g, NEW s \in Side,
           Opened(s, g[s]) = Opened(s, f[s]), g[Peer(s)] = f[Peer(s)]
    PROVE  Joined(g) = Joined(f)
<1>1. CASE s = "linux"
  <2>1. Peer(s) = "windows"
    BY <1>1 DEF Peer
  <2> QED BY <1>1, <2>1 DEF Joined
<1>2. CASE s = "windows"
  <2>1. Peer(s) = "linux"
    BY <1>2 DEF Peer
  <2> QED BY <1>2, <2>1 DEF Joined
<1> QED BY <1>1, <1>2 DEF Side

\* The top is replaced by an activation of the same call.
LEMMA SameTopOpen ==
    ASSUME NestingInv, NEW s \in Side, frames[s] # <<>>, NEW g \in Frame, SetTop(s, <<g>>),
           g.kind = Top(s).kind, g.kind # "returned",
           g.kind \in {"call", "handler"} => g.id = Top(s).id
    PROVE  OpenCalls' = OpenCalls
<1> DEFINE q == frames[s]
           p == Front(q) \o <<g>>
<1>1. frames'[s] = p /\ frames'[Peer(s)] = frames[Peer(s)] /\ q \in Seq(Frame) /\ Top(s) = q[Len(q)]
  BY StackSet
<1>2. Replaced(q, p, g) /\ GoodStack(q)
  BY <1>1, StackOps, AlwaysPaired
<1> HIDE DEF p
<1>3. Opened(s, p) = Opened(s, q)
  BY <1>1, <1>2, SameShape
<1> QED BY <1>1, <1>3, SameOpen, OpenCallsJoined

LEMMA WritesOpen ==
    ASSUME NestingInv, NEW s \in Side, Notify(s) \/ WriteResult(s)
    PROVE  OpenCalls' = OpenCalls
<1>1. HasTop(s, {"entry", "handler"})
  BY DEF Notify, WriteResult, Running, HasTop
<1>2. frames[s] # <<>> /\ GoodFrame(Top(s)) /\ Top(s) \in Frame /\ Top(s).kind \in {"entry", "handler"}
  BY <1>1, RunningHasTurn DEF HasTop, GoodFrame
<1>3. CASE Notify(s)
  <2> DEFINE g == Spend(Top(s))
  <2>1. SetTop(s, <<g>>) /\ Top(s).budget > 0
    BY <1>3 DEF Notify
  <2>2. GoodFrame(g) /\ g.kind = Top(s).kind /\ (g.kind = "handler" => g.id = Top(s).id)
    BY <1>2, <2>1, Spent
  <2>3. g \in Frame
    BY <2>2 DEF GoodFrame
  <2> HIDE DEF g
  <2> QED BY <1>2, <2>1, <2>2, <2>3, SameTopOpen
<1>4. CASE WriteResult(s)
  <2> DEFINE f == Top(s)
             g == [f EXCEPT !.written = @ + 1]
  <2>1. SetTop(s, <<g>>) /\ f.kind = "handler"
    BY <1>4 DEF WriteResult
  <2>2. f \in Frame
    BY <1>2
  <2> HIDE DEF f
  <2>3. g \in Frame /\ g.kind = f.kind
    BY <2>1, <2>2, ChangedFrames
  <2>4. g.id = f.id
    BY <2>1, <2>2 DEF Frame
  <2> HIDE DEF g
  <2> QED BY <1>2, <2>1, <2>3, <2>4, SameTopOpen DEF f
<1> QED BY <1>3, <1>4

LEMMA ReturnCommandOpen ==
    ASSUME NestingInv, NestingInv', NEW s \in Side, ReturnCommand(s)
    PROVE  OpenCalls' = OpenCalls
<1> DEFINE q == frames[s]
           r == frames[Peer(s)]
           g == Returned(Top(s).id)
           p == Front(q) \o <<g>>
<1>1. HasTop(s, {"entry", "handler"}) /\ Top(s).kind = "handler" /\ SetTop(s, <<g>>)
  BY DEF ReturnCommand, Running
<1>2. /\ Pair(q, r) /\ Runs(q, r, Out(s)) /\ q # <<>> /\ q \in Seq(Frame)
      /\ Top(s) = q[Len(q)] /\ GoodFrame(Top(s))
  BY <1>1, RunningHasTurn
<1>3. frames'[s] = p /\ frames'[Peer(s)] = r
  BY <1>1, <1>2, StackSet
<1>4. g \in Frame /\ g.kind = "returned"
  <2>1. Top(s).id \in Call
    BY <1>1, <1>2, FrameKinds DEF GoodFrame
  <2> QED BY <2>1, EmptySeq, NewFrames DEF Returned
<1>5. Replaced(q, p, g)
  <2> HIDE DEF g
  <2> QED BY <1>2, <1>4, StackOps
<1> HIDE DEF p, g
<1>6. Height(r) = Len(q) /\ Len(q) \in Nat /\ Len(q) > 0 /\ Height(q) = Len(q)
  BY <1>1, <1>2, Heights DEF Runs, Pair
<1>7. Height(p) = Len(q) - 1
  <2>1. p # <<>> /\ Len(p) = Len(q) /\ p[Len(p)] = g
    BY <1>5, <1>6, EmptySeq DEF Replaced
  <2> QED BY <1>4, <2>1 DEF Height
<1>8. Peer(s) \in Side /\ Peer(Peer(s)) = s
  BY Peers
<1>9. Joined(frames) = Opened(Peer(s), r)
  <2>1. Height(q) <= Height(r) /\ Pair(frames[Peer(s)], frames[Peer(Peer(s))])
    BY <1>6, <1>8, AlwaysPaired
  <2> QED BY <1>8, <2>1, JoinedIsHigher
<1>10. Joined(frames') = Opened(Peer(s), r)
  <2>1. Height(p) <= Height(r)
    BY <1>6, <1>7
  <2>2. Pair(frames'[Peer(s)], frames'[Peer(Peer(s))])
    BY <1>8, AlwaysPaired
  <2> HIDE DEF r
  <2> QED BY <1>3, <1>8, <2>1, <2>2, JoinedIsHigher
<1> QED BY <1>9, <1>10, OpenCallsJoined

LEMMA FinishHandlerOpen ==
    ASSUME NestingInv, NEW s \in Side, FinishHandler(s)
    PROVE  OpenCalls' = OpenCalls
<1> DEFINE q == frames[s]
           p == Front(q) \o <<>>
<1>1. q # <<>> /\ Top(s).kind = "returned" /\ SetTop(s, <<>>)
  BY DEF FinishHandler, HasTop
<1>2. frames'[s] = p /\ frames'[Peer(s)] = frames[Peer(s)] /\ q \in Seq(Frame) /\ Top(s) = q[Len(q)]
  BY <1>1, StackSet
<1>3. Shortened(q, p)
  <2>1. Entry \in Frame
    BY BudgetAssumption DEF Entry, Frame
  <2> QED BY <1>1, <1>2, <2>1, StackOps
<1>4. GoodStack(q)
  BY AlwaysPaired
<1>5. /\ Len(q) \in Nat /\ Len(q) > 1 /\ Height(q) = Len(q) - 1
      /\ \A i \in 1 .. Len(q) - 1 : q[i].kind # "returned"
  BY <1>1, <1>2, <1>4, Heights
<1> HIDE DEF p, q
<1>6. Len(p) = Len(q) - 1 /\ \A i \in 1 .. Len(q) - 1 : p[i] = q[i]
  BY <1>3 DEF Shortened
<1>7. Height(p) = Height(q)
  <2>1. Len(q) - 1 \in 1 .. Len(q) - 1
    BY <1>5
  <2>2. p[Len(p)].kind # "returned"
    BY <1>5, <1>6, <2>1
  <2> QED BY <1>5, <1>6, <2>2 DEF Height
<1>8. \A i \in 1 .. Height(q) - 1 : p[i + 1] = q[i + 1]
  <2>1. \A i \in 1 .. Height(q) - 1 : i + 1 \in 1 .. Len(q) - 1
    BY <1>5
  <2> QED BY <1>6, <2>1
<1>9. Opened(s, p) = Opened(s, q)
  BY <1>7, <1>8 DEF Opened
<1> QED BY <1>2, <1>9, SameOpen, OpenCallsJoined DEF q

LEMMA BrowserOpen ==
    ASSUME NestingInv, NestingInv', BrowserEnter \/ BrowserLeave
    PROVE  OpenCalls' = OpenCalls
<1> DEFINE s == "linux"
<1>1. s \in Side /\ Peer(s) \in Side /\ Peer(s) # s /\ frames \in [Side -> Seq(Frame)]
  BY Peers DEF Side, NestingInv, RpcInv, TypeOK
<1>2. GoodStack(frames[s]) /\ GoodStack(frames'[s])
  BY <1>1, AlwaysPaired
<1>3. frames'[Peer(s)] = frames[Peer(s)]
  BY <1>1 DEF BrowserEnter, BrowserLeave
<1>4. /\ frames[s] = <<>> \/ frames[s][Len(frames[s])].kind = "entry"
      /\ frames'[s] = <<>> \/ frames'[s] = <<Entry>>
  BY <1>1 DEF BrowserEnter, BrowserLeave, HasTop, Top, Last
<1>5. ASSUME NEW q, GoodStack(q), q = <<>> \/ q[Len(q)].kind = "entry"
      PROVE  Opened(s, q) = <<>>
  <2>1. q # <<>> => Len(q) = 1 /\ Height(q) = 1
    <3> SUFFICES ASSUME q # <<>> PROVE Len(q) = 1 /\ Height(q) = 1
      OBVIOUS
    <3>1. Len(q) \in Nat /\ Len(q) > 0 /\ Height(q) = Len(q)
      BY <1>5, Heights
    <3>2. ASSUME Len(q) # 1 PROVE FALSE
      <4>1. Len(q) - 1 \in 1 .. Len(q) - 1 /\ Len(q) - 1 + 1 = Len(q)
        BY <3>1, <3>2
      <4>2. Nests(q[Len(q) - 1], q[Len(q)])
        BY <1>5, <4>1, Heights
      <4> QED BY <1>5, <4>2 DEF Nests
    <3> QED BY <3>1, <3>2
  <2>2. Opened(s, q) \in Seq(OpenCall) /\ Len(Opened(s, q)) = 0
    BY <1>1, <1>5, <2>1, OpenedFacts
  <2> QED BY <2>2, EmptySeq
<1>6. frames'[s] = <<>> \/ frames'[s][Len(frames'[s])].kind = "entry"
  <2>1. Entry.kind = "entry" /\ Len(<<Entry>>) = 1 /\ <<Entry>>[1] = Entry
    BY DEF Entry
  <2> QED BY <1>4, <2>1
<1>7. Opened(s, frames'[s]) = <<>> /\ Opened(s, frames[s]) = <<>>
  <2> HIDE DEF s
  <2>1. \A q : GoodStack(q) /\ (q = <<>> \/ q[Len(q)].kind = "entry") => Opened(s, q) = <<>>
    BY <1>5
  <2> QED BY <1>2, <1>4, <1>6, <2>1
<1> QED BY <1>1, <1>3, <1>7, SameOpen, OpenCallsJoined

LEMMA StartCallOpen ==
    ASSUME NestingInv, NestingInv', NEW s \in Side, NEW c \in Call, StartCall(s, c)
    PROVE  Nested!Start(c)
<1> DEFINE q == frames[s]
           r == frames[Peer(s)]
           g == Spend(Top(s))
           p == Front(q) \o <<g>>
           h == Reading(c)
           z == Append(p, h)
<1>1. /\ HasTop(s, {"entry", "handler"}) /\ Top(s).budget > 0 /\ c \notin InUse
      /\ SetTop(s, <<g, h>>)
  BY DEF StartCall, Running
<1>2. /\ Pair(q, r) /\ Runs(q, r, Out(s)) /\ q # <<>> /\ q \in Seq(Frame)
      /\ Top(s) = q[Len(q)] /\ GoodFrame(Top(s)) /\ Top(s).kind \in {"entry", "handler"}
  BY <1>1, RunningHasTurn DEF HasTop
<1>3. /\ g \in Frame /\ g.kind = Top(s).kind /\ (g.kind = "handler" => g.id = Top(s).id)
      /\ h \in Frame /\ h.kind = "call" /\ h.id = c
  <2>1. GoodFrame(g) /\ g.kind = Top(s).kind /\ (g.kind = "handler" => g.id = Top(s).id)
    BY <1>1, <1>2, Spent
  <2>2. h \in Frame
    BY EmptySeq, NewFrames
  <2>3. h.kind = "call" /\ h.id = c
    BY DEF Reading
  <2>4. g \in Frame
    BY <2>1 DEF GoodFrame
  <2> QED BY <2>1, <2>2, <2>3, <2>4
<1> HIDE DEF g, h
<1>4. Replaced(q, p, g) /\ Front(q) \o <<g, h>> = z
  BY <1>2, <1>3, StackOps
<1>5. frames'[s] = z /\ frames'[Peer(s)] = r
  BY <1>1, <1>2, <1>4, StackSet
<1>6. GoodStack(q) /\ GoodStack(z) /\ Pair(z, r)
  BY <1>2, <1>5, AlwaysPaired DEF Pair
<1>7. Height(r) = Len(q) /\ Len(q) \in Nat /\ Len(q) > 0 /\ Height(q) = Len(q)
  BY <1>2, <1>6, Heights DEF Runs
<1> HIDE DEF q, r, p
<1>8. p \in Seq(Frame) /\ Len(p) = Len(q) /\ p # <<>> /\ Opened(s, p) = Opened(s, q)
  <2>1. p \in Seq(Frame) /\ Len(p) = Len(q)
    BY <1>4 DEF Replaced
  <2>2. p # <<>>
    BY <1>7, <2>1, EmptySeq
  <2>3. Opened(s, p) = Opened(s, q)
    BY <1>2, <1>3, <1>4, <1>6, SameShape
  <2> QED BY <2>1, <2>2, <2>3
<1>9. /\ Len(z) = Len(q) + 1 /\ z # <<>> /\ z[Len(q) + 1] = h
      /\ \A i \in 1 .. Len(q) : z[i] = p[i]
  BY <1>3, <1>8, AppendProperties
<1>10. Height(z) = Len(q) + 1
  BY <1>3, <1>9 DEF Height
<1> HIDE DEF z
<1> DEFINE a == Opened(s, q)
           b == Opened(s, z)
           e == [id |-> c, by |-> s]
<1>11. /\ a \in Seq(OpenCall) /\ Len(a) = Len(q) - 1 /\ DOMAIN a = 1 .. Len(q) - 1
       /\ b \in Seq(OpenCall) /\ Len(b) = Len(q)
       /\ \A i \in 1 .. Len(q) : b[i] = [id |-> z[i + 1].id,
                                         by |-> IF z[i + 1].kind = "call" THEN s ELSE Peer(s)]
       /\ \A i \in 1 .. Len(q) - 1 :
            /\ a[i] = [id |-> q[i + 1].id, by |-> IF q[i + 1].kind = "call" THEN s ELSE Peer(s)]
            /\ q[i + 1].kind \in {"call", "handler"} /\ i + 1 \in 1 .. Len(q)
  <2>1. Len(q) + 1 - 1 = Len(q)
    BY <1>7
  <2> HIDE DEF a, b
  <2>2. /\ a \in Seq(OpenCall) /\ Len(a) = Len(q) - 1 /\ DOMAIN a = 1 .. Len(q) - 1
        /\ \A i \in 1 .. Len(q) - 1 :
            /\ a[i] = [id |-> q[i + 1].id, by |-> IF q[i + 1].kind = "call" THEN s ELSE Peer(s)]
            /\ q[i + 1].kind \in {"call", "handler"} /\ i + 1 \in 1 .. Len(q)
    BY <1>2, <1>6, <1>7, OpenedFacts DEF a
  <2>3. /\ b \in Seq(OpenCall) /\ Len(b) = Len(q)
        /\ \A i \in 1 .. Len(q) : b[i] = [id |-> z[i + 1].id,
                                         by |-> IF z[i + 1].kind = "call" THEN s ELSE Peer(s)]
    BY <1>6, <1>9, <1>10, <2>1, OpenedFacts DEF b
  <2> QED BY <2>2, <2>3
<1>12. Joined(frames) = a
  BY <1>2, <1>7, JoinedIsHigher DEF q, r
<1>13. Joined(frames') = b
  <2>1. Height(r) <= Height(z)
    BY <1>7, <1>10
  <2> QED BY <1>5, <1>6, <2>1, JoinedIsHigher
<1>14. b = Append(a, e)
  <2>1. e \in OpenCall
    BY DEF OpenCall
  <2>2. a = Opened(s, p)
    BY <1>8
  <2>3. \A i \in 1 .. Len(q) - 1 : b[i] = a[i]
    <3> TAKE i \in 1 .. Len(q) - 1
    <3>1. i \in 1 .. Len(q) /\ i + 1 \in 1 .. Len(q)
      BY <1>7
    <3>2. b[i] = [id |-> p[i + 1].id, by |-> IF p[i + 1].kind = "call" THEN s ELSE Peer(s)]
      BY <1>9, <1>11, <3>1
    <3>3. Height(p) = Len(q)
      BY <1>2, <1>3, <1>4, <1>7, <1>8 DEF Replaced, Height
    <3>4. Opened(s, p)[i] = [id |-> p[i + 1].id, by |-> IF p[i + 1].kind = "call" THEN s ELSE Peer(s)]
      BY <3>3 DEF Opened
    <3> QED BY <2>2, <3>2, <3>4
  <2>4. b[Len(q)] = e
    <3>1. Len(q) \in 1 .. Len(q)
      BY <1>7
    <3> QED BY <1>3, <1>9, <1>11, <3>1
  <2> HIDE DEF a, b, e
  <2>5. /\ Append(a, e) \in Seq(OpenCall) /\ Len(Append(a, e)) = Len(q)
        /\ \A i \in 1 .. Len(q) - 1 : Append(a, e)[i] = a[i]
        /\ Append(a, e)[Len(q)] = e
    <3>1. Len(a) + 1 = Len(q)
      BY <1>7, <1>11
    <3> QED BY <1>11, <2>1, <3>1, AppendProperties
  <2>6. ASSUME NEW i \in 1 .. Len(q) PROVE b[i] = Append(a, e)[i]
    <3>1. i = Len(q) \/ i \in 1 .. Len(q) - 1
      BY <1>7
    <3> QED BY <2>3, <2>4, <2>5, <3>1
  <2> QED BY <1>11, <2>5, <2>6, SeqEqual
<1>15. \A i \in DOMAIN a : a[i].id # c
  <2> SUFFICES ASSUME NEW i \in 1 .. Len(q) - 1, a[i].id = c PROVE FALSE
    BY <1>11
  <2>1. q[i + 1].id = c /\ q[i + 1].kind \in {"call", "handler"} /\ i + 1 \in 1 .. Len(q)
    BY <1>11
  <2>2. DOMAIN q = 1 .. Len(q)
    BY <1>2, LenProperties
  <2> QED BY <1>1, <2>1, <2>2 DEF InUse, q
<1>16. s = IF a = <<>> THEN "linux" ELSE IF a[Len(a)].by = "linux" THEN "windows" ELSE "linux"
  <2>1. CASE a = <<>>
    <3>1. Len(q) = 1
      <4>1. Len(a) = 0
        BY <2>1, EmptySeq
      <4> HIDE DEF a
      <4> QED BY <1>7, <1>11, <4>1
    <3>2. Bottom(s, q)
      BY DEF NestingInv, Bottoms, q
    <3>3. q[1].kind # "main"
      BY <1>2, <3>1
    <3>4. s = "linux"
      BY <1>2, <3>2, <3>3 DEF Bottom, Side
    <3> QED BY <2>1, <3>4
  <2>2. CASE a # <<>>
    <3> HIDE DEF a
    <3>1. Len(a) > 0 /\ Len(a) \in 1 .. Len(q) - 1 /\ Len(a) + 1 = Len(q)
      BY <1>7, <1>11, <2>2, EmptySeq
    <3>2. a[Len(a)].by = Peer(s)
      BY <1>2, <1>11, <3>1
    <3> QED BY <2>2, <3>2 DEF Peer, Side
  <2> QED BY <2>1, <2>2
<1>17. OpenCalls = a /\ OpenCalls' = b
  BY <1>12, <1>13, OpenCallsJoined
<1> HIDE DEF a, b
<1> QED BY <1>14, <1>15, <1>16, <1>17 DEF Nested!Start, Nested!Control

LEMMA ReceiveOpen ==
    ASSUME NestingInv, NestingInv', NEW s \in Side, Receive(s)
    PROVE  OpenCalls' = OpenCalls \/ Nested!Return
<1> DEFINE block == Head(pipe[Peer(s)])
           values == Top(s).values
           q == frames[Peer(s)]
           r == frames[s]
           out == Out(Peer(s))
<1>1. Blocked(s) /\ pipe[Peer(s)] # <<>>
  BY ReadFacts
<1>2. /\ r # <<>> /\ r \in Seq(Frame) /\ Top(s) = r[Len(r)] /\ Top(s).kind \in {"main", "call"}
      /\ GoodFrame(Top(s)) /\ values \in Seq(PushBlock) /\ Top(s) \in Frame
  BY <1>1, ReaderWaits DEF GoodFrame
<1>3. /\ GoodStack(q) /\ GoodStack(r) /\ Pair(q, r) /\ Pair(r, q)
      /\ Peer(s) \in Side /\ Peer(Peer(s)) = s
      /\ Pair(frames'[s], frames'[Peer(s)]) /\ Pair(frames'[Peer(s)], frames'[s])
      /\ GoodStack(frames'[s])
  BY AlwaysPaired, Peers
<1>4. ASSUME NEW v \in Seq(PushBlock), SetTop(s, <<[Top(s) EXCEPT !.values = v]>>)
      PROVE  OpenCalls' = OpenCalls
  <2> DEFINE g == [Top(s) EXCEPT !.values = v]
  <2>1. GoodFrame(g) /\ g.kind = Top(s).kind /\ (g.kind = "call" => g.id = Top(s).id)
    BY <1>2, NewValues
  <2>2. g \in Frame
    BY <2>1 DEF GoodFrame
  <2>3. SetTop(s, <<g>>)
    BY <1>4
  <2> HIDE DEF g
  <2> QED BY <1>2, <2>1, <2>2, <2>3, SameTopOpen
<1>5. CASE block \in PushBlock /\ ReceivePush(s, block)
  <2>1. Append(values, block) \in Seq(PushBlock)
    BY <1>2, <1>5, AppendProperties
  <2> QED BY <1>4, <1>5, <2>1 DEF ReceivePush
<1>6. CASE /\ block = Notification /\ ReceiveNotification(s)
           /\ values # <<>> /\ Last(values) = NotifyArg
  <2>1. Below(values, 1) \in Seq(PushBlock)
    <3>1. 1 <= Len(values)
      BY <1>2, <1>6, LenProperties, EmptySeq
    <3> QED BY <1>2, <3>1, PoppedAndBelow
  <2>2. SetTop(s, <<[Top(s) EXCEPT !.values = Below(values, 1)]>>)
    BY <1>6 DEF ReceiveNotification
  <2> QED BY <1>4, <2>1, <2>2
<1>7. Height(r) = Len(r) /\ Len(r) \in Nat /\ Len(r) > 0 /\ Receiver(r) = Top(s)
  BY <1>2, <1>3, Heights DEF Receiver
\* The call is dispatched: it has been open since it was made.
<1>8. CASE /\ ReceiveCall(s, block) /\ HasCalled(q, r, out)
           /\ block = CallDirect(q[Len(q)].id) /\ q[Len(q)].id \in Call
           /\ values = Written(q[Len(q) - 1]) \o Args(q[Len(q)].id)
           /\ Written(q[Len(q) - 1]) \in Seq(Value)
  <2>1. Height(q) = Len(r) + 1
    <3>1. q # <<>> /\ q[Len(q)].kind = "call" /\ Height(r) = Len(q) - 1
      BY <1>8 DEF HasCalled
    <3>2. Height(q) = Len(q) /\ Len(q) \in Nat
      BY <1>3, <3>1, Heights
    <3> QED BY <1>7, <3>1, <3>2
  <2>2. SetTop(s, << [Top(s) EXCEPT !.values = Below(values, NumArgs[block.id])],
                      Handler(block.id, Popped(values, NumArgs[block.id])) >>)
    <3>1. fault' # "no return value found"
      BY DEF NestingInv
    <3> QED BY <1>8, <3>1 DEF ReceiveCall, Fail
  <2> DEFINE g == [Top(s) EXCEPT !.values = Below(values, NumArgs[block.id])]
             h == Handler(block.id, Popped(values, NumArgs[block.id]))
             F == Front(r)
  <2>3. frames'[s] = F \o <<g, h>> /\ frames'[Peer(s)] = q
    BY <1>2, <2>2, StackSet
  <2>4. F \in Seq(Frame) /\ Len(F) = Len(r) - 1
    <3>1. Len(r) - 1 \in 0 .. Len(r)
      BY <1>7
    <3> HIDE DEF r
    <3> QED BY <1>2, <3>1, PrefixProperties DEF Front
  <2> HIDE DEF g, h, F
  <2>5. <<g, h>> \in Seq({g, h}) /\ Len(<<g, h>>) = 2 /\ F \in Seq(Frame \cup {g, h})
        /\ <<g, h>> \in Seq(Frame \cup {g, h})
    BY <2>4, SeqMonotonic
  <2>6. Len(F \o <<g, h>>) = Len(F) + 2
    BY <2>5, ConcatProperties
  <2>7. Height(frames'[s]) <= Len(r) + 1
    <3>1. Height(frames'[s]) <= Len(frames'[s]) /\ Len(frames'[s]) = Len(r) + 1
      <4>1. Height(frames'[s]) \in 0 .. Len(frames'[s]) /\ Len(frames'[s]) \in Nat
        BY <1>3, Heights
      <4> QED BY <1>7, <2>3, <2>4, <2>6, <4>1
    <3> QED BY <3>1
  <2> HIDE DEF q, r
  <2>8. Joined(frames) = Opened(Peer(s), q)
    <3>1. Height(r) <= Height(q)
      BY <1>7, <2>1
    <3> QED BY <1>3, <3>1, JoinedIsHigher DEF q, r
  <2>9. Joined(frames') = Opened(Peer(s), q)
    <3>1. Height(frames'[s]) <= Height(frames'[Peer(s)])
      BY <2>1, <2>3, <2>7
    <3> QED BY <1>3, <2>3, <3>1, JoinedIsHigher
  <2> QED BY <2>8, <2>9, OpenCallsJoined
\* The innermost call is answered.
<1>9. CASE /\ ReceiveReturn(s) /\ HasAnswered(q, r, out) /\ Top(s).kind = "call"
  <2> DEFINE p == Front(r) \o <<>>
             a == Opened(s, r)
             b == Opened(s, p)
  <2>1. SetTop(s, <<>>)
    <3>1. fault' # "no return value found" /\ fault' # "BLOCKCMD_RETURN not allowed here"
      BY DEF NestingInv
    <3> QED BY <1>9, <3>1 DEF ReceiveReturn, Fail
  <2>2. frames'[s] = p /\ frames'[Peer(s)] = q
    BY <1>2, <2>1, StackSet
  <2>3. Shortened(r, p)
    BY <1>2, StackOps
  <2>4. /\ Height(q) = Len(r) - 1 /\ Height(q) \in Nat /\ Height(q) > 0
    <3>1. Height(r) = Height(q) + 1 /\ q # <<>>
      BY <1>9 DEF HasAnswered, Waiting
    <3>2. Height(q) \in 0 .. Len(q) /\ Len(q) \in Nat /\ Height(q) > 0
      BY <1>3, <3>1, Heights
    <3> QED BY <1>7, <3>1, <3>2
  <2>5. Height(p) = Len(r) - 1 /\ GoodStack(p)
    <3>1. Height(q) <= Len(r)
      BY <1>7, <2>4
    <3> HIDE DEF p, q, r
    <3> QED BY <1>2, <1>3, <2>2, <2>3, <3>1, PopPair
  <2> HIDE DEF p, q, r
  <2>6. p # <<>> /\ \A i \in 1 .. Len(r) - 1 : p[i] = r[i]
    <3>1. Len(p) # 0
      BY <2>3, <2>4 DEF Shortened
    <3> QED BY <2>3, <3>1, EmptySeq DEF Shortened
  <2>7. /\ a \in Seq(OpenCall) /\ Len(a) = Len(r) - 1
        /\ b \in Seq(OpenCall) /\ Len(b) = Len(r) - 1 - 1
        /\ \A i \in 1 .. Len(r) - 1 :
             a[i] = [id |-> r[i + 1].id, by |-> IF r[i + 1].kind = "call" THEN s ELSE Peer(s)]
        /\ \A i \in 1 .. Len(r) - 1 - 1 :
             b[i] = [id |-> p[i + 1].id, by |-> IF p[i + 1].kind = "call" THEN s ELSE Peer(s)]
    <3> HIDE DEF a, b
    <3>1. /\ a \in Seq(OpenCall) /\ Len(a) = Len(r) - 1
          /\ \A i \in 1 .. Len(r) - 1 :
             a[i] = [id |-> r[i + 1].id, by |-> IF r[i + 1].kind = "call" THEN s ELSE Peer(s)]
      BY <1>2, <1>3, <1>7, OpenedFacts DEF a, r
    <3>2. /\ b \in Seq(OpenCall) /\ Len(b) = Len(r) - 1 - 1
          /\ \A i \in 1 .. Len(r) - 1 - 1 :
             b[i] = [id |-> p[i + 1].id, by |-> IF p[i + 1].kind = "call" THEN s ELSE Peer(s)]
      BY <2>5, <2>6, OpenedFacts DEF b
    <3> QED BY <3>1, <3>2
  <2>8. \A i \in 1 .. Len(r) - 1 - 1 : b[i] = a[i]
    <3> TAKE i \in 1 .. Len(r) - 1 - 1
    <3>1. i \in 1 .. Len(r) - 1 /\ i + 1 \in 1 .. Len(r) - 1
      BY <1>7, <2>4 DEF r
    <3> QED BY <2>6, <2>7, <3>1
  <2>9. Joined(frames) = a
    <3>1. Height(q) <= Height(r)
      BY <1>7, <2>4 DEF r
    <3> QED BY <1>3, <3>1, JoinedIsHigher DEF q, r
  <2>10. Joined(frames') = b
    <3>1. Height(q) <= Height(p)
      BY <1>7, <2>4, <2>5 DEF r
    <3> QED BY <1>3, <2>2, <3>1, JoinedIsHigher
  <2> HIDE DEF a, b
  <2>11. a # <<>> /\ b = SubSeq(a, 1, Len(a) - 1)
    <3> DEFINE d == SubSeq(a, 1, Len(a) - 1)
    <3>1. Len(a) - 1 \in 0 .. Len(a) /\ Len(a) > 0 /\ Len(a) - 1 = Len(r) - 1 - 1
      BY <1>7, <2>4, <2>7 DEF r
    <3>2. /\ d \in Seq(OpenCall) /\ Len(d) = Len(a) - 1 /\ \A i \in 1 .. Len(a) - 1 : d[i] = a[i]
      BY <2>7, <3>1, PrefixProperties
    <3> HIDE DEF d
    <3>3. b = d
      BY <2>7, <2>8, <3>1, <3>2, SeqEqual
    <3>4. a # <<>>
      BY <3>1, EmptySeq
    <3> QED BY <3>3, <3>4 DEF d
  <2>12. OpenCalls = a /\ OpenCalls' = b
    BY <2>9, <2>10, OpenCallsJoined
  <2> QED BY <2>11, <2>12 DEF Nested!Return
<1> HIDE DEF block, values, q, r, out
<1> QED BY <1>5, <1>6, <1>8, <1>9, ReadFacts DEF block, values, q, r, out

\* Two processes, two stdio buffers and two pipes do what one thread would:
\* every step of theirs makes a call from the side that has control, ends the
\* innermost call, or is not to be seen.
THEOREM TwoProcessesAsOneThread == Spec => ImplementsNestedCalls
<1>1. Init => Nested!Init
  <2> SUFFICES ASSUME Init PROVE OpenCalls = <<>>
    BY DEF Nested!Init
  <2>1. NestingInv
    BY NestingInit
  <2>2. frames["linux"] = <<>> /\ "linux" \in Side /\ "windows" \in Side
        /\ frames["windows"] = <<Main>>
    BY DEF Init, Side
  <2>3. GoodStack(frames["linux"]) /\ GoodStack(frames["windows"])
    BY <2>1, <2>2, AlwaysPaired
  <2>4. Height(<<Main>>) = 1
    BY DEF Height, Main
  <2>5. /\ Opened("linux", frames["linux"]) \in Seq(OpenCall)
        /\ Len(Opened("linux", frames["linux"])) = 0
        /\ Opened("windows", frames["windows"]) \in Seq(OpenCall)
        /\ Len(Opened("windows", frames["windows"])) = 0
    BY <2>2, <2>3, <2>4, OpenedFacts
  <2>6. Joined(frames) = <<>>
    BY <2>5, EmptySeq DEF Joined
  <2> QED BY <2>6, OpenCallsJoined
<1>2. NestingInv /\ NestingInv' /\ [Next]_vars => [Nested!Next]_OpenCalls
  <2> SUFFICES ASSUME NestingInv, NestingInv', [Next]_vars
               PROVE  Nested!Next \/ OpenCalls' = OpenCalls
    OBVIOUS
  <2>1. ASSUME frames' = frames PROVE OpenCalls' = OpenCalls
    BY <2>1, OpenCallsJoined
  <2>2. CASE UNCHANGED vars
    BY <2>1, <2>2 DEF vars
  <2>3. ASSUME NEW s \in Side, Proceed(s)
        PROVE  OpenCalls' = OpenCalls \/ Nested!Return
    <3>1. Flush(s) => frames' = frames
      BY DEF Flush
    <3> QED BY <2>1, <2>3, <3>1, WritesOpen, ReturnCommandOpen, FinishHandlerOpen, ReceiveOpen
        DEF Proceed
  <2>4. ASSUME Environment
        PROVE  OpenCalls' = OpenCalls \/ \E c \in Call : Nested!Start(c)
    <3>1. \A s \in Side : Spill(s) => frames' = frames
      BY DEF Spill
    <3> QED BY <2>1, <2>4, <3>1, BrowserOpen, StartCallOpen, WritesOpen DEF Environment
  <2> QED BY <2>2, <2>3, <2>4 DEF Next, Nested!Next
<1> QED BY <1>1, <1>2, NestingHolds, PTL DEF Spec, ImplementsNestedCalls, Nested!Spec
=============================================================================
