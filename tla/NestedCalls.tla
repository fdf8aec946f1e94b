----------------------------- MODULE NestedCalls -----------------------------
(***************************************************************************)
(* What the bridge promises to both of its users: although two processes   *)
(* take part, calls nest as in a single thread.  The side that was called  *)
(* last has control; it may call the other side or return, and only the    *)
(* call that was made last can return.                                     *)
(***************************************************************************)
EXTENDS Integers, Sequences

CONSTANT Call

VARIABLE open     \* the calls not yet answered, outermost first

Side == {"linux", "windows"}

\* The browser starts every exchange.
Control ==
    IF open = <<>> THEN "linux"
    ELSE IF open[Len(open)].by = "linux" THEN "windows" ELSE "linux"

Init == open = <<>>

Start(c) ==
    /\ \A i \in DOMAIN open : open[i].id # c
    /\ open' = Append(open, [id |-> c, by |-> Control])

Return ==
    /\ open # <<>>
    /\ open' = SubSeq(open, 1, Len(open) - 1)

Next == Return \/ \E c \in Call : Start(c)

Spec == Init /\ [][Next]_open
=============================================================================
