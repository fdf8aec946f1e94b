---------------------------- MODULE IdentifierTable ----------------------------
(***************************************************************************)
(* The identifiers of the Windows side (src/src/common/common.c,           *)
(* windows/pluginloader/npnfunctions.c).  The browser's identifiers are    *)
(* not sent as handles but as what they stand for, and the Windows side    *)
(* makes one of its own for each.  Plugins, and NPN_GetProperty itself,    *)
(* compare identifiers as pointers, so that there must be only one for a   *)
(* name or a number.  None is ever freed.                                  *)
(***************************************************************************)
EXTENDS Naturals, Sequences

CONSTANTS
    Name,      \* values of IDENT_TYPE_String
    Number,    \* values of IDENT_TYPE_Integer; a name may read like a number
    Address,   \* what malloc may return
    Null,
    MaxCount   \* bound: identifiers in an array

\* What the theorems assume of the constants.
Assumption == Null \notin Address /\ MaxCount \in Nat

VARIABLES
    ident,     \* the NPIdentifierDescription at an address
    stringToNPIdentifier,
    intToNPIdentifier,
    stack,     \* of the message being read: a value and its type on each level
    sent,      \* history: the array in the last message
    read       \* the identifiers read from it so far

identifierVars == <<ident, stringToNPIdentifier, intToNPIdentifier, stack, sent, read>>

OfName(name)     == [type |-> "string", value |-> name]
OfNumber(number) == [type |-> "integer", value |-> number]
Description == {OfName(name) : name \in Name} \cup {OfNumber(number) : number \in Number}

IdentifierInit ==
    /\ ident = [p \in {} |-> Null]
    /\ stringToNPIdentifier = [name \in {} |-> Null]
    /\ intToNPIdentifier = [number \in {} |-> Null]
    /\ stack = <<>> /\ sent = <<>> /\ read = <<>>

-----------------------------------------------------------------------------
Find(map, value) == IF value \in DOMAIN map THEN map[value] ELSE Null

\* Mutant of handleManager_lookupIdentifier: one that looks like it will do.
LookupEither(d) ==
    IF d.value \in DOMAIN stringToNPIdentifier THEN stringToNPIdentifier[d.value]
    ELSE Find(intToNPIdentifier, d.value)

handleManager_lookupIdentifier(d) ==
    IF d.type = "string" THEN Find(stringToNPIdentifier, d.value) ELSE Find(intToNPIdentifier, d.value)

Put(map, value, p) == [v \in DOMAIN map \cup {value} |-> IF v = value THEN p ELSE map[v]]

handleManager_updateIdentifier(d, p) ==
    IF d.type = "string"
    THEN /\ stringToNPIdentifier' = Put(stringToNPIdentifier, d.value, p)
         /\ UNCHANGED intToNPIdentifier
    ELSE /\ intToNPIdentifier' = Put(intToNPIdentifier, d.value, p)
         /\ UNCHANGED stringToNPIdentifier

\* NPN_GetStringIdentifier and NPN_GetIntIdentifier return p.
GetIdentifier(d, p) ==
    IF handleManager_lookupIdentifier(d) # Null
    THEN /\ p = handleManager_lookupIdentifier(d)
         /\ UNCHANGED <<ident, stringToNPIdentifier, intToNPIdentifier>>
    ELSE /\ p \notin DOMAIN ident
         /\ ident' = Put(ident, p, d)
         /\ handleManager_updateIdentifier(d, p)

\* The plugin asks for one.
Ask(d) ==
    /\ stack = <<>>
    /\ \E p \in Address : GetIdentifier(d, p)
    /\ UNCHANGED <<stack, sent, read>>

\* The browser sends some: writeIdentifierArray begins with the last one.
Send(array) ==
    /\ stack = <<>>
    /\ stack' = [n \in 1 .. Len(array) |-> array[Len(array) + 1 - n]]
    /\ sent' = array
    /\ read' = <<>>
    /\ UNCHANGED <<ident, stringToNPIdentifier, intToNPIdentifier>>

\* readHandleIdentifier, for the next one of the array.
Read ==
    /\ stack # <<>>
    /\ \E p \in Address : GetIdentifier(stack[Len(stack)], p) /\ read' = Append(read, p)
    /\ stack' = SubSeq(stack, 1, Len(stack) - 1)
    /\ UNCHANGED sent

IdentifierNext ==
    \/ \E d \in Description : Ask(d)
    \/ \E count \in 0 .. MaxCount : \E array \in [1 .. count -> Description] : Send(array)
    \/ Read

IdentifierSpec == IdentifierInit /\ [][IdentifierNext]_identifierVars

-----------------------------------------------------------------------------
\* Two identifiers are the same pointer whenever they are the same name or
\* the same number, and an array arrives in its order, each of its
\* identifiers standing for what the browser's did, however many were made
\* before and on whose behalf.
IdentifiersAgree ==
    /\ \A p, q \in DOMAIN ident : ident[p] = ident[q] => p = q
    /\ \A n \in 1 .. Len(read) : read[n] \in DOMAIN ident /\ ident[read[n]] = sent[n]
    /\ Len(read) + Len(stack) = Len(sent)
=============================================================================
