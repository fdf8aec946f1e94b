------------------------------ MODULE MCTables ------------------------------
\* The data structures that share no state, one per behaviour.  HandleTable has
\* three IDs and four addresses: one address more than there are IDs, so that
\* the search after the wrap-around finds a hole and also finds none.
\* IdentifierTable has two names, one of them looking like the one number.
\* AsyncCalls has two instances and two threads, so that both push on one list
\* while a round is at the other, and may use the memory of a call again.
EXTENDS HandleTable, IdentifierTable, AsyncCalls

VARIABLE table

MCInit ==
    /\ Init
    /\ IdentifierInit
    /\ AsyncInit
    /\ table \in {"handles", "identifiers", "async calls"}
    /\ table # "handles" => side = "windows" /\ type = "NPObject"

MCNext ==
    \/ /\ table = "handles"
       /\ Next
       /\ UNCHANGED <<table, identifierVars, asyncVars>>
    \/ /\ table = "identifiers"
       /\ IdentifierNext
       /\ UNCHANGED <<table, vars, asyncVars>>
    \/ /\ table = "async calls"
       /\ AsyncNext
       /\ UNCHANGED <<table, vars, identifierVars>>

\* While another table is used no step that must be taken is enabled: there are
\* no calls.
MCSpec == MCInit /\ [][MCNext]_<<table, vars, identifierVars, asyncVars>> /\ AsyncFairness
=============================================================================
