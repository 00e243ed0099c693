----------------------------- MODULE SweepCursor -----------------------------
(***************************************************************************)
(* What the durable sweep cursor promises (sweep_targets joined with the   *)
(* harvest_sweeps history): a target carries at most one dispatch; each    *)
(* query of a dispatch is answered at most once; and the cursor lets go of *)
(* a dispatch in two ways only -- a new dispatch replaces it, or every     *)
(* query of it has been answered.  Queues, workers, counters, crashes and  *)
(* clocks do not appear here: SweepDispatch implements this module.        *)
(***************************************************************************)
EXTENDS Naturals

CONSTANTS
    Targets,        \* rows of sweep_targets
    MaxDispatch,    \* bound: dispatch ids 1..MaxDispatch
    MaxQueries      \* bound: queries generated for one dispatch

Dispatches == 1 .. MaxDispatch

VARIABLES
    cursor,         \* target -> the dispatch it carries, 0 for none
    asked,          \* dispatch -> the query sequence numbers it asks
    answered        \* <<dispatch, query_seq>> pairs that were answered

vars == <<cursor, asked, answered>>

Init == /\ cursor = [t \in Targets |-> 0]
        /\ asked = [d \in Dispatches |-> {}]
        /\ answered = {}

Dispatch(t, d) ==
    /\ asked[d] = {}
    /\ cursor' = [cursor EXCEPT ![t] = d]
    /\ \E n \in 1 .. MaxQueries : asked' = [asked EXCEPT ![d] = 0 .. n - 1]
    /\ UNCHANGED answered

Answer(d, q) ==
    /\ q \in asked[d]
    /\ <<d, q>> \notin answered
    /\ answered' = answered \cup {<<d, q>>}
    /\ UNCHANGED <<cursor, asked>>

Resolve(t) ==
    /\ cursor[t] # 0
    /\ \A q \in asked[cursor[t]] : <<cursor[t], q>> \in answered
    /\ cursor' = [cursor EXCEPT ![t] = 0]
    /\ UNCHANGED <<asked, answered>>

Next == \/ \E t \in Targets, d \in Dispatches : Dispatch(t, d)
        \/ \E d \in Dispatches, q \in 0 .. MaxQueries - 1 : Answer(d, q)
        \/ \E t \in Targets : Resolve(t)

Spec == Init /\ [][Next]_vars
==============================================================================
