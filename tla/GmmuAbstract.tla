---------------------------- MODULE GmmuAbstract ----------------------------
(***************************************************************************)
(* What the GMMU map/unmap layer promises, without page tables.            *)
(*                                                                         *)
(* xlate gives, for every GPU virtual page, the address the GPU reaches   *)
(* through it (NoXlate: the access faults).  live is the set of mappings  *)
(* whose map call returned a GPU VA and that are not unmapped yet.         *)
(*   - a successful map of buffer b at va, skipping skip bytes of b,      *)
(*     makes every page of its range reach Target(b, skip, offset);       *)
(*   - a failed map changes only pages outside every live mapping, and    *)
(*     only to the targets a successful map would have given them;        *)
(*   - an unmap makes pages of its range fault, and touches nothing else; *)
(* no call touches a page of another live mapping.                        *)
(***************************************************************************)
EXTENDS Naturals

CONSTANTS
    Pages,          \* the GPU virtual page addresses
    Bufs,           \* the buffers callers map
    Skips,          \* offsets into a buffer a mapping may start at
    NoXlate,        \* "this page faults"
    Target(_, _, _) \* Target(b, skip, o): what byte skip + o of b is at

VARIABLES xlate, live

vars == <<xlate, live>>

RangePages(va, len) == {v \in Pages : va <= v /\ v < va + len}

LivePages == UNION {RangePages(m.va, m.len) : m \in live}

Init ==
    /\ xlate = [v \in Pages |-> NoXlate]
    /\ live = {}

\* The pages whose translation a step changes.
Changed(old, new) == {v \in Pages : new[v] # old[v]}

MapOk ==
    LET ch == Changed(xlate, xlate')
        new == xlate'
    IN
    \E m \in live' \ live :
        /\ live' = live \cup {m}
        /\ RangePages(m.va, m.len) \cap LivePages = {}
        /\ \A v \in RangePages(m.va, m.len) : new[v] = Target(m.buf, m.skip, v - m.va)
        /\ ch \subseteq RangePages(m.va, m.len)

\* A failed map writes, at pages of no live mapping, what a map of some
\* buffer at some VA would have written.
MapFailed ==
    LET new == xlate'
        ch  == Changed(xlate, new)
    IN  /\ live' = live
        /\ ch \cap LivePages = {}
        /\ \E b \in Bufs, s \in Skips, va \in Pages :
             \A v \in ch : va <= v /\ new[v] = Target(b, s, v - va)

Unmap ==
    LET new == xlate'
        ch  == Changed(xlate, new)
    IN
    \E m \in live \ live' :
        /\ live' = live \ {m}
        /\ \A v \in ch : v \in RangePages(m.va, m.len) /\ new[v] = NoXlate

Next == MapOk \/ MapFailed \/ Unmap

Spec == Init /\ [][Next]_vars

=============================================================================
