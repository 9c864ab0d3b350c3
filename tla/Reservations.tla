---------------------------- MODULE Reservations ----------------------------
(***************************************************************************)
(* What the physical memory manager promises its callers, with none of its *)
(* bookkeeping: a set of address ranges is taken; a step takes one more    *)
(* range, from memory the boot loader reported as usable and clear of      *)
(* every range taken before, or gives one back whole.                      *)
(***************************************************************************)
EXTENDS Integers

CONSTANT Zones      \* the boot loader's map: a sequence of [base, size, type]
VARIABLE taken      \* a set of [base, size]

Range(z) == [base |-> z.base, size |-> z.size]
End(r) == r.base + r.size
Inside(r, s) == s.base <= r.base /\ End(r) <= End(s)
Disjoint(r, s) == End(r) <= s.base \/ End(s) <= r.base

Init == taken = {Range(Zones[i]) : i \in {j \in DOMAIN Zones : Zones[j].type = 2}}

Take(r) ==
    /\ r.size > 0
    /\ \E i \in DOMAIN Zones : Zones[i].type = 0 /\ Inside(r, Zones[i])
    /\ \A s \in taken : Disjoint(r, s)
    /\ taken' = taken \cup {r}

GiveBack(r) == taken' = taken \ {r}

Next ==
    \/ \E r \in taken' \ taken : Take(r)
    \/ \E r \in taken \ taken' : GiveBack(r)

Spec == Init /\ [][Next]_taken
=============================================================================
