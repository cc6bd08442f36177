-------------------------------- MODULE AnLock --------------------------------
(***************************************************************************)
(* The spin lock of lib/anlock, on which every critical section of the     *)
(* scheduler rests.  The lock is one word of two halves: the upper half    *)
(* counts the unlocks, the lower half those who hold or want the lock.     *)
(* Both halves wrap around at Base, 2^32 in the code.                      *)
(***************************************************************************)
EXTENDS Naturals, FiniteSets

CONSTANTS
  Proc,  \* the CPUs that use the lock
  Base   \* one more than the largest value of a half word

ASSUME LockAssumption ==
  /\ IsFiniteSet(Proc)
  /\ Base \in Nat
  /\ Cardinality(Proc) < Base

VARIABLES
  upper, lower,  \* the lock word
  pc,            \* "out", "wait" or "in"
  waitUntil      \* the local of anlock_lock_waiting

vars == <<upper, lower, pc, waitUntil>>

Half == 0 .. Base - 1

\* Seeded fault: a carry out of a half word is lost.
WrapNever(n) == n

\* A half word after an addition that wraps around at most once.
Wrap(n) == IF n >= Base THEN n - Base ELSE n

\* Seeded faults: the ticket one too early, and the ticket in a wider type.
TicketEarly(u, l) == Wrap(u + l - (IF l = 0 THEN 0 ELSE 1))
TicketWide(u, l) == u + l

\* (uint32_t)(upper + lower)
TicketOf(u, l) == Wrap(u + l)

\* An atomic addition of n < Base to the word, carrying into the upper half.
AddAtomic(n) ==
  /\ lower' = Wrap(lower + n)
  /\ upper' = IF lower + n >= Base THEN Wrap(upper + 1) ELSE upper

Init ==
  /\ upper = 0 /\ lower = 0
  /\ pc = [p \in Proc |-> "out"]
  /\ waitUntil = [p \in Proc |-> 0]

\* The __sync_fetch_and_add of anlock_lock_waiting.  A CPU that finds the lock
\* free returns before it computes waitUntil, whose value then would be upper.
Lock(p) ==
  /\ pc[p] = "out"
  /\ AddAtomic(1)
  /\ pc' = [pc EXCEPT ![p] = IF lower = 0 THEN "in" ELSE "wait"]
  /\ waitUntil' = [waitUntil EXCEPT ![p] = TicketOf(upper, lower)]

\* Seeded fault: the turn is compared with >= .
SpinDonePast(p) ==
  /\ pc[p] = "wait" /\ upper >= waitUntil[p]
  /\ pc' = [pc EXCEPT ![p] = "in"]
  /\ UNCHANGED <<upper, lower, waitUntil>>

\* The read of the spin loop that finds the CPU's turn has come
SpinDone(p) ==
  /\ pc[p] = "wait" /\ upper = waitUntil[p]
  /\ pc' = [pc EXCEPT ![p] = "in"]
  /\ UNCHANGED <<upper, lower, waitUntil>>

\* The "lock addq" of 0xffffffff
Unlock(p) ==
  /\ pc[p] = "in"
  /\ AddAtomic(Base - 1)
  /\ pc' = [pc EXCEPT ![p] = "out"]
  /\ UNCHANGED waitUntil

Next == \E p \in Proc : Lock(p) \/ SpinDone(p) \/ Unlock(p)

Spec == Init /\ [][Next]_vars

-----------------------------------------------------------------------------
TypeOK ==
  /\ upper \in Half /\ lower \in Half
  /\ pc \in [Proc -> {"out", "wait", "in"}]
  /\ waitUntil \in [Proc -> Half]

\* At most one CPU is between anlock_lock and anlock_unlock, also after either
\* half of the word has wrapped around.
MutualExclusion == \A p, q \in Proc : pc[p] = "in" /\ pc[q] = "in" => p = q

\* How many unlocks it takes until it is p's turn
Distance(p) == IF waitUntil[p] >= upper THEN waitUntil[p] - upper
                                        ELSE waitUntil[p] + Base - upper

\* The lock is handed over in the order of the fetch-and-adds: it implements
\* a queue, in which a CPU stands at the distance of its ticket.
Queue ==
  INSTANCE FifoLock WITH
    line <- [k \in 1 .. lower |->
               CHOOSE p \in Proc : pc[p] # "out" /\ Distance(p) = k - 1],
    holding <- {p \in Proc : pc[p] = "in"}

HandedOverInOrder == Queue!Spec

\* Every CPU that asks for the lock gets it.
StarvationFree == \A p \in Proc : pc[p] = "wait" ~> pc[p] = "in"
=============================================================================
