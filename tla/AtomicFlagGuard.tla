--------------------------- MODULE AtomicFlagGuard ---------------------------
(***************************************************************************)
(* The guards of std::atomic_flag locks (src/production/AtomicGuards.hpp).   *)
(* Guards are made and destroyed, rebound and moved from one another, by      *)
(* threads that share the flags; every guard is used by one thread at a       *)
(* time, which is stuck in lock() while it spins.  A call touches shared      *)
(* memory at most once, at its access to a flag, so all calls but lock() are  *)
(* one step.                                                                *)
(***************************************************************************)
EXTENDS Naturals

CONSTANTS Guards,  \* the memory of AtomicFlagGuard objects
          Flags,   \* std::atomic_flag objects
          NoFlag   \* nullptr

ASSUME NoFlagAssumption == NoFlag \notin Flags

VARIABLES flagSet,  \* the state of every flag
          guard     \* the guards, their data members and whether they spin

vars == <<flagSet, guard>>

-----------------------------------------------------------------------------

Bound(flag, locked) ==
    [alive |-> TRUE, flag_ptr |-> flag, flag_locked |-> locked, spinning |-> FALSE]
Unbound   == Bound(NoFlag, FALSE)
Destroyed == [Unbound EXCEPT !.alive = FALSE]

\* The guards that a thread can call a member of.
Idle(g) == guard[g].alive /\ ~guard[g].spinning

\* What unlock() makes of the flags; it also resets flag_locked.
Unlocks(g) == guard[g].flag_locked /\ guard[g].flag_ptr # NoFlag

FlagsAfterUnlock(g) ==
    IF Unlocks(g) THEN [flagSet EXCEPT ![guard[g].flag_ptr] = FALSE] ELSE flagSet

Construct(g, flag) ==
    /\ ~guard[g].alive
    /\ guard' = [guard EXCEPT ![g] = Bound(flag, FALSE)]
    /\ UNCHANGED flagSet

\* lock() of a guard that is bound to no flag returns at once.
BeginLock(g) ==
    /\ Idle(g)
    /\ guard[g].flag_ptr # NoFlag
    /\ guard' = [guard EXCEPT ![g].spinning = TRUE]
    /\ UNCHANGED flagSet

\* Faulty: the flag is tested, then set, and the test is not repeated.
TestThenSet(g) ==
    /\ guard[g].spinning
    /\ flagSet' = [flagSet EXCEPT ![guard[g].flag_ptr] = TRUE]
    /\ guard' = [guard EXCEPT ![g].spinning = FALSE, ![g].flag_locked = TRUE]

\* The test-and-set that finds the flag clear.
TestAndSet(g) ==
    /\ guard[g].spinning
    /\ ~flagSet[guard[g].flag_ptr]
    /\ flagSet' = [flagSet EXCEPT ![guard[g].flag_ptr] = TRUE]
    /\ guard' = [guard EXCEPT ![g].spinning = FALSE, ![g].flag_locked = TRUE]

Unlock(g) ==
    /\ Idle(g) /\ Unlocks(g)
    /\ flagSet' = FlagsAfterUnlock(g)
    /\ guard' = [guard EXCEPT ![g].flag_locked = FALSE]

\* Faulty: the old flag is not unlocked.
RebindOnly(g, flag) ==
    /\ Idle(g)
    /\ guard' = [guard EXCEPT ![g].flag_ptr = flag]
    /\ UNCHANGED flagSet

Rebind(g, flag) ==
    /\ Idle(g)
    /\ flagSet' = FlagsAfterUnlock(g)
    /\ guard' = [guard EXCEPT ![g] = Bound(flag, FALSE)]

\* Faulty: the destructor forgets that the guard was locked, and the flag.
DestroyLocked(g) ==
    /\ Idle(g)
    /\ guard' = [guard EXCEPT ![g].alive = FALSE]
    /\ UNCHANGED flagSet

Destroy(g) ==
    /\ Idle(g)
    /\ flagSet' = FlagsAfterUnlock(g)
    /\ guard' = [guard EXCEPT ![g] = Destroyed]

MoveConstruct(g, other) ==
    /\ ~guard[g].alive /\ Idle(other)
    /\ guard' = [guard EXCEPT ![g] = guard[other], ![other] = Unbound]
    /\ UNCHANGED flagSet

\* A guard moved to itself is unlocked first and ends up unbound.
MoveAssign(g, other) ==
    /\ Idle(g) /\ Idle(other)
    /\ flagSet' = FlagsAfterUnlock(g)
    /\ guard' = [guard EXCEPT ![g] = guard[other], ![other] = Unbound]

Init ==
    /\ flagSet = [f \in Flags |-> FALSE]
    /\ guard = [g \in Guards |-> Destroyed]

\* Clients that do not call lock() of a guard that has locked its flag: lock()
\* does not look at flag_locked, and would spin on that flag for ever.
Next ==
    \E g \in Guards :
       \/ \E flag \in Flags \cup {NoFlag} : Construct(g, flag) \/ Rebind(g, flag)
       \/ ~guard[g].flag_locked /\ BeginLock(g)
       \/ TestAndSet(g) \/ Unlock(g) \/ Destroy(g)
       \/ \E other \in Guards : MoveConstruct(g, other) \/ MoveAssign(g, other)

Spec == Init /\ [][Next]_vars

\* All clients.
AnyClientNext == Next \/ \E g \in Guards : BeginLock(g)

AnyClientSpec == Init /\ [][AnyClientNext]_vars

-----------------------------------------------------------------------------
(* Properties.                                                              *)

\* The members keep their types; a guard that was destroyed, moved from or
\* bound to nothing does not take itself for locked, and only a bound guard
\* spins (AtomicGuards.hpp:66-90).
TypeOK ==
    /\ flagSet \in [Flags -> BOOLEAN]
    /\ guard \in [Guards -> [alive : BOOLEAN, flag_ptr : Flags \cup {NoFlag},
                             flag_locked : BOOLEAN, spinning : BOOLEAN]]
    /\ \A g \in Guards :
          guard[g].flag_locked \/ guard[g].spinning =>
             guard[g].alive /\ guard[g].flag_ptr # NoFlag

Holds(g, f) == guard[g].flag_ptr = f /\ guard[g].flag_locked

\* A flag is set exactly while a guard holds it, and then one guard holds it:
\* no sequence of locks, rebinds, moves and destructions by several threads
\* leaks a flag, clears one that is held, or gives it to two guards
\* (AtomicGuards.hpp:35-56, 66-90).
HeldByOneGuard ==
    \A f \in Flags :
       /\ flagSet[f] <=> \E g \in Guards : Holds(g, f)
       /\ \A g, h \in Guards : Holds(g, f) /\ Holds(h, f) => g = h

=============================================================================
