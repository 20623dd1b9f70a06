------------------------ MODULE AtomicFlagGuardProofs ------------------------
(***************************************************************************)
(* A flag is held by one guard, for every number of guards and flags.  The   *)
(* two invariants of AtomicFlagGuard are inductive together: what TypeOK says *)
(* of guards that are not bound is what makes moves and rebinds safe.         *)
(***************************************************************************)
EXTENDS AtomicFlagGuard, TLAPS

Inv == TypeOK /\ HeldByOneGuard

GuardType == [alive : BOOLEAN, flag_ptr : Flags \cup {NoFlag},
              flag_locked : BOOLEAN, spinning : BOOLEAN]

\* No guard is locked in the initial state.
LEMMA InitInv == Init => Inv
<1> SUFFICES ASSUME Init PROVE Inv
  OBVIOUS
<1>1. /\ Destroyed \in GuardType
      /\ ~Destroyed.flag_locked /\ ~Destroyed.spinning
  BY DEF Destroyed, Unbound, Bound, GuardType
<1>2. /\ flagSet = [f \in Flags |-> FALSE]
      /\ \A g \in Guards : guard[g] = Destroyed
      /\ guard = [g \in Guards |-> Destroyed]
  BY DEF Init
<1> HIDE DEF Destroyed
<1>3. TypeOK
  BY <1>1, <1>2 DEF TypeOK, GuardType
<1>4. HeldByOneGuard
  BY <1>1, <1>2 DEF HeldByOneGuard, Holds
<1> QED BY <1>3, <1>4 DEF Inv

\* What unlock() does to the flags: the flag that g holds is cleared, the
\* others stay (AtomicGuards.hpp:48-56).
LEMMA Unlocking ==
  ASSUME Inv, NEW g \in Guards
  PROVE  /\ FlagsAfterUnlock(g) \in [Flags -> BOOLEAN]
         /\ \A f \in Flags : FlagsAfterUnlock(g)[f] <=> flagSet[f] /\ ~Holds(g, f)
<1>1. flagSet \in [Flags -> BOOLEAN] /\ guard \in [Guards -> GuardType]
  BY DEF Inv, TypeOK, GuardType
<1>2. guard[g].flag_locked => guard[g].flag_ptr \in Flags
  BY NoFlagAssumption, <1>1 DEF Inv, TypeOK, GuardType
<1>3. CASE guard[g].flag_locked
  <2>1. FlagsAfterUnlock(g) = [flagSet EXCEPT ![guard[g].flag_ptr] = FALSE]
    BY <1>2, <1>3, NoFlagAssumption DEF FlagsAfterUnlock, Unlocks
  <2> QED
    BY <1>1, <1>2, <1>3, <2>1 DEF Holds
<1>4. CASE ~guard[g].flag_locked
  BY <1>1, <1>4 DEF FlagsAfterUnlock, Unlocks, Holds
<1> QED
  BY <1>3, <1>4

\* Every call keeps the invariant.
LEMMA NextInv == Inv /\ [AnyClientNext]_vars => Inv'
<1> SUFFICES ASSUME Inv, [AnyClientNext]_vars
             PROVE  Inv'
  OBVIOUS
<1> USE NoFlagAssumption
<1>t. flagSet \in [Flags -> BOOLEAN] /\ guard \in [Guards -> GuardType]
  BY DEF Inv, TypeOK, GuardType
<1>b. ASSUME NEW g \in Guards, guard[g].flag_locked \/ guard[g].spinning
      PROVE  guard[g].alive /\ guard[g].flag_ptr # NoFlag
  BY <1>b DEF Inv, TypeOK
<1>h. ASSUME NEW f \in Flags
      PROVE  /\ flagSet[f] <=> \E g \in Guards : Holds(g, f)
             /\ \A g, h \in Guards : Holds(g, f) /\ Holds(h, f) => g = h
  BY DEF Inv, HeldByOneGuard
<1>1. ASSUME NEW g \in Guards, NEW flag \in Flags \cup {NoFlag}, Construct(g, flag)
      PROVE  Inv'
  BY <1>t, <1>b, <1>h, <1>1
     DEF Construct, Bound, Inv, TypeOK, GuardType, HeldByOneGuard, Holds
<1>2. ASSUME NEW g \in Guards, BeginLock(g)
      PROVE  Inv'
  <2>1. /\ guard' \in [Guards -> GuardType]
        /\ guard'[g] = [guard[g] EXCEPT !.spinning = TRUE]
        /\ guard[g].alive /\ guard[g].flag_ptr # NoFlag
        /\ \A h \in Guards \ {g} : guard'[h] = guard[h]
    BY <1>t, <1>2 DEF BeginLock, Idle, GuardType
  <2>2. guard[g] \in GuardType
    BY <1>t
  <2>3. \A h \in Guards, f \in Flags : Holds(h, f)' <=> Holds(h, f)
    BY <2>1, <2>2 DEF Holds, GuardType
  <2>4. flagSet' = flagSet
    BY <1>2 DEF BeginLock
  <2>5. TypeOK'
    BY <1>t, <1>b, <2>1, <2>2, <2>4 DEF TypeOK, GuardType
  <2>6. HeldByOneGuard'
    BY <1>h, <2>3, <2>4 DEF HeldByOneGuard
  <2> QED
    BY <2>5, <2>6 DEF Inv
<1>3. ASSUME NEW g \in Guards, TestAndSet(g)
      PROVE  Inv'
  <2> DEFINE flag == guard[g].flag_ptr
  <2>1. /\ guard' \in [Guards -> GuardType]
        /\ guard'[g] = [guard[g] EXCEPT !.spinning = FALSE, !.flag_locked = TRUE]
        /\ \A h \in Guards \ {g} : guard'[h] = guard[h]
    <3>1. guard \in [Guards -> GuardType] /\ guard[g] \in GuardType
      BY <1>t
    <3>2. guard' = [guard EXCEPT ![g] = [guard[g] EXCEPT !.spinning = FALSE,
                                                         !.flag_locked = TRUE]]
      BY <1>3 DEF TestAndSet
    <3>3. [guard[g] EXCEPT !.spinning = FALSE, !.flag_locked = TRUE] \in GuardType
      BY <3>1 DEF GuardType
    <3> QED BY <3>1, <3>2, <3>3
  <2>2. guard[g] \in GuardType /\ guard[g].alive /\ flag \in Flags
    BY <1>t, <1>b, <1>3 DEF TestAndSet, GuardType
  <2>3. \A h \in Guards, f \in Flags :
           Holds(h, f)' <=> IF h = g THEN f = flag ELSE Holds(h, f)
    BY <2>1, <2>2 DEF Holds, GuardType
  <2>4. ~flagSet[flag] /\ flagSet' = [flagSet EXCEPT ![flag] = TRUE]
    BY <1>3 DEF TestAndSet
  <2>5. TypeOK'
    <3>1. guard'[g].alive /\ guard'[g].flag_ptr # NoFlag
      BY <2>1, <2>2 DEF GuardType
    <3>2. flagSet' \in [Flags -> BOOLEAN]
      BY <1>t, <2>4
    <3> QED
      BY <1>b, <2>1, <3>1, <3>2 DEF TypeOK, GuardType
  <2>6. \A f \in Flags \ {flag} : ~Holds(g, f)
    BY DEF Holds
  <2>7. HeldByOneGuard'
    BY <1>t, <1>h, <2>2, <2>3, <2>4, <2>6 DEF HeldByOneGuard
  <2> QED
    BY <2>5, <2>7 DEF Inv
<1>4. ASSUME NEW g \in Guards, Unlock(g)
      PROVE  Inv'
  <2>1. /\ guard' \in [Guards -> GuardType]
        /\ guard'[g] = [guard[g] EXCEPT !.flag_locked = FALSE]
        /\ \A h \in Guards \ {g} : guard'[h] = guard[h]
    BY <1>t, <1>4 DEF Unlock, GuardType
  <2>2. guard[g] \in GuardType /\ ~guard[g].spinning
    BY <1>t, <1>4 DEF Unlock, Idle
  <2>3. \A h \in Guards, f \in Flags : Holds(h, f)' <=> h # g /\ Holds(h, f)
    BY <2>1, <2>2 DEF Holds, GuardType
  <2>4. flagSet' = FlagsAfterUnlock(g)
    BY <1>4 DEF Unlock
  <2>5. TypeOK'
    BY <1>b, <2>1, <2>2, <2>4, Unlocking DEF TypeOK, GuardType
  <2>6. HeldByOneGuard'
    BY <1>h, <2>3, <2>4, Unlocking DEF HeldByOneGuard
  <2> QED
    BY <2>5, <2>6 DEF Inv
<1>5. ASSUME NEW g \in Guards, NEW flag \in Flags \cup {NoFlag}, Rebind(g, flag)
      PROVE  Inv'
  BY <1>t, <1>b, <1>h, <1>5, Unlocking
     DEF Rebind, Idle, Bound, Inv, TypeOK, GuardType, HeldByOneGuard, Holds
<1>6. ASSUME NEW g \in Guards, Destroy(g)
      PROVE  Inv'
  <2>1. /\ guard' \in [Guards -> GuardType]
        /\ guard'[g] = Destroyed
        /\ \A h \in Guards \ {g} : guard'[h] = guard[h]
    BY <1>t, <1>6 DEF Destroy, Destroyed, Unbound, Bound, GuardType
  <2>2. \A h \in Guards, f \in Flags : Holds(h, f)' <=> h # g /\ Holds(h, f)
    BY <2>1 DEF Holds, Destroyed, Unbound, Bound
  <2>3. flagSet' = FlagsAfterUnlock(g)
    BY <1>6 DEF Destroy
  <2>4. TypeOK'
    BY <1>b, <2>1, <2>3, Unlocking DEF TypeOK, GuardType, Destroyed, Unbound, Bound
  <2>5. HeldByOneGuard'
    BY <1>h, <2>2, <2>3, Unlocking DEF HeldByOneGuard
  <2> QED
    BY <2>4, <2>5 DEF Inv
<1>7. ASSUME NEW g \in Guards, NEW other \in Guards, MoveConstruct(g, other)
      PROVE  Inv'
  <2>0. g # other /\ ~guard[g].flag_locked
    BY <1>b, <1>7 DEF MoveConstruct, Idle
  <2>1. /\ guard' \in [Guards -> GuardType]
        /\ guard'[g] = guard[other] /\ guard'[other] = Unbound
        /\ \A h \in Guards \ {g, other} : guard'[h] = guard[h]
    BY <1>t, <1>7, <2>0 DEF MoveConstruct, Unbound, Bound, GuardType
  <2>2. \A h \in Guards, f \in Flags :
           Holds(h, f)' <=> h # other /\ IF h = g THEN Holds(other, f) ELSE Holds(h, f)
    BY <2>0, <2>1 DEF Holds, Unbound, Bound
  <2>3. flagSet' = flagSet
    BY <1>7 DEF MoveConstruct
  <2>4. TypeOK'
    BY <1>t, <1>b, <2>1, <2>3 DEF TypeOK, GuardType, Unbound, Bound
  <2>5. \A f \in Flags : ~Holds(g, f)
    BY <2>0 DEF Holds
  <2>6. HeldByOneGuard'
    BY <1>h, <2>0, <2>2, <2>3, <2>5 DEF HeldByOneGuard
  <2> QED
    BY <2>4, <2>6 DEF Inv
<1>8. ASSUME NEW g \in Guards, NEW other \in Guards, MoveAssign(g, other)
      PROVE  Inv'
  <2>1. /\ guard' \in [Guards -> GuardType]
        /\ guard'[other] = Unbound
        /\ g # other => guard'[g] = guard[other]
        /\ \A h \in Guards \ {g, other} : guard'[h] = guard[h]
    BY <1>t, <1>8 DEF MoveAssign, Unbound, Bound, GuardType
  <2>2. \A h \in Guards, f \in Flags :
           Holds(h, f)' <=> h # other /\ IF h = g THEN Holds(other, f) ELSE Holds(h, f)
    BY <2>1 DEF Holds, Unbound, Bound
  <2>3. flagSet' = FlagsAfterUnlock(g)
    BY <1>8 DEF MoveAssign
  <2>4. TypeOK'
    <3>1. ASSUME NEW h \in Guards, guard'[h].flag_locked \/ guard'[h].spinning
          PROVE  guard'[h].alive /\ guard'[h].flag_ptr # NoFlag
      <4>1. h # other
        BY <2>1, <3>1 DEF Unbound, Bound
      <4>2. CASE h = g
        BY <1>b, <2>1, <3>1, <4>1, <4>2
      <4>3. CASE h # g
        BY <1>b, <2>1, <3>1, <4>1, <4>3
      <4> QED
        BY <4>2, <4>3
    <3> QED
      BY <2>1, <2>3, <3>1, Unlocking DEF TypeOK, GuardType
  <2>5. HeldByOneGuard'
    BY <1>h, <2>2, <2>3, Unlocking DEF HeldByOneGuard
  <2> QED
    BY <2>4, <2>5 DEF Inv
<1>9. CASE UNCHANGED vars
  BY <1>9 DEF vars, Inv, TypeOK, HeldByOneGuard, Holds
<1> QED
  BY <1>1, <1>2, <1>3, <1>4, <1>5, <1>6, <1>7, <1>8, <1>9 DEF AnyClientNext, Next

\* The members of every guard are well typed and only bound guards lock or
\* spin, also for clients that call lock() twice (AtomicGuards.hpp:66-90).
THEOREM GuardsTyped == AnyClientSpec => []TypeOK
<1>1. Inv => TypeOK
  BY DEF Inv
<1> QED
  BY InitInv, NextInv, <1>1, PTL DEF AnyClientSpec

\* No sequence of calls, also with a guard locked twice, leaks a flag, clears
\* one that is held by another guard or gives it to two guards
\* (AtomicGuards.hpp:35-56, 66-90).
THEOREM OneGuardHolds == AnyClientSpec => []HeldByOneGuard
<1>1. Inv => HeldByOneGuard
  BY DEF Inv
<1> QED
  BY InitInv, NextInv, <1>1, PTL DEF AnyClientSpec

=============================================================================
