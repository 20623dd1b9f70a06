-------------------------------- MODULE Feed --------------------------------
(***************************************************************************)
(* What the seqlock queue promises its readers, without saying how: one      *)
(* producer publishes entries, numbered 1, 2, ..., and every reader is        *)
(* handed entries in the order they were published, none twice, never one     *)
(* that is not published yet.  A reader that is too slow may be handed a      *)
(* later entry than the next one.                                            *)
(***************************************************************************)
EXTENDS Naturals

CONSTANTS Readers, MaxEntries

VARIABLES published,  \* how many entries have been published
          cursor      \* the last entry each reader was handed, 0 before the first

feedVars == <<published, cursor>>

FeedInit == published = 0 /\ cursor = [r \in Readers |-> 0]

Publish == published < MaxEntries /\ published' = published + 1 /\ UNCHANGED cursor

Deliver(r) ==
    /\ \E entry \in (cursor[r] + 1)..published : cursor' = [cursor EXCEPT ![r] = entry]
    /\ UNCHANGED published

FeedNext == Publish \/ \E r \in Readers : Deliver(r)

FeedSpec == FeedInit /\ [][FeedNext]_feedVars

=============================================================================
