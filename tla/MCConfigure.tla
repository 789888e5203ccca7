------------------------------ MODULE MCConfigure ------------------------------
(***************************************************************************)
(* Instance of Configure for TLC: two users edit the metadata of one       *)
(* repository, one of them also synchronizes.                              *)
(***************************************************************************)
EXTENDS Configure

CONSTANTS a, b, r, m0, m1

KindsApart == [c \in Clone |-> IF c = a THEN {"manual", "configure"}
                                      ELSE {"configure"}]

LocalNone == [c \in Clone |-> {}]

BootApart == [c \in Clone |-> IF c = a THEN m0 ELSE m1]

NoContributions == {}

\* Both users request the same change of the metadata they know.  A request that
\* changes nothing is not among them: it would clear the note of a change that
\* is still on its way (configure.ts:58).
EditsOne == {<< m0, m1 >>}

=============================================================================
