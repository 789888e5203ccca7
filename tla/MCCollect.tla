------------------------------- MODULE MCCollect -------------------------------
(***************************************************************************)
(* Instances of Collect for TLC: one unit, copied to several sources.      *)
(***************************************************************************)
EXTENDS Collect

CONSTANTS u1, u2, home, github, gitlab

\* Every copy names the same directory; the first source also names a remote.
Copied ==
    [x \in Source \X Unit |->
        [cwd |-> {home}, remote |-> {r \in {github} : x[1] = 1}, repository |-> "none"]]

Plain == [override |-> [u \in Unit |-> "none"], mapping |-> [c \in Cwd |-> "none"],
          aliases |-> {}, enrolled |-> {}]

Choosing(choice) == [Plain EXCEPT !.override = [u \in Unit |-> choice]]

\* Only usage of another remote is this repository's.
Elsewhere == [Plain EXCEPT !.aliases = {gitlab}]

Standing(kind) == [kind |-> kind, origin |-> {}]

\* The first source is there from the beginning.
FirstFile == [s \in Source |-> {f \in {[lines |-> << u1 >>, epoch |-> 0]} : s = 1}]

AllMembers == [c \in Cwd |-> Standing("member")]

PolicyEdits == {Elsewhere, Choosing("include"), Choosing("exclude")}

NoEdits == {}

NoMoves == {}

MovedPlaces == {Standing("member"), Standing("missing")}

SomeModes == {"full", "automatic"}

=============================================================================
