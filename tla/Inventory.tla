------------------------------ MODULE Inventory ------------------------------
(***************************************************************************)
(* What Launchpad promises of every thing at a provider that bills until   *)
(* somebody deletes it, a pod or a disk (prime_disks.py: a disk is         *)
(* "remembered for later attaches"): from its creation to its end a        *)
(* running call has it in hand, or it is written down where the user       *)
(* finds it, or it was lost by a failure right there.                      *)
(***************************************************************************)
CONSTANT Things

VARIABLES
    place,   \* where each thing is
    torn     \* the things that damaged writing may have taken out

ivars == <<place, torn>>

Places == {"unused", "held", "known", "lost", "over"}

Init ==
    /\ place = [x \in Things |-> "unused"]
    /\ torn = {}

Moves(x, from, to) == place[x] \in from /\ place'[x] \in to

\* A thing is created by a call that has it in hand, or whose answer is lost.
Create(x) == Moves(x, {"unused"}, {"held", "lost"})

\* What a call has in hand it writes down, or a failure makes it lose it.
WriteDown(x) == Moves(x, {"held"}, {"known"})

Lose(x) == Moves(x, {"held"}, {"lost"})

\* A call takes up what is written down, or what it still remembers.
TakeUp(x) == Moves(x, {"known", "lost"}, {"held"})

\* What is written down is lost only with the writing itself; a call that gives it up
\* takes it up first.
Tear(x) == x \in torn' /\ Moves(x, {"known"}, {"lost"})

\* A thing that is over never bills again.
End(x) == Moves(x, {"held", "known", "lost"}, {"over"})

\* One step of a program may move many things: a file holds them all.
Next ==
    /\ torn' \subseteq Things
    /\ place' \in [Things -> Places]
    /\ \A x \in Things :
          \/ place'[x] = place[x]
          \/ Create(x) \/ WriteDown(x) \/ Lose(x) \/ TakeUp(x) \/ Tear(x) \/ End(x)

Spec == Init /\ [][Next]_ivars
=============================================================================
