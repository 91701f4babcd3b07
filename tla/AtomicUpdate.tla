----------------------------- MODULE AtomicUpdate -----------------------------
(***************************************************************************)
(* What a firmware update promises, seen from outside: the device has one  *)
(* image that its boot loader starts and one that it trusts.  An update    *)
(* replaces the first in one step by an image that was offered; then that  *)
(* image is trusted, or the device goes back to the one it trusted before. *)
(* There is never a moment with anything else to start.                    *)
(***************************************************************************)
EXTENDS Naturals

CONSTANTS
    Images,     \* the images there are, as numbers
    Factory     \* the image the device was delivered with

VARIABLES
    boots,      \* the image the boot loader starts, or has started
    trusted,    \* the image it would go back to
    offered     \* the images offered so far

vars == <<boots, trusted, offered>>

Init == boots = Factory /\ trusted = Factory /\ offered = {}

Offer ==
    \E i \in Images : offered' = offered \cup {i}
    /\ UNCHANGED <<boots, trusted>>

Install ==
    /\ boots = trusted
    /\ boots' \in offered
    /\ UNCHANGED <<trusted, offered>>

Accept == trusted' = boots /\ UNCHANGED <<boots, offered>>

GoBack == boots' = trusted /\ UNCHANGED <<trusted, offered>>

Next == Offer \/ Install \/ Accept \/ GoBack

Spec == Init /\ [][Next]_vars
=============================================================================
