------------------------------- MODULE MCAccess -------------------------------
(* A small instance of Access for TLC.                                     *)
EXTENDS Access, TLC

CONSTANTS ann, bob, s1

TwoPeople == {ann, bob}
OneSlot   == {s1}

\* Each address is a +tag variant of the other.
Variants  == [e \in Emails |-> "mailbox"]

Listed    == {{}, Emails}
AnyMethod == {"magic_link", "idp"}

\* No setting tells the addresses apart.
Alike == Permutations(Emails)
=============================================================================
