---------------------------- MODULE MCVaultAccess ----------------------------
(* Instances of VaultAccess for TLC: one subject with a grant and one       *)
(* verified subject that the scope mapping gives nothing.                   *)
EXTENDS VaultAccess, TLC

CONSTANTS work, home, alice, stranger

MCSubjects == {alice, stranger}
MCNarrowGrants == (alice :> {work}) @@ (stranger :> {})

\* Only the subject with a grant, where who asks is not the question.
MCOneSubject == {alice}
MCOneGrant == alice :> {work}

\* Well-formed calls; every way a call can be refused, and searches of every note.
MCWellFormed == {c \in Calls : c.argument = "valid"}
MCBroad == {c \in Calls : \/ c.op = "read" /\ (c.token = alice \/ c.argument = "valid")
                          \/ c.op = "search" /\ c.token = alice /\ c.notes = Notes
                          \/ c.op = "search" /\ c.token = stranger /\ c.notes = {}}

\* The caller with a grant reads a note or searches all of them: where races matter.
MCGranted == {c \in MCWellFormed : c.token = alice /\ (c.op = "search" => c.notes = Notes)}

\* Notes are interchangeable in every safety property.
MCNoteSymmetry == Permutations(Notes)
===============================================================================
