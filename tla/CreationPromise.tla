-------------------------- MODULE CreationPromise --------------------------
(***************************************************************************)
(* What a saved creation command promises its user, however often it is    *)
(* retried and wherever it is interrupted: at most one Object is born; a   *)
(* receipt is issued only for an Object that was born, and attached if the *)
(* command asked for it; and from the receipt on the command does nothing. *)
(***************************************************************************)
EXTENDS Integers

CONSTANTS Object

VARIABLES intent,        \* "none", "saved" or "receipted"
          member,        \* does the command ask for an attachment?
          born,          \* the Objects the command created
          attachments    \* how many attachments each Object was given

vars == <<intent, member, born, attachments>>

Init ==
    /\ intent = "none"
    /\ member \in BOOLEAN
    /\ born = {}
    /\ attachments = [o \in Object |-> 0]

Save ==
    /\ intent = "none" /\ intent' = "saved"
    /\ UNCHANGED <<member, born, attachments>>

Bear(o) ==
    /\ intent = "saved" /\ born = {}
    /\ born' = {o}
    /\ UNCHANGED <<intent, member, attachments>>

Attach(o) ==
    /\ intent = "saved" /\ member /\ o \in born
    /\ attachments' = [attachments EXCEPT ![o] = @ + 1]
    /\ UNCHANGED <<intent, member, born>>

(* An attachment whose audit event could not be written is taken back.       *)
Withdraw(o) ==
    /\ intent = "saved" /\ attachments[o] > 0
    /\ attachments' = [attachments EXCEPT ![o] = @ - 1]
    /\ UNCHANGED <<intent, member, born>>

Receipt ==
    /\ intent = "saved"
    /\ \E o \in born : member => attachments[o] > 0
    /\ intent' = "receipted"
    /\ UNCHANGED <<member, born, attachments>>

Next ==
    \/ Save
    \/ \E o \in Object : Bear(o) \/ Attach(o) \/ Withdraw(o)
    \/ Receipt

Spec == Init /\ [][Next]_vars
=============================================================================
