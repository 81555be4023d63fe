-------------------------- MODULE CommandContract --------------------------
(***************************************************************************)
(* What a register promises about a command it accepted while offline:     *)
(* the server applies it once or it is refused, never both; it never       *)
(* vanishes, and what the manager is told of was refused.  That he is told *)
(* of all of it is no part of it: a sync that fails between the mark and   *)
(* the record tells nobody.                                                *)
(***************************************************************************)
EXTENDS Naturals

CONSTANT Commands

VARIABLES
    fate,     \* "none", "queued", "applied" or "refused"
    told      \* commands shown to the manager

vars == <<fate, told>>

Init == fate = [c \in Commands |-> "none"] /\ told = {}

Accept(c) ==
    /\ fate[c] = "none"
    /\ fate' = [fate EXCEPT ![c] = "queued"]
    /\ UNCHANGED told

Apply(c) ==
    /\ fate[c] = "queued"
    /\ fate' = [fate EXCEPT ![c] = "applied"]
    /\ UNCHANGED told

Refuse(c) ==
    /\ fate[c] = "queued"
    /\ fate' = [fate EXCEPT ![c] = "refused"]
    /\ UNCHANGED told

Tell(c) ==
    /\ fate[c] = "refused"
    /\ told' = told \cup {c}
    /\ UNCHANGED fate

Next == \E c \in Commands : Accept(c) \/ Apply(c) \/ Refuse(c) \/ Tell(c)

Spec == Init /\ [][Next]_vars
=============================================================================
