--------------------------- MODULE FileLifecycle ---------------------------
(***************************************************************************)
(* What the file store promises of one file after the other: it appears,   *)
(* can be used until its deletion is asked for, never comes back once it   *)
(* has been deleted, and is removed only when the retention period is      *)
(* over; all of it at once as far as a reader can tell, except that bytes  *)
(* whose existence could not be established may be left.                   *)
(***************************************************************************)
EXTENDS Naturals

CONSTANTS Files, Retention, None

VARIABLES
    now,        \* the clock
    phase,      \* of each file: one of Phases
    asked,      \* when the deletion was first asked for, or None
    missed      \* files whose bytes were once taken to be gone, and were not

Phases == {"none", "visible", "deleted", "left", "gone"}

Init ==
    /\ now = 0
    /\ phase = [f \in Files |-> "none"]
    /\ asked = [f \in Files |-> None]
    /\ missed = {}

Move(f, from, to) == phase[f] = from /\ phase' = [phase EXCEPT ![f] = to]

Over(f) == now >= asked[f] + Retention

Appear(f) == Move(f, "none", "visible") /\ UNCHANGED <<now, asked, missed>>

Ask(f) ==
    /\ phase[f] = "visible"
    /\ asked[f] = None
    /\ asked' = [asked EXCEPT ![f] = now]
    /\ UNCHANGED <<now, phase, missed>>

Delete(f) ==
    /\ Move(f, "visible", "deleted")
    /\ asked[f] # None
    /\ UNCHANGED <<now, asked, missed>>

Miss(f) ==
    /\ phase[f] = "deleted"
    /\ Over(f)
    /\ missed' = missed \union {f}
    /\ UNCHANGED <<now, phase, asked>>

\* The metadata goes; the bytes stay, for ever or until a cleanup that was
\* already at work on them removes them.
Abandon(f) ==
    /\ Move(f, "deleted", "left")
    /\ Over(f)
    /\ f \in missed
    /\ UNCHANGED <<now, asked, missed>>

Remove(f) ==
    /\ Move(f, "deleted", "gone") \/ Move(f, "left", "gone")
    /\ Over(f)
    /\ UNCHANGED <<now, asked, missed>>

Tick == now' = now + 1 /\ UNCHANGED <<phase, asked, missed>>

Next ==
    \/ \E f \in Files :
          \/ Appear(f) \/ Ask(f) \/ Delete(f)
          \/ Miss(f) \/ Abandon(f) \/ Remove(f)
    \/ Tick

Spec == Init /\ [][Next]_<<now, phase, asked, missed>>
=============================================================================
