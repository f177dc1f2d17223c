--------------------------- MODULE ConnectionLife ---------------------------
(***************************************************************************)
(* What a client connection (engine/src/connection.cpp) promises to the    *)
(* protocol that is attached to it: it is closed before its object is      *)
(* freed, it never reopens, and a protocol is never left with a closed     *)
(* connection without Protocol::release having been posted for it.         *)
(***************************************************************************)
VARIABLES life,      \* "open", "closed" or "gone" (the object is freed)
          attached,  \* a protocol exists
          told       \* Protocol::release has been posted at least once

lifeVars == <<life, attached, told>>

LifeInit == life = "open" /\ attached = FALSE /\ told = FALSE

\* A protocol is only made for an open connection, and may close it at once.
Attach ==
    /\ life = "open" /\ ~attached
    /\ attached' = TRUE
    /\ \/ UNCHANGED <<life, told>>
       \/ life' = "closed" /\ told' = TRUE

\* close(): by the peer, a timeout or the server.
Hangup ==
    /\ life = "open"
    /\ life' = "closed"
    /\ told' = attached
    /\ UNCHANGED attached

\* The last reference goes; in between the connection can still be found.
Free ==
    /\ life = "closed"
    /\ life' = "gone"
    /\ UNCHANGED <<attached, told>>

LifeNext == Attach \/ Hangup \/ Free

\* What it never does, and that the object is freed in the end.
LifeSafety == LifeInit /\ [][LifeNext]_lifeVars
LifeSpec == LifeSafety /\ WF_lifeVars(Free)
=============================================================================
