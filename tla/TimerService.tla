---------------------------- MODULE TimerService ----------------------------
(***************************************************************************)
(* What the engine expects of its scheduler, with no thread, lock, queue   *)
(* or id in sight: an armed timer fires once, not before it is due, unless *)
(* it is cancelled first.  Scheduler.tla implements this.                  *)
(***************************************************************************)
EXTENDS Naturals

CONSTANTS Tasks, Times  \* the timers; the times a timer may be set to

VARIABLES status,   \* what has become of each timer
          due,      \* when each armed timer is to fire
          now

tvars == <<status, due, now>>

Status == {"new", "armed", "fired", "cancelled", "dropped"}

TInit ==
    /\ status = [t \in Tasks |-> "new"]
    /\ due \in [Tasks -> Times]
    /\ now \in Nat

Arm(t, d) ==
    /\ status[t] = "new"
    /\ status' = [status EXCEPT ![t] = "armed"]
    /\ due' = [due EXCEPT ![t] = d]
    /\ UNCHANGED now

Fire(t) ==
    /\ status[t] = "armed" /\ due[t] <= now
    /\ status' = [status EXCEPT ![t] = "fired"]
    /\ UNCHANGED <<due, now>>

Cancel(t) ==
    /\ status[t] = "armed"
    /\ status' = [status EXCEPT ![t] = "cancelled"]
    /\ UNCHANGED <<due, now>>

\* A timer set after the service has been stopped is dropped.
Refuse(t) ==
    /\ status[t] = "new"
    /\ status' = [status EXCEPT ![t] = "dropped"]
    /\ UNCHANGED <<due, now>>

\* Shutdown drops whatever is armed, and nothing else.
DropAll ==
    /\ status' = [t \in Tasks |-> IF status[t] = "armed" THEN "dropped" ELSE status[t]]
    /\ UNCHANGED <<due, now>>

Advance ==
    /\ now' = now + 1
    /\ UNCHANGED <<status, due>>

TNext ==
    \/ \E t \in Tasks : Fire(t) \/ Cancel(t) \/ Refuse(t)
    \/ \E t \in Tasks, d \in Times : Arm(t, d)
    \/ DropAll
    \/ Advance

TSpec == TInit /\ [][TNext]_tvars
=============================================================================
