--------------------------- MODULE ProfileLifecycle ---------------------------
(***************************************************************************)
(* What the setup store promises of one profile, whoever writes to it: the *)
(* status moves along a fixed graph, the first save makes revision 1, and  *)
(* the memory of a profile never changes without a new revision.           *)
(***************************************************************************)
EXTENDS Naturals

CONSTANTS Keys, Memories

VARIABLES status,    \* status of the profile of a key, "none" when it has no row
          revision,
          memory

vars == <<status, revision, memory>>

Init ==
  /\ status = [k \in Keys |-> "none"]
  /\ revision = [k \in Keys |-> 0]
  /\ memory \in [Keys -> Memories]

Create(k) ==
  /\ status[k] = "none"
  /\ status' = [status EXCEPT ![k] = "running"]
  /\ revision' = [revision EXCEPT ![k] = 0]
  /\ \E m \in Memories : memory' = [memory EXCEPT ![k] = m]

Restart(k) ==
  /\ \/ status[k] = "failed" /\ status' = [status EXCEPT ![k] = "running"]
     \/ status[k] = "ready" /\ status' = [status EXCEPT ![k] = "updating"]
  /\ UNCHANGED <<revision, memory>>

GiveUp(k) ==
  /\ \/ status[k] = "running" /\ status' = [status EXCEPT ![k] = "failed"]
     \/ status[k] = "updating" /\ status' = [status EXCEPT ![k] = "ready"]
  /\ UNCHANGED <<revision, memory>>

Save(k) ==
  /\ status[k] # "none"
  /\ status' = [status EXCEPT ![k] = "ready"]
  /\ revision' = [revision EXCEPT ![k] = @ + 1]
  /\ \E m \in Memories : memory' = [memory EXCEPT ![k] = m]

Remove(k) ==
  /\ status[k] \in {"ready", "failed"}
  /\ status' = [status EXCEPT ![k] = "none"]
  /\ revision' = [revision EXCEPT ![k] = 0]
  /\ \E m \in Memories : memory' = [memory EXCEPT ![k] = m]

Next == \E k \in Keys :
  Create(k) \/ Restart(k) \/ GiveUp(k) \/ Save(k) \/ Remove(k)

Spec == Init /\ [][Next]_vars

================================================================================
