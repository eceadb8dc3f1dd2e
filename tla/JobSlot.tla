------------------------------ MODULE JobSlot ------------------------------
(***************************************************************************)
(* What the durable queue promises about one deduplication key, whatever   *)
(* the backend: the key names at most one piece of work, one worker at a   *)
(* time holds it, a second offer is dropped until it is settled, and only  *)
(* its holder, the holder's death or a retry moves it.                     *)
(* PortableQueue implements one such slot per key while heartbeats are     *)
(* timely.                                                                 *)
(***************************************************************************)
CONSTANTS Worker

VARIABLES
  phase,   \* "free", "waiting", "running" or "retained" as a failure
  holder   \* the worker that runs the job, as a set; {} when it died

vars == <<phase, holder>>

TypeOK ==
  /\ phase \in {"free", "waiting", "running", "retained"}
  /\ holder \in {{}} \cup {{w} : w \in Worker}
  /\ holder # {} => phase = "running"

Init == phase = "free" /\ holder = {}

Offer == phase = "free" /\ phase' = "waiting" /\ UNCHANGED holder

\* A waiting job, or one whose holder died, is taken by one worker.
Take(w) ==
  /\ phase \in {"waiting", "running"} /\ holder = {}
  /\ phase' = "running" /\ holder' = {w}

\* The lease of a dead holder's job runs out.
Expire == phase = "running" /\ holder = {} /\ phase' = "waiting" /\ UNCHANGED holder

\* The holder settles the job: done, to be tried again, or retained.
Settle ==
  /\ holder # {} /\ holder' = {}
  /\ phase' \in {"free", "waiting", "retained"}

Die == holder # {} /\ holder' = {} /\ UNCHANGED phase

Retry == phase = "retained" /\ phase' = "waiting" /\ UNCHANGED holder

Next == Offer \/ (\E w \in Worker : Take(w)) \/ Expire \/ Settle \/ Die \/ Retry

Spec == Init /\ [][Next]_vars
=============================================================================
