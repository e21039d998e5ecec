---------------------------- MODULE JobOwnership ----------------------------
(***************************************************************************)
(* What Processing and Execution both promise about one processing job,    *)
(* and so where they meet: a worker that claims the job owns it until it   *)
(* completes it, puts it back, gives it up or loses its lease; only then   *)
(* may somebody else move it.  A job is put back by itself MaxRetries      *)
(* times, and given up only after that.                                    *)
(***************************************************************************)
EXTENDS Naturals

CONSTANTS Worker, Nobody, MaxRetries

VARIABLES
  status,   \* the status of the job
  retries,  \* how often it was put back by itself
  lease,    \* who claimed it, and whether its time is not over
  active    \* who runs it, with or without a lease

ownership == <<status, retries, lease, active>>

Free == [token |-> Nobody, live |-> FALSE]

Owns(w) ==
  /\ w \in active
  /\ status = "running"
  /\ lease = [token |-> w, live |-> TRUE]

\* The lease of a running job ran out.
IsLeft == status = "running" /\ ~ lease.live

Init ==
  /\ status \in {"absent", "queued", "completed"}
  /\ retries = 0 /\ lease = Free /\ active = {}

\* An upload, or a retry by hand.
Enqueue ==
  /\ status \in {"absent", "failed"}
  /\ status' = "queued" /\ retries' = 0 /\ lease' = Free
  /\ UNCHANGED active

Claim(w) ==
  /\ status = "queued" /\ w \notin active
  /\ status' = "running" /\ lease' = [token |-> w, live |-> TRUE]
  /\ active' = active \cup {w}
  /\ UNCHANGED retries

Complete(w) ==
  /\ Owns(w)
  /\ status' = "completed" /\ lease' = Free
  /\ active' = active \ {w}
  /\ UNCHANGED retries

\* The job is let go by its owner, who stops, or taken from one that is gone
\* or late, and who may still run.
LetGo ==
  /\ lease' = Free
  /\ \/ \E w \in Worker : Owns(w) /\ active' = active \ {w}
     \/ IsLeft /\ UNCHANGED active

PutBack ==
  /\ LetGo
  /\ retries < MaxRetries
  /\ status' = "queued" /\ retries' = retries + 1

GiveUp ==
  /\ LetGo
  /\ retries = MaxRetries
  /\ status' = "failed" /\ UNCHANGED retries

Expire ==
  /\ lease.live
  /\ lease' = [lease EXCEPT !.live = FALSE]
  /\ UNCHANGED <<status, retries, active>>

\* A worker stops or dies, and writes nothing.
Leave(w) ==
  /\ w \in active
  /\ active' = active \ {w}
  /\ UNCHANGED <<status, retries, lease>>

Next ==
  \/ Enqueue \/ PutBack \/ GiveUp \/ Expire
  \/ \E w \in Worker : Claim(w) \/ Complete(w) \/ Leave(w)

Spec == Init /\ [][Next]_ownership
=============================================================================
