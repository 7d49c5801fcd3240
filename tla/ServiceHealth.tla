--------------------------- MODULE ServiceHealth ---------------------------
(***************************************************************************)
(* Node health as the indexer keeps it (index/modules/health.rs) and as it *)
(* is written to the database (core/modules/service_health.rs): a set of   *)
(* reasons behind a mutex, and one health row written AFTER the mutex is   *)
(* released.  Three tasks of the indexer call it: the main loop, the gap   *)
(* filler and the startup task.                                            *)
(***************************************************************************)
EXTENDS Integers

CONSTANTS Tasks,         \* tasks that add or remove reasons
          WriteMayFail   \* a health write may fail or time out

VARIABLES reasons,    \* active unhealthy reasons
          dbHealthy,  \* service_health.healthy, row 1
          write       \* task -> health write it has issued and awaits

healthVars == <<reasons, dbHealthy, write>>

Reasons == {"Startup", "GapFill"}

Writes == {"none", "healthy", "unhealthy"}

\* The migration inserts the row as unhealthy.
HealthInit ==
  /\ reasons = {"Startup"}
  /\ dbHealthy = FALSE
  /\ write = [t \in Tasks |-> "none"]

\* The locked part of add_reason; the write follows only if newly added.
AddReason(t, r) ==
  /\ write[t] = "none"
  /\ reasons' = reasons \cup {r}
  /\ write' = [write EXCEPT ![t] = IF r \in reasons THEN "none" ELSE "unhealthy"]
  /\ UNCHANGED dbHealthy

\* The locked part of remove_reason; the write follows only if the reason was
\* present and was the last one.
RemoveReasonIgnoresOthers(t, r) ==
  /\ write[t] = "none"
  /\ reasons' = reasons \ {r}
  /\ write' = [write EXCEPT ![t] = IF r \in reasons THEN "healthy" ELSE "none"]
  /\ UNCHANGED dbHealthy

RemoveReason(t, r) ==
  /\ write[t] = "none"
  /\ reasons' = reasons \ {r}
  /\ write' = [write EXCEPT ![t] =
                 IF r \in reasons /\ reasons' = {} THEN "healthy" ELSE "none"]
  /\ UNCHANGED dbHealthy

\* The transaction commits, or fails or times out (logged and forgotten).
WriteHealth(t) ==
  /\ write[t] # "none"
  /\ \/ dbHealthy' = (write[t] = "healthy")
     \/ WriteMayFail /\ dbHealthy' = dbHealthy
  /\ write' = [write EXCEPT ![t] = "none"]
  /\ UNCHANGED reasons

\* Type invariant of the health state.
HealthTypeOK ==
  /\ reasons \subseteq Reasons
  /\ dbHealthy \in BOOLEAN
  /\ write \in [Tasks -> Writes]

\* While the startup snapshot is being processed the node is never reported
\* healthy, whatever the gap filler adds and removes meanwhile (health.rs
\* 23-25: subsystems can not clobber each other's health state).
StartupBlocksHealthy == "Startup" \in reasons => ~dbHealthy

=============================================================================
