----------------------------- MODULE MCLifecycle -----------------------------
(***************************************************************************)
(* Instances of Lifecycle for TLC.                                         *)
(***************************************************************************)
EXTENDS Lifecycle

\* Every command line and destination, with and without the options, pushes
\* with no, one or two retries, and a push interval that is set or missing.
EveryConfig ==
  {c \in [cli : Cli, enabled : SUBSET Destination,
          CleanupOnStartup : BOOLEAN, IgnoreDisabledRules : BOOLEAN,
          metrics : BOOLEAN, Retries : 0 .. 2, RetryAfter : 0 .. 1,
          GatewayTimeBetweenPush : 0 .. 1] :
     ~c.metrics => /\ c.Retries = 0
                   /\ c.RetryAfter = 0
                   /\ c.GatewayTimeBetweenPush = 1}

\* The Service Log job as it is deployed.
ServiceLogJob ==
  {[cli |-> "instant-reports", enabled |-> {"service_log"},
    CleanupOnStartup |-> FALSE, IgnoreDisabledRules |-> FALSE,
    metrics |-> TRUE, Retries |-> 1, RetryAfter |-> 1,
    GatewayTimeBetweenPush |-> 1]}
=============================================================================
