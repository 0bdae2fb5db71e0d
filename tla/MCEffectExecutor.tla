-------------------------- MODULE MCEffectExecutor --------------------------
(* A small instance of EffectExecutor: two processes and plans of two steps *)
(* drawn from a catalog with a profile for each way through ExecuteStep,    *)
(* and two profiles that the compiler must refuse.                          *)
EXTENDS EffectExecutor

Profile(class, mode, verify, authority) ==
    [class |-> class, mode |-> mode, verify |-> verify, authority |-> authority]

MCCatalog ==
    { Profile("observe", "automatic", "none", "opa"),
      Profile("reconcilable", "policy", "observe", "opa"),
      Profile("idempotent", "automatic", "none", "opa"),
      Profile("irreversible", "policy", "observe", "opa"),
      Profile("at_most_once", "policy", "observe", "mandate"),
      Profile("irreversible", "automatic", "observe", "opa"),
      Profile("reconcilable", "automatic", "idempotent", "opa") }

\* Profiles that no authorizer refuses, for the runs about one effect.
PermittedCatalog ==
    { Profile("observe", "automatic", "none", "opa"),
      Profile("idempotent", "automatic", "observe", "opa"),
      Profile("reconcilable", "policy", "observe", "opa") }
=============================================================================
