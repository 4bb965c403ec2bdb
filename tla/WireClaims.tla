------------------------------ MODULE WireClaims ------------------------------
(***************************************************************************)
(* A statement of the SDK about its account lists that the code does not   *)
(* keep.                                                                   *)
(***************************************************************************)
EXTENDS Wire

\* sdk/src/instructions/init_config.ts: the accounts of init_config come in the
\* order of the on-chain context -- so the program takes the list.
SdkInitMirrorsContext ==
  task.job = "call" /\ task.client = "sdk" /\ task.ix = "init_config" =>
    verdict \in {"None", "Ok"}
===============================================================================
