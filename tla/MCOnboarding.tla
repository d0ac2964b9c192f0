---------------------------- MODULE MCOnboarding ----------------------------
(***************************************************************************)
(* An instance of Onboarding for TLC: two users, one Keycloak id besides,  *)
(* and one of everything else.                                             *)
(***************************************************************************)
EXTENDS Onboarding
=============================================================================
