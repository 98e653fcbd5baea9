---------------------------- MODULE MCLoginScreen ----------------------------
(* The login screen for TLC: up to five sign-ins outstanding.              *)
EXTENDS LoginScreen

MCMaxSignIns == 5
=============================================================================
