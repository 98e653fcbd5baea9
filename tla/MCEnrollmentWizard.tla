------------------------- MODULE MCEnrollmentWizard --------------------------
(* The enrollment wizard for TLC: one poll slot beside the mount fetch     *)
(* (two getUserData calls in flight), and activeStep bounded one past the  *)
(* completion screen.                                                      *)
EXTENDS EnrollmentWizard

MCMaxInFlight == 1
MCMaxStep == 3

\* Users sent to /enroll are not enrolled yet (an enrolled one is only
\* redirected); every combination of the flags the wizard reads is kept.
\* The wizard never reads supervisor or mfa_verified and no request of its
\* changes them, so one value of each stands for all.
MCInitialUsers == {u \in Users : ~u.enrolled /\ ~u.supervisor /\ ~u.mfa_verified}
=============================================================================
