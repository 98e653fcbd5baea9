------------------------- MODULE MCMultifactorAuth --------------------------
(* The MFA screen for TLC: one poll slot beside the mount fetch, two        *)
(* confirmations and two revert timers, one older SMS send.                *)
EXTENDS MultifactorAuth

MCMaxInFlight == 1

\* Two interval calls in flight at once, so that their replies can land out
\* of order (used by the safety run).
MCMaxInFlightOverlap == 2
MCMaxConfirms == 2
MCMaxSends == 1
MCMaxReverts == 2

\* Users sent to /mfa have logged in and enrolled; their auth level is not
\* raised yet.  The screen never reads personal_desktop, so one value
\* stands for both.  Every combination of the flags it reads is kept.
MCMfaInitialUsers ==
    {u \in Users : u.enrolled /\ ~u.mfa_verified /\ ~u.personal_desktop}
=============================================================================
