--------------------------- MODULE EnrollmentWizard ---------------------------
(***************************************************************************)
(* EnrollmentWizardScreen (screens/EnrollmentWizardScreen.tsx) together    *)
(* with its useUserData poll and the backend record its requests change.   *)
(*                                                                         *)
(* Each user event (a button, the Enter key bound by Mousetrap, the code   *)
(* field completing) is one action: the synchronous part of its handler up *)
(* to the first await.  Every request the handlers send without awaiting a *)
(* result they use is an element of pending until it settles.  The mount   *)
(* effect's getUserData() is mountFetch.  With React 16 a setState outside *)
(* a React event handler re-renders at once, so the render-time redirect   *)
(* on an enrolled snapshot happens in the step that stores the snapshot.   *)
(***************************************************************************)
EXTENDS UserData

CONSTANTS
    MaxStep,      \* bound on activeStep: Enter keeps incrementing it
    InitialUsers  \* the backend records a user can reach /enroll with

\* getSteps(): "Computer name setup", "MFA Setup"
NumSteps == 2

ASSUME MaxStepAssumption == MaxStep \in Nat /\ MaxStep >= NumSteps + 1

ASSUME InitialUsersAssumption == InitialUsers \subseteq Users /\ InitialUsers # {}

VARIABLES
    screen,        \* the route shown: "enroll", "redirect" or "login"
    activeStep,    \* useState activeStep
    skipped,       \* useState skipped (a Set of steps)
    computerName,  \* useState computerName, TRUE when non-empty
    enrollmentMode,\* useState enrollmentMode: "totp" (QR) or "sms"
    isLoading,     \* useState isLoading: a code submission is outstanding
    isInPhoneSubmissionTimeout, \* useState: the 3000 ms phone throttle
    canFinish,     \* useState canFinish: the mount fetch has settled
    mountFetch,    \* the mount effect's getUserData(): Sent, a reply, Done
    pending,       \* requests sent and not yet settled (a set of Requests)
    commitSent,    \* history: saveUserToDB() has been called
    skipError      \* history: handleSkip threw "can't skip a step ..."

wizardVars == <<screen, activeStep, skipped, computerName, enrollmentMode,
                isLoading, isInPhoneSubmissionTimeout, canFinish, mountFetch,
                pending, commitSent, skipError>>

vars == <<pollVars, wizardVars>>

Screens == {"enroll", "redirect", "login"}
Modes == {"totp", "sms"}

TypeOK ==
    /\ server \in Users
    /\ userData \in Users \cup {NoUser}
    /\ polls \in [PollSlots -> {Idle, Sent} \cup Replies]
    /\ screen \in Screens
    /\ activeStep \in 0..MaxStep
    /\ skipped \subseteq 0..MaxStep
    /\ computerName \in BOOLEAN
    /\ enrollmentMode \in Modes
    /\ isLoading \in BOOLEAN
    /\ isInPhoneSubmissionTimeout \in BOOLEAN
    /\ canFinish \in BOOLEAN
    /\ mountFetch \in {Sent, Done} \cup Replies
    /\ pending \subseteq Requests
    /\ commitSent \in BOOLEAN
    /\ skipError \in BOOLEAN

-----------------------------------------------------------------------------
(* Values the render computes from the state.                              *)

Mounted == screen = "enroll"

\* enrollmentStatus: {sms: true, totp: false} until a snapshot is stored.
EnrollmentStatus ==
    IF userData \in Users
    THEN [sms |-> userData.phone_number, totp |-> userData.totp_enrolled]
    ELSE [sms |-> TRUE, totp |-> FALSE]

IsEnrolledInSomething == EnrollmentStatus.sms \/ EnrollmentStatus.totp

CanPressNext ==
    \/ activeStep = NumSteps - 1 /\ IsEnrolledInSomething /\ canFinish
    \/ activeStep = 0 /\ computerName

isStepOptional(step) == step = 0

\* MfaSetupView is rendered (step 1 and no code submission outstanding).
MfaSetupShown == Mounted /\ activeStep = 1 /\ ~isLoading

\* isEnrolled in MfaSetupView: the factor of the current mode is enrolled.
IsEnrolledInMode ==
    IF enrollmentMode = "totp" THEN EnrollmentStatus.totp ELSE EnrollmentStatus.sms

-----------------------------------------------------------------------------
(* The handlers.                                                           *)

Init ==
    /\ server \in InitialUsers
    /\ PollInit
    /\ screen = "enroll"
    /\ activeStep = 0
    /\ skipped = {}
    /\ computerName = FALSE
    /\ enrollmentMode = "totp"
    /\ isLoading = FALSE
    /\ isInPhoneSubmissionTimeout = FALSE
    /\ canFinish = FALSE
    /\ mountFetch = Sent
    /\ pending = {}
    /\ commitSent = FALSE
    /\ skipError = FALSE

\* handleSkip as a closure that captured step as its activeStep: it checks
\* and records that step but advances the current one (functional update).
\* A skip of a step that is not optional throws before any setState.
handleSkip(step) ==
    /\ skipError' = (skipError \/ ~isStepOptional(step))
    /\ IF isStepOptional(step)
       THEN /\ activeStep < MaxStep
            /\ activeStep' = activeStep + 1
            /\ skipped' = skipped \cup {step}
       ELSE UNCHANGED <<activeStep, skipped>>

\* setActiveStep(prev => prev + 1); setSkipped(newSkipped)
Advance ==
    /\ activeStep < MaxStep
    /\ activeStep' = activeStep + 1
    /\ skipped' = skipped \ {activeStep}
    /\ UNCHANGED skipError

\* Mutant of handleNext: step 1 with no factor falls into the skip path of
\* step 0 instead of returning.
handleNextSkipsUnenrolled ==
    /\ \/ /\ activeStep = 0 /\ ~computerName
          /\ handleSkip(activeStep)
          /\ UNCHANGED <<pending, commitSent>>
       \/ /\ activeStep = 0 /\ computerName
          /\ pending' = pending \cup {"updateComputerName"}
          /\ Advance
          /\ UNCHANGED commitSent
       \/ /\ activeStep = 1 /\ ~IsEnrolledInSomething
          /\ handleSkip(activeStep)
          /\ UNCHANGED <<pending, commitSent>>
       \/ /\ activeStep = 1 /\ IsEnrolledInSomething
          /\ pending' = pending \cup {"saveUserToDB"}
          /\ commitSent' = TRUE
          /\ Advance
       \/ /\ activeStep \notin {0, 1}
          /\ Advance
          /\ UNCHANGED <<pending, commitSent>>
    /\ UNCHANGED <<pollVars, screen, computerName, enrollmentMode, isLoading,
                   isInPhoneSubmissionTimeout, canFinish, mountFetch>>

\* handleNext.  On step 1 with no factor it returns without a state change,
\* which is a stuttering step and needs no disjunct.
handleNext ==
    /\ \/ /\ activeStep = 0 /\ ~computerName
          /\ handleSkip(activeStep)
          /\ UNCHANGED <<pending, commitSent>>
       \/ /\ activeStep = 0 /\ computerName
          /\ pending' = pending \cup {"updateComputerName"}
          /\ Advance
          /\ UNCHANGED commitSent
       \/ /\ activeStep = 1 /\ IsEnrolledInSomething
          /\ pending' = pending \cup {"saveUserToDB"}
          /\ commitSent' = TRUE
          /\ Advance
       \/ /\ activeStep \notin {0, 1}
          /\ Advance
          /\ UNCHANGED <<pending, commitSent>>
    /\ UNCHANGED <<pollVars, screen, computerName, enrollmentMode, isLoading,
                   isInPhoneSubmissionTimeout, canFinish, mountFetch>>

\* The Next/Finish button, rendered while steps remain and canPressNext.
PressNext ==
    /\ Mounted /\ activeStep # NumSteps /\ CanPressNext
    /\ handleNext

\* Mousetrap.bind("enter", handleNext): bound on every render, unguarded.
PressEnter ==
    /\ Mounted
    /\ handleNext

\* The Skip button, rendered on an optional step.
PressSkip ==
    /\ Mounted /\ activeStep # NumSteps /\ isStepOptional(activeStep)
    /\ handleSkip(activeStep)
    /\ UNCHANGED <<pollVars, screen, computerName, enrollmentMode, isLoading,
                   isInPhoneSubmissionTimeout, canFinish, mountFetch, pending,
                   commitSent>>

\* Mutant of PressBack: the Back button is not disabled on step 0.
PressBackOnFirst ==
    /\ Mounted /\ activeStep # NumSteps
    /\ activeStep' = activeStep - 1
    /\ UNCHANGED <<pollVars, screen, skipped, computerName, enrollmentMode,
                   isLoading, isInPhoneSubmissionTimeout, canFinish, mountFetch,
                   pending, commitSent, skipError>>

\* Mutant of PressBack: Back is also rendered on the completion screen.
PressBackOnCompletion ==
    /\ Mounted /\ activeStep # 0
    /\ activeStep' = activeStep - 1
    /\ UNCHANGED <<pollVars, screen, skipped, computerName, enrollmentMode,
                   isLoading, isInPhoneSubmissionTimeout, canFinish, mountFetch,
                   pending, commitSent, skipError>>

\* handleBack: setActiveStep(prev - 1).
handleBack == activeStep' = activeStep - 1

\* The Back button, rendered while steps remain, disabled on 0.
PressBack ==
    /\ Mounted /\ activeStep # NumSteps /\ activeStep # 0
    /\ handleBack
    /\ UNCHANGED <<pollVars, screen, skipped, computerName, enrollmentMode,
                   isLoading, isInPhoneSubmissionTimeout, canFinish, mountFetch,
                   pending, commitSent, skipError>>

\* The computer-name field's onChange (rendered on step 0).
EditComputerName ==
    /\ Mounted /\ activeStep = 0
    /\ computerName' = ~computerName
    /\ UNCHANGED <<pollVars, screen, activeStep, skipped, enrollmentMode,
                   isLoading, isInPhoneSubmissionTimeout, canFinish, mountFetch,
                   pending, commitSent, skipError>>

\* handleEnrollmentModeChange: toggles between the QR (TOTP) and SMS modes.
handleEnrollmentModeChange ==
    enrollmentMode' = IF enrollmentMode = "totp" THEN "sms" ELSE "totp"

\* The "Enroll with ..." button, hidden when the
\* other mode's factor is already enrolled.
ChangeEnrollmentMode ==
    /\ MfaSetupShown
    /\ ~(enrollmentMode = "sms" /\ EnrollmentStatus.totp)
    /\ ~(enrollmentMode = "totp" /\ EnrollmentStatus.sms)
    /\ handleEnrollmentModeChange
    /\ UNCHANGED <<pollVars, screen, activeStep, skipped, computerName,
                   isLoading, isInPhoneSubmissionTimeout, canFinish, mountFetch,
                   pending, commitSent, skipError>>

\* handleCodeSubmit: the confirmation-code field completes while the current
\* mode's factor is not enrolled; performEnrollWithSMS / WithTOTP.
SubmitCode ==
    /\ MfaSetupShown /\ ~IsEnrolledInMode
    /\ isLoading' = TRUE
    /\ pending' = pending \cup
                  {IF enrollmentMode = "sms" THEN "enrollSms" ELSE "enrollTotp"}
    /\ UNCHANGED <<pollVars, screen, activeStep, skipped, computerName,
                   enrollmentMode, isInPhoneSubmissionTimeout, canFinish,
                   mountFetch, commitSent, skipError>>

\* handlePhoneSubmission with a number PhoneNumberScheme accepts (an invalid
\* one only shows an alert): start the 3000 ms throttle, initiateSmsMessage.
\* The Submit button is in PhoneEnrollView, shown in sms mode with no phone
\* enrolled, and is disabled while the throttle runs.
SubmitPhone ==
    /\ MfaSetupShown /\ enrollmentMode = "sms" /\ ~EnrollmentStatus.sms
    /\ ~isInPhoneSubmissionTimeout
    /\ isInPhoneSubmissionTimeout' = TRUE
    /\ pending' = pending \cup {"initiateSms"}
    /\ UNCHANGED <<pollVars, screen, activeStep, skipped, computerName,
                   enrollmentMode, isLoading, canFinish, mountFetch, commitSent,
                   skipError>>

\* The throttle's setTimeout fires.
PhoneTimeoutExpires ==
    /\ isInPhoneSubmissionTimeout
    /\ isInPhoneSubmissionTimeout' = FALSE
    /\ UNCHANGED <<pollVars, screen, activeStep, skipped, computerName,
                   enrollmentMode, isLoading, canFinish, mountFetch, pending,
                   commitSent, skipError>>

\* A request settles: the backend applies it or rejects it.  Only the code
\* submission's handler changes modelled state (finally setIsLoading(false));
\* the others set an alert or, for saveUserToDB, nothing at all.
RequestSettles(req) ==
    /\ req \in pending
    /\ pending' = pending \ {req}
    /\ \E accepted \in BOOLEAN :
           server' = IF accepted THEN RequestEffect(req, server) ELSE server
    /\ isLoading' = IF req \in {"enrollSms", "enrollTotp"} THEN FALSE ELSE isLoading
    /\ UNCHANGED <<userData, polls, screen, activeStep, skipped, computerName,
                   enrollmentMode, isInPhoneSubmissionTimeout, canFinish,
                   mountFetch, commitSent, skipError>>

\* The backend answers the mount effect's getUserData().
MountAnswer ==
    /\ mountFetch = Sent
    /\ \E r \in GetUserDataReplies(server) : mountFetch' = r
    /\ UNCHANGED <<pollVars, screen, activeStep, skipped, computerName,
                   enrollmentMode, isLoading, isInPhoneSubmissionTimeout,
                   canFinish, pending, commitSent, skipError>>

\* The mount effect resumes.  The effect's closure is the first render's:
\* its activeStep is 0, so "if (activeStep === 0) handleSkip()" always runs
\* when a computer name is set, and that handleSkip checks and records step
\* 0 while advancing the current step.  A rejection lands in the catch, and
\* the finally sets canFinish in every case.  (The phone prefill tests the
\* phoneNumber state, '' in that closure, so it never runs.)
MountSettles ==
    /\ Mounted
    /\ mountFetch \in Replies
    /\ mountFetch' = Done
    /\ canFinish' = TRUE
    /\ \/ /\ mountFetch \in Users /\ mountFetch.personal_desktop
          /\ computerName' = TRUE
          /\ handleSkip(0)
          /\ UNCHANGED screen
       \/ /\ mountFetch \in Users /\ ~mountFetch.personal_desktop
          /\ UNCHANGED <<screen, computerName, activeStep, skipped, skipError>>
       \/ /\ mountFetch = NoUser
          /\ screen' = "login"
          /\ UNCHANGED <<computerName, activeStep, skipped, skipError>>
       \/ /\ mountFetch = Failed
          /\ UNCHANGED <<screen, computerName, activeStep, skipped, skipError>>
    /\ UNCHANGED <<pollVars, enrollmentMode, isLoading,
                   isInPhoneSubmissionTimeout, pending, commitSent>>

\* The poll, while the screen is mounted (the cleanup clears the interval).
Tick(i) ==
    /\ Mounted
    /\ PollTick(i)
    /\ UNCHANGED wizardVars

Answer(i) ==
    /\ Mounted
    /\ PollAnswer(i)
    /\ UNCHANGED wizardVars

\* The backend answers the poll's call with the record itself.
AnswerOk(i) ==
    /\ Answer(i)
    /\ polls'[i] = server

\* Mutant of Deliver: the render redirects on any stored snapshot.
DeliverRedirectOnSnapshot(i) ==
    /\ Mounted
    /\ PollDeliver(i)
    /\ screen' = IF userData' \in Users THEN "redirect" ELSE screen
    /\ UNCHANGED <<activeStep, skipped, computerName, enrollmentMode,
                   isLoading, isInPhoneSubmissionTimeout, canFinish, mountFetch,
                   pending, commitSent, skipError>>

\* setUserData and the render it causes: an enrolled snapshot makes the
\* render call history.push('redirect').
Deliver(i) ==
    /\ Mounted
    /\ PollDeliver(i)
    /\ screen' = IF userData' \in Users /\ userData'.enrolled
                 THEN "redirect" ELSE screen
    /\ UNCHANGED <<activeStep, skipped, computerName, enrollmentMode,
                   isLoading, isInPhoneSubmissionTimeout, canFinish, mountFetch,
                   pending, commitSent, skipError>>

Next ==
    \/ PressNext
    \/ PressEnter
    \/ PressSkip
    \/ PressBack
    \/ EditComputerName
    \/ ChangeEnrollmentMode
    \/ SubmitCode
    \/ SubmitPhone
    \/ PhoneTimeoutExpires
    \/ \E req \in Requests : RequestSettles(req)
    \/ MountAnswer
    \/ MountSettles
    \/ \E i \in PollSlots : Tick(i) \/ Answer(i) \/ Deliver(i)

Spec == Init /\ [][Next]_vars

(***************************************************************************)
(* Fairness.  The poll's interval is a browser timer that keeps firing     *)
(* while the screen is mounted, a stored reply is set at once, and the     *)
(* backend is not failing forever: a call that keeps being made is         *)
(* eventually answered with the record.  Nothing is assumed of the user or *)
(* of the wizard's own requests (axios sets no timeout).                   *)
(***************************************************************************)
Fairness ==
    \A i \in PollSlots :
        WF_vars(Tick(i)) /\ SF_vars(AnswerOk(i)) /\ WF_vars(Deliver(i))

FairSpec == Spec /\ Fairness

-----------------------------------------------------------------------------
(* Properties.                                                             *)

\* Once Finish has called saveUserToDB, the wizard never shows a setup step
\* again (Back is not rendered on the completion screen; Enter and the late
\* mount skip only move forward), so the enrollment is committed at most once.
CommitLeavesSetup == commitSent => activeStep >= NumSteps

\* The screen hands over to the protected destination only when the backend
\* has recorded the enrollment, although it decides on a polled snapshot
\* that may be stale and may arrive out of order.
RedirectOnlyWhenEnrolled == screen = "redirect" => server.enrolled

\* Once the backend records the enrollment (saveUserToDB accepted), the
\* wizard does not stay on /enroll: the poll brings the enrolled record and
\* the render redirects.
EnrolledLeaves == (Mounted /\ server.enrolled) ~> ~Mounted

\* The spec (section 5): a wizard that sees enrolled flip true honours its
\* own in-flight operation before it reacts; the redirect taken on a polled
\* snapshot happens only once the name update the wizard sent from step 0
\* has settled.  handleNext does not await updateComputerName before it
\* advances, so saveUserToDB can overtake it.
RedirectAfterNameSettles == screen = "redirect" => "updateComputerName" \notin pending

\* handleSkip's "You can't skip a step that isn't optional" is unreachable:
\* the Skip button, handleNext and the mount effect only skip step 0.
NoIllegalSkip == ~skipError

\* The spec (4.6): the MFA step advances, and commitEnrollment is called,
\* only when at least one MFA factor is enrolled.
CommitRequiresFactor ==
    [][~commitSent /\ commitSent' => server.phone_number \/ server.totp_enrolled]_vars

\* The spec (4.6): the wizard reaches Completed only through the MFA step's
\* advance, which commits the enrollment.
FinishedOnlyAfterCommit ==
    (Mounted /\ activeStep >= NumSteps) => commitSent
=============================================================================
