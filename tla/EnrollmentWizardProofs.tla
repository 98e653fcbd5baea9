------------------------ MODULE EnrollmentWizardProofs ------------------------
(***************************************************************************)
(* Theorems about the enrollment wizard (EnrollmentWizard.tla) for every   *)
(* value of the constants.                                                 *)
(***************************************************************************)
EXTENDS EnrollmentWizard, AuthAPILemmas

(***************************************************************************)
(* TypeOK in two parts: the step counter and the skipped set, which are    *)
(* arithmetic, and everything else.  The SMT backend handles each part in  *)
(* one obligation but not the two together.                                *)
(***************************************************************************)
StepsTypeOK ==
    /\ activeStep \in 0..MaxStep
    /\ skipped \subseteq 0..MaxStep

OtherTypeOK ==
    /\ server \in Users
    /\ userData \in Users \cup {NoUser}
    /\ polls \in [PollSlots -> {Idle, Sent} \cup Replies]
    /\ screen \in Screens
    /\ computerName \in BOOLEAN
    /\ enrollmentMode \in Modes
    /\ isLoading \in BOOLEAN
    /\ isInPhoneSubmissionTimeout \in BOOLEAN
    /\ canFinish \in BOOLEAN
    /\ mountFetch \in {Sent, Done} \cup Replies
    /\ pending \subseteq Requests
    /\ commitSent \in BOOLEAN
    /\ skipError \in BOOLEAN

LEMMA TypeOKParts == TypeOK <=> StepsTypeOK /\ OtherTypeOK
BY Zenon DEF TypeOK, StepsTypeOK, OtherTypeOK

LEMMA TypeOKPartsNext == TypeOK' <=> StepsTypeOK' /\ OtherTypeOK'
BY Zenon DEF TypeOK, StepsTypeOK, OtherTypeOK

\* The wizard's variables other than the step counter and skipped set.
otherVars == <<server, userData, polls, screen, computerName, enrollmentMode,
               isLoading, isInPhoneSubmissionTimeout, canFinish, mountFetch,
               pending, commitSent, skipError>>

(***************************************************************************)
(* A step that changes neither the counter nor skipped keeps StepsTypeOK;  *)
(* a step that only changes them keeps OtherTypeOK.                        *)
(***************************************************************************)
LEMMA StepsFrame ==
    ASSUME StepsTypeOK, UNCHANGED <<activeStep, skipped>>
    PROVE  StepsTypeOK'
BY DEF StepsTypeOK

LEMMA OtherFrame ==
    ASSUME OtherTypeOK, UNCHANGED otherVars
    PROVE  OtherTypeOK'
BY DEF OtherTypeOK, otherVars

(***************************************************************************)
(* What the wizard's two ways of advancing do to the counter: a skip of    *)
(* step 0 and Advance both move one step forward below MaxStep.            *)
(***************************************************************************)
LEMMA HandleSkipZero ==
    ASSUME TypeOK, handleSkip(0)
    PROVE  /\ activeStep < MaxStep
           /\ activeStep' = activeStep + 1
           /\ skipped' = skipped \cup {0}
           /\ skipError' = skipError
<1>1. isStepOptional(0)
      BY DEF isStepOptional
<1>2. skipError' = (skipError \/ FALSE)
      BY <1>1 DEF handleSkip
<1>3. QED
      BY <1>1, <1>2 DEF handleSkip, TypeOK

LEMMA SkipZeroSteps ==
    ASSUME StepsTypeOK, activeStep < MaxStep, activeStep' = activeStep + 1,
           skipped' = skipped \cup {0}
    PROVE  StepsTypeOK'
BY MaxStepAssumption DEF StepsTypeOK

LEMMA AdvanceSteps ==
    ASSUME StepsTypeOK, Advance
    PROVE  StepsTypeOK'
BY MaxStepAssumption DEF StepsTypeOK, Advance

(***************************************************************************)
(* handleNext, shared by the Next button and the Enter key, keeps the      *)
(* types: one case per branch of the handler.                              *)
(***************************************************************************)
LEMMA HandleNextType ==
    ASSUME TypeOK, handleNext
    PROVE  TypeOK'
<1> USE TypeOKParts, TypeOKPartsNext
<1>1. CASE activeStep = 0 /\ ~computerName
  <2>1. /\ handleSkip(0)
        /\ UNCHANGED <<server, userData, polls, screen, computerName,
                       enrollmentMode, isLoading, isInPhoneSubmissionTimeout,
                       canFinish, mountFetch, pending, commitSent>>
        BY <1>1 DEF handleNext, pollVars
  <2>2. /\ activeStep < MaxStep
        /\ activeStep' = activeStep + 1
        /\ skipped' = skipped \cup {0}
        /\ skipError' = skipError
        BY <2>1, HandleSkipZero
  <2>3. StepsTypeOK'
        BY <2>2, SkipZeroSteps
  <2>4. OtherTypeOK'
        BY <2>1, <2>2, OtherFrame DEF otherVars
  <2>5. QED
        BY <2>3, <2>4
<1>2. CASE activeStep = 0 /\ computerName
  <2>1. /\ pending' = pending \cup {"updateComputerName"}
        /\ Advance
        /\ UNCHANGED <<server, userData, polls, screen, computerName,
                       enrollmentMode, isLoading, isInPhoneSubmissionTimeout,
                       canFinish, mountFetch, commitSent>>
        BY <1>2 DEF handleNext, pollVars
  <2>2. StepsTypeOK'
        BY <2>1, AdvanceSteps
  <2>3. OtherTypeOK'
        BY <2>1 DEF Advance, OtherTypeOK, Requests
  <2>4. QED
        BY <2>2, <2>3
<1>3. CASE activeStep = 1
  <2>1. /\ pending' = pending \cup {"saveUserToDB"}
        /\ commitSent' = TRUE
        /\ Advance
        /\ UNCHANGED <<server, userData, polls, screen, computerName,
                       enrollmentMode, isLoading, isInPhoneSubmissionTimeout,
                       canFinish, mountFetch>>
        BY <1>3 DEF handleNext, pollVars
  <2>2. StepsTypeOK'
        BY <2>1, AdvanceSteps
  <2>3. OtherTypeOK'
        BY <2>1 DEF Advance, OtherTypeOK, Requests
  <2>4. QED
        BY <2>2, <2>3
<1>4. CASE activeStep \notin {0, 1}
  <2>1. /\ Advance
        /\ UNCHANGED <<server, userData, polls, screen, computerName,
                       enrollmentMode, isLoading, isInPhoneSubmissionTimeout,
                       canFinish, mountFetch, pending, commitSent>>
        BY <1>4 DEF handleNext, pollVars
  <2>2. StepsTypeOK'
        BY <2>1, AdvanceSteps
  <2>3. OtherTypeOK'
        BY <2>1, OtherFrame DEF Advance, otherVars
  <2>4. QED
        BY <2>2, <2>3
<1>5. QED
      BY <1>1, <1>2, <1>3, <1>4 DEF TypeOK

(***************************************************************************)
(* Every step of the wizard keeps the types.                               *)
(***************************************************************************)
LEMMA TypeNext == TypeOK /\ [Next]_vars => TypeOK'
<1> SUFFICES ASSUME TypeOK, [Next]_vars PROVE StepsTypeOK' /\ OtherTypeOK'
    BY TypeOKPartsNext
<1> USE TypeOKParts
<1>1. CASE PressNext
      BY <1>1, HandleNextType, TypeOKPartsNext DEF PressNext
<1>2. CASE PressEnter
      BY <1>2, HandleNextType, TypeOKPartsNext DEF PressEnter
<1>3. CASE PressSkip
  <2>1. /\ handleSkip(0)
        /\ UNCHANGED <<server, userData, polls, screen, computerName,
                       enrollmentMode, isLoading, isInPhoneSubmissionTimeout,
                       canFinish, mountFetch, pending, commitSent>>
        BY <1>3 DEF PressSkip, isStepOptional, pollVars
  <2>2. /\ activeStep < MaxStep
        /\ activeStep' = activeStep + 1
        /\ skipped' = skipped \cup {0}
        /\ skipError' = skipError
        BY <2>1, HandleSkipZero
  <2>3. QED
        BY <2>1, <2>2, SkipZeroSteps, OtherFrame DEF otherVars
<1>4. CASE PressBack
  <2>0. activeStep # 0 /\ activeStep' = activeStep - 1 /\ skipped' = skipped
        BY <1>4 DEF PressBack, handleBack
  <2>1. StepsTypeOK'
    <3>1. StepsTypeOK
          BY TypeOKParts
    <3>2. QED
          BY <2>0, <3>1, MaxStepAssumption DEF StepsTypeOK
  <2>2. OtherTypeOK'
        BY <1>4, OtherFrame DEF PressBack, handleBack, pollVars, otherVars
  <2>3. QED
        BY <2>1, <2>2
<1>5. CASE EditComputerName
      BY <1>5, StepsFrame DEF EditComputerName, OtherTypeOK, pollVars
<1>6. CASE ChangeEnrollmentMode
      BY <1>6, StepsFrame DEF ChangeEnrollmentMode, handleEnrollmentModeChange, OtherTypeOK, pollVars, Modes
<1>7. CASE SubmitCode
      BY <1>7, StepsFrame DEF SubmitCode, OtherTypeOK, pollVars, Requests
<1>8. CASE SubmitPhone
      BY <1>8, StepsFrame DEF SubmitPhone, OtherTypeOK, pollVars, Requests
<1>9. CASE PhoneTimeoutExpires
      BY <1>9, StepsFrame DEF PhoneTimeoutExpires, OtherTypeOK, pollVars
<1>10. ASSUME NEW req \in Requests, RequestSettles(req)
       PROVE  StepsTypeOK' /\ OtherTypeOK'
       BY <1>10, StepsFrame, RequestEffectType DEF RequestSettles, OtherTypeOK
<1>11. CASE MountAnswer
       BY <1>11, StepsFrame, RepliesType DEF MountAnswer, OtherTypeOK, pollVars
<1>12. CASE MountSettles
  <2>1. CASE mountFetch \in Users /\ mountFetch.personal_desktop
    <3>1. /\ handleSkip(0)
          /\ computerName' = TRUE /\ canFinish' = TRUE /\ mountFetch' = Done
          /\ UNCHANGED <<server, userData, polls, screen, enrollmentMode,
                         isLoading, isInPhoneSubmissionTimeout, pending,
                         commitSent>>
          BY <1>12, <2>1, SentinelsAssumption DEF MountSettles, pollVars
    <3>2. /\ activeStep < MaxStep
          /\ activeStep' = activeStep + 1
          /\ skipped' = skipped \cup {0}
          /\ skipError' = skipError
          BY <3>1, HandleSkipZero
    <3>3. StepsTypeOK'
          BY <3>2, SkipZeroSteps
    <3>4. OtherTypeOK'
          BY <3>1, <3>2 DEF OtherTypeOK
    <3>5. QED
          BY <3>3, <3>4
  <2>2. CASE ~(mountFetch \in Users /\ mountFetch.personal_desktop)
        BY <1>12, <2>2, StepsFrame DEF MountSettles, OtherTypeOK, pollVars,
                                       Screens
  <2>3. QED
        BY <2>1, <2>2
<1>13. ASSUME NEW i \in PollSlots, Tick(i) PROVE StepsTypeOK' /\ OtherTypeOK'
       BY <1>13, StepsFrame DEF Tick, PollTick, OtherTypeOK, wizardVars
<1>14. ASSUME NEW i \in PollSlots, Answer(i) PROVE StepsTypeOK' /\ OtherTypeOK'
       BY <1>14, StepsFrame, RepliesType
       DEF Answer, PollAnswer, OtherTypeOK, wizardVars
<1>15. ASSUME NEW i \in PollSlots, Deliver(i) PROVE StepsTypeOK' /\ OtherTypeOK'
       BY <1>15, StepsFrame DEF Deliver, PollDeliver, OtherTypeOK, Replies, Screens
<1>16. CASE UNCHANGED vars
       BY <1>16, StepsFrame, OtherFrame DEF vars, pollVars, wizardVars, otherVars
<1>17. QED
       BY <1>1, <1>2, <1>3, <1>4, <1>5, <1>6, <1>7, <1>8, <1>9, <1>10,
          <1>11, <1>12, <1>13, <1>14, <1>15, <1>16 DEF Next

\* The initial state of the mounted wizard is well typed.
LEMMA TypeInit == Init => TypeOK
<1> SUFFICES ASSUME Init PROVE StepsTypeOK /\ OtherTypeOK
    BY TypeOKParts
<1>1. StepsTypeOK
      BY MaxStepAssumption DEF Init, StepsTypeOK
<1>2. OtherTypeOK
      BY InitialUsersAssumption DEF Init, PollInit, OtherTypeOK, Screens, Modes
<1>3. QED
      BY <1>1, <1>2

(***************************************************************************)
(* Every variable keeps its type: the wizard's state, the poll's slots and *)
(* the backend record.  The other proofs stand on it.                     *)
(***************************************************************************)
THEOREM TypeCorrect == Spec => []TypeOK
<1>1. Init => TypeOK
      BY TypeInit
<1>2. TypeOK /\ [Next]_vars => TypeOK'
      BY TypeNext
<1>3. QED
      BY <1>1, <1>2, PTL DEF Spec

-----------------------------------------------------------------------------
(***************************************************************************)
(* The strengthening.  A getUserData reply is a copy of the backend record *)
(* at the time of the answer, and the backend only ever sets flags; so     *)
(* every snapshot the client holds, in userData, in a poll slot or in the  *)
(* mount fetch, shows no flag the backend does not have now.  With it, the *)
(* redirect on an enrolled snapshot implies an enrolled backend.           *)
(***************************************************************************)
SnapshotsBelowServer ==
    /\ userData \in Users => SnapshotBelow(userData, server)
    /\ \A i \in PollSlots : polls[i] \in Users => SnapshotBelow(polls[i], server)
    /\ mountFetch \in Users => SnapshotBelow(mountFetch, server)

SafetyInv ==
    /\ SnapshotsBelowServer
    /\ RedirectOnlyWhenEnrolled
    /\ CommitLeavesSetup
    /\ NoIllegalSkip

IInv == TypeOK /\ SafetyInv

\* The variables the safety invariants read.
safetyVars == <<server, userData, polls, mountFetch, screen, activeStep,
                commitSent, skipError>>

\* A step that leaves the variables the invariants read keeps them.
LEMMA SafetyFrame ==
    ASSUME SafetyInv, UNCHANGED safetyVars
    PROVE  SafetyInv'
BY DEF SafetyInv, SnapshotsBelowServer, RedirectOnlyWhenEnrolled,
       CommitLeavesSetup, NoIllegalSkip, safetyVars

(***************************************************************************)
(* handleNext keeps the invariants: it touches neither the snapshots nor   *)
(* the screen, it skips only step 0, and it commits only while moving from *)
(* step 1 to the completion step; a commit already made puts the counter   *)
(* at NumSteps or beyond, where it only moves forward.                     *)
(***************************************************************************)
LEMMA HandleNextSafety ==
    ASSUME TypeOK, SafetyInv, handleNext
    PROVE  SafetyInv'
<1>1. UNCHANGED <<server, userData, polls, mountFetch, screen>>
      BY DEF handleNext, pollVars
<1>2. SnapshotsBelowServer' /\ RedirectOnlyWhenEnrolled'
      BY <1>1 DEF SafetyInv, SnapshotsBelowServer, RedirectOnlyWhenEnrolled
<1>3. CASE activeStep = 0 /\ ~computerName
  <2>1. handleSkip(0) /\ UNCHANGED commitSent
        BY <1>3 DEF handleNext
  <2>2. skipError' = skipError
        BY <2>1, HandleSkipZero
  <2>3. ~commitSent
        BY <1>3 DEF SafetyInv, CommitLeavesSetup, NumSteps
  <2>4. QED
        BY <1>2, <2>1, <2>2, <2>3 DEF SafetyInv, CommitLeavesSetup, NoIllegalSkip
<1>4. CASE activeStep = 0 /\ computerName
  <2>1. Advance /\ UNCHANGED commitSent
        BY <1>4 DEF handleNext
  <2>2. ~commitSent
        BY <1>4 DEF SafetyInv, CommitLeavesSetup, NumSteps
  <2>3. QED
        BY <1>2, <2>1, <2>2 DEF SafetyInv, CommitLeavesSetup, NoIllegalSkip, Advance
<1>5. CASE activeStep = 1
  <2>1. Advance
        BY <1>5 DEF handleNext
  <2>2. activeStep' = NumSteps
        BY <1>5, <2>1 DEF Advance, NumSteps
  <2>3. QED
        BY <1>2, <2>1, <2>2 DEF SafetyInv, CommitLeavesSetup, NoIllegalSkip, Advance
<1>6. CASE activeStep \notin {0, 1}
  <2>1. Advance /\ UNCHANGED commitSent
        BY <1>6 DEF handleNext
  <2>2. activeStep' >= NumSteps
        BY <1>6, <2>1 DEF Advance, NumSteps, TypeOK
  <2>3. QED
        BY <1>2, <2>1, <2>2 DEF SafetyInv, CommitLeavesSetup, NoIllegalSkip, Advance
<1>7. QED
      BY <1>3, <1>4, <1>5, <1>6

(***************************************************************************)
(* Every step keeps the invariants; one step per action.  The ones that    *)
(* move a snapshot (an answer, a delivery, the mount fetch) copy it from    *)
(* the record or from a place already below it; the one that changes the  *)
(* record (a request settling) only sets flags.                            *)
(***************************************************************************)
LEMMA SafetyNext == IInv /\ [Next]_vars => SafetyInv'
<1> SUFFICES ASSUME TypeOK, SafetyInv, [Next]_vars PROVE SafetyInv'
    BY DEF IInv
<1>1. CASE PressNext
      BY <1>1, HandleNextSafety DEF PressNext
<1>2. CASE PressEnter
      BY <1>2, HandleNextSafety DEF PressEnter
<1>3. CASE PressSkip
  <2>1. handleSkip(0) /\ UNCHANGED <<pollVars, screen, mountFetch, commitSent>>
        BY <1>3 DEF PressSkip, isStepOptional
  <2>2. activeStep' = activeStep + 1 /\ skipError' = skipError
        BY <2>1, HandleSkipZero
  <2>3. SnapshotsBelowServer' /\ RedirectOnlyWhenEnrolled'
        BY <2>1 DEF SafetyInv, SnapshotsBelowServer, RedirectOnlyWhenEnrolled,
           pollVars
  <2>4. CommitLeavesSetup' /\ NoIllegalSkip'
        BY <2>1, <2>2, TypeOKParts DEF SafetyInv, CommitLeavesSetup,
           NoIllegalSkip, StepsTypeOK, NumSteps
  <2>5. QED
        BY <2>3, <2>4 DEF SafetyInv
<1>4. CASE PressBack
  <2>1. activeStep # NumSteps /\ activeStep' = activeStep - 1
        BY <1>4 DEF PressBack, handleBack
  <2>2. commitSent => activeStep' >= NumSteps
        BY <2>1 DEF SafetyInv, CommitLeavesSetup, TypeOK, NumSteps
  <2>3. QED
        BY <1>4, <2>2 DEF PressBack, handleBack, SafetyInv, SnapshotsBelowServer,
           RedirectOnlyWhenEnrolled, CommitLeavesSetup, NoIllegalSkip, pollVars
<1>5. CASE EditComputerName \/ ChangeEnrollmentMode \/ SubmitCode
           \/ SubmitPhone \/ PhoneTimeoutExpires
  <2>1. UNCHANGED safetyVars
        BY <1>5 DEF EditComputerName, ChangeEnrollmentMode, handleEnrollmentModeChange, SubmitCode,
           SubmitPhone, PhoneTimeoutExpires, pollVars, safetyVars
  <2>2. QED
        BY <2>1, SafetyFrame
<1>6. ASSUME NEW req \in Requests, RequestSettles(req) PROVE SafetyInv'
  <2>1. PICK accepted \in BOOLEAN :
            server' = IF accepted THEN RequestEffect(req, server) ELSE server
        BY <1>6 DEF RequestSettles
  <2>2. /\ \A u \in Users : SnapshotBelow(u, server) => SnapshotBelow(u, server')
        /\ server.enrolled => server'.enrolled
        BY <2>1, ServerGrows DEF TypeOK, SnapshotBelow
  <2>3. QED
        BY <1>6, <2>2 DEF RequestSettles, SafetyInv, SnapshotsBelowServer,
           RedirectOnlyWhenEnrolled, CommitLeavesSetup, NoIllegalSkip
<1>7. CASE MountAnswer
  <2>1. mountFetch' \in {server, NoUser, Failed}
        BY <1>7 DEF MountAnswer, GetUserDataReplies
  <2>2. mountFetch' \in Users => SnapshotBelow(mountFetch', server)
        BY <2>1, BelowSelf, SentinelsAssumption DEF TypeOK
  <2>3. QED
        BY <1>7, <2>2 DEF MountAnswer, SafetyInv, SnapshotsBelowServer,
           RedirectOnlyWhenEnrolled, CommitLeavesSetup, NoIllegalSkip, pollVars
<1>8. CASE MountSettles
  <2>1. /\ mountFetch' = Done
        /\ UNCHANGED <<pollVars, commitSent>>
        /\ screen' \in {screen, "login"}
        BY <1>8 DEF MountSettles
  <2>2. /\ activeStep' \in {activeStep, activeStep + 1}
        /\ skipError' = skipError
    <3>1. CASE mountFetch \in Users /\ mountFetch.personal_desktop
          BY <1>8, <3>1, HandleSkipZero, SentinelsAssumption DEF MountSettles
    <3>2. CASE ~(mountFetch \in Users /\ mountFetch.personal_desktop)
          BY <1>8, <3>2 DEF MountSettles
    <3>3. QED
          BY <3>1, <3>2
  <2>3. Done \notin Users
        BY SentinelsAssumption
  <2>4. SnapshotsBelowServer' /\ RedirectOnlyWhenEnrolled'
        BY <2>1, <2>3 DEF SafetyInv, SnapshotsBelowServer,
           RedirectOnlyWhenEnrolled, pollVars
  <2>5. CommitLeavesSetup' /\ NoIllegalSkip'
        BY <2>1, <2>2, TypeOKParts DEF SafetyInv, CommitLeavesSetup,
           NoIllegalSkip, StepsTypeOK, NumSteps
  <2>6. QED
        BY <2>4, <2>5 DEF SafetyInv
<1>9. ASSUME NEW i \in PollSlots, Tick(i) PROVE SafetyInv'
  <2>1. polls' = [polls EXCEPT ![i] = Sent] /\ Sent \notin Users
        BY <1>9, SentinelsAssumption DEF Tick, PollTick
  <2>2. QED
        BY <1>9, <2>1 DEF Tick, PollTick, wizardVars, SafetyInv,
           SnapshotsBelowServer, RedirectOnlyWhenEnrolled, CommitLeavesSetup,
           NoIllegalSkip, TypeOK
<1>10. ASSUME NEW i \in PollSlots, Answer(i) PROVE SafetyInv'
  <2>1. PICK r \in GetUserDataReplies(server) : polls' = [polls EXCEPT ![i] = r]
        BY <1>10 DEF Answer, PollAnswer
  <2>2. r \in Users => SnapshotBelow(r, server)
        BY BelowSelf, SentinelsAssumption DEF GetUserDataReplies, TypeOK
  <2>3. QED
        BY <1>10, <2>1, <2>2 DEF Answer, PollAnswer, wizardVars, SafetyInv,
           SnapshotsBelowServer, RedirectOnlyWhenEnrolled, CommitLeavesSetup,
           NoIllegalSkip, TypeOK
<1>11. ASSUME NEW i \in PollSlots, Deliver(i) PROVE SafetyInv'
  <2>1. /\ userData' \in {userData, polls[i]}
        /\ polls' = [polls EXCEPT ![i] = Idle]
        /\ UNCHANGED <<server, mountFetch, activeStep, commitSent, skipError>>
        BY <1>11 DEF Deliver, PollDeliver
  <2>2. userData' \in Users => SnapshotBelow(userData', server')
        BY <2>1 DEF SafetyInv, SnapshotsBelowServer
  <2>3. screen' = "redirect" => server'.enrolled
    <3>1. CASE userData' \in Users /\ userData'.enrolled
          BY <2>1, <2>2, <3>1, BelowEnrolled DEF TypeOK
    <3>2. CASE ~(userData' \in Users /\ userData'.enrolled)
          BY <1>11, <2>1, <3>2 DEF Deliver, SafetyInv, RedirectOnlyWhenEnrolled
    <3>3. QED
          BY <3>1, <3>2
  <2>4. Idle \notin Users
        BY SentinelsAssumption
  <2>5. QED
        BY <2>1, <2>2, <2>3, <2>4 DEF SafetyInv, SnapshotsBelowServer,
           RedirectOnlyWhenEnrolled, CommitLeavesSetup, NoIllegalSkip, TypeOK
<1>12. CASE UNCHANGED vars
       BY <1>12, SafetyFrame DEF vars, pollVars, wizardVars, safetyVars
<1>13. QED
       BY <1>1, <1>2, <1>3, <1>4, <1>5, <1>6, <1>7, <1>8, <1>9, <1>10,
          <1>11, <1>12 DEF Next

\* The mounted wizard starts with no snapshot, nothing committed, step 0.
LEMMA SafetyInit == Init => IInv
<1> SUFFICES ASSUME Init PROVE SafetyInv
    BY TypeInit DEF IInv
<1>1. \A i \in PollSlots : polls[i] \notin Users
      BY SentinelsAssumption DEF Init, PollInit
<1>2. QED
      BY <1>1, SentinelsAssumption DEF Init, PollInit, SafetyInv,
         SnapshotsBelowServer, RedirectOnlyWhenEnrolled, CommitLeavesSetup,
         NoIllegalSkip

(***************************************************************************)
(* The wizard's safety, for every bound on the step counter and on the     *)
(* overlapping polls: (1) after Finish has called saveUserToDB the wizard  *)
(* never shows a setup step again, so the enrollment is committed once;    *)
(* (2) the redirect taken on a polled snapshot, however stale or late it   *)
(* is, happens only when the backend has recorded the enrollment; (3) the  *)
(* "can't skip a step that isn't optional" error in handleSkip is never    *)
(* thrown.  The argument is the inductive invariant IInv.                  *)
(***************************************************************************)
THEOREM WizardSafety ==
    Spec => [](CommitLeavesSetup /\ RedirectOnlyWhenEnrolled /\ NoIllegalSkip)
<1>1. Init => IInv
      BY SafetyInit
<1>2. IInv /\ [Next]_vars => IInv'
      BY SafetyNext, TypeNext DEF IInv
<1>3. IInv => CommitLeavesSetup /\ RedirectOnlyWhenEnrolled /\ NoIllegalSkip
      BY DEF IInv, SafetyInv
<1>4. QED
      BY <1>1, <1>2, <1>3, PTL DEF Spec

\* After Finish has called saveUserToDB, no step before the completion
\* step is shown again (Back is hidden there; Enter and the mount skip only
\* advance), for every MaxStep and MaxInFlight.
THEOREM CommitLeavesSetupHolds == Spec => []CommitLeavesSetup
BY WizardSafety, PTL

\* The render redirects on a polled snapshot only when the backend record
\* is enrolled, whatever the number of overlapping polls and their order.
THEOREM RedirectOnlyWhenEnrolledHolds == Spec => []RedirectOnlyWhenEnrolled
BY WizardSafety, PTL

\* handleSkip never throws "You can't skip a step that isn't optional".
THEOREM NoIllegalSkipHolds == Spec => []NoIllegalSkip
BY WizardSafety, PTL
=====
