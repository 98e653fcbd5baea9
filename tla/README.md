# Verification of the cyolo login client

This directory holds TLA+ models of the browser login client under
`src/web/cyolo-login/src/`, TLC configurations that model-check them on small
instances, and TLAPS proofs of their safety properties for every value of the
constants. `PROJECT.json` lists every component, run, mutant, hazard and theorem,
and maps each definition to the source lines it translates.

## 1. The system

The client is a React 16 single-page app with three screens behind a router
(`App.tsx`): login (`/`, `/login`), MFA (`/mfa`) and enrollment (`/enroll`),
plus a redirect screen that leaves the app. The components are:

| Component | Source | State | Operations |
|---|---|---|---|
| SessionPoller | `hooks/UserData.ts` | `userData`, the snapshot last stored | a `setInterval` that calls `getUserData()` every 2000 ms and stores the result; it does not wait for the previous call |
| AuthGateway | `services/AuthAPI.ts` | none (the backend holds the record) | one async function per endpoint; `getUserData` resolves to the record or `undefined` (schema failure) or rejects |
| Session data | `interfaces.ts`, `schemes.ts` | `IUser` | schema checks of the record, username, password and phone number |
| EnrollmentWizardScreen | `screens/EnrollmentWizardScreen.tsx` | `activeStep`, `skipped`, `computerName`, `enrollmentMode`, `isLoading`, `isInPhoneSubmissionTimeout`, `canFinish`, plus `userData` from the poller | Next, Enter (Mousetrap), Skip, Back, name edit, mode change, code submit, phone submit, the throttle timer, the mount fetch, the redirect on an enrolled snapshot |
| MultifactorAuthScreen | `screens/MultifactorAuthScreen.tsx` | `isLoading`, `mfaMode`, `userData` | mode change with SMS send and 1500 ms revert, code confirmation, 2000 ms loading timer, mount check, redirect on `auth_level > 1` |
| LoginScreen | `screens/LoginScreen.tsx` | `username`, `password`, `isLoading`, validation errors | sign-in (button or global Enter) |
| RedirectScreen, App | `App.tsx`, `screens/RedirectScreen.tsx` | the route | navigation |
| Configuration, components | `config.ts`, `components/*` | constants, layout | none |

**How they interact.** Every screen mounts its own poller. The poller's replies
arrive through React state at any time, so a handler can read a snapshot that is
older than the one just delivered. The handlers send requests and do not wait for
them (`updateComputerName()` and `askServerToSaveUserToDB()` are called without
`await`). The backend's record changes only when a request is accepted, and a
poll copies it back later.

**What makes the code hard.** These are listed in full, at their lines, in
`PROJECT.json` under "hazards".

- Closures that capture state from an earlier render. The wizard's mount effect
  has `[]` dependencies and calls the first render's `handleSkip`.
- Keyboard bindings that bypass the guards the buttons have. The wizard binds
  Enter to `handleNext`, and login binds Enter to `handleSignIn`.
- Overlapping polls that resolve out of order.
- Timers that are never cancelled. In the MFA screen these are the loading
  timer and the mode-revert timer.
- Rejections that nothing catches.

## 2. The modules

| Module | Models | Notes |
|---|---|---|
| `AuthAPI` | `interfaces.ts`, `schemes.ts`, `services/AuthAPI.ts` | `Users`: an `IUser` abstracted to the flags the screens branch on (`personal_desktop`, `phone_number`, `totp_enrolled`, `enrolled`, `supervisor`; a string is TRUE when non-empty; `mfa_verified` is `name !== "anonymous" && auth_level > 1`). `GetUserDataReplies(srv)`: the record, `NoUser` (schema failure) or `Failed` (rejection; axios rejects a 403, so the code's 403 branch is dead). One operator per request for its effect on the record. |
| `UserData` | `hooks/UserData.ts` | `polls[i]` is one interval call: `Idle`, `Sent`, or the reply. `PollTick`, `PollAnswer` and `PollDeliver` are separate steps, so replies overlap and land in any order. A failed call keeps the old snapshot (the rejection escapes the callback); `undefined` replaces it. `MaxInFlight` bounds the overlap. |
| `EnrollmentWizard` | `screens/EnrollmentWizardScreen.tsx` and the poller it uses | One action per event: `PressNext`, `PressEnter`, `PressSkip`, `PressBack`, `EditComputerName`, `ChangeEnrollmentMode`, `SubmitCode`, `SubmitPhone`, `PhoneTimeoutExpires`, `RequestSettles(req)`, `MountAnswer`, `MountSettles`, and `Tick`/`Answer`/`Deliver(i)` for the poll. |
| `MultifactorAuth` | `screens/MultifactorAuthScreen.tsx` and the poller it uses | `SubmitCode`, `ConfirmSettles`, `LoadTimerFires`, `ChangeMode`, `LatestSendSettles`, `OldSendSettles`, `RevertFires`, `MountAnswer`, `MountSettles`, `Tick`/`Answer`/`Deliver(i)`, and the environment's `FollowSmsLink`. |
| `LoginScreen` | `screens/LoginScreen.tsx` | `PressLogin`, `PressEnter`, `EditUsername`, `EditPassword`, `SignInSettles`. |
| `MCEnrollmentWizard`, `MCMultifactorAuth`, `MCLoginScreen` | — | Constants for TLC. |
| `AuthAPILemmas` | — | Lemmas about `AuthAPI`'s operators: the order `SnapshotBelow` is reflexive and transitive, each flag is preserved along it, a reply is a record or a sentinel, and every request only raises the record. |
| `EnrollmentWizardProofs`, `MultifactorAuthProofs`, `LoginScreenProofs` | — | TLAPS proofs. |

How the wizard model corresponds to the code:

- **Actions and render state.** An action is the synchronous part of a handler,
  up to its first `await`. Values computed at render time are operators:
  `EnrollmentStatus`, `CanPressNext`, `MfaSetupShown`, `IsEnrolledInMode`.
  React 16 re-renders synchronously on a `setState` outside an event handler, so
  the render-time `history.push('redirect')` happens in the same step as
  `setUserData` (`Deliver`).
- **Requests.** A request sent and not yet settled is an element of `pending`.
  `RequestSettles` applies it to the backend record, or rejects it.
- **handleSkip** is modelled as the closure it is. It checks and records the
  step it captured, but advances the *current* step with a functional update.
  `skipError` records that the "can't skip" error was thrown.
- **The mount effect** is `MountAnswer` (the backend answers) followed by
  `MountSettles`. The continuation always sees `activeStep === 0`, which is
  its first-render value.
- **The Enter binding** is `PressEnter`: `handleNext` with no guard but the
  screen being mounted.
- **Leaving `/enroll`** (to `/` or `redirect`) unmounts the wizard. Its poll
  stops and no action is enabled.
- **`commitSent`** is a history variable: `saveUserToDB()` has been called.
- **`MaxStep`** bounds `activeStep`, which Enter can push past the last step.

How the MFA model corresponds to the code:

- **Renders and the loading timer.** The effect at line 100 has no dependency
  list. Every render arms another `setTimeout(setIsLoading(false), 2000)`, and
  nothing cancels one. `loadTimerArmed` says that at least one is pending.
  `Renders(changed)` is the render after a `setState`: it arms a timer when
  the state changed. `setAlertStatus` and `setUserData` always store a new
  object, so they always re-render. `LoadTimerFires` clears the spinner, and
  its own render re-arms a timer if the spinner was shown.
- **SMS sends.** `latestSend` is the send of the latest switch to SMS. Sends of
  earlier switches that are still outstanding are counted in `oldSends`. A
  failed send, old or latest, arms a 1500 ms revert (`reverts`).
  `RevertFires` sets the mode to TOTP whatever the mode is.
- **The redirect** happens at render time on the stored snapshot (`Deliver`).
  The mount check sends a user who is not enrolled, or no user, to `/`. It is
  guarded by `Mounted`, because once the screen has gone to `redirect`,
  `RedirectScreen` leaves the app in its first effect.
- **`FollowSmsLink`** is outside the client, and no client code maps to it.
  Someone follows the link that a successful send delivered, and the backend
  raises the level.

The login model keeps the validity of each field (the verdict of
`UsernameScheme` and `PasswordScheme`), its error flag, `isLoading`, the
count of outstanding `performLogin` calls, and whether the page has left
for `redirect_uri`.

## 3. Runs

The enrollment runs use `MCEnrollmentWizard` with these bounds:

- `MaxInFlight = 1`: one interval call at a time. The mount fetch is a second
  `getUserData` call in flight, but it never writes `userData`, so these runs
  do not reorder snapshots. A run with two slots reaches 15 M states and takes
  over three minutes. The MFA safety run covers the reordering, and the
  proofs cover every `MaxInFlight`.
- `MaxStep = 3`: one step past the completion screen, which is where Enter leads
  and where Back reappears.
- `InitialUsers`: every record that is not yet enrolled (8 records).

Deadlock is not checked. Once the wizard navigates away it is unmounted, and the
model correctly stops.

| Run | Checks | Result |
|---|---|---|
| `enrollment_safety` | `TypeOK`, `CommitLeavesSetup`, `RedirectOnlyWhenEnrolled`, `NoIllegalSkip` | passes, about 1.5 M distinct states |
| `enrollment_commit_without_factor` | `CommitRequiresFactor` (spec 4.6: commit only with an enrolled factor) | violated |
| `enrollment_finish_without_commit` | `FinishedOnlyAfterCommit` (spec 4.6: Completed only through the committing advance) | violated |

| `enrollment_liveness` | `EnrolledLeaves` under `FairSpec` | passes, about 1.5 M distinct states |
| `enrollment_redirect_before_name` | `RedirectAfterNameSettles` (spec section 5) | violated |

The MFA runs use `MCMultifactorAuth`:

- `MaxInFlight = 2` for the safety run, so that two interval calls overlap and
  their replies land in either order, and `MaxInFlight = 1` for the others;
- two confirmations, so that a second one can overlap the first;
- one older send, so that a send can outlive a later switch;
- two revert timers;
- the initial records are every enrolled, unverified record without a
  computer name. The MFA screen never reads the name.

| Run | Checks | Result |
|---|---|---|
| `mfa_safety` | `TypeOK`, `RedirectOnlyWhenVerified` | passes, 381,608 distinct states |
| `mfa_liveness` | `SpinnerClears`, `VerifiedLeaves` under `FairSpec` | passes |
| `mfa_concurrent_confirm` | `ConfirmsNotConcurrent` (spec section 5) | violated |
| `mfa_stale_revert` | `RevertOnlyForLatestFailure` (spec 4.5) | violated |
| `login_safety` | `TypeOK`, `ErrorsOnlyOnInvalid`, `SpinnerOnlyWhileSigningIn` (while the screen is shown, the spinner is on only while a `signIn` is outstanding) | passes, 135 distinct states |
| `login_concurrent_signin` | `SignInsNotConcurrent` (spec 4.4, 5) | violated |

The login runs bound outstanding sign-ins at 5.

**What the violations show.**

- `CommitRequiresFactor`:
  1. The user presses Enter on step 0 with no name, which skips the step.
  2. The user presses Enter again on step 1 before any poll has delivered a
     snapshot.
  3. `enrollmentStatus` still has its default `{sms: true}`, and Enter does not
     check `canPressNext`, so `saveUserToDB` is called with no factor enrolled.
- `FinishedOnlyAfterCommit`:
  1. The user skips step 0.
  2. The mount fetch then resolves with a computer name, and its stale closure
     calls `handleSkip` again.
  3. That call advances the MFA step to the completion screen, and
     `saveUserToDB` is never called.

- `RedirectAfterNameSettles`:
  1. The user types a name and presses Next, and `updateComputerName` is sent
     without `await`.
  2. Enter commits, and the commit is accepted first.
  3. The poll delivers the enrolled record, and the screen redirects while the
     name update is still outstanding.
- `ConfirmsNotConcurrent`:
  1. A code is submitted and the spinner is shown.
  2. A loading timer armed by an earlier render clears it.
  3. The code field is rendered again and a second confirmation starts.
- `RevertOnlyForLatestFailure`:
  1. The user switches to SMS, back to TOTP, and to SMS again.
  2. The first send fails and arms a revert.
  3. The revert throws the user back to TOTP while the new send is pending.
- `SignInsNotConcurrent`: Enter is bound globally and calls `handleSignIn`
  while the spinner replaces the button.

Each property of a passing run has a mutant, a plausible bug in the mapped
code, that TLC must catch. The mutants are:

- Back is enabled on step 0 (breaks `TypeOK`).
- Back is rendered on the completion screen (breaks `CommitLeavesSetup`).
- The redirect is taken on any snapshot (breaks `RedirectOnlyWhenEnrolled`).
- Step 1 with no factor falls into the skip path (breaks `NoIllegalSkip`).
- The poll caches its first reply and stores it again and again (breaks
  `EnrolledLeaves` and `VerifiedLeaves`).
- The MFA mode switch writes a misspelt mode (breaks `TypeOK`).
- The redirect tests `enrolled` instead of the auth level (breaks
  `RedirectOnlyWhenVerified`).
- The loading timer effect is armed only once (`[]` dependencies; breaks
  `SpinnerClears`).
- Editing the username drops the password error entry, or keeps the username's
  error (breaks the login `TypeOK`, `ErrorsOnlyOnInvalid`).
- The login spinner is cleared at the end of the `try` instead of in
  `finally`, so a rejected sign-in leaves it on (breaks
  `SpinnerOnlyWhileSigningIn`).

**Bounds.** The hazards need few steps: three steps reach completion and one
more passes it. One interval call beside the mount fetch already produces
stale snapshots, and two overlapping calls (MFA safety run) produce
out-of-order ones. The proofs below cover any bound.

**Fairness.** `FairSpec` assumes only what the browser and the backend
guarantee:

- weak fairness on the poll's interval (`Tick`) and on storing a reply
  (`Deliver`), which are timers and callbacks that run while the screen is
  mounted;
- for the MFA screen, weak fairness on the 2000 ms loading timer;
- strong fairness on `AnswerOk`: a backend that keeps being asked eventually
  answers with the record. Without it a backend that always fails keeps every
  screen where it is.

Nothing is assumed of the user or of the screens' own requests, because axios
sets no timeout.

## 4. Proofs

### `EnrollmentWizardProofs.tla`

The proofs hold for every `MaxStep >= 3`, every `MaxInFlight >= 1` and every
non-empty set of initial records. They use these assumptions:

- `SentinelsAssumption`: the model values are distinct and are not records.
- `MaxStepAssumption`.
- `MaxInFlightAssumption`.
- `InitialUsersAssumption`.

The theorems are:

- **`TypeCorrect`**: `Spec => []TypeOK`. `TypeOK` is proved in two parts,
  `StepsTypeOK` (arithmetic) and `OtherTypeOK`, because the SMT backend does not
  handle the two together. `HandleNextType` covers the four branches of
  `handleNext`.
- **`WizardSafety`**, and from it `CommitLeavesSetupHolds`,
  `RedirectOnlyWhenEnrolledHolds` and `NoIllegalSkipHolds`.

`WizardSafety` rests on the inductive invariant `IInv`, which is `TypeOK` plus
the three properties plus `SnapshotsBelowServer`. `SnapshotsBelowServer` says
that every snapshot the client holds shows no flag the backend lacks: in
`userData`, in any poll slot, and in the mount fetch. It is needed because
`RedirectOnlyWhenEnrolled` alone is not inductive: a delivery can redirect on
a snapshot that arrives late. The argument has two halves:

- The backend only ever sets flags (lemma `ServerGrows`). A reply is a copy of
  the record at the time of the answer (`BelowSelf`). So a snapshot stays below
  the record however late it arrives, and an enrolled snapshot implies an
  enrolled record (`BelowEnrolled`).
- `CommitLeavesSetup` is preserved because the commit happens on the move from
  step 1 to step 2. Back is not rendered at step 2, and every other move
  advances. `NoIllegalSkip` is preserved because every caller of `handleSkip`
  passes step 0 (`HandleSkipZero`).

`IInv` was checked with TLC as an invariant before it was proved.

### `MultifactorAuthProofs.tla`

The proofs hold for every bound and every non-empty set of enrolled initial
records. They use `SentinelsAssumption`, `MaxInFlightAssumption`,
`MfaInitialUsersAssumption` and `MfaBoundsAssumption`. The theorems are:

- **`TypeCorrect`**, again with `TypeOK` in two parts. `CountersTypeOK` holds
  the three counters, and `OtherTypeOK` the rest.
- **`RedirectOnlyWhenVerifiedHolds`**. Its inductive invariant `IInv` is
  `TypeOK`, `SnapshotsBelowServer` and the property, as for the wizard. The
  backend's record changes only by a confirmation accepted or a link
  followed. Both only raise the level (`VerifyGrows`). So a reply stays below
  the record however late it is delivered (`BelowVerified`).
### `LoginScreenProofs.tla`

**`ErrorsOnlyOnInvalidHolds`**: `TypeOK /\ ErrorsOnlyOnInvalid` is inductive
as it stands. A sign-in marks exactly the invalid fields or changes nothing,
and an edit clears the mark of the field it changes. `TypeCorrect` follows
from it.

**`SpinnerOnlyWhileSigningInHolds`** is inductive with `TypeOK`. Setting the
spinner also counts the request. A settling request either leaves the page
(the screen is no longer `Shown`) or, in `finally`, clears the spinner.

**What stays with TLC.**

- Liveness (`EnrolledLeaves`, `SpinnerClears`, `VerifiedLeaves`). These rest
  on weak and strong fairness, whose meaning is stated with ENABLED, and
  TLAPS's backends cannot reason about ENABLED.
- The violations.

## 5. Not modelled, and the plan

- **Not modelled**:
  - the QR-code fetch, alerts, snackbars and avatar, which are layout only;
  - the `Config.Mock` branches and the anonymous-access redirect, which are
    dead under `config.ts`;
  - the presentation components;
  - what a rejected `saveUserToDB` leaves behind
    (`EnrollmentWizardScreen.tsx:464`). Nothing catches it, so no alert is
    shown. The model keeps neither the unhandled rejection nor alerts. A
    property that the wizard leaves after a rejected commit would fail even
    for a client that caught the error, because nothing forces a retry. So
    the hazard is listed without a property.
- **Next steps**:
  - an abstract wizard with steps 0, 1 and Completed, which commits on
    leaving step 1, refined by `EnrollmentWizard`. The refinement is expected
    to fail exactly at the two enrollment findings;
  - a wizard run with `MaxInFlight = 2` under a symmetry or a smaller set of
    initial records, so that it fits the time budget;
  - login liveness: a sign-in that settles always clears the spinner.
