---------------------------- MODULE AuthAPILemmas ----------------------------
(***************************************************************************)
(* Facts about the operators of AuthAPI.tla that the proofs of every       *)
(* screen rest on: the replies and request effects are of the right kind,  *)
(* and SnapshotBelow, the order "shows no flag the other lacks", is a      *)
(* preorder that every accepted request climbs.                            *)
(***************************************************************************)
EXTENDS AuthAPI, TLAPS

\* The flags SnapshotBelow compares.
BelowFlags == {"personal_desktop", "phone_number", "totp_enrolled", "enrolled",
               "mfa_verified"}

\* What getUserData can resolve or reject to is a reply.
LEMMA RepliesType ==
    ASSUME NEW srv \in Users
    PROVE  GetUserDataReplies(srv) \subseteq Replies
BY DEF GetUserDataReplies, Replies

\* An accepted request leaves a record.
LEMMA RequestEffectType ==
    ASSUME NEW srv \in Users, NEW req \in Requests
    PROVE  RequestEffect(req, srv) \in Users
BY DEF RequestEffect, updateComputerName, saveUserToDB, initiateSmsMessage,
       performMfaEnrollment, performTotpConfirmation,
       initiateMfaSmsMessage, Requests, Users

\* A record is below itself.
LEMMA BelowSelf ==
    ASSUME NEW srv \in Users
    PROVE  SnapshotBelow(srv, srv)
BY DEF SnapshotBelow

\* Below is transitive: a snapshot below an older record is below a newer
\* one.
LEMMA BelowTransitive ==
    ASSUME NEW u \in Users, NEW v \in Users, NEW w \in Users,
           SnapshotBelow(u, v), SnapshotBelow(v, w)
    PROVE  SnapshotBelow(u, w)
BY DEF SnapshotBelow

\* A snapshot below the record shows a flag only if the record has it.
LEMMA BelowFlag ==
    ASSUME NEW u \in Users, NEW srv \in Users, SnapshotBelow(u, srv),
           NEW f \in BelowFlags, u[f]
    PROVE  srv[f]
BY DEF SnapshotBelow, BelowFlags

LEMMA BelowEnrolled ==
    ASSUME NEW u \in Users, NEW srv \in Users, SnapshotBelow(u, srv), u.enrolled
    PROVE  srv.enrolled
BY BelowFlag DEF BelowFlags

LEMMA BelowVerified ==
    ASSUME NEW u \in Users, NEW srv \in Users, SnapshotBelow(u, srv), u.mfa_verified
    PROVE  srv.mfa_verified
BY BelowFlag DEF BelowFlags

(***************************************************************************)
(* A request the backend accepts only sets flags of the record: the old    *)
(* record, and so whatever was below it, is below the new one.             *)
(***************************************************************************)
LEMMA ServerGrows ==
    ASSUME NEW srv \in Users, NEW req \in Requests
    PROVE  /\ SnapshotBelow(srv, RequestEffect(req, srv))
           /\ \A u \in Users : SnapshotBelow(u, srv) =>
                                SnapshotBelow(u, RequestEffect(req, srv))
<1>1. SnapshotBelow(srv, RequestEffect(req, srv))
      BY DEF SnapshotBelow, RequestEffect, updateComputerName, saveUserToDB,
             initiateSmsMessage, performMfaEnrollment, performTotpConfirmation,
             initiateMfaSmsMessage, Requests, Users
<1>2. QED
      BY <1>1, RequestEffectType, BelowTransitive

\* Raising the auth level, by a confirmed code or a followed SMS link,
\* gives a record; the confirmation's effect is exactly that.
LEMMA VerifyType ==
    ASSUME NEW srv \in Users
    PROVE  /\ [srv EXCEPT !.mfa_verified = TRUE] \in Users
           /\ RequestEffect("confirmTotp", srv) = [srv EXCEPT !.mfa_verified = TRUE]
BY DEF Users, RequestEffect, performTotpConfirmation

\* Raising the auth level climbs the order, and sets the level.
LEMMA VerifyGrows ==
    ASSUME NEW srv \in Users
    PROVE  /\ SnapshotBelow(srv, [srv EXCEPT !.mfa_verified = TRUE])
           /\ \A u \in Users : SnapshotBelow(u, srv) =>
                  SnapshotBelow(u, [srv EXCEPT !.mfa_verified = TRUE])
           /\ [srv EXCEPT !.mfa_verified = TRUE].mfa_verified
<1>1. SnapshotBelow(srv, [srv EXCEPT !.mfa_verified = TRUE])
      BY DEF SnapshotBelow, Users
<1>2. QED
      BY <1>1, VerifyType, BelowTransitive DEF Users
=============================================================================
