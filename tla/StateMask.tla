------------------------------ MODULE StateMask ------------------------------
(***************************************************************************)
(* The packed states of MFA challenges and login sessions: the conversions *)
(* of ports/cache/state_mask.go between status strings and bit masks, and  *)
(* the checks save_mfa_challenge.lua makes on a mask it is asked to store. *)
(* A mask is the set of its bits; Unset is an empty string field.          *)
(***************************************************************************)

CONSTANT Unset

-----------------------------------------------------------------------------
(* Login sessions. *)

SessionBits == {"active", "locked", "logged_out"}

NormalizeSessionStateMask(mask, status) ==
    IF mask # {} THEN mask
    ELSE CASE status \in {"logged_out", "logout"} -> {"logged_out"}
           [] status = "locked" -> {"locked"}
           [] OTHER -> {"active"}

SessionStatusFromMask(mask, fallback) ==
    LET m == NormalizeSessionStateMask(mask, fallback)
    IN  IF "logged_out" \in m THEN "logged_out"
        ELSE IF "locked" \in m THEN "locked" ELSE "active"

IsSessionStateActive(mask) ==
    "active" \in mask /\ "locked" \notin mask /\ "logged_out" \notin mask

-----------------------------------------------------------------------------
(* MFA challenges. *)

ChallengeBits == {"live", "passkey", "push", "approved", "denied", "bound"}

NormalizeMFAMode(mode) == IF mode \in {"push", "passkey"} THEN mode ELSE "totp"

NormalizeMFAPushStatus(status) ==
    IF status \in {"approved", "denied"} THEN status ELSE "pending"

\* Push wins over passkey, decisions belong to push mode only, denied wins
\* over approved, and the bound bit follows the passkey session field.
CanonicalMFAChallengeStateMask(mask, session) ==
    LET push == "push" \in mask
        dropped == (IF push THEN {"passkey"} ELSE {"approved", "denied"})
                   \cup (IF "denied" \in mask THEN {"approved"} ELSE {})
                   \cup {"bound"}
    IN  ((mask \cup {"live"}) \ dropped) \cup (IF session = Unset THEN {} ELSE {"bound"})

NormalizeMFAChallengeStateMask(mask, mode, pushStatus, session) ==
    LET rest == mask \ {"push", "passkey", "approved", "denied"}
    IN  CanonicalMFAChallengeStateMask(
            rest \cup ({NormalizeMFAMode(mode)} \cap {"push", "passkey"})
                 \cup ({NormalizeMFAPushStatus(pushStatus)} \cap {"approved", "denied"}),
            session)

MFAModeFromStateMask(mask, fallback) ==
    LET m == CanonicalMFAChallengeStateMask(mask, Unset)
    IN  IF "push" \in m THEN "push"
        ELSE IF "passkey" \in m THEN "passkey"
        ELSE IF fallback = Unset THEN "totp" ELSE fallback

\* Mutant: the denied bit is forgotten when the status string is derived.
ApprovedOrPending(mask, fallback) ==
    IF "approved" \in CanonicalMFAChallengeStateMask(mask, Unset) THEN "approved" ELSE "pending"

MFAPushStatusFromStateMask(mask, fallback) ==
    LET m == CanonicalMFAChallengeStateMask(mask, Unset)
    IN  IF "denied" \in m THEN "denied"
        ELSE IF "approved" \in m THEN "approved"
        ELSE NormalizeMFAPushStatus(fallback)

Decision(mask) == mask \cap {"approved", "denied"}

\* The checks of save_mfa_challenge.lua on the mask to be stored.
WellFormed(next) ==
    /\ "live" \in next
    /\ ~({"push", "passkey"} \subseteq next)
    /\ "push" \notin next => Decision(next) = {}
    /\ Decision(next) # {"approved", "denied"}

\* Its check against the stored mask: a decision, once stored, is not rewritten.
KeepsDecision(cur, next) == Decision(cur) = {} \/ Decision(cur) = Decision(next)
=============================================================================
