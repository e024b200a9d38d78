--------------------------- MODULE MC_MFAChallenge ---------------------------
(***************************************************************************)
(* MFAChallenge for TLC: requests and TOTP steps are interchangeable.      *)
(*                                                                         *)
(* Beside it, every mask and every status string the conversions of        *)
(* StateMask can be given, and what a save of the result followed by a     *)
(* read turns them into.  part says what a behaviour is about.             *)
(***************************************************************************)
EXTENDS MFAChallenge, TLC

VARIABLES
    part,                       \* "challenge", "entry" or "session"
    mask, mode, push, bound,    \* an MFA challenge entry
    smask, sstatus,             \* a login session entry
    saves                       \* how often the entry went through Redis

entryVars == <<mask, mode, push, bound>>
sessionVars == <<smask, sstatus>>
mcVars == <<vars, part, entryVars, sessionVars, saves>>

MCInit ==
    /\ Init
    /\ saves = 0
    /\ \/ /\ part = "challenge"
          /\ mask = {} /\ mode = Unset /\ push = Unset /\ bound = Unset
          /\ smask = {} /\ sstatus = Unset
       \/ /\ part = "entry"
          /\ mask \in SUBSET ChallengeBits
          /\ mode \in {Unset, "totp", "push", "passkey", "unknown"}
          /\ push \in {Unset, "pending", "approved", "denied"}
          /\ bound \in Requests \cup {Unset}
          /\ smask = {} /\ sstatus = Unset
       \/ /\ part = "session"
          /\ mask = {} /\ mode = Unset /\ push = Unset /\ bound = Unset
          /\ smask \in SUBSET SessionBits
          /\ sstatus \in {Unset, "active", "locked", "logout", "logged_out"}

Stored == NormalizeMFAChallengeStateMask(mask, mode, push, bound)

\* SaveMFAChallenge writes the fields it derives from the mask, and
\* GetMFAChallenge normalises what it reads once more.
SaveAndGet ==
    /\ part = "entry" /\ saves < 2
    /\ saves' = saves + 1
    /\ mode' = MFAModeFromStateMask(Stored, mode)
    /\ push' = MFAPushStatusFromStateMask(Stored, push)
    /\ mask' = NormalizeMFAChallengeStateMask(Stored, mode', push', bound)
    /\ UNCHANGED <<vars, part, bound, sessionVars>>

\* A session entry makes the same trip.
SaveAndGetSession ==
    /\ part = "session" /\ saves < 2
    /\ saves' = saves + 1
    /\ smask' = NormalizeSessionStateMask(smask, sstatus)
    /\ sstatus' = SessionStatusFromMask(smask', sstatus)
    /\ UNCHANGED <<vars, part, entryVars>>

MCNext ==
    \/ part = "challenge" /\ Next /\ UNCHANGED <<part, entryVars, sessionVars, saves>>
    \/ SaveAndGet
    \/ SaveAndGetSession

MCSpec == MCInit /\ [][MCNext]_mcVars

Symmetry == Permutations(Requests) \cup Permutations(TOTPSteps)

-----------------------------------------------------------------------------

\* A trip through Redis loses nothing a handler decides on.  Whatever mask and
\* fields the Go side starts from, what it asks the script to store passes all
\* of the script's own checks, so a save is refused only for a version conflict
\* or a decision already taken; and the challenge comes back in the mode it was
\* saved in and, in push mode, with the same decision, whatever stale bits its
\* mask carried.  The two readers of a session's state, the bit test of the hot
\* path and the status string kept for old callers, agree before and after the
\* session's trip on whether it is active.
TripKeepsState ==
    [][saves' # saves =>
         /\ WellFormed(Stored)
         /\ NormalizeMFAMode(mode') = NormalizeMFAMode(mode)
         /\ mode' = "push" => push' = NormalizeMFAPushStatus(push)
         /\ part = "session" =>
                (IsSessionStateActive(smask') <=> SessionStatusFromMask(smask, sstatus) = "active")]_mcVars
=============================================================================
