------------------------- MODULE MFAChallengeProofs -------------------------
(***************************************************************************)
(* Proofs about MFAChallenge and the conversions of StateMask, for any     *)
(* number of requests, any TOTP steps and any version limit, with and      *)
(* without torn reads: the two Redis keys agree, decisions are final, a    *)
(* consumed challenge stays gone, and what sessions and cookies follow     *)
(* from that.                                                              *)
(***************************************************************************)
EXTENDS MC_MFAChallenge, TLAPS

-----------------------------------------------------------------------------
(* The conversions. *)

Pushes == {"pending", "approved", "denied"}

\* A decision belongs to push mode.
FieldsOK(f) == f.push # "pending" => f.mode = "push"

\* The mask says of mode, decision and passkey session what the fields say.
Matches(f, m) ==
    /\ "live" \in m
    /\ "push" \in m <=> f.mode = "push"
    /\ "passkey" \in m <=> f.mode = "passkey"
    /\ "approved" \in m <=> f.push = "approved"
    /\ "denied" \in m <=> f.push = "denied"
    /\ "bound" \in m <=> f.session # Unset

\* Bit by bit, what the mask holds once it is rebuilt from the fields; nothing of
\* the mask it replaces is left in these bits.
LEMMA NormalizedBits ==
    ASSUME NEW m \in SUBSET ChallengeBits, NEW md, NEW ps, NEW session
    PROVE  LET n == NormalizeMFAChallengeStateMask(m, md, ps, session)
           IN  /\ n \in SUBSET ChallengeBits /\ "live" \in n
               /\ "push" \in n <=> md = "push"
               /\ "passkey" \in n <=> md = "passkey"
               /\ "approved" \in n <=> md = "push" /\ ps = "approved"
               /\ "denied" \in n <=> md = "push" /\ ps = "denied"
               /\ "bound" \in n <=> session # Unset
<1> DEFINE modes == {NormalizeMFAMode(md)} \cap {"push", "passkey"}
           decisions == {NormalizeMFAPushStatus(ps)} \cap {"approved", "denied"}
           built == (m \ {"push", "passkey", "approved", "denied"}) \cup modes \cup decisions
<1>1. modes \subseteq {"push", "passkey"} /\ decisions \subseteq {"approved", "denied"}
    BY Zenon
<1>2. /\ "push" \in modes <=> md = "push"
      /\ "passkey" \in modes <=> md = "passkey"
    BY Zenon DEF NormalizeMFAMode
<1>3. /\ "approved" \in decisions <=> ps = "approved"
      /\ "denied" \in decisions <=> ps = "denied"
    BY Zenon DEF NormalizeMFAPushStatus
<1> HIDE DEF modes, decisions
<1>4. /\ built \subseteq ChallengeBits
      /\ "push" \in built <=> md = "push"
      /\ "passkey" \in built <=> md = "passkey"
      /\ "approved" \in built <=> ps = "approved"
      /\ "denied" \in built <=> ps = "denied"
    BY <1>1, <1>2, <1>3, Zenon DEF ChallengeBits
<1>5. NormalizeMFAChallengeStateMask(m, md, ps, session) = CanonicalMFAChallengeStateMask(built, session)
    BY Zenon DEF NormalizeMFAChallengeStateMask, modes, decisions
<1> HIDE DEF built
<1>6. CASE md = "push"
    BY <1>4, <1>5, <1>6, Zenon DEF CanonicalMFAChallengeStateMask, ChallengeBits
<1>7. CASE md # "push"
    BY <1>4, <1>5, <1>7, Zenon DEF CanonicalMFAChallengeStateMask, ChallengeBits
<1> QED
    BY <1>6, <1>7, Zenon

\* Canonicalising a mask for reading leaves it as it is when it is well formed,
\* so the fields derived from it are those it was built from.
LEMMA FieldsFromMask ==
    ASSUME NEW m \in SUBSET ChallengeBits, "live" \in m,
           ~({"push", "passkey"} \subseteq m), ~({"approved", "denied"} \subseteq m),
           "push" \notin m => "approved" \notin m /\ "denied" \notin m,
           NEW fb
    PROVE  /\ MFAModeFromStateMask(m, fb) = IF "push" \in m THEN "push"
                                            ELSE IF "passkey" \in m THEN "passkey"
                                            ELSE IF fb = Unset THEN "totp" ELSE fb
           /\ MFAPushStatusFromStateMask(m, fb) = IF "denied" \in m THEN "denied"
                                                  ELSE IF "approved" \in m THEN "approved"
                                                  ELSE NormalizeMFAPushStatus(fb)
<1> DEFINE c == CanonicalMFAChallengeStateMask(m, Unset)
<1>1. /\ "push" \in c <=> "push" \in m
      /\ "passkey" \in c <=> "passkey" \in m
      /\ "approved" \in c <=> "approved" \in m
      /\ "denied" \in c <=> "denied" \in m
    BY Zenon DEF CanonicalMFAChallengeStateMask
<1> HIDE DEF c
<1>2. MFAModeFromStateMask(m, fb) = IF "push" \in c THEN "push"
                                    ELSE IF "passkey" \in c THEN "passkey"
                                    ELSE IF fb = Unset THEN "totp" ELSE fb
    BY Zenon DEF MFAModeFromStateMask, c
<1>3. MFAPushStatusFromStateMask(m, fb) = IF "denied" \in c THEN "denied"
                                          ELSE IF "approved" \in c THEN "approved"
                                          ELSE NormalizeMFAPushStatus(fb)
    BY Zenon DEF MFAPushStatusFromStateMask, c
<1> QED
    BY <1>1, <1>2, <1>3, Zenon

-----------------------------------------------------------------------------
(* The repository. *)

Entries == [fields : Fields, mask : SUBSET ChallengeBits, ver : 0..VersionLimit]

States == [mask : SUBSET ChallengeBits, ver : 0..VersionLimit]

\* The two keys agree: the inductive form of StateMatchesHash.
KeysInv ==
    IF Present
    THEN /\ hash \in Fields /\ FieldsOK(hash) /\ Matches(hash, state.mask)
         /\ state.ver \in 1..VersionLimit
    ELSE state = NoState

\* The hash key is absent or holds well-typed fields.
LEMMA AbsentIsNoFields ==
    /\ Absent.mode = "absent" /\ Absent \notin Fields
    /\ NoFields \in Fields /\ FieldsOK(NoFields) /\ NoFields.push = "pending"
<1>1. NoFields \in Fields /\ NoFields.mode = "totp" /\ NoFields.push = "pending"
    BY Zenon DEF NoFields, Fields, Modes
<1>2. Absent.mode = "absent"
    BY Zenon DEF Absent, NoFields
<1>3. Absent \notin Fields
    BY <1>2, Zenon DEF Fields, Modes
<1> QED
    BY <1>1, <1>2, <1>3, Zenon DEF FieldsOK

\* What a save makes of fields: the empty mode becomes totp, the empty push
\* status pending, and the mask passes the script's checks.
LEMMA StoredForm ==
    ASSUME NEW md \in Modes \cup {Unset}, NEW ps \in Pushes \cup {Unset},
           NEW session \in Requests \cup {Unset}, NEW m \in SUBSET ChallengeBits,
           ps \in {"approved", "denied"} => md = "push"
    PROVE  LET n == NormalizeMFAChallengeStateMask(m, md, ps, session)
               f == [mode |-> MFAModeFromStateMask(n, md),
                     push |-> MFAPushStatusFromStateMask(n, ps), session |-> session]
           IN  /\ n \in SUBSET ChallengeBits /\ WellFormed(n)
               /\ f = [mode |-> NormalizeMFAMode(md), push |-> NormalizeMFAPushStatus(ps),
                       session |-> session]
               /\ f \in Fields /\ FieldsOK(f) /\ Matches(f, n)
<1> DEFINE n == NormalizeMFAChallengeStateMask(m, md, ps, session)
           f == [mode |-> MFAModeFromStateMask(n, md),
                 push |-> MFAPushStatusFromStateMask(n, ps), session |-> session]
<1>1. /\ n \in SUBSET ChallengeBits /\ "live" \in n
      /\ "push" \in n <=> md = "push"
      /\ "passkey" \in n <=> md = "passkey"
      /\ "approved" \in n <=> md = "push" /\ ps = "approved"
      /\ "denied" \in n <=> md = "push" /\ ps = "denied"
      /\ "bound" \in n <=> session # Unset
    BY NormalizedBits, Zenon
<1> HIDE DEF n
<1>2. /\ "approved" \in n <=> ps = "approved"
      /\ "denied" \in n <=> ps = "denied"
    BY <1>1, Zenon
<1>3. /\ ~({"push", "passkey"} \subseteq n) /\ ~({"approved", "denied"} \subseteq n)
      /\ "push" \notin n => "approved" \notin n /\ "denied" \notin n
    BY <1>1, Zenon
<1>4. WellFormed(n)
    BY <1>1, <1>3, Zenon DEF WellFormed, Decision
<1>5. Unset \notin {"totp", "passkey", "push", "pending", "approved", "denied"}
    BY ChallengeAssumption, Zenon
<1>6. MFAModeFromStateMask(n, md) = NormalizeMFAMode(md)
  <2>1. MFAModeFromStateMask(n, md) = IF "push" \in n THEN "push"
                                      ELSE IF "passkey" \in n THEN "passkey"
                                      ELSE IF md = Unset THEN "totp" ELSE md
    BY <1>1, <1>3, FieldsFromMask, Zenon
  <2> QED
    BY <1>1, <1>5, <2>1, Zenon DEF NormalizeMFAMode, Modes
<1>7. MFAPushStatusFromStateMask(n, ps) = NormalizeMFAPushStatus(ps)
  <2>1. MFAPushStatusFromStateMask(n, ps) = IF "denied" \in n THEN "denied"
                                            ELSE IF "approved" \in n THEN "approved"
                                            ELSE NormalizeMFAPushStatus(ps)
    BY <1>1, <1>3, FieldsFromMask, Zenon
  <2> QED
    BY <1>2, <2>1, Zenon DEF NormalizeMFAPushStatus
<1>8. f = [mode |-> NormalizeMFAMode(md), push |-> NormalizeMFAPushStatus(ps), session |-> session]
    BY <1>6, <1>7, Zenon
<1>9. /\ f.mode = NormalizeMFAMode(md) /\ f.push = NormalizeMFAPushStatus(ps)
      /\ f.session = session /\ f \in Fields
    BY <1>8, Zenon DEF NormalizeMFAMode, NormalizeMFAPushStatus, Fields, Modes
<1> HIDE DEF f
<1>10. FieldsOK(f)
    BY <1>9, Zenon DEF FieldsOK, NormalizeMFAPushStatus, NormalizeMFAMode
<1>11. Matches(f, n)
    BY <1>1, <1>2, <1>9, Zenon DEF Matches, NormalizeMFAMode, NormalizeMFAPushStatus
<1> QED
    BY <1>1, <1>4, <1>8, <1>9, <1>10, <1>11, Zenon DEF f, n

\* Fields that are well typed come through the conversions unchanged.
LEMMA FieldsRoundTrip ==
    ASSUME NEW f \in Fields, FieldsOK(f), NEW m \in SUBSET ChallengeBits
    PROVE  LET n == NormalizeMFAChallengeStateMask(m, f.mode, f.push, f.session)
           IN  /\ n \in SUBSET ChallengeBits /\ WellFormed(n) /\ Matches(f, n)
               /\ [mode |-> MFAModeFromStateMask(n, f.mode),
                   push |-> MFAPushStatusFromStateMask(n, f.push), session |-> f.session] = f
<1> DEFINE n == NormalizeMFAChallengeStateMask(m, f.mode, f.push, f.session)
           g == [mode |-> MFAModeFromStateMask(n, f.mode),
                 push |-> MFAPushStatusFromStateMask(n, f.push), session |-> f.session]
<1>1. /\ f.mode \in Modes /\ f.push \in Pushes /\ f.session \in Requests \cup {Unset}
      /\ f = [mode |-> f.mode, push |-> f.push, session |-> f.session]
    BY Zenon DEF Fields, Pushes
<1>2. f.push \in {"approved", "denied"} => f.mode = "push"
    BY Zenon DEF FieldsOK
<1>3. /\ n \in SUBSET ChallengeBits /\ WellFormed(n) /\ Matches(g, n)
      /\ g = [mode |-> NormalizeMFAMode(f.mode), push |-> NormalizeMFAPushStatus(f.push),
              session |-> f.session]
    BY <1>1, <1>2, StoredForm, Zenon
<1>4. NormalizeMFAMode(f.mode) = f.mode /\ NormalizeMFAPushStatus(f.push) = f.push
    BY <1>1, Zenon DEF NormalizeMFAMode, NormalizeMFAPushStatus, Modes, Pushes
<1> HIDE DEF n, g
<1>5. g = f
    BY <1>1, <1>3, <1>4, Zenon
<1> QED
    BY <1>3, <1>5, Zenon DEF n, g

\* GetMFAChallenge hands out the fields of the hash, whatever the state key says
\* of the mask, and the state key's version.
LEMMA DecodeEffect ==
    ASSUME NEW f \in Fields, FieldsOK(f), NEW st \in States
    PROVE  /\ Decode(f, st) \in Entries /\ Decode(f, st).fields = f
           /\ Decode(f, st).ver = st.ver
<1> DEFINE n == NormalizeMFAChallengeStateMask(st.mask, f.mode, f.push, f.session)
<1>1. st.mask \in SUBSET ChallengeBits /\ st.ver \in 0..VersionLimit
    BY Zenon DEF States
<1>2. /\ n \in SUBSET ChallengeBits
      /\ [mode |-> MFAModeFromStateMask(n, f.mode),
          push |-> MFAPushStatusFromStateMask(n, f.push), session |-> f.session] = f
    BY <1>1, FieldsRoundTrip, Zenon
<1>3. Decode(f, st) = [fields |-> f, mask |-> n, ver |-> st.ver]
    BY <1>2, Zenon DEF Decode
<1> HIDE DEF n
<1> QED
    BY <1>1, <1>2, <1>3 DEF Entries

-----------------------------------------------------------------------------
(* The inductive invariants. *)

\* No request knows the challenge before the login has answered, and until then
\* nobody decides.
FlowInv ==
    /\ login # "open" => \A r \in Requests : pc[r] = "idle"
    /\ login = "start" => ~Present
    /\ login \in {"start", "created"} /\ Present => hash.push = "pending"

\* What a request is about to save, and where it is once it has a session.
RequestOK(r) ==
    /\ pc[r] \in {"state", "save"} => FieldsOK(entry[r].fields)
    /\ pc[r] = "state" => op[r] \in Handlers
    /\ op[r] = "decide" /\ pc[r] \in {"state", "save", "saved"} => arg[r] \in Decisions
    /\ op[r] = "totp" /\ pc[r] \in {"state", "reserve"} => arg[r] \in TOTPSteps
    /\ pc[r] = "reserve" => op[r] = "totp"
    /\ pc[r] = "save" =>
        \/ op[r] = "begin" /\ entry[r].fields.push = "pending"
        \/ op[r] = "decide" /\ entry[r].fields.push = arg[r]
    /\ r \in sessionRows => pc[r] \in {"cache", "ok", "refused", "pending"}

RequestInv == \A r \in Requests : RequestOK(r)

\* A request that is past the reservation of its step, or was.
Reserved(r) ==
    op[r] = "totp" /\ (pc[r] \in {"delete", "session", "cache"} \/ r \in sessionRows)

TOTPInv ==
    /\ \A r \in Requests : Reserved(r) => arg[r] \in usedSteps
    /\ \A r, s \in Requests : Reserved(r) /\ Reserved(s) /\ arg[r] = arg[s] => r = s

\* A request that creates a session has deleted the challenge.
GoneInv == \A r \in Requests : pc[r] \in {"session", "cache"} => ~Present \/ TornCopySaved

SavedDecision(x) == \E d \in Requests : op[d] = "decide" /\ pc[d] = "saved" /\ arg[d] = x

\* A request that finalizes an approval, or did.
Finalized(r) ==
    op[r] = "finalize" /\ (pc[r] \in {"delete", "session", "cache"} \/ r \in sessionRows)

\* The hash holds the one decision that was saved, and so does every copy.
DecideInv ==
    ~TornCopySaved =>
        /\ \A x \in Decisions : SavedDecision(x) /\ Present => hash.push = x
        /\ Present /\ hash.push # "pending" => SavedDecision(hash.push)
        /\ \A x, y \in Decisions : SavedDecision(x) /\ SavedDecision(y) => x = y
        /\ \A r \in Requests :
            /\ pc[r] = "state" /\ entry[r].fields.push # "pending" =>
                SavedDecision(entry[r].fields.push)
            /\ Finalized(r) => SavedDecision("approved")

ChallengeInv ==
    /\ TypeOK /\ KeysInv /\ FlowInv /\ RequestInv
    /\ TOTPInv /\ GoneInv /\ CookieWhileOpen /\ DecideInv

-----------------------------------------------------------------------------
(* What the steps do. *)

Arguments == Requests \cup TOTPSteps \cup Words \cup {Unset}

SameOthers(r) ==
    \A s \in Requests : s # r =>
        pc'[s] = pc[s] /\ op'[s] = op[s] /\ arg'[s] = arg[s] /\ entry'[s] = entry[s]

\* The types of the requests, the rest of TypeOK.
RequestType ==
    /\ pc \in [Requests -> Steps]
    /\ op \in [Requests -> Handlers \cup {Unset}]
    /\ arg \in [Requests -> Arguments]
    /\ entry \in [Requests -> Entries]

\* A step of one request that leaves what it was asked alone.
LEMMA GotoEffect ==
    ASSUME RequestType, NEW r \in Requests, NEW step \in Steps, Goto(r, step),
           UNCHANGED <<op, arg, entry>>
    PROVE  /\ RequestType' /\ SameOthers(r) /\ pc'[r] = step
           /\ op'[r] = op[r] /\ arg'[r] = arg[r] /\ entry'[r] = entry[r]
<1>1. pc' = [pc EXCEPT ![r] = step]
    BY Zenon DEF Goto
<1>2. /\ pc' \in [Requests -> Steps] /\ pc'[r] = step
      /\ \A s \in Requests : s # r => pc'[s] = pc[s]
    BY <1>1, Zenon DEF RequestType
<1> QED
    BY <1>2, Zenon DEF RequestType, SameOthers

\* The first step of a request, or of the finalization.
LEMMA BeginEffect ==
    ASSUME RequestType, NEW r \in Requests, NEW step \in Steps, NEW h \in Handlers,
           NEW a \in Arguments, NEW e \in Entries, Goto(r, step),
           op' = [op EXCEPT ![r] = h], arg' = [arg EXCEPT ![r] = a],
           entry' = [entry EXCEPT ![r] = e]
    PROVE  /\ RequestType' /\ SameOthers(r) /\ pc'[r] = step
           /\ op'[r] = h /\ arg'[r] = a /\ entry'[r] = e
<1>1. pc' = [pc EXCEPT ![r] = step]
    BY Zenon DEF Goto
<1>2. /\ pc' \in [Requests -> Steps] /\ pc'[r] = step
      /\ \A s \in Requests : s # r => pc'[s] = pc[s]
    BY <1>1, Zenon DEF RequestType
<1>3. /\ op' \in [Requests -> Handlers \cup {Unset}] /\ op'[r] = h
      /\ \A s \in Requests : s # r => op'[s] = op[s]
    BY Zenon DEF RequestType
<1>4. /\ arg' \in [Requests -> Arguments] /\ arg'[r] = a
      /\ \A s \in Requests : s # r => arg'[s] = arg[s]
    BY Zenon DEF RequestType
<1>5. /\ entry' \in [Requests -> Entries] /\ entry'[r] = e
      /\ \A s \in Requests : s # r => entry'[s] = entry[s]
    BY Zenon DEF RequestType
<1> QED
    BY <1>2, <1>3, <1>4, <1>5, Zenon DEF RequestType, SameOthers

\* The handlers' checks and changes, case by case.
LEMMA AfterGetCases ==
    ASSUME NEW r \in Requests, NEW h \in Handlers, NEW a, NEW e \in Entries, FieldsOK(e.fields),
           h = "decide" => a \in Decisions
    PROVE  /\ Amended(r, h, a, e) \in Entries /\ Amended(r, h, a, e).ver = e.ver
           /\ AfterGet(h, a, e) \in {"reserve", "save", "refused", "delete", "finalize", "pending"}
           /\ h = "totp" <=> AfterGet(h, a, e) = "reserve"
           /\ AfterGet(h, a, e) = "save" =>
                /\ FieldsOK(Amended(r, h, a, e).fields)
                /\ \/ h = "begin" /\ Amended(r, h, a, e).fields.push = "pending"
                   \/ h = "decide" /\ Amended(r, h, a, e).fields.push = a
           /\ h = "finalize" /\ AfterGet(h, a, e) = "delete" => e.fields.push = "approved"
<1>1. e.fields \in Fields /\ e.ver \in 0..VersionLimit /\ e.mask \in SUBSET ChallengeBits
    BY Zenon DEF Entries
<1>2. CASE h = "totp"
    BY <1>2, Zenon DEF Amended, AfterGet
<1>3. CASE h = "begin"
  <2> DEFINE x == [e EXCEPT !.fields.session = r]
  <2>1. Amended(r, h, a, e) = x
    BY <1>3, Zenon DEF Amended
  <2>2. /\ x \in Entries /\ x.ver = e.ver /\ x.fields.mode = e.fields.mode
        /\ x.fields.push = e.fields.push
    BY <1>1, Zenon DEF Entries, Fields
  <2> HIDE DEF x
  <2>3. AfterGet(h, a, e) = IF e.fields.mode = "passkey" THEN "save" ELSE "refused"
    BY <1>3, Zenon DEF AfterGet
  <2>4. e.fields.mode = "passkey" => x.fields.push = "pending" /\ FieldsOK(x.fields)
    BY <2>2, Zenon DEF FieldsOK
  <2> QED
    BY <1>3, <2>1, <2>2, <2>3, <2>4, Zenon
<1>4. CASE h = "decide"
  <2> DEFINE x == [e EXCEPT !.fields.push = a]
  <2>1. Amended(r, h, a, e) = x
    BY <1>4, Zenon DEF Amended
  <2>2. x \in Entries /\ x.ver = e.ver /\ x.fields.mode = e.fields.mode /\ x.fields.push = a
    BY <1>1, <1>4, Zenon DEF Entries, Fields, Decisions
  <2> HIDE DEF x
  <2>3. AfterGet(h, a, e) = IF e.fields.mode = "push" THEN "save" ELSE "refused"
    BY <1>4, Zenon DEF AfterGet
  <2>4. e.fields.mode = "push" => FieldsOK(x.fields)
    BY <2>2, Zenon DEF FieldsOK
  <2> QED
    BY <1>4, <2>1, <2>2, <2>3, <2>4, Zenon
<1>5. CASE h = "finish"
    BY <1>5, Zenon DEF Amended, AfterGet
<1>6. CASE h = "poll"
    BY <1>6, Zenon DEF Amended, AfterGet, AfterPoll
<1>7. CASE h = "finalize"
    BY <1>7, Zenon DEF Amended, AfterGet, PushApproved
<1> QED
    BY <1>2, <1>3, <1>4, <1>5, <1>6, <1>7, Zenon DEF Handlers

\* An accepted save stores the entry's fields, keeps a decision, and is refused
\* for a missing challenge unless the entry's version is 0.
LEMMA SaveEffect ==
    ASSUME KeysInv, state \in States, NEW e \in Entries, FieldsOK(e.fields),
           NEW stored \in BOOLEAN, SaveMFAChallenge(e, stored)
    PROVE  /\ ~stored => UNCHANGED <<hash, state>>
           /\ stored =>
                /\ hash' = e.fields /\ KeysInv' /\ Present' /\ state' \in States
                /\ ~Present => e.ver = 0
                /\ Present /\ hash.push # "pending" => e.fields.push = hash.push
<1> DEFINE n == NormalizeMFAChallengeStateMask(e.mask, e.fields.mode, e.fields.push, e.fields.session)
<1>1. e.fields \in Fields /\ e.mask \in SUBSET ChallengeBits
    BY Zenon DEF Entries
<1>2. /\ n \in SUBSET ChallengeBits /\ Matches(e.fields, n)
      /\ [mode |-> MFAModeFromStateMask(n, e.fields.mode),
          push |-> MFAPushStatusFromStateMask(n, e.fields.push),
          session |-> e.fields.session] = e.fields
    BY <1>1, FieldsRoundTrip, Zenon
<1>3. StoredFields(e, n) = e.fields
    BY <1>2, Zenon DEF StoredFields
<1>4. IF ScriptAccepts(e, n) THEN stored = TRUE /\ Store(e, n)
                             ELSE stored = FALSE /\ UNCHANGED <<hash, state>>
    BY Zenon DEF SaveMFAChallenge
<1> HIDE DEF n
<1>5. CASE stored
  <2>1. /\ state.ver = e.ver /\ KeepsDecision(state.mask, n) /\ hash' = e.fields
        /\ state' = [mask |-> n, ver |-> NextVersion(state.ver)]
    BY <1>3, <1>4, <1>5, Zenon DEF ScriptAccepts, Store
  <2>2. state.ver \in 0..VersionLimit /\ VersionLimit \in Nat \ {0}
    BY ChallengeAssumption, Zenon DEF States
  <2>3. NextVersion(state.ver) \in 1..VersionLimit
    BY <2>2 DEF NextVersion
  <2>4. /\ state'.mask = n /\ state'.ver \in 1..VersionLimit /\ state' \in States
    BY <1>2, <2>1, <2>2, <2>3 DEF States
  <2>5. Present'
    BY <1>1, <2>1, AbsentIsNoFields, Zenon DEF Present
  <2>6. KeysInv'
    BY <1>1, <1>2, <2>1, <2>4, <2>5, Zenon DEF KeysInv
  <2>7. ~Present => e.ver = 0
    BY <2>1 DEF KeysInv, NoState
  <2>8. Present /\ hash.push # "pending" => e.fields.push = hash.push
    BY <1>1, <1>2, <2>1, Zenon DEF KeysInv, KeepsDecision, Decision, Matches, Fields
  <2> QED
    BY <1>5, <2>1, <2>4, <2>5, <2>6, <2>7, <2>8, Zenon
<1>6. CASE ~stored
    BY <1>4, <1>6, Zenon
<1> QED
    BY <1>5, <1>6, Zenon

-----------------------------------------------------------------------------
(* Steps that leave the challenge alone. *)

\* Saves that were accepted stay so: no request goes on from there.
LEMMA SavedSame ==
    ASSUME NEW r \in Requests, SameOthers(r), pc[r] # "saved", pc'[r] # "saved"
    PROVE  /\ TornCopySaved' <=> TornCopySaved
           /\ \A x : SavedDecision(x)' <=> SavedDecision(x)
BY Zenon DEF TornCopySaved, SavedDecision, SameOthers

\* What a step of one request must see to if it leaves the two keys alone.
QuietStep(r) ==
    /\ SameOthers(r) /\ UNCHANGED <<login, hash, state, expired>> /\ login = "open"
    /\ pc[r] \notin {"saved", "expired"} /\ pc'[r] # "saved"
    /\ sessionRows \subseteq sessionRows' /\ sessionRows' \subseteq sessionRows \cup {r}
    /\ usedSteps \subseteq usedSteps'
    /\ Reserved(r)' => /\ arg'[r] \in usedSteps'
                       /\ (Reserved(r) /\ arg'[r] = arg[r]) \/ arg'[r] \notin usedSteps
    /\ pc'[r] \in {"session", "cache"} => pc[r] \in {"session", "cache"}
    /\ \/ cookie' = cookie \/ ~(Present /\ ~expired) \/ TornCopySaved
       \/ op'[r] = "begin" /\ pc'[r] = "expired"
    /\ ~TornCopySaved =>
        /\ pc'[r] = "state" /\ entry'[r].fields.push # "pending" =>
            SavedDecision(entry'[r].fields.push)
        /\ Finalized(r)' => Finalized(r) \/ SavedDecision("approved")

\* Such a step keeps the invariants.
LEMMA QuietKeeps ==
    ASSUME ChallengeInv, TypeOK', NEW r \in Requests, QuietStep(r), RequestOK(r)'
    PROVE  ChallengeInv'
<1> USE DEF QuietStep
<1>1. /\ TornCopySaved' <=> TornCopySaved
      /\ \A x : SavedDecision(x)' <=> SavedDecision(x)
    BY SavedSame, Zenon
<1>2. Present' <=> Present
    BY Zenon DEF Present
<1>3. KeysInv' /\ FlowInv'
    BY <1>2, Zenon DEF ChallengeInv, KeysInv, FlowInv
<1>4. RequestInv'
    BY DEF ChallengeInv, RequestInv, RequestOK, SameOthers
<1>5. \A s \in Requests : s # r =>
        /\ Reserved(s)' <=> Reserved(s)
        /\ Finalized(s)' <=> Finalized(s)
    BY Zenon DEF SameOthers, Reserved, Finalized
<1>6. TOTPInv'
  <2>1. \A s \in Requests : Reserved(s)' => arg'[s] \in usedSteps'
    BY <1>5, Zenon DEF ChallengeInv, TOTPInv, SameOthers
  <2>2. ASSUME NEW s \in Requests, s # r, Reserved(s)', Reserved(r)', arg'[s] = arg'[r]
        PROVE  FALSE
    <3>1. Reserved(s) /\ arg'[s] = arg[s] /\ arg[s] \in usedSteps
      BY <1>5, <2>2, Zenon DEF ChallengeInv, TOTPInv, SameOthers
    <3>2. Reserved(r) /\ arg'[r] = arg[r]
      BY <2>2, <3>1, Zenon
    <3> QED
      BY <2>2, <3>1, <3>2, Zenon DEF ChallengeInv, TOTPInv
  <2>3. ASSUME NEW s \in Requests, NEW t \in Requests, s # r, t # r,
               Reserved(s)', Reserved(t)', arg'[s] = arg'[t]
        PROVE  s = t
    BY <1>5, <2>3, Zenon DEF ChallengeInv, TOTPInv, SameOthers
  <2> QED
    BY <2>1, <2>2, <2>3, Zenon DEF TOTPInv
<1>7. GoneInv'
    BY <1>1, <1>2, Zenon DEF ChallengeInv, GoneInv, SameOthers
<1>8. CookieWhileOpen'
  <2>1. ASSUME NEW s \in Requests, op[s] = "begin", pc[s] = "expired"
        PROVE  op'[s] = "begin" /\ pc'[s] = "expired"
    BY <2>1, Zenon DEF SameOthers
  <2> QED
    BY <1>1, <1>2, <2>1 DEF ChallengeInv, CookieWhileOpen
<1>9. DecideInv'
  <2> SUFFICES ASSUME ~TornCopySaved
               PROVE  DecideInv'
    BY <1>1, Zenon DEF DecideInv
  <2>1. /\ \A x \in Decisions : SavedDecision(x)' /\ Present' => hash'.push = x
        /\ Present' /\ hash'.push # "pending" => SavedDecision(hash'.push)
        /\ \A x, y \in Decisions : SavedDecision(x)' /\ SavedDecision(y)' => x = y
    BY <1>1, <1>2, Zenon DEF ChallengeInv, DecideInv
  <2>2. ASSUME NEW s \in Requests
        PROVE  /\ pc'[s] = "state" /\ entry'[s].fields.push # "pending" =>
                    SavedDecision(entry'[s].fields.push)
               /\ Finalized(s)' => SavedDecision("approved")
    BY <1>5, Zenon DEF ChallengeInv, DecideInv, SameOthers
  <2>3. /\ Present' /\ hash'.push # "pending" => SavedDecision(hash.push)'
        /\ \A s \in Requests :
            /\ pc'[s] = "state" /\ entry'[s].fields.push # "pending" =>
                SavedDecision(entry[s].fields.push)'
            /\ Finalized(s)' => SavedDecision("approved")'
    <3>1. \A x : SavedDecision(x) =>
            \E d \in Requests : op'[d] = "decide" /\ pc'[d] = "saved" /\ arg'[d] = x
      BY <1>1 DEF SavedDecision
    <3>2. /\ SavedDecision(hash'.push) => SavedDecision(hash.push)'
          /\ SavedDecision("approved") => SavedDecision("approved")'
          /\ \A s \in Requests :
                SavedDecision(entry'[s].fields.push) => SavedDecision(entry[s].fields.push)'
      BY <3>1 DEF SavedDecision
    <3> QED
      BY <2>1, <2>2, <3>2, Zenon
  <2> QED
    BY <2>1, <2>3, Zenon DEF DecideInv
<1> QED
    BY <1>3, <1>4, <1>6, <1>7, <1>8, <1>9, Zenon DEF ChallengeInv

\* TypeOK in two parts.
StoreType ==
    /\ login \in {"start", "created", "open", "failed"}
    /\ hash \in Fields \cup {Absent} /\ state \in States
    /\ {expired, cookie} \subseteq BOOLEAN
    /\ usedSteps \subseteq TOTPSteps
    /\ deleted \subseteq Requests /\ sessionRows \subseteq Requests /\ sessionCache \subseteq Requests

\* The parts of the type invariant.
LEMMA TypeParts ==
    /\ TypeOK <=> StoreType /\ RequestType
    /\ StoreType' /\ RequestType' => TypeOK'
BY Zenon DEF TypeOK, StoreType, RequestType, States, Entries, Arguments

\* Requests run while the login is open, and one that has a session does not
\* start again.
LEMMA RequestRuns ==
    ASSUME ChallengeInv, NEW r \in Requests
    PROVE  /\ pc[r] # "idle" => login = "open"
           /\ r \in sessionRows => pc[r] \in {"cache", "ok", "refused", "pending"}
           /\ login = "open" \/ login \in {"start", "created", "failed"}
BY TypeParts, Zenon DEF ChallengeInv, FlowInv, RequestInv, RequestOK, StoreType

\* An error ends the request and takes the cookie only if the challenge is gone.
LEMMA ErrorEffect ==
    ASSUME NEW r \in Requests, NEW h, AnswerError(r, h), cookie \in BOOLEAN
    PROVE  /\ Goto(r, "pending") \/ Goto(r, "refused")
           /\ cookie' \in BOOLEAN
           /\ cookie' = cookie \/ ~(Present /\ ~expired)
BY Zenon DEF AnswerError

\* Requests that end with an error.
LEMMA ErrorKeeps ==
    ASSUME ChallengeInv, NEW r \in Requests, NEW h, AnswerError(r, h),
           pc[r] \notin {"idle", "saved", "expired"},
           UNCHANGED <<login, hash, state, expired, op, arg, entry, deleted, sessionRows>>,
           sessionCache' \subseteq Requests, usedSteps' = usedSteps
    PROVE  ChallengeInv'
<1>1. StoreType /\ RequestType /\ login = "open"
    BY TypeParts, RequestRuns, Zenon DEF ChallengeInv
<1>2. cookie \in BOOLEAN
    BY <1>1, Zenon DEF StoreType
<1>3. PICK step \in {"pending", "refused"} : Goto(r, step)
    BY <1>2, ErrorEffect, Zenon
<1>4. cookie' \in BOOLEAN /\ (cookie' = cookie \/ ~(Present /\ ~expired))
    BY <1>2, ErrorEffect, Zenon
<1>5. /\ RequestType' /\ SameOthers(r) /\ pc'[r] = step
      /\ op'[r] = op[r] /\ arg'[r] = arg[r] /\ entry'[r] = entry[r]
    BY <1>1, <1>3, GotoEffect, Zenon DEF Steps
<1>6. TypeOK'
    BY <1>1, <1>4, <1>5, TypeParts, Zenon DEF StoreType
<1>7. /\ Reserved(r)' => Reserved(r) /\ arg[r] \in usedSteps
      /\ Finalized(r)' => Finalized(r)
    BY <1>5, Zenon DEF Reserved, Finalized, ChallengeInv, TOTPInv
<1>8. QuietStep(r)
    BY <1>1, <1>4, <1>5, <1>7, Zenon DEF QuietStep
<1>9. RequestOK(r)'
    BY <1>5, Zenon DEF RequestOK
<1> QED
    BY <1>6, <1>8, <1>9, QuietKeeps, Zenon

\* Requests that fail on the way.
LEMMA FailsKeeps ==
    ASSUME ChallengeInv, NEW r \in Requests, RequestFails(r)
    PROVE  ChallengeInv'
<1>1. sessionCache \subseteq Requests
    BY TypeParts, Zenon DEF ChallengeInv, StoreType
<1> QED
    BY <1>1, ErrorKeeps, Zenon DEF RequestFails, redis

\* The session's row, then its cache entry and the answer.
LEMMA SessionKeeps ==
    ASSUME ChallengeInv, NEW r \in Requests, CreateSession(r) \/ SaveSession(r)
    PROVE  ChallengeInv'
<1>1. StoreType /\ RequestType
    BY TypeParts, Zenon DEF ChallengeInv
<1>2. pc[r] \in {"session", "cache"} /\ login = "open"
    BY RequestRuns, Zenon DEF CreateSession, SaveSession
<1>3. CASE CreateSession(r)
  <2>1. /\ RequestType' /\ SameOthers(r) /\ pc'[r] = "cache"
        /\ op'[r] = op[r] /\ arg'[r] = arg[r] /\ entry'[r] = entry[r]
    BY <1>1, <1>3, GotoEffect, Zenon DEF CreateSession, Steps
  <2>2. /\ sessionRows' = sessionRows \cup {r} /\ pc[r] = "session"
        /\ UNCHANGED <<login, hash, state, expired, cookie, usedSteps, deleted, sessionCache>>
    BY <1>3, Zenon DEF CreateSession, redis
  <2>3. TypeOK'
    BY <1>1, <2>1, <2>2, TypeParts, Zenon DEF StoreType
  <2>4. /\ Reserved(r)' => Reserved(r) /\ arg[r] \in usedSteps
        /\ Finalized(r)' => Finalized(r)
    BY <2>1, <2>2, Zenon DEF Reserved, Finalized, ChallengeInv, TOTPInv
  <2>5. QuietStep(r)
    BY <1>2, <2>1, <2>2, <2>4, Zenon DEF QuietStep
  <2>6. RequestOK(r)'
    BY <2>1, Zenon DEF RequestOK
  <2> QED
    BY <2>3, <2>5, <2>6, QuietKeeps, Zenon
<1>4. CASE SaveSession(r) /\ ~Goto(r, "ok")
  <2>1. /\ AnswerError(r, "totp") /\ pc[r] = "cache"
        /\ UNCHANGED <<login, hash, state, expired, op, arg, entry, deleted, sessionRows, usedSteps>>
        /\ sessionCache' = sessionCache \cup {r}
    BY <1>4, Zenon DEF SaveSession, redis
  <2>2. sessionCache' \subseteq Requests
    BY <1>1, <2>1, Zenon DEF StoreType
  <2> QED
    BY <2>1, <2>2, ErrorKeeps, Zenon
<1>5. CASE SaveSession(r) /\ Goto(r, "ok")
  <2>1. /\ RequestType' /\ SameOthers(r) /\ pc'[r] = "ok"
        /\ op'[r] = op[r] /\ arg'[r] = arg[r] /\ entry'[r] = entry[r]
    BY <1>1, <1>5, GotoEffect, Zenon DEF SaveSession, Steps
  <2>2. /\ sessionCache' = sessionCache \cup {r} /\ pc[r] = "cache"
        /\ UNCHANGED <<login, hash, state, expired, usedSteps, deleted, sessionRows>>
    BY <1>5, Zenon DEF SaveSession, redis
  <2>3. cookie' \in BOOLEAN
    <3>1. cookie' = FALSE \/ AnswerError(r, "totp")
      BY <1>5, Zenon DEF SaveSession
    <3> QED
      BY <1>1, <3>1, ErrorEffect, Zenon DEF StoreType
  <2>4. TypeOK'
    BY <1>1, <2>1, <2>2, <2>3, TypeParts, Zenon DEF StoreType
  <2>5. /\ Reserved(r)' => Reserved(r) /\ arg[r] \in usedSteps
        /\ Finalized(r)' => Finalized(r)
    BY <2>1, <2>2, Zenon DEF Reserved, Finalized, ChallengeInv, TOTPInv
  <2>6. ~Present \/ TornCopySaved
    BY <1>2, Zenon DEF ChallengeInv, GoneInv
  <2>7. QuietStep(r)
    BY <1>2, <2>1, <2>2, <2>5, <2>6, Zenon DEF QuietStep
  <2>8. RequestOK(r)'
    BY <2>1, Zenon DEF RequestOK
  <2> QED
    BY <2>4, <2>7, <2>8, QuietKeeps, Zenon
<1> QED
    BY <1>3, <1>4, <1>5, Zenon

\* The step key is taken once.
LEMMA ReserveKeeps ==
    ASSUME ChallengeInv, NEW r \in Requests, ReserveTOTPStepUse(r)
    PROVE  ChallengeInv'
<1>1. StoreType /\ RequestType
    BY TypeParts, Zenon DEF ChallengeInv
<1>2. pc[r] = "reserve" /\ login = "open" /\ r \notin sessionRows
    BY RequestRuns, Zenon DEF ReserveTOTPStepUse
<1>3. op[r] = "totp" /\ arg[r] \in TOTPSteps
    BY <1>2, Zenon DEF ChallengeInv, RequestInv, RequestOK
<1>4. CASE arg[r] \in usedSteps
  <2>1. AnswerError(r, "totp") /\ usedSteps' = usedSteps
    BY <1>4, Zenon DEF ReserveTOTPStepUse
  <2>2. sessionCache' \subseteq Requests
    BY <1>1, Zenon DEF ReserveTOTPStepUse, StoreType
  <2> QED
    BY <1>2, <2>1, <2>2, ErrorKeeps, Zenon DEF ReserveTOTPStepUse, redis
<1>5. CASE arg[r] \notin usedSteps
  <2>1. /\ RequestType' /\ SameOthers(r) /\ pc'[r] = "delete"
        /\ op'[r] = op[r] /\ arg'[r] = arg[r] /\ entry'[r] = entry[r]
    BY <1>1, <1>5, GotoEffect, Zenon DEF ReserveTOTPStepUse, Steps
  <2>2. /\ usedSteps' = usedSteps \cup {arg[r]}
        /\ UNCHANGED <<login, hash, state, expired, cookie, deleted, sessionRows, sessionCache>>
    BY <1>5, Zenon DEF ReserveTOTPStepUse, redis
  <2>3. TypeOK'
    BY <1>1, <1>3, <2>1, <2>2, TypeParts, Zenon DEF StoreType
  <2>4. ~Finalized(r)'
    BY <1>3, <2>1, Zenon DEF Finalized
  <2>5. QuietStep(r)
    BY <1>2, <1>5, <2>1, <2>2, <2>4, Zenon DEF QuietStep
  <2>6. RequestOK(r)'
    BY <1>2, <2>1, <2>2, Zenon DEF RequestOK
  <2> QED
    BY <2>3, <2>5, <2>6, QuietKeeps, Zenon
<1> QED
    BY <1>4, <1>5, Zenon

\* The hash of a challenge that is there can be read.
LEMMA HashReadable ==
    ASSUME ChallengeInv, Present
    PROVE  /\ hash \in Fields /\ FieldsOK(hash) /\ state \in States
           /\ ~TornCopySaved /\ hash.push # "pending" => SavedDecision(hash.push)
BY TypeParts, Zenon DEF ChallengeInv, KeysInv, StoreType, DecideInv

\* The answer of GetMFAChallenge: where the request goes from there.
LEMMA ReceivedKeeps ==
    ASSUME ChallengeInv, NEW r \in Requests, NEW h \in Handlers, NEW a \in Arguments,
           NEW e \in Entries, FieldsOK(e.fields), pc[r] \in {"idle", "state", "finalize"},
           login = "open", Received(r, h, a, e),
           op' = [op EXCEPT ![r] = h], arg' = [arg EXCEPT ![r] = a],
           UNCHANGED <<login, redis, usedSteps, deleted, sessionRows, sessionCache>>,
           h = "decide" => a \in Decisions, h = "totp" => a \in TOTPSteps,
           ~TornCopySaved /\ e.fields.push = "approved" => SavedDecision("approved")
    PROVE  ChallengeInv'
<1> DEFINE x == Amended(r, h, a, e)
           next == AfterGet(h, a, e)
<1>1. StoreType /\ RequestType /\ r \notin sessionRows
    BY TypeParts, RequestRuns, Zenon DEF ChallengeInv
<1>2. /\ x \in Entries
      /\ next \in {"reserve", "save", "refused", "delete", "finalize", "pending"}
      /\ h = "totp" <=> next = "reserve"
      /\ next = "save" => /\ FieldsOK(x.fields)
                          /\ \/ h = "begin" /\ x.fields.push = "pending"
                             \/ h = "decide" /\ x.fields.push = a
      /\ h = "finalize" /\ next = "delete" => e.fields.push = "approved"
    BY AfterGetCases
<1>3. entry' = [entry EXCEPT ![r] = x] /\ Goto(r, next) /\ cookie' = cookie
    BY Zenon DEF Received
<1> HIDE DEF x, next
<1>4. next \in Steps
    BY <1>2, Zenon DEF Steps
<1>5. /\ RequestType' /\ SameOthers(r) /\ pc'[r] = next
      /\ op'[r] = h /\ arg'[r] = a /\ entry'[r] = x
    BY <1>1, <1>2, <1>3, <1>4, BeginEffect, Zenon
<1>6. UNCHANGED <<login, hash, state, expired, usedSteps, deleted, sessionRows, sessionCache>>
    BY Zenon DEF redis
<1>7. TypeOK'
    BY <1>1, <1>3, <1>5, <1>6, TypeParts, Zenon DEF StoreType
<1>8. /\ ~Reserved(r)'
      /\ ~TornCopySaved /\ Finalized(r)' => SavedDecision("approved")
    BY <1>1, <1>2, <1>5, <1>6, Zenon DEF Reserved, Finalized
<1>9. QuietStep(r)
    BY <1>2, <1>3, <1>5, <1>6, <1>8, Zenon DEF QuietStep
<1>10. RequestOK(r)'
    BY <1>1, <1>2, <1>5, <1>6, Zenon DEF RequestOK
<1> QED
    BY <1>7, <1>9, <1>10, QuietKeeps, Zenon

\* What a client may present is an argument of the right kind.
LEMMA AnswerType ==
    ASSUME NEW h \in Handlers, NEW a \in Answers(h)
    PROVE  /\ a \in Arguments
           /\ h = "decide" => a \in Decisions
           /\ h = "totp" => a \in TOTPSteps
BY Zenon DEF Answers, Arguments, Offered, Handlers

\* A handler starts while the login is open.
LEMMA HandleEffect ==
    ASSUME ChallengeInv, NEW r \in Requests, NEW h, Handle(r, h)
    PROVE  pc[r] \in {"idle", "finalize"} /\ login = "open" /\ r \notin sessionRows
BY RequestRuns, Zenon DEF Handle

\* Both reads at once.
LEMMA GetKeeps ==
    ASSUME ChallengeInv, NEW r \in Requests, NEW h \in Handlers, NEW a \in Answers(h),
           GetMFAChallenge(r, h, a)
    PROVE  ChallengeInv'
<1>1. pc[r] \in {"idle", "finalize"} /\ login = "open" /\ r \notin sessionRows
    BY HandleEffect, Zenon DEF GetMFAChallenge
<1>2. a \in Arguments /\ (h = "decide" => a \in Decisions) /\ (h = "totp" => a \in TOTPSteps)
    BY AnswerType, Zenon
<1>3. CASE Present /\ ~expired
  <2>1. /\ hash \in Fields /\ FieldsOK(hash) /\ state \in States
        /\ ~TornCopySaved /\ hash.push # "pending" => SavedDecision(hash.push)
    BY <1>3, HashReadable, Zenon
  <2>2. PICK e \in Entries : e = Decode(hash, state) /\ e.fields = hash
    BY <2>1, DecodeEffect, Zenon
  <2>3. Received(r, h, a, e)
    BY <1>3, <2>2, Zenon DEF GetMFAChallenge
  <2>4. ~TornCopySaved /\ e.fields.push = "approved" => SavedDecision("approved")
    BY <2>1, <2>2, Zenon
  <2>5. /\ op' = [op EXCEPT ![r] = h] /\ arg' = [arg EXCEPT ![r] = a]
        /\ UNCHANGED <<login, redis, usedSteps, deleted, sessionRows, sessionCache>>
    BY Zenon DEF GetMFAChallenge
  <2>6. FieldsOK(e.fields)
    BY <2>1, <2>2, Zenon
  <2> QED
    BY <1>1, <1>2, <2>3, <2>4, <2>5, <2>6, ReceivedKeeps, Zenon
<1>4. CASE ~(Present /\ ~expired)
  <2>1. StoreType /\ RequestType
    BY TypeParts, Zenon DEF ChallengeInv
  <2>2. PICK step \in {"pending", "expired"} : Goto(r, step)
    BY <1>4, Zenon DEF GetMFAChallenge, AnswerExpired
  <2>3. entry[r] \in Entries /\ entry = [entry EXCEPT ![r] = entry[r]]
    BY <2>1, Zenon DEF RequestType
  <2>4. /\ op' = [op EXCEPT ![r] = h] /\ arg' = [arg EXCEPT ![r] = a] /\ entry' = entry
        /\ UNCHANGED <<login, hash, state, expired, usedSteps, deleted, sessionRows, sessionCache>>
    BY <1>4, Zenon DEF GetMFAChallenge, redis
  <2>5. /\ RequestType' /\ SameOthers(r) /\ pc'[r] = step
        /\ op'[r] = h /\ arg'[r] = a /\ entry'[r] = entry[r]
    <3>1. step \in Steps
      BY Zenon DEF Steps
    <3>2. entry' = [entry EXCEPT ![r] = entry[r]]
      BY <2>3, <2>4, Zenon
    <3> QED
      BY <1>2, <2>1, <2>2, <2>3, <2>4, <3>1, <3>2, BeginEffect, Zenon
  <2>6. cookie' \in BOOLEAN
    BY <1>4, Zenon DEF GetMFAChallenge, AnswerExpired
  <2>7. TypeOK'
    BY <2>1, <2>4, <2>5, <2>6, TypeParts, Zenon DEF StoreType
  <2>8. ~Reserved(r)' /\ ~Finalized(r)'
    BY <1>1, <2>4, <2>5, Zenon DEF Reserved, Finalized
  <2>9. QuietStep(r)
    BY <1>1, <1>4, <2>4, <2>5, <2>8, Zenon DEF QuietStep
  <2>10. RequestOK(r)'
    BY <1>1, <2>4, <2>5, Zenon DEF RequestOK
  <2> QED
    BY <2>7, <2>9, <2>10, QuietKeeps, Zenon
<1> QED
    BY <1>3, <1>4, Zenon

\* The first of two reads takes the hash, decision included.
LEMMA GetHashKeeps ==
    ASSUME ChallengeInv, NEW r \in Requests, NEW h \in Handlers, NEW a \in Answers(h),
           GetMFAChallengeHash(r, h, a)
    PROVE  ChallengeInv'
<1>1. pc[r] \in {"idle", "finalize"} /\ login = "open" /\ r \notin sessionRows
    BY HandleEffect, Zenon DEF GetMFAChallengeHash
<1>2. a \in Arguments /\ (h = "decide" => a \in Decisions) /\ (h = "totp" => a \in TOTPSteps)
    BY AnswerType, Zenon
<1>3. /\ hash \in Fields /\ FieldsOK(hash) /\ state \in States
      /\ ~TornCopySaved /\ hash.push # "pending" => SavedDecision(hash.push)
    BY HashReadable, Zenon DEF GetMFAChallengeHash
<1>4. StoreType /\ RequestType
    BY TypeParts, Zenon DEF ChallengeInv
<1> DEFINE x == [entry[r] EXCEPT !.fields = hash]
<1>5. entry[r] \in Entries
    BY <1>4, Zenon DEF RequestType
<1>6. x \in Entries /\ x.fields = hash
    BY <1>3, <1>5, Zenon DEF Entries
<1>7. entry' = [entry EXCEPT ![r] = x]
    BY Zenon DEF GetMFAChallengeHash
<1> HIDE DEF x
<1>8. /\ op' = [op EXCEPT ![r] = h] /\ arg' = [arg EXCEPT ![r] = a] /\ Goto(r, "state")
      /\ UNCHANGED <<login, hash, state, expired, cookie, usedSteps, deleted, sessionRows, sessionCache>>
    BY Zenon DEF GetMFAChallengeHash, redis
<1>9. /\ RequestType' /\ SameOthers(r) /\ pc'[r] = "state"
      /\ op'[r] = h /\ arg'[r] = a /\ entry'[r] = x
    BY <1>2, <1>4, <1>6, <1>7, <1>8, BeginEffect, Zenon DEF Steps
<1>10. TypeOK'
    BY <1>4, <1>8, <1>9, TypeParts, Zenon DEF StoreType
<1>11. ~Reserved(r)' /\ ~Finalized(r)'
    BY <1>1, <1>8, <1>9, Zenon DEF Reserved, Finalized
<1>12. QuietStep(r)
    BY <1>1, <1>3, <1>6, <1>8, <1>9, <1>11, Zenon DEF QuietStep
<1>13. RequestOK(r)'
    BY <1>1, <1>2, <1>3, <1>6, <1>8, <1>9, Zenon DEF RequestOK
<1> QED
    BY <1>10, <1>12, <1>13, QuietKeeps, Zenon

\* The second takes the state key, which may be another challenge's or gone.
LEMMA GetStateKeeps ==
    ASSUME ChallengeInv, NEW r \in Requests, GetMFAChallengeState(r)
    PROVE  ChallengeInv'
<1>1. pc[r] = "state" /\ login = "open" /\ r \notin sessionRows
    BY RequestRuns, Zenon DEF GetMFAChallengeState
<1>2. StoreType /\ RequestType
    BY TypeParts, Zenon DEF ChallengeInv
<1>3. /\ FieldsOK(entry[r].fields) /\ op[r] \in Handlers
      /\ op[r] = "decide" => arg[r] \in Decisions
      /\ op[r] = "totp" => arg[r] \in TOTPSteps
    BY <1>1, Zenon DEF ChallengeInv, RequestInv, RequestOK
<1>4. entry[r].fields \in Fields /\ arg[r] \in Arguments /\ state \in States
    BY <1>2, Zenon DEF RequestType, StoreType, Entries
<1>5. PICK e \in Entries : e = Decode(entry[r].fields, state) /\ e.fields = entry[r].fields
    BY <1>3, <1>4, DecodeEffect, Zenon
<1>6. Received(r, op[r], arg[r], e)
    BY <1>5, Zenon DEF GetMFAChallengeState
<1>7. ~TornCopySaved /\ e.fields.push = "approved" => SavedDecision("approved")
    BY <1>1, <1>5, Zenon DEF ChallengeInv, DecideInv
<1>8. PICK h \in Handlers, a \in Arguments : h = op[r] /\ a = arg[r]
    BY <1>3, <1>4, Zenon
<1>9. op' = [op EXCEPT ![r] = h] /\ arg' = [arg EXCEPT ![r] = a]
    BY <1>2, <1>8, Zenon DEF GetMFAChallengeState, RequestType
<1>10. UNCHANGED <<login, redis, usedSteps, deleted, sessionRows, sessionCache>>
    BY Zenon DEF GetMFAChallengeState
<1>11. FieldsOK(e.fields)
    BY <1>3, <1>5, Zenon
<1> QED
    BY <1>1, <1>3, <1>6, <1>7, <1>8, <1>9, <1>10, <1>11, ReceivedKeeps, Zenon

\* A word that is no decision is refused.
LEMMA UnknownKeeps ==
    ASSUME ChallengeInv, NEW r \in Requests, NEW w \in Words, DecideUnknownAction(r, w)
    PROVE  ChallengeInv'
<1>1. pc[r] \in {"idle", "finalize"} /\ login = "open" /\ r \notin sessionRows
    BY HandleEffect, Zenon DEF DecideUnknownAction
<1>2. StoreType /\ RequestType
    BY TypeParts, Zenon DEF ChallengeInv
<1>3. Goto(r, "refused") /\ cookie' = cookie
    BY Zenon DEF DecideUnknownAction, AnswerError
<1>4. entry[r] \in Entries /\ entry = [entry EXCEPT ![r] = entry[r]]
    BY <1>2, Zenon DEF RequestType
<1>5. /\ op' = [op EXCEPT ![r] = "decide"] /\ arg' = [arg EXCEPT ![r] = w] /\ entry' = entry
      /\ UNCHANGED <<login, hash, state, expired, usedSteps, deleted, sessionRows, sessionCache>>
    BY Zenon DEF DecideUnknownAction, redis
<1>6. "decide" \in Handlers /\ w \in Arguments /\ "refused" \in Steps
    BY Zenon DEF Handlers, Arguments, Steps
<1>7. /\ RequestType' /\ SameOthers(r) /\ pc'[r] = "refused"
      /\ op'[r] = "decide" /\ arg'[r] = w /\ entry'[r] = entry[r]
    BY <1>2, <1>3, <1>4, <1>5, <1>6, BeginEffect, Zenon
<1>8. TypeOK'
    BY <1>2, <1>3, <1>5, <1>7, TypeParts, Zenon DEF StoreType
<1>9. QuietStep(r)
    BY <1>1, <1>3, <1>5, <1>7, Zenon DEF QuietStep, Reserved, Finalized
<1>10. RequestOK(r)'
    BY <1>1, <1>5, <1>7, Zenon DEF RequestOK
<1> QED
    BY <1>8, <1>9, <1>10, QuietKeeps, Zenon

-----------------------------------------------------------------------------
(* Steps that write the two keys. *)

\* A save that the script accepts.  A copy of a challenge that is gone must have
\* version 0, and a copy that does not repeat a stored decision is not accepted.
LEMMA AcceptedKeeps ==
    ASSUME ChallengeInv, NEW r \in Requests, pc[r] = "save",
           SaveMFAChallenge(entry[r], TRUE), Goto(r, "saved"),
           UNCHANGED <<cookie, login, expired, usedSteps, op, arg, entry, deleted,
                       sessionRows, sessionCache>>
    PROVE  ChallengeInv'
<1>1. StoreType /\ RequestType /\ login = "open" /\ r \notin sessionRows
    BY TypeParts, RequestRuns, Zenon DEF ChallengeInv
<1>2. /\ FieldsOK(entry[r].fields)
      /\ op[r] = "decide" => arg[r] \in Decisions
      /\ \/ op[r] = "begin" /\ entry[r].fields.push = "pending"
         \/ op[r] = "decide" /\ entry[r].fields.push = arg[r]
    BY Zenon DEF ChallengeInv, RequestInv, RequestOK
<1>3. entry[r] \in Entries /\ entry[r].fields \in Fields
    BY <1>1, Zenon DEF RequestType, Entries
<1>4. KeysInv /\ state \in States /\ TRUE \in BOOLEAN
    BY <1>1, Zenon DEF ChallengeInv, StoreType
<1>5. /\ hash' = entry[r].fields /\ KeysInv' /\ Present' /\ state' \in States
      /\ ~Present => entry[r].ver = 0
      /\ Present /\ hash.push # "pending" => entry[r].fields.push = hash.push
    BY <1>2, <1>3, <1>4, SaveEffect, Zenon
<1>6. "saved" \in Steps
    BY Zenon DEF Steps
<1>7. /\ RequestType' /\ SameOthers(r) /\ pc'[r] = "saved"
      /\ op'[r] = op[r] /\ arg'[r] = arg[r] /\ entry'[r] = entry[r]
    BY <1>1, <1>6, GotoEffect, Zenon
<1>8. TypeOK'
  <2>1. StoreType'
    BY <1>1, <1>3, <1>5, Zenon DEF StoreType
  <2> QED
    BY <1>7, <2>1, TypeParts, Zenon
<1>9. /\ TornCopySaved => TornCopySaved'
      /\ ~Present => TornCopySaved'
    BY <1>5, <1>7, Zenon DEF TornCopySaved, SameOthers
<1>10. FlowInv'
    BY <1>1, Zenon DEF FlowInv
<1>11. RequestInv'
  <2>1. RequestOK(r)'
    BY <1>1, <1>2, <1>7, Zenon DEF RequestOK
  <2> QED
    BY <2>1, <1>7 DEF ChallengeInv, RequestInv, RequestOK, SameOthers
<1>12. ASSUME NEW s \in Requests
       PROVE  /\ Reserved(s)' => Reserved(s)
              /\ Finalized(s)' => Finalized(s)
  <2>1. CASE s = r
    BY <1>1, <1>7, <2>1, Zenon DEF Reserved, Finalized
  <2>2. CASE s # r
    BY <1>7, <2>2, Zenon DEF SameOthers, Reserved, Finalized
  <2> QED
    BY <2>1, <2>2, Zenon
<1>13. TOTPInv'
    BY <1>12, Zenon DEF ChallengeInv, TOTPInv
<1>14. GoneInv'
    BY <1>7, <1>9, Zenon DEF ChallengeInv, GoneInv, SameOthers
<1>15. CookieWhileOpen'
  <2>1. ASSUME NEW s \in Requests, op[s] = "begin", pc[s] = "expired"
        PROVE  op'[s] = "begin" /\ pc'[s] = "expired"
    BY <1>7, <2>1, Zenon DEF SameOthers
  <2> QED
    BY <1>9, <2>1, Zenon DEF ChallengeInv, CookieWhileOpen
<1>16. DecideInv'
  <2> SUFFICES ASSUME ~TornCopySaved'
               PROVE  DecideInv'
    BY Zenon DEF DecideInv
  <2>1. Present /\ ~TornCopySaved
    BY <1>9, Zenon
  <2>2. \A x : SavedDecision(x) => SavedDecision(x)'
    BY <1>7, Zenon DEF SavedDecision, SameOthers
  <2>3. \A x : SavedDecision(x)' => SavedDecision(x) \/ (op[r] = "decide" /\ x = arg[r])
    BY <1>7, Zenon DEF SavedDecision, SameOthers
  <2>4. op[r] = "decide" => SavedDecision(arg[r])'
    BY <1>7, Zenon DEF SavedDecision
  <2>5. "pending" \notin Decisions
    BY Zenon DEF Decisions
  <2>6. \A x \in Decisions : SavedDecision(x) => entry[r].fields.push = x
    BY <1>5, <2>1, <2>5, Zenon DEF ChallengeInv, DecideInv
  <2>7. \A x \in Decisions : SavedDecision(x)' => hash'.push = x
    BY <1>2, <1>5, <2>3, <2>6, Zenon
  <2>8. hash'.push # "pending" => op[r] = "decide" /\ hash'.push = arg[r]
    BY <1>2, <1>5, Zenon
  <2>9. ASSUME NEW s \in Requests, (pc[s] = "state")', (entry[s].fields.push # "pending")'
        PROVE  SavedDecision(entry[s].fields.push)'
    <3>1. s # r /\ pc[s] = "state" /\ entry'[s] = entry[s] /\ entry[s].fields.push # "pending"
      BY <1>7, <2>9, Zenon DEF SameOthers
    <3>2. PICK x : x = entry[s].fields.push
      BY Zenon
    <3>3. SavedDecision(x)
      BY <2>1, <3>1, <3>2, Zenon DEF ChallengeInv, DecideInv
    <3>4. SavedDecision(x)' /\ x = entry'[s].fields.push
      BY <2>2, <3>1, <3>2, <3>3, Zenon
    <3> QED
      BY <3>4, Zenon DEF SavedDecision
  <2>10. ASSUME NEW s \in Requests, Finalized(s)'
         PROVE  SavedDecision("approved")'
    BY <1>12, <2>1, <2>2, <2>10, Zenon DEF ChallengeInv, DecideInv
  <2>11. hash'.push # "pending" => SavedDecision(hash.push)'
    <3> SUFFICES ASSUME hash'.push # "pending"
                 PROVE  SavedDecision(hash.push)'
      BY Zenon
    <3>1. op[r] = "decide" /\ hash'.push = arg[r]
      BY <2>8, Zenon
    <3> QED
      BY <1>7, <3>1, Zenon DEF SavedDecision
  <2> QED
    BY <2>7, <2>9, <2>10, <2>11, Zenon DEF DecideInv
<1> QED
    BY <1>5, <1>8, <1>10, <1>11, <1>13, <1>14, <1>15, <1>16, Zenon DEF ChallengeInv

\* BeginMFAPasskey's answer to a refused save.
LEMMA RefusedBeginKeeps ==
    ASSUME ChallengeInv, NEW r \in Requests, pc[r] = "save", op[r] = "begin",
           AnswerExpired(r, "begin"),
           UNCHANGED <<hash, state, login, expired, usedSteps, op, arg, entry, deleted,
                       sessionRows, sessionCache>>
    PROVE  ChallengeInv'
<1>1. StoreType /\ RequestType /\ login = "open" /\ r \notin sessionRows
    BY TypeParts, RequestRuns, Zenon DEF ChallengeInv
<1>2. Goto(r, "expired") /\ cookie' \in BOOLEAN /\ "expired" \in Steps
    BY Zenon DEF AnswerExpired, Steps
<1>3. /\ RequestType' /\ SameOthers(r) /\ pc'[r] = "expired"
      /\ op'[r] = op[r] /\ arg'[r] = arg[r] /\ entry'[r] = entry[r]
    BY <1>1, <1>2, GotoEffect, Zenon
<1>4. TypeOK'
    BY <1>1, <1>2, <1>3, TypeParts, Zenon DEF StoreType
<1>5. QuietStep(r)
    BY <1>1, <1>3, Zenon DEF QuietStep, Reserved, Finalized
<1>6. RequestOK(r)'
    BY <1>1, <1>3, Zenon DEF RequestOK
<1> QED
    BY <1>4, <1>5, <1>6, QuietKeeps, Zenon

\* Saving a challenge keeps the invariant.
LEMMA SaveKeeps ==
    ASSUME ChallengeInv, NEW r \in Requests, SaveChallenge(r)
    PROVE  ChallengeInv'
<1>1. PICK stored \in BOOLEAN :
        /\ SaveMFAChallenge(entry[r], stored)
        /\ CASE stored -> Goto(r, "saved") /\ UNCHANGED cookie
             [] ~stored /\ op[r] = "begin" -> AnswerExpired(r, "begin")
             [] OTHER -> AnswerError(r, op[r])
    BY Zenon DEF SaveChallenge
<1>2. /\ pc[r] = "save"
      /\ UNCHANGED <<login, expired, usedSteps, op, arg, entry, deleted, sessionRows, sessionCache>>
    BY Zenon DEF SaveChallenge
<1>3. CASE stored
    BY <1>1, <1>2, <1>3, AcceptedKeeps, Zenon
<1>4. CASE ~stored
  <2>1. UNCHANGED <<hash, state>>
    BY <1>1, <1>4, Zenon DEF SaveMFAChallenge
  <2>2. CASE op[r] = "begin"
    BY <1>1, <1>2, <1>4, <2>1, <2>2, RefusedBeginKeeps, Zenon
  <2>3. CASE op[r] # "begin"
    <3>1. op[r] = "decide" /\ AnswerError(r, op[r])
      BY <1>1, <1>2, <1>4, <2>3, Zenon DEF ChallengeInv, RequestInv, RequestOK
    <3>2. sessionCache' \subseteq Requests
      BY <1>2, TypeParts, Zenon DEF ChallengeInv, StoreType
    <3> QED
      BY <1>2, <2>1, <3>1, <3>2, ErrorKeeps, Zenon
  <2> QED
    BY <2>2, <2>3, Zenon
<1> QED
    BY <1>3, <1>4, Zenon

\* A challenge that goes away, and with it what its keys said.
LEMMA VanishKeeps ==
    ASSUME ChallengeInv, TypeOK', hash' = Absent, state' = NoState, UNCHANGED <<login, usedSteps>>,
           FlowInv', RequestInv', TornCopySaved => TornCopySaved',
           \A s \in Requests : /\ Reserved(s)' => Reserved(s) /\ arg'[s] = arg[s]
                               /\ Finalized(s)' => Finalized(s)
                               /\ pc'[s] = "state" => pc[s] = "state" /\ entry'[s] = entry[s],
           \A x : SavedDecision(x)' <=> SavedDecision(x)
    PROVE  ChallengeInv'
<1>1. ~Present'
    BY Zenon DEF Present
<1>2. KeysInv' /\ GoneInv' /\ CookieWhileOpen'
    BY <1>1, Zenon DEF KeysInv, GoneInv, CookieWhileOpen
<1>3. TOTPInv'
    BY Zenon DEF ChallengeInv, TOTPInv
<1>4. DecideInv'
  <2> SUFFICES ASSUME ~TornCopySaved'
               PROVE  DecideInv'
    BY Zenon DEF DecideInv
  <2>1. \A x, y \in Decisions : SavedDecision(x)' /\ SavedDecision(y)' => x = y
    BY Zenon DEF ChallengeInv, DecideInv
  <2>2. ASSUME NEW s \in Requests, (pc[s] = "state")', (entry[s].fields.push # "pending")'
        PROVE  SavedDecision(entry[s].fields.push)'
    <3>1. pc[s] = "state" /\ entry'[s] = entry[s] /\ entry[s].fields.push # "pending"
      BY <2>2, Zenon
    <3>2. PICK x : x = entry[s].fields.push
      BY Zenon
    <3>3. SavedDecision(x)
      BY <3>1, <3>2, Zenon DEF ChallengeInv, DecideInv
    <3>4. SavedDecision(x)' /\ x = entry'[s].fields.push
      BY <3>1, <3>2, <3>3, Zenon
    <3> QED
      BY <3>4, Zenon DEF SavedDecision
  <2>3. ASSUME NEW s \in Requests, Finalized(s)'
        PROVE  SavedDecision("approved")'
    BY <2>3, Zenon DEF ChallengeInv, DecideInv
  <2> QED
    BY <1>1, <2>1, <2>2, <2>3, Zenon DEF DecideInv
<1> QED
    BY <1>2, <1>3, <1>4, Zenon DEF ChallengeInv

\* A request consumes the challenge.
LEMMA DeleteKeeps ==
    ASSUME ChallengeInv, NEW r \in Requests, DeleteMFAChallenge(r)
    PROVE  ChallengeInv'
<1>1. StoreType /\ RequestType /\ login = "open" /\ r \notin sessionRows /\ pc[r] = "delete"
    BY TypeParts, RequestRuns, Zenon DEF ChallengeInv, DeleteMFAChallenge
<1>2. /\ hash' = Absent /\ state' = NoState /\ deleted' = deleted \cup {r} /\ Goto(r, "session")
      /\ UNCHANGED <<login, expired, cookie, usedSteps, op, arg, entry, sessionRows, sessionCache>>
    BY Zenon DEF DeleteMFAChallenge
<1>3. "session" \in Steps
    BY Zenon DEF Steps
<1>4. /\ RequestType' /\ SameOthers(r) /\ pc'[r] = "session"
      /\ op'[r] = op[r] /\ arg'[r] = arg[r] /\ entry'[r] = entry[r]
    BY <1>1, <1>2, <1>3, GotoEffect, Zenon
<1>5. NoState \in States
    BY ChallengeAssumption DEF NoState, States
<1>6. TypeOK'
  <2>1. StoreType'
    BY <1>1, <1>2, <1>5, Zenon DEF StoreType
  <2> QED
    BY <1>4, <2>1, TypeParts, Zenon
<1>7. FlowInv'
    BY <1>1, <1>2, Zenon DEF FlowInv
<1>8. RequestInv'
  <2>1. RequestOK(r)'
    BY <1>1, <1>2, <1>4, Zenon DEF RequestOK
  <2> QED
    BY <1>2, <1>4, <2>1 DEF ChallengeInv, RequestInv, RequestOK, SameOthers
<1>9. /\ TornCopySaved' <=> TornCopySaved
      /\ \A x : SavedDecision(x)' <=> SavedDecision(x)
    BY <1>1, <1>4, SavedSame, Zenon
<1>10. ASSUME NEW s \in Requests
       PROVE  /\ Reserved(s)' => Reserved(s) /\ arg'[s] = arg[s]
              /\ Finalized(s)' => Finalized(s)
              /\ pc'[s] = "state" => pc[s] = "state" /\ entry'[s] = entry[s]
  <2>1. CASE s = r
    BY <1>1, <1>2, <1>4, <2>1, Zenon DEF Reserved, Finalized
  <2>2. CASE s # r
    BY <1>2, <1>4, <2>2, Zenon DEF SameOthers, Reserved, Finalized
  <2> QED
    BY <2>1, <2>2, Zenon
<1> QED
    BY <1>2, <1>6, <1>7, <1>8, <1>9, <1>10, VanishKeeps, Zenon

\* The time of the challenge is over.
LEMMA ExpireKeeps ==
    ASSUME ChallengeInv, Expire
    PROVE  ChallengeInv'
<1>1. StoreType /\ RequestType
    BY TypeParts, Zenon DEF ChallengeInv
<1>2. /\ hash' = Absent /\ state' = NoState /\ expired' = TRUE
      /\ UNCHANGED <<login, cookie, usedSteps, pc, op, arg, entry, deleted, sessionRows, sessionCache>>
    BY Zenon DEF Expire
<1>3. NoState \in States
    BY ChallengeAssumption DEF NoState, States
<1>4. TypeOK'
  <2>1. StoreType' /\ RequestType'
    BY <1>1, <1>2, <1>3, Zenon DEF StoreType, RequestType
  <2> QED
    BY <2>1, TypeParts, Zenon
<1>5. FlowInv'
    BY <1>2, Zenon DEF ChallengeInv, FlowInv, Present
<1>6. RequestInv'
    BY <1>2, Zenon DEF ChallengeInv, RequestInv, RequestOK
<1>7. /\ TornCopySaved' <=> TornCopySaved
      /\ \A x : SavedDecision(x)' <=> SavedDecision(x)
    BY <1>2, Zenon DEF TornCopySaved, SavedDecision
<1>8. \A s \in Requests : /\ Reserved(s)' => Reserved(s) /\ arg'[s] = arg[s]
                          /\ Finalized(s)' => Finalized(s)
                          /\ pc'[s] = "state" => pc[s] = "state" /\ entry'[s] = entry[s]
    BY <1>2, Zenon DEF Reserved, Finalized
<1> QED
    BY <1>2, <1>4, <1>5, <1>6, <1>7, <1>8, VanishKeeps, Zenon

-----------------------------------------------------------------------------
(* The login. *)

\* Until the login has answered there is no request to disturb.
LEMMA OpeningKeeps ==
    ASSUME ChallengeInv, login \in {"start", "created"}, login' \in {"created", "open", "failed"},
           UNCHANGED <<expired, usedSteps, pc, op, arg, entry, deleted, sessionRows, sessionCache>>,
           hash' \in Fields \cup {Absent}, state' \in States, cookie' \in BOOLEAN, KeysInv',
           Present' => hash'.push = "pending", login' = "open" => cookie'
    PROVE  ChallengeInv'
<1>1. StoreType /\ RequestType
    BY TypeParts, Zenon DEF ChallengeInv
<1>2. TypeOK'
  <2>1. StoreType' /\ RequestType'
    BY <1>1, Zenon DEF StoreType, RequestType
  <2> QED
    BY <2>1, TypeParts, Zenon
<1>3. \A r \in Requests : pc[r] = "idle" /\ r \notin sessionRows
    BY Zenon DEF ChallengeInv, FlowInv, RequestInv, RequestOK
<1>4. FlowInv' /\ RequestInv'
    BY <1>3, Zenon DEF FlowInv, RequestInv, RequestOK
<1>5. \A r \in Requests : ~Reserved(r)' /\ ~Finalized(r)'
    BY <1>3, Zenon DEF Reserved, Finalized
<1>6. ~TornCopySaved' /\ \A x : ~SavedDecision(x)'
    BY <1>3, Zenon DEF TornCopySaved, SavedDecision
<1>7. TOTPInv' /\ GoneInv' /\ CookieWhileOpen'
    BY <1>3, <1>5, Zenon DEF TOTPInv, GoneInv, CookieWhileOpen
<1>8. DecideInv'
    BY <1>3, <1>5, <1>6, Zenon DEF DecideInv
<1> QED
    BY <1>2, <1>4, <1>7, <1>8, Zenon DEF ChallengeInv

\* The copy a new challenge starts from.
LEMMA NewEntryType == [fields |-> NoFields, mask |-> {}, ver |-> 0] \in Entries
<1>1. NoFields \in Fields /\ 0 \in 0..VersionLimit
    BY AbsentIsNoFields, ChallengeAssumption
<1> QED
    BY <1>1, Zenon DEF Entries

\* createMFAChallenge.
LEMMA CreateKeeps ==
    ASSUME ChallengeInv, CreateMFAChallenge
    PROVE  ChallengeInv'
<1>1. StoreType /\ KeysInv /\ state \in States
    BY TypeParts, Zenon DEF ChallengeInv, StoreType
<1>2. PICK e \in Entries : e = [fields |-> NoFields, mask |-> {}, ver |-> 0]
    BY NewEntryType, Zenon
<1>3. e.fields = NoFields
    BY <1>2, Zenon
<1>4. PICK stored \in BOOLEAN : stored = TRUE
    BY Zenon
<1>5. SaveMFAChallenge(e, stored)
    BY <1>2, <1>4, Zenon DEF CreateMFAChallenge
<1>6. hash' = NoFields /\ KeysInv' /\ state' \in States
    BY <1>1, <1>3, <1>4, <1>5, AbsentIsNoFields, SaveEffect, Zenon
<1>7. /\ login = "start" /\ login' = "created"
      /\ UNCHANGED <<cookie, expired, usedSteps, pc, op, arg, entry, deleted, sessionRows, sessionCache>>
    BY Zenon DEF CreateMFAChallenge
<1>8. cookie' \in BOOLEAN
    BY <1>1, <1>7, Zenon DEF StoreType
<1> QED
    BY <1>6, <1>7, <1>8, AbsentIsNoFields, OpeningKeeps, Zenon

\* updateMFAChallengeMode: the mode of a challenge that nobody has decided.
LEMMA UpdateKeeps ==
    ASSUME ChallengeInv, NEW m \in LoginModes, UpdateMFAChallengeMode(m)
    PROVE  ChallengeInv'
<1>1. StoreType /\ KeysInv /\ state \in States /\ hash \in Fields \cup {Absent}
    BY TypeParts, Zenon DEF ChallengeInv, StoreType
<1>2. /\ login = "created" /\ cookie' = (login' = "open")
      /\ UNCHANGED <<expired, usedSteps, pc, op, arg, entry, deleted, sessionRows, sessionCache>>
    BY Zenon DEF UpdateMFAChallengeMode
<1>3. Present => hash.push = "pending"
    BY <1>2, Zenon DEF ChallengeInv, FlowInv
<1>4. CASE login' = "failed" /\ UNCHANGED <<hash, state>>
  <2>1. KeysInv' /\ (Present' => hash'.push = "pending")
    BY <1>1, <1>3, <1>4, Zenon DEF KeysInv, Present
  <2>2. cookie' \in BOOLEAN /\ hash' \in Fields \cup {Absent} /\ state' \in States
    BY <1>1, <1>2, <1>4, Zenon
  <2> QED
    BY <1>2, <1>4, <2>1, <2>2, OpeningKeeps, Zenon
<1>5. ASSUME Present,
             SaveMFAChallenge([Decode(hash, state) EXCEPT !.fields.mode = m], TRUE),
             login' = "open"
      PROVE  ChallengeInv'
  <2>1. hash \in Fields /\ FieldsOK(hash)
    BY <1>1, <1>5, Zenon DEF KeysInv
  <2>2. PICK d \in Entries : d = Decode(hash, state) /\ d.fields = hash
    BY <1>1, <2>1, DecodeEffect, Zenon
  <2>3. m \in Modes
    BY ChallengeAssumption, Zenon DEF Modes
  <2>4. d.fields \in Fields /\ d.mask \in SUBSET ChallengeBits /\ d.ver \in 0..VersionLimit
    BY Zenon DEF Entries
  <2>5. PICK e \in Entries : /\ e = [d EXCEPT !.fields.mode = m]
                             /\ e.fields.push = d.fields.push
    <3> DEFINE x == [d EXCEPT !.fields.mode = m]
    <3>1. x \in Entries /\ x.fields.push = d.fields.push
      BY <2>3, <2>4, Zenon DEF Entries, Fields
    <3> HIDE DEF x
    <3>2. \E e \in Entries : e = x /\ e.fields.push = d.fields.push
      BY <3>1, Zenon
    <3> QED
      BY <3>2, Zenon DEF x
  <2>6. e.fields.push = "pending" /\ FieldsOK(e.fields) /\ e.fields \in Fields
    BY <1>3, <1>5, <2>2, <2>5, Zenon DEF FieldsOK, Entries
  <2>7. PICK stored \in BOOLEAN : stored = TRUE
    BY Zenon
  <2>8. SaveMFAChallenge(e, stored)
    BY <1>5, <2>2, <2>5, <2>7, Zenon
  <2>9. hash' = e.fields /\ KeysInv' /\ state' \in States
    BY <1>1, <2>6, <2>7, <2>8, SaveEffect, Zenon
  <2>10. cookie' = TRUE
    BY <1>2, <1>5, Zenon
  <2> QED
    BY <1>2, <1>5, <2>6, <2>9, <2>10, OpeningKeeps, Zenon
<1>6. \/ login' = "failed" /\ UNCHANGED <<hash, state>>
      \/ /\ Present /\ login' = "open"
         /\ SaveMFAChallenge([Decode(hash, state) EXCEPT !.fields.mode = m], TRUE)
  <2>1. CASE Present /\ ~expired
    <3>1. PICK stored \in BOOLEAN :
            /\ SaveMFAChallenge([Decode(hash, state) EXCEPT !.fields.mode = m], stored)
            /\ login' = IF stored THEN "open" ELSE "failed"
      BY <2>1, Zenon DEF UpdateMFAChallengeMode
    <3>2. CASE stored = TRUE
      <4>1. SaveMFAChallenge([Decode(hash, state) EXCEPT !.fields.mode = m], TRUE)
        BY <3>1, <3>2, Zenon
      <4>2. login' = "open"
        BY <3>1, <3>2, Zenon
      <4> QED
        BY <2>1, <4>1, <4>2, Zenon
    <3>3. CASE stored = FALSE
      BY <3>1, <3>3, Zenon DEF SaveMFAChallenge
    <3> QED
      BY <3>2, <3>3, Zenon
  <2>2. CASE ~(Present /\ ~expired)
    BY <2>2, Zenon DEF UpdateMFAChallengeMode
  <2> QED
    BY <2>1, <2>2, Zenon
<1> QED
    BY <1>4, <1>5, <1>6, Zenon

\* createLoginChallenge: the empty mode and push status are stored as totp and
\* pending.
LEMMA LoginChallengeKeeps ==
    ASSUME ChallengeInv, CreateLoginChallenge
    PROVE  ChallengeInv'
<1> DEFINE e == [fields |-> [mode |-> Unset, push |-> Unset, session |-> Unset],
                 mask |-> {}, ver |-> 0]
           n == NormalizeMFAChallengeStateMask({}, Unset, Unset, Unset)
           f == [mode |-> MFAModeFromStateMask(n, Unset),
                 push |-> MFAPushStatusFromStateMask(n, Unset), session |-> Unset]
<1>1. StoreType /\ KeysInv /\ state \in States /\ state.ver \in 0..VersionLimit
    BY TypeParts, Zenon DEF ChallengeInv, StoreType, States
<1>2. Unset \notin {"approved", "denied"}
    BY ChallengeAssumption, Zenon
<1>3. /\ n \in SUBSET ChallengeBits /\ f \in Fields /\ FieldsOK(f) /\ Matches(f, n)
      /\ f = [mode |-> NormalizeMFAMode(Unset), push |-> NormalizeMFAPushStatus(Unset),
              session |-> Unset]
    BY <1>2, StoredForm, Zenon
<1>4. f.push = "pending"
    BY <1>2, <1>3, Zenon DEF NormalizeMFAPushStatus
<1>5. SaveMFAChallenge(e, TRUE)
    BY Zenon DEF CreateLoginChallenge
<1>6. Store(e, n)
  <2>1. IF ScriptAccepts(e, n) THEN TRUE = TRUE /\ Store(e, n)
                               ELSE TRUE = FALSE /\ UNCHANGED <<hash, state>>
    BY <1>5, Zenon DEF SaveMFAChallenge
  <2> QED
    BY <2>1, Zenon
<1>7. hash' = f /\ state' = [mask |-> n, ver |-> NextVersion(state.ver)]
    BY <1>6, Zenon DEF Store, StoredFields
<1> HIDE DEF e, n, f
<1>8. NextVersion(state.ver) \in 1..VersionLimit
    BY <1>1, ChallengeAssumption DEF NextVersion
<1>9. state' \in States /\ state'.mask = n /\ state'.ver \in 1..VersionLimit
    BY <1>3, <1>7, <1>8, ChallengeAssumption DEF States
<1>10. KeysInv'
    BY <1>3, <1>7, <1>9, AbsentIsNoFields, Zenon DEF KeysInv, Present
<1>11. /\ login = "start" /\ login' = "open" /\ cookie' = TRUE
       /\ UNCHANGED <<expired, usedSteps, pc, op, arg, entry, deleted, sessionRows, sessionCache>>
    BY Zenon DEF CreateLoginChallenge
<1>12. hash' \in Fields /\ hash'.push = "pending"
    BY <1>3, <1>4, <1>7, Zenon
<1> QED
    BY <1>9, <1>10, <1>11, <1>12, OpeningKeeps, Zenon

-----------------------------------------------------------------------------
(* The theorems. *)

\* The invariant holds at the start.
LEMMA ChallengeInit ==
    ASSUME Init
    PROVE  ChallengeInv
<1>1. ~Present /\ state = NoState /\ NoState \in States
    BY ChallengeAssumption DEF Init, Present, NoState, States
<1>2. \A r \in Requests : pc[r] = "idle" /\ r \notin sessionRows
    BY Zenon DEF Init
<1>3. StoreType
    BY <1>1, Zenon DEF Init, StoreType
<1>4. RequestType
  <2>1. pc \in [Requests -> Steps]
    BY Zenon DEF Init, Steps
  <2>2. /\ op \in [Requests -> Handlers \cup {Unset}]
        /\ arg \in [Requests -> Arguments]
    BY Zenon DEF Init, Arguments
  <2>3. entry \in [Requests -> Entries]
    BY NewEntryType, Zenon DEF Init
  <2> QED
    BY <2>1, <2>2, <2>3, Zenon DEF RequestType
<1>5. KeysInv /\ FlowInv /\ RequestInv /\ CookieWhileOpen
    BY <1>1, <1>2, Zenon DEF KeysInv, FlowInv, RequestInv, RequestOK, CookieWhileOpen
<1>6. TOTPInv /\ GoneInv
    BY <1>1, <1>2, Zenon DEF TOTPInv, GoneInv, Reserved
<1>7. DecideInv
    BY <1>1, <1>2, Zenon DEF DecideInv, Finalized, SavedDecision
<1> QED
    BY <1>3, <1>4, <1>5, <1>6, <1>7, TypeParts, Zenon DEF ChallengeInv

\* Every step keeps the invariants.
LEMMA ChallengeNext ==
    ASSUME ChallengeInv, [Next]_vars
    PROVE  ChallengeInv'
<1>1. CASE CreateMFAChallenge
    BY <1>1, CreateKeeps, Zenon
<1>2. ASSUME NEW m \in LoginModes, UpdateMFAChallengeMode(m)
      PROVE  ChallengeInv'
    BY <1>2, UpdateKeeps, Zenon
<1>3. CASE CreateLoginChallenge
    BY <1>3, LoginChallengeKeeps, Zenon
<1>4. CASE Expire
    BY <1>4, ExpireKeeps, Zenon
<1>5. ASSUME NEW r \in Requests, RequestStep(r)
      PROVE  ChallengeInv'
  <2>1. ASSUME NEW h \in Handlers, NEW a \in Answers(h), GetMFAChallenge(r, h, a)
        PROVE  ChallengeInv'
    BY <2>1, GetKeeps, Zenon
  <2>2. ASSUME NEW h \in Handlers, NEW a \in Answers(h), GetMFAChallengeHash(r, h, a)
        PROVE  ChallengeInv'
    BY <2>2, GetHashKeeps, Zenon
  <2>3. ASSUME NEW w \in Words, DecideUnknownAction(r, w)
        PROVE  ChallengeInv'
    BY <2>3, UnknownKeeps, Zenon
  <2>4. CASE GetMFAChallengeState(r)
    BY <2>4, GetStateKeeps, Zenon
  <2>5. CASE SaveChallenge(r)
    BY <2>5, SaveKeeps, Zenon
  <2>6. CASE ReserveTOTPStepUse(r)
    BY <2>6, ReserveKeeps, Zenon
  <2>7. CASE DeleteMFAChallenge(r)
    BY <2>7, DeleteKeeps, Zenon
  <2>8. CASE CreateSession(r) \/ SaveSession(r)
    BY <2>8, SessionKeeps, Zenon
  <2>9. CASE RequestFails(r)
    BY <2>9, FailsKeeps, Zenon
  <2> QED
    BY <1>5, <2>1, <2>2, <2>3, <2>4, <2>5, <2>6, <2>7, <2>8, <2>9, Zenon DEF RequestStep
<1>6. CASE UNCHANGED vars
  <2>1. UNCHANGED <<login, hash, state, expired, cookie, usedSteps, pc, op, arg, entry, deleted,
                    sessionRows, sessionCache>>
    BY <1>6, Zenon DEF vars, redis
  <2>2. TypeOK' /\ KeysInv' /\ FlowInv' /\ RequestInv' /\ TOTPInv'
    BY <2>1, Zenon
    DEF ChallengeInv, TypeOK, KeysInv, Present, FlowInv, RequestInv, RequestOK, TOTPInv, Reserved
  <2>3. /\ (TornCopySaved' <=> TornCopySaved) /\ (Present' <=> Present)
        /\ \A x : SavedDecision(x)' <=> SavedDecision(x)
        /\ \A r \in Requests : Finalized(r)' <=> Finalized(r)
    BY <2>1, Zenon DEF TornCopySaved, Present, SavedDecision, Finalized
  <2>4. GoneInv' /\ CookieWhileOpen'
    BY <2>1, <2>3, Zenon DEF ChallengeInv, GoneInv, CookieWhileOpen
  <2>5. DecideInv'
    <3>1. ASSUME NEW x PROVE SavedDecision(x)' <=> SavedDecision(x)
      BY <2>3, Zenon
    <3> QED
      BY <2>1, <2>3 DEF ChallengeInv, DecideInv, SavedDecision
  <2> QED
    BY <2>2, <2>4, <2>5, Zenon DEF ChallengeInv
<1> QED
    BY <1>1, <1>2, <1>3, <1>4, <1>5, <1>6, Zenon DEF Next

\* The invariant holds throughout.
LEMMA ChallengeInvariant == Spec => []ChallengeInv
BY ChallengeInit, ChallengeNext, PTL DEF Spec

\* The fields derived from the state key alone are those of the hash.
LEMMA KeysAgree ==
    ASSUME ChallengeInv
    PROVE  StateMatchesHash
<1>1. CASE Present
  <2>1. /\ hash \in Fields /\ FieldsOK(hash) /\ Matches(hash, state.mask)
        /\ state.ver \in 1..VersionLimit
    BY <1>1, Zenon DEF ChallengeInv, KeysInv
  <2>2. state.mask \in SUBSET ChallengeBits
    BY TypeParts, Zenon DEF ChallengeInv, StoreType, States
  <2>3. PICK m \in SUBSET ChallengeBits : m = state.mask
    BY <2>2, Zenon
  <2>4. PICK f \in Fields : f = hash
    BY <2>1, Zenon
  <2>5. /\ "live" \in m /\ ~({"push", "passkey"} \subseteq m) /\ ~({"approved", "denied"} \subseteq m)
        /\ "push" \notin m => "approved" \notin m /\ "denied" \notin m
    BY <2>1, <2>3, <2>4, Zenon DEF Matches, FieldsOK
  <2>6. /\ MFAModeFromStateMask(m, Unset) = IF "push" \in m THEN "push"
                                            ELSE IF "passkey" \in m THEN "passkey" ELSE "totp"
        /\ MFAPushStatusFromStateMask(m, Unset) = IF "denied" \in m THEN "denied"
                                                  ELSE IF "approved" \in m THEN "approved"
                                                  ELSE NormalizeMFAPushStatus(Unset)
    BY <2>5, FieldsFromMask, Zenon
  <2>7. NormalizeMFAPushStatus(Unset) = "pending"
    BY ChallengeAssumption, Zenon DEF NormalizeMFAPushStatus
  <2>8. f.mode \in {"totp", "passkey", "push"} /\ f.push \in {"pending", "approved", "denied"}
    BY Zenon DEF Fields, Modes
  <2>9. Matches(f, m)
    BY <2>1, <2>3, <2>4, Zenon
  <2>10. /\ MFAModeFromStateMask(m, Unset) = f.mode
         /\ MFAPushStatusFromStateMask(m, Unset) = f.push
         /\ "bound" \in m <=> f.session # Unset
    BY <2>6, <2>7, <2>8, <2>9, Zenon DEF Matches
  <2> QED
    BY <1>1, <2>1, <2>3, <2>4, <2>10, Zenon DEF StateMatchesHash
<1>2. CASE ~Present
    BY <1>2, Zenon DEF ChallengeInv, KeysInv, StateMatchesHash
<1> QED
    BY <1>1, <1>2, Zenon

\* What a step does to the hash: a decision stays while the challenge does, and a
\* challenge that is gone comes back by a torn copy only.
LEMMA HashSteps ==
    ASSUME ChallengeInv, [Next]_vars
    PROVE  /\ Present /\ Present' /\ hash.push # "pending" => hash'.push = hash.push
           /\ login # "start" /\ ~Present /\ Present' => TornCopySaved'
<1> DEFINE Goal == /\ Present /\ Present' /\ hash.push # "pending" => hash'.push = hash.push
                   /\ login # "start" /\ ~Present /\ Present' => TornCopySaved'
<1>1. UNCHANGED hash => Goal
    BY Zenon DEF Present
<1>2. hash' = Absent => Goal
    BY Zenon DEF Present
<1>3. ASSUME CreateMFAChallenge \/ CreateLoginChallenge
      PROVE  Goal
  <2>1. login = "start" /\ ~Present
    BY <1>3, Zenon DEF CreateMFAChallenge, CreateLoginChallenge, ChallengeInv, FlowInv
  <2> QED
    BY <2>1, Zenon
<1>4. ASSUME NEW m \in LoginModes, UpdateMFAChallengeMode(m)
      PROVE  Goal
  <2>1. Present => hash.push = "pending"
    BY <1>4, Zenon DEF UpdateMFAChallengeMode, ChallengeInv, FlowInv
  <2>2. ~Present => UNCHANGED hash
    BY <1>4, Zenon DEF UpdateMFAChallengeMode
  <2> QED
    BY <1>1, <2>1, <2>2, Zenon
<1>5. ASSUME Expire PROVE Goal
    BY <1>2, <1>5, Zenon DEF Expire
<1>6. ASSUME NEW r \in Requests, SaveChallenge(r)
      PROVE  Goal
  <2>1. PICK stored \in BOOLEAN :
          /\ SaveMFAChallenge(entry[r], stored)
          /\ stored => Goto(r, "saved")
    BY <1>6, Zenon DEF SaveChallenge
  <2>2. StoreType /\ RequestType /\ KeysInv /\ pc[r] = "save" /\ UNCHANGED <<op, arg, entry>>
    BY <1>6, TypeParts, Zenon DEF ChallengeInv, SaveChallenge
  <2>3. FieldsOK(entry[r].fields) /\ entry[r] \in Entries /\ state \in States
    BY <2>2, Zenon DEF ChallengeInv, RequestInv, RequestOK, RequestType, StoreType
  <2>4. /\ ~stored => UNCHANGED <<hash, state>>
        /\ stored => /\ hash' = entry[r].fields
                     /\ ~Present => entry[r].ver = 0
                     /\ Present /\ hash.push # "pending" => entry[r].fields.push = hash.push
    BY <2>1, <2>2, <2>3, SaveEffect, Zenon
  <2>5. CASE stored
    <3>1. "saved" \in Steps
      BY Zenon DEF Steps
    <3>2. pc'[r] = "saved" /\ entry'[r] = entry[r]
      BY <2>1, <2>2, <2>5, <3>1, GotoEffect, Zenon
    <3>3. ~Present => TornCopySaved'
      BY <2>4, <2>5, <3>2, Zenon DEF TornCopySaved
    <3> QED
      BY <2>4, <2>5, <3>3, Zenon
  <2>6. CASE ~stored
    BY <1>1, <2>4, <2>6, Zenon
  <2> QED
    BY <2>5, <2>6, Zenon
<1>7. ASSUME NEW r \in Requests, DeleteMFAChallenge(r)
      PROVE  Goal
    BY <1>2, <1>7, Zenon DEF DeleteMFAChallenge
<1>8. ASSUME NEW r \in Requests, RequestStep(r), ~SaveChallenge(r), ~DeleteMFAChallenge(r)
      PROVE  Goal
  <2>1. UNCHANGED hash
    BY <1>8, Zenon DEF RequestStep, GetMFAChallenge, GetMFAChallengeHash, DecideUnknownAction,
        GetMFAChallengeState, ReserveTOTPStepUse, CreateSession, SaveSession, RequestFails, redis
  <2> QED
    BY <1>1, <2>1, Zenon
<1>9. ASSUME UNCHANGED vars PROVE Goal
    BY <1>1, <1>9, Zenon DEF vars, redis
<1> HIDE DEF Goal
<1>10. Goal
    BY <1>3, <1>4, <1>5, <1>6, <1>7, <1>8, <1>9, Zenon DEF Next
<1> QED
    BY <1>10, Zenon DEF Goal

\* The variables of a challenge always have their types: no path of the handlers
\* leaves a malformed copy, a decision out of range or a version past its limit.
THEOREM ChallengeTypeCorrect == Spec => []TypeOK
<1>1. ChallengeInv => TypeOK
    BY Zenon DEF ChallengeInv
<1> QED
    BY <1>1, ChallengeInvariant, PTL

\* The hash key and the packed state key of a challenge agree after every save,
\* update, delete and expiry, however the requests of any number of clients
\* interleave and however often the version wraps.
THEOREM KeysNeverDisagree == Spec => []StateMatchesHash
BY KeysAgree, ChallengeInvariant, PTL

\* save_mfa_challenge.lua keeps a stored decision: no interleaving of approvers,
\* passkey logins and finalizations rewrites it while the challenge exists.
THEOREM DecisionsAreFinal == Spec => DecisionIsFinal
<1>1. ChallengeInv /\ [Next]_vars =>
        [Present /\ Present' /\ hash.push # "pending" => hash'.push = hash.push]_vars
    BY HashSteps, Zenon
<1> QED
    BY <1>1, ChallengeInvariant, PTL DEF Spec, DecisionIsFinal

\* The version check keeps a consumed or expired challenge from coming back,
\* unless its state key was read as missing by a torn GetMFAChallenge.
THEOREM ConsumedIsGone == Spec => GoneForGood
<1>1. ChallengeInv /\ [Next]_vars =>
        [login # "start" /\ ~Present /\ Present' => TornCopySaved']_vars
    BY HashSteps, Zenon
<1> QED
    BY <1>1, ChallengeInvariant, PTL DEF Spec, GoneForGood

\* SET NX on the step key lets one of the requests that present the code of a
\* time step through to createSession, for any number of requests.
THEOREM StepBuysOneSession == Spec => []OneSessionPerTOTPStep
<1>1. ChallengeInv => OneSessionPerTOTPStep
  <2> SUFFICES ASSUME ChallengeInv, NEW r \in sessionRows, NEW s \in sessionRows,
                      op[r] = "totp", op[s] = "totp", arg[r] = arg[s]
               PROVE  r = s
    BY Zenon DEF OneSessionPerTOTPStep
  <2>1. r \in Requests /\ s \in Requests
    BY TypeParts, Zenon DEF ChallengeInv, StoreType
  <2>2. Reserved(r) /\ Reserved(s)
    BY Zenon DEF Reserved
  <2> QED
    BY <2>1, <2>2, Zenon DEF ChallengeInv, TOTPInv
<1> QED
    BY <1>1, ChallengeInvariant, PTL

\* FinalizeMFAPush follows the approver: a session it inserted had an approval
\* that was saved, and nobody's rejection was saved beside it.
THEOREM PushSessionsApproved == Spec => []PushSessionWasApproved
<1>1. ChallengeInv => PushSessionWasApproved
  <2> SUFFICES ASSUME ChallengeInv, ~TornCopySaved, NEW r \in sessionRows, op[r] = "finalize"
               PROVE  SavedDecision("approved") /\ ~SavedDecision("denied")
    BY Zenon DEF PushSessionWasApproved, SavedDecision
  <2>1. r \in Requests /\ Finalized(r)
    BY TypeParts, Zenon DEF ChallengeInv, StoreType, Finalized
  <2>2. SavedDecision("approved")
    BY <2>1, Zenon DEF ChallengeInv, DecideInv
  <2>3. "approved" \in Decisions /\ "denied" \in Decisions
    BY Zenon DEF Decisions
  <2> QED
    BY <2>2, <2>3, Zenon DEF ChallengeInv, DecideInv
<1> QED
    BY <1>1, ChallengeInvariant, PTL

\* The browser of an open login keeps its cookie through every answer the pages
\* can give, with the exceptions CookieWhileOpen names.
THEOREM OpenLoginsKeepCookie == Spec => []CookieWhileOpen
<1>1. ChallengeInv => CookieWhileOpen
    BY Zenon DEF ChallengeInv
<1> QED
    BY <1>1, ChallengeInvariant, PTL

-----------------------------------------------------------------------------
(* The trip of an entry through Redis. *)

\* The conversions are given masks, and a session behaviour has no MFA mode.
TripInv ==
    /\ mask \in SUBSET ChallengeBits /\ smask \in SUBSET SessionBits
    /\ part = "session" => mode = Unset

\* One trip of a challenge entry: the mode, any string, survives it, and so does
\* the push status of push mode.
LEMMA EntryTrip ==
    ASSUME NEW m \in SUBSET ChallengeBits, NEW md, NEW ps, NEW session
    PROVE  LET n == NormalizeMFAChallengeStateMask(m, md, ps, session)
           IN  /\ n \in SUBSET ChallengeBits /\ WellFormed(n)
               /\ NormalizeMFAMode(MFAModeFromStateMask(n, md)) = NormalizeMFAMode(md)
               /\ MFAModeFromStateMask(n, md) = "push" =>
                    MFAPushStatusFromStateMask(n, ps) = NormalizeMFAPushStatus(ps)
<1> DEFINE n == NormalizeMFAChallengeStateMask(m, md, ps, session)
<1>1. /\ n \in SUBSET ChallengeBits /\ "live" \in n
      /\ "push" \in n <=> md = "push"
      /\ "passkey" \in n <=> md = "passkey"
      /\ "approved" \in n <=> md = "push" /\ ps = "approved"
      /\ "denied" \in n <=> md = "push" /\ ps = "denied"
    BY NormalizedBits, Zenon
<1> HIDE DEF n
<1>2. /\ ~({"push", "passkey"} \subseteq n) /\ ~({"approved", "denied"} \subseteq n)
      /\ "push" \notin n => "approved" \notin n /\ "denied" \notin n
    BY <1>1, Zenon
<1>3. WellFormed(n)
    BY <1>1, <1>2, Zenon DEF WellFormed, Decision
<1>4. MFAModeFromStateMask(n, md) = IF "push" \in n THEN "push"
                                    ELSE IF "passkey" \in n THEN "passkey"
                                    ELSE IF md = Unset THEN "totp" ELSE md
    BY <1>1, <1>2, FieldsFromMask, Zenon
<1>5. MFAPushStatusFromStateMask(n, ps) = IF "denied" \in n THEN "denied"
                                          ELSE IF "approved" \in n THEN "approved"
                                          ELSE NormalizeMFAPushStatus(ps)
    BY <1>1, <1>2, FieldsFromMask, Zenon
<1>6. Unset \notin {"push", "passkey"}
    BY ChallengeAssumption, Zenon
<1>7. NormalizeMFAMode(MFAModeFromStateMask(n, md)) = NormalizeMFAMode(md)
    BY <1>1, <1>4, <1>6, Zenon DEF NormalizeMFAMode
<1>8. MFAModeFromStateMask(n, md) = "push" =>
        MFAPushStatusFromStateMask(n, ps) = NormalizeMFAPushStatus(ps)
    BY <1>1, <1>4, <1>5, Zenon DEF NormalizeMFAPushStatus
<1> QED
    BY <1>1, <1>3, <1>7, <1>8, Zenon DEF n

\* One trip of a session entry: both readers say the same of it.
LEMMA SessionTrip ==
    ASSUME NEW m \in SUBSET SessionBits, NEW status
    PROVE  /\ NormalizeSessionStateMask(m, status) \in SUBSET SessionBits
           /\ IsSessionStateActive(NormalizeSessionStateMask(m, status)) <=>
                SessionStatusFromMask(m, status) = "active"
<1> DEFINE n == NormalizeSessionStateMask(m, status)
<1>1. n \in SUBSET SessionBits /\ n # {}
    BY Zenon DEF NormalizeSessionStateMask, SessionBits
<1>2. SessionStatusFromMask(m, status) = IF "logged_out" \in n THEN "logged_out"
                                         ELSE IF "locked" \in n THEN "locked" ELSE "active"
    BY Zenon DEF SessionStatusFromMask
<1> HIDE DEF n
<1>3. "active" \in n \/ "locked" \in n \/ "logged_out" \in n
    BY <1>1, Zenon DEF SessionBits
<1>4. IsSessionStateActive(n) <=> SessionStatusFromMask(m, status) = "active"
    BY <1>2, <1>3, Zenon DEF IsSessionStateActive
<1> QED
    BY <1>1, <1>4, Zenon DEF n

\* A save followed by a read gives the handlers back what they saved: the masks
\* NormalizeMFAChallengeStateMask builds pass the checks of the script, and the
\* mode, the decision and the activity of a session come through, whatever mask
\* and whatever status strings they started from.
THEOREM TripsKeepState == MCSpec => TripKeepsState
<1> DEFINE Trip == saves' # saves =>
             /\ WellFormed(Stored)
             /\ NormalizeMFAMode(mode') = NormalizeMFAMode(mode)
             /\ mode' = "push" => push' = NormalizeMFAPushStatus(push)
             /\ part = "session" =>
                    (IsSessionStateActive(smask') <=> SessionStatusFromMask(smask, sstatus) = "active")
<1>1. MCInit => TripInv
    BY Zenon DEF MCInit, TripInv
<1>2. ASSUME TripInv, SaveAndGet
      PROVE  TripInv' /\ Trip
  <2>1. PICK m \in SUBSET ChallengeBits : m = mask
    BY <1>2, Zenon DEF TripInv
  <2>2. PICK md, ps, b, n : /\ md = mode /\ ps = push /\ b = bound
                            /\ n = NormalizeMFAChallengeStateMask(m, md, ps, b)
    BY Zenon
  <2>3. /\ n \in SUBSET ChallengeBits /\ WellFormed(n)
        /\ NormalizeMFAMode(MFAModeFromStateMask(n, md)) = NormalizeMFAMode(md)
        /\ MFAModeFromStateMask(n, md) = "push" =>
             MFAPushStatusFromStateMask(n, ps) = NormalizeMFAPushStatus(ps)
    BY <2>2, EntryTrip
  <2>4. Stored = n
    BY <2>1, <2>2, Zenon DEF Stored
  <2>5. /\ part = "entry" /\ part' = part /\ smask' = smask
        /\ mode' = MFAModeFromStateMask(n, md)
        /\ push' = MFAPushStatusFromStateMask(n, ps)
        /\ mask' = NormalizeMFAChallengeStateMask(n, mode', push', bound)
    BY <1>2, <2>2, <2>4, Zenon DEF SaveAndGet, sessionVars
  <2>6. PICK md2, ps2, b2 : md2 = mode' /\ ps2 = push' /\ b2 = bound
    BY Zenon
  <2>7. mask' \in SUBSET ChallengeBits
    BY <2>3, <2>5, <2>6, NormalizedBits, Zenon
  <2> QED
    BY <1>2, <2>2, <2>3, <2>4, <2>5, <2>7, Zenon DEF TripInv
<1>3. ASSUME TripInv, SaveAndGetSession
      PROVE  TripInv' /\ Trip
  <2>1. PICK m \in SUBSET ChallengeBits, s \in SUBSET SessionBits : m = mask /\ s = smask
    BY <1>3, Zenon DEF TripInv
  <2>2. PICK md, ps, b, status : md = mode /\ ps = push /\ b = bound /\ status = sstatus
    BY Zenon
  <2>3. WellFormed(Stored)
    BY <2>1, <2>2, EntryTrip, Zenon DEF Stored
  <2>4. /\ part = "session" /\ UNCHANGED <<part, mask, mode, push, bound>>
        /\ smask' = NormalizeSessionStateMask(s, status)
    BY <1>3, <2>1, <2>2, Zenon DEF SaveAndGetSession, entryVars
  <2>5. /\ smask' \in SUBSET SessionBits
        /\ IsSessionStateActive(smask') <=> SessionStatusFromMask(s, status) = "active"
    BY <2>4, SessionTrip, Zenon
  <2>6. mode = Unset /\ Unset # "push"
    BY <1>3, <2>4, ChallengeAssumption, Zenon DEF TripInv
  <2> QED
    BY <1>3, <2>1, <2>2, <2>3, <2>4, <2>5, <2>6, Zenon DEF TripInv
<1>4. ASSUME TripInv, UNCHANGED <<part, entryVars, sessionVars, saves>>
      PROVE  TripInv' /\ Trip
    BY <1>4, Zenon DEF TripInv, entryVars, sessionVars
<1>5. TripInv /\ [MCNext]_mcVars => TripInv' /\ [Trip]_mcVars
  <2> HIDE DEF Trip
  <2> QED
    BY <1>2, <1>3, <1>4, Zenon DEF MCNext, mcVars
<1>6. MCSpec => [][Trip]_mcVars
  <2> HIDE DEF Trip
  <2> QED
    BY <1>1, <1>5, PTL DEF MCSpec
<1> QED
    BY <1>6, Zenon DEF TripKeepsState
=============================================================================
