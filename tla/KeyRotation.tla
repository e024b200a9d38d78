----------------------------- MODULE KeyRotation -----------------------------
(***************************************************************************)
(* Signing-key rotation on several server nodes: the jwk_keys table, the   *)
(* private-key files in shared storage, each node's in-memory KeyManager,  *)
(* its rotation loop, its Redis subscription and the administrator's       *)
(* "rotate now" (infrastructure/crypto, jwk_key_repo.go).                  *)
(*                                                                         *)
(* A kid is the second in which its rotation was decided; the key itself   *)
(* is named by the node that generated it.  Every node runs up to three    *)
(* tasks at once, each with one step per round trip.                       *)
(***************************************************************************)
EXTENDS Integers, FiniteSets

CONSTANTS
    Nodes,
    Seed,           \* maker of the key the table starts with
    SeedRotates,    \* its rotates_at; Never when NULL
    Lifetime,       \* time from a key's creation to its rotates_at
    RotateBefore, RetireAfter, \* cfg.RotateBefore, cfg.RetireAfter
    RotateTimeout,  \* longest time from the decision to rotate to the commit
    MaxStale,       \* age of a node's key set up to which the node is judged
    TokenTTL,       \* lifetime of the tokens the nodes sign
    MaxTime, MaxForced, MaxFaults   \* bounds: clock, manual rotations, failures

\* NULL in a time column: later than any time that is computed.
Never == MaxTime + Lifetime + RotateBefore + RetireAfter + 1

ASSUME RotationAssumption ==
    /\ Seed \notin Nodes
    /\ SeedRotates \in Int
    /\ {Lifetime, RotateBefore, RetireAfter, RotateTimeout, MaxStale, TokenTTL} \subseteq Nat
    /\ {MaxTime, MaxForced, MaxFaults} \subseteq Nat
    /\ RetireAfter >= MaxStale + RotateTimeout + TokenTTL

VARIABLES
    now,
    keys,           \* jwk_keys, by kid
    file,           \* private-key files, by kid: whose key they hold
    view,           \* KeyManager of each node, and when its rows were read
    notified,       \* nodes whose debounce timer is running
    pc, since,      \* tasks: next step, time of the decision to rotate
    rotated,        \* tasks: whether this round created a key
    loaded,         \* tasks: key set read and not yet installed
    forced, faults  \* manual rotations and failures so far

task == <<pc, since, rotated, loaded>>
vars == <<now, keys, file, view, notified, task, forced, faults>>

-----------------------------------------------------------------------------

Kid == -1..MaxTime

Makers == Nodes \cup {Seed}

None == "none"

Tasks == Nodes \X {"loop", "sub", "admin"}

Key == [status: {"none", "active", "retired"}, rotates: Int, until: Int,
        maker: Makers \cup {None}]

NoKey == [status |-> "none", rotates |-> Never, until |-> Never, maker |-> None]

KeySet == [active: Kid, maker: [Kid -> Makers \cup {None}], at: 0..MaxTime]

Empty == [active |-> -1, maker |-> [k \in Kid |-> None], at |-> 0]

TypeOK ==
    /\ now \in 0..MaxTime
    /\ keys \in [Kid -> Key]
    /\ file \in [Kid -> Makers \cup {None}]
    /\ view \in [Nodes -> KeySet]
    /\ notified \subseteq Nodes
    /\ pc \in [Tasks -> {"idle", "write", "commit", "load", "replace", "publish"}]
    /\ since \in [Tasks -> 0..MaxTime]
    /\ rotated \in [Tasks -> BOOLEAN]
    /\ loaded \in [Tasks -> KeySet]
    /\ forced \in 0..MaxForced
    /\ faults \in 0..MaxFaults

\* findActiveKey.
ActiveKid == CHOOSE k \in Kid : keys[k].status = "active"

\* ListCurrent: the rows that are not past deactivated_at.
Current(k) == keys[k].status = "active" \/ (keys[k].status = "retired" /\ keys[k].until > now)

\* LoadKeyManagerFromRepository: AddRSAPublicKey with the row's JWK, then
\* AddRSAKey, which replaces the public key by the one of the private-key file.
LoadKeySet ==
    [active |-> ActiveKid,
     maker  |-> [k \in Kid |-> IF ~Current(k) THEN None
                               ELSE IF file[k] # None THEN file[k] ELSE keys[k].maker],
     at     |-> now]

Init ==
    /\ now = 0
    /\ keys = [k \in Kid |-> IF k = -1 THEN [status |-> "active", rotates |-> SeedRotates,
                                              until |-> Never, maker |-> Seed]
                                        ELSE NoKey]
    /\ file = [k \in Kid |-> IF k = -1 THEN Seed ELSE None]
    /\ view = [n \in Nodes |-> LoadKeySet]
    /\ notified = {}
    /\ pc = [g \in Tasks |-> "idle"]
    /\ since = [g \in Tasks |-> 0]
    /\ rotated = [g \in Tasks |-> FALSE]
    /\ loaded = [g \in Tasks |-> Empty]
    /\ forced = 0 /\ faults = 0

Tick ==
    /\ now < MaxTime
    /\ now' = now + 1
    /\ UNCHANGED <<keys, file, view, notified, task, forced, faults>>

Goto(g, step) == pc' = [pc EXCEPT ![g] = step]

\* The end of a round.
Rest(g) ==
    /\ Goto(g, "idle")
    /\ since' = [since EXCEPT ![g] = 0]
    /\ rotated' = [rotated EXCEPT ![g] = FALSE]
    /\ loaded' = [loaded EXCEPT ![g] = Empty]

-----------------------------------------------------------------------------
(* rotateKey. *)

\* A key without a planned rotation is kept for ever.
Due(k) == keys[k].rotates # Never /\ keys[k].rotates <= now + RotateBefore

\* Mutant: a node that does not rotate does not reload either.
RotateOrSleep(n) ==
    LET g == <<n, "loop">>
    IN  /\ pc[g] = "idle"
        /\ Due(ActiveKid) /\ Goto(g, "write")
        /\ since' = [since EXCEPT ![g] = now]
        /\ UNCHANGED <<now, keys, file, view, notified, rotated, loaded, forced, faults>>

\* One round of the rotation loop: ensureRotation's decision.
EnsureRotation(n) ==
    LET g == <<n, "loop">>
    IN  /\ pc[g] = "idle"
        /\ IF Due(ActiveKid)
           THEN Goto(g, "write") /\ since' = [since EXCEPT ![g] = now]
           ELSE Goto(g, "load") /\ UNCHANGED since
        /\ UNCHANGED <<now, keys, file, view, notified, rotated, loaded, forced, faults>>

\* RotateSigningKeyNow rotates whatever the plan says.
RotateSigningKeyNow(n) ==
    LET g == <<n, "admin">>
    IN  /\ pc[g] = "idle" /\ forced < MaxForced
        /\ forced' = forced + 1
        /\ Goto(g, "write")
        /\ since' = [since EXCEPT ![g] = now]
        /\ UNCHANGED <<now, keys, file, view, notified, rotated, loaded, faults>>

\* writePrivateKey overwrites a file of the same kid.
WritePrivateKey(g) ==
    /\ pc[g] = "write"
    /\ file' = [file EXCEPT ![since[g]] = g[1]]
    /\ Goto(g, "commit")
    /\ UNCHANGED <<now, keys, view, notified, since, rotated, loaded, forced, faults>>

\* Mutant: the replaced key is withdrawn at once.
RetireAtOnce(row, t) == [row EXCEPT !.status = "retired", !.until = t]

\* The UPDATE of the active row.
Retire(row, t) ==
    [row EXCEPT !.status = "retired",
                !.until = IF row.until > t + RetireAfter THEN t + RetireAfter ELSE row.until]

\* The table after UPDATE and INSERT.
UpdateAndInsert(g) ==
    [k \in Kid |->
        IF k = since[g] THEN [status |-> "active", rotates |-> k + Lifetime,
                              until |-> Never, maker |-> g[1]]
        ELSE IF keys[k].status = "active" THEN Retire(keys[k], since[g])
        ELSE keys[k]]

\* Mutant: a transaction that ignores its context's deadline.
CreateActiveKeyLate(g) ==
    /\ pc[g] = "commit" /\ keys[since[g]].status = "none"
    /\ keys' = UpdateAndInsert(g)
    /\ rotated' = [rotated EXCEPT ![g] = TRUE]
    /\ since' = [since EXCEPT ![g] = 0]
    /\ Goto(g, "load")
    /\ UNCHANGED <<now, file, view, notified, loaded, forced, faults>>

\* CreateActiveKey: one transaction, refused by the unique index on kid.
CreateActiveKey(g) ==
    /\ pc[g] = "commit" /\ now <= since[g] + RotateTimeout
    /\ IF keys[since[g]].status = "none"
       THEN /\ keys' = UpdateAndInsert(g)
            /\ rotated' = [rotated EXCEPT ![g] = TRUE]
            /\ since' = [since EXCEPT ![g] = 0]
            /\ Goto(g, "load") /\ UNCHANGED loaded
       ELSE Rest(g) /\ UNCHANGED keys
    /\ UNCHANGED <<now, file, view, notified, forced, faults>>

-----------------------------------------------------------------------------
(* Reloading, and telling the other nodes. *)

Load(g) ==
    /\ pc[g] = "load"
    /\ loaded' = [loaded EXCEPT ![g] = LoadKeySet]
    /\ Goto(g, "replace")
    /\ UNCHANGED <<now, keys, file, view, notified, since, rotated, forced, faults>>

\* ReplaceWith, under the manager's lock, whatever was installed meanwhile.
ReplaceWith(g) ==
    /\ pc[g] = "replace"
    /\ view' = [view EXCEPT ![g[1]] = loaded[g]]
    /\ IF rotated[g]
       THEN /\ Goto(g, "publish") /\ loaded' = [loaded EXCEPT ![g] = Empty]
            /\ UNCHANGED <<since, rotated>>
       ELSE Rest(g)
    /\ UNCHANGED <<now, keys, file, notified, forced, faults>>

\* Publish reaches the nodes whose subscription is connected; errors are dropped.
Publish(g) ==
    /\ pc[g] = "publish"
    /\ \E reached \in SUBSET Nodes : notified' = notified \cup reached
    /\ Rest(g)
    /\ UNCHANGED <<now, keys, file, view, forced, faults>>

\* Subscribe: the debounce timer fires.
ReloadOnBroadcast(n) ==
    /\ n \in notified /\ pc[<<n, "sub">>] = "idle"
    /\ notified' = notified \ {n}
    /\ Goto(<<n, "sub">>, "load")
    /\ UNCHANGED <<now, keys, file, view, since, rotated, loaded, forced, faults>>

\* A failed or timed-out step ends the round.
RoundFails(g) ==
    /\ pc[g] \in {"write", "commit", "load"}
    /\ \/ faults < MaxFaults /\ faults' = faults + 1
       \/ pc[g] = "commit" /\ now > since[g] + RotateTimeout /\ UNCHANGED faults
    /\ Rest(g)
    /\ UNCHANGED <<now, keys, file, view, notified, forced>>

-----------------------------------------------------------------------------

TaskStep(g) ==
    \/ WritePrivateKey(g) \/ CreateActiveKey(g) \/ Load(g) \/ ReplaceWith(g)
    \/ Publish(g) \/ RoundFails(g)

NodeStep(n) ==
    \/ EnsureRotation(n) \/ RotateSigningKeyNow(n) \/ ReloadOnBroadcast(n)
    \/ \E kind \in {"loop", "sub", "admin"} : TaskStep(<<n, kind>>)

Next == Tick \/ \E n \in Nodes : NodeStep(n)

Spec == Init /\ [][Next]_vars

\* The ticker keeps the loop going, and no task of a running node stops
\* between two steps.
FairSpec ==
    /\ Spec
    /\ \A n \in Nodes : WF_vars(EnsureRotation(n))
    /\ \A g \in Tasks : WF_vars(TaskStep(g))

-----------------------------------------------------------------------------
(* Properties. *)

\* findActiveKey relies on it: the table has one active key at any time.
OneActiveKey == \E k \in Kid : \A j \in Kid : keys[j].status = "active" <=> j = k

\* A token never outlives its key.  A node whose key set is at most MaxStale
\* old, even one that a slow reload put back over a newer one, signs with a
\* key that stays in the table, hence in every reloaded key set, until the
\* token expires.
TokensOutliveRotation ==
    \A n \in Nodes : now <= view[n].at + MaxStale =>
        LET key == keys[view[n].active]
        IN  key.status = "active" \/ (key.status = "retired" /\ key.until >= now + TokenTTL)

\* With or without broadcasts, once rotations cease every node ends up signing
\* with the table's active key and stays there.
EventuallyInSync == <>[](\A n \in Nodes : view[n].active = ActiveKid)

\* The inductive invariant behind TokensOutliveRotation.  A key set, installed
\* or about to be, was read in the past, and its signing key is active or was
\* retired by a rotation that committed after the read.
SetInv(S) ==
    LET key == keys[S.active]
    IN  /\ S.at <= now
        /\ \/ key.status = "active"
           \/ key.status = "retired" /\ key.until >= S.at - RotateTimeout + RetireAfter

KeyInv ==
    /\ TypeOK
    /\ OneActiveKey
    /\ \A k \in Kid : keys[k].status = "active" => keys[k].until = Never
    /\ \A g \in Tasks : since[g] <= now
    /\ \A n \in Nodes : SetInv(view[n])
    /\ \A g \in Tasks : pc[g] = "replace" => SetInv(loaded[g])

\* What the design article says of the standby phase: no node signs with a key
\* before every node publishes it.
PublishedBeforeUse == \A n, m \in Nodes : view[m].maker[view[n].active] # None

\* What the design article says of rotation under a distributed lock: the loop
\* replaces only a key that is due, so a due key is replaced once.
ReplacedKeyWasDue ==
    [][\A n \in Nodes : pc[<<n, "loop">>] = "commit" /\ pc'[<<n, "loop">>] = "load"
                        => Due(ActiveKid)]_vars

\* What buildPublicJWKJSON's comment says: the key set publishes the public
\* keys that the rows hold.
JWKSMatchesRows ==
    \A n \in Nodes, k \in Kid :
        view[n].maker[k] # None => view[n].maker[k] = keys[k].maker
=============================================================================
