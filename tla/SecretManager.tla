---------------------------- MODULE SecretManager ----------------------------
(***************************************************************************)
(* Secret Manager (services/secretmanager): secrets, their numbered        *)
(* versions and the "latest" alias, over the metadata store.  A call that  *)
(* holds Service.mu makes several store calls, each of them a step here;   *)
(* UpdateSecret, reads and a reset of the store do not take the lock and   *)
(* run between them.  The bytes of a version are the number of the add     *)
(* that stored them, so no two adds store the same bytes.                  *)
(***************************************************************************)
EXTENDS Integers, Sequences, FiniteSets, SequencesExt

CONSTANTS Secrets,      \* secret names
          Callers,      \* concurrent requests
          SecretVerbs,  \* the requests callers make
          MaxAdds,      \* bound on AddSecretVersion requests
          MaxLives,     \* bound on CreateSecret requests that succeed
          MaxUpdates,   \* bound on UpdateSecret requests
          Nobody        \* no caller

VARIABLES secret,    \* secret[s]: store version of sm/s/s, 0 when absent, its life, and the life its content names
          versions,  \* versions[s]: number -> stored version, the keys sm/v/s/...
          mu,        \* the caller that holds Service.mu
          call,      \* call[c]: what a request has still to do
          lives,     \* secrets ever created
          home,      \* ghost: home[b], the life of the secret bytes b were added to and their number
          updates,   \* UpdateSecret requests begun
          emptied    \* ghost: the store has been reset under the requests

vars == <<secret, versions, mu, call, lives, home, updates, emptied>>

NoSecret == [version |-> 0]
Idle == [at |-> "idle"]
NoVersions == << >>

Init ==
    /\ secret = [s \in Secrets |-> NoSecret]
    /\ versions = [s \in Secrets |-> NoVersions]
    /\ mu = Nobody /\ call = [c \in Callers |-> Idle]
    /\ lives = 0 /\ home = << >> /\ updates = 0 /\ emptied = FALSE

Exists(s) == secret[s].version # 0

\* What List returns for a secret's prefix: its version numbers in key order.
\* A zero-padded number sorts as the number does.
Numbers(s) == SetToSortSeq(DOMAIN versions[s], <)

Without(f, n) == [m \in DOMAIN f \ {n} |-> f[m]]
With(f, n, v) == [m \in DOMAIN f \cup {n} |-> IF m = n THEN v ELSE f[m]]

Accepts(c, verb) == verb \in SecretVerbs /\ call[c].at = "idle"
Takes(c) == mu = Nobody /\ mu' = c
Goes(c, next) == call' = [call EXCEPT ![c] = next]
Returns(c) == Goes(c, Idle) /\ mu' = Nobody

-----------------------------------------------------------------------------
LatestAlias == 0

EnabledIn(s) == {n \in DOMAIN versions[s] : versions[s][n].state = "ENABLED"}

\* The newest version that is still enabled, if there is one.
latest(s) == {n \in EnabledIn(s) : \A m \in EnabledIn(s) : m <= n}

\* The version a name means, if there is one.
resolve(s, name) == IF name = LatestAlias THEN latest(s) ELSE {name} \cap DOMAIN versions[s]

\* What an access returns, in one store call and without the lock: a version
\* that is not enabled is refused.
AccessSecretVersion(s, name) ==
    {versions[s][n].bytes : n \in {m \in resolve(s, name) : versions[s][m].state = "ENABLED"}}

Names(s) == {LatestAlias} \cup DOMAIN versions[s]

-----------------------------------------------------------------------------
\* One store call under the lock: Put at version 0.
CreateSecret(c, s) ==
    /\ Accepts(c, "create") /\ mu = Nobody
    /\ ~Exists(s) /\ lives < MaxLives
    /\ lives' = lives + 1
    /\ secret' = [secret EXCEPT ![s] = [version |-> 1, life |-> lives + 1, content |-> lives + 1]]
    /\ UNCHANGED <<versions, mu, call, home, updates, emptied>>

\* DeleteSecret reads the secret under the lock ...
DeleteSecret(c, s) ==
    /\ Accepts(c, "delete") /\ Exists(s) /\ Takes(c)
    /\ Goes(c, [at |-> "list", s |-> s])
    /\ UNCHANGED <<secret, versions, lives, home, updates, emptied>>

\* ... lists its versions ...
DeleteList(c) ==
    /\ call[c].at = "list"
    /\ Goes(c, [at |-> "drop", s |-> call[c].s, todo |-> Numbers(call[c].s)])
    /\ UNCHANGED <<secret, versions, mu, lives, home, updates, emptied>>

\* Mutant: the parent first, the versions afterwards and without the lock.
DeleteVersionLate(c) ==
    LET s == call[c].s IN
    /\ call[c].at = "drop" /\ call[c].todo # << >>
    /\ secret' = [secret EXCEPT ![s] = NoSecret]
    /\ Goes(c, [call[c] EXCEPT !.todo = Tail(@)])
    /\ mu' = Nobody
    /\ UNCHANGED <<versions, lives, home, updates, emptied>>

\* ... deletes them one by one, giving up on the first that is gone ...
DeleteVersion(c) ==
    LET s == call[c].s  n == Head(call[c].todo) IN
    /\ call[c].at = "drop" /\ call[c].todo # << >>
    /\ IF n \in DOMAIN versions[s]
       THEN /\ versions' = [versions EXCEPT ![s] = Without(@, n)]
            /\ Goes(c, [call[c] EXCEPT !.todo = Tail(@)]) /\ UNCHANGED mu
       ELSE Returns(c) /\ UNCHANGED versions
    /\ UNCHANGED <<secret, lives, home, updates, emptied>>

\* ... and the secret last.
DeleteParent(c) ==
    /\ call[c].at = "drop" /\ call[c].todo = << >>
    /\ secret' = [secret EXCEPT ![call[c].s] = NoSecret]
    /\ Returns(c)
    /\ UNCHANGED <<versions, lives, home, updates, emptied>>

-----------------------------------------------------------------------------
\* AddSecretVersion checks that the secret is there, under the lock ...
AddSecretVersion(c, s) ==
    /\ Accepts(c, "add") /\ Exists(s) /\ Takes(c)
    /\ Len(home) < MaxAdds
    /\ home' = Append(home, [life |-> secret[s].life, n |-> 0])
    /\ Goes(c, [at |-> "number", s |-> s, bytes |-> Len(home) + 1])
    /\ UNCHANGED <<secret, versions, lives, updates, emptied>>

\* One past the last key of the listing.
nextVersion(s) == IF DOMAIN versions[s] = {} THEN 1 ELSE Last(Numbers(s)) + 1

\* ... picks the next number ...
AddNumber(c) ==
    /\ call[c].at = "number"
    /\ Goes(c, [at |-> "put", s |-> call[c].s, bytes |-> call[c].bytes, n |-> nextVersion(call[c].s)])
    /\ UNCHANGED <<secret, versions, mu, lives, home, updates, emptied>>

\* ... and putVersion stores the bytes under it, unless the key is taken.
putVersion(c) ==
    LET s == call[c].s  n == call[c].n  b == call[c].bytes IN
    /\ call[c].at = "put"
    /\ IF n \in DOMAIN versions[s] THEN UNCHANGED <<versions, home>>
       ELSE /\ versions' = [versions EXCEPT ![s] = With(@, n, [state |-> "ENABLED", bytes |-> b])]
            /\ home' = [home EXCEPT ![b].n = n]
    /\ Returns(c)
    /\ UNCHANGED <<secret, lives, updates, emptied>>

-----------------------------------------------------------------------------
\* The verbs posted to a version and the state each one asks for.
versionVerb == [disable |-> "DISABLED", enable |-> "ENABLED", destroy |-> "DESTROYED"]

\* Destroying drops the bytes.
Restated(v, want) ==
    [v EXCEPT !.state = want, !.bytes = IF want = "DESTROYED" THEN 0 ELSE @]

\* setState resolves the version under the lock; a destroyed one is refused ...
setState(c, s, name, verb) ==
    /\ Accepts(c, verb) /\ Takes(c)
    /\ \E n \in resolve(s, name) :
          /\ versions[s][n].state # "DESTROYED"
          /\ Goes(c, [at |-> "restate", s |-> s, n |-> n, new |-> Restated(versions[s][n], versionVerb[verb])])
    /\ UNCHANGED <<secret, versions, lives, home, updates, emptied>>

\* ... and replaceVersion overwrites it.  Nothing else writes versions while the
\* lock is held, so the store's version it reads and requires differs only when
\* a reset has removed the key.
replaceVersion(c) ==
    LET s == call[c].s  n == call[c].n IN
    /\ call[c].at = "restate"
    /\ versions' = IF n \in DOMAIN versions[s] THEN [versions EXCEPT ![s][n] = call[c].new] ELSE versions
    /\ Returns(c)
    /\ UNCHANGED <<secret, lives, home, updates, emptied>>

-----------------------------------------------------------------------------
\* UpdateSecret reads the secret without the lock ...
UpdateSecret(c, s) ==
    /\ Accepts(c, "update") /\ Exists(s) /\ updates < MaxUpdates
    /\ updates' = updates + 1
    /\ Goes(c, [at |-> "update", s |-> s, read |-> secret[s]])
    /\ UNCHANGED <<secret, versions, mu, lives, home, emptied>>

\* ... and writes what it read, with the masked fields replaced, at the version
\* it read.
UpdatePut(c) ==
    LET s == call[c].s  read == call[c].read IN
    /\ call[c].at = "update"
    /\ secret' =
         IF secret[s].version = read.version
         THEN [secret EXCEPT ![s].version = @ + 1, ![s].content = read.content] ELSE secret
    /\ Goes(c, Idle)
    /\ UNCHANGED <<versions, mu, lives, home, updates, emptied>>

\* A reset of the whole emulator empties the store, whoever holds the lock.
Reset ==
    /\ "reset" \in SecretVerbs /\ \E s \in Secrets : Exists(s)
    /\ secret' = [s \in Secrets |-> NoSecret]
    /\ versions' = [s \in Secrets |-> NoVersions]
    /\ emptied' = TRUE
    /\ UNCHANGED <<mu, call, lives, home, updates>>

Next ==
    \/ \E c \in Callers :
          \/ \E s \in Secrets :
                \/ CreateSecret(c, s) \/ DeleteSecret(c, s) \/ AddSecretVersion(c, s) \/ UpdateSecret(c, s)
                \/ \E name \in Names(s), verb \in DOMAIN versionVerb : setState(c, s, name, verb)
          \/ DeleteList(c) \/ DeleteVersion(c) \/ DeleteParent(c)
          \/ AddNumber(c) \/ putVersion(c) \/ replaceVersion(c)
          \/ UpdatePut(c)
    \/ Reset

Spec == Init /\ [][Next]_vars

-----------------------------------------------------------------------------
States == {"ENABLED", "DISABLED", "DESTROYED"}

\* The shapes of the stored records, and the lock's holder is inside a call.
TypeOK ==
    /\ \A s \in Secrets :
          /\ Exists(s) => secret[s].life \in 1..lives
          /\ \A n \in DOMAIN versions[s] :
                n \in 1..MaxAdds /\ versions[s][n].state \in States /\ versions[s][n].bytes \in 0..Len(home)
    /\ mu # Nobody => call[mu].at \notin {"idle", "update"}

\* "a reference to a version always means the same bytes", in the life of one
\* secret: versions are stored under a secret that exists, an access returns
\* bytes that were added to that secret since it was created and under that
\* number, and no two adds to it got the same number.  In particular a secret
\* created again adopts nothing from the one deleted.
BytesBelong ==
    /\ \A s \in Secrets :
          /\ DOMAIN versions[s] # {} => Exists(s)
          /\ \A n \in DOMAIN versions[s] :
                \A b \in AccessSecretVersion(s, n) : home[b] = [life |-> secret[s].life, n |-> n]
    /\ \A a, b \in DOMAIN home : a # b /\ home[a] = home[b] => home[a].n = 0

\* The same until the store is reset under a call that holds the lock.
VersionMeansBytes == emptied \/ BytesBelong

\* "so a reference to a version always means the same bytes" (rpc.go): no two
\* adds to secrets of one name are given one number.  Creating the secret again
\* starts the numbers again.
NumbersNeverReused == \A a, b \in DOMAIN home : a # b /\ home[a].n = home[b].n => home[a].n = 0

\* "At the version just read, so a concurrent update cannot be lost" (update.go):
\* an update changes the secret it read.  A secret created again starts at the
\* same store version, so an update of the one before it is written over it.
UpdatesItsOwnSecret == \A s \in Secrets : Exists(s) => secret[s].content = secret[s].life
=============================================================================
