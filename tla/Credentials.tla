----------------------------- MODULE Credentials -----------------------------
(***************************************************************************)
(* The provider credential shared by everything that runs on one host      *)
(* (tauceti_worker/oauth.py, scripts/oauth_refresh_loop.py and the Claude  *)
(* half of tauceti_worker/quota.py).  A refresh token may be exchanged     *)
(* once: the server retires it and hands out a replacement.  The daemon    *)
(* and the pacers of several workers rotate the one file under an          *)
(* exclusive flock, two markers beside it bound how often they do, and     *)
(* each isolated worker keeps a copy without the refresh token.            *)
(*                                                                         *)
(* A token is the serial number the server issued it under.  Time is       *)
(* relative: the stored access token has `left` ticks to live, a marker    *)
(* has an age.  The operator may log in at any moment; apart from that     *)
(* nothing but the rotators writes the file, as the opt-in promises        *)
(* (quota.py, _refresh_claude_credential).                                 *)
(***************************************************************************)
EXTENDS Integers, FiniteSets

CONSTANTS Daemon,          \* the standalone refresher
          Pacers,          \* loops and rounds of workers, which renew
          Lives,           \* the lifetimes the server gives an access token
          Skew,            \* how early a token is renewed
          MinInterval,     \* between two successful rotations
          AttemptInterval, \* between two attempts of the pacers
          MaxIssued,       \* bound: token pairs the server issues
          MaxUpsets        \* bound: logins, crashes, failed writes, lost replies

Nobody == "nobody"

CredAssumption == /\ Daemon \notin Pacers /\ Nobody \notin Pacers \cup {Daemon}
                  /\ Lives \subseteq Nat \ {0}
                  /\ \E n \in Lives : \A m \in Lives : m <= n
                  /\ Skew \in Nat \ {0} /\ MinInterval \in Nat \ {0}
                  /\ AttemptInterval \in Nat \ {0} /\ MinInterval <= 2 * Skew
                  /\ MaxIssued \in Nat \ {0} /\ MaxUpsets \in Nat

Rotators == Pacers \cup {Daemon}
Stripped == 0               \* no refresh token, or the placeholder
Never == -1              \* a marker that was never written
OldMark == 2 * Skew     \* no older marker is told apart
OldTry == AttemptInterval
Serials == 1..MaxIssued
Longest == CHOOSE n \in Lives : \A m \in Lives : m <= n
OldPair == MinInterval + Longest \div 2

VARIABLES unspent,   \* refresh tokens the server still accepts
          issued,    \* how many pairs it has issued
          cred,      \* the credential file: [rt, at, left, life, age, marked]
          marks,     \* ages of the markers: [success, attempt]
          flock,     \* who holds the lock on the credential file
          rotation,  \* what each rotator is doing: [step, held, reply]
          homecopy,  \* the isolated worker's own copy: [rt, at]
          orphaned,  \* tokens whose replacement never reached the disk
          upsets,    \* how many times the operator or the fault model struck
          staffed    \* whether a daemon runs beside the pacers

cvars == <<unspent, issued, cred, marks, flock, rotation, homecopy,
           orphaned, upsets, staffed>>

\* What the file holds; life, age and marked record when the pair in it was
\* stored, for the properties: life is 0 when the code did not learn it.
CredFile == [rt: Serials, at: Serials, left: 0..Longest, life: 0..Longest,
             age: 0..OldPair, marked: BOOLEAN]

NoReply == [kind |-> "none", rt |-> 0, at |-> 0, left |-> 0]
Replies == [kind: {"none", "full", "undated", "bare", "regressed", "kept",
                   "refused"},
            rt: 0..MaxIssued, at: 0..MaxIssued, left: 0..Longest]

Steps == {"idle", "queued", "asking", "heard", "stored"}

CredTypeOK ==
  /\ unspent \subseteq Serials
  /\ issued \in Serials
  /\ cred \in CredFile
  /\ marks \in [success: Never..OldMark, attempt: Never..OldTry]
  /\ flock \in Rotators \cup {Nobody}
  /\ rotation \in [Rotators -> [step: Steps, forced: BOOLEAN,
                             held: CredFile, reply: Replies]]
  /\ homecopy \in [rt: 0..MaxIssued, at: Serials]
  /\ orphaned \subseteq Serials
  /\ upsets \in 0..MaxUpsets
  /\ staffed \in BOOLEAN
  /\ \A r \in Rotators : rotation[r].step \in {"asking", "heard", "stored"}
                          <=> flock = r

Pair(n, life) == [rt |-> n, at |-> n, left |-> life, life |-> life,
                  age |-> 0, marked |-> FALSE]

AtRest == [step |-> "idle", forced |-> FALSE, held |-> Pair(1, 0),
           reply |-> NoReply]

\* The operator has logged in and a worker's home was seeded with a full copy.
CredInit ==
  /\ unspent = {1} /\ issued = 1
  /\ \E life \in Lives : cred = Pair(1, life)
  /\ marks = [success |-> Never, attempt |-> Never]
  /\ flock = Nobody
  /\ rotation = [r \in Rotators |-> AtRest]
  /\ homecopy = [rt |-> 1, at |-> 1]
  /\ orphaned = {} /\ upsets = 0 /\ staffed \in BOOLEAN

-----------------------------------------------------------------------------
\* Time.

Older(age, cap) == IF age \in {Never, cap} THEN age ELSE age + 1

Shorter(left) == IF left = 0 THEN 0 ELSE left - 1

\* The expiry in the hands of a rotator is absolute and comes nearer as well;
\* its age stays what it was when the file was read.
CredTick ==
  /\ cred' = [cred EXCEPT !.left = Shorter(@), !.age = Older(@, OldPair)]
  /\ rotation' = [r \in Rotators |->
                    [rotation[r] EXCEPT !.held.left = Shorter(@)]]
  /\ marks' = [success |-> Older(marks.success, OldMark),
               attempt |-> Older(marks.attempt, OldTry)]
  /\ UNCHANGED <<unspent, issued, flock, homecopy, orphaned,
                 upsets, staffed>>

-----------------------------------------------------------------------------
\* Who wants a rotation.

Resting(r) == rotation[r].step = "idle"
Queue(r, force) ==
  rotation' = [rotation EXCEPT ![r].step = "queued", ![r].forced = force]

\* A pacer about to act on the verdict looks, without the lock, whether the
\* token expires soon.
PacerRenews(p) ==
  /\ Resting(p)
  /\ cred.left <= Skew
  /\ Queue(p, FALSE)
  /\ UNCHANGED <<unspent, issued, cred, marks, flock, homecopy,
                 orphaned, upsets, staffed>>

\* The usage endpoint answered 401 to whatever token the pacer holds.
PacerForces(p) ==
  /\ Resting(p)
  /\ Queue(p, TRUE)
  /\ UNCHANGED <<unspent, issued, cred, marks, flock, homecopy,
                 orphaned, upsets, staffed>>

-----------------------------------------------------------------------------
\* refresh_if_due, under the lock.

Lesser(a, b) == IF a < b THEN a ELSE b
Greater(a, b) == IF a < b THEN b ELSE a

EffectiveSkew(left) ==
  IF marks.success = Never THEN Skew
  ELSE Lesser(Skew, Greater(1, (left + marks.success) \div 2))

NearExpiry == cred.left <= EffectiveSkew(cred.left)

\* Mutant: a forced rotation is not bound by the success marker.
SpentFreely(r) == /\ ~rotation[r].forced
                  /\ marks.success # Never /\ marks.success < MinInterval

JustRotated(r) == marks.success # Never /\ marks.success < MinInterval
JustTried(r) == r # Daemon /\ marks.attempt # Never
                  /\ marks.attempt < AttemptInterval

Renewal(r) == rotation[r].forced \/ NearExpiry
Cools(r) == JustRotated(r) \/ JustTried(r)

Unheld(r) == flock = Nobody

\* The marker of a pass that turned back is left alone.
TurnedBackMarks(r) == marks

Finished(r) == [rotation EXCEPT ![r] = AtRest]

\* "current" or "cooldown": nothing is due, or it is rate-limited.
TurnBack(r) ==
  /\ rotation[r].step = "queued" /\ Unheld(r)
  /\ ~Renewal(r) \/ Cools(r)
  /\ rotation' = Finished(r)
  /\ marks' = IF Renewal(r) /\ ~JustRotated(r) THEN TurnedBackMarks(r) ELSE marks
  /\ UNCHANGED <<unspent, issued, cred, flock, homecopy, orphaned,
                 upsets, staffed>>

\* The daemon comes by once per poll or back-off; when it turns back, nothing
\* has changed.
Wants(r) == IF r = Daemon THEN staffed /\ Resting(r)
            ELSE rotation[r].step = "queued"

\* The file is read under the lock; a pacer's attempt is stamped before the
\* exchange, so that a failure or a crash still throttles the next one.
TakeLock(r) ==
  /\ Wants(r) /\ Unheld(r)
  /\ Renewal(r) /\ ~Cools(r)
  /\ flock' = r
  /\ rotation' = [rotation EXCEPT ![r].step = "asking", ![r].held = cred]
  /\ marks' = IF r # Daemon THEN [marks EXCEPT !.attempt = 0] ELSE marks
  /\ UNCHANGED <<unspent, issued, cred, homecopy, orphaned, upsets, staffed>>

\* The server retires the token it is sent and answers.  The reply may lack
\* an expiry or an access token, may expire before the token already held, or
\* may leave the refresh token as it was; a token it no longer accepts is
\* refused.
Exchange(r) ==
  LET token == rotation[r].held.rt IN
  /\ rotation[r].step = "asking"
  /\ \/ /\ token \in unspent /\ issued < MaxIssued
        /\ \E says \in {"full", "undated", "bare", "regressed"} :
           \E life \in IF says = "full" THEN Lives ELSE {0} :
             /\ says = "regressed" => rotation[r].held.left > 0
             /\ says = "full" => life > rotation[r].held.left
             /\ rotation' = [rotation EXCEPT ![r].step = "heard",
                  ![r].reply = [kind |-> says, rt |-> issued + 1,
                                at |-> issued + 1, left |-> life]]
        /\ issued' = issued + 1
        /\ unspent' = (unspent \ {token}) \cup {issued + 1}
     \/ /\ token \in unspent /\ issued < MaxIssued
        /\ \E life \in {n \in Lives : n > rotation[r].held.left} :
             rotation' = [rotation EXCEPT ![r].step = "heard",
                  ![r].reply = [kind |-> "kept", rt |-> token,
                                at |-> issued + 1, left |-> life]]
        /\ issued' = issued + 1
        /\ UNCHANGED unspent
     \/ /\ token \notin unspent
        /\ rotation' = [rotation EXCEPT ![r].step = "heard",
                ![r].reply = [NoReply EXCEPT !.kind = "refused"]]
        /\ UNCHANGED <<unspent, issued>>
  /\ UNCHANGED <<cred, marks, flock, homecopy, orphaned, upsets, staffed>>

\* An error of the endpoint, which retired nothing, raises out of the pass.
EndpointFails(r) ==
  /\ rotation[r].step = "asking"
  /\ rotation' = Finished(r) /\ flock' = Nobody
  /\ UNCHANGED <<unspent, issued, cred, marks, homecopy, orphaned,
                 upsets, staffed>>

\* _merge_response: what of the reply goes into the file.
Merged(held, reply) ==
  LET kept == [held EXCEPT !.rt = reply.rt, !.age = 0, !.marked = FALSE,
                           !.life = 0] IN
  CASE reply.kind \in {"full", "kept"} ->
         [kept EXCEPT !.at = reply.at, !.left = reply.left, !.life = reply.left]
    [] reply.kind = "undated" -> [kept EXCEPT !.at = reply.at]
    [] OTHER -> kept

\* Replies whose refresh token is stored: an unusable reply that still carries
\* a new one is stored before its error is raised.
Preserved == {"full", "undated", "kept", "bare", "regressed"}

Usable == {"full", "undated", "kept"}

\* The credential is replaced by its temporary copy.
StoreReply(r) ==
  LET reply == rotation[r].reply IN
  /\ rotation[r].step = "heard"
  /\ IF reply.kind \in Preserved
     THEN cred' = Merged(rotation[r].held, reply)
     ELSE UNCHANGED cred
  /\ IF reply.kind \in Usable
     THEN rotation' = [rotation EXCEPT ![r].step = "stored"] /\ UNCHANGED flock
     ELSE rotation' = Finished(r) /\ flock' = Nobody
  /\ UNCHANGED <<unspent, issued, marks, homecopy, orphaned, upsets, staffed>>

\* Then the success marker; a pacer mirrors at once what it rotated.
MarkSuccess(r) ==
  /\ rotation[r].step = "stored"
  /\ marks' = [marks EXCEPT !.success = 0]
  /\ cred' = [cred EXCEPT !.marked = (cred.age = 0)]
  /\ rotation' = Finished(r) /\ flock' = Nobody
  /\ UNCHANGED <<unspent, issued, homecopy, orphaned, upsets, staffed>>

-----------------------------------------------------------------------------
\* The operator, and the fault model.

\* A login, perhaps to another account, while a rotation is under way or not.
Login(life) ==
  /\ upsets < MaxUpsets /\ issued < MaxIssued
  /\ issued' = issued + 1
  /\ unspent' = unspent \cup {issued + 1}
  /\ cred' = Pair(issued + 1, life)
  /\ upsets' = upsets + 1
  /\ UNCHANGED <<marks, flock, rotation, homecopy, orphaned, staffed>>

\* The process dies, a write fails or the reply is lost: the lock is released
\* with the process or by the exception.  The exchange may have been answered.
Sever(r) ==
  /\ upsets < MaxUpsets
  /\ upsets' = upsets + 1
  /\ rotation[r].step \in {"asking", "heard", "stored"}
  /\ rotation' = Finished(r) /\ flock' = Nobody
  /\ orphaned' = IF rotation[r].step = "heard"
                    /\ rotation[r].reply.kind \notin {"kept", "refused"}
                 THEN orphaned \cup {rotation[r].held.rt} ELSE orphaned
  /\ UNCHANGED <<unspent, issued, cred, marks, homecopy, staffed>>

-----------------------------------------------------------------------------
\* mirror_creds: the isolated worker's own copy, renewed before every reading
\* and every launch.

\* Mutant: a copy of the current access token is left as it is.
SameAccess == homecopy.at = cred.at

AlreadyMirrored == homecopy.at = cred.at /\ homecopy.rt = Stripped

Mirror(p) ==
  /\ Resting(p) /\ ~AlreadyMirrored
  /\ homecopy' = [rt |-> Stripped, at |-> cred.at]
  /\ UNCHANGED <<unspent, issued, cred, marks, flock, rotation, orphaned,
                 upsets, staffed>>

-----------------------------------------------------------------------------
Rotate(r) == \/ TurnBack(r) \/ TakeLock(r) \/ Exchange(r) \/ EndpointFails(r)
             \/ StoreReply(r) \/ MarkSuccess(r)

CredNext ==
  \/ CredTick
  \/ \E p \in Pacers : PacerRenews(p) \/ PacerForces(p) \/ Mirror(p)
  \/ \E r \in Rotators : Rotate(r) \/ Sever(r)
  \/ \E life \in Lives : Login(life)

CredSpec == CredInit /\ [][CredNext]_cvars

\* The clock runs, the daemon and the pacers keep polling, the kernel grants
\* the lock to whoever waits for it, a rotation under way goes on, and the
\* endpoint is not down for ever (it has issued MaxIssued pairs: the bound).
Silent(r) == issued = MaxIssued /\ EndpointFails(r)
Down == issued < MaxIssued /\ \E r \in Rotators : EndpointFails(r)
CredFairness ==
  /\ WF_cvars(CredTick)
  /\ \A p \in Pacers : /\ WF_cvars(PacerRenews(p)) /\ SF_cvars(Mirror(p))
                       /\ SF_cvars(TurnBack(p) \/ TakeLock(p))
  /\ \A r \in Rotators : /\ WF_cvars(Exchange(r) \/ Silent(r))
                         /\ WF_cvars(StoreReply(r)) /\ WF_cvars(MarkSuccess(r))
  /\ <>[][~Down]_cvars

CredFairSpec == CredSpec /\ CredFairness

-----------------------------------------------------------------------------
\* A refresh token the server has retired is sent again only if its
\* replacement was lost between the server and the disk: never because two
\* rotators read it, and never because the reply was otherwise unusable
\* (oauth.py:3-9, 156-166, 359-379).
NeverReplayed ==
  \A r \in Rotators : rotation[r].step = "asking" =>
                        rotation[r].held.rt \in unspent \cup orphaned

\* A pair that was stored and marked is not spent again within the minimum
\* interval, not even when a rotation is forced by a 401 of the token before
\* it; and unless forced, not before half its life is over (oauth.py:253-257,
\* 339-345).
FreshPairSpared ==
  \A r \in Rotators : LET m == rotation[r] IN
    m.step \in {"asking", "heard"} /\ m.held.marked =>
      /\ m.held.age >= MinInterval
      /\ m.forced \/ 2 * m.held.age >= m.held.life

CredSafe == CredTypeOK /\ NeverReplayed /\ FreshPairSpared

\* An expired access token is renewed, with or without the daemon, however
\* often the pacers poll and however the rotators interleave, as long as the
\* server accepts the stored refresh token.
Expired == cred.left = 0 /\ cred.rt \in unspent /\ issued < MaxIssued

\* The worker's copy comes to hold the current access token and no refresh
\* token: not the one it was seeded with, and not that of the account before a
\* login, whichever expires first (quota.py, _mirror_creds_file).
Mirrored == homecopy = [rt |-> Stripped, at |-> cred.at]
=============================================================================
