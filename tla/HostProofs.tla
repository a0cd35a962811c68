----------------------------- MODULE HostProofs ------------------------------
(***************************************************************************)
(* The theorems about four parts of a worker's host.                       *)
(* The shared credential: whatever the rotators do in whatever order, no   *)
(* retired refresh token is sent again unless its replacement was lost on  *)
(* the way to the disk, and a pair that was stored and marked is not       *)
(* replaced too early.  The shared snapshot of Mathlib: whatever dies      *)
(* when, sharing is stopped for damage only, no delta is used without what *)
(* it is a delta of, and nothing happens to a snapshot under its reader.   *)
(* The rounds: attempts are bounded, and no loop spins.  The manager: one  *)
(* loop works for a worker, whoever is killed or edited, and one that      *)
(* ended well is not started again.                                        *)
(***************************************************************************)
EXTENDS Credentials, Pool, Rounds, Workers, FiniteSetTheorems, TLAPS

-----------------------------------------------------------------------------
(* The credential. *)

\* Replies that carry a new refresh token: the one sent is retired.
\* (oauth._merge_response)
Rotated == {"full", "undated", "bare", "regressed"}

Accepted == unspent \cup orphaned

\* The file holds a token the server accepts, or the rotation that has retired
\* it, still under the lock, is about to store the new one; otherwise the new
\* one was lost.
StoredAccepted ==
  \/ cred.rt \in Accepted
  \/ \E r \in Rotators : /\ rotation[r].step = "heard" /\ rotation[r].reply.kind \in Rotated
                         /\ rotation[r].held.rt = cred.rt

\* What a rotation is about to store is accepted.
HeardAccepted ==
  \A r \in Rotators : rotation[r].step = "heard" /\ rotation[r].reply.kind \in Preserved =>
    rotation[r].reply.rt \in Accepted /\ rotation[r].reply.at \in Serials

\* The success marker is as old as the marked pair, as far as ages are told
\* apart.
MarkedTogether ==
  cred.marked =>
    \/ marks.success = cred.age
    \/ cred.age = OldPair /\ cred.age <= marks.success
    \/ marks.success = OldMark /\ marks.success <= cred.age

\* A pair has lived as long as it has less to live.
LivesDown == cred.life = 0 \/ cred.age = OldPair \/ cred.life <= cred.left + cred.age

CredInv == /\ CredTypeOK /\ NeverReplayed /\ StoredAccepted /\ HeardAccepted
           /\ MarkedTogether /\ LivesDown /\ FreshPairSpared

-----------------------------------------------------------------------------
(* Constants and records. *)

\* The longest life, and the ages from which on no older one is told apart.
LEMMA Caps ==
    ASSUME CredAssumption
    PROVE  /\ Longest \in Nat \ {0} /\ \A n \in Lives : n \in 1..Longest
           /\ OldPair \in Nat /\ MinInterval <= OldPair /\ Longest <= 2 * OldPair
           /\ OldMark \in Nat \ {0} /\ OldTry \in Nat \ {0}
           /\ 1 \in Serials
  <1>1. Longest \in Lives /\ \A n \in Lives : n <= Longest
    BY DEF CredAssumption, Longest
  <1>2. Longest \in Nat \ {0} /\ \A n \in Lives : n \in 1..Longest
    BY <1>1 DEF CredAssumption
  <1>3. Longest \div 2 \in Nat /\ Longest <= 2 * (Longest \div 2) + 1
    BY <1>2
  <1>4. OldPair \in Nat /\ MinInterval <= OldPair /\ Longest <= 2 * OldPair
    BY <1>2, <1>3 DEF OldPair, CredAssumption
  <1>5. OldMark \in Nat \ {0} /\ OldTry \in Nat \ {0} /\ 1 \in Serials
    BY DEF OldMark, OldTry, Serials, CredAssumption
  <1> QED
    BY <1>2, <1>4, <1>5

Rotations == [step: Steps, forced: BOOLEAN, held: CredFile, reply: Replies]
Busy == {"asking", "heard", "stored"}

LEMMA Records ==
    ASSUME CredAssumption
    PROVE  /\ \A n \in Serials, life \in 0..Longest :
                /\ Pair(n, life) \in CredFile
                /\ Pair(n, life).rt = n /\ ~Pair(n, life).marked /\ Pair(n, life).life = life
                /\ Pair(n, life).left = life
           /\ NoReply \in Replies
           /\ AtRest \in Rotations /\ AtRest.step = "idle"
  <1>1. \A n \in Serials, life \in 0..Longest :
                /\ Pair(n, life) \in CredFile
                /\ Pair(n, life).rt = n /\ ~Pair(n, life).marked /\ Pair(n, life).life = life
                /\ Pair(n, life).left = life
    BY Caps DEF Pair, CredFile
  <1>2. NoReply \in Replies
    BY Caps DEF NoReply, Replies, CredAssumption
  <1>3. 1 \in Serials /\ 0 \in 0..Longest
    BY Caps
  <1>4. AtRest \in Rotations /\ AtRest.step = "idle"
    BY <1>1, <1>2, <1>3 DEF AtRest, Rotations, Steps
  <1> QED
    BY <1>1, <1>2, <1>4

-----------------------------------------------------------------------------
(* What an action does to the rotation it belongs to, and to no other. *)

OthersStay(r) == /\ rotation' \in [Rotators -> Rotations]
                 /\ \A q \in Rotators \ {r} : rotation'[q] = rotation[q]

LEMMA Moves ==
    ASSUME CredAssumption, CredTypeOK, NEW r \in Rotators
    PROVE  /\ rotation' = Finished(r) => OthersStay(r) /\ rotation'[r] = AtRest /\ rotation'[r].step = "idle"
           /\ \A force \in BOOLEAN : Queue(r, force) => OthersStay(r) /\ rotation'[r].step = "queued"
           /\ rotation' = [rotation EXCEPT ![r].step = "asking", ![r].held = cred] =>
                /\ OthersStay(r) /\ rotation'[r].step = "asking" /\ rotation'[r].held = cred
                /\ rotation'[r].forced = rotation[r].forced
           /\ \A reply \in Replies :
                rotation' = [rotation EXCEPT ![r].step = "heard", ![r].reply = reply] =>
                /\ OthersStay(r) /\ rotation'[r].step = "heard" /\ rotation'[r].held = rotation[r].held
                /\ rotation'[r].reply = reply /\ rotation'[r].forced = rotation[r].forced
           /\ rotation' = [rotation EXCEPT ![r].step = "stored"] => OthersStay(r) /\ rotation'[r].step = "stored"
  <1>0. rotation \in [Rotators -> Rotations] /\ rotation[r] \in Rotations /\ cred \in CredFile
    BY DEF CredTypeOK, Rotations
  <1>1. ASSUME NEW m \in Rotations, rotation' = [rotation EXCEPT ![r] = m]
        PROVE  OthersStay(r) /\ rotation'[r] = m
    BY <1>0, <1>1 DEF OthersStay
  <1>2. rotation' = Finished(r) => OthersStay(r) /\ rotation'[r] = AtRest /\ rotation'[r].step = "idle"
    BY <1>1, Records DEF Finished
  <1>3. ASSUME NEW force \in BOOLEAN, Queue(r, force)
        PROVE  OthersStay(r) /\ rotation'[r].step = "queued"
    <2> DEFINE m == [rotation[r] EXCEPT !.step = "queued", !.forced = force]
    <2>1. m \in Rotations /\ m.step = "queued"
      BY <1>0 DEF Rotations, Steps
    <2>2. rotation' = [rotation EXCEPT ![r] = m]
      BY <1>0, <1>3 DEF Queue
    <2> HIDE DEF m
    <2> QED
      BY <1>1, <2>1, <2>2
  <1>4. ASSUME rotation' = [rotation EXCEPT ![r].step = "asking", ![r].held = cred]
        PROVE  /\ OthersStay(r) /\ rotation'[r].step = "asking" /\ rotation'[r].held = cred
               /\ rotation'[r].forced = rotation[r].forced
    <2> DEFINE m == [rotation[r] EXCEPT !.step = "asking", !.held = cred]
    <2>1. m \in Rotations /\ m.step = "asking" /\ m.held = cred /\ m.forced = rotation[r].forced
      BY <1>0 DEF Rotations, Steps
    <2>2. rotation' = [rotation EXCEPT ![r] = m]
      BY <1>0, <1>4
    <2> HIDE DEF m
    <2> QED
      BY <1>1, <2>1, <2>2
  <1>5. ASSUME NEW reply \in Replies, rotation' = [rotation EXCEPT ![r].step = "heard", ![r].reply = reply]
        PROVE  /\ OthersStay(r) /\ rotation'[r].step = "heard" /\ rotation'[r].held = rotation[r].held
               /\ rotation'[r].reply = reply /\ rotation'[r].forced = rotation[r].forced
    <2> DEFINE m == [rotation[r] EXCEPT !.step = "heard", !.reply = reply]
    <2>1. /\ m \in Rotations /\ m.step = "heard" /\ m.held = rotation[r].held /\ m.reply = reply
          /\ m.forced = rotation[r].forced
      BY <1>0 DEF Rotations, Steps
    <2>2. rotation' = [rotation EXCEPT ![r] = m]
      BY <1>0, <1>5
    <2> HIDE DEF m
    <2> QED
      BY <1>1, <2>1, <2>2
  <1>6. ASSUME rotation' = [rotation EXCEPT ![r].step = "stored"]
        PROVE  OthersStay(r) /\ rotation'[r].step = "stored"
    <2> DEFINE m == [rotation[r] EXCEPT !.step = "stored"]
    <2>1. m \in Rotations /\ m.step = "stored"
      BY <1>0 DEF Rotations, Steps
    <2>2. rotation' = [rotation EXCEPT ![r] = m]
      BY <1>0, <1>6
    <2> HIDE DEF m
    <2> QED
      BY <1>1, <2>1, <2>2
  <1> QED
    BY <1>2, <1>3, <1>4, <1>5, <1>6

-----------------------------------------------------------------------------
(* The actions, one after another. *)

\* A rotator that holds no lock makes up its mind; a copy is mirrored.
\* (oauth.refresh_if_due, quota._mirror_creds_file)
LEMMA QuietKeeps ==
    ASSUME CredAssumption, CredInv, NEW r \in Rotators,
           UNCHANGED <<unspent, issued, cred, marks, flock, orphaned, upsets, staffed>>,
           rotation[r].step \notin Busy, OthersStay(r), rotation'[r].step \in {"idle", "queued"},
           homecopy' \in [rt: 0..MaxIssued, at: Serials]
    PROVE  CredInv'
  <1>1. ASSUME NEW q \in Rotators
        PROVE  \/ rotation'[q] = rotation[q]
               \/ rotation[q].step \notin Busy /\ rotation'[q].step \in {"idle", "queued"}
    BY DEF OthersStay
  <1>2. CredTypeOK'
    <2>1. ASSUME NEW q \in Rotators
          PROVE  rotation'[q].step \in {"asking", "heard", "stored"} <=> flock' = q
      BY <1>1, <2>1 DEF CredInv, CredTypeOK, Busy
    <2> QED
      BY <2>1 DEF CredInv, CredTypeOK, OthersStay, Rotations
  <1>3. NeverReplayed' /\ HeardAccepted' /\ FreshPairSpared'
    BY <1>1 DEF CredInv, NeverReplayed, HeardAccepted, FreshPairSpared, Accepted
  <1>4. StoredAccepted'
    <2>1. ASSUME NEW q \in Rotators, rotation[q].step = "heard"
          PROVE  rotation'[q] = rotation[q]
      BY <1>1, <2>1 DEF Busy
    <2> QED
      BY <2>1 DEF CredInv, StoredAccepted, Accepted
  <1>5. MarkedTogether' /\ LivesDown'
    BY DEF CredInv, MarkedTogether, LivesDown
  <1> QED
    BY <1>2, <1>3, <1>4, <1>5 DEF CredInv

LEMMA QuietActions ==
    ASSUME CredAssumption, CredInv,
           \/ \E p \in Pacers : PacerRenews(p) \/ PacerForces(p) \/ Mirror(p)
           \/ \E r \in Rotators : TurnBack(r)
    PROVE  CredInv'
  <1>1. ASSUME NEW p \in Pacers, PacerRenews(p) \/ PacerForces(p)
        PROVE  CredInv'
    <2>1. p \in Rotators
      BY DEF Rotators
    <2>2. \E force \in BOOLEAN : Queue(p, force)
      BY <1>1 DEF PacerRenews, PacerForces
    <2>3. OthersStay(p) /\ rotation'[p].step = "queued"
      BY <2>1, <2>2, Moves DEF CredInv
    <2> QED
      BY <1>1, <2>1, <2>3, QuietKeeps DEF PacerRenews, PacerForces, Resting, Busy, CredInv, CredTypeOK
  <1>2. ASSUME NEW p \in Pacers, Mirror(p)
        PROVE  CredInv'
    <2>1. p \in Rotators /\ OthersStay(p) /\ rotation'[p].step = "idle"
      BY <1>2 DEF Rotators, OthersStay, Mirror, Resting, CredInv, CredTypeOK, Rotations
    <2>2. homecopy' \in [rt: 0..MaxIssued, at: Serials]
      BY <1>2 DEF Mirror, CredInv, CredTypeOK, CredFile, Stripped, CredAssumption
    <2> QED
      BY <1>2, <2>1, <2>2, QuietKeeps DEF Mirror, Resting, Busy
  <1>3. ASSUME NEW r \in Rotators, TurnBack(r)
        PROVE  CredInv'
    <2>1. OthersStay(r) /\ rotation'[r].step = "idle"
      BY <1>3, Moves DEF TurnBack, CredInv
    <2>2. UNCHANGED <<unspent, issued, cred, marks, flock, homecopy, orphaned, upsets, staffed>>
      BY <1>3 DEF TurnBack, TurnedBackMarks
    <2> QED
      BY <1>3, <2>1, <2>2, QuietKeeps DEF TurnBack, Busy, CredInv, CredTypeOK
  <1> QED
    BY <1>1, <1>2, <1>3

\* The lock is free, so that no rotation is under way: what the file holds is
\* accepted, and old enough.  (oauth.refresh_if_due)
LEMMA TakeLockKeeps ==
    ASSUME CredAssumption, CredInv, NEW r \in Rotators, TakeLock(r)
    PROVE  CredInv'
  <1>1. /\ flock = Nobody /\ flock' = r /\ Renewal(r) /\ ~Cools(r)
        /\ UNCHANGED <<unspent, issued, cred, homecopy, orphaned, upsets, staffed>>
    BY DEF TakeLock, Unheld
  <1>2. /\ OthersStay(r) /\ rotation'[r].step = "asking" /\ rotation'[r].held = cred
        /\ rotation'[r].forced = rotation[r].forced
    BY Moves DEF TakeLock, CredInv
  <1>3. \A q \in Rotators : rotation[q].step \notin Busy
    BY <1>1 DEF CredInv, CredTypeOK, Busy, CredAssumption, Rotators
  <1>4. marks' \in [success: Never..OldMark, attempt: Never..OldTry] /\ marks'.success = marks.success
    BY Caps DEF TakeLock, CredInv, CredTypeOK, Never
  <1>5. ASSUME NEW q \in Rotators
        PROVE  q = r \/ rotation'[q] = rotation[q]
    BY <1>2 DEF OthersStay
  <1>6. CredTypeOK'
    <2>1. ASSUME NEW q \in Rotators
          PROVE  rotation'[q].step \in {"asking", "heard", "stored"} <=> flock' = q
      BY <1>1, <1>2, <1>3, <1>5 DEF Busy
    <2> QED
      BY <1>1, <1>2, <1>4, <2>1 DEF CredInv, CredTypeOK, OthersStay, Rotations
  <1>7. cred.rt \in Accepted
    BY <1>3 DEF CredInv, StoredAccepted, Busy
  <1>8. NeverReplayed' /\ HeardAccepted' /\ StoredAccepted'
    <2>1. NeverReplayed'
      BY <1>1, <1>2, <1>5, <1>7 DEF CredInv, NeverReplayed, Accepted
    <2>2. HeardAccepted'
      BY <1>1, <1>2, <1>5 DEF CredInv, HeardAccepted, Accepted
    <2>3. StoredAccepted'
      BY <1>1, <1>7 DEF StoredAccepted, Accepted
    <2> QED
      BY <2>1, <2>2, <2>3
  <1>9. MarkedTogether' /\ LivesDown'
    BY <1>1, <1>4 DEF CredInv, MarkedTogether, LivesDown
  <1>10. cred.marked => /\ cred.age >= MinInterval
                        /\ rotation[r].forced \/ 2 * cred.age >= cred.life
    <2>1. SUFFICES ASSUME cred.marked
                   PROVE  /\ cred.age >= MinInterval
                          /\ rotation[r].forced \/ 2 * cred.age >= cred.life
      OBVIOUS
    <2>2. /\ cred.left \in Nat /\ cred.life \in Nat /\ cred.age \in Nat /\ cred.life <= Longest
          /\ marks.success \in Int /\ marks.success >= Never
          /\ MinInterval \in Nat \ {0} /\ Skew \in Nat \ {0}
      BY Caps DEF CredInv, CredTypeOK, CredFile, CredAssumption, Never
    <2>3. \/ marks.success = cred.age
          \/ cred.age = OldPair /\ cred.age <= marks.success
          \/ marks.success = OldMark /\ marks.success <= cred.age
      BY <2>1 DEF CredInv, MarkedTogether
    <2>4. marks.success >= MinInterval
      BY <1>1, <2>2, <2>3, Caps DEF Cools, JustRotated, Never
    <2>5. cred.age >= MinInterval
      BY <2>2, <2>3, <2>4, Caps
    <2>6. ASSUME ~rotation[r].forced
          PROVE  2 * cred.age >= cred.life
      <3>1. cred.left <= Skew /\ cred.left <= Greater(1, (cred.left + marks.success) \div 2)
        BY <1>1, <2>2, <2>4, <2>6 DEF Renewal, NearExpiry, EffectiveSkew, Lesser, Greater, Never
      <3>2. cred.left <= marks.success
        BY <2>2, <2>4, <3>1 DEF Greater
      <3>3. CASE cred.age = OldPair
        BY <2>2, <3>3, Caps
      <3>4. CASE cred.age # OldPair
        <4>1. cred.left <= cred.age
          BY <2>2, <2>3, <3>1, <3>2, <3>4 DEF OldMark
        <4>2. cred.life = 0 \/ cred.life <= cred.left + cred.age
          BY <3>4 DEF CredInv, LivesDown
        <4> QED
          BY <2>2, <4>1, <4>2
      <3> QED
        BY <3>3, <3>4
    <2> QED
      BY <2>5, <2>6
  <1>11. FreshPairSpared'
    BY <1>2, <1>5, <1>10 DEF CredInv, FreshPairSpared
  <1> QED
    BY <1>6, <1>8, <1>9, <1>11 DEF CredInv

\* The server retires what it was sent; what it answers it accepts.
\* (oauth._exchange)
LEMMA ExchangeKeeps ==
    ASSUME CredAssumption, CredInv, NEW r \in Rotators, Exchange(r)
    PROVE  CredInv'
  <1> DEFINE token == rotation[r].held.rt
             M(reply) == rotation' = [rotation EXCEPT ![r].step = "heard", ![r].reply = reply]
  <1>0. /\ rotation[r].step = "asking"
        /\ UNCHANGED <<cred, marks, flock, homecopy, orphaned, upsets, staffed>>
        /\ unspent \subseteq Serials /\ issued \in Serials /\ token \in Serials
    BY DEF Exchange, CredInv, CredTypeOK, CredFile
  <1>1. \E reply \in Replies :
          /\ M(reply)
          /\ \/ /\ reply.kind \in Rotated /\ reply.rt = issued + 1 /\ reply.at = issued + 1
                /\ issued' = issued + 1 /\ issued' \in Serials
                /\ unspent' = (unspent \ {token}) \cup {issued + 1}
             \/ /\ reply.kind = "kept" /\ reply.rt = token /\ reply.at = issued + 1 /\ token \in unspent
                /\ issued' = issued + 1 /\ issued' \in Serials /\ UNCHANGED unspent
             \/ reply.kind = "refused" /\ UNCHANGED <<unspent, issued>>
    <2>0. issued < MaxIssued => issued + 1 \in Serials
      BY <1>0 DEF Serials, CredAssumption
    <2>1. ASSUME NEW says \in {"full", "undated", "bare", "regressed", "kept"}, NEW life \in Lives \cup {0},
                 NEW rt \in Serials, issued < MaxIssued
          PROVE  [kind |-> says, rt |-> rt, at |-> issued + 1, left |-> life] \in Replies
      BY <2>0, <2>1, Caps DEF Replies, Serials, CredAssumption
    <2>2. [NoReply EXCEPT !.kind = "refused"] \in Replies
      BY Records DEF Replies
    <2>3. CASE token \notin unspent
      <3>1. M([NoReply EXCEPT !.kind = "refused"]) /\ UNCHANGED <<unspent, issued>>
        BY <2>3 DEF Exchange
      <3>2. [NoReply EXCEPT !.kind = "refused"].kind = "refused"
        BY DEF NoReply
      <3> QED
        BY <2>2, <3>1, <3>2
    <2>4. CASE token \in unspent
      <3>1. \/ /\ issued < MaxIssued /\ issued' = issued + 1 /\ unspent' = (unspent \ {token}) \cup {issued + 1}
               /\ \E says \in Rotated, life \in Lives \cup {0} :
                    M([kind |-> says, rt |-> issued + 1, at |-> issued + 1, left |-> life])
            \/ /\ issued < MaxIssued /\ issued' = issued + 1 /\ UNCHANGED unspent
               /\ \E life \in Lives : M([kind |-> "kept", rt |-> token, at |-> issued + 1, left |-> life])
        BY <2>4 DEF Exchange, Rotated
      <3> HIDE DEF M
      <3>2. ASSUME issued < MaxIssued, issued' = issued + 1, unspent' = (unspent \ {token}) \cup {issued + 1},
                   NEW says \in Rotated, NEW life \in Lives \cup {0},
                   M([kind |-> says, rt |-> issued + 1, at |-> issued + 1, left |-> life])
            PROVE  \E reply \in Replies :
                     /\ M(reply) /\ reply.kind \in Rotated /\ reply.rt = issued + 1 /\ reply.at = issued + 1
                     /\ issued' = issued + 1 /\ issued' \in Serials
                     /\ unspent' = (unspent \ {token}) \cup {issued + 1}
        <4> DEFINE reply == [kind |-> says, rt |-> issued + 1, at |-> issued + 1, left |-> life]
        <4>1. reply \in Replies
          BY <2>0, <2>1, <3>2 DEF Rotated
        <4> QED
          BY <2>0, <3>2, <4>1
      <3>3. ASSUME issued < MaxIssued, issued' = issued + 1, UNCHANGED unspent, NEW life \in Lives,
                   M([kind |-> "kept", rt |-> token, at |-> issued + 1, left |-> life])
            PROVE  \E reply \in Replies :
                     /\ M(reply) /\ reply.kind = "kept" /\ reply.rt = token /\ reply.at = issued + 1
                     /\ token \in unspent /\ issued' = issued + 1 /\ issued' \in Serials /\ UNCHANGED unspent
        <4> DEFINE reply == [kind |-> "kept", rt |-> token, at |-> issued + 1, left |-> life]
        <4>1. reply \in Replies
          BY <1>0, <2>1, <3>3
        <4> QED
          BY <2>0, <2>4, <3>3, <4>1
      <3> QED
        BY <3>1, <3>2, <3>3
    <2> QED
      BY <2>3, <2>4
  <1>2. PICK reply \in Replies :
          /\ M(reply)
          /\ \/ /\ reply.kind \in Rotated /\ reply.rt = issued + 1 /\ reply.at = issued + 1
                /\ issued' = issued + 1 /\ issued' \in Serials
                /\ unspent' = (unspent \ {token}) \cup {issued + 1}
             \/ /\ reply.kind = "kept" /\ reply.rt = token /\ reply.at = issued + 1 /\ token \in unspent
                /\ issued' = issued + 1 /\ issued' \in Serials /\ UNCHANGED unspent
             \/ reply.kind = "refused" /\ UNCHANGED <<unspent, issued>>
    BY <1>1
  <1>3. /\ OthersStay(r) /\ rotation'[r].step = "heard" /\ rotation'[r].held = rotation[r].held
        /\ rotation'[r].reply = reply /\ rotation'[r].forced = rotation[r].forced
    BY <1>2, Moves DEF CredInv
  <1>4. \A q \in Rotators : q # r => rotation[q].step \notin Busy /\ rotation'[q] = rotation[q]
    BY <1>0, <1>3 DEF CredInv, CredTypeOK, Busy, OthersStay
  <1>5. CredTypeOK'
    <2>1. ASSUME NEW q \in Rotators
          PROVE  rotation'[q].step \in {"asking", "heard", "stored"} <=> flock' = q
      BY <1>0, <1>3, <1>4 DEF CredInv, CredTypeOK
    <2>2. unspent' \subseteq Serials /\ issued' \in Serials
      BY <1>0, <1>2
    <2> QED
      BY <1>0, <1>3, <2>1, <2>2 DEF CredInv, CredTypeOK, OthersStay, Rotations
  <1>6. NeverReplayed'
    BY <1>3, <1>4 DEF NeverReplayed, Busy
  <1>7. HeardAccepted'
    BY <1>2, <1>3, <1>4 DEF HeardAccepted, Busy, Preserved, Rotated, Accepted
  <1>8. StoredAccepted'
    <2>1. cred.rt \in Accepted
      BY <1>0, <1>4 DEF CredInv, StoredAccepted, Busy
    <2> QED
      BY <1>0, <1>2, <1>3, <2>1 DEF StoredAccepted, Accepted
  <1>9. FreshPairSpared'
    BY <1>0, <1>3, <1>4 DEF CredInv, FreshPairSpared, Busy
  <1> QED
    BY <1>0, <1>5, <1>6, <1>7, <1>8, <1>9 DEF CredInv, MarkedTogether, LivesDown

\* A rotation ends early: a token whose replacement goes with it is recorded.
\* (oauth.refresh_if_due)
LEMMA EndKeeps ==
    ASSUME CredAssumption, CredInv, NEW r \in Rotators, EndpointFails(r) \/ Sever(r)
    PROVE  CredInv'
  <1>0. /\ rotation[r].step \in Busy /\ flock' = Nobody
        /\ UNCHANGED <<unspent, issued, cred, marks, homecopy, staffed>>
    BY DEF EndpointFails, Sever, Busy
  <1>1. OthersStay(r) /\ rotation'[r] = AtRest /\ rotation'[r].step = "idle"
    BY Moves DEF EndpointFails, Sever, CredInv
  <1>2. \A q \in Rotators : q # r => rotation[q].step \notin Busy /\ rotation'[q] = rotation[q]
    BY <1>0, <1>1 DEF CredInv, CredTypeOK, Busy, OthersStay
  <1>3. /\ upsets' \in 0..MaxUpsets
        /\ orphaned \subseteq orphaned' /\ orphaned' \subseteq Serials
        /\ rotation[r].step = "heard" /\ rotation[r].reply.kind \in Rotated => rotation[r].held.rt \in orphaned'
    <2>1. orphaned \subseteq Serials /\ upsets \in 0..MaxUpsets /\ rotation[r].held.rt \in Serials
      BY DEF CredInv, CredTypeOK, CredFile
    <2>2. CASE EndpointFails(r)
      BY <2>1, <2>2 DEF EndpointFails
    <2>3. CASE Sever(r)
      BY <2>1, <2>3 DEF Sever, Rotated, CredAssumption
    <2> QED
      BY <2>2, <2>3
  <1>4. CredTypeOK'
    <2>1. ASSUME NEW q \in Rotators
          PROVE  rotation'[q].step \in {"asking", "heard", "stored"} <=> flock' = q
      BY <1>0, <1>1, <1>2 DEF Busy, CredAssumption, Rotators
    <2> QED
      BY <1>0, <1>1, <1>3, <2>1 DEF CredInv, CredTypeOK, OthersStay, Rotations
  <1>5. NeverReplayed' /\ HeardAccepted' /\ FreshPairSpared'
    BY <1>1, <1>2 DEF NeverReplayed, HeardAccepted, FreshPairSpared, Busy
  <1>6. StoredAccepted'
    BY <1>0, <1>2, <1>3 DEF CredInv, StoredAccepted, Accepted, Busy
  <1> QED
    BY <1>0, <1>4, <1>5, <1>6 DEF CredInv, MarkedTogether, LivesDown

\* What goes into the file is what the server accepts.  (oauth._merge_response)
LEMMA MergedFile ==
    ASSUME CredAssumption, NEW held \in CredFile, NEW reply \in Replies,
           reply.rt \in Serials, reply.at \in Serials
    PROVE  /\ Merged(held, reply) \in CredFile
           /\ Merged(held, reply).rt = reply.rt /\ ~Merged(held, reply).marked
           /\ Merged(held, reply).life = 0 \/ Merged(held, reply).life = Merged(held, reply).left
  <1> DEFINE kept == [held EXCEPT !.rt = reply.rt, !.age = 0, !.marked = FALSE, !.life = 0]
  <1>0. 0 \in 0..OldPair /\ 0 \in 0..Longest
    BY Caps
  <1>1. /\ kept \in CredFile /\ kept.rt = reply.rt /\ ~kept.marked /\ kept.life = 0
    BY <1>0 DEF CredFile
  <1>2. CASE reply.kind \in {"full", "kept"}
    <2>1. Merged(held, reply) = [kept EXCEPT !.at = reply.at, !.left = reply.left, !.life = reply.left]
      BY <1>2 DEF Merged
    <2> HIDE DEF kept
    <2> QED
      BY <1>1, <2>1 DEF CredFile, Replies
  <1>3. CASE reply.kind = "undated"
    <2>1. Merged(held, reply) = [kept EXCEPT !.at = reply.at]
      BY <1>3 DEF Merged
    <2> HIDE DEF kept
    <2> QED
      BY <1>1, <2>1 DEF CredFile
  <1>4. CASE reply.kind \notin {"full", "kept", "undated"}
    <2>1. Merged(held, reply) = kept
      BY <1>4 DEF Merged
    <2> HIDE DEF kept
    <2> QED
      BY <1>1, <2>1
  <1> QED
    BY <1>2, <1>3, <1>4

LEMMA StoreKeeps ==
    ASSUME CredAssumption, CredInv, NEW r \in Rotators, StoreReply(r)
    PROVE  CredInv'
  <1>0. /\ rotation[r].step = "heard"
        /\ UNCHANGED <<unspent, issued, marks, homecopy, orphaned, upsets, staffed>>
        /\ rotation[r].held \in CredFile /\ rotation[r].reply \in Replies /\ cred \in CredFile
    BY DEF StoreReply, CredInv, CredTypeOK
  <1>1. /\ OthersStay(r)
        /\ \/ rotation'[r].step = "stored" /\ UNCHANGED flock
           \/ rotation'[r].step = "idle" /\ flock' = Nobody
    BY Moves DEF StoreReply, CredInv
  <1>2. \A q \in Rotators : q # r => rotation[q].step \notin Busy /\ rotation'[q] = rotation[q]
    BY <1>0, <1>1 DEF CredInv, CredTypeOK, Busy, OthersStay
  <1>3. cred' \in CredFile /\ StoredAccepted' /\ MarkedTogether' /\ LivesDown'
    <2>1. CASE rotation[r].reply.kind \in Preserved
      <3>1. rotation[r].reply.rt \in Accepted /\ rotation[r].reply.at \in Serials /\ Accepted \subseteq Serials
        BY <1>0, <2>1 DEF CredInv, HeardAccepted, Accepted, CredTypeOK
      <3>2. cred' = Merged(rotation[r].held, rotation[r].reply)
        BY <2>1 DEF StoreReply
      <3>3. /\ cred' \in CredFile /\ cred'.rt \in Accepted /\ ~cred'.marked
            /\ cred'.life = 0 \/ cred'.life = cred'.left
        BY <1>0, <3>1, <3>2, MergedFile
      <3>4. StoredAccepted'
        BY <1>0, <3>3 DEF StoredAccepted, Accepted
      <3>5. LivesDown'
        BY <3>3, Caps DEF LivesDown, CredFile
      <3> QED
        BY <3>3, <3>4, <3>5 DEF MarkedTogether
    <2>2. CASE rotation[r].reply.kind \notin Preserved
      <3>1. cred' = cred
        BY <2>2 DEF StoreReply
      <3>2. cred.rt \in Accepted
        BY <1>0, <1>2, <2>2 DEF CredInv, StoredAccepted, Busy, Preserved, Rotated
      <3> QED
        BY <1>0, <3>1, <3>2 DEF CredInv, StoredAccepted, Accepted, MarkedTogether, LivesDown
    <2> QED
      BY <2>1, <2>2
  <1>4. CredTypeOK'
    <2>1. ASSUME NEW q \in Rotators
          PROVE  rotation'[q].step \in {"asking", "heard", "stored"} <=> flock' = q
      BY <1>0, <1>1, <1>2 DEF CredInv, CredTypeOK, Busy, CredAssumption, Rotators
    <2> QED
      BY <1>0, <1>1, <1>3, <2>1 DEF CredInv, CredTypeOK, OthersStay, Rotations
  <1>5. NeverReplayed' /\ HeardAccepted' /\ FreshPairSpared'
    BY <1>0, <1>1, <1>2 DEF NeverReplayed, HeardAccepted, FreshPairSpared, Busy
  <1> QED
    BY <1>3, <1>4, <1>5 DEF CredInv

\* From then on the marker and the pair grow old together.
\* (oauth.refresh_if_due)
LEMMA MarkKeeps ==
    ASSUME CredAssumption, CredInv, NEW r \in Rotators, MarkSuccess(r)
    PROVE  CredInv'
  <1>0. /\ rotation[r].step = "stored" /\ flock' = Nobody
        /\ UNCHANGED <<unspent, issued, homecopy, orphaned, upsets, staffed>>
    BY DEF MarkSuccess
  <1>1. OthersStay(r) /\ rotation'[r].step = "idle"
    BY Moves, Records DEF MarkSuccess, CredInv
  <1>2. \A q \in Rotators : q # r => rotation[q].step \notin Busy /\ rotation'[q] = rotation[q]
    BY <1>0, <1>1 DEF CredInv, CredTypeOK, Busy, OthersStay
  <1>3. /\ cred' \in CredFile /\ cred'.rt = cred.rt /\ cred'.left = cred.left /\ cred'.life = cred.life
        /\ cred'.age = cred.age /\ cred'.marked = (cred.age = 0)
    BY DEF MarkSuccess, CredInv, CredTypeOK, CredFile
  <1>4. marks' \in [success: Never..OldMark, attempt: Never..OldTry] /\ marks'.success = 0
    BY Caps DEF MarkSuccess, CredInv, CredTypeOK, Never
  <1>5. CredTypeOK'
    <2>1. ASSUME NEW q \in Rotators
          PROVE  rotation'[q].step \in {"asking", "heard", "stored"} <=> flock' = q
      BY <1>0, <1>1, <1>2 DEF Busy, CredAssumption, Rotators
    <2> QED
      BY <1>0, <1>1, <1>3, <1>4, <2>1 DEF CredInv, CredTypeOK, OthersStay, Rotations
  <1>6. NeverReplayed' /\ HeardAccepted' /\ FreshPairSpared'
    BY <1>1, <1>2 DEF NeverReplayed, HeardAccepted, FreshPairSpared, Busy
  <1>7. StoredAccepted'
    BY <1>0, <1>2, <1>3 DEF CredInv, StoredAccepted, Accepted, Busy
  <1>8. MarkedTogether' /\ LivesDown'
    BY <1>3, <1>4 DEF CredInv, MarkedTogether, LivesDown
  <1> QED
    BY <1>5, <1>6, <1>7, <1>8 DEF CredInv

\* A login is a new pair.  (quota._refresh_claude_credential)
LEMMA LoginKeeps ==
    ASSUME CredAssumption, CredInv, NEW life \in Lives, Login(life)
    PROVE  CredInv'
  <1>0. /\ UNCHANGED <<marks, flock, rotation, homecopy, orphaned, staffed>>
        /\ unspent \subseteq unspent' /\ cred' = Pair(issued + 1, life) /\ issued + 1 \in unspent'
    BY DEF Login
  <1>1. issued + 1 \in Serials
    BY DEF Login, CredInv, CredTypeOK, Serials, CredAssumption
  <1>2. /\ cred' \in CredFile /\ cred'.rt = issued + 1 /\ ~cred'.marked /\ cred'.life = cred'.left
        /\ cred'.left \in Nat /\ cred'.age \in Nat
    <2>1. life \in 0..Longest
      BY Caps
    <2>2. cred' \in CredFile /\ cred'.rt = issued + 1 /\ ~cred'.marked /\ cred'.life = cred'.left
      BY <1>0, <1>1, <2>1, Records
    <2> QED
      BY <2>2, Caps DEF CredFile
  <1>3. CredTypeOK'
    <2>1. unspent' \subseteq Serials /\ issued' \in Serials /\ upsets' \in 0..MaxUpsets
      BY <1>1 DEF Login, CredInv, CredTypeOK, CredAssumption
    <2> QED
      BY <1>0, <1>2, <2>1 DEF CredInv, CredTypeOK
  <1>4. NeverReplayed' /\ HeardAccepted' /\ FreshPairSpared'
    BY <1>0 DEF CredInv, NeverReplayed, HeardAccepted, FreshPairSpared, Accepted
  <1>5. StoredAccepted' /\ MarkedTogether' /\ LivesDown'
    BY <1>0, <1>2 DEF StoredAccepted, Accepted, MarkedTogether, LivesDown
  <1> QED
    BY <1>3, <1>4, <1>5 DEF CredInv

LEMMA TickKeeps ==
    ASSUME CredAssumption, CredInv, CredTick
    PROVE  CredInv'
  <1>0. UNCHANGED <<unspent, issued, flock, homecopy, orphaned, upsets, staffed>>
    BY DEF CredTick
  <1>1. ASSUME NEW left \in 0..Longest
        PROVE  Shorter(left) \in 0..Longest /\ (left = 0 \/ Shorter(left) = left - 1)
    BY <1>1, Caps DEF Shorter
  <1>2. ASSUME NEW cap \in Nat, NEW age \in Never..cap
        PROVE  /\ Older(age, cap) \in Never..cap /\ age >= 0 => Older(age, cap) \in 0..cap
               /\ age \in {Never, cap} => Older(age, cap) = age
               /\ age \notin {Never, cap} => Older(age, cap) = age + 1
    BY <1>2 DEF Older, Never
  <1>3. /\ cred' \in CredFile /\ cred'.rt = cred.rt /\ cred'.life = cred.life /\ cred'.marked = cred.marked
        /\ cred'.left = Shorter(cred.left) /\ cred'.age = Older(cred.age, OldPair)
    <2>1. cred \in CredFile /\ Shorter(cred.left) \in 0..Longest /\ Older(cred.age, OldPair) \in 0..OldPair
      BY <1>1, <1>2, Caps DEF CredInv, CredTypeOK, CredFile, Never
    <2>2. cred' = [cred EXCEPT !.left = Shorter(cred.left), !.age = Older(cred.age, OldPair)]
      BY DEF CredTick
    <2> QED
      BY <2>1, <2>2 DEF CredFile
  <1>4. marks' \in [success: Never..OldMark, attempt: Never..OldTry] /\ marks'.success = Older(marks.success, OldMark)
    <2>1. marks.success \in Never..OldMark /\ marks.attempt \in Never..OldTry
      BY DEF CredInv, CredTypeOK
    <2>2. Older(marks.success, OldMark) \in Never..OldMark /\ Older(marks.attempt, OldTry) \in Never..OldTry
      <3>1. OldMark \in Nat /\ OldTry \in Nat
        BY Caps
      <3>2. Older(marks.success, OldMark) \in Never..OldMark
        BY <1>2, <2>1, <3>1 DEF Never
      <3>3. Older(marks.attempt, OldTry) \in Never..OldTry
        BY <1>2, <2>1, <3>1 DEF Never
      <3> QED
        BY <3>2, <3>3
    <2>3. marks' = [success |-> Older(marks.success, OldMark), attempt |-> Older(marks.attempt, OldTry)]
      BY DEF CredTick
    <2> QED
      BY <2>2, <2>3
  <1>5. ASSUME NEW r \in Rotators
        PROVE  /\ rotation'[r] \in Rotations
               /\ rotation'[r].step = rotation[r].step /\ rotation'[r].forced = rotation[r].forced
               /\ rotation'[r].reply = rotation[r].reply
               /\ rotation'[r].held.rt = rotation[r].held.rt /\ rotation'[r].held.marked = rotation[r].held.marked
               /\ rotation'[r].held.age = rotation[r].held.age /\ rotation'[r].held.life = rotation[r].held.life
    <2> DEFINE h == [rotation[r].held EXCEPT !.left = Shorter(rotation[r].held.left)]
    <2>1. rotation[r] \in Rotations /\ rotation[r].held \in CredFile
      BY DEF CredInv, CredTypeOK, Rotations
    <2>2. /\ h \in CredFile /\ h.rt = rotation[r].held.rt /\ h.marked = rotation[r].held.marked
          /\ h.age = rotation[r].held.age /\ h.life = rotation[r].held.life
      BY <1>1, <2>1 DEF CredFile
    <2>3. rotation'[r] = [rotation[r] EXCEPT !.held = h]
      BY <2>1 DEF CredTick, Rotations
    <2> HIDE DEF h
    <2> QED
      BY <2>1, <2>2, <2>3 DEF Rotations
  <1>6. CredTypeOK'
    <2>1. rotation' \in [Rotators -> Rotations]
      BY <1>5 DEF CredTick
    <2>2. ASSUME NEW q \in Rotators
          PROVE  rotation'[q].step \in {"asking", "heard", "stored"} <=> flock' = q
      BY <1>0, <1>5 DEF CredInv, CredTypeOK
    <2> QED
      BY <1>0, <1>3, <1>4, <2>1, <2>2 DEF CredInv, CredTypeOK, Rotations
  <1>7. NeverReplayed' /\ HeardAccepted' /\ FreshPairSpared' /\ StoredAccepted'
    <2>1. NeverReplayed' /\ HeardAccepted'
      BY <1>0, <1>5 DEF CredInv, NeverReplayed, HeardAccepted, Accepted
    <2>2. FreshPairSpared'
      BY <1>5 DEF CredInv, FreshPairSpared
    <2>3. StoredAccepted'
      BY <1>0, <1>3, <1>5 DEF CredInv, StoredAccepted, Accepted
    <2> QED
      BY <2>1, <2>2, <2>3
  <1>8. /\ cred.age \in 0..OldPair /\ cred.left \in 0..Longest /\ cred.life \in 0..Longest
        /\ marks.success \in Never..OldMark
    BY DEF CredInv, CredTypeOK, CredFile
  <1>9. /\ cred'.age = IF cred.age = OldPair THEN OldPair ELSE cred.age + 1
        /\ marks'.success = IF marks.success \in {Never, OldMark} THEN marks.success ELSE marks.success + 1
    BY <1>2, <1>3, <1>4, <1>8, Caps DEF Never
  <1>10. MarkedTogether'
    <2>1. CASE ~cred.marked
      BY <1>3, <2>1 DEF MarkedTogether
    <2>2. CASE cred.marked
      <3>1. \/ marks.success = cred.age
            \/ cred.age = OldPair /\ cred.age <= marks.success
            \/ marks.success = OldMark /\ marks.success <= cred.age
        BY <2>2 DEF CredInv, MarkedTogether
      <3> QED
        BY <1>8, <1>9, <3>1, Caps DEF MarkedTogether, Never
    <2> QED
      BY <2>1, <2>2
  <1>11. LivesDown'
    BY <1>1, <1>3, <1>8, <1>9, Caps DEF CredInv, LivesDown
  <1> QED
    BY <1>6, <1>7, <1>10, <1>11 DEF CredInv

-----------------------------------------------------------------------------
LEMMA CredStarts == ASSUME CredAssumption, CredInit PROVE CredInv
  <1>1. \A r \in Rotators : rotation[r] = AtRest
    BY DEF CredInit
  <1>2. PICK life \in Lives : cred = Pair(1, life)
    BY DEF CredInit
  <1>3. life \in 0..Longest /\ 1 \in Serials
    BY Caps
  <1>4. cred \in CredFile /\ cred.rt = 1 /\ ~cred.marked /\ cred.life = life /\ cred.left = life /\ cred.age \in Nat
    <2>1. cred \in CredFile /\ cred.rt = 1 /\ ~cred.marked /\ cred.life = life /\ cred.left = life
      BY <1>2, <1>3, Records
    <2> QED
      BY <2>1, Caps DEF CredFile
  <1>5. CredTypeOK
    <2>1. marks \in [success: Never..OldMark, attempt: Never..OldTry]
      BY Caps DEF CredInit, Never
    <2>2. \A r \in Rotators : rotation[r].step \in {"asking", "heard", "stored"} <=> flock = r
      BY <1>1, Records DEF CredInit, CredAssumption, Rotators
    <2>3. rotation \in [Rotators -> Rotations]
      BY <1>1, Records DEF CredInit
    <2>4. homecopy \in [rt: 0..MaxIssued, at: Serials] /\ upsets \in 0..MaxUpsets
      BY <1>3 DEF CredInit, Serials, CredAssumption
    <2> QED
      BY <1>3, <1>4, <2>1, <2>2, <2>3, <2>4 DEF CredInit, CredTypeOK, Rotations
  <1>6. NeverReplayed /\ HeardAccepted /\ FreshPairSpared
    BY <1>1, Records DEF NeverReplayed, HeardAccepted, FreshPairSpared
  <1>7. StoredAccepted /\ MarkedTogether /\ LivesDown
    BY <1>3, <1>4 DEF CredInit, StoredAccepted, Accepted, MarkedTogether, LivesDown
  <1> QED
    BY <1>5, <1>6, <1>7 DEF CredInv

LEMMA CredGoesOn == ASSUME CredAssumption, CredInv, [CredNext]_cvars PROVE CredInv'
  <1>1. CASE UNCHANGED cvars
    BY <1>1 DEF cvars, CredInv, CredTypeOK, NeverReplayed, StoredAccepted, HeardAccepted, MarkedTogether,
       LivesDown,
                FreshPairSpared, Accepted
  <1>2. CASE CredNext
    BY <1>2, QuietActions, TakeLockKeeps, ExchangeKeeps, EndKeeps, StoreKeeps, MarkKeeps, LoginKeeps,
       TickKeeps
       DEF CredNext, Rotate
  <1> QED
    BY <1>1, <1>2

LEMMA CredInvSafe == ASSUME CredInv PROVE CredSafe
  BY DEF CredInv, CredSafe

\* A retired refresh token is sent again only if its replacement was lost, and a
\* marked pair lives for the minimum interval, and half its life unless a
\* rotation is forced.  (oauth.refresh_if_due)
THEOREM CredentialIsSafe == CredAssumption => (CredSpec => []CredSafe)
  <1> SUFFICES ASSUME CredAssumption PROVE CredSpec => []CredSafe
    OBVIOUS
  <1>1. CredInit => CredInv
    BY CredStarts
  <1>2. CredInv /\ [CredNext]_cvars => CredInv'
    BY CredGoesOn
  <1>3. CredInv => CredSafe
    BY CredInvSafe
  <1> QED
    BY <1>1, <1>2, <1>3, PTL DEF CredSpec

-----------------------------------------------------------------------------
(* The pool. *)

\* Nothing looks wrong that was not modified: what is published is whole, and on the disk.
Honest ==
  /\ entry \in {"absent", "whole", "damaged"}
  /\ entry = "damaged" \/ stopped => tampered

\* A build directory that holds only what differs from the snapshot is marked as such, from before the
\* first file is written into it until after it is empty.
Sparse(u) == seat[u].upper = "delta"
DeltasMarked == \A u \in Users :
  /\ Sparse(u) => seat[u].marker
  /\ at[u] \in {"unmark", "move", "mark", "probe", "bare"} => ~Sparse(u)
  /\ at[u] = "probe" => seat[u].marker

\* Who publishes has the publisher's lock, then the exclusive lease too; and nobody else makes the entry
\* that he found absent.
Publishers == \A u \in Users :
  /\ at[u] \in {"recheck", "upgrade", "publish", "stage", "relock"} => publisher = u
  /\ at[u] \in {"publish", "stage"} => exclusive = u
  /\ at[u] \in {"upgrade", "publish", "stage"} => entry = "absent"

\* Who attaches or reads the snapshot has a shared lease, a stray agent of a killed round too.
Leases == \A u \in Users :
  /\ at[u] \in {"detach", "unmark"} /\ want[u] # "off" => u \in leased
  /\ at[u] \in {"move", "mark", "probe"} => u \in leased /\ want[u] # "off"
  /\ Reads(u) => u \in leased /\ entry # "absent"
  /\ u \in strays => at[u] = "idle"

PoolInv == PoolTypeOK /\ Honest /\ DeltasMarked /\ Publishers /\ Leases

-----------------------------------------------------------------------------
(* The actions in groups: the round begins, takes locks, publishes, changes the *)
(* build directory of its checkout, takes that back, works, dies; and what     *)
(* others do.                                                                  *)

Entering(u) == \E mode \in {"off", "auto", "required"} : Enter(u, mode)
Locking(u) == FirstLook(u) \/ TakePublisher(u) \/ LookAgain(u) \/ Upgrade(u) \/ Relock(u)
Publishing(u) == Extract(u) \/ Settle(u) \/ Publish(u)
Mounting(u) == Detach(u) \/ Unmark(u) \/ MoveAside(u) \/ Mark(u) \/ Probe(u)
Undoing(u) == GiveUp(u) \/ Undo(u)
Using(u) == PrivateEnds(u) \/ SharedEnds(u) \/ Preserve(u) \/ PreserveEnds(u)
Dying(u) == Kill(u) \/ StrayExits(u)
Besides == Collect \/ Sweep \/ PowerFails \/ Tamper

\* A step belongs to one of the groups.
LEMMA PoolMoves ==
    ASSUME [PoolNext]_poolvars
    PROVE  \/ \E u \in Users : \/ Entering(u) \/ Locking(u) \/ Publishing(u) \/ Mounting(u)
                              \/ Undoing(u) \/ Using(u) \/ Dying(u)
           \/ Besides \/ UNCHANGED poolvars
  BY DEF PoolNext, Prepare, Entering, Locking, Publishing, Mounting, Undoing, Using, Dying, Besides

-----------------------------------------------------------------------------
(* Types: those of the locks, of the build directories, and the rest. *)

Seats == [upper : {"full", "empty", "delta"}, marker : BOOLEAN, backup : {"none", "full", "empty"},
          made : BOOLEAN]
LockTypes ==
  /\ leased \subseteq Users
  /\ exclusive \in Users \cup {Nil, "gc"} /\ publisher \in Users \cup {Nil}
  /\ exclusive # Nil => leased = {}
RestTypes ==
  /\ entry \in {"absent", "whole", "unsynced", "torn", "damaged"}
  /\ at \in [Users -> Places]
  /\ want \in [Users -> {"off", "auto", "required"}]
  /\ staged \in [Users -> {"none", "filled", "durable"}]
  /\ litter \subseteq {"stage", "trash"}
  /\ strays \subseteq Users
  /\ stopped \in BOOLEAN /\ tampered \in BOOLEAN
  /\ rounds \in [Users -> 0..MaxRounds]
  /\ upset \in 0..MaxStrikes
SeatTypes == seat \in [Users -> Seats]

LEMMA PoolTypes == PoolTypeOK <=> LockTypes /\ RestTypes /\ SeatTypes
  BY DEF PoolTypeOK, LockTypes, RestTypes, SeatTypes, Seats

\* A checkout's build directory is replaced.
LEMMA Reseated ==
    ASSUME SeatTypes, NEW u \in Users, NEW s \in Seats, seat' = [seat EXCEPT ![u] = s]
    PROVE  SeatTypes'
  BY DEF SeatTypes

\* An exclusive lease is taken only where there is no shared one, and keeps shared ones out.
LEMMA LockTypesStep ==
    ASSUME PoolAssumption, PoolInv, [PoolNext]_poolvars
    PROVE  LockTypes'
  <1> USE PoolTypes DEF PoolInv, At, Go, LockTypes, RestTypes, PoolAssumption
  <1>1. ASSUME NEW u \in Users, Entering(u) PROVE LockTypes'
    BY <1>1 DEF Entering, Enter
  <1>2. ASSUME NEW u \in Users, Locking(u) PROVE LockTypes'
    BY <1>2 DEF Locking, FirstLook, TakePublisher, LookAgain, Upgrade, Relock, Share, MayShare, MayExclude,
       Intact, Distrust, OnlyPublisher
  <1>3. ASSUME NEW u \in Users, Publishing(u) PROVE LockTypes'
    BY <1>3 DEF Publishing, Extract, Settle, Publish, Intact, Distrust, Verified
  <1>4. ASSUME NEW u \in Users, Mounting(u) PROVE LockTypes'
    BY <1>4 DEF Mounting, Detach, Unmark, MoveAside, Mark, Probe, AfterDetach, Marked, Distrust
  <1>5. ASSUME NEW u \in Users, Undoing(u) PROVE LockTypes'
    BY <1>5 DEF Undoing, GiveUp, Undo, Release
  <1>6. ASSUME NEW u \in Users, Using(u) PROVE LockTypes'
    BY <1>6 DEF Using, PrivateEnds, SharedEnds, Preserve, PreserveEnds, Release, Share, MayShare
  <1>7. ASSUME NEW u \in Users, Dying(u) PROVE LockTypes'
    BY <1>7 DEF Dying, Kill, StrayExits, Died, LosesLease, Release
  <1>8. CASE Besides
    BY <1>8 DEF Besides, Collect, Sweep, PowerFails, Tamper, MayCollect, MayExclude
  <1>9. CASE UNCHANGED poolvars
    BY <1>9 DEF poolvars
  <1> QED
    BY PoolMoves, <1>1, <1>2, <1>3, <1>4, <1>5, <1>6, <1>7, <1>8, <1>9

LEMMA RestTypesStep ==
    ASSUME PoolAssumption, PoolInv, [PoolNext]_poolvars
    PROVE  RestTypes'
  <1> USE PoolTypes DEF PoolInv, At, Go, RestTypes, PoolAssumption, Places
  <1>1. ASSUME NEW u \in Users, Entering(u) PROVE RestTypes'
    BY <1>1 DEF Entering, Enter
  <1>2. ASSUME NEW u \in Users, Locking(u) PROVE RestTypes'
    BY <1>2 DEF Locking, FirstLook, TakePublisher, LookAgain, Upgrade, Relock, Share, MayShare, MayExclude,
       Intact, Distrust, OnlyPublisher
  <1>3. ASSUME NEW u \in Users, Publishing(u) PROVE RestTypes'
    BY <1>3 DEF Publishing, Extract, Settle, Publish, Intact, Distrust, Verified
  <1>4. ASSUME NEW u \in Users, Mounting(u) PROVE RestTypes'
    BY <1>4 DEF Mounting, Detach, Unmark, MoveAside, Mark, Probe, AfterDetach, Marked, Distrust
  <1>5. ASSUME NEW u \in Users, Undoing(u) PROVE RestTypes'
    BY <1>5 DEF Undoing, GiveUp, Undo, Release
  <1>6. ASSUME NEW u \in Users, Using(u) PROVE RestTypes'
    BY <1>6 DEF Using, PrivateEnds, SharedEnds, Preserve, PreserveEnds, Release, Share, MayShare
  <1>7. ASSUME NEW u \in Users, Dying(u) PROVE RestTypes'
    BY <1>7 DEF Dying, Kill, StrayExits, Died, LosesLease, Release
  <1>8. CASE Besides
    <2>1. CASE PowerFails
      <3>1. upset' \in 0..MaxStrikes /\ entry' \in {"absent", "whole", "unsynced", "torn", "damaged"}
        BY <2>1 DEF PowerFails
      <3>2. at' \in [Users -> Places] /\ staged' \in [Users -> {"none", "filled", "durable"}]
        BY <2>1 DEF PowerFails
      <3> QED
        BY <2>1, <3>1, <3>2 DEF PowerFails
    <2>2. CASE Collect \/ Sweep \/ Tamper
      BY <2>2 DEF Collect, Sweep, Tamper
    <2> QED
      BY <1>8, <2>1, <2>2 DEF Besides
  <1>9. CASE UNCHANGED poolvars
    BY <1>9 DEF poolvars
  <1> QED
    BY PoolMoves, <1>1, <1>2, <1>3, <1>4, <1>5, <1>6, <1>7, <1>8, <1>9

\* Each change of a build directory leaves one.
LEMMA SeatTypesStep ==
    ASSUME PoolAssumption, PoolInv, [PoolNext]_poolvars
    PROVE  SeatTypes'
  <1> USE PoolTypes DEF PoolInv, At, Go, SeatTypes, DeltasMarked, Sparse
  <1>1. ASSUME NEW u \in Users, Entering(u) PROVE SeatTypes'
    <2>1. seat[u] \in Seats
      BY PoolTypes DEF SeatTypes
    <2>2. [seat[u] EXCEPT !.made = FALSE] \in Seats
      BY <2>1 DEF Seats
    <2>3. seat' = [seat EXCEPT ![u] = [seat[u] EXCEPT !.made = FALSE]]
      BY <1>1 DEF Entering, Enter
    <2> QED
      BY <2>2, <2>3, Reseated, PoolTypes
  <1>2. ASSUME NEW u \in Users, Locking(u) PROVE SeatTypes'
    BY <1>2 DEF Locking, FirstLook, TakePublisher, LookAgain, Upgrade, Relock, Share, MayShare, MayExclude,
       Intact, Distrust, OnlyPublisher
  <1>3. ASSUME NEW u \in Users, Publishing(u) PROVE SeatTypes'
    BY <1>3 DEF Publishing, Extract, Settle, Publish, Intact, Distrust, Verified
  <1>4. ASSUME NEW u \in Users, Mounting(u) PROVE SeatTypes'
    <2>1. seat[u] \in Seats
      BY PoolTypes DEF SeatTypes
    <2>2. CASE Detach(u)
      <3>1. [seat[u] EXCEPT !.upper = "empty"] \in Seats
        BY <2>1 DEF Seats
      <3>2. seat' = seat \/ seat' = [seat EXCEPT ![u] = [seat[u] EXCEPT !.upper = "empty"]]
        BY <2>2 DEF Detach
      <3> QED
        BY <3>1, <3>2, Reseated, PoolTypes DEF SeatTypes
    <2>3. CASE Unmark(u) \/ Mark(u)
      <3>1. \A b \in BOOLEAN : [seat[u] EXCEPT !.marker = b] \in Seats
        BY <2>1 DEF Seats
      <3>2. \E b \in BOOLEAN : seat' = [seat EXCEPT ![u] = [seat[u] EXCEPT !.marker = b]]
        BY <2>3 DEF Unmark, Mark, Marked
      <3> QED
        BY <3>1, <3>2, Reseated, PoolTypes
    <2>4. CASE MoveAside(u)
      <3>1. seat[u].upper \in {"full", "empty"}
        BY <2>1, <2>4 DEF MoveAside, Seats
      <3>2. [seat[u] EXCEPT !.backup = seat[u].upper, !.upper = "empty", !.made = TRUE] \in Seats
        BY <2>1, <3>1 DEF Seats
      <3>3. seat' = [seat EXCEPT ![u] = [seat[u] EXCEPT !.backup = seat[u].upper, !.upper = "empty", !.made = TRUE]]
        BY <2>1, <2>4 DEF MoveAside, SeatTypes, Seats
      <3> QED
        BY <3>2, <3>3, Reseated, PoolTypes
    <2>5. CASE Probe(u)
      <3>1. [seat[u] EXCEPT !.upper = "delta"] \in Seats
        BY <2>1 DEF Seats
      <3>2. seat' = seat \/ seat' = [seat EXCEPT ![u] = [seat[u] EXCEPT !.upper = "delta"]]
        BY <2>5 DEF Probe
      <3> QED
        BY <3>1, <3>2, Reseated, PoolTypes DEF SeatTypes
    <2> QED
      BY <1>4, <2>2, <2>3, <2>4, <2>5 DEF Mounting
  <1>5. ASSUME NEW u \in Users, Undoing(u) PROVE SeatTypes'
    <2>1. seat[u] \in Seats
      BY PoolTypes DEF SeatTypes
    <2>2. CASE Undo(u)
      <3> DEFINE Back == [seat[u] EXCEPT !.upper = seat[u].backup, !.backup = "none", !.marker = FALSE]
                 Off == [seat[u] EXCEPT !.upper = IF seat[u].marker THEN "empty" ELSE @, !.marker = FALSE]
      <3>1. (seat[u].backup # "none" => Back \in Seats) /\ Off \in Seats
        BY <2>1 DEF Seats
      <3>2. \/ seat[u].backup # "none" /\ seat' = [seat EXCEPT ![u] = Back]
            \/ seat' = [seat EXCEPT ![u] = Off]
        BY <2>2 DEF Undo
      <3> QED
        BY <3>1, <3>2, Reseated, PoolTypes
    <2> QED
      BY <1>5, <2>2 DEF Undoing, GiveUp, SeatTypes
  <1>6. ASSUME NEW u \in Users, Using(u) PROVE SeatTypes'
    <2>1. seat[u] \in Seats
      BY PoolTypes DEF SeatTypes
    <2>2. CASE PrivateEnds(u)
      <3>1. \A warm \in {"full", seat[u].upper} : [seat[u] EXCEPT !.upper = warm] \in Seats
        BY <2>1 DEF Seats
      <3>2. \E warm \in {"full", seat[u].upper} : seat' = [seat EXCEPT ![u] = [seat[u] EXCEPT !.upper = warm]]
        BY <2>2 DEF PrivateEnds
      <3> QED
        BY <3>1, <3>2, Reseated, PoolTypes
    <2>3. CASE SharedEnds(u)
      <3>1. \A backup \in {"none", seat[u].backup} : [seat[u] EXCEPT !.backup = backup] \in Seats
        BY <2>1 DEF Seats
      <3>2. \E backup \in {"none", seat[u].backup} : seat' = [seat EXCEPT ![u] = [seat[u] EXCEPT !.backup = backup]]
        BY <2>3 DEF SharedEnds
      <3> QED
        BY <3>1, <3>2, Reseated, PoolTypes
    <2>4. CASE Preserve(u)
      <3>1. [seat[u] EXCEPT !.made = FALSE] \in Seats
        BY <2>1 DEF Seats
      <3>2. seat' = [seat EXCEPT ![u] = [seat[u] EXCEPT !.made = FALSE]]
        BY <2>4 DEF Preserve
      <3> QED
        BY <3>1, <3>2, Reseated, PoolTypes
    <2> QED
      BY <1>6, <2>2, <2>3, <2>4 DEF Using, PreserveEnds, SeatTypes
  <1>7. ASSUME NEW u \in Users, Dying(u) PROVE SeatTypes'
    BY <1>7 DEF Dying, Kill, StrayExits, Died, LosesLease, Release
  <1>8. CASE Besides
    BY <1>8 DEF Besides, Collect, Sweep, PowerFails, Tamper, MayCollect, MayExclude
  <1>9. CASE UNCHANGED poolvars
    BY <1>9 DEF poolvars
  <1> QED
    BY PoolMoves, <1>1, <1>2, <1>3, <1>4, <1>5, <1>6, <1>7, <1>8, <1>9

-----------------------------------------------------------------------------
(* The rest of the invariant. *)

\* Only a modification makes a published snapshot look damaged.
LEMMA HonestStep ==
    ASSUME PoolAssumption, PoolInv, [PoolNext]_poolvars
    PROVE  Honest'
  <1> USE PoolTypes DEF PoolInv, At, Go, LockTypes, RestTypes, Honest, Publishers
  <1>1. ASSUME NEW u \in Users, Entering(u) PROVE Honest'
    BY <1>1 DEF Entering, Enter
  <1>2. ASSUME NEW u \in Users, Locking(u) PROVE Honest'
    BY <1>2 DEF Locking, FirstLook, TakePublisher, LookAgain, Upgrade, Relock, Share, MayShare, MayExclude,
       Intact, Distrust, OnlyPublisher
  <1>3. ASSUME NEW u \in Users, Publishing(u) PROVE Honest'
    BY <1>3 DEF Publishing, Extract, Settle, Publish, Intact, Distrust, Verified
  <1>4. ASSUME NEW u \in Users, Mounting(u) PROVE Honest'
    BY <1>4 DEF Mounting, Detach, Unmark, MoveAside, Mark, Probe, AfterDetach, Marked, Distrust
  <1>5. ASSUME NEW u \in Users, Undoing(u) PROVE Honest'
    BY <1>5 DEF Undoing, GiveUp, Undo, Release
  <1>6. ASSUME NEW u \in Users, Using(u) PROVE Honest'
    BY <1>6 DEF Using, PrivateEnds, SharedEnds, Preserve, PreserveEnds, Release, Share, MayShare
  <1>7. ASSUME NEW u \in Users, Dying(u) PROVE Honest'
    BY <1>7 DEF Dying, Kill, StrayExits, Died, LosesLease, Release
  <1>8. CASE Besides
    BY <1>8 DEF Besides, Collect, Sweep, PowerFails, Tamper, MayCollect, MayExclude
  <1>9. CASE UNCHANGED poolvars
    BY <1>9 DEF poolvars
  <1> QED
    BY PoolMoves, <1>1, <1>2, <1>3, <1>4, <1>5, <1>6, <1>7, <1>8, <1>9

\* The marker is written before the overlay is mounted, and taken away after the upper part is emptied.
LEMMA DeltasStep ==
    ASSUME PoolAssumption, PoolInv, [PoolNext]_poolvars
    PROVE  DeltasMarked'
  <1> USE PoolTypes DEF PoolInv, At, Go, RestTypes, SeatTypes, Seats, DeltasMarked, Sparse
  <1>1. ASSUME NEW u \in Users, Entering(u) PROVE DeltasMarked'
    BY <1>1 DEF Entering, Enter
  <1>2. ASSUME NEW u \in Users, Locking(u) PROVE DeltasMarked'
    BY <1>2 DEF Locking, FirstLook, TakePublisher, LookAgain, Upgrade, Relock, Share, MayShare, MayExclude,
       Intact, Distrust, OnlyPublisher
  <1>3. ASSUME NEW u \in Users, Publishing(u) PROVE DeltasMarked'
    BY <1>3 DEF Publishing, Extract, Settle, Publish, Intact, Distrust, Verified
  <1>4. ASSUME NEW u \in Users, Mounting(u) PROVE DeltasMarked'
    BY <1>4 DEF Mounting, Detach, Unmark, MoveAside, Mark, Probe, AfterDetach, Marked, Distrust
  <1>5. ASSUME NEW u \in Users, Undoing(u) PROVE DeltasMarked'
    <2>1. CASE GiveUp(u)
      BY <2>1 DEF GiveUp
    <2>2. CASE Undo(u)
      <3>1. seat'[u].upper # "delta"
        BY <2>2 DEF Undo
      <3>2. \A v \in Users : v # u => seat'[v] = seat[v] /\ at'[v] = at[v]
        BY <2>2 DEF Undo
      <3>3. at'[u] \in {"idle", "bare"}
        BY <2>2 DEF Undo
      <3> QED
        BY <3>1, <3>2, <3>3
    <2> QED
      BY <1>5, <2>1, <2>2 DEF Undoing
  <1>6. ASSUME NEW u \in Users, Using(u) PROVE DeltasMarked'
    BY <1>6 DEF Using, PrivateEnds, SharedEnds, Preserve, PreserveEnds, Release, Share, MayShare
  <1>7. ASSUME NEW u \in Users, Dying(u) PROVE DeltasMarked'
    BY <1>7 DEF Dying, Kill, StrayExits, Died, LosesLease, Release
  <1>8. CASE Besides
    BY <1>8 DEF Besides, Collect, Sweep, PowerFails, Tamper, MayCollect, MayExclude
  <1>9. CASE UNCHANGED poolvars
    BY <1>9 DEF poolvars
  <1> QED
    BY PoolMoves, <1>1, <1>2, <1>3, <1>4, <1>5, <1>6, <1>7, <1>8, <1>9

\* Between an exclusive lease and its release nobody but the publisher makes or removes an entry.
LEMMA PublishersStep ==
    ASSUME PoolAssumption, PoolInv, [PoolNext]_poolvars
    PROVE  Publishers'
  <1> USE PoolTypes DEF PoolInv, At, Go, LockTypes, RestTypes, Honest, Publishers, PoolAssumption
  <1>1. ASSUME NEW u \in Users, Entering(u) PROVE Publishers'
    BY <1>1 DEF Entering, Enter
  <1>2. ASSUME NEW u \in Users, Locking(u) PROVE Publishers'
    BY <1>2 DEF Locking, FirstLook, TakePublisher, LookAgain, Upgrade, Relock, Share, MayShare, MayExclude,
       Intact, Distrust, OnlyPublisher
  <1>3. ASSUME NEW u \in Users, Publishing(u) PROVE Publishers'
    BY <1>3 DEF Publishing, Extract, Settle, Publish, Intact, Distrust, Verified
  <1>4. ASSUME NEW u \in Users, Mounting(u) PROVE Publishers'
    BY <1>4 DEF Mounting, Detach, Unmark, MoveAside, Mark, Probe, AfterDetach, Marked, Distrust
  <1>5. ASSUME NEW u \in Users, Undoing(u) PROVE Publishers'
    BY <1>5 DEF Undoing, GiveUp, Undo, Release
  <1>6. ASSUME NEW u \in Users, Using(u) PROVE Publishers'
    BY <1>6 DEF Using, PrivateEnds, SharedEnds, Preserve, PreserveEnds, Release, Share, MayShare
  <1>7. ASSUME NEW u \in Users, Dying(u) PROVE Publishers'
    BY <1>7 DEF Dying, Kill, StrayExits, Died, LosesLease, Release
  <1>8. CASE Besides
    BY <1>8 DEF Besides, Collect, Sweep, PowerFails, Tamper, MayCollect, MayExclude
  <1>9. CASE UNCHANGED poolvars
    BY <1>9 DEF poolvars
  <1> QED
    BY PoolMoves, <1>1, <1>2, <1>3, <1>4, <1>5, <1>6, <1>7, <1>8, <1>9

\* A collector removes an entry only where nobody has it leased.
LEMMA LeasesStep ==
    ASSUME PoolAssumption, PoolInv, [PoolNext]_poolvars
    PROVE  Leases'
  <1> USE PoolTypes DEF PoolInv, At, Go, LockTypes, RestTypes, Publishers, Leases, Reads
  <1>1. ASSUME NEW u \in Users, Entering(u) PROVE Leases'
    BY <1>1 DEF Entering, Enter
  <1>2. ASSUME NEW u \in Users, Locking(u) PROVE Leases'
    BY <1>2 DEF Locking, FirstLook, TakePublisher, LookAgain, Upgrade, Relock, Share, MayShare, MayExclude,
       Intact, Distrust, OnlyPublisher
  <1>3. ASSUME NEW u \in Users, Publishing(u) PROVE Leases'
    BY <1>3 DEF Publishing, Extract, Settle, Publish, Intact, Distrust, Verified
  <1>4. ASSUME NEW u \in Users, Mounting(u) PROVE Leases'
    BY <1>4 DEF Mounting, Detach, Unmark, MoveAside, Mark, Probe, AfterDetach, Marked, Distrust
  <1>5. ASSUME NEW u \in Users, Undoing(u) PROVE Leases'
    BY <1>5 DEF Undoing, GiveUp, Undo, Release
  <1>6. ASSUME NEW u \in Users, Using(u) PROVE Leases'
    BY <1>6 DEF Using, PrivateEnds, SharedEnds, Preserve, PreserveEnds, Release, Share, MayShare
  <1>7. ASSUME NEW u \in Users, Dying(u) PROVE Leases'
    BY <1>7 DEF Dying, Kill, StrayExits, Died, LosesLease, Release
  <1>8. CASE Besides
    BY <1>8 DEF Besides, Collect, Sweep, PowerFails, Tamper, MayCollect, MayExclude
  <1>9. CASE UNCHANGED poolvars
    BY <1>9 DEF poolvars
  <1> QED
    BY PoolMoves, <1>1, <1>2, <1>3, <1>4, <1>5, <1>6, <1>7, <1>8, <1>9

LEMMA PoolStarts == ASSUME PoolAssumption, PoolInit PROVE PoolInv
  <1>1. LockTypes /\ Honest /\ Publishers /\ Leases
    BY DEF PoolInit, PoolAssumption, LockTypes, Honest, Publishers, Leases, Reads
  <1>2. RestTypes
    <2>1. at \in [Users -> Places] /\ want \in [Users -> {"off", "auto", "required"}]
      BY DEF PoolInit, Places
    <2>2. staged \in [Users -> {"none", "filled", "durable"}] /\ rounds \in [Users -> 0..MaxRounds]
      BY DEF PoolInit, PoolAssumption
    <2>3. /\ entry \in {"absent", "whole"} /\ litter = {} /\ strays = {}
          /\ stopped = FALSE /\ tampered = FALSE /\ upset \in 0..MaxStrikes
      BY DEF PoolInit, PoolAssumption
    <2> QED
      BY <2>1, <2>2, <2>3 DEF RestTypes
  <1>3. SeatTypes
    <2>1. [upper |-> "full", marker |-> FALSE, backup |-> "none", made |-> FALSE] \in Seats
      BY DEF Seats
    <2> QED
      BY <2>1 DEF SeatTypes, PoolInit
  <1>4. DeltasMarked
    BY DEF DeltasMarked, Sparse, PoolInit
  <1> QED
    BY <1>1, <1>2, <1>3, <1>4, PoolTypes DEF PoolInv

LEMMA PoolGoesOn == ASSUME PoolAssumption, PoolInv, [PoolNext]_poolvars PROVE PoolInv'
  <1>1. PoolTypeOK'
    BY LockTypesStep, RestTypesStep, SeatTypesStep DEF PoolTypeOK, LockTypes, RestTypes, SeatTypes, Seats
  <1> QED
    BY <1>1, HonestStep, DeltasStep, PublishersStep, LeasesStep DEF PoolInv

LEMMA PoolInvSafe == PoolInv => SharingSafe
  BY DEF PoolInv, SharingSafe, Honest, NoFalseAlarm, DeltasMarked, Sparse, DeltaNeverBare, At, Publishers,
     Leases,
     UpgradeUnobstructed

\* Under a reader nobody publishes: a publisher has the lease exclusively.
LEMMA ReadersKeepLower == ASSUME PoolAssumption, PoolInv, [PoolNext]_poolvars PROVE LowerStays
  <1> SUFFICES ASSUME NEW v \in Users, Reads(v), Reads(v)' PROVE entry' # "absent" /\ (Intact' => Intact)
    BY DEF LowerStays
  <1>1. v \in leased /\ entry # "absent" /\ PoolInv'
    BY PoolGoesOn DEF PoolInv, Leases
  <1>2. entry' # "absent"
    BY <1>1 DEF PoolInv, Leases
  <1>3. ASSUME NEW u \in Users, Publishing(u) PROVE entry' = entry
    <2>1. at[u] # "stage"
      BY <1>1 DEF PoolInv, Publishers
    <2> QED
      BY <1>3, <2>1 DEF Publishing, Extract, Settle, Publish, At
  <1>4. ASSUME NEW u \in Users,
               Entering(u) \/ Locking(u) \/ Mounting(u) \/ Undoing(u) \/ Using(u) \/ Dying(u)
        PROVE  entry' = entry
    BY <1>4 DEF Entering, Enter, Locking, FirstLook, TakePublisher, LookAgain, Upgrade, Relock, Mounting,
       Detach,
       Unmark, MoveAside, Mark, Probe, Undoing, GiveUp, Undo, Using, PrivateEnds, SharedEnds, Preserve, PreserveEnds,
       Dying, Kill, StrayExits
  <1>5. CASE Besides
    BY <1>2, <1>5 DEF Besides, Collect, Sweep, PowerFails, Tamper, Intact
  <1> QED
    BY <1>2, <1>3, <1>4, <1>5, PoolMoves DEF Intact, poolvars

\* Whatever publishers, readers, the collector, kills and power failures do, sharing is stopped only for a
\* snapshot that was modified, no delta is used as a whole build, and no publisher waits for a paid round
\* (shared_mathlib.view, publish, collect).
THEOREM SharingIsSafe == PoolAssumption => (PoolSpec => []SharingSafe)
  <1> SUFFICES ASSUME PoolAssumption PROVE PoolSpec => []SharingSafe
    OBVIOUS
  <1>1. PoolInit => PoolInv
    BY PoolStarts
  <1>2. PoolInv /\ [PoolNext]_poolvars => PoolInv'
    BY PoolGoesOn
  <1>3. PoolInv => SharingSafe
    BY PoolInvSafe
  <1> QED
    BY <1>1, <1>2, <1>3, PTL DEF PoolSpec

\* No step takes away or replaces the snapshot under an agent that reads it
\* (shared_mathlib.discard_entry, publish).
THEOREM LowerIsKept == PoolAssumption => (PoolSpec => [][LowerStays]_poolvars)
  <1> SUFFICES ASSUME PoolAssumption PROVE PoolSpec => [][LowerStays]_poolvars
    OBVIOUS
  <1>1. PoolInit => PoolInv
    BY PoolStarts
  <1>2. PoolInv /\ [PoolNext]_poolvars => PoolInv'
    BY PoolGoesOn
  <1>3. PoolInv /\ [PoolNext]_poolvars => [LowerStays]_poolvars
    BY ReadersKeepLower
  <1> QED
    BY <1>1, <1>2, <1>3, PTL DEF PoolSpec

-----------------------------------------------------------------------------
(* The rounds. *)


Stages == {"fix", "bump", "rebase", "review"}
Phases == {"none", "survey", "pick", "offered", "close", "charged", "claimed", "agent", "landed", "engine"}
Offers == Prs \X Heads

RoundTyped ==
  /\ kind \in Kinds /\ pull \in [Prs -> [head : Heads, open : BOOLEAN]]
  /\ spent \in [KeySet -> Nat] /\ burnt \in [KeySet -> Nat] /\ refunds \in [Prs -> 0..MaxRefunds]
  /\ due \in BOOLEAN
  /\ drv \in [pc : {"look", "round"}, collisions : 0..2, wait : BOOLEAN, burst : 0..MaxBurst]
  /\ rnd \in [pc : Phases, recovery : BOOLEAN, cands : SUBSET Offers, at : {NoPr} \cup Offers,
              before : [KeySet -> Nat], held : {NoPr} \cup Prs, beats : SUBSET Prs, collided : BOOLEAN]

\* A failure that counts was charged, and no more is charged than the limit.
FailuresCharged == \A k \in KeySet : burnt[k] <= spent[k] /\ spent[k] <= Limit(k)

\* A round offers a pull request once, and it has an attempt left unless it is to be closed.
Undecided == IF rnd.pc = "offered" THEN rnd.cands \cup {rnd.at} ELSE rnd.cands
OffersAllowed ==
  /\ \A c, d \in Undecided : c[1] = d[1] => c = d
  /\ \A c \in Undecided : kind[c[1]] = "fix" \/ ~Spent(c[1], c[2])

\* What the attempt at hand was charged and has not earned yet.
ChargeAtHand ==
  /\ rnd.pc \notin {"none", "survey", "pick"} => rnd.at \in Offers
  /\ rnd.pc = "offered" => rnd.at \notin rnd.cands
  /\ rnd.pc \in {"charged", "claimed", "agent"} =>
       \A k \in AtKeys : spent[k] = rnd.before[k] + 1
  /\ rnd.pc \in {"charged", "claimed"} => \A k \in AtKeys : burnt[k] <= rnd.before[k]
  /\ rnd.pc = "engine" => \A k \in AtKeys : spent[k] < Limit(k)

\* How many rounds the loop may have started without a sleep, by what else it has counted.
Streak(collided, more) == (IF collided THEN 2 ELSE 0) + more
BurstCounted ==
  /\ drv.pc = "round" <=> rnd.pc # "none"
  /\ rnd.recovery => rnd.pc = "survey"
  /\ drv.burst <= Streak(drv.collisions = 1,
                         IF drv.pc = "look" THEN IF drv.wait THEN 1 ELSE 0
                         ELSE IF rnd.recovery THEN 1 ELSE 2)

RoundsInv == RoundTyped /\ FailuresCharged /\ OffersAllowed /\ ChargeAtHand /\ BurstCounted

-----------------------------------------------------------------------------
(* Keys and counters. *)

LEMMA KeysOf ==
    ASSUME RoundsAssumption, RoundTyped, NEW c \in Offers
    PROVE  /\ c[1] \in Prs /\ c[2] \in Heads
           /\ Keys(c[1], c[2]) \subseteq KeySet
           /\ \A k \in Keys(c[1], c[2]) : k[1] = c[1]
  <1>1. c[1] \in Prs /\ c[2] \in Heads /\ MaxHead \in Nat
    BY DEF Offers, RoundsAssumption
  <1>2. <<c[1], c[2]>> \in KeySet /\ <<c[1], 0>> \in KeySet
    BY <1>1 DEF KeySet, Heads
  <1> QED
    BY <1>1, <1>2 DEF Keys

LEMMA Limits ==
    ASSUME RoundsAssumption
    PROVE  \A k \in KeySet : Limit(k) \in Nat \ {0}
  BY DEF RoundsAssumption, Limit

LEMMA CounterSteps ==
    ASSUME RoundsAssumption, NEW f \in [KeySet -> Nat], NEW keys \in SUBSET KeySet
    PROVE  /\ Adding(f, keys) \in [KeySet -> Nat] /\ Taking(f, keys) \in [KeySet -> Nat]
           /\ \A k \in KeySet \ keys : Adding(f, keys)[k] = f[k] /\ Taking(f, keys)[k] = f[k]
           /\ \A k \in keys : /\ Adding(f, keys)[k] = AtMost(f[k] + 1, Limit(k) + 1)
                              /\ Taking(f, keys)[k] = Less(f[k])
  <1>1. \A k \in KeySet : f[k] \in Nat /\ Limit(k) \in Nat
    BY Limits
  <1>2. \A k \in KeySet : AtMost(f[k] + 1, Limit(k) + 1) \in Nat /\ Less(f[k]) \in Nat
    BY <1>1 DEF AtMost, Less
  <1> QED
    BY <1>1, <1>2 DEF Adding, Taking

LEMMA CounterResets ==
    ASSUME NEW f \in [KeySet -> Nat], rnd.before \in [KeySet -> Nat], AtKeys \subseteq KeySet
    PROVE  /\ Restored(f) \in [KeySet -> Nat] /\ Cleared(f) \in [KeySet -> Nat]
           /\ \A k \in KeySet \ AtKeys : Restored(f)[k] = f[k] /\ Cleared(f)[k] = f[k]
           /\ \A k \in AtKeys : /\ Restored(f)[k] = AtMost(f[k], rnd.before[k])
                                /\ Cleared(f)[k] = 0
  BY DEF Restored, Cleared, AtMost

\* Who has an attempt left keeps it while no counter of his grows.
LEMMA AttemptKept ==
    ASSUME RoundsAssumption, RoundTyped, RoundTyped', NEW c \in Offers, ~Spent(c[1], c[2]), kind' = kind,
           \A k \in Keys(c[1], c[2]) : spent'[k] <= spent[k]
    PROVE  ~Spent(c[1], c[2])'
  <1>1. Keys(c[1], c[2])' = Keys(c[1], c[2])
    BY DEF Keys
  <1>2. \A k \in Keys(c[1], c[2]) : spent[k] \in Nat /\ spent'[k] \in Nat /\ Limit(k) \in Nat
    BY KeysOf, Limits DEF RoundTyped
  <1>3. \A k \in Keys(c[1], c[2]) : spent[k] < Limit(k)
    BY <1>2 DEF Spent
  <1>4. \A k \in Keys(c[1], c[2]) : ~(spent'[k] >= Limit(k))
    BY <1>2, <1>3
  <1> QED
    BY <1>1, <1>4 DEF Spent
-----------------------------------------------------------------------------
(* How a round ends. *)

LoopType == [pc : {"look", "round"}, collisions : 0..2, wait : BOOLEAN, burst : 0..MaxBurst]
RoundType == [pc : Phases, recovery : BOOLEAN, cands : SUBSET Offers, at : {NoPr} \cup Offers,
              before : [KeySet -> Nat], held : {NoPr} \cup Prs, beats : SUBSET Prs, collided : BOOLEAN]

LEMMA NoRoundTyped == NoRound \in RoundType /\ NoRound.pc = "none" /\ ~NoRound.recovery /\ NoRound.cands = {}
  BY DEF NoRound, RoundType, Phases

\* The loop's record after a sleep and without one.
LEMMA LoopRecords ==
    ASSUME RoundsAssumption, NEW d \in LoopType
    PROVE  /\ d.burst \in Nat /\ d.collisions \in 0..2 /\ d.wait \in BOOLEAN
           /\ \A long \in BOOLEAN : /\ Nap(d, long) \in LoopType /\ Nap(d, long).pc = "look"
                                    /\ Nap(d, long).burst = 0
           /\ NoNap(d) \in LoopType /\ NoNap(d).pc = "look" /\ NoNap(d).burst = d.burst
           /\ NoNap(d).collisions = d.collisions /\ NoNap(d).wait = d.wait
           /\ Calm(d) \in LoopType
           /\ Collision(d) \in LoopType /\ Collision(d).burst = d.burst
           /\ Collision(d).collisions = IF d.collisions = 0 THEN 1 ELSE 2
  <1>1. MaxBurst \in Nat
    BY DEF RoundsAssumption
  <1>2. d.burst \in Nat /\ d.collisions \in 0..2 /\ d.wait \in BOOLEAN
    BY <1>1 DEF LoopType
  <1>3. ASSUME NEW long \in BOOLEAN
        PROVE  Nap(d, long) \in LoopType /\ Nap(d, long).pc = "look" /\ Nap(d, long).burst = 0
    <2>1. ASSUME NEW w \in BOOLEAN
          PROVE  LET e == [d EXCEPT !.pc = "look", !.burst = 0, !.wait = w]
                 IN  e \in LoopType /\ e.pc = "look" /\ e.burst = 0
      <3> DEFINE f == [d EXCEPT !.pc = "look"]
                 g == [f EXCEPT !.burst = 0]
                 e == [g EXCEPT !.wait = w]
      <3>1. f \in LoopType /\ f.pc = "look"
        BY DEF LoopType
      <3> HIDE DEF f
      <3>2. g \in LoopType /\ g.pc = "look" /\ g.burst = 0
        BY <1>1, <3>1 DEF LoopType
      <3> HIDE DEF g
      <3>3. e \in LoopType /\ e.pc = "look" /\ e.burst = 0
        BY <3>2 DEF LoopType
      <3> QED
        BY <3>3 DEF f, g
    <2>2. (d.wait /\ ~long) \in BOOLEAN
      BY <1>2
    <2> QED
      BY <2>1, <2>2 DEF Nap
  <1>4. /\ NoNap(d) \in LoopType /\ NoNap(d).pc = "look" /\ NoNap(d).burst = d.burst
        /\ NoNap(d).collisions = d.collisions /\ NoNap(d).wait = d.wait
    BY <1>1 DEF LoopType, NoNap
  <1>5. Calm(d) \in LoopType
    BY <1>1 DEF LoopType, Calm
  <1>6. AtMost(d.collisions + 1, 2) = IF d.collisions = 0 THEN 1 ELSE 2
    BY <1>2 DEF AtMost
  <1>7. ASSUME NEW n \in 0..2
        PROVE  LET e == [d EXCEPT !.collisions = n]
               IN  e \in LoopType /\ e.burst = d.burst /\ e.collisions = n
    BY <1>1 DEF LoopType
  <1>8. /\ Collision(d) \in LoopType /\ Collision(d).burst = d.burst
        /\ Collision(d).collisions = AtMost(d.collisions + 1, 2)
    <2>1. AtMost(d.collisions + 1, 2) \in 0..2
      BY <1>6
    <2> QED
      BY <1>7, <2>1 DEF Collision
  <1> QED
    BY <1>2, <1>3, <1>4, <1>5, <1>6, <1>8

\* A sleep wipes the burst, and without one it is not longer than the loop may look back on.
LEMMA RoundOver ==
    ASSUME RoundsAssumption, RoundTyped, BurstCounted, rnd.pc # "none", NEW rc, Over(rc),
           rc = "idle" => rnd.recovery, rc = "collision" => ~rnd.recovery
    PROVE  rnd' = NoRound /\ due' \in BOOLEAN /\ drv' \in LoopType /\ BurstCounted'
  <1>1. rnd' = NoRound /\ due' \in BOOLEAN
    BY DEF Over
  <1>2. PICK wait \in BOOLEAN : drv' \in Settled(rc, Probed([drv EXCEPT !.wait = wait]))
    BY DEF Over, RoundTyped
  <1>3. drv \in LoopType /\ drv.pc = "round" /\ MaxBurst \in Nat
    BY DEF RoundTyped, LoopType, BurstCounted, RoundsAssumption
  <1> DEFINE d == Probed([drv EXCEPT !.wait = wait])
  <1>4. d \in LoopType
    BY <1>3 DEF Probed, LoopType
  <1>5. d.burst = drv.burst /\ d.collisions = drv.collisions /\ (rnd.recovery => d.wait)
    BY <1>3 DEF Probed, LoopType
  <1>6. d.burst <= Streak(d.collisions = 1, IF rnd.recovery THEN 1 ELSE 2)
    BY <1>3, <1>5 DEF BurstCounted
  <1> HIDE DEF d
  <1>7. /\ drv' \in LoopType /\ drv'.pc = "look"
        /\ drv'.burst <= Streak(drv'.collisions = 1, IF drv'.wait THEN 1 ELSE 0)
    <2>1. CASE rc = "idle"
      <3>1. drv' = NoNap(d)
        BY <1>2, <2>1 DEF d, Settled, Idle
      <3> QED
        BY <1>4, <1>5, <1>6, <2>1, <3>1, LoopRecords
    <2>2. CASE rc = "collision"
      <3>1. drv' = CollisionNap(Collision(d))
        BY <1>2, <2>2 DEF d, Settled
      <3>2. Collision(d) \in LoopType
        BY <1>4, LoopRecords
      <3>3. CASE d.collisions = 0
        <4>1. Collision(d).collisions = 1 /\ Collision(d).burst = d.burst /\ d.burst \in Nat
          BY <1>4, <3>3, LoopRecords
        <4>2. drv' = NoNap(Collision(d))
          BY <3>1, <4>1 DEF CollisionNap
        <4>3. d.burst <= 2
          BY <1>6, <2>2, <3>3 DEF Streak
        <4>4. drv' \in LoopType /\ drv'.pc = "look" /\ drv'.burst = d.burst /\ drv'.collisions = 1
          BY <3>2, <4>1, <4>2, LoopRecords
        <4> QED
          BY <4>1, <4>3, <4>4 DEF Streak
      <3>4. CASE d.collisions # 0
        <4>1. Collision(d).collisions = 2
          BY <1>4, <3>4, LoopRecords
        <4>2. drv' = Nap(Collision(d), FALSE)
          BY <3>1, <4>1 DEF CollisionNap
        <4>3. drv' \in LoopType /\ drv'.pc = "look" /\ drv'.burst = 0
          BY <3>2, <4>2, LoopRecords
        <4> QED
          BY <4>3 DEF Streak
      <3> QED
        BY <3>3, <3>4
    <2>3. CASE rc \notin {"idle", "collision"}
      <3>1. PICK long \in BOOLEAN : drv' = Nap(Calm(d), long)
        BY <1>2, <2>3 DEF d, Settled
      <3>2. drv' \in LoopType /\ drv'.pc = "look" /\ drv'.burst = 0
        BY <1>4, <3>1, LoopRecords
      <3> QED
        BY <3>2 DEF Streak
    <2> QED
      BY <2>1, <2>2, <2>3
  <1> QED
    BY <1>1, <1>7, NoRoundTyped DEF BurstCounted

LEMMA RoundRaises ==
    ASSUME RoundsAssumption, RoundTyped, BurstCounted, rnd.pc # "none", NEW rc, Raise(rc),
           rc # "idle", rc = "collision" => ~rnd.recovery
    PROVE  rnd' = NoRound /\ due' \in BOOLEAN /\ drv' \in LoopType /\ BurstCounted'
  <1>1. PICK answer \in Answers(rc) : Over(answer)
    BY DEF Raise
  <1>2. answer \in {rc, "github"}
    BY DEF Answers
  <1> QED
    BY <1>1, <1>2, RoundOver

\* What is left to show of a step that ends the round, and of one that does not.
Ends == rnd' = NoRound /\ due' \in BOOLEAN /\ drv' \in LoopType /\ BurstCounted'

LEMMA Ended ==
    ASSUME RoundsInv, Ends, kind' = kind, pull' \in [Prs -> [head : Heads, open : BOOLEAN]],
           refunds' \in [Prs -> 0..MaxRefunds], spent' \in [KeySet -> Nat], burnt' \in [KeySet -> Nat],
           FailuresCharged'
    PROVE  RoundsInv'
  BY NoRoundTyped DEF RoundsInv, Ends, RoundTyped, LoopType, RoundType, OffersAllowed, Undecided, ChargeAtHand

LEMMA GoesOn ==
    ASSUME RoundsInv, UNCHANGED <<kind, due, drv>>, rnd' \in RoundType, rnd.pc # "none", rnd'.pc # "none",
           ~rnd.recovery, ~rnd'.recovery
    PROVE  BurstCounted'
  BY DEF RoundsInv, BurstCounted

\* Offers may go, and those that are left keep an attempt while no counter of theirs grows.
LEMMA OffersKept ==
    ASSUME RoundsAssumption, RoundTyped, RoundTyped', OffersAllowed, kind' = kind, Undecided' \subseteq Undecided,
           Undecided \subseteq Offers,
           \A c \in Undecided' : \A k \in Keys(c[1], c[2]) : spent'[k] <= spent[k]
    PROVE  OffersAllowed'
  <1>1. ASSUME NEW c \in Undecided', kind'[c[1]] # "fix" PROVE ~Spent(c[1], c[2])'
    BY <1>1, AttemptKept DEF OffersAllowed
  <1> QED
    BY <1>1 DEF OffersAllowed
-----------------------------------------------------------------------------
(* The steps between two rounds. *)

LEMMA RoundsBegin == ASSUME RoundsAssumption, RoundsInit PROVE RoundsInv
  <1>1. RoundTyped
    <2>1. {0, MaxBurst, MaxRefunds, MaxHead} \subseteq Nat /\ 1 \in Heads
      BY DEF RoundsAssumption, Heads
    <2>2. drv \in LoopType
      BY <2>1 DEF RoundsInit, LoopType
    <2>3. rnd \in RoundType
      BY NoRoundTyped DEF RoundsInit
    <2>4. pull \in [Prs -> [head : Heads, open : BOOLEAN]] /\ refunds \in [Prs -> 0..MaxRefunds]
      BY <2>1 DEF RoundsInit
    <2> QED
      BY <2>2, <2>3, <2>4 DEF RoundsInit, RoundTyped, LoopType, RoundType
  <1>2. FailuresCharged
    BY Limits DEF RoundsInit, FailuresCharged
  <1>3. OffersAllowed /\ ChargeAtHand
    BY NoRoundTyped DEF RoundsInit, OffersAllowed, Undecided, ChargeAtHand
  <1>4. BurstCounted
    BY NoRoundTyped DEF RoundsInit, BurstCounted, Streak
  <1> QED
    BY <1>1, <1>2, <1>3, <1>4 DEF RoundsInv

\* While no counter and no round changes, only the types and the loop can be disturbed.
LEMMA NothingCounted ==
    ASSUME RoundsInv, RoundTyped', BurstCounted', UNCHANGED <<kind, spent, burnt, rnd>>
    PROVE  RoundsInv'
  BY DEF RoundsInv, FailuresCharged, OffersAllowed, Undecided, ChargeAtHand, AtKeys, Keys, Spent, RoundTyped

LEMMA PushKeeps == ASSUME RoundsAssumption, RoundsInv, NEW p \in Prs, Push(p) PROVE RoundsInv'
  <1>1. pull[p].head \in Nat /\ pull[p].head + 1 \in Heads /\ pull[p].open \in BOOLEAN
    BY DEF Push, RoundsInv, RoundTyped, Heads, RoundsAssumption
  <1>2. pull' \in [Prs -> [head : Heads, open : BOOLEAN]]
    BY <1>1 DEF Push, RoundsInv, RoundTyped
  <1>3. RoundTyped'
    BY <1>2 DEF Push, RoundsInv, RoundTyped
  <1>4. BurstCounted'
    BY DEF Push, RoundsInv, BurstCounted
  <1> QED
    BY <1>3, <1>4, NothingCounted DEF Push

LEMMA GateKeeps == ASSUME RoundsAssumption, RoundsInv, Gate PROVE RoundsInv'
  <1>1. PICK long \in BOOLEAN : drv' = Nap(drv, long)
    BY DEF Gate
  <1>2. drv \in LoopType /\ rnd.pc = "none"
    BY DEF RoundsInv, RoundTyped, LoopType, BurstCounted, Gate
  <1>3. drv' \in LoopType /\ drv'.pc = "look" /\ drv'.burst = 0
    BY <1>1, <1>2, LoopRecords
  <1>4. RoundTyped'
    BY <1>3 DEF Gate, RoundsInv, RoundTyped, LoopType
  <1>5. BurstCounted'
    BY <1>2, <1>3 DEF Gate, RoundsInv, BurstCounted, Streak
  <1> QED
    BY <1>4, <1>5, NothingCounted DEF Gate

LEMMA Begins ==
    ASSUME RoundsAssumption, RoundsInv, NEW recovery \in BOOLEAN, Started(recovery), drv.pc = "look",
           recovery => ~drv.wait
    PROVE  RoundsInv'
  <1>1. drv \in LoopType /\ drv.burst \in Nat /\ MaxBurst \in Nat
    <2>1. drv \in LoopType /\ MaxBurst \in Nat
      BY DEF RoundsInv, RoundTyped, LoopType, RoundsAssumption
    <2> QED
      BY <2>1, LoopRecords
  <1> DEFINE n == AtMost(drv.burst + 1, MaxBurst)
  <1>2. n \in 0..MaxBurst /\ n <= drv.burst + 1
    BY <1>1 DEF AtMost, RoundsAssumption, LoopType
  <1>3. drv' = [drv EXCEPT !.pc = "round", !.burst = n]
    BY DEF Started
  <1> HIDE DEF n
  <1>4. /\ drv' \in LoopType /\ drv'.pc = "round" /\ drv'.burst = n
        /\ drv'.collisions = drv.collisions /\ drv'.wait = drv.wait
    BY <1>1, <1>2, <1>3 DEF LoopType
  <1>5. rnd' \in RoundType /\ rnd'.pc = "survey" /\ rnd'.recovery = recovery /\ rnd'.cands = {}
    BY NoRoundTyped DEF Started, RoundType, Phases
  <1>6. RoundTyped'
    BY <1>4, <1>5 DEF Started, RoundsInv, RoundTyped, LoopType, RoundType
  <1>7. BurstCounted'
    <2>1. drv.burst <= Streak(drv.collisions = 1, IF drv.wait THEN 1 ELSE 0)
      BY DEF RoundsInv, BurstCounted
    <2>2. n <= Streak(drv.collisions = 1, IF recovery THEN 1 ELSE 2)
      BY <1>1, <1>2, <2>1 DEF Streak
    <2> QED
      BY <1>4, <1>5, <2>2 DEF BurstCounted
  <1>8. FailuresCharged' /\ OffersAllowed' /\ ChargeAtHand'
    BY <1>5 DEF Started, RoundsInv, FailuresCharged, OffersAllowed, Undecided, ChargeAtHand
  <1> QED
    BY <1>6, <1>7, <1>8 DEF RoundsInv
-----------------------------------------------------------------------------
(* The record of a round. *)

Same(r, s) == s.cands = r.cands /\ s.recovery = r.recovery
Goes(r, s, pc) == s \in RoundType /\ s.pc = pc /\ Same(r, s)

LEMMA PhaseRecords ==
    ASSUME NEW r \in RoundType, NEW pc \in Phases
    PROVE  Goes(r, [r EXCEPT !.pc = pc], pc) /\ [r EXCEPT !.pc = pc].at = r.at
                                             /\ [r EXCEPT !.pc = pc].before = r.before
  BY DEF Goes, Same, RoundType

LEMMA DeclineRecords ==
    ASSUME NEW r \in RoundType
    PROVE  /\ Goes(r, Declined(r), "pick") /\ Goes(r, Collided(r), "pick")
           /\ Goes(r, Unclaimed(r), r.pc) /\ Goes(r, Declined(Unclaimed(r)), "pick")
  <1>1. ASSUME NEW q \in RoundType PROVE Goes(q, Declined(q), "pick")
    <2> DEFINE e == [q EXCEPT !.pc = "pick"]
               f == [e EXCEPT !.at = NoPr]
    <2>1. e \in RoundType /\ e.pc = "pick" /\ Same(q, e)
      BY DEF RoundType, Phases, Same
    <2> HIDE DEF e
    <2>2. f \in RoundType /\ f.pc = "pick" /\ Same(q, f)
      BY <2>1 DEF RoundType, Same
    <2> HIDE DEF f
    <2>3. NoRound.before \in [KeySet -> Nat]
      BY DEF NoRound
    <2>4. [f EXCEPT !.before = NoRound.before] = Declined(q)
      BY DEF Declined, e, f
    <2>5. ASSUME NEW g \in [KeySet -> Nat]
          PROVE  /\ [f EXCEPT !.before = g] \in RoundType /\ [f EXCEPT !.before = g].pc = "pick"
                 /\ Same(q, [f EXCEPT !.before = g])
      BY <2>2 DEF RoundType, Same
    <2> QED
      BY <2>3, <2>4, <2>5 DEF Goes
  <1>2. Goes(r, Collided(r), "pick")
    <2>1. Declined(r) \in RoundType /\ Declined(r).pc = "pick" /\ Same(r, Declined(r))
      BY <1>1 DEF Goes
    <2> QED
      BY <2>1 DEF Collided, Goes, RoundType, Same
  <1>3. Goes(r, Unclaimed(r), r.pc)
    <2> DEFINE e == [r EXCEPT !.held = NoPr]
    <2>1. e \in RoundType /\ e.pc = r.pc /\ Same(r, e)
      BY DEF RoundType, Same
    <2>2. Unclaimed(r) = [e EXCEPT !.beats = r.beats \ {r.held}]
      BY DEF Unclaimed
    <2>3. r.beats \ {r.held} \in SUBSET Prs
      BY DEF RoundType
    <2> HIDE DEF e
    <2> QED
      BY <2>1, <2>2, <2>3 DEF RoundType, Same, Goes
  <1>4. Goes(r, Declined(Unclaimed(r)), "pick")
    BY <1>1, <1>3 DEF Goes, Same
  <1> QED
    BY <1>1, <1>2, <1>3, <1>4

LEMMA HoldRecords ==
    ASSUME NEW r \in RoundType, r.at \in Offers, NEW pc \in Phases
    PROVE  /\ Goes(r, [Holding(r) EXCEPT !.pc = pc], pc)
           /\ [Holding(r) EXCEPT !.pc = pc].at = r.at /\ [Holding(r) EXCEPT !.pc = pc].before = r.before
  <1> DEFINE p == r.at[1]
             e == [r EXCEPT !.held = p]
  <1>1. p \in Prs /\ r.beats \cup {p} \in SUBSET Prs
    BY DEF Offers, RoundType
  <1> HIDE DEF p
  <1>2. e \in RoundType /\ e.at = r.at /\ e.before = r.before /\ Same(r, e)
    BY <1>1 DEF RoundType, Same
  <1>3. Holding(r) = [e EXCEPT !.beats = r.beats \cup {p}]
    BY DEF Holding, p
  <1> HIDE DEF e
  <1>4. Holding(r) \in RoundType /\ Holding(r).at = r.at /\ Holding(r).before = r.before /\ Same(r, Holding(r))
    BY <1>1, <1>2, <1>3 DEF RoundType, Same
  <1> QED
    BY <1>4, PhaseRecords DEF Goes, Same
-----------------------------------------------------------------------------
(* The steps of a round that goes on. *)

LEMMA RoundFacts ==
    ASSUME RoundsAssumption, RoundsInv
    PROVE  /\ rnd \in RoundType /\ rnd.cands \subseteq Offers /\ rnd.recovery \in BOOLEAN
           /\ rnd.pc # "survey" => ~rnd.recovery
           /\ Undecided \subseteq Offers
           /\ rnd.pc \notin {"none", "survey", "pick"} => rnd.at \in Offers /\ AtKeys \subseteq KeySet
           /\ \A k \in KeySet : /\ spent[k] \in Nat /\ burnt[k] \in Nat /\ burnt[k] <= spent[k] /\ spent[k] <= Limit(k)
                                /\ rnd.before[k] \in Nat /\ Limit(k) \in Nat
  <1>1. rnd \in RoundType /\ rnd.cands \subseteq Offers /\ rnd.recovery \in BOOLEAN
    BY DEF RoundsInv, RoundTyped, RoundType
  <1>2. rnd.pc # "survey" => ~rnd.recovery
    BY DEF RoundsInv, BurstCounted
  <1>3. rnd.pc \notin {"none", "survey", "pick"} => rnd.at \in Offers
    BY DEF RoundsInv, ChargeAtHand
  <1>4. Undecided \subseteq Offers
    BY <1>1, <1>3 DEF Undecided
  <1>5. rnd.pc \notin {"none", "survey", "pick"} => AtKeys \subseteq KeySet
    BY <1>3, KeysOf DEF AtKeys, RoundsInv
  <1>6. \A k \in KeySet : rnd.before[k] \in Nat
    BY <1>1 DEF RoundType
  <1> QED
    BY <1>1, <1>2, <1>3, <1>4, <1>5, <1>6, Limits DEF RoundsInv, RoundTyped, FailuresCharged

LEMMA Typed ==
    ASSUME RoundsAssumption, RoundsInv, UNCHANGED <<kind, due, drv, refunds>>, rnd.pc # "none", ~rnd.recovery,
           rnd' \in RoundType, rnd'.pc # "none", ~rnd'.recovery,
           pull' \in [Prs -> [head : Heads, open : BOOLEAN]],
           spent' \in [KeySet -> Nat], burnt' \in [KeySet -> Nat]
    PROVE  RoundTyped' /\ BurstCounted'
  <1>1. RoundTyped'
    BY DEF RoundsInv, RoundTyped, RoundType
  <1> QED
    BY <1>1, GoesOn

\* Back to the candidates that are left.
LEMMA BackToPick ==
    ASSUME RoundsAssumption, RoundsInv, UNCHANGED <<kind, due, drv, refunds, pull>>,
           rnd.pc \notin {"none", "survey"}, Goes(rnd, rnd', "pick"),
           spent' \in [KeySet -> Nat], burnt' \in [KeySet -> Nat],
           \A k \in KeySet : spent'[k] <= spent[k], FailuresCharged'
    PROVE  RoundsInv'
  <1>1. rnd' \in RoundType /\ rnd'.pc = "pick" /\ rnd'.cands = rnd.cands /\ rnd'.recovery = rnd.recovery
    BY DEF Goes, Same
  <1>2. RoundTyped' /\ BurstCounted'
    BY <1>1, RoundFacts, Typed DEF RoundsInv, RoundTyped
  <1>3. OffersAllowed'
    <2>1. Undecided' \subseteq Undecided
      BY <1>1 DEF Undecided
    <2>2. \A c \in Undecided' : Keys(c[1], c[2]) \subseteq KeySet
      BY <2>1, RoundFacts, KeysOf DEF RoundsInv
    <2> QED
      BY <1>2, <2>1, <2>2, RoundFacts, OffersKept DEF RoundsInv
  <1>4. ChargeAtHand'
    BY <1>1 DEF ChargeAtHand
  <1> QED
    BY <1>2, <1>3, <1>4 DEF RoundsInv

LEMMA Unspent ==
    ASSUME RoundsInv, Counted
    PROVE  /\ spent' \in [KeySet -> Nat] /\ burnt' \in [KeySet -> Nat] /\ FailuresCharged' /\ refunds' = refunds
           /\ RoundsAssumption => \A k \in KeySet : spent'[k] <= spent[k]
  <1>1. RoundsAssumption => \A k \in KeySet : spent[k] <= spent[k]
    BY RoundFacts
  <1> QED
    BY <1>1 DEF Counted, RoundsInv, RoundTyped, FailuresCharged

\* On with the same candidate, and nothing is counted.
LEMMA OnWithIt ==
    ASSUME RoundsAssumption, RoundsInv, UNCHANGED <<kind, due, drv, pull>>, Counted,
           rnd.pc \notin {"none", "survey", "pick"}, NEW pc \in Phases \ {"none", "survey", "pick", "offered"},
           Goes(rnd, rnd', pc), rnd'.at = rnd.at, rnd'.before = rnd.before,
           pc \in {"charged", "claimed"} => rnd.pc \in {"charged", "claimed"},
           pc \notin {"agent", "engine"}
    PROVE  RoundsInv'
  <1>1. rnd' \in RoundType /\ rnd'.pc = pc /\ rnd'.cands = rnd.cands /\ rnd'.recovery = rnd.recovery
    BY DEF Goes, Same
  <1>2. spent' = spent /\ burnt' = burnt /\ refunds' = refunds
    BY DEF Counted
  <1>3. RoundTyped' /\ BurstCounted'
    BY <1>1, <1>2, RoundFacts, Typed DEF RoundsInv, RoundTyped
  <1>4. OffersAllowed'
    <2>1. Undecided' \subseteq Undecided
      BY <1>1 DEF Undecided
    <2> QED
      BY <1>2, <2>1 DEF RoundsInv, OffersAllowed, Spent, Keys
  <1>5. ChargeAtHand'
    BY <1>1, <1>2 DEF RoundsInv, ChargeAtHand, AtKeys, Keys
  <1> QED
    BY <1>2, <1>3, <1>4, <1>5 DEF RoundsInv, FailuresCharged

LEMMA SurveyKeeps == ASSUME RoundsAssumption, RoundsInv, Survey PROVE RoundsInv'
  <1>1. Candidates \subseteq Offers
    BY DEF Candidates, Offers, RoundsInv, RoundTyped
  <1>2. /\ rnd' \in RoundType /\ rnd'.pc = "pick" /\ rnd'.cands = Candidates /\ ~rnd'.recovery
        /\ rnd.pc = "survey"
    <2>1. Candidates \in SUBSET Offers /\ rnd \in RoundType
      BY <1>1, RoundFacts
    <2> DEFINE e == [rnd EXCEPT !.pc = "pick"]
    <2>2. e \in RoundType /\ e.pc = "pick" /\ e.recovery = rnd.recovery
      BY <2>1, PhaseRecords DEF Goes, Same, Phases
    <2>3. rnd' = [e EXCEPT !.cands = Candidates]
      BY DEF Survey
    <2> HIDE DEF e
    <2>4. ASSUME NEW S \in SUBSET Offers
          PROVE  /\ [e EXCEPT !.cands = S] \in RoundType /\ [e EXCEPT !.cands = S].pc = "pick"
                 /\ [e EXCEPT !.cands = S].cands = S /\ [e EXCEPT !.cands = S].recovery = rnd.recovery
      BY <2>2 DEF RoundType
    <2> QED
      BY <2>1, <2>3, <2>4 DEF Survey
  <1>3. /\ UNCHANGED <<kind, due, drv, pull, refunds>> /\ Counted /\ ~rnd.recovery
    BY DEF Survey, Step, Within, Counted
  <1>4. RoundTyped' /\ BurstCounted'
    BY <1>2, <1>3, Typed, Unspent DEF RoundsInv, RoundTyped
  <1>5. OffersAllowed'
    <2>1. Undecided' = Candidates
      BY <1>2 DEF Undecided
    <2>2. \A c \in Candidates : c[2] = pull[c[1]].head /\ (kind[c[1]] = "fix" \/ ~Spent(c[1], c[2]))
      BY DEF Candidates
    <2>3. \A c, d \in Candidates : c[1] = d[1] => c = d
      BY DEF Candidates
    <2>4. \A c \in Candidates : kind'[c[1]] = "fix" \/ ~Spent(c[1], c[2])'
      BY <1>3, <2>2 DEF Spent, Keys, Counted
    <2> QED
      BY <2>1, <2>3, <2>4 DEF OffersAllowed
  <1>6. ChargeAtHand' /\ FailuresCharged'
    BY <1>2, <1>3, Unspent DEF ChargeAtHand
  <1> QED
    BY <1>4, <1>5, <1>6 DEF RoundsInv

LEMMA OfferKeeps == ASSUME RoundsAssumption, RoundsInv, NEW c \in Offers, Offer(c) PROVE RoundsInv'
  <1>1. rnd.pc = "pick" /\ c \in rnd.cands /\ ~rnd.recovery /\ rnd \in RoundType
    BY RoundFacts DEF Offer
  <1>2. /\ rnd' \in RoundType /\ rnd'.pc = "offered" /\ rnd'.at = c /\ rnd'.cands = rnd.cands \ {c}
        /\ rnd'.recovery = rnd.recovery
    <2> DEFINE e == [rnd EXCEPT !.pc = "offered"]
               f == [e EXCEPT !.at = c]
               g == [f EXCEPT !.cands = rnd.cands \ {c}]
    <2>1. e \in RoundType /\ e.pc = "offered" /\ e.recovery = rnd.recovery
      BY <1>1, PhaseRecords DEF Goes, Same, Phases
    <2>2. rnd' = g
      BY DEF Offer
    <2> HIDE DEF e
    <2>3. f \in RoundType /\ f.pc = "offered" /\ f.at = c /\ f.recovery = rnd.recovery
      BY <2>1 DEF RoundType
    <2>4. rnd.cands \ {c} \in SUBSET Offers
      BY <1>1 DEF RoundType
    <2> HIDE DEF f
    <2>5. /\ g \in RoundType /\ g.pc = "offered" /\ g.at = c /\ g.recovery = rnd.recovery
          /\ g.cands = rnd.cands \ {c}
      BY <2>3, <2>4 DEF RoundType
    <2> QED
      BY <2>2, <2>5
  <1>3. UNCHANGED <<kind, due, drv, pull, refunds, spent, burnt>>
    BY DEF Offer, Step, Within, Counted
  <1>4. RoundTyped' /\ BurstCounted'
    BY <1>1, <1>2, <1>3, Typed DEF RoundsInv, RoundTyped
  <1>5. Undecided' = Undecided
    BY <1>1, <1>2 DEF Undecided
  <1>6. OffersAllowed'
    BY <1>3, <1>5 DEF RoundsInv, OffersAllowed, Spent, Keys
  <1>7. ChargeAtHand' /\ FailuresCharged'
    BY <1>2, <1>3 DEF ChargeAtHand, RoundsInv, FailuresCharged
  <1> QED
    BY <1>4, <1>6, <1>7 DEF RoundsInv

LEMMA PeerSeenKeeps == ASSUME RoundsAssumption, RoundsInv, NEW c \in Offers, PeerSeen(c) PROVE RoundsInv'
  <1>1. rnd.pc = "pick" /\ c \in rnd.cands /\ ~rnd.recovery /\ rnd \in RoundType
    BY RoundFacts DEF PeerSeen
  <1>2. /\ rnd' \in RoundType /\ rnd'.pc = "pick" /\ rnd'.cands = rnd.cands \ {c} /\ rnd'.recovery = rnd.recovery
    <2> DEFINE e == [rnd EXCEPT !.cands = rnd.cands \ {c}]
    <2>1. rnd.cands \ {c} \in SUBSET Offers
      BY <1>1 DEF RoundType
    <2>2. /\ e \in RoundType /\ e.pc = "pick" /\ e.cands = rnd.cands \ {c} /\ e.recovery = rnd.recovery
      BY <1>1, <2>1 DEF RoundType
    <2>3. rnd' = [e EXCEPT !.collided = TRUE]
      BY DEF PeerSeen
    <2> HIDE DEF e
    <2> QED
      BY <2>2, <2>3 DEF RoundType
  <1>3. UNCHANGED <<kind, due, drv, pull, refunds, spent, burnt>>
    BY DEF PeerSeen, Step, Within, Counted
  <1>4. RoundTyped' /\ BurstCounted'
    BY <1>1, <1>2, <1>3, Typed DEF RoundsInv, RoundTyped
  <1>5. Undecided' \subseteq Undecided
    BY <1>1, <1>2 DEF Undecided
  <1>6. OffersAllowed'
    BY <1>3, <1>5 DEF RoundsInv, OffersAllowed, Spent, Keys
  <1>7. ChargeAtHand' /\ FailuresCharged'
    BY <1>2, <1>3 DEF ChargeAtHand, RoundsInv, FailuresCharged
  <1> QED
    BY <1>4, <1>6, <1>7 DEF RoundsInv

\* Who is charged had an attempt left, and no other candidate is of his pull request.
LEMMA ChargeKeeps == ASSUME RoundsAssumption, RoundsInv, Charge PROVE RoundsInv'
  <1>1. /\ rnd.pc = "offered" /\ rnd \in RoundType /\ ~rnd.recovery /\ rnd.at \in Offers /\ AtKeys \subseteq KeySet
        /\ spent \in [KeySet -> Nat] /\ burnt \in [KeySet -> Nat]
    BY RoundFacts DEF Charge, RoundsInv, RoundTyped
  <1>2. UNCHANGED <<kind, due, drv, pull, refunds, burnt>>
    BY DEF Charge, Step, Within
  <1>3. ~Spent(rnd.at[1], rnd.at[2])
    BY <1>1 DEF Charge, Launchable, RoundsInv, OffersAllowed, Undecided
  <1>4. \A k \in AtKeys : spent[k] < Limit(k)
    BY <1>1, <1>3, RoundFacts DEF Spent, AtKeys
  <1>5. /\ \A c, d \in rnd.cands : c[1] = d[1] => c = d
        /\ \A c \in rnd.cands : c[1] # rnd.at[1] /\ (kind[c[1]] = "fix" \/ ~Spent(c[1], c[2]))
    BY <1>1 DEF RoundsInv, OffersAllowed, Undecided, ChargeAtHand
  <1>6. ASSUME Branchy(rnd.at[1]) PROVE RoundsInv'
    <2> DEFINE e == [rnd EXCEPT !.pc = "charged"]
    <2>1. spent' = Adding(spent, AtKeys) /\ rnd' = [e EXCEPT !.before = spent]
      BY <1>6 DEF Charge, AtKeys
    <2>2. e \in RoundType /\ e.pc = "charged" /\ e.at = rnd.at /\ Same(rnd, e)
      BY <1>1, PhaseRecords DEF Goes, Phases
    <2> HIDE DEF e
    <2>3. ASSUME NEW f \in [KeySet -> Nat]
          PROVE  LET q == [e EXCEPT !.before = f]
                 IN  q \in RoundType /\ q.pc = "charged" /\ q.at = rnd.at /\ q.before = f /\ Same(rnd, q)
      BY <2>2 DEF RoundType, Same
    <2>4. /\ rnd' \in RoundType /\ rnd'.pc = "charged" /\ rnd'.at = rnd.at /\ rnd'.before = spent
          /\ rnd'.cands = rnd.cands /\ rnd'.recovery = rnd.recovery
      BY <1>1, <2>1, <2>3 DEF Same
    <2>5. /\ spent' \in [KeySet -> Nat] /\ \A k \in KeySet \ AtKeys : spent'[k] = spent[k]
          /\ \A k \in AtKeys : spent'[k] = AtMost(spent[k] + 1, Limit(k) + 1)
      BY <1>1, <2>1, CounterSteps
    <2>6. \A k \in AtKeys : spent'[k] = spent[k] + 1
      BY <1>1, <1>4, <2>5, RoundFacts DEF AtMost
    <2>7. RoundTyped' /\ BurstCounted'
      BY <1>1, <1>2, <2>4, <2>5, Typed DEF RoundsInv, RoundTyped
    <2>8. FailuresCharged'
      <3>1. ASSUME NEW k \in KeySet PROVE burnt[k] <= spent'[k] /\ spent'[k] <= Limit(k)
        <4>1. CASE k \in AtKeys
          BY <1>4, <2>6, <4>1, RoundFacts
        <4>2. CASE k \notin AtKeys
          BY <2>5, <4>2, RoundFacts
        <4> QED
          BY <4>1, <4>2
      <3> QED
        BY <1>2, <3>1 DEF FailuresCharged, Limit
    <2>9. OffersAllowed'
      <3>1. Undecided' = rnd.cands
        BY <2>4 DEF Undecided
      <3>2. ASSUME NEW c \in rnd.cands, kind'[c[1]] # "fix" PROVE ~Spent(c[1], c[2])'
        <4>1. c \in Offers /\ ~Spent(c[1], c[2]) /\ c[1] # rnd.at[1]
          BY <1>2, <1>5, <3>2, RoundFacts
        <4>2. \A k \in Keys(c[1], c[2]) : k \in KeySet \ AtKeys
          BY <1>1, <4>1, KeysOf DEF RoundsInv, AtKeys
        <4>3. \A k \in Keys(c[1], c[2]) : spent'[k] <= spent[k]
          BY <2>5, <4>2, RoundFacts
        <4> QED
          BY <1>2, <2>7, <4>1, <4>3, AttemptKept DEF RoundsInv
      <3> QED
        BY <1>5, <3>1, <3>2 DEF OffersAllowed
    <2>10. ChargeAtHand'
      <3>1. AtKeys' = AtKeys
        BY <1>2, <2>4 DEF AtKeys, Keys
      <3>2. \A k \in AtKeys : spent'[k] = spent[k] + 1 /\ burnt[k] <= spent[k]
        BY <1>1, <2>6, RoundFacts
      <3> QED
        BY <1>1, <1>2, <2>4, <3>1, <3>2 DEF ChargeAtHand
    <2> QED
      BY <2>7, <2>8, <2>9, <2>10 DEF RoundsInv
  <1>7. ASSUME ~Branchy(rnd.at[1]) PROVE RoundsInv'
    <2>1. spent' = spent /\ rnd' = [rnd EXCEPT !.pc = "engine"]
      BY <1>7 DEF Charge
    <2>2. /\ rnd' \in RoundType /\ rnd'.pc = "engine" /\ rnd'.at = rnd.at /\ rnd'.cands = rnd.cands
          /\ rnd'.recovery = rnd.recovery
      BY <1>1, <2>1, PhaseRecords DEF Goes, Same, Phases
    <2>3. RoundTyped' /\ BurstCounted'
      BY <1>1, <1>2, <2>1, <2>2, Typed DEF RoundsInv, RoundTyped
    <2>4. OffersAllowed'
      <3>1. Undecided' = rnd.cands
        BY <2>2 DEF Undecided
      <3> QED
        BY <1>2, <1>5, <2>1, <3>1 DEF OffersAllowed, Spent, Keys
    <2>5. ChargeAtHand' /\ FailuresCharged'
      BY <1>1, <1>2, <1>4, <2>1, <2>2 DEF ChargeAtHand, AtKeys, Keys, Limit, RoundsInv, FailuresCharged
    <2> QED
      BY <2>3, <2>4, <2>5 DEF RoundsInv
  <1> QED
    BY <1>6, <1>7

\* The attempt that was launched is the one that was charged.
LEMMA LaunchKeeps == ASSUME RoundsAssumption, RoundsInv, LaunchAgent PROVE RoundsInv'
  <1>1. /\ rnd.pc = "claimed" /\ rnd \in RoundType /\ ~rnd.recovery /\ rnd.at \in Offers /\ AtKeys \subseteq KeySet
        /\ spent \in [KeySet -> Nat] /\ burnt \in [KeySet -> Nat]
    BY RoundFacts DEF LaunchAgent, RoundsInv, RoundTyped
  <1>2. UNCHANGED <<kind, due, drv, pull, refunds, spent>>
    BY DEF LaunchAgent, Step, Within
  <1>3. /\ rnd' \in RoundType /\ rnd'.pc = "agent" /\ rnd'.at = rnd.at /\ rnd'.cands = rnd.cands
        /\ rnd'.before = rnd.before /\ rnd'.recovery = rnd.recovery
    BY <1>1, PhaseRecords DEF LaunchAgent, Goes, Same, Phases
  <1>4. /\ burnt' \in [KeySet -> Nat] /\ \A k \in KeySet \ AtKeys : burnt'[k] = burnt[k]
        /\ \A k \in AtKeys : burnt'[k] = AtMost(burnt[k] + 1, Limit(k) + 1)
    BY <1>1, CounterSteps DEF LaunchAgent
  <1>5. RoundTyped' /\ BurstCounted'
    BY <1>1, <1>2, <1>3, <1>4, Typed DEF RoundsInv, RoundTyped
  <1>6. \A k \in AtKeys : spent[k] = rnd.before[k] + 1 /\ burnt[k] <= rnd.before[k]
    BY <1>1 DEF RoundsInv, ChargeAtHand
  <1>7. FailuresCharged'
    <2>1. ASSUME NEW k \in KeySet PROVE burnt'[k] <= spent[k] /\ spent[k] <= Limit(k)
      <3>1. CASE k \in AtKeys
        BY <1>4, <1>6, <3>1, RoundFacts DEF AtMost
      <3>2. CASE k \notin AtKeys
        BY <1>4, <3>2, RoundFacts
      <3> QED
        BY <3>1, <3>2
    <2> QED
      BY <1>2, <2>1 DEF FailuresCharged, Limit
  <1>8. OffersAllowed'
    BY <1>1, <1>2, <1>3 DEF RoundsInv, OffersAllowed, Undecided, Spent, Keys
  <1>9. ChargeAtHand'
    BY <1>1, <1>2, <1>3, <1>6 DEF ChargeAtHand, AtKeys, Keys
  <1> QED
    BY <1>5, <1>7, <1>8, <1>9 DEF RoundsInv

\* A charge given back leaves what was there before it.
LEMMA GivenBack ==
    ASSUME RoundsAssumption, RoundsInv, Uncharged, UNCHANGED kind, rnd.pc \in {"charged", "claimed"}
    PROVE  /\ spent' \in [KeySet -> Nat] /\ burnt' = burnt /\ refunds' = refunds
           /\ \A k \in KeySet : spent'[k] <= spent[k]
           /\ FailuresCharged'
  <1>1. /\ AtKeys \subseteq KeySet /\ spent \in [KeySet -> Nat] /\ burnt' = burnt /\ refunds' = refunds
    BY RoundFacts DEF Uncharged, RoundsInv, RoundTyped
  <1>2. /\ spent' \in [KeySet -> Nat] /\ \A k \in KeySet \ AtKeys : spent'[k] = spent[k]
        /\ \A k \in AtKeys : spent'[k] = Less(spent[k])
    BY <1>1, CounterSteps DEF Uncharged
  <1>3. \A k \in AtKeys : spent[k] = rnd.before[k] + 1 /\ burnt[k] <= rnd.before[k]
    BY DEF RoundsInv, ChargeAtHand
  <1>4. ASSUME NEW k \in KeySet PROVE spent'[k] <= spent[k] /\ burnt[k] <= spent'[k] /\ spent'[k] <= Limit(k)
    <2>1. CASE k \in AtKeys
      BY <1>2, <1>3, <2>1, RoundFacts DEF Less
    <2>2. CASE k \notin AtKeys
      BY <1>2, <2>2, RoundFacts
    <2> QED
      BY <2>1, <2>2
  <1> QED
    BY <1>1, <1>2, <1>4 DEF FailuresCharged, Limit

LEMMA PickStepsKeep ==
    ASSUME RoundsAssumption, RoundsInv,
           \/ DispatchDeclines \/ ClaimTaken \/ DeclineRepair \/ BatchWithdrawn \/ NothingChanged \/ ReviewElsewhere
    PROVE  RoundsInv'
  <1>1. rnd \in RoundType /\ burnt \in [KeySet -> Nat]
    BY RoundFacts DEF RoundsInv, RoundTyped
  <1>2. /\ rnd.pc \notin {"none", "survey"} /\ UNCHANGED <<kind, due, drv, pull>>
        /\ Counted \/ (Uncharged /\ rnd.pc \in {"charged", "claimed"})
        /\ rnd' \in {Declined(rnd), Collided(rnd), Declined(Unclaimed(rnd))}
    BY DEF DispatchDeclines, ClaimTaken, DeclineRepair, BatchWithdrawn, NothingChanged, ReviewElsewhere, Within, Step
  <1>3. Goes(rnd, rnd', "pick")
    <2>1. Goes(rnd, Declined(rnd), "pick") /\ Goes(rnd, Collided(rnd), "pick")
      BY <1>1, DeclineRecords
    <2>2. Goes(rnd, Declined(Unclaimed(rnd)), "pick")
      BY <1>1, DeclineRecords
    <2> QED
      BY <1>2, <2>1, <2>2
  <1>4. CASE Counted
    BY <1>2, <1>3, <1>4, BackToPick, Unspent
  <1>5. CASE Uncharged /\ rnd.pc \in {"charged", "claimed"}
    BY <1>1, <1>2, <1>3, <1>5, BackToPick, GivenBack
  <1> QED
    BY <1>2, <1>4, <1>5

LEMMA OnStepsKeep ==
    ASSUME RoundsAssumption, RoundsInv, ClaimWon \/ ClaimErrs \/ AgentDone
    PROVE  RoundsInv'
  <1>1. rnd \in RoundType /\ rnd.pc \in {"charged", "agent"} /\ rnd.at \in Offers
    BY RoundFacts DEF ClaimWon, ClaimErrs, AgentDone
  <1>2. UNCHANGED <<kind, due, drv, pull>> /\ Counted
    BY DEF ClaimWon, ClaimErrs, AgentDone, Within, Step
  <1>3. CASE ClaimWon
    <2>1. /\ Goes(rnd, rnd', "claimed") /\ rnd'.at = rnd.at /\ rnd'.before = rnd.before /\ rnd.pc = "charged"
      BY <1>1, <1>3, HoldRecords DEF ClaimWon, Phases
    <2> QED
      BY <1>1, <1>2, <2>1, OnWithIt DEF Phases
  <1>4. CASE ClaimErrs
    <2>1. /\ Goes(rnd, rnd', "claimed") /\ rnd'.at = rnd.at /\ rnd'.before = rnd.before /\ rnd.pc = "charged"
      BY <1>1, <1>4, PhaseRecords DEF ClaimErrs, Phases
    <2> QED
      BY <1>1, <1>2, <2>1, OnWithIt DEF Phases
  <1>5. CASE AgentDone
    <2>1. /\ Goes(rnd, rnd', "landed") /\ rnd'.at = rnd.at /\ rnd'.before = rnd.before
      BY <1>1, <1>5, PhaseRecords DEF AgentDone, Phases
    <2> QED
      BY <1>1, <1>2, <2>1, OnWithIt DEF Phases
  <1> QED
    BY <1>3, <1>4, <1>5

LEMMA ToCloseKeeps == ASSUME RoundsAssumption, RoundsInv, ToClose PROVE RoundsInv'
  <1>1. rnd \in RoundType /\ rnd.pc = "offered" /\ rnd.at \in Offers
    BY RoundFacts DEF ToClose
  <1>2. UNCHANGED <<kind, due, drv, pull>> /\ Counted
    BY DEF ToClose, Within, Step
  <1>3. CASE rnd' = Collided(rnd)
    <2>1. Goes(rnd, rnd', "pick")
      BY <1>1, <1>3, DeclineRecords
    <2> QED
      BY <1>1, <1>2, <2>1, BackToPick, Unspent
  <1>4. CASE rnd' = [Holding(rnd) EXCEPT !.pc = "close"]
    <2>1. Goes(rnd, rnd', "close") /\ rnd'.at = rnd.at /\ rnd'.before = rnd.before
      BY <1>1, <1>4, HoldRecords DEF Phases
    <2> QED
      BY <1>1, <1>2, <2>1, OnWithIt DEF Phases
  <1> QED
    BY <1>3, <1>4 DEF ToClose
-----------------------------------------------------------------------------
(* The steps that end a round. *)

LEMMA PlainEndsKeep ==
    ASSUME RoundsAssumption, RoundsInv,
           \/ SurveyFails \/ Recovers \/ Exhausted \/ Author \/ DispatchRaises \/ Landed \/ NothingLanded
           \/ ReviewStopped \/ RoundDies
    PROVE  RoundsInv'
  <1>1. RoundTyped /\ BurstCounted /\ pull \in [Prs -> [head : Heads, open : BOOLEAN]]
    BY DEF RoundsInv, RoundTyped
  <1>2. /\ rnd.pc # "none" /\ UNCHANGED <<kind, pull>> /\ Counted
    BY DEF SurveyFails, Recovers, Exhausted, Author, DispatchRaises, Landed, NothingLanded, ReviewStopped, RoundDies,
           Step
  <1>3. Ends
    <2>1. CASE SurveyFails
      <3>1. PICK rc \in {"github", "noprogress", "die"} : Over(rc)
        BY <2>1 DEF SurveyFails
      <3> QED
        BY <1>1, <1>2, <3>1, RoundOver DEF Ends
    <2>2. CASE Recovers
      <3>1. PICK rc \in {"done", "idle"} : Over(rc)
        BY <2>2 DEF Recovers
      <3>2. rnd.recovery
        BY <2>2 DEF Recovers
      <3> QED
        BY <1>1, <1>2, <3>1, <3>2, RoundOver DEF Ends
    <2>3. CASE Exhausted
      <3>1. PICK rc \in {"collision", "noprogress"} : Raise(rc)
        BY <2>3 DEF Exhausted
      <3>2. ~rnd.recovery
        BY <2>3, RoundFacts DEF Exhausted
      <3> QED
        BY <1>1, <1>2, <3>1, <3>2, RoundRaises DEF Ends
    <2>4. CASE Author
      <3>1. PICK rc \in {"done", "noprogress", "admission", "documentation", "failed"} : Raise(rc)
        BY <2>4 DEF Author
      <3> QED
        BY <1>1, <1>2, <3>1, RoundRaises DEF Ends
    <2>5. CASE DispatchRaises
      <3>1. PICK rc \in {"github", "noprogress", "admission"} : Raise(rc)
        BY <2>5 DEF DispatchRaises
      <3> QED
        BY <1>1, <1>2, <3>1, RoundRaises DEF Ends
    <2>6. CASE NothingLanded \/ ReviewStopped
      <3>1. Raise("noprogress")
        BY <2>6 DEF NothingLanded, ReviewStopped
      <3> QED
        BY <1>1, <1>2, <3>1, RoundRaises DEF Ends
    <2>7. CASE Landed \/ RoundDies
      <3>1. PICK rc \in {"done", "failed"} : Over(rc)
        BY <2>7 DEF Landed, RoundDies
      <3> QED
        BY <1>1, <1>2, <3>1, RoundOver DEF Ends
    <2> QED
      BY <2>1, <2>2, <2>3, <2>4, <2>5, <2>6, <2>7
  <1>4. refunds' \in [Prs -> 0..MaxRefunds]
    BY <1>2 DEF Counted, RoundsInv, RoundTyped
  <1> QED
    BY <1>1, <1>2, <1>3, <1>4, Ended, Unspent

LEMMA CloseKeeps == ASSUME RoundsAssumption, RoundsInv, CloseSpent PROVE RoundsInv'
  <1>1. /\ RoundTyped /\ BurstCounted /\ rnd \in RoundType /\ rnd.pc = "close" /\ rnd.at \in Offers
        /\ pull \in [Prs -> [head : Heads, open : BOOLEAN]]
    BY RoundFacts DEF CloseSpent, RoundsInv, RoundTyped
  <1>2. kind' = kind /\ Counted /\ refunds' \in [Prs -> 0..MaxRefunds]
    BY DEF CloseSpent, Step, Counted, RoundsInv, RoundTyped
  <1>3. CASE pull' = [pull EXCEPT ![rnd.at[1]].open = FALSE] /\ Over("done")
    <2>1. Ends
      BY <1>1, <1>3, RoundOver DEF Ends
    <2>2. pull' \in [Prs -> [head : Heads, open : BOOLEAN]]
      BY <1>1, <1>3
    <2> QED
      BY <1>2, <2>1, <2>2, Ended, Unspent
  <1>4. CASE Raise("noprogress") /\ UNCHANGED pull
    <2>1. Ends
      BY <1>1, <1>4, RoundRaises DEF Ends
    <2> QED
      BY <1>1, <1>2, <1>4, <2>1, Ended, Unspent
  <1>5. CASE rnd' = Declined(Unclaimed(rnd)) /\ UNCHANGED <<pull, due, drv>>
    <2>1. Goes(rnd, rnd', "pick")
      BY <1>1, <1>5, DeclineRecords
    <2> QED
      BY <1>1, <1>2, <1>5, <2>1, BackToPick, Unspent
  <1> QED
    BY <1>3, <1>4, <1>5 DEF CloseSpent

LEMMA RefusedKeeps == ASSUME RoundsAssumption, RoundsInv, CheckoutFails \/ LaunchRefused PROVE RoundsInv'
  <1>1. /\ RoundTyped /\ BurstCounted /\ rnd \in RoundType /\ rnd.pc = "claimed" /\ AtKeys \subseteq KeySet
        /\ spent \in [KeySet -> Nat] /\ burnt \in [KeySet -> Nat] /\ rnd.before \in [KeySet -> Nat]
    BY RoundFacts DEF CheckoutFails, LaunchRefused, RoundsInv, RoundTyped, RoundType
  <1>2. /\ UNCHANGED <<kind, pull, refunds, burnt>>
        /\ spent' = spent \/ spent' = Restored(spent)
    BY DEF CheckoutFails, LaunchRefused, Step
  <1>3. Ends
    <2>1. CASE CheckoutFails
      <3>1. PICK rc \in {"github", "failed"} : Over(rc)
        BY <2>1 DEF CheckoutFails
      <3> QED
        BY <1>1, <3>1, RoundOver DEF Ends
    <2>2. CASE LaunchRefused
      <3>1. PICK rc \in {"admission", "noprogress"} : Raise(rc)
        BY <2>2 DEF LaunchRefused
      <3> QED
        BY <1>1, <3>1, RoundRaises DEF Ends
    <2> QED
      BY <2>1, <2>2
  <1>4. \A k \in AtKeys : spent[k] = rnd.before[k] + 1 /\ burnt[k] <= rnd.before[k]
    BY <1>1 DEF RoundsInv, ChargeAtHand
  <1>5. /\ Restored(spent) \in [KeySet -> Nat] /\ \A k \in KeySet \ AtKeys : Restored(spent)[k] = spent[k]
        /\ \A k \in AtKeys : Restored(spent)[k] = AtMost(spent[k], rnd.before[k])
    BY <1>1, CounterResets
  <1>6. ASSUME NEW k \in KeySet PROVE burnt[k] <= Restored(spent)[k] /\ Restored(spent)[k] <= Limit(k)
    <2>1. CASE k \in AtKeys
      BY <1>4, <1>5, <2>1, RoundFacts DEF AtMost
    <2>2. CASE k \notin AtKeys
      BY <1>5, <2>2, RoundFacts
    <2> QED
      BY <2>1, <2>2
  <1>7. FailuresCharged'
    BY <1>2, <1>6, RoundFacts DEF FailuresCharged, Limit
  <1>8. /\ pull' \in [Prs -> [head : Heads, open : BOOLEAN]] /\ refunds' \in [Prs -> 0..MaxRefunds]
        /\ spent' \in [KeySet -> Nat] /\ burnt' \in [KeySet -> Nat]
    BY <1>1, <1>2, <1>5 DEF RoundTyped
  <1> QED
    BY <1>2, <1>3, <1>7, <1>8, Ended

\* A failure that is given back is not counted as one, and what is not given back was charged.
LEMMA AgentFailsKeeps == ASSUME RoundsAssumption, RoundsInv, AgentFails PROVE RoundsInv'
  <1>1. /\ RoundTyped /\ BurstCounted /\ rnd \in RoundType /\ rnd.pc = "agent" /\ rnd.at \in Offers
        /\ AtKeys \subseteq KeySet /\ spent \in [KeySet -> Nat] /\ burnt \in [KeySet -> Nat]
        /\ rnd.before \in [KeySet -> Nat] /\ rnd.at[1] \in Prs
    BY RoundFacts, KeysOf DEF AgentFails, RoundsInv, RoundTyped, RoundType
  <1> DEFINE p == rnd.at[1]
  <1>2. PICK outage, blocked \in BOOLEAN :
          LET back == outage /\ MayRefund(p)
              left == IF back THEN Taking(spent, AtKeys) ELSE spent
          IN /\ refunds' = (IF outage THEN [refunds EXCEPT ![p] = AtMost(@ + 1, MaxRefunds)] ELSE refunds)
             /\ spent' = (IF blocked THEN Restored(left) ELSE left)
             /\ burnt' = (IF blocked \/ (outage /\ refunds[p] < MaxRefunds) THEN Taking(burnt, AtKeys) ELSE burnt)
             /\ Over(IF blocked THEN "github" ELSE IF back THEN "noprogress" ELSE "failed")
    BY DEF AgentFails
  <1>3. UNCHANGED <<kind, pull>>
    BY DEF AgentFails, Step
  <1>4. Ends
    <2>1. PICK rc \in {"github", "noprogress", "failed"} : Over(rc)
      BY <1>2
    <2> QED
      BY <1>1, <2>1, RoundOver DEF Ends
  <1>5. refunds' \in [Prs -> 0..MaxRefunds]
    <2>1. refunds \in [Prs -> 0..MaxRefunds] /\ MaxRefunds \in Nat
      BY <1>1 DEF RoundTyped, RoundsAssumption
    <2>2. AtMost(refunds[p] + 1, MaxRefunds) \in 0..MaxRefunds
      BY <1>1, <2>1 DEF AtMost
    <2> QED
      BY <1>1, <1>2, <2>1, <2>2
  <1> DEFINE back == outage /\ refunds[p] < MaxRefunds
             left == IF back THEN Taking(spent, AtKeys) ELSE spent
  <1>6. /\ spent' = (IF blocked THEN Restored(left) ELSE left)
        /\ burnt' = (IF blocked \/ back THEN Taking(burnt, AtKeys) ELSE burnt)
    BY <1>2 DEF MayRefund
  <1>7. \A k \in AtKeys : spent[k] = rnd.before[k] + 1
    BY <1>1 DEF RoundsInv, ChargeAtHand
  <1>8. /\ Taking(spent, AtKeys) \in [KeySet -> Nat] /\ Taking(burnt, AtKeys) \in [KeySet -> Nat]
        /\ \A k \in KeySet \ AtKeys : Taking(spent, AtKeys)[k] = spent[k] /\ Taking(burnt, AtKeys)[k] = burnt[k]
        /\ \A k \in AtKeys : /\ Taking(spent, AtKeys)[k] = Less(spent[k])
                             /\ Taking(burnt, AtKeys)[k] = Less(burnt[k])
    BY <1>1, CounterSteps
  <1>9. left \in [KeySet -> Nat]
    BY <1>1, <1>8
  <1>10. /\ Restored(left) \in [KeySet -> Nat] /\ \A k \in KeySet \ AtKeys : Restored(left)[k] = left[k]
         /\ \A k \in AtKeys : Restored(left)[k] = AtMost(left[k], rnd.before[k])
    BY <1>1, <1>9, CounterResets
  <1>11. /\ \A k \in KeySet \ AtKeys : left[k] = spent[k]
         /\ \A k \in AtKeys : left[k] = rnd.before[k] + (IF back THEN 0 ELSE 1)
    <2>1. \A k \in AtKeys : Less(spent[k]) = rnd.before[k]
      BY <1>1, <1>7, RoundFacts DEF Less
    <2> QED
      BY <1>1, <1>7, <1>8, <2>1, RoundFacts
  <1> HIDE DEF left, back
  <1>12. spent' \in [KeySet -> Nat] /\ burnt' \in [KeySet -> Nat]
    BY <1>1, <1>6, <1>8, <1>9, <1>10
  <1>13. ASSUME NEW k \in KeySet PROVE burnt'[k] <= spent'[k] /\ spent'[k] <= Limit(k)
    <2>1. CASE k \in AtKeys
      <3>1. left[k] = rnd.before[k] + (IF back THEN 0 ELSE 1) /\ spent[k] = rnd.before[k] + 1
        BY <1>7, <1>11, <2>1
      <3>2. burnt[k] <= rnd.before[k] + 1 /\ rnd.before[k] + 1 <= Limit(k)
        BY <3>1, RoundFacts
      <3>3. Less(burnt[k]) <= rnd.before[k]
        BY <3>2, RoundFacts DEF Less
      <3>4. CASE blocked \/ back
        <4>1. burnt'[k] = Less(burnt[k]) /\ spent'[k] = rnd.before[k]
          BY <1>6, <1>8, <1>10, <2>1, <3>1, <3>4, RoundFacts DEF AtMost
        <4> QED
          BY <3>2, <3>3, <4>1, RoundFacts
      <3>5. CASE ~(blocked \/ back)
        <4>1. burnt'[k] = burnt[k] /\ spent'[k] = rnd.before[k] + 1
          BY <1>6, <3>1, <3>5
        <4> QED
          BY <3>2, <4>1
      <3> QED
        BY <3>4, <3>5
    <2>2. CASE k \notin AtKeys
      <3>1. spent'[k] = spent[k] /\ burnt'[k] = burnt[k]
        BY <1>6, <1>8, <1>10, <1>11, <2>2
      <3> QED
        BY <3>1, RoundFacts
    <2> QED
      BY <2>1, <2>2
  <1>14. FailuresCharged'
    BY <1>13 DEF FailuresCharged, Limit
  <1> QED
    BY <1>1, <1>3, <1>4, <1>5, <1>12, <1>14, Ended DEF RoundTyped

LEMMA ReviewKeeps == ASSUME RoundsAssumption, RoundsInv, ReviewPosted \/ ReviewFails PROVE RoundsInv'
  <1>1. /\ RoundTyped /\ BurstCounted /\ rnd \in RoundType /\ rnd.pc = "engine" /\ AtKeys \subseteq KeySet
        /\ spent \in [KeySet -> Nat] /\ burnt \in [KeySet -> Nat] /\ rnd.before \in [KeySet -> Nat]
    BY RoundFacts DEF ReviewPosted, ReviewFails, RoundsInv, RoundTyped, RoundType
  <1>2. UNCHANGED <<kind, pull, refunds>>
    BY DEF ReviewPosted, ReviewFails, Step
  <1>3. pull' \in [Prs -> [head : Heads, open : BOOLEAN]] /\ refunds' \in [Prs -> 0..MaxRefunds]
    BY <1>1, <1>2 DEF RoundTyped
  <1>4. CASE ReviewPosted
    <2>1. /\ spent' \in [KeySet -> Nat] /\ burnt' \in [KeySet -> Nat]
          /\ \A k \in KeySet \ AtKeys : spent'[k] = spent[k] /\ burnt'[k] = burnt[k]
          /\ \A k \in AtKeys : spent'[k] = 0 /\ burnt'[k] = 0
      BY <1>1, <1>4, CounterResets DEF ReviewPosted
    <2>2. ASSUME NEW k \in KeySet PROVE burnt'[k] <= spent'[k] /\ spent'[k] <= Limit(k) /\ spent'[k] <= spent[k]
      <3>1. CASE k \in AtKeys
        BY <2>1, <3>1, RoundFacts
      <3>2. CASE k \notin AtKeys
        BY <2>1, <3>2, RoundFacts
      <3> QED
        BY <3>1, <3>2
    <2>3. FailuresCharged'
      BY <2>2 DEF FailuresCharged, Limit
    <2>4. CASE Over("done")
      <3>1. Ends
        BY <1>1, <2>4, RoundOver DEF Ends
      <3> QED
        BY <1>2, <1>3, <2>1, <2>3, <3>1, Ended
    <2>5. CASE rnd' = Declined(rnd) /\ UNCHANGED <<due, drv>>
      <3>1. Goes(rnd, rnd', "pick")
        BY <1>1, <2>5, DeclineRecords
      <3> QED
        BY <1>1, <1>2, <2>1, <2>2, <2>3, <2>5, <3>1, BackToPick
    <2> QED
      BY <1>4, <2>4, <2>5 DEF ReviewPosted
  <1>5. CASE ReviewFails
    <2>1. /\ spent' \in [KeySet -> Nat] /\ burnt' \in [KeySet -> Nat]
          /\ \A k \in KeySet \ AtKeys : spent'[k] = spent[k] /\ burnt'[k] = burnt[k]
          /\ \A k \in AtKeys : /\ spent'[k] = AtMost(spent[k] + 1, Limit(k) + 1)
                               /\ burnt'[k] = AtMost(burnt[k] + 1, Limit(k) + 1)
      BY <1>1, <1>5, CounterSteps DEF ReviewFails
    <2>2. \A k \in AtKeys : spent[k] < Limit(k)
      BY <1>1 DEF RoundsInv, ChargeAtHand
    <2>3. ASSUME NEW k \in KeySet PROVE burnt'[k] <= spent'[k] /\ spent'[k] <= Limit(k)
      <3>1. CASE k \in AtKeys
        BY <2>1, <2>2, <3>1, RoundFacts DEF AtMost
      <3>2. CASE k \notin AtKeys
        BY <2>1, <3>2, RoundFacts
      <3> QED
        BY <3>1, <3>2
    <2>4. FailuresCharged'
      BY <2>3 DEF FailuresCharged, Limit
    <2>5. Ends
      BY <1>1, <1>5, RoundOver DEF ReviewFails, Ends
    <2> QED
      BY <1>2, <1>3, <2>1, <2>4, <2>5, Ended
  <1> QED
    BY <1>4, <1>5
-----------------------------------------------------------------------------

LEMMA RoundsGoOn ==
    ASSUME RoundsAssumption, RoundsInv, [RoundsNext]_rvars
    PROVE  RoundsInv'
  <1>1. CASE UNCHANGED rvars
    BY <1>1 DEF rvars, RoundsInv, RoundTyped, FailuresCharged, OffersAllowed, Undecided, ChargeAtHand, BurstCounted,
                AtKeys, Keys, Spent, Limit
  <1>2. CASE \E p \in Prs : Push(p)
    BY <1>2, PushKeeps
  <1>3. CASE Gate
    BY <1>3, GateKeeps
  <1>4. CASE StartRound
    BY <1>4, Begins DEF StartRound
  <1>5. CASE StartRecovery
    BY <1>5, Begins DEF StartRecovery, RecoveryTurn
  <1>6. CASE Survey
    BY <1>6, SurveyKeeps
  <1>7. CASE \E c \in Prs \X Heads : Offer(c) \/ PeerSeen(c)
    BY <1>7, OfferKeeps, PeerSeenKeeps DEF Offers
  <1>8. CASE \/ SurveyFails \/ Recovers \/ Exhausted \/ Author \/ DispatchRaises \/ Landed \/ NothingLanded
             \/ ReviewStopped \/ RoundDies
    BY <1>8, PlainEndsKeep
  <1>9. CASE \/ DispatchDeclines \/ ClaimTaken \/ DeclineRepair \/ BatchWithdrawn \/ NothingChanged
             \/ ReviewElsewhere
    BY <1>9, PickStepsKeep
  <1>10. CASE Charge
    BY <1>10, ChargeKeeps
  <1>11. CASE ToClose \/ CloseSpent
    BY <1>11, ToCloseKeeps, CloseKeeps
  <1>12. CASE ClaimWon \/ ClaimErrs \/ AgentDone
    BY <1>12, OnStepsKeep
  <1>13. CASE CheckoutFails \/ LaunchRefused
    BY <1>13, RefusedKeeps
  <1>14. CASE LaunchAgent
    BY <1>14, LaunchKeeps
  <1>15. CASE AgentFails
    BY <1>15, AgentFailsKeeps
  <1>16. CASE ReviewPosted \/ ReviewFails
    BY <1>16, ReviewKeeps
  <1> QED
    BY <1>1, <1>2, <1>3, <1>4, <1>5, <1>6, <1>7, <1>8, <1>9, <1>10, <1>11, <1>12, <1>13, <1>14, <1>15, <1>16
    DEF RoundsNext, RoundStep, Attempt

LEMMA RoundsInvSafe == ASSUME RoundsAssumption, RoundsInv PROVE BoundsKept
  <1>1. rnd \in RoundType
    BY RoundFacts
  <1>2. \A k \in KeySet : {spent[k], burnt[k]} \subseteq 0..(Limit(k) + 1)
    BY RoundFacts
  <1>3. refunds \in [Prs -> 0..(MaxRefunds + 1)]
    <2>1. MaxRefunds \in Nat
      BY DEF RoundsAssumption
    <2> QED
      BY <2>1 DEF RoundsInv, RoundTyped
  <1>4. RoundsTypeOK
    BY <1>1, <1>2, <1>3 DEF RoundsInv, RoundTyped, RoundsTypeOK, RoundType, Phases, Offers
  <1>5. AttemptsBounded
    BY RoundFacts DEF AttemptsBounded
  <1>6. drv.burst \in Nat /\ MaxBurst \in Nat
    BY DEF RoundsInv, RoundTyped, RoundsAssumption
  <1>7. NoSpin
    BY <1>6 DEF NoSpin, RoundsInv, BurstCounted, Streak
  <1> QED
    BY <1>4, <1>5, <1>7 DEF BoundsKept

\* Whatever is pushed, claimed, refused, refunded or killed in between, the agent never fails more often
\* at one head, or at one pull request, than the limit allows but for outages, and the loop never
\* starts more than four rounds without a sleep.  (work_units.run_round, loop.cmd_loop)
THEOREM RoundsAreBounded == RoundsAssumption => (RoundsSpec => []BoundsKept)
  <1> SUFFICES ASSUME RoundsAssumption PROVE RoundsSpec => []BoundsKept
    OBVIOUS
  <1>1. RoundsInit => RoundsInv
    BY RoundsBegin
  <1>2. RoundsInv /\ [RoundsNext]_rvars => RoundsInv'
    BY RoundsGoOn
  <1>3. RoundsInv => BoundsKept
    BY RoundsInvSafe
  <1> QED
    BY <1>1, <1>2, <1>3, PTL DEF RoundsSpec

-----------------------------------------------------------------------------
(* The workers and their manager. *)


ManagerType == [pc : {"down", "load", "look", "act"}, known : BOOLEAN,
                spec : [there : BOOLEAN, enabled : BOOLEAN, gen : Nat], restart : BOOLEAN, enable : BOOLEAN,
                child : Slots \cup {0}, outcome : [gen : Nat, rc : {"none", "ok", "bad"}],
                failure : [gen : Nat, ripe : BOOLEAN], look : [alive : BOOLEAN, gen : Nat, calm : BOOLEAN]]
WrapperType == [st : {"none", "born", "locked", "up", "ending", "over"}, gen : Nat,
                loop : {"none", "born", "idle", "busy", "ending", "ok", "bad"}, stop : BOOLEAN,
                rc : {"none", "ok", "bad"}]

WorkerTyped ==
  /\ policy \in Policies /\ cli \in {"none", "clear", "request"}
  /\ config \in [there : BOOLEAN, enabled : BOOLEAN, gen : Gens, sound : BOOLEAN]
  /\ mgr \in ManagerType /\ runner \in [Slots -> WrapperType]
  /\ file \in [by : Slots \cup {0}, gen : Nat, state : {"none", "queued", "live", "stopped", "exited", "failed"},
               exit : {"none", "ok", "bad"}, stopped : BOOLEAN, count : 0..MaxCount]
  /\ edits \in Nat /\ edits <= MaxActs /\ faults \in 0..MaxFaults /\ cut \in BOOLEAN

\* One wrapper holds the lock, and one loop the slot.
HoldsSlot(r) == runner[r].loop \in Loops \cup {"ending"}
OneWrapper == \A r, q \in Slots : Locked(r) /\ Locked(q) => r = q
OneHolder == \A r, q \in Slots : HoldsSlot(r) /\ HoldsSlot(q) => r = q

\* The wrapper the manager waits for is still there.
ChildThere == mgr.child # 0 => runner[mgr.child].st # "none"

\* Between a calm look and what the manager does about it no round has begun.
InRound(r) == runner[r].st = "up" /\ runner[r].loop = "busy"
CalmKept == mgr.pc = "act" /\ mgr.look.calm => \A r \in Slots : ~InRound(r)

WorkersInv == WorkerTyped /\ OneWrapper /\ OneHolder /\ ChildThere /\ CalmKept /\ PaidWorkSpared

-----------------------------------------------------------------------------
LEMMA WorkerConstants ==
    ASSUME WorkersAssumption
    PROVE  /\ 0 \notin Slots /\ 1 \in Gens /\ \A n \in Gens : n \in Nat \ {0}
           /\ MaxActs \in Nat /\ MaxFaults \in Nat /\ MaxCount \in Nat
  BY DEF WorkersAssumption

LEMMA WorkersStart == ASSUME WorkersAssumption, Init PROVE WorkersInv
  <1>1. mgr \in ManagerType
    BY DEF Init, MgrDown, NoSpec, NoOutcome, NoFailure, NoLook, ManagerType
  <1>2. NoRunner \in WrapperType /\ runner \in [Slots -> WrapperType]
    BY DEF Init, NoRunner, WrapperType
  <1>3. /\ config \in [there : BOOLEAN, enabled : BOOLEAN, gen : Gens, sound : BOOLEAN]
        /\ file \in [by : Slots \cup {0}, gen : Nat, state : {"none", "queued", "live", "stopped", "exited", "failed"},
                     exit : {"none", "ok", "bad"}, stopped : BOOLEAN, count : 0..MaxCount]
    BY WorkerConstants DEF Init, NoFile
  <1>4. WorkerTyped
    <2>1. edits \in Nat /\ edits <= MaxActs /\ faults \in 0..MaxFaults
      BY WorkerConstants DEF Init
    <2>2. cut \in BOOLEAN /\ cli \in {"none", "clear", "request"} /\ policy \in Policies
      BY DEF Init
    <2> QED
      BY <1>1, <1>2, <1>3, <2>1, <2>2 DEF WorkerTyped
  <1>5. \A r \in Slots : runner[r].st = "none" /\ runner[r].loop = "none"
    BY DEF Init, NoRunner
  <1>6. mgr.child = 0 /\ mgr.pc = "down" /\ ~cut
    BY DEF Init, MgrDown
  <1> QED
    BY <1>4, <1>5, <1>6 DEF WorkersInv, OneWrapper, OneHolder, ChildThere, CalmKept, PaidWorkSpared, Locked,
                            HoldsSlot, Loops

-----------------------------------------------------------------------------
(* Records, one field at a time. *)

LEMMA WrapperFields ==
    ASSUME NEW x \in WrapperType
    PROVE  /\ \A st \in {"none", "born", "locked", "up", "ending", "over"} :
                LET y == [x EXCEPT !.st = st] IN y \in WrapperType /\ y.st = st /\ y.loop = x.loop
           /\ \A loop \in {"none", "born", "idle", "busy", "ending", "ok", "bad"} :
                LET y == [x EXCEPT !.loop = loop] IN y \in WrapperType /\ y.st = x.st /\ y.loop = loop
           /\ \A rc \in {"none", "ok", "bad"} :
                LET y == [x EXCEPT !.rc = rc] IN y \in WrapperType /\ y.st = x.st /\ y.loop = x.loop
           /\ \A stop \in BOOLEAN :
                LET y == [x EXCEPT !.stop = stop] IN y \in WrapperType /\ y.st = x.st /\ y.loop = x.loop
  BY DEF WrapperType

LEMMA NewWrappers ==
    /\ NoRunner \in WrapperType /\ NoRunner.st = "none" /\ NoRunner.loop = "none"
    /\ \A x \in WrapperType : LET y == [NoRunner EXCEPT !.loop = x.loop]
                              IN  y \in WrapperType /\ y.st = "none" /\ y.loop = x.loop
    /\ \A g \in Nat : LET y == [[NoRunner EXCEPT !.st = "born"] EXCEPT !.gen = g]
                      IN  y \in WrapperType /\ y.st = "born" /\ y.loop = "none"
  <1>1. NoRunner \in WrapperType /\ NoRunner.st = "none" /\ NoRunner.loop = "none"
    BY DEF NoRunner, WrapperType
  <1>2. ASSUME NEW x \in WrapperType
        PROVE  LET y == [NoRunner EXCEPT !.loop = x.loop]
               IN  y \in WrapperType /\ y.st = "none" /\ y.loop = x.loop
    BY <1>1 DEF WrapperType
  <1>3. ASSUME NEW g \in Nat
        PROVE  LET y == [[NoRunner EXCEPT !.st = "born"] EXCEPT !.gen = g]
               IN  y \in WrapperType /\ y.st = "born" /\ y.loop = "none"
    BY <1>1 DEF WrapperType
  <1> QED
    BY <1>1, <1>2, <1>3

Keeps(m, n) == n \in ManagerType /\ n.child = m.child /\ n.pc = m.pc /\ n.look = m.look

LEMMA ManagerFields ==
    ASSUME NEW m \in ManagerType
    PROVE  /\ \A pc \in {"down", "load", "look", "act"} :
                LET n == [m EXCEPT !.pc = pc]
                IN  n \in ManagerType /\ n.pc = pc /\ n.child = m.child /\ n.look = m.look
           /\ \A look \in [alive : BOOLEAN, gen : Nat, calm : BOOLEAN] :
                LET n == [m EXCEPT !.look = look]
                IN  n \in ManagerType /\ n.pc = m.pc /\ n.child = m.child /\ n.look = look
           /\ \A child \in Slots \cup {0} :
                LET n == [m EXCEPT !.child = child]
                IN  n \in ManagerType /\ n.pc = m.pc /\ n.child = child /\ n.look = m.look
           /\ \A on \in BOOLEAN : /\ Keeps(m, [m EXCEPT !.enable = on]) /\ Keeps(m, [m EXCEPT !.restart = on])
                                 /\ Keeps(m, [m EXCEPT !.known = on])
           /\ \A outcome \in [gen : Nat, rc : {"none", "ok", "bad"}] : Keeps(m, [m EXCEPT !.outcome = outcome])
           /\ \A failure \in [gen : Nat, ripe : BOOLEAN] : Keeps(m, [m EXCEPT !.failure = failure])
           /\ \A spec \in [there : BOOLEAN, enabled : BOOLEAN, gen : Nat] : Keeps(m, [m EXCEPT !.spec = spec])
  <1>1. ASSUME NEW pc \in {"down", "load", "look", "act"}
        PROVE  LET n == [m EXCEPT !.pc = pc]
               IN  n \in ManagerType /\ n.pc = pc /\ n.child = m.child /\ n.look = m.look
    BY DEF ManagerType
  <1>2. ASSUME NEW look \in [alive : BOOLEAN, gen : Nat, calm : BOOLEAN]
        PROVE  LET n == [m EXCEPT !.look = look]
               IN  n \in ManagerType /\ n.pc = m.pc /\ n.child = m.child /\ n.look = look
    BY DEF ManagerType
  <1>3. ASSUME NEW child \in Slots \cup {0}
        PROVE  LET n == [m EXCEPT !.child = child]
               IN  n \in ManagerType /\ n.pc = m.pc /\ n.child = child /\ n.look = m.look
    BY DEF ManagerType
  <1>4. ASSUME NEW on \in BOOLEAN
        PROVE  /\ Keeps(m, [m EXCEPT !.enable = on]) /\ Keeps(m, [m EXCEPT !.restart = on])
               /\ Keeps(m, [m EXCEPT !.known = on])
    BY DEF ManagerType, Keeps
  <1>5. ASSUME NEW outcome \in [gen : Nat, rc : {"none", "ok", "bad"}] PROVE Keeps(m, [m EXCEPT !.outcome = outcome])
    BY DEF ManagerType, Keeps
  <1>6. ASSUME NEW failure \in [gen : Nat, ripe : BOOLEAN] PROVE Keeps(m, [m EXCEPT !.failure = failure])
    BY DEF ManagerType, Keeps
  <1>7. ASSUME NEW spec \in [there : BOOLEAN, enabled : BOOLEAN, gen : Nat] PROVE Keeps(m, [m EXCEPT !.spec = spec])
    BY DEF ManagerType, Keeps
  <1> QED
    BY <1>1, <1>2, <1>3, <1>4, <1>5, <1>6, <1>7
-----------------------------------------------------------------------------
(* Steps by what they touch. *)

Others == UNCHANGED <<policy, config, cli, file, edits, faults>>

LEMMA SameOthers ==
    ASSUME WorkerTyped, Others, mgr' \in ManagerType, runner' \in [Slots -> WrapperType], cut' \in BOOLEAN
    PROVE  WorkerTyped'
  BY DEF WorkerTyped, Others

\* The wrappers stay as they are.
LEMMA WrappersStay ==
    ASSUME WorkersInv, WorkerTyped', UNCHANGED <<runner, cut>>, mgr'.child \in {mgr.child, 0},
           mgr'.pc = "act" => mgr.pc = "act" /\ mgr'.look = mgr.look
    PROVE  WorkersInv'
  BY DEF WorkersInv, OneWrapper, OneHolder, ChildThere, CalmKept, PaidWorkSpared, Locked, HoldsSlot, InRound

\* No wrapper gains the lock or the slot, or begins a round.
LEMMA NobodyGains ==
    ASSUME WorkersInv, WorkerTyped', UNCHANGED cut,
           \A r \in Slots : /\ Locked(r)' => Locked(r)
                            /\ HoldsSlot(r)' => HoldsSlot(r)
                            /\ InRound(r)' => InRound(r),
           mgr'.child # 0 => runner'[mgr'.child].st # "none",
           mgr'.pc = "act" => mgr.pc = "act" /\ mgr'.look = mgr.look
    PROVE  WorkersInv'
  <1>1. OneWrapper'
    BY DEF WorkersInv, OneWrapper
  <1>2. OneHolder'
    BY DEF WorkersInv, OneHolder
  <1>3. CalmKept'
    BY DEF WorkersInv, CalmKept
  <1> QED
    BY <1>1, <1>2, <1>3 DEF WorkersInv, ChildThere, PaidWorkSpared

\* One wrapper moves.
LEMMA OneMoves ==
    ASSUME WorkersInv, WorkerTyped', UNCHANGED <<mgr, cut>>, NEW r \in Slots, NEW x \in WrapperType,
           runner' = [runner EXCEPT ![r] = x],
           x.st \in {"locked", "up", "ending"} => Locked(r),
           x.loop \in Loops \cup {"ending"} => HoldsSlot(r),
           x.st = "up" /\ x.loop = "busy" => InRound(r),
           x.st = "none" => mgr.child # r \/ runner[r].st = "none"
    PROVE  WorkersInv'
  <1>1. runner \in [Slots -> WrapperType] /\ mgr.child \in Slots \cup {0}
    BY DEF WorkersInv, WorkerTyped, ManagerType
  <1>2. \A q \in Slots : runner'[q] = IF q = r THEN x ELSE runner[q]
    BY <1>1
  <1>3. \A q \in Slots : /\ Locked(q)' => Locked(q)
                         /\ HoldsSlot(q)' => HoldsSlot(q)
                         /\ InRound(q)' => InRound(q)
    BY <1>2 DEF Locked, HoldsSlot, InRound
  <1>4. mgr.child # 0 => runner'[mgr.child].st # "none"
    BY <1>1, <1>2 DEF WorkersInv, ChildThere
  <1> QED
    BY <1>3, <1>4, NobodyGains
-----------------------------------------------------------------------------
(* The operator. *)

LEMMA OperatorKeeps ==
    ASSUME WorkersAssumption, WorkersInv,
           \/ \E gen \in Gens : EditSpec(gen)
           \/ Remove \/ Disable \/ Spoil \/ Repair \/ EnableWrite \/ EnableClear
    PROVE  WorkersInv'
  <1>1. WorkerTyped
    BY DEF WorkersInv
  <1>2. UNCHANGED <<policy, mgr, runner, faults, cut>>
    BY DEF EditSpec, Remove, Disable, Spoil, Repair, EnableWrite, EnableClear
  <1>3. config' \in [there : BOOLEAN, enabled : BOOLEAN, gen : Gens, sound : BOOLEAN]
    <2> DEFINE C == [there : BOOLEAN, enabled : BOOLEAN, gen : Gens, sound : BOOLEAN]
    <2>1. config \in C
      BY <1>1 DEF WorkerTyped
    <2>2. CASE \E gen \in Gens : EditSpec(gen)
      <3>1. PICK gen \in Gens : config' = [config EXCEPT !.there = TRUE, !.gen = gen]
        BY <2>2 DEF EditSpec
      <3> QED
        BY <2>1, <3>1
    <2>3. CASE Remove
      BY <2>1, <2>3 DEF Remove
    <2>4. CASE Disable
      BY <2>1, <2>4 DEF Disable
    <2>5. CASE Spoil
      BY <2>1, <2>5 DEF Spoil
    <2>6. CASE Repair
      BY <2>1, <2>6 DEF Repair
    <2>7. CASE EnableWrite
      BY <2>1, <2>7 DEF EnableWrite
    <2>8. CASE EnableClear
      BY <2>1, <2>8 DEF EnableClear
    <2> QED
      BY <2>2, <2>3, <2>4, <2>5, <2>6, <2>7, <2>8
  <1>4. file' \in [by : Slots \cup {0}, gen : Nat, state : {"none", "queued", "live", "stopped", "exited", "failed"},
                   exit : {"none", "ok", "bad"}, stopped : BOOLEAN, count : 0..MaxCount]
    <2>1. CASE file' = file
      BY <1>1, <2>1 DEF WorkerTyped
    <2>2. CASE EnableClear
      <3>1. file' = [file EXCEPT !.stopped = FALSE, !.exit = "none", !.state = "queued"]
        BY <2>2 DEF EnableClear
      <3> QED
        BY <1>1, <3>1, WorkerConstants DEF WorkerTyped
    <2> QED
      BY <2>1, <2>2 DEF EditSpec, Remove, Disable, Spoil, Repair, EnableWrite
  <1>5. cli' \in {"none", "clear", "request"}
    BY <1>1 DEF WorkerTyped, EditSpec, Remove, Disable, Spoil, Repair, EnableWrite, EnableClear
  <1>6. edits' \in Nat /\ edits' <= MaxActs
    <2>1. CASE UNCHANGED edits
      BY <1>1, <2>1 DEF WorkerTyped
    <2>2. CASE Edited
      BY <1>1, <2>2, WorkerConstants DEF WorkerTyped, Edited
    <2> QED
      BY <2>1, <2>2 DEF EditSpec, Remove, Disable, Spoil, Repair, EnableWrite, EnableClear
  <1>7. WorkerTyped'
    BY <1>1, <1>2, <1>3, <1>4, <1>5, <1>6 DEF WorkerTyped
  <1> QED
    BY <1>2, <1>7, WrappersStay

LEMMA RequestKeeps ==
    ASSUME WorkersAssumption, WorkersInv, EnableRequest \/ RestartRequest
    PROVE  WorkersInv'
  <1>1. WorkerTyped /\ mgr \in ManagerType /\ mgr.pc \in {"load", "look"}
    BY DEF WorkersInv, WorkerTyped, EnableRequest, RestartRequest
  <1>2. Keeps(mgr, mgr')
    <2>1. CASE EnableRequest
      <3> DEFINE e == [mgr EXCEPT !.enable = TRUE]
                 f == [e EXCEPT !.outcome = NoOutcome]
                 g == [f EXCEPT !.failure = NoFailure]
      <3>1. mgr' = g
        BY <2>1 DEF EnableRequest
      <3>2. Keeps(mgr, e)
        BY <1>1, ManagerFields
      <3> HIDE DEF e
      <3>3. Keeps(e, f)
        <4>1. NoOutcome \in [gen : Nat, rc : {"none", "ok", "bad"}]
          BY DEF NoOutcome
        <4>2. e \in ManagerType
          BY <3>2 DEF Keeps
        <4> QED
          BY <4>1, <4>2, ManagerFields
      <3> HIDE DEF f
      <3>4. Keeps(f, g)
        <4>1. NoFailure \in [gen : Nat, ripe : BOOLEAN]
          BY DEF NoFailure
        <4>2. f \in ManagerType
          BY <3>3 DEF Keeps
        <4> QED
          BY <4>1, <4>2, ManagerFields
      <3> QED
        BY <3>1, <3>2, <3>3, <3>4 DEF Keeps
    <2>2. CASE RestartRequest
      <3>1. mgr' = [mgr EXCEPT !.restart = TRUE]
        BY <2>2 DEF RestartRequest
      <3>2. Keeps(mgr, [mgr EXCEPT !.restart = TRUE])
        BY <1>1, ManagerFields
      <3> QED
        BY <3>1, <3>2
    <2> QED
      BY <2>1, <2>2
  <1>3. WorkerTyped'
    <2>1. UNCHANGED <<policy, config, file, runner, faults, cut>>
      BY DEF EnableRequest, RestartRequest
    <2>2. cli' \in {"none", "clear", "request"}
      BY <1>1 DEF EnableRequest, RestartRequest, WorkerTyped
    <2>3. edits' \in Nat /\ edits' <= MaxActs
      <3>1. CASE UNCHANGED edits
        BY <1>1, <3>1 DEF WorkerTyped
      <3>2. CASE Edited
        BY <1>1, <3>2, WorkerConstants DEF WorkerTyped, Edited
      <3> QED
        BY <3>1, <3>2 DEF EnableRequest, RestartRequest
    <2> QED
      BY <1>1, <1>2, <2>1, <2>2, <2>3 DEF WorkerTyped, Keeps
  <1>4. UNCHANGED <<runner, cut>>
    BY DEF EnableRequest, RestartRequest
  <1> QED
    BY <1>1, <1>2, <1>3, <1>4, WrappersStay DEF Keeps
-----------------------------------------------------------------------------
(* The manager. *)

LEMMA FreshManager == MgrDown \in ManagerType /\ MgrDown.pc = "down" /\ MgrDown.child = 0
  BY DEF MgrDown, NoSpec, NoOutcome, NoFailure, NoLook, ManagerType

LEMMA StartKeeps == ASSUME WorkersInv, StartManager PROVE WorkersInv'
  <1>1. mgr' \in ManagerType /\ mgr'.child = 0 /\ mgr'.pc = "load"
    BY FreshManager, ManagerFields DEF StartManager
  <1>2. WorkerTyped'
    BY <1>1, SameOthers DEF StartManager, Others, WorkersInv, WorkerTyped
  <1> QED
    BY <1>1, <1>2, WrappersStay DEF StartManager

\* A fault is counted while there are any left.
LEMMA FaultCounted == ASSUME WorkersAssumption, WorkerTyped, Faulted PROVE faults' \in 0..MaxFaults
  <1>1. faults \in Nat /\ MaxFaults \in Nat /\ faults < MaxFaults /\ faults' = faults + 1
    BY WorkerConstants DEF WorkerTyped, Faulted
  <1> QED
    BY <1>1

LEMMA GoneRecord ==
    ASSUME WorkerTyped, NEW r \in Slots
    PROVE  Gone(r) \in WrapperType /\ Gone(r).st = "none" /\ Gone(r).loop = runner[r].loop
  BY NewWrappers DEF WorkerTyped, Gone

LEMMA ManagerEndsKeep == ASSUME WorkersAssumption, WorkersInv, ManagerDies \/ Shutdown PROVE WorkersInv'
  <1>1. WorkerTyped /\ runner \in [Slots -> WrapperType]
    BY DEF WorkersInv, WorkerTyped
  <1>2. mgr' = MgrDown /\ UNCHANGED <<policy, config, cli, file, edits, cut>> /\ faults' \in 0..MaxFaults
    BY <1>1, FaultCounted DEF ManagerDies, Shutdown
  <1>3. \A r \in Slots : /\ Forgotten[r] \in WrapperType /\ Forgotten[r].loop = runner[r].loop
                         /\ Forgotten[r].st \in {runner[r].st, "none"}
    <2>1. ASSUME NEW r \in Slots
          PROVE  /\ Forgotten[r] \in WrapperType /\ Forgotten[r].loop = runner[r].loop
                 /\ Forgotten[r].st \in {runner[r].st, "none"}
      <3>1. Forgotten[r] = IF runner[r].st = "over" THEN Gone(r) ELSE runner[r]
        BY DEF Forgotten
      <3> QED
        BY <1>1, <3>1, GoneRecord
    <2> QED
      BY <2>1
  <1>4. /\ runner' \in [Slots -> WrapperType]
        /\ \A r \in Slots : runner'[r].loop = runner[r].loop /\ runner'[r].st \in {runner[r].st, "none"}
    <2>1. CASE ManagerDies
      <3>1. runner' = Forgotten
        BY <2>1 DEF ManagerDies
      <3>2. Forgotten = [r \in Slots |-> Forgotten[r]]
        BY DEF Forgotten
      <3> QED
        BY <1>3, <3>1, <3>2
    <2>2. CASE Shutdown
      <3>1. runner' = [r \in Slots |-> IF Locked(r) THEN [runner[r] EXCEPT !.stop = TRUE] ELSE Forgotten[r]]
        BY <2>2 DEF Shutdown
      <3>2. \A r \in Slots : LET y == [runner[r] EXCEPT !.stop = TRUE]
                             IN  y \in WrapperType /\ y.st = runner[r].st /\ y.loop = runner[r].loop
        BY <1>1, WrapperFields
      <3> QED
        BY <1>3, <3>1, <3>2
    <2> QED
      BY <2>1, <2>2
  <1>5. WorkerTyped'
    BY <1>1, <1>2, <1>4, FreshManager DEF WorkerTyped
  <1>6. \A r \in Slots : /\ Locked(r)' => Locked(r)
                         /\ HoldsSlot(r)' => HoldsSlot(r)
                         /\ InRound(r)' => InRound(r)
    BY <1>4 DEF Locked, HoldsSlot, InRound
  <1>7. mgr'.child = 0 /\ mgr'.pc = "down"
    BY <1>2, FreshManager
  <1> QED
    BY <1>2, <1>5, <1>6, <1>7, NobodyGains

LEMMA LoadKeeps == ASSUME WorkersAssumption, WorkersInv, Load PROVE WorkersInv'
  <1>1. /\ WorkerTyped /\ runner \in [Slots -> WrapperType] /\ mgr \in ManagerType /\ mgr.child \in Slots \cup {0}
        /\ config \in [there : BOOLEAN, enabled : BOOLEAN, gen : Gens, sound : BOOLEAN]
    BY DEF WorkersInv, WorkerTyped, ManagerType
  <1> DEFINE m == IF config.sound THEN [mgr EXCEPT !.known = TRUE, !.spec = Sound] ELSE mgr
  <1>2. /\ mgr' = [Reaped(m) EXCEPT !.pc = "look"]
        /\ runner' = IF Reaped(m).child = m.child THEN runner ELSE [runner EXCEPT ![m.child] = Gone(m.child)]
    BY DEF Load
  <1>3. m \in ManagerType /\ m.child = mgr.child
    <2> DEFINE e == [mgr EXCEPT !.known = TRUE]
               f == [e EXCEPT !.spec = Sound]
    <2>1. e \in ManagerType /\ e.child = mgr.child
      BY <1>1, ManagerFields DEF Keeps
    <2>2. Sound \in [there : BOOLEAN, enabled : BOOLEAN, gen : Nat]
      BY <1>1, WorkerConstants DEF Sound
    <2> HIDE DEF e
    <2>3. f \in ManagerType /\ f.child = mgr.child
      BY <2>1, <2>2 DEF ManagerType
    <2>4. m = IF config.sound THEN f ELSE mgr
      BY DEF e
    <2> HIDE DEF m, f
    <2> QED
      BY <1>1, <2>3, <2>4
  <1> HIDE DEF m
  <1>4. \/ Reaped(m) = m
        \/ /\ m.child \in Slots /\ Reaped(m) \in ManagerType /\ Reaped(m).child = 0
    <2>1. ASSUME m.child # 0, ~(m.child \in Slots /\ runner[m.child].st # "over")
          PROVE  m.child \in Slots /\ Reaped(m) \in ManagerType /\ Reaped(m).child = 0
      <3>1. m.child \in Slots
        BY <1>1, <1>3, <2>1
      <3> DEFINE g == runner[m.child].gen
                 rc == runner[m.child].rc
                 lost == [gen |-> m.spec.gen, ripe |-> FALSE]
                 late == IF rc = "bad" /\ ~Terminal(m.child) THEN lost ELSE m.failure
                 e == [m EXCEPT !.child = 0]
                 f == [e EXCEPT !.outcome = [gen |-> g, rc |-> rc]]
                 h == [f EXCEPT !.failure = late]
      <3>2. Reaped(m) = h
        BY <2>1 DEF Reaped
      <3>3. [gen |-> g, rc |-> rc] \in [gen : Nat, rc : {"none", "ok", "bad"}]
        BY <1>1, <3>1 DEF WrapperType
      <3>4. lost \in [gen : Nat, ripe : BOOLEAN] /\ m.failure \in [gen : Nat, ripe : BOOLEAN]
        BY <1>3 DEF ManagerType
      <3>5. late \in [gen : Nat, ripe : BOOLEAN]
        <4> HIDE DEF lost
        <4> QED
          BY <3>4
      <3> HIDE DEF late, g, rc
      <3>6. e \in ManagerType /\ e.child = 0
        BY <1>3 DEF ManagerType
      <3> HIDE DEF e
      <3>7. f \in ManagerType /\ f.child = 0
        BY <3>3, <3>6 DEF ManagerType
      <3> HIDE DEF f
      <3>8. h \in ManagerType /\ h.child = 0
        BY <3>5, <3>7 DEF ManagerType
      <3> QED
        BY <3>1, <3>2, <3>8
    <2>2. m.child = 0 \/ (m.child \in Slots /\ runner[m.child].st # "over") => Reaped(m) = m
      BY DEF Reaped
    <2> QED
      BY <2>1, <2>2
  <1>5. CASE Reaped(m) = m
    <2>1. mgr' \in ManagerType /\ mgr'.child = mgr.child /\ mgr'.pc = "look" /\ runner' = runner
      <3>1. mgr' = [m EXCEPT !.pc = "look"] /\ runner' = runner
        BY <1>2, <1>5
      <3>2. [m EXCEPT !.pc = "look"] \in ManagerType /\ [m EXCEPT !.pc = "look"].child = m.child
            /\ [m EXCEPT !.pc = "look"].pc = "look"
        BY <1>3 DEF ManagerType
      <3> QED
        BY <1>3, <3>1, <3>2
    <2>2. WorkerTyped'
      BY <1>1, <2>1, SameOthers DEF Load, Others, WorkerTyped
    <2> QED
      BY <2>1, <2>2, WrappersStay DEF Load
  <1>6. CASE m.child \in Slots /\ Reaped(m) \in ManagerType /\ Reaped(m).child = 0
    <2>1. mgr' \in ManagerType /\ mgr'.child = 0 /\ mgr'.pc = "look"
      BY <1>2, <1>6, ManagerFields
    <2>2. runner' = [runner EXCEPT ![m.child] = Gone(m.child)]
      BY <1>2, <1>6, WorkerConstants
    <2>3. Gone(m.child) \in WrapperType /\ Gone(m.child).st = "none" /\ Gone(m.child).loop = runner[m.child].loop
      BY <1>1, <1>6, GoneRecord
    <2>4. runner' \in [Slots -> WrapperType]
      BY <1>1, <2>2, <2>3
    <2>5. WorkerTyped'
      BY <1>1, <2>1, <2>4, SameOthers DEF Load, Others, WorkerTyped
    <2>6. \A r \in Slots : runner'[r] = IF r = m.child THEN Gone(m.child) ELSE runner[r]
      BY <1>1, <2>2
    <2>7. \A r \in Slots : /\ Locked(r)' => Locked(r)
                           /\ HoldsSlot(r)' => HoldsSlot(r)
                           /\ InRound(r)' => InRound(r)
      BY <2>3, <2>6 DEF Locked, HoldsSlot, InRound
    <2> QED
      BY <2>1, <2>5, <2>7, NobodyGains DEF Load
  <1> QED
    BY <1>4, <1>5, <1>6

\* A calm look sees the one wrapper there is, and its loop between two rounds.
LEMMA LookKeeps == ASSUME WorkersInv, Look PROVE WorkersInv'
  <1>1. WorkerTyped /\ runner \in [Slots -> WrapperType] /\ mgr \in ManagerType /\ file.gen \in Nat
    BY DEF WorkersInv, WorkerTyped
  <1> DEFINE c == \E r \in Slots : runner[r].st = "up" /\ runner[r].loop = "idle"
             on == Alive
             look == [alive |-> on, gen |-> file.gen, calm |-> c]
             e == [mgr EXCEPT !.pc = "act"]
  <1>2. mgr' = [e EXCEPT !.look = look]
    BY DEF Look
  <1>3. on \in BOOLEAN /\ c \in BOOLEAN
    BY DEF Alive
  <1>4. c => \A r \in Slots : ~InRound(r)
    <2> SUFFICES ASSUME NEW q \in Slots, runner[q].st = "up", runner[q].loop = "idle",
                        NEW r \in Slots, runner[r].st = "up", runner[r].loop = "busy"
                 PROVE  FALSE
      BY DEF InRound
    <2>1. Locked(q) /\ Locked(r)
      BY DEF Locked
    <2> QED
      BY <2>1 DEF WorkersInv, OneWrapper
  <1> HIDE DEF on, c
  <1>5. look \in [alive : BOOLEAN, gen : Nat, calm : BOOLEAN] /\ look.calm = c
    BY <1>1, <1>3
  <1> HIDE DEF look
  <1>6. e \in ManagerType /\ e.pc = "act" /\ e.child = mgr.child
    BY <1>1, ManagerFields
  <1> HIDE DEF e
  <1>7. mgr' \in ManagerType /\ mgr'.child = mgr.child /\ mgr'.look = look
    BY <1>2, <1>5, <1>6 DEF ManagerType
  <1>8. UNCHANGED <<runner, cut>>
    BY DEF Look
  <1>9. WorkerTyped'
    BY <1>1, <1>7, <1>8, SameOthers DEF Look, Others, WorkerTyped
  <1>10. CalmKept'
    BY <1>4, <1>5, <1>7, <1>8 DEF CalmKept, InRound
  <1> QED
    BY <1>7, <1>8, <1>9, <1>10 DEF WorkersInv, OneWrapper, OneHolder, ChildThere, PaidWorkSpared, Locked, HoldsSlot

LEMMA SeenRecord ==
    ASSUME mgr \in ManagerType
    PROVE  Seen \in ManagerType /\ Seen.pc = "load" /\ Seen.child = mgr.child
  <1> DEFINE on == mgr.enable /\ ~(mgr.look.alive \/ ~ShouldRun)
             e == [mgr EXCEPT !.pc = "load"]
             f == [e EXCEPT !.look = NoLook]
  <1>1. e \in ManagerType /\ e.pc = "load" /\ e.child = mgr.child
    BY DEF ManagerType
  <1>2. Seen = [f EXCEPT !.enable = on]
    BY DEF Seen
  <1>3. on \in BOOLEAN
    OBVIOUS
  <1>4. NoLook \in [alive : BOOLEAN, gen : Nat, calm : BOOLEAN]
    BY DEF NoLook
  <1> HIDE DEF e, on
  <1>5. f \in ManagerType /\ f.pc = "load" /\ f.child = mgr.child
    BY <1>1, <1>4 DEF ManagerType
  <1> HIDE DEF f
  <1> QED
    BY <1>2, <1>3, <1>5 DEF ManagerType

\* Only a stop for the read policy alone could cost a round, and that waits for a calm look.
LEMMA StopSparesRounds == ASSUME WorkersInv, mgr.pc = "act", ActStop PROVE
    ~(ShouldRun /\ ~mgr.restart /\ {mgr.look.gen, mgr.spec.gen} \in Soft
      /\ \E r \in Slots : runner[r].st = "up" /\ runner[r].gen = mgr.look.gen /\ runner[r].loop = "busy")
  <1> SUFFICES ASSUME ShouldRun, ~mgr.restart, {mgr.look.gen, mgr.spec.gen} \in Soft,
                      NEW r \in Slots, runner[r].st = "up", runner[r].loop = "busy"
               PROVE  FALSE
    OBVIOUS
  <1>1. Changed /\ ~Defer
    BY DEF ActStop
  <1>2. mgr.look.calm
    BY <1>1 DEF Defer
  <1> QED
    BY <1>2 DEF WorkersInv, CalmKept, InRound

LEMMA StopKeeps == ASSUME WorkersInv, StopRunner PROVE WorkersInv'
  <1>1. WorkerTyped /\ runner \in [Slots -> WrapperType] /\ mgr \in ManagerType /\ ~cut
    BY DEF WorkersInv, WorkerTyped, PaidWorkSpared
  <1>2. mgr' \in ManagerType /\ mgr'.pc = "load" /\ mgr'.child = mgr.child
    BY <1>1, SeenRecord DEF StopRunner
  <1>3. /\ runner' \in [Slots -> WrapperType]
        /\ \A r \in Slots : runner'[r].st = runner[r].st /\ runner'[r].loop = runner[r].loop
    <2>1. \A r \in Slots : LET y == [runner[r] EXCEPT !.stop = TRUE]
                           IN  y \in WrapperType /\ y.st = runner[r].st /\ y.loop = runner[r].loop
      BY <1>1, WrapperFields
    <2>2. PICK rs : runner' = [r \in Slots |-> IF r \in rs THEN [runner[r] EXCEPT !.stop = TRUE] ELSE runner[r]]
      BY DEF StopRunner, Stopping
    <2> QED
      BY <1>1, <2>1, <2>2
  <1>4. cut' = FALSE
    BY <1>1, StopSparesRounds DEF StopRunner
  <1>5. WorkerTyped'
    BY <1>1, <1>2, <1>3, <1>4, SameOthers DEF StopRunner, Others
  <1>6. UNCHANGED cut
    BY <1>1, <1>4, <1>5 DEF WorkerTyped
  <1>7. mgr'.child # 0 => runner'[mgr'.child].st # "none"
    BY <1>1, <1>2, <1>3 DEF WorkersInv, ChildThere, ManagerType
  <1> QED
    BY <1>2, <1>3, <1>5, <1>6, <1>7, NobodyGains DEF Locked, HoldsSlot, InRound

LEMMA LaunchesKeep == ASSUME WorkersAssumption, WorkersInv, NEW r \in Slots, Launch(r) PROVE WorkersInv'
  <1>1. WorkerTyped /\ runner \in [Slots -> WrapperType] /\ mgr \in ManagerType
    BY DEF WorkersInv, WorkerTyped
  <1>2. mgr' \in ManagerType /\ mgr'.pc = "load" /\ mgr'.child = r
    <2> DEFINE e == [Seen EXCEPT !.child = r]
               f == [e EXCEPT !.outcome = NoOutcome]
               g == [f EXCEPT !.restart = FALSE]
               h == [g EXCEPT !.enable = FALSE]
    <2>1. mgr' = h
      BY DEF Launch
    <2>2. e \in ManagerType /\ e.pc = "load" /\ e.child = r
      BY <1>1, SeenRecord DEF ManagerType
    <2>3. NoOutcome \in [gen : Nat, rc : {"none", "ok", "bad"}]
      BY DEF NoOutcome
    <2> HIDE DEF e
    <2>4. f \in ManagerType /\ f.pc = "load" /\ f.child = r
      BY <2>2, <2>3 DEF ManagerType
    <2> HIDE DEF f
    <2>5. g \in ManagerType /\ g.pc = "load" /\ g.child = r
      BY <2>4 DEF ManagerType
    <2> HIDE DEF g
    <2>6. h \in ManagerType /\ h.pc = "load" /\ h.child = r
      BY <2>5 DEF ManagerType
    <2> QED
      BY <2>1, <2>6
  <1> DEFINE x == [[NoRunner EXCEPT !.st = "born"] EXCEPT !.gen = mgr.spec.gen]
  <1>3. runner' = [runner EXCEPT ![r] = x]
    BY DEF Launch
  <1>4. x \in WrapperType /\ x.st = "born" /\ x.loop = "none"
    <2>1. mgr.spec.gen \in Nat
      BY <1>1 DEF ManagerType
    <2> QED
      BY <2>1, NewWrappers
  <1> HIDE DEF x
  <1>5. runner' \in [Slots -> WrapperType] /\ \A q \in Slots : runner'[q] = IF q = r THEN x ELSE runner[q]
    BY <1>1, <1>3, <1>4
  <1>6. WorkerTyped'
    BY <1>1, <1>2, <1>5, SameOthers DEF Launch, Others, WorkerTyped
  <1>7. \A q \in Slots : /\ Locked(q)' => Locked(q)
                         /\ HoldsSlot(q)' => HoldsSlot(q)
                         /\ InRound(q)' => InRound(q)
    BY <1>4, <1>5 DEF Locked, HoldsSlot, InRound, Loops
  <1>8. runner'[mgr'.child].st # "none"
    BY <1>2, <1>4, <1>5
  <1> QED
    BY <1>2, <1>6, <1>7, <1>8, NobodyGains DEF Launch

LEMMA LeaveAloneKeeps == ASSUME WorkersAssumption, WorkersInv, LeaveAlone PROVE WorkersInv'
  <1>1. WorkerTyped /\ mgr \in ManagerType
    BY DEF WorkersInv, WorkerTyped
  <1>2. mgr' \in ManagerType /\ mgr'.pc = "load" /\ mgr'.child = mgr.child
    <2>1. CASE mgr' = Seen
      BY <1>1, <2>1, SeenRecord
    <2>2. CASE mgr' = [Seen EXCEPT !.failure = NoFailure]
      <3>1. NoFailure \in [gen : Nat, ripe : BOOLEAN]
        BY DEF NoFailure
      <3>2. Seen \in ManagerType /\ Seen.pc = "load" /\ Seen.child = mgr.child
        BY <1>1, SeenRecord
      <3> QED
        BY <2>2, <3>1, <3>2 DEF ManagerType
    <2> QED
      BY <2>1, <2>2 DEF LeaveAlone
  <1>3. file' \in [by : Slots \cup {0}, gen : Nat, state : {"none", "queued", "live", "stopped", "exited", "failed"},
                   exit : {"none", "ok", "bad"}, stopped : BOOLEAN, count : 0..MaxCount]
    <2>1. file' \in {file, NoFile, [file EXCEPT !.count = 0]}
      BY DEF LeaveAlone
    <2>2. CASE file' = file
      BY <1>1, <2>2 DEF WorkerTyped
    <2>3. CASE file' = NoFile
      BY <2>3, WorkerConstants DEF NoFile
    <2>4. CASE file' = [file EXCEPT !.count = 0]
      BY <1>1, <2>4, WorkerConstants DEF WorkerTyped
    <2> QED
      BY <2>1, <2>2, <2>3, <2>4
  <1>4. WorkerTyped'
    BY <1>1, <1>2, <1>3 DEF LeaveAlone, WorkerTyped
  <1> QED
    BY <1>2, <1>4, WrappersStay DEF LeaveAlone

LEMMA DelayOverKeeps == ASSUME WorkersInv, DelayOver PROVE WorkersInv'
  <1>1. WorkerTyped /\ mgr \in ManagerType
    BY DEF WorkersInv, WorkerTyped
  <1>2. Keeps(mgr, mgr')
    <2> DEFINE late == [mgr.failure EXCEPT !.ripe = TRUE]
    <2>1. mgr' = [mgr EXCEPT !.failure = late]
      BY DEF DelayOver
    <2>2. late \in [gen : Nat, ripe : BOOLEAN]
      <3>1. mgr.failure \in [gen : Nat, ripe : BOOLEAN]
        BY <1>1 DEF ManagerType
      <3> QED
        BY <3>1
    <2> HIDE DEF late
    <2> QED
      BY <1>1, <2>1, <2>2 DEF Keeps, ManagerType
  <1>3. WorkerTyped'
    BY <1>1, <1>2, SameOthers DEF DelayOver, Others, WorkerTyped, Keeps
  <1> QED
    BY <1>2, <1>3, WrappersStay DEF DelayOver, Keeps
-----------------------------------------------------------------------------
(* The wrapper. *)

\* It takes the lock while nobody has it.
LEMMA TakeKeeps == ASSUME WorkersInv, NEW r \in Slots, TakeWorkerLock(r) PROVE WorkersInv'
  <1>1. /\ WorkerTyped /\ runner \in [Slots -> WrapperType] /\ runner[r] \in WrapperType /\ runner[r].st = "born"
        /\ mgr \in ManagerType /\ UNCHANGED <<mgr, cut>>
    BY DEF WorkersInv, WorkerTyped, TakeWorkerLock
  <1>2. CASE Alive
    <2> DEFINE e == [runner[r] EXCEPT !.st = "over"]
               f == [e EXCEPT !.rc = "bad"]
               x == IF mgr.child = r THEN f ELSE NoRunner
    <2>1. runner' = [runner EXCEPT ![r] = x]
      BY <1>2 DEF TakeWorkerLock
    <2>2. e \in WrapperType /\ e.st = "over" /\ e.loop = runner[r].loop
      BY <1>1 DEF WrapperType
    <2> HIDE DEF e
    <2>3. f \in WrapperType /\ f.st = "over" /\ f.loop = runner[r].loop
      BY <2>2 DEF WrapperType
    <2> HIDE DEF f
    <2>4. /\ x \in WrapperType /\ x.st \notin {"locked", "up", "ending"}
          /\ x.loop \in {runner[r].loop, "none"} /\ (x.st = "none" => mgr.child # r)
      BY <2>3, NewWrappers
    <2> HIDE DEF x
    <2>5. WorkerTyped'
      BY <1>1, <2>1, <2>4, SameOthers DEF TakeWorkerLock, Others, WorkerTyped
    <2> QED
      BY <1>1, <2>1, <2>4, <2>5, OneMoves DEF HoldsSlot, Loops
  <1>3. CASE ~Alive
    <2> DEFINE x == [runner[r] EXCEPT !.st = "locked"]
    <2>1. runner' = [runner EXCEPT ![r] = x]
      BY <1>3 DEF TakeWorkerLock
    <2>2. x \in WrapperType /\ x.st = "locked" /\ x.loop = runner[r].loop
      BY <1>1 DEF WrapperType
    <2> HIDE DEF x
    <2>3. WorkerTyped'
      BY <1>1, <2>1, <2>2, SameOthers DEF TakeWorkerLock, Others, WorkerTyped
    <2>4. \A q \in Slots : runner'[q] = IF q = r THEN x ELSE runner[q]
      BY <1>1, <2>1
    <2>5. OneWrapper'
      BY <1>3, <2>4 DEF OneWrapper, Locked, Alive
    <2>6. OneHolder'
      BY <2>2, <2>4 DEF WorkersInv, OneHolder, HoldsSlot
    <2>7. ChildThere' /\ CalmKept' /\ PaidWorkSpared'
      <3>1. ChildThere'
        BY <1>1, <2>2, <2>4 DEF WorkersInv, ChildThere, ManagerType
      <3>2. CalmKept'
        BY <1>1, <2>2, <2>4 DEF WorkersInv, CalmKept, InRound
      <3> QED
        BY <1>1, <3>1, <3>2 DEF WorkersInv, PaidWorkSpared
    <2> QED
      BY <2>3, <2>5, <2>6, <2>7 DEF WorkersInv
  <1> QED
    BY <1>2, <1>3

FileType == [by : Slots \cup {0}, gen : Nat, state : {"none", "queued", "live", "stopped", "exited", "failed"},
             exit : {"none", "ok", "bad"}, stopped : BOOLEAN, count : 0..MaxCount]

LEMMA PublishKeeps == ASSUME WorkersAssumption, WorkersInv, NEW r \in Slots, PublishStatus(r) PROVE WorkersInv'
  <1>1. /\ WorkerTyped /\ runner \in [Slots -> WrapperType] /\ runner[r] \in WrapperType /\ runner[r].st = "locked"
        /\ UNCHANGED <<policy, config, cli, mgr, edits, faults, cut>> /\ file \in FileType
    BY DEF WorkersInv, WorkerTyped, PublishStatus, FileType
  <1> DEFINE e == [runner[r] EXCEPT !.st = "up"]
             x == [e EXCEPT !.loop = "born"]
  <1>2. runner' = [runner EXCEPT ![r] = x]
    BY DEF PublishStatus
  <1>3. e \in WrapperType /\ e.st = "up"
    BY <1>1 DEF WrapperType
  <1> HIDE DEF e
  <1>4. x \in WrapperType /\ x.st = "up" /\ x.loop = "born"
    BY <1>3 DEF WrapperType
  <1> HIDE DEF x
  <1>5. file' \in FileType
    <2> DEFINE n == IF file.gen = runner[r].gen THEN Least(file.count + 1, MaxCount) ELSE 0
               g == runner[r].gen
    <2>1. n \in 0..MaxCount
      BY <1>1, WorkerConstants DEF Least, FileType
    <2>2. g \in Nat
      BY <1>1 DEF WrapperType
    <2>3. file' = [by |-> r, gen |-> g, state |-> "live", exit |-> "none", stopped |-> FALSE, count |-> n]
      BY DEF PublishStatus
    <2> HIDE DEF n, g
    <2> QED
      BY <2>1, <2>2, <2>3 DEF FileType
  <1>6. WorkerTyped'
    <2>1. runner' \in [Slots -> WrapperType]
      BY <1>1, <1>2, <1>4
    <2> QED
      BY <1>1, <1>5, <2>1 DEF WorkerTyped, FileType
  <1> QED
    BY <1>1, <1>2, <1>4, <1>6, OneMoves DEF Locked, Loops

LEMMA HeedKeeps == ASSUME WorkersInv, NEW r \in Slots, HeedStop(r) PROVE WorkersInv'
  <1>1. /\ WorkerTyped /\ runner \in [Slots -> WrapperType] /\ runner[r] \in WrapperType /\ runner[r].st = "up"
        /\ mgr \in ManagerType /\ UNCHANGED <<mgr, cut>>
    BY DEF WorkersInv, WorkerTyped, HeedStop
  <1> DEFINE loop == LoopTold(runner[r].loop)
             e == [runner[r] EXCEPT !.st = "ending"]
             x == [e EXCEPT !.loop = loop]
  <1>2. runner' = [runner EXCEPT ![r] = x]
    BY DEF HeedStop
  <1>3. e \in WrapperType /\ e.st = "ending"
    BY <1>1 DEF WrapperType
  <1>4. /\ loop \in {"none", "born", "idle", "busy", "ending", "ok", "bad"}
        /\ loop \in Loops \cup {"ending"} => HoldsSlot(r)
    BY <1>1 DEF LoopTold, Loops, HoldsSlot, WrapperType
  <1> HIDE DEF e, loop
  <1>5. x \in WrapperType /\ x.st = "ending" /\ x.loop = loop
    BY <1>3, <1>4 DEF WrapperType
  <1> HIDE DEF x
  <1>6. WorkerTyped'
    BY <1>1, <1>2, <1>5, SameOthers DEF HeedStop, Others, WorkerTyped
  <1> QED
    BY <1>1, <1>2, <1>4, <1>5, <1>6, OneMoves DEF Locked

LEMMA FinishKeeps == ASSUME WorkersAssumption, WorkersInv, NEW r \in Slots, Finish(r) PROVE WorkersInv'
  <1>1. /\ WorkerTyped /\ runner \in [Slots -> WrapperType] /\ runner[r] \in WrapperType
        /\ runner[r].st \in {"up", "ending"} /\ runner[r].loop \in {"ok", "bad"}
        /\ UNCHANGED <<policy, config, cli, mgr, edits, cut>> /\ file \in FileType
    BY DEF WorkersInv, WorkerTyped, Finish, FileType
  <1> DEFINE rc == IF runner[r].st = "ending" THEN "ok" ELSE runner[r].loop
             e == [runner[r] EXCEPT !.st = "over"]
             f == [e EXCEPT !.loop = "none"]
             g == [f EXCEPT !.rc = rc]
             x == IF mgr.child = r THEN g ELSE NoRunner
  <1>2. runner' = [runner EXCEPT ![r] = x]
    BY DEF Finish
  <1>3. e \in WrapperType /\ e.st = "over" /\ rc \in {"none", "ok", "bad"}
    BY <1>1 DEF WrapperType
  <1> HIDE DEF e, rc
  <1>4. f \in WrapperType /\ f.st = "over" /\ f.loop = "none"
    BY <1>3 DEF WrapperType
  <1> HIDE DEF f
  <1>5. g \in WrapperType /\ g.st = "over" /\ g.loop = "none"
    BY <1>3, <1>4 DEF WrapperType
  <1> HIDE DEF g
  <1>6. x \in WrapperType /\ x.st \in {"over", "none"} /\ x.loop = "none" /\ (x.st = "none" => mgr.child # r)
    BY <1>5, NewWrappers
  <1> HIDE DEF x
  <1>7. file' \in FileType
    <2>1. CASE file' = file
      BY <1>1, <2>1
    <2>2. CASE file' = [file EXCEPT !.state = Final(r), !.exit = runner[r].loop, !.stopped = TRUE]
      <3> DEFINE how == Final(r)
                 c == runner[r].loop
                 d == [file EXCEPT !.state = how]
                 h == [d EXCEPT !.exit = c]
      <3>1. file' = [h EXCEPT !.stopped = TRUE]
        BY <2>2
      <3>2. how \in {"stopped", "exited", "failed"} /\ c \in {"ok", "bad"} /\ MaxCount \in Nat
        BY <1>1, WorkerConstants DEF Final
      <3> HIDE DEF how, c
      <3>3. d \in FileType
        BY <1>1, <3>2 DEF FileType
      <3> HIDE DEF d
      <3>4. h \in FileType
        BY <3>2, <3>3 DEF FileType
      <3> HIDE DEF h
      <3> QED
        BY <3>1, <3>2, <3>4 DEF FileType
    <2> QED
      BY <2>1, <2>2 DEF Finish
  <1>8. faults' \in 0..MaxFaults
    <2>1. faults' = faults \/ Faulted
      BY DEF Finish
    <2> QED
      BY <1>1, <2>1, FaultCounted DEF WorkerTyped
  <1>9. WorkerTyped'
    <2>1. runner' \in [Slots -> WrapperType]
      BY <1>1, <1>2, <1>6
    <2> QED
      BY <1>1, <1>7, <1>8, <2>1 DEF WorkerTyped, FileType
  <1> QED
    BY <1>1, <1>2, <1>6, <1>9, OneMoves DEF Loops

LEMMA KillKeeps == ASSUME WorkersAssumption, WorkersInv, NEW r \in Slots, KillRunner(r) PROVE WorkersInv'
  <1>1. /\ WorkerTyped /\ runner \in [Slots -> WrapperType] /\ runner[r] \in WrapperType
        /\ UNCHANGED <<policy, config, cli, file, mgr, edits, cut>> /\ faults' \in 0..MaxFaults
    BY FaultCounted DEF WorkersInv, WorkerTyped, KillRunner
  <1> DEFINE e == [runner[r] EXCEPT !.st = "over"]
             f == [e EXCEPT !.rc = "bad"]
             g == [f EXCEPT !.stop = FALSE]
             x == IF mgr.child = r THEN g ELSE Gone(r)
  <1>2. runner' = [runner EXCEPT ![r] = x]
    BY DEF KillRunner
  <1>3. e \in WrapperType /\ e.st = "over" /\ e.loop = runner[r].loop
    BY <1>1 DEF WrapperType
  <1> HIDE DEF e
  <1>4. f \in WrapperType /\ f.st = "over" /\ f.loop = runner[r].loop
    BY <1>3 DEF WrapperType
  <1> HIDE DEF f
  <1>5. g \in WrapperType /\ g.st = "over" /\ g.loop = runner[r].loop
    BY <1>4 DEF WrapperType
  <1> HIDE DEF g
  <1>6. /\ x \in WrapperType /\ x.st \in {"over", "none"} /\ x.loop = runner[r].loop
        /\ x.st = "none" => mgr.child # r
    BY <1>1, <1>5, GoneRecord
  <1> HIDE DEF x
  <1>7. WorkerTyped'
    <2>1. runner' \in [Slots -> WrapperType]
      BY <1>1, <1>2, <1>6
    <2> QED
      BY <1>1, <2>1 DEF WorkerTyped
  <1> QED
    BY <1>1, <1>2, <1>6, <1>7, OneMoves DEF HoldsSlot

LEMMA OrphanKeeps == ASSUME WorkersInv, NEW r \in Slots, Orphaned(r) PROVE WorkersInv'
  <1>1. /\ WorkerTyped /\ runner \in [Slots -> WrapperType] /\ runner[r] \in WrapperType
        /\ runner[r].st \in {"over", "none"} /\ mgr \in ManagerType /\ UNCHANGED <<mgr, cut>>
    BY DEF WorkersInv, WorkerTyped, Orphaned
  <1> DEFINE ending == [runner[r] EXCEPT !.loop = "ending"]
             over == [runner[r] EXCEPT !.loop = "none"]
             x == IF runner[r].loop = "ending" \/ runner[r].loop \notin Loops
                  THEN IF runner[r].st = "none" THEN NoRunner ELSE over
                  ELSE ending
  <1>2. runner' = [runner EXCEPT ![r] = x]
    BY DEF Orphaned
  <1>3. /\ ending \in WrapperType /\ ending.st = runner[r].st /\ ending.loop = "ending"
        /\ over \in WrapperType /\ over.st = runner[r].st /\ over.loop = "none"
    BY <1>1 DEF WrapperType
  <1> HIDE DEF ending, over
  <1>4. /\ x \in WrapperType /\ x.st = runner[r].st
        /\ x.loop \in Loops \cup {"ending"} => HoldsSlot(r)
    BY <1>3, NewWrappers DEF HoldsSlot, Loops
  <1> HIDE DEF x
  <1>5. WorkerTyped'
    BY <1>1, <1>2, <1>4, SameOthers DEF Orphaned, Others, WorkerTyped
  <1> QED
    BY <1>1, <1>2, <1>4, <1>5, OneMoves
-----------------------------------------------------------------------------
(* The loop. *)

LEMMA LoopMoved ==
    ASSUME WorkersInv, NEW r \in Slots, NEW from, NEW to, LoopGoes(r, from, to),
           to \in {"none", "born", "idle", "busy", "ending", "ok", "bad"}
    PROVE  /\ WorkerTyped' /\ UNCHANGED <<mgr, cut>> /\ runner[r].loop \in from
           /\ \A q \in Slots : /\ runner'[q].st = runner[q].st
                               /\ runner'[q].loop = IF q = r THEN to ELSE runner[q].loop
  <1>1. /\ WorkerTyped /\ runner \in [Slots -> WrapperType] /\ runner[r] \in WrapperType
    BY DEF WorkersInv, WorkerTyped
  <1> DEFINE x == [runner[r] EXCEPT !.loop = to]
  <1>2. runner' = [runner EXCEPT ![r] = x]
    BY DEF LoopGoes
  <1>3. x \in WrapperType /\ x.st = runner[r].st /\ x.loop = to
    BY <1>1 DEF WrapperType
  <1> HIDE DEF x
  <1>4. runner' \in [Slots -> WrapperType]
    BY <1>1, <1>2, <1>3
  <1>5. WorkerTyped'
    BY <1>1, <1>4, SameOthers DEF LoopGoes, Others, WorkerTyped
  <1> QED
    BY <1>1, <1>2, <1>3, <1>5 DEF LoopGoes

\* It reserves the slot while nobody holds it, and begins no round under a manager that found it calm.
LEMMA LoopKeeps ==
    ASSUME WorkersInv, NEW r \in Slots,
           \/ BeginLoop(r) \/ LoopRefused(r) \/ RoundStarts(r) \/ RoundEnds(r)
           \/ \E how \in {"ok", "bad"} : LoopEnds(r, how) \/ LoopStops(r, how)
    PROVE  WorkersInv'
  <1>1. CASE BeginLoop(r)
    <2>1. /\ WorkerTyped' /\ UNCHANGED <<mgr, cut>>
          /\ \A q \in Slots : /\ runner'[q].st = runner[q].st
                              /\ runner'[q].loop = IF q = r THEN "idle" ELSE runner[q].loop
      BY <1>1, LoopMoved DEF BeginLoop
    <2>2. OneHolder'
      BY <1>1, <2>1 DEF BeginLoop, SlotHeld, OneHolder, HoldsSlot
    <2>3. OneWrapper'
      BY <2>1 DEF WorkersInv, OneWrapper, Locked
    <2>4. ChildThere' /\ CalmKept' /\ PaidWorkSpared'
      BY <2>1 DEF WorkersInv, ChildThere, CalmKept, InRound, PaidWorkSpared, WorkerTyped, ManagerType
    <2> QED
      BY <2>1, <2>2, <2>3, <2>4 DEF WorkersInv
  <1>2. CASE RoundStarts(r)
    <2>1. /\ WorkerTyped' /\ UNCHANGED <<mgr, cut>> /\ runner[r].loop = "idle"
          /\ \A q \in Slots : /\ runner'[q].st = runner[q].st
                              /\ runner'[q].loop = IF q = r THEN "busy" ELSE runner[q].loop
      BY <1>2, LoopMoved DEF RoundStarts
    <2>2. OneHolder'
      BY <2>1 DEF WorkersInv, OneHolder, HoldsSlot, Loops
    <2>3. OneWrapper'
      BY <2>1 DEF WorkersInv, OneWrapper, Locked
    <2>4. CalmKept'
      BY <1>2, <2>1 DEF RoundStarts, CalmKept
    <2>5. ChildThere' /\ PaidWorkSpared'
      BY <2>1 DEF WorkersInv, ChildThere, PaidWorkSpared, WorkerTyped, ManagerType
    <2> QED
      BY <2>1, <2>2, <2>3, <2>4, <2>5 DEF WorkersInv
  <1>3. CASE ~BeginLoop(r) /\ ~RoundStarts(r)
    <2>1. PICK to \in {"idle", "ok", "bad"} :
             /\ WorkerTyped' /\ UNCHANGED <<mgr, cut>> /\ (to = "idle" => runner[r].loop = "busy")
             /\ \A q \in Slots : /\ runner'[q].st = runner[q].st
                                 /\ runner'[q].loop = IF q = r THEN to ELSE runner[q].loop
      <3>1. CASE LoopRefused(r)
        BY <3>1, LoopMoved DEF LoopRefused
      <3>2. CASE RoundEnds(r)
        BY <3>2, LoopMoved DEF RoundEnds
      <3>3. CASE \E how \in {"ok", "bad"} : LoopEnds(r, how) \/ LoopStops(r, how)
        BY <3>3, LoopMoved DEF LoopEnds, LoopStops
      <3> QED
        BY <1>3, <3>1, <3>2, <3>3
    <2>2. \A q \in Slots : /\ Locked(q)' => Locked(q)
                           /\ HoldsSlot(q)' => HoldsSlot(q)
                           /\ InRound(q)' => InRound(q)
      BY <2>1 DEF Locked, HoldsSlot, InRound, Loops
    <2>3. mgr'.child # 0 => runner'[mgr'.child].st # "none"
      BY <2>1 DEF WorkersInv, ChildThere, WorkerTyped, ManagerType
    <2> QED
      BY <2>1, <2>2, <2>3, NobodyGains
  <1> QED
    BY <1>1, <1>2, <1>3
-----------------------------------------------------------------------------

LEMMA WorkersGoOn ==
    ASSUME WorkersAssumption, WorkersInv, [Next]_vars
    PROVE  WorkersInv'
  <1>1. CASE UNCHANGED vars
    BY <1>1 DEF vars, WorkersInv, WorkerTyped, OneWrapper, OneHolder, ChildThere, CalmKept, PaidWorkSpared, Locked,
                HoldsSlot, InRound
  <1>2. CASE \/ \E gen \in Gens : EditSpec(gen)
             \/ Remove \/ Disable \/ Spoil \/ Repair \/ EnableWrite \/ EnableClear
    BY <1>2, OperatorKeeps
  <1>3. CASE EnableRequest \/ RestartRequest
    BY <1>3, RequestKeeps
  <1>4. CASE StartManager
    BY <1>4, StartKeeps
  <1>5. CASE ManagerDies \/ Shutdown
    BY <1>5, ManagerEndsKeep
  <1>6. CASE Load
    BY <1>6, LoadKeeps
  <1>7. CASE Look
    BY <1>7, LookKeeps
  <1>8. CASE StopRunner
    BY <1>8, StopKeeps
  <1>9. CASE \E r \in Slots : Launch(r)
    BY <1>9, LaunchesKeep
  <1>10. CASE LeaveAlone
    BY <1>10, LeaveAloneKeeps
  <1>11. CASE DelayOver
    BY <1>11, DelayOverKeeps
  <1>12. CASE \E r \in Slots : RunnerStep(r) \/ KillRunner(r)
    BY <1>12, TakeKeeps, PublishKeeps, HeedKeeps, FinishKeeps, OrphanKeeps, KillKeeps DEF RunnerStep
  <1>13. CASE \E r \in Slots : \/ LoopStep(r) \/ RoundStarts(r) \/ RoundEnds(r)
                               \/ \E how \in {"ok", "bad"} : LoopEnds(r, how)
    BY <1>13, LoopKeeps DEF LoopStep
  <1> QED
    BY <1>1, <1>2, <1>3, <1>4, <1>5, <1>6, <1>7, <1>8, <1>9, <1>10, <1>11, <1>12, <1>13
    DEF Next, CommandStep, ManagerStep

\* A set whose members are all the same has one at most.
LEMMA AtMostOneOf ==
    ASSUME NEW S, \A x, y \in S : x = y
    PROVE  Cardinality(S) <= 1
  <1>1. CASE S = {}
    BY <1>1, FS_EmptySet
  <1>2. CASE S # {}
    <2>1. PICK x : S = {x}
      BY <1>2
    <2> QED
      BY <2>1, FS_Singleton
  <1> QED
    BY <1>1, <1>2

LEMMA WorkersInvSafe == ASSUME WorkersAssumption, WorkersInv PROVE ManagedSafe
  <1>1. Cardinality({r \in Slots : Locked(r)}) <= 1
    BY AtMostOneOf DEF WorkersInv, OneWrapper
  <1>2. Cardinality({r \in Slots : runner[r].loop \in Loops \cup {"ending"}}) <= 1
    BY AtMostOneOf DEF WorkersInv, OneHolder, HoldsSlot
  <1>3. TypeOK
    <2>1. /\ policy \in Policies /\ cli \in {"none", "clear", "request"} /\ faults \in 0..MaxFaults
          /\ edits \in 0..MaxActs
      BY WorkerConstants DEF WorkersInv, WorkerTyped
    <2>2. config.gen \in Gens /\ file.count \in 0..MaxCount
      BY DEF WorkersInv, WorkerTyped
    <2>3. mgr.pc \in {"down", "load", "look", "act"} /\ mgr.child \in Slots \cup {0}
      BY DEF WorkersInv, WorkerTyped, ManagerType
    <2> QED
      BY <1>1, <2>1, <2>2, <2>3 DEF TypeOK, WorkersInv, ChildThere
  <1> QED
    BY <1>2, <1>3 DEF ManagedSafe, OneLoop, WorkersInv

\* Whoever is killed, edited or restarted in whatever order, one loop at most works for a worker, one
\* wrapper holds its lock, and a change of the read policy costs no round that runs.
\* (config.acquire_slot, worker_manager._defer_read_policy_reload)
THEOREM WorkersAreManaged == WorkersAssumption => (Spec => []ManagedSafe)
  <1> SUFFICES ASSUME WorkersAssumption PROVE Spec => []ManagedSafe
    OBVIOUS
  <1>1. Init => WorkersInv
    BY WorkersStart
  <1>2. WorkersInv /\ [Next]_vars => WorkersInv'
    BY WorkersGoOn
  <1>3. WorkersInv => ManagedSafe
    BY WorkersInvSafe
  <1> QED
    BY <1>1, <1>2, <1>3, PTL DEF Spec

-----------------------------------------------------------------------------
(* A loop that ended well. *)

\* A loop that ended well is known to have: from its status, or, once a record of that was lost, from
\* the wrapper that the manager waits for, or from what the manager has seen of it.
InHand(r) == runner[r].st \in {"born", "locked", "up", "ending"}
Published(r) == runner[r].st \in {"up", "ending"}
StatusTells == file.gen = ended /\ file.stopped /\ file.exit = "ok"
OutcomeTells == mgr.child = 0 /\ mgr.outcome.gen = ended /\ mgr.outcome.rc = "ok"
WrapperTells == /\ mgr.child # 0 /\ runner[mgr.child].st = "over"
                /\ runner[mgr.child].gen = ended /\ runner[mgr.child].rc = "ok"

DownKnowsNothing == mgr.pc = "down" => mgr.child = 0 /\ mgr.outcome = NoOutcome
ListedDefined == mgr.spec.there => mgr.spec.gen # 0
Awaited == \A r \in Slots : InHand(r) => mgr.child = r \/ faults # 0

EndTold ==
  /\ DownKnowsNothing /\ ListedDefined /\ Awaited
  /\ ended # 0 => /\ StatusTells \/ (faults # 0 /\ (OutcomeTells \/ WrapperTells))
                  /\ \A r \in Slots : ~Published(r)

LEMMA EndTellsFirst == ASSUME WorkersAssumption, Init PROVE EndTold
  <1>1. /\ mgr.pc = "down" /\ mgr.child = 0 /\ mgr.outcome = NoOutcome /\ ~mgr.spec.there /\ ended = 0
        /\ \A r \in Slots : runner[r].st = "none"
    BY DEF Init, MgrDown, NoSpec, NoRunner
  <1> QED
    BY <1>1 DEF EndTold, DownKnowsNothing, ListedDefined, Awaited, InHand

\* What a step may do to the wrappers without telling anything new of an end.
NoNews(r) ==
  /\ InHand(r)' => InHand(r)
  /\ ended' # 0 /\ Published(r)' => Published(r)
  /\ runner[r].st = "over" => /\ runner'[r].st = "over" /\ runner'[r].gen = runner[r].gen
                              /\ runner'[r].rc = runner[r].rc

LEMMA EndStays ==
    ASSUME WorkersAssumption, WorkersInv, EndTold, ended' \in {0, ended}, faults' = faults, DownKnowsNothing', ListedDefined',
           mgr'.child = mgr.child, \A r \in Slots : NoNews(r),
           ended' # 0 => mgr'.outcome = mgr.outcome,
           ended' # 0 => file'.gen = file.gen /\ file'.stopped = file.stopped /\ file'.exit = file.exit
    PROVE  EndTold'
  <1>1. Awaited'
    BY DEF EndTold, Awaited, NoNews
  <1>2. ASSUME ended' # 0
        PROVE  (StatusTells \/ (faults # 0 /\ (OutcomeTells \/ WrapperTells)))' /\ \A r \in Slots : ~Published(r)'
    <2>1. ended' = ended /\ ended # 0
      BY <1>2
    <2>2. StatusTells => StatusTells'
      BY <1>2, <2>1 DEF StatusTells
    <2>3. OutcomeTells => OutcomeTells'
      BY <1>2, <2>1 DEF OutcomeTells
    <2>4. WrapperTells => WrapperTells'
      <3> SUFFICES ASSUME WrapperTells PROVE WrapperTells'
        OBVIOUS
      <3>1. mgr.child \in Slots
        BY DEF WrapperTells, WorkersInv, WorkerTyped, ManagerType
      <3>2. PICK r \in Slots : r = mgr.child
        BY <3>1
      <3>3. NoNews(r) /\ runner[r].st = "over" /\ runner[r].gen = ended /\ runner[r].rc = "ok" /\ mgr.child # 0
        BY <3>2 DEF WrapperTells
      <3>4. runner'[r].st = "over" /\ runner'[r].gen = ended /\ runner'[r].rc = "ok" /\ mgr'.child = r /\ mgr'.child # 0
        BY <3>2, <3>3 DEF NoNews
      <3> QED
        BY <2>1, <3>4 DEF WrapperTells
    <2>5. \A r \in Slots : ~Published(r)'
      BY <1>2, <2>1 DEF EndTold, NoNews
    <2> QED
      BY <2>1, <2>2, <2>3, <2>4, <2>5 DEF EndTold
  <1> QED
    BY <1>1, <1>2 DEF EndTold

\* The one fault there may be: no end was told by anything but the status before.
LEMMA FaultStays ==
    ASSUME WorkersAssumption, MaxFaults <= 1, WorkersInv, EndTold, Faulted, DownKnowsNothing', ListedDefined',
           UNCHANGED <<ended, file>>, \A r \in Slots : Published(r)' => Published(r)
    PROVE  EndTold'
  <1>1. faults = 0 /\ faults' = 1
    BY DEF Faulted, WorkersInv, WorkerTyped, WorkersAssumption
  <1>2. Awaited'
    BY <1>1 DEF Awaited
  <1> QED
    BY <1>1, <1>2 DEF EndTold, StatusTells

\* Steps of the operator.
LEMMA EditsStay ==
    ASSUME WorkersAssumption, WorkersInv, EndTold,
           \/ \E gen \in Gens : EditSpec(gen)
           \/ Remove \/ Disable \/ Spoil \/ Repair \/ EnableWrite \/ EnableClear
    PROVE  EndTold'
  <1>1. UNCHANGED <<mgr, runner, faults>>
    BY DEF EditSpec, Remove, Disable, Spoil, Repair, EnableWrite, EnableClear, Edited
  <1>2. ended' \in {0, ended} /\ (ended' # 0 => file' = file)
    BY DEF EditSpec, Remove, Disable, Spoil, Repair, EnableWrite, EnableClear, Edited
  <1>3. DownKnowsNothing' /\ ListedDefined'
    BY <1>1 DEF EndTold, DownKnowsNothing, ListedDefined
  <1>4. \A r \in Slots : NoNews(r)
    BY <1>1 DEF NoNews, InHand, Published
  <1> QED
    BY <1>1, <1>2, <1>3, <1>4, EndStays

\* What a step of the manager may leave alone of its memory.
Remembers(m, n) == n.pc # "down" /\ n.child = m.child /\ n.spec = m.spec /\ n.outcome = m.outcome

LEMMA SeenRemembers == ASSUME mgr \in ManagerType PROVE Remembers(mgr, Seen)
  <1> DEFINE on == mgr.enable /\ ~(mgr.look.alive \/ ~ShouldRun)
             e == [mgr EXCEPT !.pc = "load"]
             f == [e EXCEPT !.look = NoLook]
  <1>1. e \in ManagerType /\ Remembers(mgr, e) /\ e.pc = "load"
    BY DEF ManagerType, Remembers
  <1>2. Seen = [f EXCEPT !.enable = on]
    BY DEF Seen
  <1>3. NoLook \in [alive : BOOLEAN, gen : Nat, calm : BOOLEAN]
    BY DEF NoLook
  <1> HIDE DEF e, on
  <1>4. f \in ManagerType /\ Remembers(mgr, f)
    BY <1>1, <1>3 DEF ManagerType, Remembers
  <1> HIDE DEF f
  <1> QED
    BY <1>2, <1>4 DEF ManagerType, Remembers

\* The manager looks, tells, is asked or waits: the wrappers stay where they are.
LEMMA MemoryStays ==
    ASSUME WorkersAssumption, WorkersInv, EndTold, mgr.pc # "down",
           RestartRequest \/ Look \/ StopRunner \/ LeaveAlone
    PROVE  EndTold'
  <1>1. mgr \in ManagerType /\ runner \in [Slots -> WrapperType]
    BY DEF WorkersInv, WorkerTyped
  <1>2. Remembers(mgr, mgr')
    <2>1. CASE RestartRequest
      <3>1. mgr' = [mgr EXCEPT !.restart = TRUE]
        BY <2>1 DEF RestartRequest
      <3> QED
        BY <1>1, <3>1 DEF ManagerType, Remembers
    <2>2. CASE Look
      <3> DEFINE look == [alive |-> Alive, gen |-> file.gen,
                          calm |-> \E r \in Slots : runner[r].st = "up" /\ runner[r].loop = "idle"]
                 e == [mgr EXCEPT !.pc = "act"]
      <3>1. mgr' = [e EXCEPT !.look = look]
        BY <2>2 DEF Look
      <3> HIDE DEF look
      <3> QED
        BY <1>1, <3>1 DEF ManagerType, Remembers
    <2>3. CASE StopRunner \/ LeaveAlone
      <3>1. mgr' = Seen \/ mgr' = [Seen EXCEPT !.failure = NoFailure]
        BY <2>3 DEF StopRunner, LeaveAlone
      <3>2. Seen \in ManagerType /\ Remembers(mgr, Seen)
        BY <1>1, SeenRecord, SeenRemembers
      <3> QED
        BY <3>1, <3>2 DEF ManagerType, Remembers
    <2> QED
      BY <2>1, <2>2, <2>3
  <1>3. ended' \in {0, ended} /\ faults' = faults
    BY DEF RestartRequest, Edited, Look, StopRunner, LeaveAlone
  <1>4. ended' # 0 => file'.gen = file.gen /\ file'.stopped = file.stopped /\ file'.exit = file.exit
    <2>1. ended' # 0 => file' \in {file, [file EXCEPT !.count = 0]}
      BY DEF RestartRequest, Edited, Look, StopRunner, LeaveAlone
    <2> QED
      BY <2>1 DEF WorkersInv, WorkerTyped
  <1>5. DownKnowsNothing' /\ ListedDefined'
    BY <1>2 DEF EndTold, DownKnowsNothing, ListedDefined, Remembers
  <1>6. \A r \in Slots : NoNews(r)
    <2>1. CASE runner' = runner
      BY <2>1 DEF NoNews, InHand, Published
    <2>2. CASE StopRunner
      <3>1. PICK rs : runner' = [r \in Slots |-> IF r \in rs THEN [runner[r] EXCEPT !.stop = TRUE] ELSE runner[r]]
        BY <2>2 DEF StopRunner, Stopping
      <3>2. ASSUME NEW r \in Slots
            PROVE  runner'[r].st = runner[r].st /\ runner'[r].gen = runner[r].gen /\ runner'[r].rc = runner[r].rc
        BY <1>1, <3>1 DEF WrapperType
      <3> QED
        BY <3>2 DEF NoNews, InHand, Published
    <2> QED
      BY <2>1, <2>2 DEF RestartRequest, Look, LeaveAlone
  <1> QED
    BY <1>2, <1>3, <1>4, <1>5, <1>6, EndStays DEF Remembers

LEMMA RequestStays == ASSUME WorkersAssumption, WorkersInv, EndTold, EnableRequest PROVE EndTold'
  <1>1. mgr \in ManagerType /\ mgr.pc \in {"load", "look"} /\ UNCHANGED <<runner, faults>> /\ ended' = 0
    BY DEF WorkersInv, WorkerTyped, EnableRequest
  <1>2. mgr'.pc = mgr.pc /\ mgr'.child = mgr.child /\ mgr'.spec = mgr.spec
    <2> DEFINE e == [mgr EXCEPT !.enable = TRUE]
               f == [e EXCEPT !.outcome = NoOutcome]
    <2>1. mgr' = [f EXCEPT !.failure = NoFailure]
      BY DEF EnableRequest
    <2> QED
      BY <1>1, <2>1 DEF ManagerType
  <1>3. DownKnowsNothing' /\ ListedDefined'
    BY <1>1, <1>2 DEF EndTold, DownKnowsNothing, ListedDefined
  <1>4. \A r \in Slots : NoNews(r)
    BY <1>1 DEF NoNews, InHand, Published
  <1> QED
    BY <1>1, <1>2, <1>3, <1>4, EndStays

LEMMA DelayStays == ASSUME WorkersAssumption, WorkersInv, EndTold, DelayOver PROVE EndTold'
  <1>1. mgr \in ManagerType /\ UNCHANGED <<file, runner, faults, ended>>
    BY DEF WorkersInv, WorkerTyped, DelayOver
  <1>2. mgr'.pc = mgr.pc /\ mgr'.child = mgr.child /\ mgr'.spec = mgr.spec /\ mgr'.outcome = mgr.outcome
    <2> DEFINE late == [mgr.failure EXCEPT !.ripe = TRUE]
    <2>1. mgr' = [mgr EXCEPT !.failure = late]
      BY DEF DelayOver
    <2> HIDE DEF late
    <2> QED
      BY <1>1, <2>1 DEF ManagerType
  <1>3. DownKnowsNothing' /\ ListedDefined'
    BY <1>1, <1>2 DEF EndTold, DownKnowsNothing, ListedDefined
  <1>4. \A r \in Slots : NoNews(r)
    BY <1>1 DEF NoNews, InHand, Published
  <1> QED
    BY <1>1, <1>2, <1>3, <1>4, EndStays

\* A manager that starts knows nothing.
LEMMA StartStays == ASSUME WorkersAssumption, WorkersInv, EndTold, StartManager PROVE EndTold'
  <1>1. mgr.pc = "down" /\ mgr' = [MgrDown EXCEPT !.pc = "load"] /\ UNCHANGED <<file, runner, faults, ended>>
    BY DEF StartManager
  <1>2. mgr'.pc = "load" /\ mgr'.child = 0 /\ ~mgr'.spec.there /\ mgr'.outcome = NoOutcome
    BY <1>1 DEF MgrDown, NoSpec
  <1>3. mgr.child = 0 /\ mgr.outcome = NoOutcome
    BY <1>1 DEF EndTold, DownKnowsNothing
  <1>4. DownKnowsNothing' /\ ListedDefined'
    BY <1>2 DEF DownKnowsNothing, ListedDefined
  <1>5. \A r \in Slots : NoNews(r)
    BY <1>1 DEF NoNews, InHand, Published
  <1> QED
    BY <1>1, <1>2, <1>3, <1>4, <1>5, EndStays

LEMMA ManagerFaultStays ==
    ASSUME WorkersAssumption, MaxFaults <= 1, WorkersInv, EndTold, ManagerDies \/ Shutdown
    PROVE  EndTold'
  <1>1. /\ Faulted /\ mgr' = MgrDown /\ UNCHANGED <<ended, file>> /\ runner \in [Slots -> WrapperType] /\ WorkerTyped
    BY DEF ManagerDies, Shutdown, WorkersInv, WorkerTyped
  <1>2. DownKnowsNothing' /\ ListedDefined'
    BY <1>1 DEF DownKnowsNothing, ListedDefined, MgrDown, NoSpec
  <1>3. ASSUME NEW r \in Slots, Published(r)' PROVE Published(r)
    <2>1. Forgotten[r] = IF runner[r].st = "over" THEN Gone(r) ELSE runner[r]
      BY DEF Forgotten
    <2>2. Gone(r).st = "none"
      BY <1>1, GoneRecord
    <2>3. runner'[r] = Forgotten[r] \/ runner'[r] = [runner[r] EXCEPT !.stop = TRUE]
      <3>1. CASE ManagerDies
        BY <3>1 DEF ManagerDies
      <3>2. CASE Shutdown
        BY <3>2 DEF Shutdown
      <3> QED
        BY <3>1, <3>2
    <2>4. [runner[r] EXCEPT !.stop = TRUE].st = runner[r].st
      BY <1>1 DEF WrapperType
    <2> QED
      BY <1>3, <2>1, <2>2, <2>3, <2>4 DEF Published
  <1> QED
    BY <1>1, <1>2, <1>3, FaultStays

\* One wrapper moves and tells nothing.
LEMMA WrapperStays ==
    ASSUME WorkersAssumption, WorkersInv, EndTold, UNCHANGED <<mgr, faults>>, ended' \in {0, ended},
           ended' # 0 => file' = file,
           NEW r \in Slots, NEW x \in WrapperType, runner' = [runner EXCEPT ![r] = x],
           x.st \in {"born", "locked", "up", "ending"} => InHand(r),
           ended' # 0 /\ x.st \in {"up", "ending"} => Published(r),
           runner[r].st = "over" => x.st = "over" /\ x.gen = runner[r].gen /\ x.rc = runner[r].rc
    PROVE  EndTold'
  <1>1. runner \in [Slots -> WrapperType]
    BY DEF WorkersInv, WorkerTyped
  <1>2. \A q \in Slots : runner'[q] = IF q = r THEN x ELSE runner[q]
    BY <1>1
  <1>3. \A q \in Slots : NoNews(q)
    BY <1>2 DEF NoNews, InHand, Published
  <1>4. DownKnowsNothing' /\ ListedDefined'
    BY DEF EndTold, DownKnowsNothing, ListedDefined
  <1> QED
    BY <1>3, <1>4, EndStays

LEMMA TakeStays == ASSUME WorkersAssumption, WorkersInv, EndTold, NEW r \in Slots, TakeWorkerLock(r) PROVE EndTold'
  <1>1. /\ runner[r] \in WrapperType /\ runner[r].st = "born" /\ UNCHANGED <<mgr, faults, file, ended>>
    BY DEF WorkersInv, WorkerTyped, TakeWorkerLock
  <1> DEFINE held == [runner[r] EXCEPT !.st = "locked"]
             over == [runner[r] EXCEPT !.st = "over"]
             lost == [over EXCEPT !.rc = "bad"]
             x == IF ~Alive THEN held ELSE IF mgr.child = r THEN lost ELSE NoRunner
  <1>2. runner' = [runner EXCEPT ![r] = x]
    BY DEF TakeWorkerLock
  <1>3. held \in WrapperType /\ held.st = "locked" /\ over \in WrapperType /\ over.st = "over"
    BY <1>1 DEF WrapperType
  <1> HIDE DEF held, over
  <1>4. lost \in WrapperType /\ lost.st = "over"
    BY <1>3 DEF WrapperType
  <1> HIDE DEF lost
  <1>5. x \in WrapperType /\ x.st \in {"locked", "over", "none"}
    BY <1>3, <1>4, NewWrappers
  <1> HIDE DEF x
  <1> QED
    BY <1>1, <1>2, <1>5, WrapperStays DEF InHand

LEMMA PublishStays == ASSUME WorkersAssumption, WorkersInv, EndTold, NEW r \in Slots, PublishStatus(r) PROVE EndTold'
  <1>1. /\ runner[r] \in WrapperType /\ runner[r].st = "locked" /\ UNCHANGED <<mgr, faults>> /\ ended' = 0
    BY DEF WorkersInv, WorkerTyped, PublishStatus
  <1> DEFINE e == [runner[r] EXCEPT !.st = "up"]
             x == [e EXCEPT !.loop = "born"]
  <1>2. runner' = [runner EXCEPT ![r] = x]
    BY DEF PublishStatus
  <1>3. e \in WrapperType /\ e.st = "up"
    BY <1>1 DEF WrapperType
  <1> HIDE DEF e
  <1>4. x \in WrapperType /\ x.st = "up"
    BY <1>3 DEF WrapperType
  <1> HIDE DEF x
  <1> QED
    BY <1>1, <1>2, <1>4, WrapperStays DEF InHand

LEMMA HeedStays == ASSUME WorkersAssumption, WorkersInv, EndTold, NEW r \in Slots, HeedStop(r) PROVE EndTold'
  <1>1. /\ runner[r] \in WrapperType /\ runner[r].st = "up" /\ UNCHANGED <<mgr, faults, file, ended>>
    BY DEF WorkersInv, WorkerTyped, HeedStop
  <1> DEFINE loop == LoopTold(runner[r].loop)
             e == [runner[r] EXCEPT !.st = "ending"]
             x == [e EXCEPT !.loop = loop]
  <1>2. runner' = [runner EXCEPT ![r] = x]
    BY DEF HeedStop
  <1>3. e \in WrapperType /\ e.st = "ending"
    BY <1>1 DEF WrapperType
  <1>4. loop \in {"none", "born", "idle", "busy", "ending", "ok", "bad"}
    BY <1>1 DEF LoopTold, Loops, WrapperType
  <1> HIDE DEF e, loop
  <1>5. x \in WrapperType /\ x.st = "ending"
    BY <1>3, <1>4 DEF WrapperType
  <1> HIDE DEF x
  <1> QED
    BY <1>1, <1>2, <1>5, WrapperStays DEF InHand, Published

LEMMA OrphanStays == ASSUME WorkersAssumption, WorkersInv, EndTold, NEW r \in Slots, Orphaned(r) PROVE EndTold'
  <1>1. /\ runner[r] \in WrapperType /\ runner[r].st \in {"over", "none"} /\ UNCHANGED <<mgr, faults, file, ended>>
    BY DEF WorkersInv, WorkerTyped, Orphaned
  <1> DEFINE ending == [runner[r] EXCEPT !.loop = "ending"]
             over == [runner[r] EXCEPT !.loop = "none"]
             x == IF runner[r].loop = "ending" \/ runner[r].loop \notin Loops
                  THEN IF runner[r].st = "none" THEN NoRunner ELSE over
                  ELSE ending
  <1>2. runner' = [runner EXCEPT ![r] = x]
    BY DEF Orphaned
  <1>3. /\ ending \in WrapperType /\ ending.st = runner[r].st /\ ending.gen = runner[r].gen /\ ending.rc = runner[r].rc
        /\ over \in WrapperType /\ over.st = runner[r].st /\ over.gen = runner[r].gen /\ over.rc = runner[r].rc
    BY <1>1 DEF WrapperType
  <1> HIDE DEF ending, over
  <1>4. /\ x \in WrapperType /\ x.st = runner[r].st
        /\ x.st = "over" => x.gen = runner[r].gen /\ x.rc = runner[r].rc
    BY <1>3, NewWrappers
  <1> HIDE DEF x
  <1> QED
    BY <1>1, <1>2, <1>4, WrapperStays

LEMMA LoopStays ==
    ASSUME WorkersAssumption, WorkersInv, EndTold, NEW r \in Slots,
           \/ BeginLoop(r) \/ LoopRefused(r) \/ RoundStarts(r) \/ RoundEnds(r)
           \/ \E how \in {"ok", "bad"} : LoopEnds(r, how) \/ LoopStops(r, how)
    PROVE  EndTold'
  <1>1. PICK from \in {Loops, {"born"}, {"idle"}, {"busy"}, {"ending"}}, to \in {"idle", "busy", "ok", "bad"} :
          LoopGoes(r, from, to)
    BY DEF BeginLoop, LoopRefused, RoundStarts, RoundEnds, LoopEnds, LoopStops
  <1>2. runner[r] \in WrapperType /\ UNCHANGED <<mgr, faults, file, ended>>
    BY <1>1 DEF WorkersInv, WorkerTyped, LoopGoes
  <1> DEFINE x == [runner[r] EXCEPT !.loop = to]
  <1>3. runner' = [runner EXCEPT ![r] = x]
    BY <1>1 DEF LoopGoes
  <1>4. x \in WrapperType /\ x.st = runner[r].st /\ x.gen = runner[r].gen /\ x.rc = runner[r].rc
    BY <1>2 DEF WrapperType
  <1> HIDE DEF x
  <1> QED
    BY <1>2, <1>3, <1>4, WrapperStays DEF InHand, Published

LEMMA KillStays ==
    ASSUME WorkersAssumption, MaxFaults <= 1, WorkersInv, EndTold, NEW r \in Slots, KillRunner(r)
    PROVE  EndTold'
  <1>1. /\ Faulted /\ UNCHANGED <<ended, file, mgr>> /\ runner \in [Slots -> WrapperType] /\ WorkerTyped
    BY DEF KillRunner, WorkersInv, WorkerTyped
  <1> DEFINE e == [runner[r] EXCEPT !.st = "over"]
             f == [e EXCEPT !.rc = "bad"]
             x == IF mgr.child = r THEN [f EXCEPT !.stop = FALSE] ELSE Gone(r)
  <1>2. runner' = [runner EXCEPT ![r] = x]
    BY DEF KillRunner
  <1>3. x.st \in {"over", "none"}
    BY <1>1, GoneRecord DEF WrapperType
  <1> HIDE DEF x
  <1>4. \A q \in Slots : Published(q)' => Published(q)
    BY <1>1, <1>2, <1>3 DEF Published
  <1>5. DownKnowsNothing' /\ ListedDefined'
    BY <1>1 DEF EndTold, DownKnowsNothing, ListedDefined
  <1> QED
    BY <1>1, <1>4, <1>5, FaultStays

\* A loop that ends well is told of by its status, or, if that was the one thing lost, by its wrapper.
LEMMA FinishTells ==
    ASSUME WorkersAssumption, MaxFaults <= 1, WorkersInv, EndTold, NEW r \in Slots, Finish(r)
    PROVE  EndTold'
  <1>1. /\ runner \in [Slots -> WrapperType] /\ runner[r] \in WrapperType /\ WorkerTyped /\ UNCHANGED mgr
        /\ runner[r].st \in {"up", "ending"} /\ runner[r].loop \in {"ok", "bad"} /\ ended \in {0, ended}
    BY DEF WorkersInv, WorkerTyped, Finish
  <1>2. ended = 0 /\ \A q \in Slots : Published(q) => q = r
    <2>1. Published(r) /\ \A q \in Slots : Published(q) => Locked(q)
      BY <1>1 DEF Published, Locked
    <2> QED
      BY <2>1 DEF EndTold, WorkersInv, OneWrapper
  <1> DEFINE rc == IF runner[r].st = "ending" THEN "ok" ELSE runner[r].loop
             e == [runner[r] EXCEPT !.st = "over"]
             f == [e EXCEPT !.loop = "none"]
             g == [f EXCEPT !.rc = rc]
             x == IF mgr.child = r THEN g ELSE NoRunner
  <1>3. runner' = [runner EXCEPT ![r] = x]
    BY DEF Finish
  <1>4. /\ x.st \in {"over", "none"}
        /\ mgr.child = r => x.st = "over" /\ x.gen = runner[r].gen
        /\ mgr.child = r /\ runner[r].st = "up" /\ runner[r].loop = "ok" => x.rc = "ok"
    <2>1. e \in WrapperType /\ e.st = "over" /\ e.gen = runner[r].gen /\ rc \in {"none", "ok", "bad"}
      BY <1>1 DEF WrapperType
    <2>2. runner[r].st = "up" /\ runner[r].loop = "ok" => rc = "ok"
      BY <1>1
    <2> HIDE DEF e, rc
    <2>3. f \in WrapperType /\ f.st = "over" /\ f.gen = runner[r].gen
      BY <2>1 DEF WrapperType
    <2> HIDE DEF f
    <2>4. g.st = "over" /\ g.gen = runner[r].gen /\ g.rc = rc
      BY <2>1, <2>3 DEF WrapperType
    <2> HIDE DEF g
    <2> QED
      BY <2>2, <2>4, NewWrappers
  <1> HIDE DEF x
  <1>5. \A q \in Slots : runner'[q] = IF q = r THEN x ELSE runner[q]
    BY <1>1, <1>3
  <1>6. DownKnowsNothing' /\ ListedDefined'
    BY <1>1 DEF EndTold, DownKnowsNothing, ListedDefined
  <1>7. (faults # 0)' \/ faults' = faults
    BY <1>1 DEF Finish, Faulted, WorkerTyped
  <1>8. Awaited'
    BY <1>1, <1>4, <1>5, <1>7 DEF EndTold, Awaited, InHand
  <1>9. ASSUME ended' # 0
        PROVE  (StatusTells \/ (faults # 0 /\ (OutcomeTells \/ WrapperTells)))' /\ \A q \in Slots : ~Published(q)'
    <2>1. /\ Final(r) = "exited" /\ file.gen = runner[r].gen /\ ended' = runner[r].gen
      BY <1>2, <1>9 DEF Finish
    <2>2. runner[r].st = "up" /\ runner[r].loop = "ok"
      BY <1>1, <2>1 DEF Final
    <2>3. \A q \in Slots : ~Published(q)'
      BY <1>2, <1>4, <1>5 DEF Published
    <2>4. CASE file' = [file EXCEPT !.state = Final(r), !.exit = runner[r].loop, !.stopped = TRUE]
      <3>1. file'.gen = file.gen /\ file'.exit = "ok" /\ file'.stopped
        BY <1>1, <2>2, <2>4 DEF WorkerTyped
      <3> QED
        BY <2>1, <2>3, <3>1 DEF StatusTells
    <2>5. CASE Faulted
      <3>1. faults = 0 /\ faults' = 1
        BY <1>1, <2>5 DEF Faulted, WorkerTyped, WorkersAssumption
      <3>2. mgr.child = r
        BY <1>1, <3>1 DEF EndTold, Awaited, InHand
      <3>3. mgr'.child = r /\ r # 0 /\ runner'[r].st = "over" /\ runner'[r].gen = ended' /\ runner'[r].rc = "ok"
        BY <1>1, <1>4, <1>5, <2>1, <2>2, <3>2, WorkerConstants
      <3>4. WrapperTells'
        BY <3>3 DEF WrapperTells
      <3> QED
        BY <2>3, <3>1, <3>4
    <2> QED
      BY <2>4, <2>5 DEF Finish
  <1> QED
    BY <1>6, <1>8, <1>9 DEF EndTold

\* The manager learns of an end from the wrapper it reaps.
LEMMA LoadTells == ASSUME WorkersAssumption, WorkersInv, EndTold, Load PROVE EndTold'
  <1>1. /\ WorkerTyped /\ runner \in [Slots -> WrapperType] /\ mgr \in ManagerType /\ mgr.child \in Slots \cup {0}
        /\ config \in [there : BOOLEAN, enabled : BOOLEAN, gen : Gens, sound : BOOLEAN]
        /\ UNCHANGED <<file, faults, ended>> /\ mgr.pc = "load"
    BY DEF WorkersInv, WorkerTyped, ManagerType, Load
  <1> DEFINE m == IF config.sound THEN [mgr EXCEPT !.known = TRUE, !.spec = Sound] ELSE mgr
  <1>2. /\ mgr' = [Reaped(m) EXCEPT !.pc = "look"]
        /\ runner' = IF Reaped(m).child = m.child THEN runner ELSE [runner EXCEPT ![m.child] = Gone(m.child)]
    BY DEF Load
  <1>3. m \in ManagerType /\ m.child = mgr.child /\ m.outcome = mgr.outcome /\ (m.spec.there => m.spec.gen # 0)
    <2> DEFINE e == [mgr EXCEPT !.known = TRUE]
               f == [e EXCEPT !.spec = Sound]
    <2>1. e \in ManagerType /\ e.child = mgr.child /\ e.outcome = mgr.outcome
      BY <1>1 DEF ManagerType
    <2>2. Sound \in [there : BOOLEAN, enabled : BOOLEAN, gen : Nat] /\ Sound.gen # 0
      BY <1>1, WorkerConstants DEF Sound
    <2> HIDE DEF e
    <2>3. f \in ManagerType /\ f.child = mgr.child /\ f.outcome = mgr.outcome /\ f.spec = Sound
      BY <2>1, <2>2 DEF ManagerType
    <2>4. m = IF config.sound THEN f ELSE mgr
      BY DEF e
    <2> HIDE DEF m, f
    <2> QED
      BY <1>1, <2>2, <2>3, <2>4 DEF EndTold, ListedDefined
  <1> HIDE DEF m
  <1>4. CASE m.child = 0 \/ (m.child \in Slots /\ runner[m.child].st # "over")
    <2>1. mgr' = [m EXCEPT !.pc = "look"] /\ runner' = runner
      BY <1>2, <1>4 DEF Reaped
    <2>2. mgr'.pc = "look" /\ mgr'.child = mgr.child /\ mgr'.outcome = mgr.outcome /\ mgr'.spec = m.spec
      BY <1>3, <2>1 DEF ManagerType
    <2>3. DownKnowsNothing' /\ ListedDefined'
      BY <1>3, <2>2 DEF DownKnowsNothing, ListedDefined
    <2>4. \A r \in Slots : NoNews(r)
      BY <2>1 DEF NoNews, InHand, Published
    <2> QED
      BY <1>1, <2>2, <2>3, <2>4, EndStays
  <1>5. CASE ~(m.child = 0 \/ (m.child \in Slots /\ runner[m.child].st # "over"))
    <2>1. m.child \in Slots /\ runner[m.child].st = "over"
      BY <1>1, <1>3, <1>5
    <2> DEFINE c == m.child
               tale == [gen |-> runner[c].gen, rc |-> runner[c].rc]
               late == IF runner[c].rc = "bad" /\ ~Terminal(c) THEN [gen |-> m.spec.gen, ripe |-> FALSE] ELSE m.failure
               e == [m EXCEPT !.child = 0]
               f == [e EXCEPT !.outcome = tale]
               h == [f EXCEPT !.failure = late]
    <2>2. Reaped(m) = h
      BY <1>5 DEF Reaped
    <2>3. tale.gen = runner[c].gen /\ tale.rc = runner[c].rc
      OBVIOUS
    <2>4. runner' = [runner EXCEPT ![c] = Gone(c)]
      <3>1. h.child = 0
        BY <1>3 DEF ManagerType
      <3>2. Reaped(m).child # c
        BY <1>5, <2>2, <3>1
      <3> QED
        BY <1>2, <3>2
    <2> HIDE DEF late, tale
    <2>5. /\ e.child = 0 /\ e.spec = m.spec
          /\ f.child = 0 /\ f.spec = m.spec /\ f.outcome = tale
          /\ h.child = 0 /\ h.spec = m.spec /\ h.outcome = tale
      BY <1>3 DEF ManagerType
    <2>6. mgr' = [h EXCEPT !.pc = "look"]
      BY <1>2, <2>2
    <2>7. mgr'.pc = "look" /\ mgr'.child = 0 /\ mgr'.spec = m.spec /\ mgr'.outcome = tale
      BY <1>3, <2>5, <2>6 DEF ManagerType
    <2> HIDE DEF e, f, h, c
    <2>8. c \in Slots /\ mgr.child = c /\ c # 0 /\ runner[c].st = "over"
      BY <1>3, <1>5, <2>1 DEF c
    <2>9. \A r \in Slots : runner'[r] = IF r = c THEN Gone(c) ELSE runner[r]
      BY <1>1, <2>4
    <2>10. Gone(c).st = "none"
      BY <1>1, <2>8, GoneRecord
    <2>11. DownKnowsNothing' /\ ListedDefined'
      BY <1>3, <2>7 DEF DownKnowsNothing, ListedDefined
    <2>12. Awaited'
      BY <1>1, <2>8, <2>9, <2>10 DEF EndTold, Awaited, InHand
    <2>13. ASSUME ended # 0
           PROVE  (StatusTells \/ (faults # 0 /\ (OutcomeTells \/ WrapperTells)))' /\ \A r \in Slots : ~Published(r)'
      <3>1. \A r \in Slots : ~Published(r)'
        BY <2>9, <2>10, <2>13 DEF EndTold, Published
      <3>2. CASE StatusTells
        BY <1>1, <3>1, <3>2 DEF StatusTells
      <3>3. CASE faults # 0 /\ WrapperTells
        <4>1. OutcomeTells'
          BY <1>1, <2>3, <2>7, <2>8, <3>3 DEF OutcomeTells, WrapperTells
        <4> QED
          BY <1>1, <3>1, <3>3, <4>1
      <3> QED
        BY <2>8, <2>13, <3>2, <3>3 DEF EndTold, OutcomeTells
    <2> QED
      BY <1>1, <2>11, <2>12, <2>13 DEF EndTold
  <1> QED
    BY <1>4, <1>5

\* A launch forgets the end, and the manager waits for what it launched.
LEMMA LaunchStays == ASSUME WorkersAssumption, WorkersInv, EndTold, NEW r \in Slots, Launch(r) PROVE EndTold'
  <1>1. /\ runner \in [Slots -> WrapperType] /\ mgr \in ManagerType /\ mgr.child = 0 /\ ended' = 0
        /\ UNCHANGED faults
    BY DEF WorkersInv, WorkerTyped, Launch, ActLaunch
  <1>2. mgr'.pc = "load" /\ mgr'.child = r /\ mgr'.spec = mgr.spec
    <2> DEFINE e == [Seen EXCEPT !.child = r]
               f == [e EXCEPT !.outcome = NoOutcome]
               g == [f EXCEPT !.restart = FALSE]
    <2>1. mgr' = [g EXCEPT !.enable = FALSE]
      BY DEF Launch
    <2>2. Seen \in ManagerType /\ Seen.pc = "load" /\ Seen.spec = mgr.spec
      BY <1>1, SeenRecord, SeenRemembers DEF Remembers
    <2>3. e.pc = "load" /\ e.child = r /\ e.spec = mgr.spec /\ DOMAIN e = DOMAIN Seen
      BY <2>2 DEF ManagerType
    <2> QED
      BY <2>1, <2>2, <2>3 DEF ManagerType
  <1>3. \A q \in Slots : q # r => runner'[q] = runner[q]
    BY <1>1 DEF Launch
  <1>4. DownKnowsNothing' /\ ListedDefined'
    BY <1>2 DEF EndTold, DownKnowsNothing, ListedDefined
  <1>5. Awaited'
    BY <1>1, <1>2, <1>3, WorkerConstants DEF EndTold, Awaited, InHand
  <1> QED
    BY <1>1, <1>4, <1>5 DEF EndTold

LEMMA EndStaysTold ==
    ASSUME WorkersAssumption, MaxFaults <= 1, WorkersInv, EndTold, [Next]_vars
    PROVE  EndTold'
  <1>1. CASE UNCHANGED vars
    BY <1>1 DEF vars, EndTold, DownKnowsNothing, ListedDefined, Awaited, InHand, Published, StatusTells, OutcomeTells,
                WrapperTells
  <1>2. CASE \/ \E gen \in Gens : EditSpec(gen)
             \/ Remove \/ Disable \/ Spoil \/ Repair \/ EnableWrite \/ EnableClear
    BY <1>2, EditsStay
  <1>3. CASE EnableRequest
    BY <1>3, RequestStays
  <1>4. CASE RestartRequest \/ Look \/ StopRunner \/ LeaveAlone
    <2>1. mgr.pc # "down"
      BY <1>4 DEF RestartRequest, Look, StopRunner, LeaveAlone
    <2> QED
      BY <1>4, <2>1, MemoryStays
  <1>5. CASE StartManager
    BY <1>5, StartStays
  <1>6. CASE ManagerDies \/ Shutdown
    BY <1>6, ManagerFaultStays
  <1>7. CASE Load
    BY <1>7, LoadTells
  <1>8. CASE \E r \in Slots : Launch(r)
    BY <1>8, LaunchStays
  <1>9. CASE DelayOver
    BY <1>9, DelayStays
  <1>10. CASE \E r \in Slots : RunnerStep(r) \/ KillRunner(r)
    BY <1>10, TakeStays, PublishStays, HeedStays, FinishTells, OrphanStays, KillStays DEF RunnerStep
  <1>11. CASE \E r \in Slots : \/ LoopStep(r) \/ RoundStarts(r) \/ RoundEnds(r)
                               \/ \E how \in {"ok", "bad"} : LoopEnds(r, how)
    BY <1>11, LoopStays DEF LoopStep
  <1> QED
    BY <1>1, <1>2, <1>3, <1>4, <1>5, <1>6, <1>7, <1>8, <1>9, <1>10, <1>11 DEF Next, CommandStep, ManagerStep

\* Nothing but a launch makes a wrapper.
LEMMA OnlyLaunchBegets ==
    ASSUME WorkersAssumption, WorkersInv, [Next]_vars, NEW r \in Slots, runner[r].st = "none", runner'[r].st = "born"
    PROVE  \E q \in Slots : Launch(q)
  <1>1. runner \in [Slots -> WrapperType] /\ WorkerTyped /\ runner # runner'
    BY DEF WorkersInv, WorkerTyped
  <1>2. CASE ManagerDies \/ Shutdown
    <2>1. Forgotten[r].st = "none"
      BY <1>1, GoneRecord DEF Forgotten
    <2>2. runner'[r] = Forgotten[r]
      <3>1. CASE ManagerDies
        BY <3>1 DEF ManagerDies
      <3>2. CASE Shutdown
        BY <3>2 DEF Shutdown, Locked
      <3> QED
        BY <1>2, <3>1, <3>2
    <2> QED
      BY <2>1, <2>2
  <1>3. CASE Load
    <2>1. runner' = runner \/ \E c : runner' = [runner EXCEPT ![c] = Gone(c)]
      BY <1>3 DEF Load
    <2> QED
      BY <1>1, <2>1, GoneRecord
  <1>4. CASE StopRunner
    <2>1. PICK rs : runner' = [q \in Slots |-> IF q \in rs THEN [runner[q] EXCEPT !.stop = TRUE] ELSE runner[q]]
      BY <1>4 DEF StopRunner, Stopping
    <2>2. [runner[r] EXCEPT !.stop = TRUE].st = runner[r].st
      BY <1>1 DEF WrapperType
    <2> QED
      BY <2>1, <2>2
  <1>5. ASSUME NEW q \in Slots, RunnerStep(q) \/ KillRunner(q) PROVE FALSE
    <2>1. CASE TakeWorkerLock(q) \/ PublishStatus(q) \/ HeedStop(q) \/ Finish(q) \/ KillRunner(q)
      <3>1. q # r
        BY <2>1 DEF TakeWorkerLock, PublishStatus, HeedStop, Finish, KillRunner
      <3>2. \E x : runner' = [runner EXCEPT ![q] = x]
        BY <2>1 DEF TakeWorkerLock, PublishStatus, HeedStop, Finish, KillRunner
      <3> QED
        BY <1>1, <3>1, <3>2
    <2>2. CASE Orphaned(q)
      <3> DEFINE ending == [runner[q] EXCEPT !.loop = "ending"]
                 over == [runner[q] EXCEPT !.loop = "none"]
                 x == IF runner[q].loop = "ending" \/ runner[q].loop \notin Loops
                      THEN IF runner[q].st = "none" THEN NoRunner ELSE over
                      ELSE ending
      <3>1. runner' = [runner EXCEPT ![q] = x]
        BY <2>2 DEF Orphaned
      <3>2. runner[q] \in WrapperType
        BY <1>1
      <3>3. ending.st = runner[q].st /\ over.st = runner[q].st
        BY <3>2 DEF WrapperType
      <3> HIDE DEF ending, over
      <3>4. x.st \in {"none", runner[q].st}
        BY <3>3, NewWrappers
      <3> HIDE DEF x
      <3> QED
        BY <1>1, <3>1, <3>4
    <2> QED
      BY <1>5, <2>1, <2>2 DEF RunnerStep
  <1>6. ASSUME NEW q \in Slots, NEW from, NEW to, LoopGoes(q, from, to) PROVE FALSE
    <2> DEFINE x == [runner[q] EXCEPT !.loop = to]
    <2>1. runner' = [runner EXCEPT ![q] = x]
      BY <1>6 DEF LoopGoes
    <2>2. x.st = runner[q].st
      BY <1>1 DEF WrapperType
    <2> HIDE DEF x
    <2> QED
      BY <1>1, <2>1, <2>2
  <1>7. ASSUME NEW q \in Slots, LoopStep(q) \/ RoundStarts(q) \/ RoundEnds(q) \/ \E how \in {"ok", "bad"} : LoopEnds(q, how)
        PROVE  FALSE
    BY <1>6, <1>7 DEF LoopStep, BeginLoop, LoopRefused, RoundStarts, RoundEnds, LoopEnds, LoopStops
  <1>8. ~UNCHANGED vars /\ ~(\E gen \in Gens : EditSpec(gen)) /\ ~Remove /\ ~Disable /\ ~Spoil /\ ~Repair
        /\ ~EnableWrite /\ ~EnableClear /\ ~EnableRequest /\ ~RestartRequest /\ ~StartManager /\ ~Look
        /\ ~LeaveAlone /\ ~DelayOver
    BY <1>1 DEF vars, EditSpec, Remove, Disable, Spoil, Repair, EnableWrite, EnableClear, EnableRequest, RestartRequest,
                StartManager, Look, LeaveAlone, DelayOver
  <1> QED
    BY <1>2, <1>3, <1>4, <1>5, <1>7, <1>8 DEF Next, CommandStep, ManagerStep

\* What is told of the end keeps a manager nobody asked from another launch.
LEMMA ToldIsFinal ==
    ASSUME WorkersAssumption, WorkersInv, EndTold, [Next]_vars
    PROVE  CleanExitFinal
  <1> SUFFICES ASSUME NEW r \in Slots, runner[r].st = "none", runner'[r].st = "born", policy # "always",
                      ended = mgr.spec.gen, ~mgr.restart, ~mgr.enable
               PROVE  FALSE
    BY DEF CleanExitFinal
  <1>1. runner \in [Slots -> WrapperType] /\ WorkerTyped
    BY DEF WorkersInv, WorkerTyped
  <1>2. \E q \in Slots : Launch(q)
    BY <1>1, OnlyLaunchBegets
  <1>3. ActLaunch
    BY <1>2 DEF Launch
  <1>4. ended # 0 /\ mgr.child = 0 /\ ~HadItsRun
    BY <1>3 DEF ActLaunch, ShouldRun, Forced, EndTold, ListedDefined
  <1>5. policy \in {"on-failure", "never"}
    BY <1>1 DEF WorkerTyped, WorkersAssumption
  <1>6. StatusTells \/ OutcomeTells
    BY <1>4 DEF EndTold, WrapperTells
  <1> QED
    BY <1>4, <1>5, <1>6 DEF HadItsRun, StatusTells, OutcomeTells

\* A loop that ended well by itself is not started again against the policy unless the worker was
\* redefined or removed, or somebody asked for it, even if one record of its end was lost: more
\* than one fault may lose every record, and then nothing is promised.
\* (worker_manager: the status file, the exit code of the child)
THEOREM CleanExitIsFinal == WorkersAssumption /\ MaxFaults <= 1 => (Spec => [][CleanExitFinal]_vars)
  <1> SUFFICES ASSUME WorkersAssumption, MaxFaults <= 1 PROVE Spec => [][CleanExitFinal]_vars
    OBVIOUS
  <1>1. Init => WorkersInv /\ EndTold
    BY WorkersStart, EndTellsFirst
  <1>2. WorkersInv /\ EndTold /\ [Next]_vars => WorkersInv' /\ EndTold'
    BY WorkersGoOn, EndStaysTold
  <1>3. WorkersInv /\ EndTold /\ [Next]_vars => [CleanExitFinal]_vars
    BY ToldIsFinal
  <1> QED
    BY <1>1, <1>2, <1>3, PTL DEF Spec
=============================================================================
