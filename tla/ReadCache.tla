----------------------------- MODULE ReadCache -----------------------------
(***************************************************************************)
(* The read cache that the processes of a host share                       *)
(* (tauceti_worker/github_transport.py, overlap_support.py): a logical     *)
(* read is served from a file that carries the generation it was fetched   *)
(* under, and every write of the host replaces the generations of what it  *)
(* touches, before its request and after its answer.                       *)
(*                                                                         *)
(* A generation is made of several files, which are read and replaced one  *)
(* at a time.  A unique identifier is modelled as the next number of its   *)
(* file.  What GitHub holds for a key is the number of writes that changed *)
(* it.                                                                     *)
(***************************************************************************)
EXTENDS Naturals, FiniteSets, Sequences

CONSTANTS Readers, Writers,
          MaxWrites,   \* bound: commands that write
          MaxReads     \* bound: reads of a process

\* The keys: comments of a pull request, the list of open pull requests, and
\* the overlap scanner's inventory.
Keys == {"issue_comments", "open_prs", "overlap_issues"}

\* The files a key's generation is read from, in that order.
KeyParts(k) ==
  CASE k = "issue_comments" -> <<"generation", "repo", "comments", "item">>
    [] k = "open_prs" -> <<"generation", "repo", "inventory">>
    [] k = "overlap_issues" -> <<"generation">>

Parts == {"generation", "repo", "comments", "item", "inventory"}

\* The files a command replaces: gh pr edit and close, gh pr comment, an edit of
\* one comment, another write of the repository, and one that names none (the
\* scanner's cursor and the worker's own posts among them).
Scopes(command) ==
  CASE command = "edit" -> <<"item", "inventory">>
    [] command = "comment" -> <<"item">>
    [] command = "reword" -> <<"comments">>
    [] command = "labels" -> <<"repo">>
    [] command = "advance" -> <<"generation">>

Commands == {"edit", "comment", "reword", "labels", "advance"}

\* What GitHub changes for it.
Changes(command) ==
  CASE command = "edit" -> {"open_prs"}
    [] command \in {"comment", "reword"} -> {"issue_comments"}
    [] command = "labels" -> {"open_prs"}
    [] command = "advance" -> {"overlap_issues"}

NoEntry == [epoch |-> <<>>, value |-> 0]

VARIABLES holds,   \* what GitHub holds for each key
          number,  \* the identifier in each generation file
          entry,   \* the cache file of each key
          reader, writer,
          acked    \* what the last acknowledged write left, for each key

rcvars == <<holds, number, entry, reader, writer, acked>>

Idling == [step |-> "idle", key |-> "open_prs", epoch |-> <<>>, value |-> 0,
           floor |-> 0, lock |-> FALSE, reads |-> 0]
Unasked == [step |-> "idle", command |-> "edit", left |-> <<>>, effect |-> FALSE,
            reached |-> [k \in Keys |-> 0]]

Reads == [step: {"idle", "epoch", "look", "fetch", "check", "store", "answered"}, key: Keys,
          epoch: Seq(Nat), value: Nat, floor: Nat, lock: BOOLEAN, reads: Nat]
Writes == [step: {"idle", "before", "send", "after", "done", "gone"}, command: Commands,
           left: Seq(Parts), effect: BOOLEAN, reached: [Keys -> Nat]]

CacheTypeOK ==
  /\ holds \in [Keys -> Nat] /\ acked \in [Keys -> Nat]
  /\ number \in [Parts -> Nat]
  /\ entry \in [Keys -> [epoch: Seq(Nat), value: Nat]]
  /\ reader \in [Readers -> Reads] /\ writer \in [Writers -> Writes]

CacheInit ==
  /\ holds = [k \in Keys |-> 0] /\ acked = [k \in Keys |-> 0]
  /\ number = [p \in Parts |-> 0]
  /\ entry = [k \in Keys |-> NoEntry]
  /\ reader = [r \in Readers |-> Idling]
  /\ writer = [w \in Writers |-> Unasked]

-----------------------------------------------------------------------------
\* Readers.

CanRead(r) == reader[r].step = "idle" /\ reader[r].reads < MaxReads

\* One reader of a key at a time.
Locked(k) == \E r \in Readers : reader[r].lock /\ reader[r].key = k

BeginRead(r) ==
  /\ CanRead(r)
  /\ \E k \in Keys :
       /\ ~Locked(k)
       /\ reader' = [reader EXCEPT ![r] = [Idling EXCEPT !.step = "epoch", !.key = k,
                       !.floor = acked[k], !.lock = TRUE, !.reads = reader[r].reads + 1]]
  /\ UNCHANGED <<holds, number, entry, writer, acked>>

\* A fresh read, or one that could not get the lock: GitHub's answer, not stored.
BeginUncached(r) ==
  /\ CanRead(r)
  /\ \E k \in Keys :
       reader' = [reader EXCEPT ![r] = [Idling EXCEPT !.step = "answered", !.key = k,
                    !.floor = acked[k], !.value = holds[k], !.reads = reader[r].reads + 1]]
  /\ UNCHANGED <<holds, number, entry, writer, acked>>

\* The next file of the generation.
ReadEpoch(r) ==
  LET rd == reader[r]
      read == Append(rd.epoch, number[KeyParts(rd.key)[Len(rd.epoch) + 1]]) IN
  /\ rd.step = "epoch"
  /\ reader' = [reader EXCEPT ![r].epoch = read,
                  ![r].step = IF Len(read) = Len(KeyParts(rd.key)) THEN "look" ELSE "epoch"]
  /\ UNCHANGED <<holds, number, entry, writer, acked>>

\* A hit of the same generation.
Hit(r) ==
  LET rd == reader[r] IN
  /\ rd.step = "look" /\ entry[rd.key].epoch = rd.epoch
  /\ reader' = [reader EXCEPT ![r].step = "answered", ![r].value = entry[rd.key].value,
                              ![r].lock = FALSE]
  /\ UNCHANGED <<holds, number, entry, writer, acked>>

\* A miss: another generation, or older than the reader accepts.
Miss(r) ==
  /\ reader[r].step = "look"
  /\ reader' = [reader EXCEPT ![r].step = "fetch"]
  /\ UNCHANGED <<holds, number, entry, writer, acked>>

\* What GitHub answers, or a failure, which is never cached.
Fetch(r) ==
  LET rd == reader[r] IN
  /\ rd.step = "fetch"
  /\ reader' = [reader EXCEPT ![r].step = "check", ![r].value = holds[rd.key]]
  /\ UNCHANGED <<holds, number, entry, writer, acked>>

FetchFails(r) ==
  /\ reader[r].step = "fetch"
  /\ reader' = [reader EXCEPT ![r] = [Idling EXCEPT !.reads = reader[r].reads]]
  /\ UNCHANGED <<holds, number, entry, writer, acked>>

EpochNow(k) == [i \in DOMAIN KeyParts(k) |-> number[KeyParts(k)[i]]]

\* A generation that moved meanwhile is not stored.
Check(r) ==
  LET rd == reader[r] IN
  /\ rd.step = "check"
  /\ reader' = [reader EXCEPT
                  ![r].step = IF EpochNow(rd.key) = rd.epoch THEN "store" ELSE "answered",
                  ![r].lock = EpochNow(rd.key) = rd.epoch]
  /\ UNCHANGED <<holds, number, entry, writer, acked>>

\* Stored under the generation it was fetched under, whatever happened since.
Stored(rd) == [epoch |-> rd.epoch, value |-> rd.value]

Store(r) ==
  LET rd == reader[r] IN
  /\ rd.step = "store"
  /\ entry' = [entry EXCEPT ![rd.key] = Stored(rd)]
  /\ reader' = [reader EXCEPT ![r].step = "answered", ![r].lock = FALSE]
  /\ UNCHANGED <<holds, number, writer, acked>>

Deliver(r) ==
  /\ reader[r].step = "answered"
  /\ reader' = [reader EXCEPT ![r] = [Idling EXCEPT !.reads = reader[r].reads]]
  /\ UNCHANGED <<holds, number, entry, writer, acked>>

-----------------------------------------------------------------------------
\* Writers.

Written == Cardinality({w \in Writers : writer[w].step # "idle"})

BeginWrite(w) ==
  /\ writer[w].step = "idle" /\ Written < MaxWrites
  /\ \E command \in Commands :
       writer' = [writer EXCEPT ![w].step = "before", ![w].command = command,
                                ![w].left = Scopes(command)]
  /\ UNCHANGED <<holds, number, entry, reader, acked>>

\* One generation file is replaced, before the request or after its answer.
Invalidate(w) ==
  LET wr == writer[w] IN
  /\ wr.step \in {"before", "after"} /\ wr.left # <<>>
  /\ number' = [number EXCEPT ![Head(wr.left)] = @ + 1]
  /\ writer' = [writer EXCEPT ![w].left = Tail(@)]
  /\ UNCHANGED <<holds, entry, reader, acked>>

Send(w) ==
  /\ writer[w].step = "before" /\ writer[w].left = <<>>
  /\ writer' = [writer EXCEPT ![w].step = "send"]
  /\ UNCHANGED <<holds, number, entry, reader, acked>>

\* GitHub applies the request, also one whose sender has given up.
TakesEffect(w) ==
  LET wr == writer[w] IN
  /\ wr.step \in {"send", "gone"} /\ ~wr.effect
  /\ holds' = [k \in Keys |-> IF k \in Changes(wr.command) THEN holds[k] + 1 ELSE holds[k]]
  /\ writer' = [writer EXCEPT ![w].effect = TRUE, ![w].reached = holds']
  /\ UNCHANGED <<number, entry, reader, acked>>

Again(wr) == Scopes(wr.command)

Answered(w) ==
  LET wr == writer[w] IN
  /\ wr.step = "send" /\ wr.effect
  /\ writer' = [writer EXCEPT ![w].step = "after", ![w].left = Again(wr)]
  /\ UNCHANGED <<holds, number, entry, reader, acked>>

\* The caller is told of its success.
Acknowledge(w) ==
  LET wr == writer[w] IN
  /\ wr.step = "after" /\ wr.left = <<>>
  /\ acked' = [k \in Keys |-> IF k \in Changes(wr.command) /\ acked[k] < wr.reached[k]
                              THEN wr.reached[k] ELSE acked[k]]
  /\ writer' = [writer EXCEPT ![w].step = "done"]
  /\ UNCHANGED <<holds, number, entry, reader>>

\* Killed, or timed out: no second invalidation and no acknowledgement.
WriterGone(w) ==
  /\ writer[w].step \in {"before", "send", "after"}
  /\ writer' = [writer EXCEPT ![w].step = "gone", ![w].left = <<>>,
                  ![w].effect = @ \/ writer[w].step = "before"]
  /\ UNCHANGED <<holds, number, entry, reader, acked>>

\* A reader is killed: the system drops its lock.
ReaderGone(r) ==
  /\ reader[r].step \notin {"idle", "answered"}
  /\ reader' = [reader EXCEPT ![r] = [Idling EXCEPT !.reads = reader[r].reads]]
  /\ UNCHANGED <<holds, number, entry, writer, acked>>

CacheNext ==
  \/ \E r \in Readers : \/ BeginRead(r) \/ BeginUncached(r) \/ ReadEpoch(r) \/ Hit(r)
                        \/ Miss(r) \/ Fetch(r) \/ FetchFails(r) \/ Check(r) \/ Store(r)
                        \/ Deliver(r) \/ ReaderGone(r)
  \/ \E w \in Writers : \/ BeginWrite(w) \/ Invalidate(w) \/ Send(w) \/ TakesEffect(w)
                        \/ Answered(w) \/ Acknowledge(w) \/ WriterGone(w)

CacheSpec == CacheInit /\ [][CacheNext]_rcvars

-----------------------------------------------------------------------------
\* A read that begins after a write of this host was acknowledged answers with
\* that write or a later one, from the cache as from GitHub, however the reads of
\* others overlapped the write (github_transport.py:231-232,
\* overlap_support.py:106-107).
ReadsAfterWrites ==
  \A r \in Readers : reader[r].step = "answered" => reader[r].value >= reader[r].floor

CacheSafe == CacheTypeOK /\ ReadsAfterWrites
=============================================================================
