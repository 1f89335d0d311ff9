---------------------------- MODULE SharedRefresh ----------------------------
(***************************************************************************)
(* The credential MCC shares with Claude Code: requests of one server that *)
(* follow Claude Code's file, refresh an expired token under its lock      *)
(* directories and write the new one back (anthropic_oauth/shared.py,      *)
(* oauth_file_lock.py).                                                    *)
(*                                                                         *)
(* A token is a number: 1 is the first, and every refresh or sign-in       *)
(* issues the next.  A refresh token is single-use, so only the last one   *)
(* issued, live, can be posted with success.                               *)
(***************************************************************************)
EXTENDS Naturals, FiniteSets, SequencesExt

CONSTANTS
  Requests,
  Claude,      \* Claude Code, external
  Dead,        \* the owner of a lock directory whose process died
  None,
  MaxTokens,   \* bound on the tokens issued
  MaxFaults    \* bound on crashes, stalls, cancellations, lost answers, failed reads and writes

ASSUME TokensAssumption ==
  /\ IsFiniteSet(Requests)
  /\ MaxTokens \in Nat \ {0} /\ MaxFaults \in Nat
  /\ Cardinality({Claude, Dead, None}) = 3 /\ {Claude, Dead, None} \cap Requests = {}

VARIABLES
  file,        \* the token in Claude Code's file
  record,      \* MCC's account record: its token, and the posted one if a write is pending
  knownDead,   \* knownDead: refresh tokens that were rejected
  live,        \* the last token issued
  expired,     \* access tokens up to this one have expired
  pc, token,   \* where a request suspends, and the token it was given
  got,         \* the answer to its post, a new token or Refused; while it retries a
               \* pending write, the token that one replaces
  since,       \* the last token issued when the request began
  line,        \* _inprocess_lock: its holder, then those who wait
  lock,        \* owner of the lock directories .oauth_refresh.lock and the legacy one
  compromised, \* requests whose heartbeat found the directory not theirs
  claude,      \* Claude Code: the token it refreshes, and the one it got
  faults,      \* ghost: how much went wrong
  lapsed       \* ghost: a token has expired while its write-back was pending or under way

diskVars == <<file, record, knownDead>>
authorityVars == <<live, expired, lapsed>>
requestVars == <<pc, token, got, since>>
lockVars == <<line, lock, compromised>>
vars == <<diskVars, authorityVars, requestVars, lockVars, claude, faults>>

Tokens == 1..MaxTokens
NoToken == 0
Refused == MaxTokens + 1

\* Where a request is.  "pending": retry_pending_write_back holds the locks;
\* "waiting": in line for the in-process lock; "locking": before an attempt at
\* the lock directories; "stale", "removed": in _try_mkdir; "locked": about to
\* look at the file again; "posting", "answered": the POST is under way, is over.
Locked == {"locked", "posting", "answered"}
Phases == {"idle", "pending", "waiting", "locking", "stale", "removed"} \cup Locked

TypeOK ==
  /\ file \in Tokens
  /\ record \in [token : Tokens, posted : Tokens \cup {NoToken}]
  /\ knownDead \subseteq Tokens
  /\ live \in Tokens /\ expired \in Nat /\ expired <= live
  /\ pc \in [Requests -> Phases]
  /\ token \in [Requests -> Tokens \cup {NoToken}]
  /\ got \in [Requests -> Tokens \cup {NoToken, Refused}]
  /\ since \in [Requests -> Tokens \cup {NoToken}]
  /\ line \in Seq(Requests)
  /\ lock \in Requests \cup {Claude, Dead, None}
  /\ compromised \subseteq Requests
  /\ claude \in [reads : Tokens \cup {NoToken}, got : Tokens \cup {NoToken}]
  /\ faults \in 0..MaxFaults /\ lapsed \in BOOLEAN

Init ==
  /\ file = 1 /\ live = 1 /\ expired = 0
  /\ record = [token |-> 1, posted |-> NoToken]
  /\ knownDead = {}
  /\ pc = [r \in Requests |-> "idle"]
  /\ token = [r \in Requests |-> NoToken]
  /\ got = [r \in Requests |-> NoToken]
  /\ since = [r \in Requests |-> NoToken]
  /\ line = <<>> /\ lock = None /\ compromised = {}
  /\ claude = [reads |-> NoToken, got |-> NoToken]
  /\ faults = 0 /\ lapsed = FALSE

-----------------------------------------------------------------------------
(***************************************************************************)
(* Records and the file.  One server: what it does between two awaits is   *)
(* atomic for its own requests.                                            *)
(***************************************************************************)

\* Another request is between the system calls of _try_mkdir, where the event
\* loop does not run.
Runs(r) == \A q \in Requests \ {r} : pc[q] \notin {"stale", "removed"}

Pending(rec) == rec.posted # NoToken
Copy(t) == [token |-> t, posted |-> NoToken]

\* Mutant: the file wins over a token whose write-back is pending.
ResolvedFromFile(rec) == Copy(file)
\* resolve_record: the record stays if the file holds its token, or the token
\* it has spent; any other token is adopted.
Resolved(rec) ==
  IF file \in {rec.token, rec.posted} THEN rec ELSE Copy(file)

\* _adopt_now and _adopt_changed_file; the token seen so far may be posted again.
Adopts(seen, read) ==
  /\ record' = Copy(read)
  /\ knownDead' = knownDead \ {seen}

\* A request ends: the finally clauses of locked_refresh and of the in-process
\* lock.  The directories are removed whoever made them.
Leave(r) ==
  /\ pc' = [pc EXCEPT ![r] = "idle"]
  /\ token' = [token EXCEPT ![r] = NoToken]
  /\ got' = [got EXCEPT ![r] = NoToken]
  /\ since' = [since EXCEPT ![r] = NoToken]
  /\ line' = RemoveFirst(line, r)
  /\ lock' = IF pc[r] \in Locked \cup {"pending"} THEN None ELSE lock
  /\ compromised' = compromised \ {r}

Fault == faults < MaxFaults /\ faults' = faults + 1

\* There is a directory that looks abandoned: its owner died, or stalls without a
\* heartbeat and goes on later.
Abandoned == IF lock = Dead THEN UNCHANGED faults ELSE lock # None /\ Fault

-----------------------------------------------------------------------------
(***************************************************************************)
(* use()                                                                   *)
(***************************************************************************)

\* use() with token t once a pending write was tried: a valid one is served, a
\* dead one refused; otherwise the request gets in line for the refresh.
Uses(r, t, dead) ==
  IF t > expired \/ t \in dead
  THEN Leave(r)
  ELSE /\ pc' = [pc EXCEPT ![r] = "waiting"]
       /\ token' = [token EXCEPT ![r] = t]
       /\ line' = Append(line, r)
       /\ got' = [got EXCEPT ![r] = NoToken]
       /\ since' = [since EXCEPT ![r] = IF pc[r] = "idle" THEN live ELSE @]
       /\ lock' = IF pc[r] = "pending" THEN None ELSE lock
       /\ UNCHANGED compromised

\* current_tokens resolves the credential; with a write pending it makes one
\* attempt at the lock directories.  A file that cannot be read changes nothing.
Start(r) ==
  LET rec == Resolved(record)
      dead == IF rec = record THEN knownDead ELSE knownDead \ {record.token}
  IN /\ pc[r] = "idle" /\ Runs(r)
     /\ \/ /\ record' = rec /\ knownDead' = dead
           /\ Pending(rec) => lock = Claude \/ lock \in Requests
           /\ Uses(r, rec.token, dead)
           /\ UNCHANGED faults
        \/ /\ Pending(rec)
           /\ IF lock = None THEN UNCHANGED faults ELSE Abandoned
           /\ pc' = [pc EXCEPT ![r] = IF lock = None THEN "pending" ELSE "stale"]
           /\ token' = [token EXCEPT ![r] = rec.token]
           /\ got' = [got EXCEPT ![r] = rec.posted]
           /\ since' = [since EXCEPT ![r] = live]
           /\ lock' = IF lock = None THEN r ELSE lock
           /\ UNCHANGED <<record, knownDead, line, compromised>>
        \/ /\ Fault
           /\ Uses(r, record.token, knownDead)
           /\ UNCHANGED <<record, knownDead>>
     /\ UNCHANGED <<file, authorityVars, claude>>

\* _cas_write_fp writes the pending token over the one it replaces.
PendingWritten(r) ==
  /\ pc[r] = "pending" /\ Runs(r)
  /\ file = got[r]
  /\ file' = token[r]
  /\ record' = Copy(token[r])
  /\ Uses(r, token[r], knownDead)
  /\ UNCHANGED <<knownDead, authorityVars, claude, faults>>

\* The file changed meanwhile.
PendingSuperseded(r) ==
  /\ pc[r] = "pending" /\ Runs(r)
  /\ file # got[r]
  /\ Adopts(token[r], file)
  /\ Uses(r, file, knownDead \ {token[r]})
  /\ UNCHANGED <<file, authorityVars, claude, faults>>

\* The storage lock is busy or the file cannot be written.
PendingFails(r) ==
  /\ pc[r] = "pending" /\ Runs(r)
  /\ Fault
  /\ Uses(r, token[r], knownDead)
  /\ UNCHANGED <<diskVars, authorityVars, claude>>

-----------------------------------------------------------------------------
(***************************************************************************)
(* locked_refresh()                                                        *)
(***************************************************************************)

\* A token in the file other than the one this request came with is adopted
\* and served, a valid one or not.
AdoptsFile(r) ==
  /\ file # token[r]
  /\ Adopts(token[r], file)
  /\ Leave(r)
  /\ UNCHANGED <<file, authorityVars, claude, faults>>

\* The request goes on with its own token, because the file still holds it or
\* cannot be read.
KeepsToken(r) ==
  /\ IF file = token[r] THEN UNCHANGED faults ELSE Fault
  /\ UNCHANGED <<diskVars, authorityVars, claude, token, got, since, line, compromised>>

\* The in-process lock is granted in order; the file is read before the locks.
EnterAdopts(r) == pc[r] = "waiting" /\ Head(line) = r /\ Runs(r) /\ AdoptsFile(r)
Enter(r) ==
  /\ pc[r] = "waiting" /\ Head(line) = r /\ Runs(r)
  /\ KeepsToken(r)
  /\ pc' = [pc EXCEPT ![r] = "locking"]
  /\ UNCHANGED lock

\* One attempt of _try_mkdir: mkdir, or a look at the age of what is there.
TryLock(r) ==
  /\ pc[r] = "locking" /\ Runs(r)
  /\ \/ lock = None /\ lock' = r /\ pc' = [pc EXCEPT ![r] = "locked"] /\ UNCHANGED faults
     \/ Abandoned /\ pc' = [pc EXCEPT ![r] = "stale"] /\ UNCHANGED lock
  /\ UNCHANGED <<diskVars, authorityVars, token, got, since, line, compromised, claude>>

\* An attempt that failed: a refresh tries again, a pending write does not.
Busy(r) ==
  IF r \in ToSet(line)
  THEN /\ pc' = [pc EXCEPT ![r] = "locking"]
       /\ UNCHANGED <<token, got, since, line, compromised>>
  ELSE Uses(r, token[r], knownDead)

\* rmdir of the directory that was found stale, whoever owns it by now.
RemoveStale(r) ==
  /\ pc[r] = "stale"
  /\ \/ /\ lock # None /\ lock' = None
        /\ pc' = [pc EXCEPT ![r] = "removed"]
        /\ UNCHANGED <<token, got, since, line, compromised>>
     \/ lock = None /\ lock' = None /\ Busy(r)
  /\ UNCHANGED <<diskVars, authorityVars, claude, faults>>

\* mkdir in its place, unless somebody else was faster.
Replace(r) ==
  /\ pc[r] = "removed"
  /\ \/ /\ lock = None /\ lock' = r
        /\ pc' = [pc EXCEPT ![r] = IF r \in ToSet(line) THEN "locked" ELSE "pending"]
        /\ UNCHANGED <<token, got, since, line, compromised>>
     \/ lock # None /\ lock' = lock /\ Busy(r)
  /\ UNCHANGED <<diskVars, authorityVars, claude, faults>>

\* Mutant: a busy lock is waited for without a budget.
GiveUpNever(r) == FALSE
\* LockBusy: the retries and the liveness window are over.
GiveUp(r) ==
  /\ pc[r] = "locking" /\ lock \notin {None, Dead} /\ Runs(r)
  /\ Leave(r)
  /\ UNCHANGED <<diskVars, authorityVars, claude, faults>>

\* Under the locks the file is read again.
CheckAdopts(r) == pc[r] = "locked" /\ Runs(r) /\ AdoptsFile(r)

\* Mutant: the token is posted whatever the file holds by now.
PostAlways(r) ==
  /\ pc[r] = "locked" /\ Runs(r)
  /\ pc' = [pc EXCEPT ![r] = "posting"]
  /\ UNCHANGED <<diskVars, authorityVars, claude, token, got, since, lockVars, faults>>
\* Otherwise the token is posted.
Post(r) ==
  /\ pc[r] = "locked" /\ Runs(r)
  /\ KeepsToken(r)
  /\ pc' = [pc EXCEPT ![r] = "posting"]
  /\ UNCHANGED lock

\* External: the authority answers, and rotates the token if it is the live one.
Answer(r) ==
  /\ pc[r] = "posting"
  /\ pc' = [pc EXCEPT ![r] = "answered"]
  /\ \/ /\ token[r] = live /\ live < MaxTokens
        /\ live' = live + 1
        /\ got' = [got EXCEPT ![r] = live + 1]
     \/ /\ token[r] # live
        /\ got' = [got EXCEPT ![r] = Refused]
        /\ UNCHANGED live
  /\ UNCHANGED <<diskVars, expired, lapsed, token, since, lockVars, claude, faults>>

\* The heartbeat finds that the directory is gone or another's.
Beat(r) ==
  /\ pc[r] \in Locked /\ lock # r /\ r \notin compromised /\ Runs(r)
  /\ compromised' = compromised \cup {r}
  /\ UNCHANGED <<diskVars, authorityVars, requestVars, line, lock, claude, faults>>

\* The POST failed without a verdict, before or after it was processed.
PostFails(r) ==
  /\ Runs(r)
  /\ \/ pc[r] = "posting" /\ UNCHANGED faults
     \/ pc[r] = "answered" /\ Fault
  /\ Leave(r)
  /\ UNCHANGED <<diskVars, authorityVars, claude>>

Rejected(r) ==
  /\ pc[r] = "answered" /\ got[r] = Refused /\ Runs(r)
  /\ knownDead' = knownDead \cup {token[r]}
  /\ Leave(r)
  /\ UNCHANGED <<file, record, authorityVars, claude, faults>>

HasNew(r) == pc[r] = "answered" /\ got[r] \in Tokens

\* Mutant: the write-back is not compared with what is in the file.
SwapsBlindly(r) == TRUE
\* cas_write under .storage-write: the file still holds the posted token.
Swaps(r) == file = token[r]

Written(r) ==
  /\ HasNew(r) /\ Runs(r) /\ r \notin compromised
  /\ Swaps(r)
  /\ file' = got[r]
  /\ record' = Copy(got[r])
  /\ Leave(r)
  /\ UNCHANGED <<knownDead, authorityVars, claude, faults>>

Superseded(r) ==
  /\ HasNew(r) /\ Runs(r) /\ r \notin compromised
  /\ ~Swaps(r)
  /\ Adopts(token[r], file)
  /\ Leave(r)
  /\ UNCHANGED <<file, authorityVars, claude, faults>>

\* _keep_pending: three writes failed, or the lock was lost.
KeepPending(r) ==
  /\ HasNew(r) /\ Runs(r)
  /\ IF r \in compromised THEN UNCHANGED faults ELSE Fault
  /\ record' = [token |-> got[r], posted |-> token[r]]
  /\ Leave(r)
  /\ UNCHANGED <<file, knownDead, authorityVars, claude>>

\* The client goes away or the server stops: a cancellation at any await.
Cancel(r) ==
  /\ pc[r] \in {"pending", "waiting", "locking", "posting", "answered"} /\ Runs(r)
  /\ Fault
  /\ Leave(r)
  /\ UNCHANGED <<diskVars, authorityVars, claude>>

\* The server dies at any point and starts again; its locks stay behind.
Crash ==
  /\ Fault
  /\ pc' = [r \in Requests |-> "idle"]
  /\ token' = [r \in Requests |-> NoToken]
  /\ got' = [r \in Requests |-> NoToken]
  /\ since' = [r \in Requests |-> NoToken]
  /\ line' = <<>>
  /\ lock' = IF lock \in Requests THEN Dead ELSE lock
  /\ compromised' = {}
  /\ UNCHANGED <<diskVars, authorityVars, claude>>

-----------------------------------------------------------------------------
(***************************************************************************)
(* Claude Code, as the server relies on it: the same locks and the same    *)
(* compare-and-swap; it may sign in again at any time, and die.            *)
(***************************************************************************)
ClaudeLocks ==
  /\ claude.reads = NoToken
  /\ IF lock = None THEN UNCHANGED faults ELSE Abandoned
  /\ lock' = Claude
  /\ claude' = [reads |-> file, got |-> NoToken]
  /\ UNCHANGED <<diskVars, authorityVars, requestVars, line, compromised>>
ClaudePosts ==
  /\ claude.reads = live /\ claude.got = NoToken /\ live < MaxTokens
  /\ live' = live + 1
  /\ claude' = [claude EXCEPT !.got = live + 1]
  /\ UNCHANGED <<diskVars, expired, lapsed, requestVars, lockVars, faults>>
ClaudeEnds ==
  /\ claude.reads # NoToken
  /\ file' = IF claude.got # NoToken /\ file = claude.reads THEN claude.got ELSE file
  /\ claude' = [reads |-> NoToken, got |-> NoToken]
  /\ lock' = IF lock = Claude THEN None ELSE lock
  /\ UNCHANGED <<record, knownDead, authorityVars, requestVars, line, compromised, faults>>
ClaudeDies ==
  /\ claude.reads # NoToken /\ Fault
  /\ claude' = [reads |-> NoToken, got |-> NoToken]
  /\ lock' = IF lock = Claude THEN Dead ELSE lock
  /\ UNCHANGED <<diskVars, authorityVars, requestVars, line, compromised>>
ClaudeSignsIn ==
  /\ live < MaxTokens
  /\ live' = live + 1 /\ file' = live + 1
  /\ UNCHANGED <<record, knownDead, expired, lapsed, requestVars, lockVars, claude, faults>>

\* Access tokens expire in the order of issue.  They live for hours: one that was
\* issued after a request began outlives that request.
Expire ==
  /\ expired < live
  /\ \A r \in Requests : pc[r] # "idle" => expired < since[r]
  /\ expired' = expired + 1
  /\ lapsed' = \/ lapsed
               \/ Pending(record) /\ record.token = expired'
               \/ \E r \in Requests : pc[r] = "pending" /\ token[r] = expired'
  /\ UNCHANGED <<diskVars, live, requestVars, lockVars, claude, faults>>

-----------------------------------------------------------------------------
RequestStep(r) ==
  \/ PendingWritten(r) \/ PendingSuperseded(r) \/ PendingFails(r)
  \/ EnterAdopts(r) \/ Enter(r) \/ TryLock(r) \/ RemoveStale(r) \/ Replace(r) \/ GiveUp(r)
  \/ CheckAdopts(r) \/ Post(r) \/ PostFails(r)
  \/ Rejected(r) \/ Written(r) \/ Superseded(r) \/ KeepPending(r)

Next ==
  \/ \E r \in Requests : Start(r) \/ RequestStep(r) \/ Answer(r) \/ Beat(r) \/ Cancel(r)
  \/ Crash
  \/ ClaudeLocks \/ ClaudePosts \/ ClaudeEnds \/ ClaudeDies \/ ClaudeSignsIn \/ Expire

Spec == Init /\ [][Next]_vars

\* Tasks that are ready run; a POST and a wait for a lock have time limits.
\* Neither Claude Code nor the authority is assumed to do anything.
FairSpec == Spec /\ \A r \in Requests : WF_vars(RequestStep(r))

-----------------------------------------------------------------------------
\* A write-back never replaces a token it did not post: the file only moves
\* forward, whatever is cancelled, dies, fails or is taken over.
FileOnlyAdvances == [][file' >= file]_vars

\* Single flight: as long as nothing went wrong, a refresh token is posted only
\* while it is good, whatever burst of requests and Claude Code want to renew it.
OnePostPerToken == [][\A r \in Requests :
  faults' = 0 /\ pc[r] = "locked" /\ pc'[r] = "posting" => token[r] = live]_vars

\* A token that was renewed and could not be written back stays in the record
\* until it is written or the file changes, as long as none of them expires.
PendingIsKept == [][
  Pending(record) /\ file = record.posted /\ ~lapsed =>
    record'.token = record.token]_vars

\* Every request is over in the end, although a lock is never given up and the
\* owner of another died, and whatever was cancelled before it.
RequestsEnd == \A r \in Requests : pc[r] # "idle" ~> pc[r] = "idle"

\* What _keep_pending and the field pending_write_back say of such a token: it
\* is dropped only when the file changes.
RotatedIsNeverDropped == [][
  Pending(record) /\ file = record.posted => record'.token = record.token]_vars
==============================================================================
