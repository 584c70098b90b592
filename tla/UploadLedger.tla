---------------------------- MODULE UploadLedger ----------------------------
(***************************************************************************)
(* The upload ledger of the server probe (apps/server-probe/src/ledger.rs):*)
(* an SQLite database that reserves bytes for upload sessions, charges a   *)
(* finished upload to its client's daily quota, keeps a durable intent     *)
(* until the 204 answer is known to be delivered, and queues the file of   *)
(* every dead session for deletion.                                        *)
(*                                                                         *)
(* X_Fault(...) before a definition X(...) is a faulty variant of it, which *)
(* PROJECT.json substitutes for X to show which property notices.          *)
(*                                                                         *)
(* Every public method of the code runs one BEGIN IMMEDIATE transaction,   *)
(* so each is one action.  A method that fails rolls back: it is no step.  *)
(* Methods that chain several transactions (open_internal,                 *)
(* reconcile_expired_sessions_excluding, the settlement protocol) are      *)
(* several actions, and a crash may fall between any two of them.          *)
(***************************************************************************)
EXTENDS Integers, FiniteSets, Functions

CONSTANTS
  Session,              \* rowids of the uploads table, in order of insertion
  Identity,             \* rowids of ip_identities
  Ip, Key,              \* client addresses, HMAC secrets
  Attempt, NoAttempt,   \* delivery attempt ids; NULL
  MaxFileBytes, DailyQuota, MaxActiveSessions, MaxGlobalReserved, \* LedgerLimits
  MinUploadBytes,       \* least size a client settles (the code accepts 0)
  CapabilityTtl, LeaseDuration, AckGrace, DayLength, \* in clock ticks
  ClockLag,             \* age a clock reading can have when BEGIN IMMEDIATE returns
  MaxStartupRecoveries, MaxRecoveriesPerPass,
  MaxClock, MaxCrashes  \* bounds of the model: the last instant, the crashes

ASSUME SessionsAreNumbered == Session \subseteq Nat /\ IsFiniteSet(Session)
ASSUME IdentitiesAreNumbered ==
  Identity \subseteq Nat \ {0} /\ IsFiniteSet(Identity)
ASSUME AttemptsAreNamed == NoAttempt \notin Attempt
ASSUME LimitsAreNumbers ==
  /\ MaxFileBytes \in Nat /\ DailyQuota \in Nat /\ MaxActiveSessions \in Nat
  /\ MaxGlobalReserved \in Nat /\ MinUploadBytes \in Nat
  /\ MaxStartupRecoveries \in Nat /\ MaxRecoveriesPerPass \in Nat
ASSUME TimesAreNumbers ==
  /\ CapabilityTtl \in Nat \ {0} /\ LeaseDuration \in Nat \ {0}
  /\ AckGrace \in Nat /\ DayLength \in Nat \ {0} /\ ClockLag \in Nat
  /\ MaxClock \in Nat /\ MaxCrashes \in Nat

VARIABLES
  phase,          \* "down", "opening" (open_internal after its first commit), "serving"
  now,            \* unix time
  crashes,        \* crashes so far
  keys,           \* the secrets of the running process
  row,            \* uploads, joined with the capability row
  hashOwner,      \* ip_hashes: the identity that owns a keyed hash of an address
  lastIdentity,   \* the AUTOINCREMENT sequence of ip_identities
  globalReserved, \* global_budget.reserved_bytes
  used,           \* daily_usage.used_bytes, 0 where there is no row
  usageRows,      \* the rows that exist in daily_usage
  settlement,     \* settlement_outbox
  cleanup,        \* cleanup_outbox
  files,          \* sessions whose reservation file exists
  receipt,        \* SettlementReceipts held by upload workers, lost in a crash
  acker           \* sessions a live connection will acknowledge, lost in a crash

clockVars   == <<now, crashes>>
processVars == <<phase, keys>>
workerVars  == <<receipt, acker>>
accountVars == <<globalReserved, used, usageRows>>
aliasVars   == <<hashOwner, lastIdentity>>
vars == <<phase, now, crashes, keys, row, hashOwner, lastIdentity,
          globalReserved, used, usageRows, settlement, cleanup, files, receipt, acker>>

-----------------------------------------------------------------------------
(* The tables. *)

NoBytes == -1       \* actual_bytes IS NULL
NoIdentity == 0     \* no row of ip_hashes
Day == 0 .. (MaxClock \div DayLength)

Reserving == {"reserved", "receiving"}
Terminal  == {"expired", "rejected"}
State == Reserving \cup {"uploaded", "probing", "queued"} \cup Terminal

\* chargedOn is the day of the charge in daily_usage; the code keeps it only in
\* the settlement intent, so it outlives the intent here as a history value.
Row == [state : State \cup {"absent"}, identity : Identity \cup {NoIdentity},
        reserved : Nat, actual : Nat \cup {NoBytes}, chargedOn : Day,
        expires : Nat, lease : Nat]
NoRow == [state |-> "absent", identity |-> NoIdentity, reserved |-> 0,
          actual |-> NoBytes, chargedOn |-> 0, expires |-> 0, lease |-> 0]

Intent == [pending : BOOLEAN, day : Day, bytes : Nat, createdAt : Nat,
           possible : BOOLEAN, attempt : Attempt \cup {NoAttempt}]
NoIntent == [pending |-> FALSE, day |-> 0, bytes |-> 0, createdAt |-> 0,
             possible |-> FALSE, attempt |-> NoAttempt]

Receipt == [held : BOOLEAN, identity : Identity \cup {NoIdentity}, day : Day,
            bytes : Nat]
NoReceipt == [held |-> FALSE, identity |-> NoIdentity, day |-> 0, bytes |-> 0]

TypeOK ==
  /\ phase \in {"down", "opening", "serving"}
  /\ now \in 0 .. MaxClock
  /\ crashes \in 0 .. MaxCrashes
  /\ keys \in SUBSET Key
  /\ row \in [Session -> Row]
  /\ hashOwner \in [Key -> [Ip -> Identity \cup {NoIdentity}]]
  /\ lastIdentity \in Identity \cup {NoIdentity}
  /\ globalReserved \in Nat
  /\ used \in [Identity -> [Day -> Nat]]
  /\ usageRows \in SUBSET (Identity \X Day)
  /\ settlement \in [Session -> Intent]
  /\ cleanup \in SUBSET Session
  /\ files \in SUBSET Session
  /\ receipt \in [Session -> Receipt]
  /\ acker \in SUBSET Session

Init ==
  /\ phase = "serving"
  /\ now = 0
  /\ crashes = 0
  /\ keys \in (SUBSET Key) \ {{}}
  /\ row = [s \in Session |-> NoRow]
  /\ hashOwner = [k \in Key |-> [a \in Ip |-> NoIdentity]]
  /\ lastIdentity = NoIdentity
  /\ globalReserved = 0
  /\ used = [i \in Identity |-> [d \in Day |-> 0]]
  /\ usageRows = {}
  /\ settlement = [s \in Session |-> NoIntent]
  /\ cleanup = {}
  /\ files = {}
  /\ receipt = [s \in Session |-> NoReceipt]
  /\ acker = {}

-----------------------------------------------------------------------------
(* Queries. *)

Smaller(a, b) == IF a <= b THEN a ELSE b

\* current_unix_seconds() and current_day_bucket() read before BEGIN IMMEDIATE,
\* which may wait for the write lock: the reading is up to ClockLag old.
Readings == {t \in 0 .. now : t + ClockLag >= now}
DayOf(t) == t \div DayLength

Active(r, s) == r[s].state \in Reserving
ActiveSessions(r, i) == {s \in Session : Active(r, s) /\ r[s].identity = i}
Total(f) == SumFunctionOnSet(f, Session)
Reserved(r, i) ==
  Total([s \in Session |-> IF Active(r, s) /\ r[s].identity = i THEN r[s].reserved ELSE 0])
AllReserved(r) == Total([s \in Session |-> IF Active(r, s) THEN r[s].reserved ELSE 0])

Marked(s) == settlement[s].pending /\ settlement[s].possible

\* The limits: u and r are the tables daily_usage and uploads as the check sees them.
FitsQuota_ReservationsForgotten(u, r, i, t, n) == u[i][DayOf(t)] + n <= DailyQuota
FitsQuota(u, r, i, t, n) == u[i][DayOf(t)] + Reserved(r, i) + n <= DailyQuota

FitsBudget(n) == globalReserved + n <= MaxGlobalReserved

\* enqueue_cleanup.
Enqueue(S) == cleanup' = cleanup \cup S

\* The order in which the recovery and acknowledgement queries read the outbox.
Earlier(r, s) == \/ settlement[r].createdAt < settlement[s].createdAt
                 \/ settlement[r].createdAt = settlement[s].createdAt /\ r < s

\* A session that holds nothing any more: UPDATE uploads SET state = 'expired', ...
Expired(r)  == [r EXCEPT !.state = "expired", !.reserved = 0, !.lease = 0, !.expires = 0]
Refunded(r) == [Expired(r) EXCEPT !.actual = NoBytes]

-----------------------------------------------------------------------------
(* Opening a session: reserve_internal_until.                              *)

NextSession(s) == /\ row[s].state = "absent"
                  /\ \A r \in Session : r < s => row[r].state # "absent"

\* The identities the process' secrets know the address by; the least survives.
Found(a) == {hashOwner[k][a] : k \in keys} \ {NoIdentity}
Resolved(a) == IF Found(a) = {} THEN lastIdentity + 1
               ELSE CHOOSE i \in Found(a) : \A j \in Found(a) : i <= j

MergedUsed_NotCombined(F, i) ==
  [j \in Identity |-> [d \in Day |-> IF j \in F \ {i} THEN 0 ELSE used[j][d]]]
MergedOwner_NothingInserted(F, i, a) ==
  [k \in Key |-> [b \in Ip |-> IF hashOwner[k][b] \in F THEN i ELSE hashOwner[k][b]]]

\* merge_identity for every other identity found.
MergedRow(F, i) ==
  [s \in Session |-> IF row[s].identity \in F THEN [row[s] EXCEPT !.identity = i] ELSE row[s]]
MergedUsed(F, i) ==
  [j \in Identity |-> [d \in Day |->
     IF j = i /\ F # {} THEN SumFunctionOnSet([f \in Identity |-> IF f \in F THEN used[f][d] ELSE 0],
                                              Identity)
     ELSE IF j \in F THEN 0 ELSE used[j][d]]]
MergedUsageRows(F, i) ==
  {p \in usageRows : p[1] \notin F}
    \cup {<<i, d>> : d \in {e \in Day : \E f \in F : <<f, e>> \in usageRows}}
MergedOwner(F, i, a) ==
  [k \in Key |-> [b \in Ip |->
     IF hashOwner[k][b] \in F \/ (b = a /\ k \in keys) THEN i ELSE hashOwner[k][b]]]

\* The limits, checked on the merged tables u and r.
Admissible_BeforeMerge(u, r, i, t, n) ==
  /\ Cardinality(ActiveSessions(row, i)) < MaxActiveSessions
  /\ FitsQuota(used, row, i, t, n) /\ FitsBudget(n)
Admissible(u, r, i, t, n) ==
  /\ Cardinality(ActiveSessions(r, i)) < MaxActiveSessions
  /\ FitsQuota(u, r, i, t, n) /\ FitsBudget(n)

\* One reading t stands for the capability's expiry, computed by the route, and
\* the day, both taken before BEGIN IMMEDIATE.
Reserve(s, a, n, t) ==
  LET i == Resolved(a)
      merged == MergedRow(Found(a), i)
      mergedUsed == MergedUsed(Found(a), i)
  IN /\ phase = "serving" /\ NextSession(s) /\ i \in Identity
     /\ n <= MaxFileBytes
     /\ Admissible(mergedUsed, merged, i, t, n)
     /\ row' = [merged EXCEPT ![s] =
                  [state |-> "reserved", identity |-> i, reserved |-> n, actual |-> NoBytes,
                   chargedOn |-> 0, expires |-> t + CapabilityTtl, lease |-> 0]]
     /\ used' = mergedUsed
     /\ usageRows' = MergedUsageRows(Found(a), i)
     /\ hashOwner' = MergedOwner(Found(a), i, a)
     /\ lastIdentity' = IF Found(a) = {} THEN i ELSE lastIdentity
     /\ globalReserved' = globalReserved + n
     /\ files' = files \cup {s}
     /\ UNCHANGED <<clockVars, processVars, settlement, cleanup, workerVars>>

-----------------------------------------------------------------------------
(* Receiving. *)

OnlyRowChanges ==
  UNCHANGED <<clockVars, processVars, aliasVars, accountVars, settlement, cleanup,
              files, workerVars>>

\* claim_receiving_lease and renew_receiving_lease read the clock before BEGIN
\* IMMEDIATE, new_lease_expiry caps the lease at the capability's expiry.
LeaseUntil(s, t) == Smaller(t + LeaseDuration, row[s].expires)

ClaimReceivingLease(s, t) ==
  /\ phase = "serving" /\ row[s].state = "reserved" /\ row[s].expires > t
  /\ row' = [row EXCEPT ![s].state = "receiving", ![s].lease = LeaseUntil(s, t)]
  /\ OnlyRowChanges

RenewReceivingLease(s, t) ==
  /\ phase = "serving" /\ row[s].state = "receiving"
  /\ row[s].lease > t /\ row[s].expires > t
  /\ row' = [row EXCEPT ![s].lease = LeaseUntil(s, t)]
  /\ OnlyRowChanges

\* expand_receiving: the lease is renewed without the capability's cap.
ExpandReceiving(s, n, t) ==
  LET delta == n - row[s].reserved
  IN /\ phase = "serving" /\ row[s].state = "receiving" /\ row[s].lease > now
     /\ s \in files
     /\ delta > 0 /\ n <= MaxFileBytes
     /\ FitsQuota(used, row, row[s].identity, t, delta)
     /\ FitsBudget(delta)
     /\ row' = [row EXCEPT ![s].reserved = n, ![s].lease = now + LeaseDuration]
     /\ globalReserved' = globalReserved + delta
     /\ UNCHANGED <<clockVars, processVars, aliasVars, used, usageRows, settlement,
                    cleanup, files, workerVars>>

\* An uploaded file may go on only once its settlement is acknowledged.
MayLeaveUpload_WhilePending(s) == row[s].state = "uploaded" => s \in files
MayLeaveUpload(s) == row[s].state = "uploaded" => ~settlement[s].pending /\ s \in files

\* transition; the processing stages after the upload are not in the repository.
Advance(s, target) ==
  /\ phase = "serving"
  /\ <<row[s].state, target>> \in {<<"reserved", "receiving">>, <<"uploaded", "probing">>,
                                   <<"probing", "queued">>}
  /\ MayLeaveUpload(s)
  /\ row' = [row EXCEPT ![s].state = target]
  /\ OnlyRowChanges

Reject(s) ==
  /\ phase = "serving" /\ row[s].state \notin Terminal \cup {"absent"}
  /\ MayLeaveUpload(s)
  /\ row[s].reserved <= globalReserved
  /\ row' = [row EXCEPT ![s].state = "rejected", ![s].reserved = 0]
  /\ globalReserved' = globalReserved - row[s].reserved
  /\ Enqueue({s})
  /\ UNCHANGED <<clockVars, processVars, aliasVars, used, usageRows, settlement, files,
                 workerVars>>

MayExpire_Marked(s) == row[s].state \notin Terminal \cup {"absent"}
MayExpire(s) == row[s].state \notin Terminal \cup {"absent"} /\ ~Marked(s)

\* expire: the charge of a settlement that is still pending is left to recovery.
Expire(s) ==
  /\ phase = "serving" /\ MayExpire(s)
  /\ row[s].reserved <= globalReserved
  /\ row' = [row EXCEPT ![s] = Expired(row[s])]
  /\ globalReserved' = globalReserved - row[s].reserved
  /\ Enqueue({s})
  /\ UNCHANGED <<clockVars, processVars, aliasVars, used, usageRows, settlement, files,
                 workerVars>>

-----------------------------------------------------------------------------
(* Settling and delivering the answer. *)

\* settle_internal_with_hook_until; the clock is bounded so that the recovery of
\* the settlement still falls within it.
Settle(s, n, t) ==
  LET i == row[s].identity
      d == DayOf(t)
  IN /\ phase = "serving" /\ row[s].state = "receiving" /\ s \in files
     /\ n >= MinUploadBytes /\ n <= row[s].reserved /\ row[s].reserved <= globalReserved
     /\ FitsQuota(used, row, i, t, n - row[s].reserved)
     /\ now + AckGrace <= MaxClock
     /\ used' = [used EXCEPT ![i][d] = @ + n]
     /\ usageRows' = usageRows \cup {<<i, d>>}
     /\ row' = [row EXCEPT ![s] =
          [@ EXCEPT !.state = "uploaded", !.reserved = 0, !.actual = n, !.chargedOn = d,
                    !.lease = 0]]
     /\ settlement' = [settlement EXCEPT ![s] =
          [pending |-> TRUE, day |-> d, bytes |-> n, createdAt |-> now, possible |-> FALSE,
           attempt |-> NoAttempt]]
     /\ globalReserved' = globalReserved - row[s].reserved
     /\ receipt' = [receipt EXCEPT ![s] =
          [held |-> TRUE, identity |-> i, day |-> d, bytes |-> n]]
     /\ UNCHANGED <<clockVars, processVars, aliasVars, cleanup, files, acker>>

\* The worker hands the result to its request handler, or gives up compensating.
DropReceipt(s) ==
  /\ receipt[s].held
  /\ receipt' = [receipt EXCEPT ![s] = NoReceipt]
  /\ UNCHANGED <<clockVars, processVars, aliasVars, accountVars, row, settlement,
                 cleanup, files, acker>>

\* The handler starts a delivery only once the worker has handed its result over.
HandedOver_NotAwaited(s) == TRUE
HandedOver(s) == ~receipt[s].held

BeginDeliveryAttempt(s, a) ==
  /\ phase = "serving" /\ row[s].state = "uploaded" /\ HandedOver(s)
  /\ settlement[s].pending /\ settlement[s].attempt = NoAttempt /\ ~settlement[s].possible
  /\ settlement' = [settlement EXCEPT ![s].attempt = a]
  /\ UNCHANGED <<clockVars, processVars, aliasVars, accountVars, row, cleanup, files,
                 workerVars>>

\* The upload is still there: its row, and its file under its identity.
Deliverable(s) == row[s].state = "uploaded" /\ s \in files

\* When the handler learns of the commit in time, its connection acknowledges the
\* delivery; when it has timed out and its abort failed too, nobody does.
MarkDeliveryPossible(s, a) ==
  /\ phase = "serving" /\ Deliverable(s)
  /\ settlement[s].pending /\ settlement[s].attempt = a /\ ~settlement[s].possible
  /\ settlement' = [settlement EXCEPT ![s].possible = TRUE]
  /\ acker' \in {acker, acker \cup {s}}
  /\ UNCHANGED <<clockVars, processVars, aliasVars, accountVars, row, cleanup, files,
                 receipt>>

\* acknowledge_settlement, called by the connection that delivered the answer, and
\* by open_internal for the settlements an earlier process marked, in their order.
AcknowledgeSettlement(s) ==
  /\ \/ phase = "serving" /\ s \in acker
     \/ phase = "opening" /\ \A r \in Session : Marked(r) => ~Earlier(r, s)
  /\ Marked(s) /\ Deliverable(s)
  /\ settlement' = [settlement EXCEPT ![s] = NoIntent]
  /\ acker' = acker \ {s}
  /\ UNCHANGED <<clockVars, processVars, aliasVars, accountVars, row, cleanup, files,
                 receipt>>

-----------------------------------------------------------------------------
(* Refunding.                                                              *)

Billed(R, day, i, d) == {s \in R : row[s].identity = i /\ day[s] = d}
Bill(R) == Total([s \in Session |-> IF s \in R THEN row[s].actual ELSE 0])

\* UPDATE daily_usage SET used_bytes = used_bytes - ?1, then DELETE when it is 0.
UsedAfterRefund(R, day) ==
  [i \in Identity |-> [d \in Day |-> used[i][d] - Bill(Billed(R, day, i, d))]]
RowsAfterRefund(R, day) ==
  {p \in usageRows : \/ Billed(R, day, p[1], p[2]) = {}
                     \/ UsedAfterRefund(R, day)[p[1]][p[2]] # 0}

\* Every UPDATE of the refunds, made one after the other, must change one row: the
\* row must last until then, and the bill must be covered.
Refundable(R, day) ==
  \A s \in R :
    LET i == row[s].identity
        bills == Billed(R, day, i, day[s])
        before == {r \in bills : Earlier(r, s)}
    IN /\ <<i, day[s]>> \in usageRows
       /\ before # {} => used[i][day[s]] > Bill(before)
       /\ used[i][day[s]] >= Bill(bills)

\* recover_unacknowledged_settlements_in_transaction: of the rows it reads it
\* recovers the unmarked ones, and refunds those that still carry their charge.
Unmarked_OrMarked(B) == B
Unmarked(B) == {s \in B : ~settlement[s].possible}

Charged_UploadedOnly(B) == {s \in B : row[s].state = "uploaded"}
Charged(B) == {s \in B : row[s].actual # NoBytes}

IntentDay == [s \in Session |-> settlement[s].day]

Consistent(s, marked) ==
  \/ row[s].state = "uploaded" /\ row[s].actual = settlement[s].bytes
  \/ /\ row[s].state = "expired" /\ ~marked
     /\ row[s].actual \in {NoBytes, settlement[s].bytes}

Recoverable(B) == /\ \A s \in B : Consistent(s, settlement[s].possible)
                  /\ Refundable(Charged(Unmarked(B)), IntentDay)

\* expire_abandoned_sessions_excluding_in_transaction.
Abandoned_ReceivingOnly(t) == {s \in Session : row[s].state = "receiving" /\ row[s].lease <= t}
Abandoned(t) == {s \in Session : \/ row[s].state = "reserved" /\ row[s].expires <= t
                                 \/ row[s].state = "receiving" /\ row[s].lease <= t}

RowsAfter_ReceivingOnly(R, A) ==
  [s \in Session |-> IF s \in R THEN Refunded(row[s])
                     ELSE IF s \in A /\ row[s].state = "receiving" THEN Expired(row[s])
                     ELSE row[s]]
RowsAfter(R, A) ==
  [s \in Session |-> IF s \in R THEN Refunded(row[s])
                     ELSE IF s \in A THEN Expired(row[s]) ELSE row[s]]

Freed_Nothing(A) == 0
Freed(A) == Total([s \in Session |-> IF s \in A THEN row[s].reserved ELSE 0])

\* The recovery of the settlements R and the expiry of the abandoned sessions A.
RecoverAndExpire(R, A) ==
  /\ row' = RowsAfter(R, A)
  /\ used' = UsedAfterRefund(Charged(R), IntentDay)
  /\ usageRows' = RowsAfterRefund(Charged(R), IntentDay)
  /\ settlement' = [s \in Session |-> IF s \in R THEN NoIntent ELSE settlement[s]]
  /\ Enqueue(R \cup A)

\* abort_settlement_delivery_attempt, by a handler that did not learn that its
\* marker committed; the marker may have.
AbortDeliveryAttempt(s, a) ==
  /\ phase = "serving" /\ s \notin acker
  /\ settlement[s].pending /\ settlement[s].attempt = a
  /\ Consistent(s, FALSE) /\ Refundable(Charged({s}), IntentDay)
  /\ RecoverAndExpire({s}, {})
  /\ UNCHANGED <<clockVars, processVars, aliasVars, globalReserved, files, workerVars>>

\* compensate_late_settlement, the worker's own refund of what it has settled; a
\* merge of identities since then makes it fail.
CompensateLateSettlement(s) ==
  LET bill == [r \in {s} |-> receipt[s].day]
  IN /\ phase = "serving" /\ receipt[s].held /\ ~Marked(s)
     /\ row[s].identity = receipt[s].identity
     /\ \/ row[s].state = "uploaded" /\ row[s].actual = receipt[s].bytes
        \/ row[s].state = "expired" /\ row[s].actual \in {NoBytes, receipt[s].bytes}
     /\ Refundable(Charged({s}), bill)
     /\ row' = [row EXCEPT ![s] = Refunded(row[s])]
     /\ used' = UsedAfterRefund(Charged({s}), bill)
     /\ usageRows' = RowsAfterRefund(Charged({s}), bill)
     /\ settlement' = [settlement EXCEPT ![s] = NoIntent]
     /\ cleanup' = IF row[s].state = "uploaded" THEN cleanup \cup {s} ELSE cleanup
     /\ receipt' = [receipt EXCEPT ![s] = NoReceipt]
     /\ UNCHANGED <<clockVars, processVars, aliasVars, globalReserved, files, acker>>

-----------------------------------------------------------------------------
(* Maintenance.                                                            *)

Batch_NeverAttempted(t) ==
  {s \in Session : /\ settlement[s].pending /\ settlement[s].attempt = NoAttempt
                   /\ settlement[s].createdAt + AckGrace <= t}

\* The oldest settlements whose grace has passed; a marked one takes a place.
Batch(t) ==
  LET due == {s \in Session : settlement[s].pending /\ settlement[s].createdAt + AckGrace <= t}
  IN {s \in due : Cardinality({r \in due : Earlier(r, s)}) < MaxRecoveriesPerPass}

\* reconcile_expired_sessions_excluding; X are the uploads a live worker owns.
Reconcile(t, X) ==
  LET abandoned == Abandoned(t) \ X
  IN /\ phase = "serving"
     /\ Recoverable(Batch(t)) /\ Freed(abandoned) <= globalReserved
     /\ RecoverAndExpire(Unmarked(Batch(t)), abandoned)
     /\ globalReserved' = globalReserved - Freed(abandoned)
     /\ UNCHANGED <<clockVars, processVars, aliasVars, files, workerVars>>

\* reconcile_cleanup_job_once; a job whose file is gone is retried, never removed.
CleanUp(s) ==
  /\ phase # "down" /\ s \in cleanup /\ s \in files
  /\ files' = files \ {s}
  /\ cleanup' = cleanup \ {s}
  /\ UNCHANGED <<clockVars, processVars, aliasVars, accountVars, row, settlement,
                 workerVars>>

-----------------------------------------------------------------------------
(* Crash and restart. *)

Stop == /\ phase' = "down"
        /\ crashes' = crashes + 1
        /\ receipt' = [s \in Session |-> NoReceipt]
        /\ acker' = {}
        /\ UNCHANGED <<now, keys, aliasVars, accountVars, row, settlement>>

Crash == phase # "down" /\ crashes < MaxCrashes /\ Stop /\ UNCHANGED <<cleanup, files>>

\* A crash between unlinking a file and deleting its cleanup job.
CrashAfterUnlink(s) ==
  /\ phase # "down" /\ crashes < MaxCrashes /\ s \in cleanup /\ s \in files
  /\ Stop
  /\ files' = files \ {s}
  /\ UNCHANGED cleanup

Pending == {s \in Session : settlement[s].pending}

\* validate_startup_invariants and validate_secret_retention, on the recovered tables.
StartupInvariants(r, u, ks) ==
  LET today == DayOf(now)
  IN /\ AllReserved(r) <= MaxGlobalReserved
     /\ \A s \in Session : Active(r, s) => r[s].reserved <= MaxFileBytes /\ s \in files
     /\ \A i \in Identity :
          /\ u[i][today] + Reserved(r, i) <= DailyQuota
          /\ Cardinality(ActiveSessions(r, i)) <= MaxActiveSessions
          /\ ActiveSessions(r, i) # {} \/ u[i][today] > 0
               => \E k \in ks, a \in Ip : hashOwner[k][a] = i

CanOpen(ks) ==
  /\ Cardinality(Pending) <= MaxStartupRecoveries
  /\ Recoverable(Pending) /\ Freed(Abandoned(now)) <= globalReserved
  /\ StartupInvariants(RowsAfter(Unmarked(Pending), Abandoned(now)),
                       UsedAfterRefund(Charged(Unmarked(Pending)), IntentDay), ks)

\* The first transaction of open_internal.
OpenLedger(ks) ==
  /\ phase = "down" /\ ks # {} /\ CanOpen(ks)
  /\ RecoverAndExpire(Unmarked(Pending), Abandoned(now))
  /\ globalReserved' = AllReserved(row')
  /\ phase' = "opening"
  /\ keys' = ks
  /\ UNCHANGED <<clockVars, aliasVars, files, workerVars>>

\* Every marked settlement is acknowledged: open_internal returns the ledger.
FinishOpen ==
  /\ phase = "opening" /\ \A s \in Session : ~Marked(s)
  /\ phase' = "serving"
  /\ UNCHANGED <<clockVars, keys, aliasVars, accountVars, row, settlement, cleanup,
                 files, workerVars>>

Tick ==
  /\ now < MaxClock
  /\ now' = now + 1
  /\ UNCHANGED <<crashes, processVars, aliasVars, accountVars, row, settlement, cleanup,
                 files, workerVars>>

-----------------------------------------------------------------------------
SessionStep(s) ==
  \/ \E a \in Ip, n \in 1 .. MaxFileBytes, t \in Readings : Reserve(s, a, n, t)
  \/ \E t \in Readings : ClaimReceivingLease(s, t) \/ RenewReceivingLease(s, t)
  \/ \E n \in 1 .. MaxFileBytes, t \in Readings : ExpandReceiving(s, n, t)
  \/ \E target \in {"receiving", "probing", "queued"} : Advance(s, target)
  \/ Reject(s)
  \/ Expire(s)

SettlementStep(s) ==
  \/ \E n \in 0 .. MaxFileBytes, t \in Readings : Settle(s, n, t)
  \/ DropReceipt(s)
  \/ CompensateLateSettlement(s)
  \/ \E a \in Attempt : \/ BeginDeliveryAttempt(s, a)
                        \/ MarkDeliveryPossible(s, a)
                        \/ AbortDeliveryAttempt(s, a)
  \/ AcknowledgeSettlement(s)

MaintenanceStep ==
  \/ \E t \in Readings, X \in SUBSET Session : Reconcile(t, X)
  \/ \E s \in Session : CleanUp(s)

ProcessStep ==
  \/ Crash
  \/ \E s \in Session : CrashAfterUnlink(s)
  \/ \E ks \in SUBSET Key : OpenLedger(ks)
  \/ FinishOpen

Next ==
  \/ \E s \in Session : SessionStep(s) \/ SettlementStep(s)
  \/ MaintenanceStep
  \/ ProcessStep
  \/ Tick

Spec == Init /\ [][Next]_vars

\* What the running server does sooner or later: time passes, the maintenance tick
\* of serve_with_authorization fires, a connection retries its acknowledgment until
\* it succeeds, and a stopped server is started again with its keys.
Fairness ==
  /\ WF_vars(Tick)
  /\ WF_vars(\E t \in Readings, X \in SUBSET Session : Reconcile(t, X))
  /\ \A s \in Session : WF_vars(AcknowledgeSettlement(s)) /\ WF_vars(CleanUp(s))
  /\ WF_vars(OpenLedger(keys))
  /\ WF_vars(FinishOpen)

FairSpec == Spec /\ Fairness

-----------------------------------------------------------------------------
(* Safety.                                                                 *)

\* global_budget.reserved_bytes is the sum of the bytes the live sessions reserve,
\* although seven methods move it by increments in transactions of their own.
BudgetExact == globalReserved = AllReserved(row)

\* daily_usage holds for every identity and day exactly what its uploads were
\* charged and not refunded, through merges of identities, midnight and restarts.
ChargesExact ==
  \A i \in Identity, d \in Day :
    used[i][d] = Total([s \in Session |->
      IF row[s].identity = i /\ row[s].chargedOn = d /\ row[s].actual # NoBytes
      THEN row[s].actual ELSE 0])

\* No sequence of reserve, expand, settle and refund commits an identity to more than
\* its quota of the day or its number of sessions, or the service to more than its
\* budget, also after two identities were merged.
LimitsHonoured ==
  /\ AllReserved(row) <= MaxGlobalReserved
  /\ \A i \in Identity :
       /\ used[i][DayOf(now)] + Reserved(row, i) <= DailyQuota
       /\ Cardinality(ActiveSessions(row, i)) <= MaxActiveSessions

\* A settlement whose 204 may have reached the client keeps its charge and its row.
MarkedIsKept ==
  \A s \in Session : Marked(s) => /\ row[s].state = "uploaded"
                                  /\ row[s].actual = settlement[s].bytes

\* The cleanup never has a claim on the file of a session that is still alive.
LiveFileKept ==
  \A s \in Session :
    row[s].state \notin Terminal \cup {"absent"} => s \in files /\ s \notin cleanup

\* The file of a dead session is never forgotten: a job to delete it is queued.
DeadFileQueued ==
  \A s \in Session : row[s].state \in Terminal /\ s \in files => s \in cleanup

\* The file of a session goes after the session has ended, and then it does go: the
\* deletion is decided in the transaction that ends the session, and carried out later.
FilesFollowSessions == LiveFileKept /\ DeadFileQueued

\* The maintenance tick, whose failure stops the server, never fails.
RecoveryNeverFails ==
  \A t \in Readings : Recoverable(Batch(t)) /\ Freed(Abandoned(t)) <= globalReserved

\* Whenever the process stops, the ledger it leaves passes every check of startup.
StartupAccepts == Cardinality(Pending) <= MaxStartupRecoveries => CanOpen(keys)

\* A settlement leaves the outbox with its charge refunded, or with its delivery
\* marked and its charge kept: never both, never neither.  Once marked, only the
\* abort of the very attempt that marked it may still refund it.
IntentIsResolvedOnce ==
  [][\A s \in Session :
       settlement[s].pending /\ ~settlement'[s].pending =>
         \/ /\ row'[s].actual = NoBytes /\ row'[s].state = "expired"
            /\ Marked(s) => \E a \in Attempt : AbortDeliveryAttempt(s, a)
         \/ Marked(s) /\ row'[s].actual = settlement[s].bytes]_vars

\* The charge of an acknowledged upload is final: no late compensation, abort,
\* recovery or expiry refunds it or moves it to another day.
AcknowledgedIsFinal ==
  [][\A s \in Session :
       row[s].actual # NoBytes /\ ~settlement[s].pending =>
         /\ row'[s].actual = row[s].actual
         /\ row'[s].chargedOn = row[s].chargedOn]_vars

-----------------------------------------------------------------------------
(* Liveness, under FairSpec.                                               *)

\* A settlement nobody could have answered with a 204 is refunded or delivered.
UnmarkedIsResolved ==
  \A s \in Session : settlement[s].pending /\ ~settlement[s].possible
                       ~> Marked(s) \/ ~settlement[s].pending

\* A reservation its client never starts to upload is given up once its capability
\* has expired, whatever happens to the process in between.
AbandonedIsReleased ==
  \A s \in Session : row[s].state = "reserved" /\ row[s].expires <= MaxClock
                       ~> row[s].state # "reserved"

=============================================================================
