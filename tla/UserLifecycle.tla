---------------------------- MODULE UserLifecycle ----------------------------
(***************************************************************************)
(* What happens to a user's row and data when accounts are deleted: the    *)
(* soft delete of the Prisma extension, POST /api/admin/users/[id]/restore *)
(* that undoes it, POST /api/users/[id]/erase that anonymises the user     *)
(* (GDPR), and the clean-up script that removes rows deleted more than     *)
(* Retention ago.  They share the database and no lock.                    *)
(*                                                                         *)
(* The erasure writes in one transaction, with an e-mail address read      *)
(* before it.  Restoring reads twice and then updates whatever row has the *)
(* id.  The script calls the clean-up service twice, for a preview and,    *)
(* once it is confirmed, for good: it counts and lists the due users again, *)
(* in pages without an order, deletes the listed ids, and writes an audit  *)
(* entry after each DELETE, in a statement of its own.                     *)
(*                                                                         *)
(* A request of the user's own browser to better-auth (a new e-mail        *)
(* address) is checked against the session first and written later. *)
(* Who deleted a row and what else an audit entry says is left out.        *)
(***************************************************************************)
EXTENDS Naturals, Sequences, FiniteSets, Functions

CONSTANTS
  Users,
  LongDeleted, \* those soft-deleted Retention ago
  Cleaners,   \* runs of cleanup-deleted-users.ts
  DryRuns,    \* those with --dry-run
  Forced,     \* those with --force
  Erasers,    \* requests to erase a user
  Restorers,  \* requests to restore one
  Requests,   \* requests of a user to change the profile or the address
  UserOf,     \* the user a request is about
  ByAdmin,    \* the requests made by ADMIN_USER_ID, the others are the user's
  Retention,  \* retentionDays
  PageSize,   \* BATCH_SIZE
  MaxTime,    \* bound: days that pass
  MaxFaults   \* bound: failures and crashes in a behaviour

Subjects == Erasers \cup Restorers \cup Requests

ASSUME LifecycleAssumption ==
  /\ IsFiniteSet(Users)
  /\ LongDeleted \subseteq Users
  /\ Cleaners \cap Subjects = {}
  /\ Erasers \cap Restorers = {} /\ Erasers \cap Requests = {} /\ Restorers \cap Requests = {}
  /\ DryRuns \subseteq Cleaners
  /\ Forced \subseteq Cleaners
  /\ UserOf \in [Subjects -> Users]
  /\ Retention \in 1 .. 3650
  /\ PageSize \in Nat \ {0}
  /\ MaxTime \in Nat
  /\ MaxFaults \in Nat

VARIABLES
  pc,        \* where each run and request is
  now,       \* the day
  present,   \* users with a row
  deletedAt, \* the day of the row's deletedAt, or Never
  email,     \* the user's "first" or "second" address, or "anonymous"; the
             \* name and image are written with it
  logins,    \* what the user has to sign in with
  tokens,    \* addresses with a row in verification
  audits,    \* HARD_DELETE entries: run, position in its list, user
  address,   \* userToErase.email
  started,   \* the day the service was called to delete
  listed,    \* users: the summaries fetched
  done,      \* how many of them have been processed
  succeeded, \* successCount
  failed,    \* failedUserIds
  raced,     \* history: users whose own request overlapped their erasure
  faults

rowVars == <<present, deletedAt, email, logins, tokens>>
runVars == <<started, listed, done, succeeded, failed>>
vars == <<pc, now, rowVars, audits, address, runVars, raced, faults>>

Never == 0
None == "none"
LoginData == {"session", "account", "twoFactor"}

Init ==
  /\ pc = [a \in Cleaners \cup Subjects |-> "new"]
  /\ now = Retention + 1
  /\ present = Users
  /\ deletedAt = [u \in Users |-> IF u \in LongDeleted THEN 1 ELSE Never]
  /\ email = [u \in Users |-> "first"]
  /\ logins = [u \in Users |-> LoginData]
  /\ tokens = [u \in Users |-> {"first"}]
  /\ audits = {}
  /\ address = [e \in Erasers |-> None]
  /\ started = [c \in Cleaners |-> 0]
  /\ listed = [c \in Cleaners |-> <<>>]
  /\ done = [c \in Cleaners |-> 0]
  /\ succeeded = [c \in Cleaners |-> 0]
  /\ failed = [c \in Cleaners |-> {}]
  /\ raced = {}
  /\ faults = 0

Goto(a, label) == pc' = [pc EXCEPT ![a] = label]

Fault ==
  /\ faults < MaxFaults
  /\ faults' = faults + 1

Tick ==
  /\ now < Retention + 1 + MaxTime
  /\ now' = now + 1
  /\ UNCHANGED <<pc, rowVars, audits, address, runVars, raced, faults>>

(***************************************************************************)
(* Deleting, restoring and erasing.                                        *)
(***************************************************************************)
\* The extension gives delete and deleteMany the columns of an update, as
\* docs/SOFT_DELETE_CONTEXT.md has it.  (Where Prisma refuses that argument the
\* request fails: the step is not taken.)
SoftDelete(u) ==
  /\ u \in present
  /\ deletedAt' = [deletedAt EXCEPT ![u] = now]
  /\ UNCHANGED <<pc, now, present, email, logins, tokens, audits, address, runVars, raced, faults>>

\* checkAdminAuthorization: the administrator, or the user with a session.
Authorized(a) == a \in ByAdmin \/ "session" \in logins[UserOf[a]]

IsDeleted(u) == u \in present /\ deletedAt[u] # Never

\* 401, 403, or 404: nothing is written.
Refuse(a) ==
  LET u == UserOf[a]
  IN  /\ pc[a] = "new"
      /\ ~Authorized(a) \/ (IF a \in Restorers THEN ~IsDeleted(u) ELSE u \notin present)
      /\ Goto(a, "refused")
      /\ UNCHANGED <<now, rowVars, audits, address, runVars, raced, faults>>

\* The route's findFirst and restoreUser's findUnique look for the same row;
\* the second of them decides.
BeginRestore(a) ==
  /\ pc[a] = "new"
  /\ Authorized(a)
  /\ IsDeleted(UserOf[a])
  /\ Goto(a, "checked")
  /\ UNCHANGED <<now, rowVars, audits, address, runVars, raced, faults>>

\* Mutant: the row is written back as it was read.
Restore_WholeRow(a) ==
  LET u == UserOf[a]
  IN  /\ pc[a] = "checked"
      /\ u \in present
      /\ deletedAt' = [deletedAt EXCEPT ![u] = Never]
      /\ email' = [email EXCEPT ![u] = "first"]
      /\ Goto(a, "restored")
      /\ UNCHANGED <<now, present, logins, tokens, audits, address, runVars, raced, faults>>

\* The update does not look at deletedAt again.  The audit entry that follows
\* is best effort: an error of its INSERT is logged.
Restore(a) ==
  LET u == UserOf[a]
  IN  /\ pc[a] = "checked"
      /\ u \in present
      /\ deletedAt' = [deletedAt EXCEPT ![u] = Never]
      /\ Goto(a, "restored")
      /\ UNCHANGED <<now, present, email, logins, tokens, audits, address, runVars, raced, faults>>

\* findUnique selects no deletedAt, so that a deleted user is found too.
BeginErase(a) ==
  LET u == UserOf[a]
  IN  /\ pc[a] = "new"
      /\ Authorized(a)
      /\ u \in present
      /\ address' = [address EXCEPT ![a] = email[u]]
      /\ Goto(a, "anonymize")
      /\ UNCHANGED <<now, rowVars, audits, runVars, raced, faults>>

\* The transaction.  (A request that fails before its commit, or dies, is one
\* that takes no further step.)
Erase(a) ==
  LET u == UserOf[a]
  IN  /\ pc[a] = "anonymize"
      /\ u \in present
      /\ email' = [email EXCEPT ![u] = "anonymous"]
      /\ deletedAt' = [deletedAt EXCEPT ![u] = now]
      /\ logins' = [logins EXCEPT ![u] = {}]
      /\ tokens' = [tokens EXCEPT ![u] = @ \ {address[a]}]
      /\ Goto(a, "erased")
      /\ UNCHANGED <<now, present, audits, address, runVars, raced, faults>>

\* 500: the row has been removed since it was read.
RowGone(a) ==
  /\ pc[a] \in {"checked", "anonymize", "writing"}
  /\ UserOf[a] \notin present
  /\ Goto(a, "refused")
  /\ UNCHANGED <<now, rowVars, audits, address, runVars, raced, faults>>

\* better-auth: the session is checked, and the row is written some time later.
BeginRequest(a) ==
  /\ pc[a] = "new"
  /\ UserOf[a] \in present
  /\ "session" \in logins[UserOf[a]]
  /\ Goto(a, "writing")
  /\ UNCHANGED <<now, rowVars, audits, address, runVars, raced, faults>>

BeingErased(u) == \E e \in Erasers : UserOf[e] = u /\ address[e] # None

EndRequest(a) ==
  LET u == UserOf[a]
  IN  /\ pc[a] = "writing"
      /\ u \in present
      /\ email' = [email EXCEPT ![u] = "second"]
      /\ tokens' = [tokens EXCEPT ![u] = @ \cup {"second"}]
      /\ raced' = IF BeingErased(u) THEN raced \cup {u} ELSE raced
      /\ Goto(a, "written")
      /\ UNCHANGED <<now, present, deletedAt, logins, audits, address, runVars, faults>>

(***************************************************************************)
(* The clean-up.                                                           *)
(***************************************************************************)
\* Mutant: the query has no cutoff.
DueOn_NoCutoff(day) == {u \in present : deletedAt[u] # Never}

\* deletedAt: not null, lte cutoffDate.
DueOn(day) == {u \in present : deletedAt[u] # Never /\ deletedAt[u] + Retention <= day}
Due(c) == DueOn(started[c])

\* The first call of the service, with dryRun: main keeps nothing of what it
\* lists but whether anything was found.
Preview(c) ==
  /\ pc[c] = "new"
  /\ Goto(c, IF DueOn(now) = {} \/ c \in DryRuns THEN "done" ELSE "confirm")
  /\ UNCHANGED <<now, rowVars, audits, address, runVars, raced, faults>>

\* The second call: the cutoff date is that of its own start.
Confirm(c) ==
  /\ pc[c] = "confirm"
  /\ started' = [started EXCEPT ![c] = now]
  /\ Goto(c, "count")
  /\ UNCHANGED <<now, rowVars, audits, address, listed, done, succeeded, failed, raced, faults>>

\* Not "yes", or no terminal to ask on.
Decline(c) ==
  /\ pc[c] = "confirm"
  /\ c \notin Forced
  /\ Goto(c, "done")
  /\ UNCHANGED <<now, rowVars, audits, address, runVars, raced, faults>>

\* Mutant: the run waits for something to be due.
Count_Waits(c) ==
  /\ pc[c] = "count"
  /\ Due(c) # {}
  /\ Goto(c, "list")
  /\ UNCHANGED <<now, rowVars, audits, address, runVars, raced, faults>>

Count(c) ==
  /\ pc[c] = "count"
  /\ Goto(c, IF Due(c) = {} THEN "done" ELSE "list")
  /\ UNCHANGED <<now, rowVars, audits, address, runVars, raced, faults>>

\* A page is any PageSize of the due rows: the query has no ORDER BY, and skip
\* is the number of rows listed before.
PageLength(c) ==
  LET left == Cardinality(Due(c)) - Len(listed[c])
  IN  IF Cardinality(Due(c)) <= Len(listed[c]) THEN 0
      ELSE IF left < PageSize THEN left ELSE PageSize

\* An empty page ends the list.  The second paged query, of the addresses, is
\* for the log only.
FetchPage(c) ==
  /\ pc[c] = "list"
  /\ \E page \in [1 .. PageLength(c) -> Due(c)] :
       /\ IsInjective(page)
       /\ listed' = [listed EXCEPT ![c] =
            @ \o [i \in 1 .. PageLength(c) |-> <<page[i], deletedAt[page[i]]>>]]
  /\ Goto(c, IF PageLength(c) = 0 THEN "delete" ELSE "list")
  /\ UNCHANGED <<now, rowVars, audits, address, started, done, succeeded, failed, raced, faults>>

HasNext(c) == done[c] < Len(listed[c])
NextUser(c) == listed[c][done[c] + 1][1]

\* Sessions, accounts and two-factor entries go by ON DELETE CASCADE.
RemoveRow(u) ==
  /\ present' = present \ {u}
  /\ logins' = [logins EXCEPT ![u] = {}]
  /\ deletedAt' = [deletedAt EXCEPT ![u] = Never]
  /\ UNCHANGED <<email, tokens>>

\* DELETE ... WHERE id: the row as it is by now; no row is no error.
DeleteUser(c) ==
  /\ pc[c] = "delete"
  /\ HasNext(c)
  /\ RemoveRow(NextUser(c))
  /\ Goto(c, "audit")
  /\ UNCHANGED <<now, audits, address, runVars, raced, faults>>

Entry(c) == <<c, done[c] + 1, NextUser(c)>>

\* Mutant: the success is counted without the entry.
AuditRemoval_NotWritten(c) ==
  /\ pc[c] = "audit"
  /\ succeeded' = [succeeded EXCEPT ![c] = @ + 1]
  /\ done' = [done EXCEPT ![c] = @ + 1]
  /\ Goto(c, "delete")
  /\ UNCHANGED <<now, rowVars, audits, address, started, listed, failed, raced, faults>>

\* logHardDeletion.
AuditRemoval(c) ==
  /\ pc[c] = "audit"
  /\ audits' = audits \cup {Entry(c)}
  /\ succeeded' = [succeeded EXCEPT ![c] = @ + 1]
  /\ done' = [done EXCEPT ![c] = @ + 1]
  /\ Goto(c, "delete")
  /\ UNCHANGED <<now, rowVars, address, started, listed, failed, raced, faults>>

\* Mutant: the loop ends at the first user it could not remove.
RemovalFails_Stops(c) ==
  /\ Fault
  /\ pc[c] \in {"delete", "audit"}
  /\ HasNext(c)
  /\ Goto(c, "done")
  /\ UNCHANGED <<now, rowVars, audits, address, runVars, raced>>

\* Mutant: the summary is kept instead of its id.
RemovalFails_KeepsSummary(c) ==
  /\ Fault
  /\ pc[c] \in {"delete", "audit"}
  /\ HasNext(c)
  /\ UNCHANGED <<rowVars, audits>>
  /\ failed' = [failed EXCEPT ![c] = @ \cup {listed[c][done[c] + 1]}]
  /\ done' = [done EXCEPT ![c] = @ + 1]
  /\ Goto(c, "delete")
  /\ UNCHANGED <<now, address, started, listed, succeeded, raced>>

\* Either statement raises, applied or not; the loop goes on.
RemovalFails(c) ==
  /\ Fault
  /\ pc[c] \in {"delete", "audit"}
  /\ HasNext(c)
  /\ \/ UNCHANGED <<rowVars, audits>>
     \/ pc[c] = "delete" /\ RemoveRow(NextUser(c)) /\ UNCHANGED audits
     \/ pc[c] = "audit" /\ audits' = audits \cup {Entry(c)} /\ UNCHANGED rowVars
  /\ failed' = [failed EXCEPT ![c] = @ \cup {NextUser(c)}]
  /\ done' = [done EXCEPT ![c] = @ + 1]
  /\ Goto(c, "delete")
  /\ UNCHANGED <<now, address, started, listed, succeeded, raced>>

FinishCleanup(c) ==
  /\ pc[c] = "delete"
  /\ ~HasNext(c)
  /\ Goto(c, "done")
  /\ UNCHANGED <<now, rowVars, audits, address, runVars, raced, faults>>

\* A query raises, or the process dies.
StopCleanup(c) ==
  /\ Fault
  /\ pc[c] \in {"confirm", "count", "list", "delete", "audit"}
  /\ Goto(c, "stopped")
  /\ UNCHANGED <<now, rowVars, audits, address, runVars, raced>>

(***************************************************************************)
(* Specification.                                                          *)
(***************************************************************************)
Step(c) ==
  \/ Confirm(c) \/ Decline(c) \/ Count(c) \/ FetchPage(c)
  \/ DeleteUser(c) \/ AuditRemoval(c) \/ FinishCleanup(c)

Cleanup(c) == Preview(c) \/ Step(c) \/ RemovalFails(c) \/ StopCleanup(c)

Next ==
  \/ Tick
  \/ \E u \in Users : SoftDelete(u)
  \/ \E a \in Restorers : BeginRestore(a) \/ Restore(a)
  \/ \E a \in Erasers : BeginErase(a) \/ Erase(a)
  \/ \E a \in Erasers \cup Restorers : Refuse(a)
  \/ \E a \in Requests : BeginRequest(a) \/ EndRequest(a)
  \/ \E a \in Subjects : RowGone(a)
  \/ \E c \in Cleaners : Cleanup(c)

Spec == Init /\ [][Next]_vars

\* A run that was started makes its calls, which return or raise, and gets an
\* answer to its question.
FairSpec == Spec /\ \A c \in Cleaners : WF_vars(Step(c))

(***************************************************************************)
(* Properties.                                                             *)
(***************************************************************************)
\* Type invariant.
TypeOK ==
  /\ pc \in [Cleaners \cup Subjects ->
              {"new", "checked", "restored", "anonymize", "erased",
               "writing", "written", "refused", "confirm", "count", "list",
               "delete", "audit", "done", "stopped"}]
  /\ now \in Nat \ {0}
  /\ present \subseteq Users
  /\ deletedAt \in [Users -> Nat]
  /\ email \in [Users -> {"first", "second", "anonymous"}]
  /\ logins \in [Users -> SUBSET LoginData]
  /\ tokens \in [Users -> SUBSET {"first", "second"}]
  /\ audits \subseteq Cleaners \X Nat \X Users
  /\ address \in [Erasers -> {"first", "second", "anonymous", None}]
  /\ started \in [Cleaners -> Nat]
  /\ listed \in [Cleaners -> Seq(Users \X Nat)]
  /\ done \in [Cleaners -> Nat]
  /\ succeeded \in [Cleaners -> Nat]
  /\ failed \in [Cleaners -> SUBSET Users]
  /\ raced \subseteq Users
  /\ faults \in 0 .. MaxFaults

\* A row is removed only by a run that is no dry run, listed it and has not
\* processed it, and a row not due at that moment was restored (or deleted
\* anew) after the run had listed it.
RemovedWasDue ==
  [][\A u \in present \ present' :
       \E c \in Cleaners \ DryRuns :
         /\ pc[c] = "delete" /\ HasNext(c) /\ NextUser(c) = u
         /\ LET was == listed[c][done[c] + 1][2]
            IN  deletedAt[u] = was => was + Retention <= now]_vars

\* No removal without a trace: a removed user has a HARD_DELETE entry, or is in
\* the failures of a run, or the run that removed it is about to write the
\* entry or has stopped there.  And no entry without a removal.
AuditTellsRemovals ==
  /\ \A u \in Users \ present :
       \/ \E a \in audits : a[3] = u
       \/ \E c \in Cleaners : u \in failed[c]
       \/ \E c \in Cleaners : pc[c] \in {"audit", "stopped"} /\ HasNext(c) /\ NextUser(c) = u
  /\ \A a \in audits : a[3] \notin present

\* What a run reports: every listed user is either a success, with an entry of
\* this run, or a failure.
ReportAddsUp ==
  \A c \in Cleaners :
    /\ succeeded[c] <= Cardinality({a \in audits : a[1] = c})
    /\ pc[c] = "done" =>
         \A i \in 1 .. Len(listed[c]) :
           <<c, i, listed[c][i][1]>> \in audits \/ listed[c][i][1] \in failed[c]

\* An erased user stays erased through restoring, deleting and erasing again:
\* no name, address or sign-in data comes back, and no token of the address
\* it had, unless a request of the user's own was under way meanwhile.
ErasureIsComplete ==
  \A e \in Erasers :
    LET u == UserOf[e]
    IN  pc[e] = "erased" /\ u \in present /\ u \notin raced =>
          /\ email[u] = "anonymous" /\ logins[u] = {}
          /\ address[e] \notin tokens[u]

\* Every run of the script ends.
CleanupsEnd == \A c \in Cleaners : pc[c] # "new" ~> pc[c] \in {"done", "stopped"}
=============================================================================
