------------------------- MODULE UserLifecycle_proofs -------------------------
(***************************************************************************)
(* Theorems about UserLifecycle, for any finite set of users, any requests *)
(* and runs of the script, any page size and retention, and any number of  *)
(* failures.                                                               *)
(***************************************************************************)
EXTENDS UserLifecycle, FiniteSetTheorems, SequenceTheorems, TLAPS

(***************************************************************************)
(* The inductive invariant.                                                *)
(***************************************************************************)
AuditsOf(c) == {a \in audits : a[1] = c}

\* The i-th user of the list has been dealt with.
Processed(c, i) ==
  <<c, i, listed[c][i][1]>> \in audits \/ listed[c][i][1] \in failed[c]

\* What a run can be at each label.
PlaceInv(c) ==
  /\ c \in DryRuns => pc[c] \in {"new", "done"}
  /\ pc[c] \in {"new", "confirm", "count"} => listed[c] = <<>>
  /\ pc[c] \in {"new", "confirm", "count", "list"} => done[c] = 0
  /\ done[c] <= Len(listed[c])
  /\ pc[c] = "done" => done[c] = Len(listed[c])
  /\ pc[c] = "audit" => HasNext(c) /\ NextUser(c) \notin present

\* Everyone listed was due on the day the run began to delete.
ListInv(c) ==
  /\ started[c] <= now
  /\ \A i \in 1 .. Len(listed[c]) : listed[c][i][2] + Retention <= started[c]

\* The entries of a run are those of places it has passed, each its own.
AuditInv(c) ==
  /\ \A i \in 1 .. done[c] : Processed(c, i)
  /\ \A a \in AuditsOf(c) : a[2] <= done[c]
  /\ succeeded[c] <= Cardinality(AuditsOf(c))

CleanerInv(c) == PlaceInv(c) /\ ListInv(c) /\ AuditInv(c)

\* An eraser that has read the address keeps it.
EraserInv(e) == pc[e] \in {"anonymize", "erased"} => address[e] # None

Inv ==
  /\ TypeOK
  /\ IsFiniteSet(audits)
  /\ \A c \in Cleaners : CleanerInv(c)
  /\ \A e \in Erasers : EraserInv(e)
  /\ AuditTellsRemovals
  /\ ErasureIsComplete

PCs == {"new", "checked", "restored", "anonymize", "erased", "writing", "written", "refused",
        "confirm", "count", "list", "delete", "audit", "done", "stopped"}

\* The steps that are of no run of the script.
Elsewhere ==
  \/ Tick
  \/ \E u \in Users : SoftDelete(u)
  \/ \E a \in Restorers : BeginRestore(a) \/ Restore(a)
  \/ \E a \in Erasers : BeginErase(a) \/ Erase(a)
  \/ \E a \in Erasers \cup Restorers : Refuse(a)
  \/ \E a \in Requests : BeginRequest(a) \/ EndRequest(a)
  \/ \E a \in Subjects : RowGone(a)

(***************************************************************************)
(* Types.                                                                  *)
(***************************************************************************)
LEMMA ListTypes ==
  ASSUME TypeOK, NEW c \in Cleaners
  PROVE  /\ listed[c] \in Seq(Users \X Nat)
         /\ Len(listed[c]) \in Nat
         /\ done[c] \in Nat
         /\ \A i \in 1 .. Len(listed[c]) : /\ listed[c][i][1] \in Users
                                           /\ listed[c][i][2] \in Nat
         /\ HasNext(c) => done[c] + 1 \in 1 .. Len(listed[c]) /\ NextUser(c) \in Users
<1>1. listed[c] \in Seq(Users \X Nat) /\ Len(listed[c]) \in Nat /\ done[c] \in Nat
  BY DEF TypeOK
<1>2. \A i \in 1 .. Len(listed[c]) : listed[c][i] \in Users \X Nat
  BY <1>1, ElementOfSeq
<1>3. \A i \in 1 .. Len(listed[c]) : listed[c][i][1] \in Users /\ listed[c][i][2] \in Nat
  BY <1>2
<1>4. HasNext(c) => done[c] + 1 \in 1 .. Len(listed[c])
  BY <1>1 DEF HasNext
<1> QED
  BY <1>1, <1>3, <1>4 DEF NextUser

\* A page is added behind the list, and holds users who are due.
LEMMA PageTypes ==
  ASSUME TypeOK, NEW c \in Cleaners, FetchPage(c)
  PROVE  /\ listed' \in [Cleaners -> Seq(Users \X Nat)]
         /\ \A q \in Cleaners \ {c} : listed'[q] = listed[q]
         /\ Len(listed'[c]) = Len(listed[c]) + PageLength(c) /\ PageLength(c) \in Nat
         /\ Len(listed[c]) <= Len(listed'[c])
         /\ \A i \in 1 .. Len(listed'[c]) :
              \/ i \in 1 .. Len(listed[c]) /\ listed'[c][i] = listed[c][i]
              \/ \E u \in Due(c) : listed'[c][i] = <<u, deletedAt[u]>>
<1> DEFINE n == PageLength(c)
<1>1. Due(c) \subseteq Users /\ IsFiniteSet(Due(c))
  BY FS_Subset, LifecycleAssumption DEF Due, DueOn, TypeOK
<1>2. Cardinality(Due(c)) \in Nat /\ Len(listed[c]) \in Nat /\ PageSize \in Nat
  BY <1>1, FS_CardinalityType, ListTypes, LifecycleAssumption
<1>3. n \in Nat
  BY <1>2 DEF PageLength
<1>4. PICK page \in [1 .. n -> Due(c)] :
        listed' = [listed EXCEPT ![c] = @ \o [i \in 1 .. n |-> <<page[i], deletedAt[page[i]]>>]]
  BY DEF FetchPage
<1> DEFINE new == [i \in 1 .. n |-> <<page[i], deletedAt[page[i]]>>]
<1>5. new \in [1 .. n -> Users \X Nat]
  BY <1>1, <1>4 DEF TypeOK
<1>6. new \in Seq(Users \X Nat)
  BY <1>3, <1>5, SeqDef
<1>7. Len(new) = n
  BY <1>3, <1>5, <1>6, LenProperties
<1> HIDE DEF new
<1>8. listed[c] \in Seq(Users \X Nat)
  BY ListTypes
<1>9. /\ listed[c] \o new \in Seq(Users \X Nat)
      /\ Len(listed[c] \o new) = Len(listed[c]) + n
      /\ \A i \in 1 .. Len(listed[c]) + n :
           (listed[c] \o new)[i] = IF i <= Len(listed[c]) THEN listed[c][i]
                                   ELSE new[i - Len(listed[c])]
  BY <1>6, <1>7, <1>8, ConcatProperties
<1>10. listed' = [listed EXCEPT ![c] = listed[c] \o new]
  BY <1>4 DEF new
<1>11. listed \in [Cleaners -> Seq(Users \X Nat)]
  BY DEF TypeOK
<1>12. listed'[c] = listed[c] \o new
  BY <1>10, <1>11
<1>13. listed' \in [Cleaners -> Seq(Users \X Nat)]
  BY <1>9, <1>10, <1>11
<1>14. ASSUME NEW i \in 1 .. Len(listed'[c])
       PROVE  \/ i \in 1 .. Len(listed[c]) /\ listed'[c][i] = listed[c][i]
              \/ \E u \in Due(c) : listed'[c][i] = <<u, deletedAt[u]>>
  <2>1. i \in 1 .. Len(listed[c]) + n
    BY <1>9, <1>12, <1>14
  <2>2. CASE i <= Len(listed[c])
    BY <2>1, <2>2, <1>2, <1>9, <1>12
  <2>3. CASE i > Len(listed[c])
    <3>1. i - Len(listed[c]) \in 1 .. n
      BY <2>1, <2>3, <1>2, <1>3
    <3>2. listed'[c][i] = new[i - Len(listed[c])]
      BY <2>1, <2>3, <1>2, <1>9, <1>12
    <3> QED
      BY <3>1, <3>2, <1>4 DEF new
  <2> QED
    BY <2>1, <2>2, <2>3, <1>2
<1>15. \A q \in Cleaners \ {c} : listed'[q] = listed[q]
  BY <1>4 DEF TypeOK
<1>16. Len(listed[c]) <= Len(listed'[c])
  BY <1>2, <1>3, <1>9, <1>12
<1>17. Len(listed'[c]) = Len(listed[c]) + n
  BY <1>9, <1>12
<1> QED
  BY <1>3, <1>13, <1>14, <1>15, <1>16, <1>17

LEMMA EntryTypes ==
  ASSUME TypeOK, NEW c \in Cleaners, HasNext(c)
  PROVE  Entry(c) \in Cleaners \X Nat \X Users
  BY ListTypes DEF Entry

LEMMA RemoveRowTypes ==
  ASSUME TypeOK, NEW u \in Users, RemoveRow(u)
  PROVE  /\ present' \subseteq Users
         /\ deletedAt' \in [Users -> Nat]
         /\ logins' \in [Users -> SUBSET LoginData]
         /\ UNCHANGED <<email, tokens>>
  BY DEF TypeOK, RemoveRow, Never

LEMMA ElsewhereTypes ==
  ASSUME TypeOK, Elsewhere
  PROVE  TypeOK'
<1>1. /\ pc \in [Cleaners \cup Subjects -> PCs]
      /\ now \in Nat \ {0}
      /\ present \subseteq Users
      /\ deletedAt \in [Users -> Nat]
      /\ email \in [Users -> {"first", "second", "anonymous"}]
      /\ logins \in [Users -> SUBSET LoginData]
      /\ tokens \in [Users -> SUBSET {"first", "second"}]
      /\ address \in [Erasers -> {"first", "second", "anonymous", None}]
      /\ raced \subseteq Users
  BY DEF TypeOK, PCs
<1>2. \A a \in Subjects, l \in PCs :
        UserOf[a] \in Users /\ [pc EXCEPT ![a] = l] \in [Cleaners \cup Subjects -> PCs]
  BY <1>1, LifecycleAssumption
<1>3. CASE Tick
  BY <1>3 DEF Tick, TypeOK, rowVars, runVars
<1>4. ASSUME NEW u \in Users, SoftDelete(u) PROVE TypeOK'
  BY <1>1, <1>4 DEF SoftDelete, TypeOK, runVars
<1>5. ASSUME NEW a \in Subjects, BeginRestore(a) \/ Refuse(a) \/ BeginRequest(a) \/ RowGone(a)
      PROVE  TypeOK'
  <2>1. pc' \in [Cleaners \cup Subjects -> PCs]
    BY <1>2, <1>5 DEF BeginRestore, Refuse, BeginRequest, RowGone, Goto, PCs
  <2> QED
    BY <1>5, <2>1 DEF BeginRestore, Refuse, BeginRequest, RowGone, TypeOK, PCs, rowVars, runVars
<1>6. ASSUME NEW a \in Restorers, Restore(a) PROVE TypeOK'
  <2>1. pc' \in [Cleaners \cup Subjects -> PCs] /\ deletedAt' \in [Users -> Nat]
    BY <1>1, <1>2, <1>6 DEF Restore, Goto, PCs, Subjects, Never
  <2> QED
    BY <1>6, <2>1 DEF Restore, TypeOK, PCs, runVars
<1>7. ASSUME NEW a \in Erasers, BeginErase(a) PROVE TypeOK'
  <2>1. pc' \in [Cleaners \cup Subjects -> PCs]
    BY <1>2, <1>7 DEF BeginErase, Goto, PCs, Subjects
  <2>2. address' \in [Erasers -> {"first", "second", "anonymous", None}]
    BY <1>1, <1>2, <1>7 DEF BeginErase, Subjects
  <2> QED
    BY <1>7, <2>1, <2>2 DEF BeginErase, TypeOK, PCs, rowVars, runVars
<1>8. ASSUME NEW a \in Erasers, Erase(a) PROVE TypeOK'
  <2>1. pc' \in [Cleaners \cup Subjects -> PCs]
    BY <1>2, <1>8 DEF Erase, Goto, PCs, Subjects
  <2>2. /\ email' \in [Users -> {"first", "second", "anonymous"}]
        /\ deletedAt' \in [Users -> Nat]
        /\ logins' \in [Users -> SUBSET LoginData]
        /\ tokens' \in [Users -> SUBSET {"first", "second"}]
    BY <1>1, <1>2, <1>8 DEF Erase, Subjects
  <2> QED
    BY <1>8, <2>1, <2>2 DEF Erase, TypeOK, PCs, runVars
<1>9. ASSUME NEW a \in Requests, EndRequest(a) PROVE TypeOK'
  <2>1. pc' \in [Cleaners \cup Subjects -> PCs]
    BY <1>2, <1>9 DEF EndRequest, Goto, PCs, Subjects
  <2>2. /\ email' \in [Users -> {"first", "second", "anonymous"}]
        /\ tokens' \in [Users -> SUBSET {"first", "second"}]
        /\ raced' \subseteq Users
    BY <1>1, <1>2, <1>9 DEF EndRequest, Subjects
  <2> QED
    BY <1>9, <2>1, <2>2 DEF EndRequest, TypeOK, PCs, runVars
<1> QED
  BY <1>3, <1>4, <1>5, <1>6, <1>7, <1>8, <1>9 DEF Elsewhere, Subjects

LEMMA CleanupTypes ==
  ASSUME TypeOK, NEW c \in Cleaners, PlaceInv(c), Cleanup(c)
  PROVE  TypeOK'
<1>1. /\ pc \in [Cleaners \cup Subjects -> PCs]
      /\ started \in [Cleaners -> Nat]
      /\ done \in [Cleaners -> Nat]
      /\ succeeded \in [Cleaners -> Nat]
      /\ failed \in [Cleaners -> SUBSET Users]
      /\ audits \subseteq Cleaners \X Nat \X Users
  BY DEF TypeOK, PCs
<1>2. \A l \in PCs : [pc EXCEPT ![c] = l] \in [Cleaners \cup Subjects -> PCs]
  BY <1>1
<1>3. Fault => faults' \in 0 .. MaxFaults
  BY LifecycleAssumption DEF Fault, TypeOK
<1>4. CASE Preview(c) \/ Decline(c) \/ Count(c) \/ FinishCleanup(c)
  <2>1. pc' \in [Cleaners \cup Subjects -> PCs]
    BY <1>2, <1>4 DEF Preview, Decline, Count, FinishCleanup, Goto, PCs
  <2> QED
    BY <1>4, <2>1 DEF Preview, Decline, Count, FinishCleanup, TypeOK, PCs, rowVars, runVars
<1>5. CASE Confirm(c)
  <2>1. pc' \in [Cleaners \cup Subjects -> PCs] /\ started' \in [Cleaners -> Nat]
    BY <1>1, <1>2, <1>5 DEF Confirm, Goto, PCs, TypeOK
  <2> QED
    BY <1>5, <2>1 DEF Confirm, TypeOK, PCs, rowVars
<1>6. CASE FetchPage(c)
  <2>1. pc' \in [Cleaners \cup Subjects -> PCs]
    BY <1>2, <1>6 DEF FetchPage, Goto, PCs
  <2>2. listed' \in [Cleaners -> Seq(Users \X Nat)]
    BY <1>6, PageTypes
  <2> QED
    BY <1>6, <2>1, <2>2 DEF FetchPage, TypeOK, PCs, rowVars
<1>7. CASE DeleteUser(c)
  <2>1. pc' \in [Cleaners \cup Subjects -> PCs]
    BY <1>2, <1>7 DEF DeleteUser, Goto, PCs
  <2>2. /\ present' \subseteq Users /\ deletedAt' \in [Users -> Nat]
        /\ logins' \in [Users -> SUBSET LoginData] /\ UNCHANGED <<email, tokens>>
    BY <1>7, ListTypes, RemoveRowTypes DEF DeleteUser
  <2> QED
    BY <1>7, <2>1, <2>2 DEF DeleteUser, TypeOK, PCs, runVars
<1>8. CASE AuditRemoval(c)
  <2>1. pc' \in [Cleaners \cup Subjects -> PCs]
    BY <1>2, <1>8 DEF AuditRemoval, Goto, PCs
  <2>2. audits' \subseteq Cleaners \X Nat \X Users
    BY <1>1, <1>8, EntryTypes DEF AuditRemoval, PlaceInv
  <2>3. done' \in [Cleaners -> Nat] /\ succeeded' \in [Cleaners -> Nat]
    BY <1>1, <1>8 DEF AuditRemoval
  <2> QED
    BY <1>8, <2>1, <2>2, <2>3 DEF AuditRemoval, TypeOK, PCs, rowVars
<1>9. CASE RemovalFails(c)
  <2>1. pc' \in [Cleaners \cup Subjects -> PCs]
    BY <1>2, <1>9 DEF RemovalFails, Goto, PCs
  <2>2. NextUser(c) \in Users
    BY <1>9, ListTypes DEF RemovalFails
  <2>3. done' \in [Cleaners -> Nat] /\ failed' \in [Cleaners -> SUBSET Users]
    BY <1>1, <1>9, <2>2 DEF RemovalFails
  <2>4. /\ present' \subseteq Users /\ deletedAt' \in [Users -> Nat]
        /\ logins' \in [Users -> SUBSET LoginData] /\ UNCHANGED <<email, tokens>>
        /\ audits' \subseteq Cleaners \X Nat \X Users
    <3>1. CASE UNCHANGED <<rowVars, audits>>
      BY <3>1, <1>1 DEF TypeOK, rowVars
    <3>2. CASE RemoveRow(NextUser(c)) /\ UNCHANGED audits
      BY <3>2, <1>1, <2>2, RemoveRowTypes
    <3>3. CASE audits' = audits \cup {Entry(c)} /\ UNCHANGED rowVars
      <4>1. Entry(c) \in Cleaners \X Nat \X Users
        BY <1>9, EntryTypes DEF RemovalFails
      <4> QED
        BY <3>3, <4>1, <1>1 DEF TypeOK, rowVars
    <3> QED
      BY <1>9, <3>1, <3>2, <3>3 DEF RemovalFails
  <2> QED
    BY <1>3, <1>9, <2>1, <2>3, <2>4 DEF RemovalFails, TypeOK, PCs
<1>10. CASE StopCleanup(c)
  <2>1. pc' \in [Cleaners \cup Subjects -> PCs]
    BY <1>2, <1>10 DEF StopCleanup, Goto, PCs
  <2> QED
    BY <1>3, <1>10, <2>1 DEF StopCleanup, TypeOK, PCs, rowVars, runVars
<1> QED
  BY <1>4, <1>5, <1>6, <1>7, <1>8, <1>9, <1>10 DEF Cleanup, Step

(***************************************************************************)
(* What a step leaves alone.                                               *)
(***************************************************************************)
\* No request touches a run of the script, a row's existence or the audits.
LEMMA ElsewhereFrame ==
  ASSUME TypeOK, Elsewhere
  PROVE  /\ \A c \in Cleaners : pc'[c] = pc[c]
         /\ UNCHANGED <<present, audits, runVars>>
         /\ now <= now'
<1>1. ASSUME NEW c \in Cleaners PROVE pc'[c] = pc[c]
  <2>1. c \notin Subjects
    BY LifecycleAssumption
  <2> QED
    BY <2>1 DEF Elsewhere, Tick, SoftDelete, BeginRestore, Restore, BeginErase, Erase, Refuse,
       BeginRequest, EndRequest, RowGone, Goto, Subjects, TypeOK
<1>2. UNCHANGED <<present, audits, runVars>>
  BY DEF Elsewhere, Tick, SoftDelete, BeginRestore, Restore, BeginErase, Erase, Refuse,
     BeginRequest, EndRequest, RowGone, rowVars
<1>3. now <= now'
  BY DEF Elsewhere, Tick, SoftDelete, BeginRestore, Restore, BeginErase, Erase, Refuse,
     BeginRequest, EndRequest, RowGone, TypeOK
<1> QED
  BY <1>1, <1>2, <1>3

\* A run moves by itself and writes its own report; it removes the user it is
\* at, and its entry is that of a removal it has just made.
LEMMA CleanupFrame ==
  ASSUME TypeOK, NEW c \in Cleaners, PlaceInv(c), Cleanup(c)
  PROVE  /\ \A a \in (Cleaners \cup Subjects) \ {c} : pc'[a] = pc[a]
         /\ \A q \in Cleaners \ {c} :
              /\ started'[q] = started[q] /\ listed'[q] = listed[q] /\ done'[q] = done[q]
              /\ succeeded'[q] = succeeded[q] /\ failed'[q] = failed[q]
         /\ present' \subseteq present
         /\ audits \subseteq audits'
         /\ \A q \in Cleaners : failed[q] \subseteq failed'[q]
         /\ \A u \in present \ present' :
              pc[c] = "delete" /\ HasNext(c) /\ u = NextUser(c)
         /\ audits' # audits =>
              audits' = audits \cup {Entry(c)} /\ pc[c] = "audit" /\ done'[c] = done[c] + 1
         /\ UNCHANGED <<now, email, tokens, address, raced>>
         /\ \A u \in Users : logins'[u] \subseteq logins[u]
<1>1. \A a \in (Cleaners \cup Subjects) \ {c} : pc'[a] = pc[a]
  BY DEF Cleanup, Step, Preview, Confirm, Decline, Count, FetchPage, DeleteUser, AuditRemoval,
     FinishCleanup, RemovalFails, StopCleanup, Goto, TypeOK
<1>2. ASSUME NEW q \in Cleaners \ {c}
      PROVE  /\ started'[q] = started[q] /\ done'[q] = done[q]
             /\ succeeded'[q] = succeeded[q] /\ failed'[q] = failed[q]
  BY <1>2 DEF Cleanup, Step, Preview, Confirm, Decline, Count, FetchPage, DeleteUser,
     AuditRemoval, FinishCleanup, RemovalFails, StopCleanup, runVars, TypeOK
<1>3. ASSUME NEW q \in Cleaners \ {c} PROVE listed'[q] = listed[q]
  <2>1. CASE FetchPage(c)
    BY <2>1, PageTypes
  <2> QED
    BY <2>1 DEF Cleanup, Step, Preview, Confirm, Decline, Count, DeleteUser,
       AuditRemoval, FinishCleanup, RemovalFails, StopCleanup, runVars
<1>4. \A q \in Cleaners : failed[q] \subseteq failed'[q]
  <2>1. failed' = failed \/ failed' = [failed EXCEPT ![c] = @ \cup {NextUser(c)}]
    BY DEF Cleanup, Step, Preview, Confirm, Decline, Count, FetchPage, DeleteUser, AuditRemoval,
       FinishCleanup, RemovalFails, StopCleanup, runVars
  <2>2. \A q \in Cleaners : failed'[q] = failed[q] \/ failed'[q] = failed[q] \cup {NextUser(c)}
    BY <2>1 DEF TypeOK
  <2> QED
    BY <2>2
<1>5. \/ UNCHANGED rowVars
      \/ pc[c] = "delete" /\ HasNext(c) /\ RemoveRow(NextUser(c))
  BY DEF Cleanup, Step, Preview, Confirm, Decline, Count, FetchPage, DeleteUser, AuditRemoval,
     FinishCleanup, RemovalFails, StopCleanup
<1>6. /\ present' \subseteq present
      /\ \A u \in present \ present' : pc[c] = "delete" /\ HasNext(c) /\ u = NextUser(c)
      /\ UNCHANGED <<email, tokens>>
  BY <1>5 DEF rowVars, RemoveRow
<1>7. \A u \in Users : logins'[u] \subseteq logins[u]
  BY <1>5 DEF rowVars, RemoveRow, TypeOK
<1>8. \/ UNCHANGED audits
      \/ audits' = audits \cup {Entry(c)} /\ pc[c] = "audit" /\ done'[c] = done[c] + 1
  BY DEF Cleanup, Step, Preview, Confirm, Decline, Count, FetchPage, DeleteUser, AuditRemoval,
     FinishCleanup, RemovalFails, StopCleanup, TypeOK
<1>9. UNCHANGED <<now, address, raced>>
  BY DEF Cleanup, Step, Preview, Confirm, Decline, Count, FetchPage, DeleteUser, AuditRemoval,
     FinishCleanup, RemovalFails, StopCleanup
<1> QED
  BY <1>1, <1>2, <1>3, <1>4, <1>6, <1>7, <1>8, <1>9

(***************************************************************************)
(* The invariant is kept.                                                  *)
(***************************************************************************)
LEMMA ElsewhereKeepsRuns ==
  ASSUME TypeOK, Elsewhere, NEW c \in Cleaners, CleanerInv(c)
  PROVE  CleanerInv(c)'
<1>1. /\ pc'[c] = pc[c] /\ UNCHANGED <<present, audits, runVars>> /\ now <= now'
      /\ now' \in Nat /\ now \in Nat /\ started[c] \in Nat
  BY ElsewhereFrame, ElsewhereTypes DEF TypeOK
<1>2. PlaceInv(c)'
  BY <1>1 DEF CleanerInv, PlaceInv, HasNext, NextUser, runVars
<1>3. ListInv(c)'
  BY <1>1 DEF CleanerInv, ListInv, runVars
<1>4. AuditInv(c)'
  BY <1>1 DEF CleanerInv, AuditInv, Processed, AuditsOf, runVars
<1> QED
  BY <1>2, <1>3, <1>4 DEF CleanerInv

LEMMA OthersKeepRuns ==
  ASSUME TypeOK, NEW c \in Cleaners, PlaceInv(c), Cleanup(c),
         NEW q \in Cleaners, q # c, CleanerInv(q)
  PROVE  CleanerInv(q)'
<1>1. /\ pc'[q] = pc[q] /\ started'[q] = started[q] /\ listed'[q] = listed[q]
      /\ done'[q] = done[q] /\ succeeded'[q] = succeeded[q] /\ failed'[q] = failed[q]
      /\ present' \subseteq present /\ audits \subseteq audits' /\ now' = now
      /\ audits' # audits => audits' = audits \cup {Entry(c)}
  BY CleanupFrame
<1>2. Entry(c)[1] = c
  BY DEF Entry
<1>3. AuditsOf(q)' = AuditsOf(q)
  BY <1>1, <1>2 DEF AuditsOf
<1>4. PlaceInv(q)'
  BY <1>1 DEF CleanerInv, PlaceInv, HasNext, NextUser
<1>5. ListInv(q)'
  BY <1>1 DEF CleanerInv, ListInv
<1>6. AuditInv(q)'
  BY <1>1, <1>3 DEF CleanerInv, AuditInv, Processed
<1> QED
  BY <1>4, <1>5, <1>6 DEF CleanerInv

LEMMA OwnPlace ==
  ASSUME TypeOK, NEW c \in Cleaners, CleanerInv(c), Cleanup(c)
  PROVE  PlaceInv(c)'
<1>1. /\ Len(listed[c]) \in Nat /\ done[c] \in Nat
      /\ PlaceInv(c)
  BY ListTypes DEF CleanerInv
<1>2. CASE Preview(c) \/ Confirm(c) \/ Decline(c) \/ Count(c)
  <2>1. /\ UNCHANGED <<listed, done>>
        /\ pc[c] \in {"new", "confirm", "count"}
        /\ pc'[c] \in {"done", "confirm", "count", "list"}
        /\ c \in DryRuns => pc'[c] = "done"
        /\ pc'[c] \in {"confirm", "count"} => pc[c] \in {"new", "confirm"}
    BY <1>1, <1>2 DEF Preview, Confirm, Decline, Count, Goto, TypeOK, runVars, PlaceInv
  <2> QED
    BY <1>1, <2>1 DEF PlaceInv
<1>3. CASE FetchPage(c)
  <2>1. /\ pc[c] = "list" /\ pc'[c] \in {"list", "delete"} /\ done' = done
        /\ Len(listed[c]) <= Len(listed'[c])
    BY <1>3, PageTypes DEF FetchPage, Goto, TypeOK
  <2>2. Len(listed'[c]) \in Nat
    BY <1>3, PageTypes
  <2> QED
    BY <1>1, <2>1, <2>2 DEF PlaceInv
<1>4. CASE DeleteUser(c)
  <2>1. /\ pc[c] = "delete" /\ pc'[c] = "audit" /\ UNCHANGED <<listed, done>>
        /\ HasNext(c) /\ NextUser(c) \notin present'
    BY <1>4 DEF DeleteUser, Goto, TypeOK, runVars, RemoveRow
  <2> QED
    BY <1>1, <2>1 DEF PlaceInv, HasNext, NextUser
<1>5. CASE AuditRemoval(c) \/ RemovalFails(c)
  <2>1. /\ pc[c] \in {"delete", "audit"} /\ pc'[c] = "delete" /\ UNCHANGED listed
        /\ done'[c] = done[c] + 1 /\ HasNext(c)
    BY <1>1, <1>5 DEF AuditRemoval, RemovalFails, Goto, TypeOK, PlaceInv
  <2> QED
    BY <1>1, <2>1 DEF PlaceInv, HasNext
<1>6. CASE FinishCleanup(c)
  <2>1. /\ pc[c] = "delete" /\ pc'[c] = "done" /\ UNCHANGED <<listed, done>> /\ ~HasNext(c)
    BY <1>6 DEF FinishCleanup, Goto, TypeOK, runVars
  <2> QED
    BY <1>1, <2>1 DEF PlaceInv, HasNext
<1>7. CASE StopCleanup(c)
  <2>1. /\ pc[c] \notin {"new", "done"} /\ pc'[c] = "stopped" /\ UNCHANGED <<listed, done>>
    BY <1>7 DEF StopCleanup, Goto, TypeOK, runVars
  <2> QED
    BY <1>1, <2>1 DEF PlaceInv
<1> QED
  BY <1>2, <1>3, <1>4, <1>5, <1>6, <1>7 DEF Cleanup, Step

\* A page lists users due on the day the run began to delete.
LEMMA OwnList ==
  ASSUME TypeOK, NEW c \in Cleaners, CleanerInv(c), Cleanup(c)
  PROVE  ListInv(c)'
<1>1. now \in Nat /\ started[c] \in Nat /\ Len(listed[c]) \in Nat /\ now' = now
  BY ListTypes, CleanupFrame DEF TypeOK, CleanerInv
<1>2. CASE Confirm(c)
  <2>1. started'[c] = now /\ listed' = listed /\ listed[c] = <<>>
    BY <1>2 DEF Confirm, TypeOK, CleanerInv, PlaceInv
  <2> QED
    BY <1>1, <2>1 DEF ListInv
<1>3. CASE FetchPage(c)
  <2>1. started' = started
    BY <1>3 DEF FetchPage
  <2>2. ASSUME NEW i \in 1 .. Len(listed'[c])
        PROVE  listed'[c][i][2] + Retention <= started[c]
    <3>1. CASE i \in 1 .. Len(listed[c]) /\ listed'[c][i] = listed[c][i]
      BY <3>1 DEF CleanerInv, ListInv
    <3>2. CASE \E u \in Due(c) : listed'[c][i] = <<u, deletedAt[u]>>
      BY <3>2 DEF Due, DueOn
    <3> QED
      BY <1>3, <3>1, <3>2, PageTypes
  <2> QED
    BY <1>1, <2>1, <2>2 DEF CleanerInv, ListInv
<1>4. CASE ~Confirm(c) /\ ~FetchPage(c)
  <2>1. UNCHANGED <<started, listed>>
    BY <1>4 DEF Cleanup, Step, Preview, Decline, Count, DeleteUser, AuditRemoval,
       FinishCleanup, RemovalFails, StopCleanup, runVars
  <2> QED
    BY <1>1, <2>1 DEF CleanerInv, ListInv
<1> QED
  BY <1>2, <1>3, <1>4

\* The entry of a removal is new, so that it counts.
LEMMA OwnAudits ==
  ASSUME TypeOK, IsFiniteSet(audits), NEW c \in Cleaners, CleanerInv(c), Cleanup(c)
  PROVE  AuditInv(c)'
<1>1. /\ done[c] \in Nat /\ succeeded[c] \in Nat
      /\ audits \subseteq Cleaners \X Nat \X Users
      /\ AuditInv(c) /\ PlaceInv(c)
  BY ListTypes DEF TypeOK, CleanerInv
<1>2. IsFiniteSet(AuditsOf(c)) /\ Cardinality(AuditsOf(c)) \in Nat
  BY FS_Subset, FS_CardinalityType DEF AuditsOf
<1>3. Entry(c)[1] = c /\ Entry(c)[2] = done[c] + 1
  BY DEF Entry
<1>4. Entry(c) \notin audits
  BY <1>1, <1>3 DEF AuditInv, AuditsOf
<1>5. Cardinality(AuditsOf(c) \cup {Entry(c)}) = Cardinality(AuditsOf(c)) + 1
  BY <1>2, <1>4, FS_AddElement DEF AuditsOf
<1>6. CASE AuditRemoval(c)
  <2>1. /\ audits' = audits \cup {Entry(c)}
        /\ done'[c] = done[c] + 1 /\ succeeded'[c] = succeeded[c] + 1
        /\ UNCHANGED <<listed, failed>>
    BY <1>6 DEF AuditRemoval, TypeOK
  <2>2. AuditsOf(c)' = AuditsOf(c) \cup {Entry(c)}
    BY <1>3, <2>1 DEF AuditsOf
  <2>3. ASSUME NEW i \in 1 .. done'[c] PROVE Processed(c, i)'
    <3>1. CASE i \in 1 .. done[c]
      BY <1>1, <2>1, <3>1 DEF AuditInv, Processed
    <3>2. CASE i = done[c] + 1
      BY <2>1, <3>2 DEF Processed, Entry, NextUser
    <3> QED
      BY <1>1, <2>1, <3>1, <3>2
  <2>4. \A a \in AuditsOf(c)' : a[2] <= done'[c]
    <3>1. ASSUME NEW a \in AuditsOf(c) PROVE a[2] <= done'[c]
      BY <1>1, <2>1, <3>1 DEF AuditInv, AuditsOf
    <3> QED
      BY <1>1, <1>3, <2>1, <2>2, <3>1
  <2>5. succeeded'[c] <= Cardinality(AuditsOf(c)')
    BY <1>1, <1>2, <1>5, <2>1, <2>2 DEF AuditInv
  <2> QED
    BY <2>3, <2>4, <2>5 DEF AuditInv
<1>7. CASE RemovalFails(c)
  <2>1. /\ audits' = audits \/ audits' = audits \cup {Entry(c)}
        /\ done'[c] = done[c] + 1 /\ succeeded' = succeeded
        /\ failed'[c] = failed[c] \cup {NextUser(c)}
        /\ UNCHANGED listed
    BY <1>7 DEF RemovalFails, TypeOK
  <2>2. AuditsOf(c)' = AuditsOf(c) \/ AuditsOf(c)' = AuditsOf(c) \cup {Entry(c)}
    BY <1>3, <2>1 DEF AuditsOf
  <2>3. ASSUME NEW i \in 1 .. done'[c] PROVE Processed(c, i)'
    <3>1. CASE i \in 1 .. done[c]
      BY <1>1, <2>1, <3>1 DEF AuditInv, Processed
    <3>2. CASE i = done[c] + 1
      BY <2>1, <3>2 DEF Processed, NextUser
    <3> QED
      BY <1>1, <2>1, <3>1, <3>2
  <2>4. \A a \in AuditsOf(c)' : a[2] <= done'[c]
    <3>1. ASSUME NEW a \in AuditsOf(c) PROVE a[2] <= done'[c]
      BY <1>1, <2>1, <3>1 DEF AuditInv, AuditsOf
    <3> QED
      BY <1>1, <1>3, <2>1, <2>2, <3>1
  <2>5. succeeded'[c] <= Cardinality(AuditsOf(c)')
    BY <1>1, <1>2, <1>5, <2>1, <2>2 DEF AuditInv
  <2> QED
    BY <2>3, <2>4, <2>5 DEF AuditInv
<1>8. CASE FetchPage(c)
  <2>1. /\ UNCHANGED <<audits, done, succeeded, failed>> /\ done[c] = 0
    BY <1>1, <1>8 DEF FetchPage, PlaceInv
  <2> QED
    BY <1>1, <2>1 DEF AuditInv, AuditsOf
<1>9. CASE ~AuditRemoval(c) /\ ~RemovalFails(c) /\ ~FetchPage(c)
  <2>1. UNCHANGED <<audits, listed, done, succeeded, failed>>
    BY <1>9 DEF Cleanup, Step, Preview, Confirm, Decline, Count, DeleteUser, FinishCleanup,
       StopCleanup, runVars
  <2> QED
    BY <1>1, <2>1 DEF AuditInv, AuditsOf, Processed
<1> QED
  BY <1>6, <1>7, <1>8, <1>9

(***************************************************************************)
(* The removals and their entries.                                         *)
(***************************************************************************)
\* Why a user without a row is accounted for.
Accounted(u) ==
  \/ \E a \in audits : a[3] = u
  \/ \E c \in Cleaners : u \in failed[c]
  \/ \E c \in Cleaners : pc[c] \in {"audit", "stopped"} /\ HasNext(c) /\ NextUser(c) = u

\* A run that is at a user or has stopped there leaves it with its entry or as
\* a failure.
LEMMA AccountedKept ==
  ASSUME TypeOK, NEW c \in Cleaners, PlaceInv(c), Cleanup(c),
         NEW u \in Users, Accounted(u)
  PROVE  Accounted(u)'
<1>1. CASE \E a \in audits : a[3] = u
  BY <1>1, CleanupFrame DEF Accounted
<1>2. CASE \E q \in Cleaners : u \in failed[q]
  BY <1>2, CleanupFrame DEF Accounted
<1>3. ASSUME NEW q \in Cleaners, q # c,
             pc[q] \in {"audit", "stopped"}, HasNext(q), NextUser(q) = u
      PROVE  Accounted(u)'
  <2>1. pc'[q] = pc[q] /\ listed'[q] = listed[q] /\ done'[q] = done[q]
    BY <1>3, CleanupFrame
  <2>2. HasNext(q)' /\ NextUser(q)' = u
    BY <1>3, <2>1 DEF HasNext, NextUser
  <2> QED
    BY <1>3, <2>1, <2>2 DEF Accounted
<1>4. ASSUME pc[c] \in {"audit", "stopped"}, HasNext(c), NextUser(c) = u
      PROVE  Accounted(u)'
  <2>1. CASE AuditRemoval(c)
    <3>1. Entry(c) \in audits' /\ Entry(c)[3] = u
      BY <1>4, <2>1 DEF AuditRemoval, Entry
    <3> QED
      BY <3>1 DEF Accounted
  <2>2. CASE RemovalFails(c)
    <3>1. u \in failed'[c]
      BY <1>4, <2>2 DEF RemovalFails, TypeOK
    <3> QED
      BY <3>1 DEF Accounted
  <2>3. CASE StopCleanup(c)
    <3>1. pc'[c] = "stopped" /\ UNCHANGED <<listed, done>>
      BY <2>3 DEF StopCleanup, Goto, TypeOK, runVars
    <3>2. HasNext(c)' /\ NextUser(c)' = u
      BY <1>4, <3>1 DEF HasNext, NextUser
    <3> QED
      BY <3>1, <3>2 DEF Accounted
  <2> QED
    BY <1>4, <2>1, <2>2, <2>3 DEF Cleanup, Step, Preview, Confirm, Decline, Count, FetchPage,
       DeleteUser, FinishCleanup
<1> QED
  BY <1>1, <1>2, <1>3, <1>4 DEF Accounted

\* The run that removes a user is about to write the entry, or has counted a
\* failure.
LEMMA RemovedAccounted ==
  ASSUME TypeOK, NEW c \in Cleaners, PlaceInv(c), Cleanup(c), NEW u \in present \ present'
  PROVE  Accounted(u)'
<1>1. pc[c] = "delete" /\ HasNext(c) /\ u = NextUser(c)
  BY CleanupFrame
<1>2. CASE DeleteUser(c)
  <2>1. pc'[c] = "audit" /\ UNCHANGED <<listed, done>>
    BY <1>2 DEF DeleteUser, Goto, TypeOK, runVars
  <2>2. HasNext(c)' /\ NextUser(c)' = u
    BY <1>1, <2>1 DEF HasNext, NextUser
  <2> QED
    BY <2>1, <2>2 DEF Accounted
<1>3. CASE RemovalFails(c)
  <2>1. u \in failed'[c]
    BY <1>1, <1>3 DEF RemovalFails, TypeOK
  <2> QED
    BY <2>1 DEF Accounted
<1> QED
  BY <1>1, <1>2, <1>3 DEF Cleanup, Step, Preview, Confirm, Decline, Count, FetchPage,
     AuditRemoval, FinishCleanup, StopCleanup, rowVars

LEMMA RunTellsRemovals ==
  ASSUME TypeOK, AuditTellsRemovals, NEW c \in Cleaners, PlaceInv(c), Cleanup(c)
  PROVE  AuditTellsRemovals'
<1>1. ASSUME NEW u \in Users \ present' PROVE Accounted(u)'
  <2>1. CASE u \in present
    BY <2>1, <1>1, RemovedAccounted
  <2>2. CASE u \notin present
    BY <2>2, AccountedKept DEF AuditTellsRemovals, Accounted
  <2> QED
    BY <2>1, <2>2
<1>2. ASSUME NEW a \in audits' PROVE a[3] \notin present'
  <2>1. CASE a \in audits
    BY <2>1, CleanupFrame DEF AuditTellsRemovals
  <2>2. CASE a \notin audits
    <3>1. a = Entry(c) /\ pc[c] = "audit"
      BY <1>2, <2>2, CleanupFrame
    <3>2. NextUser(c) \notin present
      BY <3>1 DEF PlaceInv
    <3> QED
      BY <3>1, <3>2, CleanupFrame DEF Entry
  <2> QED
    BY <2>1, <2>2
<1> QED
  BY <1>1, <1>2 DEF AuditTellsRemovals, Accounted

(***************************************************************************)
(* The erasure.                                                            *)
(***************************************************************************)
\* What ErasureIsComplete says of one request.
ErasedInv(e) ==
  LET u == UserOf[e]
  IN  pc[e] = "erased" /\ u \in present /\ u \notin raced =>
        /\ email[u] = "anonymous" /\ logins[u] = {}
        /\ address[e] \notin tokens[u]

LEMMA RunKeepsErasure ==
  ASSUME TypeOK, ErasureIsComplete, NEW c \in Cleaners, PlaceInv(c), Cleanup(c)
  PROVE  ErasureIsComplete' /\ \A e \in Erasers : EraserInv(e) => EraserInv(e)'
<1>1. ASSUME NEW e \in Erasers PROVE ErasedInv(e)' /\ (EraserInv(e) => EraserInv(e)')
  <2>1. e # c /\ UserOf[e] \in Users
    BY LifecycleAssumption DEF Subjects
  <2>2. /\ pc'[e] = pc[e] /\ present' \subseteq present
        /\ UNCHANGED <<email, tokens, address, raced>>
        /\ \A u \in Users : logins'[u] \subseteq logins[u]
    BY <2>1, CleanupFrame DEF Subjects
  <2>3. ErasedInv(e)
    BY DEF ErasureIsComplete, ErasedInv
  <2> QED
    BY <2>1, <2>2, <2>3 DEF ErasedInv, EraserInv
<1> QED
  BY <1>1 DEF ErasureIsComplete, ErasedInv

LEMMA ElsewhereKeepsErasure ==
  ASSUME TypeOK, ErasureIsComplete, Elsewhere, \A e \in Erasers : EraserInv(e)
  PROVE  ErasureIsComplete' /\ \A e \in Erasers : EraserInv(e)'
<1> SUFFICES ASSUME NEW e \in Erasers PROVE ErasedInv(e)' /\ EraserInv(e)'
  BY DEF ErasureIsComplete, ErasedInv
<1> DEFINE u == UserOf[e]
<1>1. /\ u \in Users /\ e \in Subjects /\ e \notin Restorers /\ e \notin Requests
      /\ ErasedInv(e) /\ EraserInv(e)
      /\ pc \in [Cleaners \cup Subjects -> PCs]
      /\ address \in [Erasers -> {"first", "second", "anonymous", None}]
  BY LifecycleAssumption DEF Subjects, ErasureIsComplete, ErasedInv, TypeOK, PCs
<1>2. CASE Tick
  BY <1>1, <1>2 DEF Tick, rowVars, ErasedInv, EraserInv
<1>3. ASSUME NEW v \in Users, SoftDelete(v) PROVE ErasedInv(e)' /\ EraserInv(e)'
  BY <1>1, <1>3 DEF SoftDelete, ErasedInv, EraserInv
<1>4. ASSUME NEW a \in Subjects, a # e, BeginRestore(a) \/ Refuse(a) \/ BeginRequest(a) \/ RowGone(a)
      PROVE  ErasedInv(e)' /\ EraserInv(e)'
  <2>1. pc'[e] = pc[e] /\ UNCHANGED <<rowVars, address, raced>>
    BY <1>1, <1>4 DEF BeginRestore, Refuse, BeginRequest, RowGone, Goto
  <2> QED
    BY <1>1, <2>1 DEF ErasedInv, EraserInv, rowVars
<1>5. CASE Refuse(e) \/ RowGone(e)
  BY <1>1, <1>5 DEF Refuse, RowGone, Goto, ErasedInv, EraserInv
<1>6. ASSUME NEW a \in Restorers, Restore(a) PROVE ErasedInv(e)' /\ EraserInv(e)'
  <2>1. pc'[e] = pc[e] /\ UNCHANGED <<present, email, logins, tokens, address, raced>>
    BY <1>1, <1>6 DEF Restore, Goto
  <2> QED
    BY <1>1, <2>1 DEF ErasedInv, EraserInv
<1>7. ASSUME NEW a \in Erasers, BeginErase(a) PROVE ErasedInv(e)' /\ EraserInv(e)'
  <2>1. CASE a = e
    <3>1. pc'[e] = "anonymize" /\ address'[e] = email[u] /\ email[u] # None
      BY <1>1, <1>7, <2>1 DEF BeginErase, Goto, TypeOK, None
    <3> QED
      BY <3>1 DEF ErasedInv, EraserInv
  <2>2. CASE a # e
    <3>1. pc'[e] = pc[e] /\ address'[e] = address[e] /\ UNCHANGED <<rowVars, raced>>
      BY <1>1, <1>7, <2>2 DEF BeginErase, Goto
    <3> QED
      BY <1>1, <3>1 DEF ErasedInv, EraserInv, rowVars
  <2> QED
    BY <2>1, <2>2
<1>8. ASSUME NEW a \in Erasers, Erase(a) PROVE ErasedInv(e)' /\ EraserInv(e)'
  <2>1. /\ UNCHANGED <<present, address, raced>>
        /\ pc'[e] = IF a = e THEN "erased" ELSE pc[e]
        /\ a = e => pc[e] = "anonymize"
    BY <1>1, <1>8 DEF Erase, Goto
  <2>2. EraserInv(e)'
    BY <1>1, <2>1 DEF EraserInv
  <2>3. CASE UserOf[a] = u
    <3>1. email'[u] = "anonymous" /\ logins'[u] = {} /\ tokens'[u] = tokens[u] \ {address[a]}
      BY <1>1, <1>8, <2>3 DEF Erase, TypeOK
    <3> QED
      BY <1>1, <2>1, <2>2, <3>1 DEF ErasedInv
  <2>4. CASE UserOf[a] # u
    <3>1. email'[u] = email[u] /\ logins'[u] = logins[u] /\ tokens'[u] = tokens[u] /\ a # e
      BY <1>1, <1>8, <2>4 DEF Erase, TypeOK
    <3> QED
      BY <1>1, <2>1, <2>2, <3>1 DEF ErasedInv
  <2> QED
    BY <2>3, <2>4
<1>9. ASSUME NEW a \in Requests, EndRequest(a) PROVE ErasedInv(e)' /\ EraserInv(e)'
  <2>1. /\ UNCHANGED <<present, logins, address>>
        /\ pc'[e] = pc[e]
    BY <1>1, <1>9 DEF EndRequest, Goto
  <2>2. EraserInv(e)'
    BY <1>1, <2>1 DEF EraserInv
  <2>3. CASE UserOf[a] = u /\ pc[e] = "erased"
    <3>1. BeingErased(u)
      BY <1>1, <2>3 DEF BeingErased, EraserInv
    <3>2. u \in raced'
      BY <1>9, <2>3, <3>1 DEF EndRequest
    <3> QED
      BY <2>2, <3>2 DEF ErasedInv
  <2>4. CASE UserOf[a] # u
    <3>1. email'[u] = email[u] /\ tokens'[u] = tokens[u] /\ raced \subseteq raced'
      BY <1>1, <1>9, <2>4 DEF EndRequest, TypeOK
    <3> QED
      BY <1>1, <2>1, <2>2, <3>1 DEF ErasedInv
  <2>5. CASE pc[e] # "erased"
    BY <2>1, <2>2, <2>5 DEF ErasedInv
  <2> QED
    BY <2>3, <2>4, <2>5
<1>10. Erasers \subseteq Subjects /\ Restorers \subseteq Subjects /\ Requests \subseteq Subjects
  BY DEF Subjects
<1>11. e \notin Restorers /\ e \notin Requests
  BY <1>1
<1> HIDE DEF u
<1> QED
  BY <1>2, <1>3, <1>4, <1>5, <1>6, <1>7, <1>8, <1>9, <1>10, <1>11 DEF Elsewhere

(***************************************************************************)
(* Theorems.                                                               *)
(***************************************************************************)
LEMMA InvInit == Init => Inv
<1> SUFFICES ASSUME Init PROVE Inv
  OBVIOUS
<1>1. TypeOK
  <2>1. /\ Retention \in Nat /\ LongDeleted \subseteq Users /\ MaxFaults \in Nat
    BY LifecycleAssumption
  <2>2. <<>> \in Seq(Users \X Nat)
    BY EmptySeq
  <2> QED
    BY <2>1, <2>2 DEF Init, TypeOK, LoginData, Never
<1>2. IsFiniteSet(audits) /\ Cardinality({}) = 0
  BY FS_EmptySet DEF Init
<1>3. ASSUME NEW c \in Cleaners PROVE CleanerInv(c)
  <2>1. /\ pc[c] = "new" /\ listed[c] = <<>> /\ Len(listed[c]) = 0 /\ done[c] = 0
        /\ started[c] = 0 /\ succeeded[c] = 0 /\ audits = {} /\ now \in Nat
        /\ AuditsOf(c) = {}
    BY <1>1 DEF Init, TypeOK, AuditsOf
  <2> QED
    BY <1>2, <2>1 DEF CleanerInv, PlaceInv, ListInv, AuditInv
<1>4. \A e \in Erasers : EraserInv(e) /\ pc[e] = "new"
  BY DEF Init, EraserInv, Subjects
<1>5. AuditTellsRemovals /\ ErasureIsComplete
  BY <1>4 DEF Init, AuditTellsRemovals, ErasureIsComplete
<1> QED
  BY <1>1, <1>2, <1>3, <1>4, <1>5 DEF Inv

LEMMA InvStep == Inv /\ [Next]_vars => Inv'
<1> SUFFICES ASSUME Inv, [Next]_vars PROVE Inv'
  OBVIOUS
<1>1. CASE UNCHANGED vars
  <2>1. /\ TypeOK' /\ IsFiniteSet(audits)'
        /\ AuditTellsRemovals' /\ ErasureIsComplete'
    BY <1>1 DEF Inv, TypeOK, vars, rowVars, runVars, AuditTellsRemovals, ErasureIsComplete,
       HasNext, NextUser
  <2>2. \A c \in Cleaners : CleanerInv(c)'
    BY <1>1 DEF Inv, vars, rowVars, runVars, CleanerInv, PlaceInv, ListInv, AuditInv, AuditsOf,
       Processed, HasNext, NextUser
  <2>3. \A e \in Erasers : EraserInv(e)'
    BY <1>1 DEF Inv, vars, EraserInv
  <2> QED
    BY <2>1, <2>2, <2>3 DEF Inv
<1>2. CASE Elsewhere
  <2>1. TypeOK' /\ \A c \in Cleaners : CleanerInv(c)'
    BY <1>2, ElsewhereTypes, ElsewhereKeepsRuns DEF Inv
  <2>2. ErasureIsComplete' /\ \A e \in Erasers : EraserInv(e)'
    BY <1>2, ElsewhereKeepsErasure DEF Inv
  <2>3. IsFiniteSet(audits)' /\ AuditTellsRemovals'
    BY <1>2, ElsewhereFrame DEF Inv, AuditTellsRemovals, HasNext, NextUser, runVars
  <2> QED
    BY <2>1, <2>2, <2>3 DEF Inv
<1>3. ASSUME NEW c \in Cleaners, Cleanup(c) PROVE Inv'
  <2>1. TypeOK /\ PlaceInv(c) /\ CleanerInv(c)
    BY DEF Inv, CleanerInv
  <2>2. TypeOK'
    BY <1>3, <2>1, CleanupTypes
  <2>3. IsFiniteSet(audits)'
    <3>1. audits' = audits \/ audits' = audits \cup {Entry(c)}
      BY <1>3, <2>1, CleanupFrame
    <3> QED
      BY <3>1, FS_AddElement DEF Inv
  <2>4. CleanerInv(c)'
    BY <1>3, <2>1, OwnPlace, OwnList, OwnAudits DEF Inv, CleanerInv
  <2>5. \A q \in Cleaners \ {c} : CleanerInv(q)'
    BY <1>3, <2>1, OthersKeepRuns DEF Inv
  <2>6. AuditTellsRemovals' /\ ErasureIsComplete' /\ \A e \in Erasers : EraserInv(e)'
    BY <1>3, <2>1, RunTellsRemovals, RunKeepsErasure DEF Inv
  <2> QED
    BY <2>2, <2>3, <2>4, <2>5, <2>6 DEF Inv
<1> QED
  BY <1>1, <1>2, <1>3 DEF Next, Elsewhere

\* The strengthened invariant: what a run has behind it at each label, and the
\* two invariants that are inductive with it.
THEOREM Invariance == Spec => []Inv
  BY InvInit, InvStep, PTL DEF Spec

\* Type correctness: in particular a run's failures are ids of users.
THEOREM Typed == Spec => []TypeOK
<1>1. Inv => TypeOK
  BY DEF Inv
<1> QED
  BY <1>1, Invariance, PTL

\* Whatever runs of the script overlap, fail or stop: no row is removed without
\* an entry or a reported failure (but the one a run has stopped at), and no
\* entry is written for a user who is there.
THEOREM RemovalsAreTold == Spec => []AuditTellsRemovals
<1>1. Inv => AuditTellsRemovals
  BY DEF Inv
<1> QED
  BY <1>1, Invariance, PTL

\* The report of a run accounts for every user it listed, and its count of
\* successes never exceeds the entries it wrote.
THEOREM ReportsAddUp == Spec => []ReportAddsUp
<1>1. Inv => ReportAddsUp
  <2> SUFFICES ASSUME Inv, NEW c \in Cleaners
               PROVE  /\ succeeded[c] <= Cardinality(AuditsOf(c))
                      /\ pc[c] = "done" => \A i \in 1 .. Len(listed[c]) : Processed(c, i)
    BY DEF ReportAddsUp, AuditsOf, Processed
  <2> QED
    BY DEF Inv, CleanerInv, PlaceInv, AuditInv
<1> QED
  BY <1>1, Invariance, PTL

\* What was erased stays erased, whoever restores, deletes or erases again.
THEOREM ErasuresAreComplete == Spec => []ErasureIsComplete
<1>1. Inv => ErasureIsComplete
  BY DEF Inv
<1> QED
  BY <1>1, Invariance, PTL

\* Rows are removed only by a run that is no dry run, and only of users who
\* were due when that run listed them.
THEOREM RemovalsWereDue == Spec => RemovedWasDue
<1> DEFINE WasDue == \A u \in present \ present' :
             \E c \in Cleaners \ DryRuns :
               /\ pc[c] = "delete" /\ HasNext(c) /\ NextUser(c) = u
               /\ LET was == listed[c][done[c] + 1][2]
                  IN  deletedAt[u] = was => was + Retention <= now
<1>1. Inv /\ [Next]_vars => [WasDue]_vars
  <2> SUFFICES ASSUME Inv, Next, NEW u \in present \ present'
               PROVE  \E c \in Cleaners \ DryRuns :
                        /\ pc[c] = "delete" /\ HasNext(c) /\ NextUser(c) = u
                        /\ LET was == listed[c][done[c] + 1][2]
                           IN  deletedAt[u] = was => was + Retention <= now
    OBVIOUS
  <2>1. ~Elsewhere
    BY ElsewhereFrame DEF Inv
  <2>2. PICK c \in Cleaners : Cleanup(c)
    BY <2>1 DEF Next, Elsewhere
  <2>3. TypeOK /\ PlaceInv(c) /\ ListInv(c)
    BY DEF Inv, CleanerInv
  <2>4. pc[c] = "delete" /\ HasNext(c) /\ NextUser(c) = u
    BY <2>2, <2>3, CleanupFrame
  <2>5. c \notin DryRuns
    BY <2>3, <2>4 DEF PlaceInv
  <2>6. done[c] + 1 \in 1 .. Len(listed[c]) /\ listed[c][done[c] + 1][2] \in Nat
    BY <2>3, <2>4, ListTypes
  <2>7. /\ listed[c][done[c] + 1][2] + Retention <= started[c] /\ started[c] <= now
        /\ started[c] \in Nat /\ now \in Nat /\ Retention \in Nat
    BY <2>3, <2>6, LifecycleAssumption DEF ListInv, TypeOK
  <2>8. listed[c][done[c] + 1][2] + Retention <= now
    BY <2>6, <2>7
  <2> QED
    BY <2>4, <2>5, <2>8
<1>2. Spec => [][WasDue]_vars
  BY <1>1, Invariance, PTL DEF Spec
<1> QED
  BY <1>2 DEF RemovedWasDue

(***************************************************************************)
(* Termination: how much a run of the script has still to do at most.      *)
(***************************************************************************)
\* The stage of the run, and what is left of the loop it is in: users to list,
\* or statements to execute, two for each user of the list.
Stage(c) ==
  CASE pc[c] = "new" -> 5
    [] pc[c] = "confirm" -> 4
    [] pc[c] = "count" -> 3
    [] pc[c] = "list" -> 2
    [] pc[c] \in {"delete", "audit"} -> 1
    [] OTHER -> 0
Left(c) ==
  CASE pc[c] = "list" -> Cardinality(Users) - Len(listed[c])
    [] pc[c] = "delete" -> 2 * (Len(listed[c]) - done[c])
    [] pc[c] = "audit" -> 2 * (Len(listed[c]) - done[c]) - 1
    [] OTHER -> 0
Rank(c) == <<Stage(c), Left(c)>>

\* The lexicographic order.
Lower(a, b) == a[1] < b[1] \/ (a[1] = b[1] /\ a[2] < b[2])

Ranked == \A c \in Cleaners : Rank(c) \in Nat \X Nat
Descends ==
  \A c \in Cleaners : /\ Step(c) => Lower(Rank(c)', Rank(c))
                      /\ Rank(c)' # Rank(c) => Lower(Rank(c)', Rank(c))
AlwaysDescends == [][Descends]_vars

\* The rows are listed in any order, so that one may be listed twice and
\* another never; but no run lists more entries than there are users.
ListsFit == \A c \in Cleaners : Len(listed[c]) <= Cardinality(Users)

LEMMA DueFits ==
  ASSUME TypeOK, NEW c \in Cleaners
  PROVE  Cardinality(Due(c)) \in Nat /\ Cardinality(Due(c)) <= Cardinality(Users)
<1>1. Due(c) \subseteq Users /\ IsFiniteSet(Users)
  BY LifecycleAssumption DEF Due, DueOn, TypeOK
<1> QED
  BY <1>1, FS_Subset, FS_CardinalityType

LEMMA UserCount == Cardinality(Users) \in Nat
  BY FS_CardinalityType, LifecycleAssumption

\* Nothing is added to the list but pages, which end with the due users.
LEMMA ListStep ==
  ASSUME Inv, NEW c \in Cleaners, ListsFit, [Next]_vars
  PROVE  Len(listed'[c]) <= Cardinality(Users)
<1>1. Len(listed[c]) \in Nat /\ Len(listed[c]) <= Cardinality(Users)
  BY ListTypes DEF Inv, ListsFit
<1>2. CASE FetchPage(c)
  <2>1. Len(listed'[c]) = Len(listed[c]) + PageLength(c)
    BY <1>2, PageTypes DEF Inv
  <2>2. PageSize \in Nat
    BY LifecycleAssumption
  <2>3. Len(listed[c]) + PageLength(c) <= Cardinality(Users)
    BY <1>1, <2>2, DueFits, UserCount DEF Inv, PageLength
  <2> QED
    BY <2>1, <2>3
<1>3. CASE UNCHANGED listed
  BY <1>1, <1>3
<1>4. ASSUME NEW q \in Cleaners, q # c, Cleanup(q) PROVE listed'[c] = listed[c]
  BY <1>4, CleanupFrame DEF Inv, CleanerInv
<1>5. UNCHANGED listed \/ FetchPage(c) \/ \E q \in Cleaners \ {c} : Cleanup(q)
  BY DEF Next, vars, runVars, Tick, SoftDelete, BeginRestore, Restore, BeginErase, Erase, Refuse,
     BeginRequest, EndRequest, RowGone, Cleanup, Step, Preview, Confirm, Decline, Count,
     DeleteUser, AuditRemoval, FinishCleanup, RemovalFails, StopCleanup
<1> QED
  BY <1>1, <1>2, <1>3, <1>4, <1>5

LEMMA RankTypes ==
  ASSUME Inv, ListsFit, NEW c \in Cleaners
  PROVE  Rank(c) \in Nat \X Nat
<1>1. /\ Len(listed[c]) \in Nat /\ done[c] \in Nat /\ Cardinality(Users) \in Nat
      /\ Len(listed[c]) <= Cardinality(Users) /\ done[c] <= Len(listed[c])
      /\ pc[c] = "audit" => done[c] < Len(listed[c])
  BY ListTypes, UserCount DEF Inv, ListsFit, CleanerInv, PlaceInv, HasNext
<1>2. Stage(c) \in Nat
  BY DEF Stage
<1>3. Left(c) \in Nat
  BY <1>1 DEF Left
<1> QED
  BY <1>2, <1>3 DEF Rank

\* Every step of the run but those of its loops ends a stage.
LEMMA StepLowers ==
  ASSUME Inv, NEW c \in Cleaners, Cleanup(c)
  PROVE  Lower(Rank(c)', Rank(c))
<1>1. /\ pc \in [Cleaners \cup Subjects -> PCs]
      /\ DOMAIN done = Cleaners
      /\ Len(listed[c]) \in Nat /\ done[c] \in Nat
      /\ pc[c] = "audit" => HasNext(c)
  BY ListTypes DEF Inv, TypeOK, PCs, CleanerInv, PlaceInv
<1>2. ASSUME Stage(c)' < Stage(c) PROVE Lower(Rank(c)', Rank(c))
  BY <1>2 DEF Rank, Lower
<1>3. ASSUME Stage(c)' = Stage(c), Left(c)' < Left(c) PROVE Lower(Rank(c)', Rank(c))
  BY <1>3 DEF Rank, Lower
<1>4. CASE Preview(c) \/ Confirm(c) \/ Decline(c) \/ Count(c) \/ FinishCleanup(c) \/ StopCleanup(c)
  <2>1. Stage(c)' < Stage(c)
    BY <1>1, <1>4 DEF Preview, Confirm, Decline, Count, FinishCleanup, StopCleanup, Goto, Stage
  <2> QED
    BY <1>2, <2>1
<1>5. CASE FetchPage(c)
  <2>1. /\ pc[c] = "list" /\ pc'[c] = IF PageLength(c) = 0 THEN "delete" ELSE "list"
        /\ Len(listed'[c]) = Len(listed[c]) + PageLength(c) /\ PageLength(c) \in Nat
    BY <1>1, <1>5, PageTypes DEF FetchPage, Goto, Inv
  <2>2. CASE PageLength(c) = 0
    <3>1. Stage(c)' < Stage(c)
      BY <2>1, <2>2 DEF Stage
    <3> QED
      BY <1>2, <3>1
  <2>3. CASE PageLength(c) # 0
    <3>1. Stage(c)' = Stage(c) /\ Left(c)' < Left(c)
      BY <1>1, <2>1, <2>3, UserCount DEF Stage, Left
    <3> QED
      BY <1>3, <3>1
  <2> QED
    BY <2>2, <2>3
<1>6. CASE DeleteUser(c)
  <2>1. /\ pc[c] = "delete" /\ pc'[c] = "audit" /\ UNCHANGED <<listed, done>>
    BY <1>1, <1>6 DEF DeleteUser, Goto, runVars
  <2>2. Stage(c)' = Stage(c) /\ Left(c)' < Left(c)
    BY <1>1, <2>1 DEF Stage, Left
  <2> QED
    BY <1>3, <2>2
<1>7. CASE AuditRemoval(c) \/ RemovalFails(c)
  <2>1. /\ pc[c] \in {"delete", "audit"} /\ pc'[c] = "delete"
        /\ UNCHANGED listed /\ done'[c] = done[c] + 1
    BY <1>1, <1>7 DEF AuditRemoval, RemovalFails, Goto
  <2>2. Stage(c)' = Stage(c) /\ Left(c)' < Left(c)
    BY <1>1, <2>1 DEF Stage, Left
  <2> QED
    BY <1>3, <2>2
<1> QED
  BY <1>4, <1>5, <1>6, <1>7 DEF Cleanup, Step

\* No run of the script goes on for ever: what it lists is bounded by the number
\* of users, though the list is read page by page while rows come and go, and
\* every listed user costs at most two statements, whatever fails.
THEOREM CleanupsRunOut == Spec => []Ranked /\ AlwaysDescends
<1>1. Init => ListsFit
  <2>1. SUFFICES ASSUME Init, NEW c \in Cleaners PROVE Len(listed[c]) <= Cardinality(Users)
    BY DEF ListsFit
  <2>2. listed[c] = <<>>
    BY <2>1 DEF Init
  <2> QED
    BY <2>2, UserCount
<1>2. Inv /\ ListsFit /\ [Next]_vars => ListsFit'
  BY ListStep DEF ListsFit
<1>3. Spec => [](Inv /\ ListsFit)
  BY <1>1, <1>2, Invariance, PTL DEF Spec
<1>4. Inv /\ ListsFit => Ranked
  BY RankTypes DEF Ranked
<1>5. Inv /\ [Next]_vars => [Descends]_vars
  <2> SUFFICES ASSUME Inv, Next, NEW c \in Cleaners
               PROVE  /\ Step(c) => Lower(Rank(c)', Rank(c))
                      /\ Rank(c)' # Rank(c) => Lower(Rank(c)', Rank(c))
    BY DEF Descends
  <2>1. Cleanup(c) => Lower(Rank(c)', Rank(c))
    BY StepLowers
  <2>2. ASSUME NEW q \in Cleaners, q # c, Cleanup(q) PROVE Rank(c)' = Rank(c)
    <3>1. pc'[c] = pc[c] /\ listed'[c] = listed[c] /\ done'[c] = done[c]
      BY <2>2, CleanupFrame DEF Inv, CleanerInv
    <3> QED
      BY <3>1 DEF Rank, Stage, Left
  <2>3. ASSUME Elsewhere PROVE Rank(c)' = Rank(c)
    <3>1. pc'[c] = pc[c] /\ UNCHANGED <<listed, done>>
      BY <2>3, ElsewhereFrame DEF Inv, runVars
    <3> QED
      BY <3>1 DEF Rank, Stage, Left
  <2> QED
    BY <2>1, <2>2, <2>3 DEF Next, Elsewhere, Cleanup
<1> QED
  BY <1>3, <1>4, <1>5, PTL DEF Spec, AlwaysDescends
=============================================================================
