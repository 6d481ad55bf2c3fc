------------------------ MODULE WebIngestion_proofs ------------------------
(***************************************************************************)
(* Theorems about WebIngestion, for any jobs on any pages, any flush       *)
(* threshold and batch size, and any number of failures.                   *)
(***************************************************************************)
EXTENDS WebIngestion, FiniteSetTheorems, FunctionTheorems, SequenceTheorems, TLAPS

(***************************************************************************)
(* The inductive invariant, job by job.                                    *)
(***************************************************************************)
\* The chunks of the pages the job has read so far.
Made(j) ==
  {c \in ChunkIds : /\ c[1] = j
                    /\ c[2] \in 1 .. job[j].pages
                    /\ c[3] \in 1 .. ChunkCount[ContentOf(j, c[2])]}

\* The places of the buffer that the running flush, or the next, has to write.
Unwritten(j) == upserted[j] + 1 .. Len(buffer[j])

\* What a job can be at each label.
StageInv(j) ==
  /\ pc[j] \in {"new", "queued", "refused"} =>
       job[j] = NewJob /\ buffer[j] = <<>> /\ upserted[j] = 0
  /\ pc[j] = "pages" => upserted[j] = 0
  /\ pc[j] = "flush" => upserted[j] < Len(buffer[j])
  /\ pc[j] \in {"pages", "flush"} => job[j].state = "running"
  /\ pc[j] = "report" => job[j].state \in {"completed", "failed"}
  /\ record[j].state = "completed" => record[j] = job[j]
  /\ record[j].chunks <= job[j].chunks

\* Pages in order, each with its row; nothing in Qdrant is of a later page.
PageInv(j) ==
  /\ job[j].pages <= Len(Pages[j])
  /\ \A i \in 1 .. job[j].pages : stored[ContentOf(j, i)] # NoDoc
  /\ PointsOf(j) \subseteq Made(j)

\* The buffer holds chunks of pages read, each once, and none that is written.
BufferInv(j) ==
  /\ \A i \in 1 .. Len(buffer[j]) : buffer[j][i] \in Made(j)
  /\ \A i, l \in 1 .. Len(buffer[j]) : buffer[j][i] = buffer[j][l] => i = l
  /\ \A i \in Unwritten(j) : buffer[j][i] \notin points

\* Until the job ends, every chunk made is in Qdrant or still to be written; if
\* it ends as completed, every chunk of every page is in Qdrant.
CoverInv(j) ==
  /\ pc[j] \in {"pages", "flush"} =>
       \A c \in Made(j) : c \in points \/ \E i \in Unwritten(j) : buffer[j][i] = c
  /\ job[j].state = "completed" => job[j].pages = Len(Pages[j]) /\ Made(j) \subseteq points

\* What has been counted, and what the running flush has written, is in Qdrant.
CountInv(j) ==
  /\ IsFiniteSet(PointsOf(j))
  /\ pc[j] \in {"pages", "flush"} => Cardinality(PointsOf(j)) = job[j].chunks + upserted[j]
  /\ job[j].chunks <= Cardinality(PointsOf(j))
  /\ job[j].state = "completed" => Cardinality(PointsOf(j)) = job[j].chunks

JobInv(j) == StageInv(j) /\ PageInv(j) /\ BufferInv(j) /\ CoverInv(j) /\ CountInv(j)

Inv == TypeOK /\ \A j \in Jobs : JobInv(j)

StepOf(j) == Accept(j) \/ RunCli(j) \/ Step(j) \/ Failure(j)

(***************************************************************************)
(* Types.                                                                  *)
(***************************************************************************)
LEMMA PageTypes ==
  ASSUME NEW j \in Jobs
  PROVE  /\ Pages[j] \in Seq(Contents)
         /\ Len(Pages[j]) \in Nat
         /\ \A i \in PagesOf(j) : /\ ContentOf(j, i) \in Contents
                                  /\ ChunkCount[ContentOf(j, i)] \in Nat
<1>1. Pages[j] \in Seq(Contents)
  BY IngestionAssumption
<1>2. Len(Pages[j]) \in Nat
  BY <1>1
<1>3. \A i \in PagesOf(j) : ContentOf(j, i) \in Contents
  BY <1>1, ElementOfSeq DEF PagesOf, ContentOf
<1> QED
  BY <1>1, <1>2, <1>3, IngestionAssumption

\* The chunks of a page, as a sequence.
LEMMA ChunkTypes ==
  ASSUME NEW j \in Jobs, NEW i \in PagesOf(j)
  PROVE  /\ ChunksOf(j, i) \in Seq(ChunkIds)
         /\ Len(ChunksOf(j, i)) = ChunkCount[ContentOf(j, i)]
         /\ \A k \in 1 .. ChunkCount[ContentOf(j, i)] : ChunksOf(j, i)[k] = <<j, i, k>>
<1> DEFINE n == ChunkCount[ContentOf(j, i)]
<1>1. n \in Nat
  BY PageTypes
<1>2. i \in Nat
  BY PageTypes DEF PagesOf
<1>3. \A k \in 1 .. n : <<j, i, k>> \in ChunkIds
  BY <1>1, <1>2 DEF ChunkIds
<1>4. ChunksOf(j, i) \in [1 .. n -> ChunkIds]
  BY <1>3 DEF ChunksOf
<1>5. ChunksOf(j, i) \in Seq(ChunkIds)
  BY <1>1, <1>4, SeqDef
<1>6. Len(ChunksOf(j, i)) = n
  BY <1>1, <1>4, <1>5, LenProperties
<1> QED
  BY <1>5, <1>6 DEF ChunksOf

LEMMA JobObjects ==
  ASSUME NEW o \in JobObject, NEW n \in Nat
  PROVE  /\ [o EXCEPT !.pages = @ + 1] \in JobObject
         /\ [o EXCEPT !.chunks = @ + n] \in JobObject
  BY DEF JobObject

LEMMA BatchBounds ==
  ASSUME TypeOK, NEW j \in Jobs
  PROVE  /\ BatchEnd(j) \in Nat
         /\ BatchEnd(j) <= Len(buffer[j])
         /\ upserted[j] < Len(buffer[j]) => upserted[j] < BatchEnd(j)
         /\ Batch(j) \subseteq ChunkIds
<1>1. buffer[j] \in Seq(ChunkIds) /\ Len(buffer[j]) \in Nat /\ upserted[j] \in Nat
  BY DEF TypeOK
<1>2. BatchEnd(j) \in Nat /\ BatchEnd(j) <= Len(buffer[j])
  BY <1>1, IngestionAssumption DEF BatchEnd
<1>3. upserted[j] < Len(buffer[j]) => upserted[j] < BatchEnd(j)
  BY <1>1, IngestionAssumption DEF BatchEnd
<1>4. \A i \in upserted[j] + 1 .. BatchEnd(j) : buffer[j][i] \in ChunkIds
  BY <1>1, <1>2, ElementOfSeq
<1> QED
  BY <1>2, <1>3, <1>4 DEF Batch

LEMMA TypeStep ==
  ASSUME TypeOK, \A j \in Jobs : StageInv(j), [Next]_vars
  PROVE  TypeOK'
<1> DEFINE PCs == {"new", "queued", "pages", "flush", "report", "done", "refused", "dead"}
           Records == {r \in JobObject : r.state # "running"} \cup {NoRecord}
<1>1. /\ pc \in [Jobs -> PCs]
      /\ job \in [Jobs -> JobObject]
      /\ record \in [Jobs -> Records]
      /\ buffer \in [Jobs -> Seq(ChunkIds)]
      /\ upserted \in [Jobs -> Nat]
      /\ stored \in [Contents -> DocIds \cup {NoDoc}]
      /\ points \in SUBSET ChunkIds
      /\ failures \in 0 .. MaxFailures
  BY DEF TypeOK
<1>2. NewJob \in Records /\ NewJob \in JobObject
  BY DEF NewJob, JobObject
<1>3. <<>> \in Seq(ChunkIds) /\ 0 \in Nat
  BY EmptySeq
<1>4. Fail => failures' \in 0 .. MaxFailures
  BY <1>1, IngestionAssumption DEF Fail
<1>5. ASSUME NEW j \in Jobs, NEW s \in {"pending", "running", "completed", "failed"},
             job' = [job EXCEPT ![j].state = s]
      PROVE  job' \in [Jobs -> JobObject]
  <2>1. [job[j] EXCEPT !.state = s] \in JobObject
    BY <1>1 DEF JobObject
  <2> QED
    BY <1>1, <1>5, <2>1
<1>6. ASSUME NEW j \in Jobs, FailJob(j)
      PROVE  /\ job' \in [Jobs -> JobObject]
             /\ pc' \in [Jobs -> PCs]
             /\ buffer' \in [Jobs -> Seq(ChunkIds)]
             /\ upserted' \in [Jobs -> Nat]
             /\ failures' \in 0 .. MaxFailures
  <2>1. job' \in [Jobs -> JobObject]
    BY <1>5, <1>6 DEF FailJob
  <2>2. pc' \in [Jobs -> PCs] /\ upserted' \in [Jobs -> Nat]
    BY <1>1, <1>6 DEF FailJob, Goto
  <2>3. buffer' \in [Jobs -> Seq(ChunkIds)]
    BY <1>1, <1>3, <1>6 DEF FailJob
  <2> QED
    BY <1>4, <1>6, <2>1, <2>2, <2>3 DEF FailJob
<1>7. ASSUME NEW j \in Jobs, pc[j] = "pages", NextPage(j) \in PagesOf(j)
      PROVE  Create(j) => stored' \in [Contents -> DocIds \cup {NoDoc}]
  <2>1. NextPage(j) \in Nat
    BY <1>7, PageTypes DEF PagesOf
  <2>2. <<j, NextPage(j)>> \in DocIds
    BY <2>1 DEF DocIds
  <2> QED
    BY <1>1, <2>2 DEF Create
<1>8. ASSUME NEW j \in Jobs, pc[j] = "report"
      PROVE  job[j] \in Records
  BY <1>1, <1>8 DEF StageInv
<1> HIDE DEF PCs, Records
<1>9. \A p : p \in {"queued", "pages", "flush", "report", "done", "refused", "dead"} => p \in PCs
  BY DEF PCs
<1>10. \A j \in Jobs, r \in Records : RecordFails(j, r) => record' \in [Jobs -> Records]
  BY <1>1 DEF RecordFails
<1> DEFINE Goal == /\ pc' \in [Jobs -> PCs]
                   /\ job' \in [Jobs -> JobObject]
                   /\ record' \in [Jobs -> Records]
                   /\ buffer' \in [Jobs -> Seq(ChunkIds)]
                   /\ upserted' \in [Jobs -> Nat]
                   /\ stored' \in [Contents -> DocIds \cup {NoDoc}]
                   /\ points' \in SUBSET ChunkIds
                   /\ failures' \in 0 .. MaxFailures
<1> SUFFICES Goal
  BY DEF TypeOK, PCs, Records
<1>11. CASE UNCHANGED vars
  BY <1>1, <1>11 DEF vars, localVars
<1>12. ASSUME NEW j \in Jobs, Accept(j) \/ Refuse(j) \/ RunCli(j)
       PROVE  Goal
  BY <1>1, <1>2, <1>4, <1>9, <1>10, <1>12 DEF Accept, Refuse, RunCli, Goto, localVars
<1>13. ASSUME NEW j \in Jobs, Load(j) \/ Complete(j)
       PROVE  Goal
  <2>1. job' \in [Jobs -> JobObject]
    BY <1>5, <1>13 DEF Load, Complete
  <2> QED
    BY <1>1, <1>9, <1>13, <2>1 DEF Load, Complete, Goto
<1>14. ASSUME NEW j \in Jobs, LoadFails(j) \/ UpsertFails(j)
       PROVE  Goal
  <2>1. points' \in SUBSET ChunkIds
    BY <1>1, <1>14, BatchBounds DEF LoadFails, UpsertFails
  <2> QED
    BY <1>1, <1>6, <1>14, <2>1 DEF LoadFails, UpsertFails
<1>15. ASSUME NEW j \in Jobs, ReadPage(j)
       PROVE  Goal
  <2>1. ChunksOf(j, NextPage(j)) \in Seq(ChunkIds)
    BY <1>15, ChunkTypes DEF ReadPage
  <2>2. buffer[j] \o ChunksOf(j, NextPage(j)) \in Seq(ChunkIds)
    BY <1>1, <2>1, ConcatProperties
  <2>3. [job[j] EXCEPT !.pages = @ + 1] \in JobObject
    BY <1>1, JobObjects
  <2>4. job' \in [Jobs -> JobObject]
    BY <1>1, <1>15, <2>3 DEF ReadPage
  <2>5. pc' \in [Jobs -> PCs]
    BY <1>1, <1>9, <1>15 DEF ReadPage, Goto
  <2>6. stored' \in [Contents -> DocIds \cup {NoDoc}]
    BY <1>7, <1>15 DEF ReadPage
  <2>7. buffer' \in [Jobs -> Seq(ChunkIds)]
    BY <1>1, <1>15, <2>2 DEF ReadPage
  <2> QED
    BY <1>1, <1>15, <2>4, <2>5, <2>6, <2>7 DEF ReadPage
<1>16. ASSUME NEW j \in Jobs, ReadPageFails(j)
       PROVE  Goal
  <2>1. stored' \in [Contents -> DocIds \cup {NoDoc}]
    BY <1>1, <1>7, <1>16 DEF ReadPageFails
  <2> QED
    BY <1>1, <1>6, <1>16, <2>1 DEF ReadPageFails
<1>17. ASSUME NEW j \in Jobs, FinalFlush(j) \/ Crash(j)
       PROVE  Goal
  BY <1>1, <1>4, <1>9, <1>17 DEF FinalFlush, Crash, Goto, localVars
<1>18. ASSUME NEW j \in Jobs, UpsertBatch(j)
       PROVE  Goal
  <2>1. points' \in SUBSET ChunkIds
    BY <1>1, <1>18, BatchBounds DEF UpsertBatch
  <2>2. Len(buffer[j]) \in Nat /\ BatchEnd(j) \in Nat
    BY <1>1, BatchBounds
  <2>3. [job[j] EXCEPT !.chunks = @ + Len(buffer[j])] \in JobObject
    BY <1>1, <2>2, JobObjects
  <2>d. DEFINE counted == [job EXCEPT ![j] = [job[j] EXCEPT !.chunks = @ + Len(buffer[j])]]
  <2>c. job' \in {job, counted}
    BY <1>1, <1>18 DEF UpsertBatch
  <2>e. counted \in [Jobs -> JobObject]
    BY <1>1, <2>3
  <2>4. job' \in [Jobs -> JobObject]
    BY <1>1, <2>c, <2>e
  <2>5. pc' \in [Jobs -> PCs] /\ upserted' \in [Jobs -> Nat]
    BY <1>1, <1>3, <1>9, <1>18, <2>2 DEF UpsertBatch, Goto
  <2>6. buffer' \in [Jobs -> Seq(ChunkIds)]
    BY <1>1, <1>3, <1>18 DEF UpsertBatch
  <2> QED
    BY <1>1, <1>18, <2>1, <2>4, <2>5, <2>6 DEF UpsertBatch
<1>19. ASSUME NEW j \in Jobs, Report(j) \/ ReportFails(j)
       PROVE  Goal
  <2>1. record' \in [Jobs -> Records]
    BY <1>1, <1>8, <1>10, <1>19 DEF Report, ReportFails
  <2> QED
    BY <1>1, <1>4, <1>9, <1>19, <2>1 DEF Report, ReportFails, Goto, localVars
<1> HIDE DEF Goal
<1> QED
  BY <1>11, <1>12, <1>13, <1>14, <1>15, <1>16, <1>17, <1>18, <1>19
     DEF Next, Step, Failure

(***************************************************************************)
(* What a step does to the stores, and to other jobs.                      *)
(***************************************************************************)
\* Every kind of step; Quiet ones leave stores, buffer and counts alone.
Quiet(j) ==
  /\ UNCHANGED <<points, stored, buffer, upserted>>
  /\ job'[j].pages = job[j].pages
  /\ job'[j].chunks = job[j].chunks

Fails(j) ==
  /\ FailJob(j)
  /\ points \subseteq points'
  /\ points' \subseteq points \cup Batch(j)
  /\ (Create(j) /\ pc[j] = "pages" /\ NextPage(j) \in PagesOf(j)) \/ UNCHANGED stored
  /\ pc[j] \in {"queued", "pages", "flush"}
  /\ UNCHANGED record

LEMMA StepKinds ==
  ASSUME TypeOK, NEW j \in Jobs, StepOf(j)
  PROVE  Quiet(j) \/ ReadPage(j) \/ UpsertBatch(j) \/ Fails(j)
<1>1. job \in [Jobs -> JobObject]
  BY DEF TypeOK
<1>2. ASSUME Accept(j) \/ RunCli(j) \/ FinalFlush(j) \/ Report(j) \/ Refuse(j) \/ ReportFails(j)
             \/ Crash(j)
      PROVE  Quiet(j)
  BY <1>2 DEF Accept, RunCli, FinalFlush, Report, Refuse, ReportFails, Crash, localVars, Quiet
<1>3. ASSUME Load(j) \/ Complete(j)
      PROVE  Quiet(j)
  BY <1>1, <1>3 DEF Load, Complete, Quiet, JobObject
<1>4. LoadFails(j) => Fails(j)
  BY DEF LoadFails, Fails
<1>5. ReadPageFails(j) => Fails(j)
  BY DEF ReadPageFails, Fails
<1>6. UpsertFails(j) => Fails(j)
  BY DEF UpsertFails, Fails
<1> QED
  BY <1>2, <1>3, <1>4, <1>5, <1>6 DEF StepOf, Step, Failure

LEMMA CreateKeeps ==
  ASSUME TypeOK, NEW j \in Jobs, NextPage(j) \in PagesOf(j), Create(j)
  PROVE  /\ \A c \in Contents : stored[c] # NoDoc => stored'[c] # NoDoc
         /\ stored'[ContentOf(j, NextPage(j))] # NoDoc
<1>1. ContentOf(j, NextPage(j)) \in Contents
  BY PageTypes
<1>2. <<j, NextPage(j)>> # NoDoc
  BY DEF NoDoc
<1>3. stored \in [Contents -> DocIds \cup {NoDoc}]
  BY DEF TypeOK
<1> QED
  BY <1>1, <1>2, <1>3 DEF Create

LEMMA StoresGrow ==
  ASSUME TypeOK, NEW j \in Jobs, StepOf(j)
  PROVE  /\ points \subseteq points'
         /\ points' \subseteq points \cup Batch(j)
         /\ \A c \in Contents : stored[c] # NoDoc => stored'[c] # NoDoc
<1>1. CASE Quiet(j)
  BY <1>1 DEF Quiet
<1>2. CASE ReadPage(j)
  BY <1>2, CreateKeeps DEF ReadPage
<1>3. CASE UpsertBatch(j)
  BY <1>3 DEF UpsertBatch
<1>4. CASE Fails(j)
  BY <1>4, CreateKeeps DEF Fails
<1> QED
  BY <1>1, <1>2, <1>3, <1>4, StepKinds

LEMMA BatchIsOwn ==
  ASSUME TypeOK, NEW j \in Jobs, BufferInv(j)
  PROVE  Batch(j) \subseteq Made(j)
<1>1. Len(buffer[j]) \in Nat /\ upserted[j] \in Nat
  BY DEF TypeOK
<1>2. BatchEnd(j) \in Nat /\ BatchEnd(j) <= Len(buffer[j])
  BY BatchBounds
<1>3. \A i \in upserted[j] + 1 .. BatchEnd(j) : buffer[j][i] \in Made(j)
  BY <1>1, <1>2 DEF BufferInv
<1> QED
  BY <1>3 DEF Batch

LEMMA OthersUnchanged ==
  ASSUME TypeOK, NEW j \in Jobs, StepOf(j), BufferInv(j), NEW i \in Jobs \ {j}
  PROVE  /\ pc'[i] = pc[i] /\ job'[i] = job[i] /\ record'[i] = record[i]
         /\ buffer'[i] = buffer[i] /\ upserted'[i] = upserted[i]
         /\ PointsOf(i)' = PointsOf(i)
<1>1. /\ pc \in [Jobs -> {"new", "queued", "pages", "flush", "report", "done", "refused", "dead"}]
      /\ job \in [Jobs -> JobObject]
      /\ record \in [Jobs -> {r \in JobObject : r.state # "running"} \cup {NoRecord}]
      /\ buffer \in [Jobs -> Seq(ChunkIds)]
      /\ upserted \in [Jobs -> Nat]
  BY DEF TypeOK
<1>2. /\ pc'[i] = pc[i] /\ job'[i] = job[i] /\ record'[i] = record[i]
      /\ buffer'[i] = buffer[i] /\ upserted'[i] = upserted[i]
  <2> DEFINE Same == /\ pc'[i] = pc[i] /\ job'[i] = job[i] /\ record'[i] = record[i]
                     /\ buffer'[i] = buffer[i] /\ upserted'[i] = upserted[i]
  <2>1. CASE Accept(j) \/ Refuse(j) \/ RunCli(j) \/ Load(j) \/ FinalFlush(j) \/ Complete(j) \/ Crash(j)
    BY <1>1, <2>1 DEF Accept, Refuse, RunCli, Load, FinalFlush, Complete, Crash, Goto, RecordFails, localVars
  <2>2. CASE Report(j) \/ ReportFails(j)
    BY <1>1, <2>2 DEF Report, ReportFails, Goto, RecordFails, localVars
  <2>3. CASE LoadFails(j) \/ ReadPageFails(j) \/ UpsertFails(j)
    BY <1>1, <2>3 DEF LoadFails, ReadPageFails, UpsertFails, FailJob, Goto
  <2>4. CASE ReadPage(j)
    BY <1>1, <2>4 DEF ReadPage, Goto
  <2>5. CASE UpsertBatch(j)
    BY <1>1, <2>5 DEF UpsertBatch, Goto
  <2> QED
    BY <2>1, <2>2, <2>3, <2>4, <2>5 DEF StepOf, Step, Failure
<1>3. \A c \in Batch(j) : c[1] # i
  BY BatchIsOwn DEF Made
<1>4. PointsOf(i)' = PointsOf(i)
  BY <1>3, StoresGrow DEF PointsOf
<1> QED
  BY <1>2, <1>4

LEMMA OthersKeepInv ==
  ASSUME Inv, NEW j \in Jobs, StepOf(j), NEW i \in Jobs \ {j}
  PROVE  JobInv(i)'
<1> USE DEF Inv
<1>0. JobInv(i) /\ BufferInv(j)
  BY DEF JobInv
<1>1. /\ pc'[i] = pc[i] /\ job'[i] = job[i] /\ record'[i] = record[i]
      /\ buffer'[i] = buffer[i] /\ upserted'[i] = upserted[i]
      /\ PointsOf(i)' = PointsOf(i)
  BY <1>0, OthersUnchanged
<1>2. Made(i)' = Made(i) /\ Unwritten(i)' = Unwritten(i)
  BY <1>1 DEF Made, Unwritten, ContentOf
<1>3. StageInv(i)'
  BY <1>0, <1>1 DEF JobInv, StageInv
<1>4. PageInv(i)'
  <2>1. job[i].pages \in Nat /\ job[i].pages <= Len(Pages[i])
    BY <1>0 DEF JobInv, PageInv, TypeOK, JobObject
  <2>2. \A p \in 1 .. job[i].pages : ContentOf(i, p) \in Contents
    BY <2>1, PageTypes DEF PagesOf
  <2>3. \A p \in 1 .. job[i].pages : stored'[ContentOf(i, p)] # NoDoc
    BY <1>0, <2>2, StoresGrow DEF JobInv, PageInv
  <2> QED
    BY <1>0, <1>1, <1>2, <2>1, <2>3 DEF JobInv, PageInv, ContentOf
<1>5. \A c \in Made(i) : c \in points' <=> c \in points
  BY <1>1 DEF Made, PointsOf
<1>6. BufferInv(i)'
  <2>1. \A k \in Unwritten(i) : k \in 1 .. Len(buffer[i])
    BY DEF Unwritten, TypeOK
  <2>2. \A k \in Unwritten(i) : buffer[i][k] \notin points'
    BY <1>0, <1>5, <2>1 DEF JobInv, BufferInv
  <2> QED
    BY <1>0, <1>1, <1>2, <2>2 DEF JobInv, BufferInv
<1>7. CoverInv(i)'
  BY <1>0, <1>1, <1>2, <1>5 DEF JobInv, CoverInv
<1>8. CountInv(i)'
  BY <1>0, <1>1 DEF JobInv, CountInv
<1> QED
  BY <1>3, <1>4, <1>6, <1>7, <1>8 DEF JobInv

(***************************************************************************)
(* What a step does to its own job.                                        *)
(***************************************************************************)
\* A record reports the job, or what it was when accepted.
LEMMA OwnStage ==
  ASSUME Inv, NEW j \in Jobs, StepOf(j)
  PROVE  StageInv(j)'
<1>1. /\ pc \in [Jobs -> {"new", "queued", "pages", "flush", "report", "done", "refused", "dead"}]
      /\ job \in [Jobs -> JobObject]
      /\ record \in [Jobs -> {r \in JobObject : r.state # "running"} \cup {NoRecord}]
      /\ buffer \in [Jobs -> Seq(ChunkIds)]
      /\ upserted \in [Jobs -> Nat]
  BY DEF Inv, TypeOK
<1>2. StageInv(j)
  BY DEF Inv, JobInv
<1>3. /\ NewJob.state = "pending" /\ NewJob.chunks = 0
      /\ NoRecord.state = None /\ NoRecord.chunks = 0
  BY DEF NewJob, NoRecord
<1>4. job[j] \in JobObject /\ job[j].chunks \in Nat
  BY <1>1 DEF JobObject
<1>5. Len(buffer[j]) \in Nat /\ BatchEnd(j) \in Nat
  BY BatchBounds DEF Inv, TypeOK
<1>6. CASE Accept(j) \/ Refuse(j)
  <2>1. job[j] = NewJob /\ buffer[j] = <<>> /\ upserted[j] = 0
    BY <1>2, <1>6 DEF Accept, Refuse, StageInv
  <2>2. /\ job'[j] = NewJob /\ buffer'[j] = <<>> /\ upserted'[j] = 0
        /\ pc'[j] \in {"queued", "refused"}
    BY <1>1, <1>6, <2>1 DEF Accept, Refuse, Goto, localVars
  <2>3. record'[j] = record[j] \/ record'[j] = NewJob
    BY <1>1, <1>6 DEF Accept, Refuse, RecordFails
  <2>4. /\ record'[j].state = "completed" => record'[j] = job'[j]
        /\ record'[j].chunks <= job'[j].chunks
    <3>1. CASE record'[j] = record[j]
      BY <1>2, <2>1, <2>2, <3>1 DEF StageInv
    <3>2. CASE record'[j] = NewJob
      BY <1>3, <2>2, <3>2
    <3> QED
      BY <2>3, <3>1, <3>2
  <2> QED
    BY <2>2, <2>4 DEF StageInv
<1>7. CASE RunCli(j) \/ FinalFlush(j) \/ Crash(j)
  <2>1. buffer[j] # <<>> => 0 < Len(buffer[j])
    BY <1>1, EmptySeq
  <2> QED
    BY <1>1, <1>2, <1>7, <2>1 DEF RunCli, FinalFlush, Crash, Running, Goto, StageInv, localVars
<1>8. CASE Load(j) \/ Complete(j)
  <2>1. record[j].state # "completed"
    BY <1>2, <1>3, <1>8 DEF StageInv, Load, Complete
  <2>2. job'[j].chunks = job[j].chunks
    BY <1>1, <1>8 DEF Load, Complete, JobObject
  <2>3. /\ job'[j].state = IF Load(j) THEN "running" ELSE "completed"
        /\ pc'[j] = IF Load(j) THEN "pages" ELSE "report"
    BY <1>1, <1>8 DEF Load, Complete, JobObject, Goto
  <2> QED
    BY <1>1, <1>2, <1>8, <2>1, <2>2, <2>3 DEF Load, Complete, StageInv
<1>9. CASE Fails(j)
  <2>1. record[j].state # "completed"
    BY <1>2, <1>3, <1>9 DEF StageInv, Fails
  <2>2. job'[j].chunks = job[j].chunks /\ job'[j].state = "failed" /\ pc'[j] = "report"
    BY <1>1, <1>9 DEF Fails, FailJob, Goto, JobObject
  <2> QED
    BY <1>1, <1>2, <1>9, <2>1, <2>2 DEF Fails, FailJob, StageInv
<1>10. CASE ReadPage(j)
  <2>1. record[j].state # "completed"
    BY <1>2, <1>10 DEF StageInv, ReadPage
  <2>2. job'[j].chunks = job[j].chunks /\ job'[j].state = "running"
    BY <1>1, <1>2, <1>10 DEF ReadPage, StageInv, JobObject
  <2>3. ChunksOf(j, NextPage(j)) \in Seq(ChunkIds)
    BY <1>10, ChunkTypes DEF ReadPage
  <2>4. Len(buffer[j] \o ChunksOf(j, NextPage(j))) \in Nat
    BY <1>1, <2>3, ConcatProperties
  <2>5. pc'[j] = "pages" \/ (pc'[j] = "flush" /\ 0 < Len(buffer'[j]))
    BY <1>1, <1>10, <2>4, IngestionAssumption DEF ReadPage, Goto
  <2> QED
    BY <1>1, <1>2, <1>10, <2>1, <2>2, <2>5 DEF ReadPage, StageInv
<1>11. CASE UpsertBatch(j)
  <2>1. record[j].state # "completed"
    BY <1>2, <1>11 DEF StageInv, UpsertBatch
  <2>2. record[j].chunks \in Nat
    BY <1>1, <1>3 DEF JobObject
  <2>3. CASE BatchEnd(j) < Len(buffer[j])
    <3>1. /\ job'[j] = job[j] /\ record'[j] = record[j] /\ pc'[j] = "flush"
          /\ upserted'[j] = BatchEnd(j) /\ buffer'[j] = buffer[j]
      BY <1>1, <1>11, <2>3 DEF UpsertBatch
    <3> QED
      BY <1>2, <1>11, <2>1, <2>3, <3>1 DEF StageInv, UpsertBatch
  <2>4. CASE ~(BatchEnd(j) < Len(buffer[j]))
    <3>1. /\ job'[j] = [job[j] EXCEPT !.chunks = @ + Len(buffer[j])]
          /\ record'[j] = record[j] /\ pc'[j] = "pages" /\ upserted'[j] = 0
      BY <1>1, <1>11, <2>4 DEF UpsertBatch, Goto
    <3>2. job'[j].chunks = job[j].chunks + Len(buffer[j]) /\ job'[j].state = job[j].state
      BY <1>4, <3>1 DEF JobObject
    <3> QED
      BY <1>2, <1>4, <1>5, <1>11, <2>1, <2>2, <3>1, <3>2 DEF StageInv, UpsertBatch
  <2> QED
    BY <2>3, <2>4
<1>12. CASE Report(j) \/ ReportFails(j)
  <2>1. /\ job'[j] = job[j] /\ buffer'[j] = buffer[j] /\ upserted'[j] = upserted[j]
        /\ pc'[j] = "done" /\ record'[j] \in {record[j], job[j]}
    BY <1>1, <1>12 DEF Report, ReportFails, RecordFails, Goto, localVars
  <2> QED
    BY <1>2, <1>4, <2>1 DEF StageInv
<1> QED
  BY <1>6, <1>7, <1>8, <1>9, <1>10, <1>11, <1>12 DEF StepOf, Step, Failure,
     LoadFails, ReadPageFails, UpsertFails, Fails

\* What Quiet and Fails leave alone.
LEMMA SamePages ==
  ASSUME TypeOK, NEW j \in Jobs, Quiet(j) \/ UpsertBatch(j) \/ Fails(j)
  PROVE  job'[j].pages = job[j].pages /\ Made(j)' = Made(j)
<1>1. job \in [Jobs -> JobObject]
  BY DEF TypeOK
<1>2. job'[j].pages = job[j].pages
  BY <1>1 DEF Quiet, UpsertBatch, Fails, FailJob, JobObject
<1> QED
  BY <1>2 DEF Made, ContentOf

LEMMA NewPage ==
  ASSUME TypeOK, NEW j \in Jobs, ReadPage(j)
  PROVE  /\ job[j].pages \in Nat
         /\ job'[j].pages = job[j].pages + 1
         /\ job'[j].chunks = job[j].chunks
         /\ job'[j].state = job[j].state
         /\ Made(j)' = Made(j) \cup
              {<<j, NextPage(j), k>> : k \in 1 .. ChunkCount[ContentOf(j, NextPage(j))]}
<1>1. job \in [Jobs -> JobObject]
  BY DEF TypeOK
<1>2. /\ job[j].pages \in Nat
      /\ job'[j].pages = job[j].pages + 1
      /\ job'[j].chunks = job[j].chunks
      /\ job'[j].state = job[j].state
  BY <1>1 DEF ReadPage, JobObject
<1> DEFINE n == NextPage(j)
           New == {<<j, n, k>> : k \in 1 .. ChunkCount[ContentOf(j, n)]}
<1>3. n = job[j].pages + 1 /\ n \in Nat
  BY <1>2 DEF NextPage
<1>4. New \subseteq ChunkIds
  BY <1>3, PageTypes DEF ReadPage, ChunkIds
<1>5. \A c \in ChunkIds : c[2] \in Nat
  BY DEF ChunkIds
<1>6. \A c \in ChunkIds : c[1] = j /\ c[2] = n /\ c[3] \in 1 .. ChunkCount[ContentOf(j, c[2])] => c \in New
  BY DEF ChunkIds
<1>7. \A c \in New : c[1] = j /\ c[2] = n /\ c[3] \in 1 .. ChunkCount[ContentOf(j, c[2])]
  OBVIOUS
<1> HIDE DEF n, New
<1>8. \A c \in ChunkIds : c[2] \in 1 .. job'[j].pages <=> c[2] \in 1 .. job[j].pages \/ c[2] = n
  BY <1>2, <1>3, <1>5
<1>9. Made(j)' = Made(j) \cup New
  BY <1>4, <1>6, <1>7, <1>8 DEF Made, ContentOf
<1> QED
  BY <1>2, <1>9 DEF n, New

LEMMA OwnPages ==
  ASSUME Inv, NEW j \in Jobs, StepOf(j)
  PROVE  PageInv(j)'
<1>1. TypeOK /\ PageInv(j) /\ BufferInv(j)
  BY DEF Inv, JobInv
<1>2. job[j].pages \in Nat /\ Len(Pages[j]) \in Nat
  BY <1>1, PageTypes DEF TypeOK, JobObject
<1>3. \A i \in 1 .. job[j].pages : ContentOf(j, i) \in Contents
  BY <1>1, <1>2, PageTypes DEF PagesOf, PageInv
<1>4. \A i \in 1 .. job[j].pages : stored'[ContentOf(j, i)] # NoDoc
  BY <1>1, <1>3, StoresGrow DEF PageInv
<1>5. PointsOf(j)' \subseteq Made(j)
  BY <1>1, StoresGrow, BatchIsOwn DEF PageInv, PointsOf
<1>6. CASE Quiet(j) \/ UpsertBatch(j) \/ Fails(j)
  <2>1. job'[j].pages = job[j].pages /\ Made(j)' = Made(j)
    BY <1>1, <1>6, SamePages
  <2> QED
    BY <1>1, <1>4, <1>5, <2>1 DEF PageInv, ContentOf
<1>7. CASE ReadPage(j)
  <2>1. job'[j].pages = job[j].pages + 1 /\ Made(j) \subseteq Made(j)'
    BY <1>1, <1>7, NewPage
  <2>2. NextPage(j) = job[j].pages + 1 /\ NextPage(j) <= Len(Pages[j])
    BY <1>2, <1>7 DEF ReadPage, NextPage, PagesOf
  <2>3. stored'[ContentOf(j, NextPage(j))] # NoDoc
    BY <1>1, <1>7, CreateKeeps DEF ReadPage
  <2>4. \A i \in 1 .. job'[j].pages : stored'[ContentOf(j, i)] # NoDoc
    BY <1>2, <1>4, <2>1, <2>2, <2>3
  <2> QED
    BY <1>5, <2>1, <2>2, <2>4 DEF PageInv, ContentOf
<1> QED
  BY <1>1, <1>6, <1>7, StepKinds

\* Reading a page appends its chunks, which are not in Qdrant, to the buffer.
LEMMA Appended ==
  ASSUME Inv, NEW j \in Jobs, ReadPage(j)
  PROVE  LET n == NextPage(j)
             m == Len(buffer[j])
             C == ChunkCount[ContentOf(j, n)]
         IN  /\ m \in Nat /\ C \in Nat /\ n = job[j].pages + 1 /\ n \in Nat
             /\ Len(buffer'[j]) = m + C
             /\ \A i \in 1 .. m : buffer'[j][i] = buffer[j][i]
             /\ \A i \in m + 1 .. m + C : buffer'[j][i] = <<j, n, i - m>>
             /\ \A k \in 1 .. C : <<j, n, k>> \notin points
             /\ upserted'[j] = upserted[j] /\ points' = points
<1> DEFINE n == NextPage(j)
           m == Len(buffer[j])
           C == ChunkCount[ContentOf(j, n)]
<1>1. /\ job \in [Jobs -> JobObject]
      /\ buffer \in [Jobs -> Seq(ChunkIds)]
      /\ PointsOf(j) \subseteq Made(j)
  BY DEF Inv, TypeOK, JobInv, PageInv
<1>2. n \in PagesOf(j) /\ n = job[j].pages + 1 /\ job[j].pages \in Nat
  BY <1>1 DEF ReadPage, NextPage, JobObject
<1>3. /\ ChunksOf(j, n) \in Seq(ChunkIds)
      /\ Len(ChunksOf(j, n)) = C
      /\ \A k \in 1 .. C : ChunksOf(j, n)[k] = <<j, n, k>>
  BY <1>2, ChunkTypes
<1>4. C \in Nat
  BY <1>2, PageTypes
<1>5. buffer[j] \in Seq(ChunkIds) /\ m \in Nat
  BY <1>1
<1>6. buffer'[j] = buffer[j] \o ChunksOf(j, n)
  BY <1>1 DEF ReadPage
<1> HIDE DEF n, C
<1>7. /\ Len(buffer'[j]) = m + C
      /\ \A i \in 1 .. m + C :
           buffer'[j][i] = IF i <= m THEN buffer[j][i] ELSE ChunksOf(j, n)[i - m]
  <2> DEFINE new == ChunksOf(j, n)
  <2>1. new \in Seq(ChunkIds) /\ Len(new) = C
    BY <1>3
  <2> HIDE DEF new
  <2>2. /\ Len(buffer[j] \o new) = m + C
        /\ \A i \in 1 .. m + C :
             (buffer[j] \o new)[i] = IF i <= m THEN buffer[j][i] ELSE new[i - m]
    BY <1>5, <2>1, ConcatProperties
  <2> QED
    BY <1>6, <2>2 DEF new
<1>8. \A i \in m + 1 .. m + C : buffer'[j][i] = <<j, n, i - m>>
  <2> SUFFICES ASSUME NEW i \in m + 1 .. m + C
               PROVE  buffer'[j][i] = <<j, n, i - m>>
    OBVIOUS
  <2>1. i - m \in 1 .. C /\ i \in 1 .. m + C /\ ~(i <= m)
    BY <1>4, <1>5
  <2> QED
    BY <1>3, <1>7, <2>1
<1>9. \A i \in 1 .. m : buffer'[j][i] = buffer[j][i]
  BY <1>4, <1>5, <1>7
<1>10. \A k \in 1 .. C : <<j, n, k>> \notin points
  <2> SUFFICES ASSUME NEW k \in 1 .. C, <<j, n, k>> \in points
               PROVE  FALSE
    OBVIOUS
  <2>1. <<j, n, k>> \in Made(j)
    BY <1>1 DEF PointsOf
  <2>2. n \in 1 .. job[j].pages
    BY <2>1 DEF Made
  <2> QED
    BY <1>2, <2>2
<1>11. n \in Nat
  BY <1>2
<1>12. upserted'[j] = upserted[j] /\ points' = points
  BY DEF ReadPage
<1> QED
  BY <1>2, <1>4, <1>5, <1>7, <1>8, <1>9, <1>10, <1>11, <1>12 DEF n, C

\* Chunks are buffered once and written once.
LEMMA OwnBuffer ==
  ASSUME Inv, NEW j \in Jobs, StepOf(j)
  PROVE  BufferInv(j)'
<1>1. /\ TypeOK /\ BufferInv(j)
      /\ upserted \in [Jobs -> Nat] /\ buffer \in [Jobs -> Seq(ChunkIds)]
      /\ Len(buffer[j]) \in Nat /\ upserted[j] \in Nat
  BY DEF Inv, JobInv, TypeOK
<1>2. ASSUME buffer'[j] = <<>>, upserted'[j] = 0
      PROVE  BufferInv(j)'
  <2>1. Len(buffer'[j]) = 0
    BY <1>2
  <2> QED
    BY <1>2, <2>1 DEF BufferInv, Unwritten
<1>3. CASE Quiet(j)
  <2>1. Made(j)' = Made(j)
    BY <1>1, <1>3, SamePages
  <2> QED
    BY <1>1, <1>3, <2>1 DEF Quiet, BufferInv, Unwritten
<1>4. CASE Fails(j)
  BY <1>1, <1>2, <1>4 DEF Fails, FailJob
<1>5. CASE UpsertBatch(j)
  <2>1. Made(j)' = Made(j)
    BY <1>1, <1>5, SamePages
  <2>2. BatchEnd(j) \in Nat /\ BatchEnd(j) <= Len(buffer[j]) /\ upserted[j] < BatchEnd(j)
    BY <1>1, <1>5, BatchBounds DEF Inv, JobInv, StageInv, UpsertBatch
  <2>3. CASE BatchEnd(j) < Len(buffer[j])
    <3>1. /\ buffer'[j] = buffer[j] /\ upserted'[j] = BatchEnd(j)
          /\ points' = points \cup Batch(j)
      BY <1>1, <1>5, <2>3 DEF UpsertBatch
    <3>2. ASSUME NEW i \in BatchEnd(j) + 1 .. Len(buffer[j])
          PROVE  buffer[j][i] \notin points'
      <4>1. i \in Unwritten(j) /\ i \in 1 .. Len(buffer[j])
        BY <1>1, <2>2 DEF Unwritten
      <4>2. buffer[j][i] \notin points
        BY <1>1, <4>1 DEF BufferInv
      <4>3. \A l \in upserted[j] + 1 .. BatchEnd(j) : l # i /\ l \in 1 .. Len(buffer[j])
        BY <1>1, <2>2
      <4>4. \A l \in upserted[j] + 1 .. BatchEnd(j) : buffer[j][l] # buffer[j][i]
        BY <1>1, <4>1, <4>3 DEF BufferInv
      <4> QED
        BY <3>1, <4>2, <4>4 DEF Batch
    <3> QED
      BY <1>1, <2>1, <3>1, <3>2 DEF BufferInv, Unwritten
  <2>4. CASE ~(BatchEnd(j) < Len(buffer[j]))
    BY <1>1, <1>2, <1>5, <2>4 DEF UpsertBatch
  <2> QED
    BY <2>3, <2>4
<1>6. CASE ReadPage(j)
  <2> DEFINE n == NextPage(j)
             m == Len(buffer[j])
             C == ChunkCount[ContentOf(j, n)]
  <2>1. /\ m \in Nat /\ C \in Nat /\ n = job[j].pages + 1 /\ n \in Nat
        /\ Len(buffer'[j]) = m + C
        /\ \A i \in 1 .. m : buffer'[j][i] = buffer[j][i]
        /\ \A i \in m + 1 .. m + C : buffer'[j][i] = <<j, n, i - m>>
        /\ \A k \in 1 .. C : <<j, n, k>> \notin points
        /\ upserted'[j] = upserted[j] /\ points' = points
    BY <1>6, Appended
  <2>2. Made(j)' = Made(j) \cup {<<j, n, k>> : k \in 1 .. C}
    BY <1>1, <1>6, NewPage
  <2>3. \A c \in Made(j) : c[2] # n
    <3>1. job[j].pages \in Nat
      BY <1>1, <1>6, NewPage
    <3> QED
      BY <2>1, <3>1 DEF Made
  <2> HIDE DEF n, C
  <2>4. \A i \in 1 .. m + C : i \in 1 .. m \/ (i \in m + 1 .. m + C /\ i - m \in 1 .. C)
    BY <2>1
  <2>5. \A i \in 1 .. m : buffer'[j][i] \in Made(j)
    BY <1>1, <2>1 DEF BufferInv
  <2>6. \A i \in 1 .. m + C : buffer'[j][i] \in Made(j)'
    BY <2>1, <2>2, <2>4, <2>5
  <2>7. \A i, l \in 1 .. m + C : buffer'[j][i] = buffer'[j][l] => i = l
    <3> SUFFICES ASSUME NEW i \in 1 .. m + C, NEW l \in 1 .. m + C,
                        buffer'[j][i] = buffer'[j][l]
                 PROVE  i = l
      OBVIOUS
    <3>1. CASE i \in 1 .. m /\ l \in 1 .. m
      BY <1>1, <2>1, <3>1 DEF BufferInv
    <3>2. CASE i \in m + 1 .. m + C /\ l \in m + 1 .. m + C
      <4>1. i - m = l - m
        BY <2>1, <3>2
      <4> QED
        BY <2>1, <4>1
    <3>3. CASE i \in 1 .. m /\ l \in m + 1 .. m + C
      <4>1. buffer'[j][l][2] = n
        BY <2>1, <3>3
      <4> QED
        BY <2>3, <2>5, <3>3, <4>1
    <3>4. CASE i \in m + 1 .. m + C /\ l \in 1 .. m
      <4>1. buffer'[j][i][2] = n
        BY <2>1, <3>4
      <4> QED
        BY <2>3, <2>5, <3>4, <4>1
    <3> QED
      BY <2>4, <3>1, <3>2, <3>3, <3>4
  <2>8. \A i \in upserted[j] + 1 .. m + C : buffer'[j][i] \notin points
    <3> SUFFICES ASSUME NEW i \in upserted[j] + 1 .. m + C
                 PROVE  buffer'[j][i] \notin points
      OBVIOUS
    <3>1. CASE i <= m
      <4>1. i \in 1 .. m /\ i \in Unwritten(j)
        BY <1>1, <2>1, <3>1 DEF Unwritten
      <4> QED
        BY <1>1, <2>1, <4>1 DEF BufferInv
    <3>2. CASE ~(i <= m)
      <4>1. i \in m + 1 .. m + C /\ i - m \in 1 .. C
        BY <1>1, <2>1, <3>2
      <4> QED
        BY <2>1, <4>1
    <3> QED
      BY <3>1, <3>2
  <2> QED
    BY <2>1, <2>6, <2>7, <2>8 DEF BufferInv, Unwritten
<1> QED
  BY <1>1, <1>3, <1>4, <1>5, <1>6, StepKinds

\* What is not in Qdrant yet is still in the buffer.
LEMMA OwnCover ==
  ASSUME Inv, NEW j \in Jobs, StepOf(j)
  PROVE  CoverInv(j)'
<1>1. /\ TypeOK /\ CoverInv(j) /\ BufferInv(j) /\ PageInv(j) /\ StageInv(j)
      /\ pc \in [Jobs -> {"new", "queued", "pages", "flush", "report", "done", "refused", "dead"}]
      /\ job \in [Jobs -> JobObject]
      /\ upserted \in [Jobs -> Nat] /\ buffer \in [Jobs -> Seq(ChunkIds)]
      /\ Len(buffer[j]) \in Nat /\ upserted[j] \in Nat
  BY DEF Inv, JobInv, TypeOK
<1>2. points \subseteq points'
  BY <1>1, StoresGrow
<1>3. CASE Quiet(j)
  <2>1. /\ job'[j].pages = job[j].pages /\ Made(j)' = Made(j) /\ Unwritten(j)' = Unwritten(j)
        /\ points' = points /\ buffer'[j] = buffer[j]
    BY <1>1, <1>3, SamePages DEF Quiet, Unwritten
  <2>2. CASE Accept(j) \/ Refuse(j) \/ RunCli(j) \/ FinalFlush(j) \/ Report(j) \/ ReportFails(j) \/ Crash(j)
    <3>1. job'[j].state = job[j].state
      BY <2>2 DEF Accept, Refuse, RunCli, FinalFlush, Report, ReportFails, Crash, localVars
    <3>2. pc'[j] \in {"pages", "flush"} => pc[j] \in {"pages", "flush"}
      BY <1>1, <2>2 DEF Accept, Refuse, RunCli, FinalFlush, Report, ReportFails, Crash, Goto
    <3> QED
      BY <1>1, <2>1, <3>1, <3>2 DEF CoverInv
  <2>3. CASE Load(j)
    <3>1. job[j] = NewJob
      BY <1>1, <2>3 DEF StageInv, Load
    <3>2. Made(j) = {}
      BY <3>1 DEF Made, NewJob
    <3>3. job'[j].state = "running"
      BY <1>1, <2>3 DEF Load, JobObject
    <3> QED
      BY <2>1, <3>2, <3>3 DEF CoverInv
  <2>4. CASE Complete(j)
    <3>1. Len(buffer[j]) = 0 /\ pc[j] = "pages" /\ pc'[j] = "report"
      BY <1>1, <2>4 DEF Complete, Goto
    <3>2. Unwritten(j) = {}
      BY <1>1, <3>1 DEF Unwritten
    <3>3. Made(j) \subseteq points
      BY <1>1, <3>1, <3>2 DEF CoverInv
    <3>4. job[j].pages = Len(Pages[j])
      <4>1. job[j].pages \in Nat /\ Len(Pages[j]) \in Nat /\ job[j].pages <= Len(Pages[j])
        BY <1>1, PageTypes DEF PageInv, JobObject
      <4>2. job[j].pages + 1 \notin 1 .. Len(Pages[j])
        BY <2>4 DEF Complete, NextPage, PagesOf
      <4> QED
        BY <4>1, <4>2
    <3> QED
      BY <2>1, <3>1, <3>3, <3>4 DEF CoverInv
  <2>5. Load(j) \/ Complete(j) \/ Accept(j) \/ Refuse(j) \/ RunCli(j) \/ FinalFlush(j) \/ Report(j)
        \/ ReportFails(j) \/ Crash(j) \/ ReadPage(j) \/ UpsertBatch(j) \/ FailJob(j)
    BY DEF StepOf, Step, Failure, LoadFails, ReadPageFails, UpsertFails
  <2>6. CASE ReadPage(j)
    <3>1. job[j].pages \in Nat /\ job'[j].pages = job[j].pages + 1
      BY <1>1, <2>6, NewPage
    <3> QED
      BY <2>1, <3>1
  <2>7. CASE UpsertBatch(j) \/ FailJob(j)
    <3>1. CASE FailJob(j)
      BY <1>1, <3>1 DEF FailJob, Goto, CoverInv, JobObject
    <3>2. CASE UpsertBatch(j)
      <4>1. upserted[j] < BatchEnd(j) /\ BatchEnd(j) \in Nat
        BY <1>1, <3>2, BatchBounds DEF StageInv, UpsertBatch
      <4>2. upserted'[j] = upserted[j]
        BY <1>3 DEF Quiet
      <4>3. buffer'[j] = buffer[j]
        BY <2>1
      <4>4. CASE BatchEnd(j) < Len(buffer[j])
        <5>1. upserted'[j] = BatchEnd(j)
          BY <1>1, <3>2, <4>4 DEF UpsertBatch
        <5> QED
          BY <1>1, <4>1, <4>2, <5>1
      <4>5. CASE ~(BatchEnd(j) < Len(buffer[j]))
        <5>1. buffer'[j] = <<>>
          BY <1>1, <3>2, <4>5 DEF UpsertBatch
        <5>2. Len(buffer[j]) = 0
          BY <4>3, <5>1
        <5> QED
          BY <1>1, <3>2, <5>2 DEF StageInv, UpsertBatch
      <4> QED
        BY <4>4, <4>5
    <3> QED
      BY <2>7, <3>1, <3>2
  <2> QED
    BY <2>2, <2>3, <2>4, <2>5, <2>6, <2>7
<1>4. CASE Fails(j)
  BY <1>1, <1>4 DEF Fails, FailJob, Goto, CoverInv, JobObject
<1>5. CASE UpsertBatch(j)
  <2>1. Made(j)' = Made(j) /\ job'[j].pages = job[j].pages
    BY <1>1, <1>5, SamePages
  <2>2. /\ BatchEnd(j) \in Nat /\ upserted[j] < BatchEnd(j) /\ BatchEnd(j) <= Len(buffer[j])
        /\ points' = points \cup Batch(j) /\ job'[j].state = job[j].state /\ job[j].state = "running"
    BY <1>1, <1>5, BatchBounds DEF StageInv, UpsertBatch, JobObject
  <2>3. ASSUME NEW c \in Made(j), c \notin points'
        PROVE  \E i \in BatchEnd(j) + 1 .. Len(buffer[j]) : buffer[j][i] = c
    <3>1. c \notin points /\ pc[j] = "flush"
      BY <1>2, <1>5, <2>3 DEF UpsertBatch
    <3>2. PICK i \in Unwritten(j) : buffer[j][i] = c
      BY <1>1, <3>1 DEF CoverInv
    <3>3. i \notin upserted[j] + 1 .. BatchEnd(j)
      BY <2>2, <2>3, <3>2 DEF Batch
    <3>4. i \in BatchEnd(j) + 1 .. Len(buffer[j])
      BY <1>1, <2>2, <3>2, <3>3 DEF Unwritten
    <3> QED
      BY <3>2, <3>4
  <2>4. CASE BatchEnd(j) < Len(buffer[j])
    <3>1. buffer'[j] = buffer[j] /\ upserted'[j] = BatchEnd(j)
      BY <1>1, <1>5, <2>4 DEF UpsertBatch
    <3> QED
      BY <2>1, <2>2, <2>3, <3>1 DEF CoverInv, Unwritten
  <2>5. CASE ~(BatchEnd(j) < Len(buffer[j]))
    <3>1. BatchEnd(j) + 1 .. Len(buffer[j]) = {}
      BY <1>1, <2>2, <2>5
    <3>2. Made(j) \subseteq points'
      BY <2>3, <3>1
    <3> QED
      BY <2>1, <2>2, <3>2 DEF CoverInv
  <2> QED
    BY <2>4, <2>5
<1>6. CASE ReadPage(j)
  <2> DEFINE n == NextPage(j)
             m == Len(buffer[j])
             C == ChunkCount[ContentOf(j, n)]
  <2>1. /\ m \in Nat /\ C \in Nat /\ n = job[j].pages + 1 /\ n \in Nat
        /\ Len(buffer'[j]) = m + C
        /\ \A i \in 1 .. m : buffer'[j][i] = buffer[j][i]
        /\ \A i \in m + 1 .. m + C : buffer'[j][i] = <<j, n, i - m>>
        /\ \A k \in 1 .. C : <<j, n, k>> \notin points
        /\ upserted'[j] = upserted[j] /\ points' = points
    BY <1>6, Appended
  <2>2. Made(j)' = Made(j) \cup {<<j, n, k>> : k \in 1 .. C} /\ job'[j].state = job[j].state
    BY <1>1, <1>6, NewPage
  <2>3. pc[j] = "pages" /\ job[j].state = "running" /\ upserted[j] = 0
    BY <1>1, <1>6 DEF ReadPage, StageInv
  <2> HIDE DEF n, C
  <2>4. ASSUME NEW c \in Made(j), c \notin points
        PROVE  \E i \in upserted'[j] + 1 .. Len(buffer'[j]) : buffer'[j][i] = c
    <3>1. PICK i \in Unwritten(j) : buffer[j][i] = c
      BY <1>1, <2>3, <2>4 DEF CoverInv
    <3>2. i \in 1 .. m
      BY <1>1, <3>1 DEF Unwritten
    <3>3. i \in upserted'[j] + 1 .. Len(buffer'[j])
      BY <1>1, <2>1, <3>1 DEF Unwritten
    <3> QED
      BY <2>1, <3>1, <3>2, <3>3
  <2>5. ASSUME NEW k \in 1 .. C
        PROVE  \E i \in upserted'[j] + 1 .. Len(buffer'[j]) : buffer'[j][i] = <<j, n, k>>
    <3> DEFINE p == m + k
    <3>1. p \in m + 1 .. m + C /\ p - m = k /\ p \in upserted'[j] + 1 .. Len(buffer'[j])
      BY <2>1, <2>3
    <3> HIDE DEF p
    <3>2. buffer'[j][p] = <<j, n, p - m>>
      BY <2>1, <3>1
    <3>3. buffer'[j][p] = <<j, n, k>>
      BY <3>1, <3>2
    <3> QED
      BY <3>1, <3>3
  <2>6. \A c \in Made(j)' : c \in points' \/ \E i \in Unwritten(j)' : buffer'[j][i] = c
    <3> SUFFICES ASSUME NEW c \in Made(j)', c \notin points'
                 PROVE  \E i \in upserted'[j] + 1 .. Len(buffer'[j]) : buffer'[j][i] = c
      BY DEF Unwritten
    <3>1. CASE c \in Made(j)
      BY <2>1, <2>4, <3>1
    <3>2. CASE c \notin Made(j)
      <4>1. PICK k \in 1 .. C : c = <<j, n, k>>
        BY <2>2, <3>2
      <4> QED
        BY <2>5, <4>1
    <3> QED
      BY <3>1, <3>2
  <2> QED
    BY <2>2, <2>3, <2>6 DEF CoverInv
<1> QED
  BY <1>1, <1>3, <1>4, <1>5, <1>6, StepKinds

LEMMA DisjointUnion ==
  ASSUME NEW S, IsFiniteSet(S), NEW T, IsFiniteSet(T), S \cap T = {}
  PROVE  IsFiniteSet(S \cup T) /\ Cardinality(S \cup T) = Cardinality(S) + Cardinality(T)
<1>1. Cardinality(S) \in Nat /\ Cardinality(T) \in Nat
  BY FS_CardinalityType
<1>2. /\ IsFiniteSet(S \cup T)
      /\ Cardinality(S \cup T) = Cardinality(S) + Cardinality(T) - Cardinality(S \cap T)
  BY FS_Union, Zenon
<1>3. Cardinality(S \cap T) = 0
  BY FS_EmptySet
<1> QED
  BY <1>1, <1>2, <1>3

\* The size of a batch.
LEMMA BatchCount ==
  ASSUME TypeOK, NEW j \in Jobs, BufferInv(j), upserted[j] < Len(buffer[j])
  PROVE  /\ IsFiniteSet(Batch(j))
         /\ Cardinality(Batch(j)) = BatchEnd(j) - upserted[j]
         /\ Batch(j) \cap points = {}
<1>1. /\ BatchEnd(j) \in Nat /\ upserted[j] \in Nat /\ Len(buffer[j]) \in Nat
      /\ upserted[j] < BatchEnd(j) /\ BatchEnd(j) <= Len(buffer[j])
  BY BatchBounds DEF TypeOK
<1> DEFINE S == upserted[j] + 1 .. BatchEnd(j)
           f == [i \in S |-> buffer[j][i]]
<1>2. S \subseteq 1 .. Len(buffer[j]) /\ S \subseteq Unwritten(j)
  BY <1>1 DEF Unwritten
<1>3. \A i, l \in S : buffer[j][i] = buffer[j][l] => i = l
  BY <1>2 DEF BufferInv
<1>4. IsFiniteSet(S) /\ Cardinality(S) = BatchEnd(j) - upserted[j]
  <2>1. upserted[j] + 1 \in Int /\ BatchEnd(j) \in Int
    BY <1>1
  <2>2. /\ IsFiniteSet(S)
        /\ Cardinality(S) = IF upserted[j] + 1 > BatchEnd(j) THEN 0
                            ELSE BatchEnd(j) - (upserted[j] + 1) + 1
    BY <2>1, FS_Interval, Zenon
  <2> QED
    BY <1>1, <2>2
<1>5. Batch(j) = {buffer[j][i] : i \in S}
  BY DEF Batch
<1> HIDE DEF S
<1>6. f \in Bijection(S, Batch(j))
  <2>1. f \in [S -> Batch(j)]
    BY <1>5
  <2>2. \A a, b \in S : f[a] = f[b] => a = b
    BY <1>3
  <2>3. \A c \in Batch(j) : \E i \in S : f[i] = c
    BY <1>5
  <2> QED
    BY <2>1, <2>2, <2>3, Fun_IsBij, Zenon
<1> HIDE DEF f
<1>7. IsFiniteSet(Batch(j)) /\ Cardinality(Batch(j)) = Cardinality(S)
  BY <1>4, <1>6, FS_Bijection DEF ExistsBijection
<1>8. Batch(j) \cap points = {}
  BY <1>2, <1>5 DEF BufferInv
<1> QED
  BY <1>4, <1>7, <1>8

\* A batch adds as many points as it has places, and a count follows a flush.
LEMMA OwnCount ==
  ASSUME Inv, NEW j \in Jobs, StepOf(j)
  PROVE  CountInv(j)'
<1>1. /\ TypeOK /\ CoverInv(j) /\ BufferInv(j) /\ StageInv(j) /\ CountInv(j)
      /\ pc \in [Jobs -> {"new", "queued", "pages", "flush", "report", "done", "refused", "dead"}]
      /\ job \in [Jobs -> JobObject]
      /\ upserted \in [Jobs -> Nat] /\ buffer \in [Jobs -> Seq(ChunkIds)]
      /\ Len(buffer[j]) \in Nat /\ upserted[j] \in Nat /\ job[j].chunks \in Nat
  BY DEF Inv, JobInv, TypeOK, JobObject
<1>2. IsFiniteSet(PointsOf(j)) /\ Cardinality(PointsOf(j)) \in Nat
  BY <1>1, FS_CardinalityType DEF CountInv
<1>3. CASE Quiet(j)
  <2>1. PointsOf(j)' = PointsOf(j) /\ upserted'[j] = upserted[j] /\ job'[j].chunks = job[j].chunks
    BY <1>3 DEF Quiet, PointsOf
  <2>2. CASE Accept(j) \/ Refuse(j) \/ RunCli(j) \/ FinalFlush(j) \/ Report(j) \/ ReportFails(j) \/ Crash(j)
    <3>1. job'[j].state = job[j].state
      BY <2>2 DEF Accept, Refuse, RunCli, FinalFlush, Report, ReportFails, Crash, localVars
    <3>2. pc'[j] \in {"pages", "flush"} => pc[j] \in {"pages", "flush"}
      BY <1>1, <2>2 DEF Accept, Refuse, RunCli, FinalFlush, Report, ReportFails, Crash, Goto
    <3> QED
      BY <1>1, <2>1, <3>1, <3>2 DEF CountInv
  <2>3. CASE Load(j)
    <3>1. job[j] = NewJob /\ upserted[j] = 0
      BY <1>1, <2>3 DEF StageInv, Load
    <3>2. Made(j) = {} /\ job[j].chunks = 0
      BY <3>1 DEF Made, NewJob
    <3>3. PointsOf(j) = {}
      BY <3>2 DEF Inv, JobInv, PageInv
    <3>4. job'[j].state = "running"
      BY <1>1, <2>3 DEF Load, JobObject
    <3> QED
      BY <1>2, <2>1, <3>1, <3>2, <3>3, <3>4, FS_EmptySet DEF CountInv
  <2>4. CASE Complete(j)
    <3>1. pc[j] = "pages" /\ upserted[j] = 0 /\ pc'[j] = "report"
      BY <1>1, <2>4 DEF Complete, Goto, StageInv
    <3> QED
      BY <1>1, <2>1, <3>1 DEF CountInv
  <2>5. CASE ReadPage(j)
    <3>1. job[j].pages \in Nat /\ job'[j].pages = job[j].pages + 1
      BY <1>1, <2>5, NewPage
    <3> QED
      BY <1>3, <3>1 DEF Quiet
  <2>6. CASE FailJob(j)
    BY <1>1, <2>1, <2>6 DEF FailJob, Goto, CountInv, JobObject
  <2>7. CASE UpsertBatch(j)
    <3>1. upserted[j] < BatchEnd(j) /\ BatchEnd(j) \in Nat
      BY <1>1, <2>7, BatchBounds DEF StageInv, UpsertBatch
    <3>2. CASE BatchEnd(j) < Len(buffer[j])
      BY <1>1, <2>1, <2>7, <3>1, <3>2 DEF UpsertBatch
    <3>3. CASE ~(BatchEnd(j) < Len(buffer[j]))
      <4>1. buffer'[j] = <<>> /\ buffer'[j] = buffer[j]
        BY <1>1, <1>3, <2>7, <3>3 DEF UpsertBatch, Quiet
      <4>2. Len(buffer[j]) = 0
        BY <4>1
      <4> QED
        BY <1>1, <2>7, <4>2 DEF StageInv, UpsertBatch
    <3> QED
      BY <3>2, <3>3
  <2> QED
    BY <2>2, <2>3, <2>4, <2>5, <2>6, <2>7
       DEF StepOf, Step, Failure, LoadFails, ReadPageFails, UpsertFails
<1>4. CASE Fails(j)
  <2>1. pc[j] \in {"queued", "pages", "flush"} /\ points \subseteq points'
        /\ points' \subseteq points \cup Batch(j)
    BY <1>4 DEF Fails
  <2>2. pc'[j] = "report" /\ job'[j].state = "failed" /\ job'[j].chunks = job[j].chunks
    BY <1>1, <1>4 DEF Fails, FailJob, Goto, JobObject
  <2>3. PointsOf(j) \subseteq PointsOf(j)' /\ PointsOf(j)' \subseteq PointsOf(j) \cup Batch(j)
    BY <2>1 DEF PointsOf
  <2>4. IsFiniteSet(PointsOf(j)')
    <3>1. CASE Batch(j) = {}
      BY <1>2, <2>3, <3>1, FS_Subset
    <3>2. CASE Batch(j) # {}
      <4>1. upserted[j] < Len(buffer[j])
        BY <1>1, <3>2, BatchBounds DEF Batch
      <4>2. IsFiniteSet(Batch(j))
        BY <1>1, <4>1, BatchCount
      <4> QED
        BY <1>2, <2>3, <4>2, FS_Union, FS_Subset
    <3> QED
      BY <3>1, <3>2
  <2>5. Cardinality(PointsOf(j)) <= Cardinality(PointsOf(j)') /\ Cardinality(PointsOf(j)') \in Nat
    BY <2>3, <2>4, FS_Subset, FS_CardinalityType
  <2> QED
    BY <1>1, <1>2, <2>2, <2>4, <2>5 DEF CountInv
<1>5. CASE UpsertBatch(j)
  <2>1. /\ BatchEnd(j) \in Nat /\ upserted[j] < BatchEnd(j) /\ BatchEnd(j) <= Len(buffer[j])
        /\ points' = points \cup Batch(j) /\ job'[j].state = job[j].state
        /\ job[j].state = "running" /\ upserted[j] < Len(buffer[j]) /\ pc[j] = "flush"
    BY <1>1, <1>5, BatchBounds DEF StageInv, UpsertBatch, JobObject
  <2>2. /\ IsFiniteSet(Batch(j))
        /\ Cardinality(Batch(j)) = BatchEnd(j) - upserted[j]
        /\ Batch(j) \cap points = {}
    BY <1>1, <2>1, BatchCount
  <2>3. PointsOf(j)' = PointsOf(j) \cup Batch(j) /\ PointsOf(j) \cap Batch(j) = {}
    <3>1. \A c \in Batch(j) : c[1] = j
      BY <1>1, BatchIsOwn DEF Made
    <3> QED
      BY <2>1, <2>2, <3>1 DEF PointsOf
  <2>4. /\ IsFiniteSet(PointsOf(j)')
        /\ Cardinality(PointsOf(j)') = Cardinality(PointsOf(j)) + Cardinality(Batch(j))
    BY <1>2, <2>2, <2>3, DisjointUnion
  <2>5. Cardinality(PointsOf(j)') = job[j].chunks + BatchEnd(j)
    <3>1. Cardinality(PointsOf(j)) = job[j].chunks + upserted[j]
      BY <1>1, <2>1 DEF CountInv
    <3>2. Cardinality(PointsOf(j)') = (job[j].chunks + upserted[j]) + (BatchEnd(j) - upserted[j])
      BY <2>2, <2>4, <3>1
    <3>3. \A a, b, c \in Nat : (a + b) + (c - b) = a + c
      OBVIOUS
    <3> QED
      BY <1>1, <2>1, <3>2, <3>3
  <2>6. CASE BatchEnd(j) < Len(buffer[j])
    <3>1. job'[j] = job[j] /\ upserted'[j] = BatchEnd(j)
      BY <1>1, <1>5, <2>6 DEF UpsertBatch
    <3> QED
      BY <1>1, <2>1, <2>4, <2>5, <3>1 DEF CountInv
  <2>7. CASE ~(BatchEnd(j) < Len(buffer[j]))
    <3>1. job'[j].chunks = job[j].chunks + Len(buffer[j]) /\ upserted'[j] = 0
      BY <1>1, <1>5, <2>7 DEF UpsertBatch, JobObject
    <3>2. BatchEnd(j) = Len(buffer[j])
      BY <1>1, <2>1, <2>7
    <3> QED
      BY <1>1, <2>1, <2>4, <2>5, <3>1, <3>2 DEF CountInv
  <2> QED
    BY <2>6, <2>7
<1>6. CASE ReadPage(j)
  <2>1. PointsOf(j)' = PointsOf(j)
    BY <1>6 DEF ReadPage, PointsOf
  <2>2. job'[j].state = job[j].state /\ job'[j].chunks = job[j].chunks
    BY <1>1, <1>6, NewPage
  <2>3. upserted'[j] = upserted[j] /\ pc[j] = "pages"
    BY <1>6 DEF ReadPage
  <2> QED
    BY <1>1, <2>1, <2>2, <2>3 DEF CountInv
<1> QED
  BY <1>1, <1>3, <1>4, <1>5, <1>6, StepKinds

(***************************************************************************)
(* The theorems.                                                           *)
(***************************************************************************)
LEMMA InitInv == Init => Inv
<1> SUFFICES ASSUME Init
             PROVE  Inv
  OBVIOUS
<1>1. TypeOK
  <2>1. <<>> \in Seq(ChunkIds)
    BY EmptySeq
  <2>2. NewJob \in JobObject
    BY DEF NewJob, JobObject
  <2> QED
    BY <2>1, <2>2, IngestionAssumption DEF Init, TypeOK
<1>2. ASSUME NEW j \in Jobs
      PROVE  JobInv(j)
  <2>1. /\ job[j] = NewJob /\ job[j].pages = 0 /\ job[j].chunks = 0 /\ job[j].state = "pending"
        /\ buffer[j] = <<>> /\ Len(buffer[j]) = 0 /\ upserted[j] = 0 /\ pc[j] = "new"
        /\ record[j].state = None /\ record[j].chunks = 0
    BY DEF Init, NewJob, NoRecord
  <2>2. Made(j) = {} /\ PointsOf(j) = {} /\ Unwritten(j) = {}
    BY <2>1 DEF Init, Made, PointsOf, Unwritten
  <2>3. StageInv(j)
    BY <2>1 DEF StageInv, None
  <2>4. PageInv(j)
    BY <2>1, <2>2, PageTypes DEF PageInv
  <2>5. BufferInv(j) /\ CoverInv(j)
    BY <2>1, <2>2 DEF BufferInv, CoverInv
  <2>6. CountInv(j)
    BY <2>1, <2>2, FS_EmptySet DEF CountInv
  <2> QED
    BY <2>3, <2>4, <2>5, <2>6 DEF JobInv
<1> QED
  BY <1>1, <1>2 DEF Inv

LEMMA NextInv == Inv /\ [Next]_vars => Inv'
<1> SUFFICES ASSUME Inv, [Next]_vars
             PROVE  Inv'
  OBVIOUS
<1>1. TypeOK'
  BY TypeStep DEF Inv, JobInv
<1>2. CASE UNCHANGED vars
  <2>1. ASSUME NEW j \in Jobs
        PROVE  JobInv(j)'
    <3>1. JobInv(j)
      BY DEF Inv
    <3>2. Made(j)' = Made(j) /\ Unwritten(j)' = Unwritten(j) /\ PointsOf(j)' = PointsOf(j)
      BY <1>2 DEF Made, Unwritten, PointsOf, ContentOf, vars, localVars
    <3>3. StageInv(j)' /\ PageInv(j)'
      BY <1>2, <3>1, <3>2 DEF JobInv, StageInv, PageInv, ContentOf, vars, localVars
    <3>4. BufferInv(j)' /\ CoverInv(j)' /\ CountInv(j)'
      BY <1>2, <3>1, <3>2 DEF JobInv, BufferInv, CoverInv, CountInv, vars, localVars
    <3> QED
      BY <3>3, <3>4 DEF JobInv
  <2> QED
    BY <1>1, <2>1 DEF Inv
<1>3. ASSUME NEW j \in Jobs, StepOf(j)
      PROVE  Inv'
  <2>1. JobInv(j)'
    BY <1>3, OwnStage, OwnPages, OwnBuffer, OwnCover, OwnCount DEF JobInv
  <2>2. \A i \in Jobs \ {j} : JobInv(i)'
    BY <1>3, OthersKeepInv
  <2> QED
    BY <1>1, <2>1, <2>2 DEF Inv
<1> QED
  BY <1>2, <1>3 DEF Next, StepOf

\* The invariant holds in every behaviour, whatever the jobs, the pages, the
\* thresholds and the failures: what the theorems below follow from.
THEOREM Invariance == Spec => []Inv
  BY InitInv, NextInv, PTL DEF Spec

\* Type correctness: RUNNING is never written to a row.
THEOREM TypeCorrect == Spec => []TypeOK
<1>1. Inv => TypeOK
  BY DEF Inv
<1> QED
  BY <1>1, Invariance, PTL

\* A vector never exists without its content in PostgreSQL.
THEOREM Stored == Spec => []PointsAreStored
<1>1. Inv => PointsAreStored
  <2> SUFFICES ASSUME Inv, NEW p \in points
               PROVE  stored[ContentOf(p[1], p[2])] # NoDoc
    BY DEF PointsAreStored
  <2>1. p[1] \in Jobs
    BY DEF Inv, TypeOK, ChunkIds
  <2>2. p \in Made(p[1])
    BY <2>1 DEF Inv, JobInv, PageInv, PointsOf
  <2> QED
    BY <2>1, <2>2 DEF Made, Inv, JobInv, PageInv
<1> QED
  BY <1>1, Invariance, PTL

\* A job whose row says COMPLETED has every page stored and every chunk in Qdrant.
THEOREM CompletedIndexed == Spec => []CompletedIsIndexed
<1>1. Inv => CompletedIsIndexed
  <2> SUFFICES ASSUME Inv, NEW j \in Jobs, record[j].state = "completed"
               PROVE  /\ \A i \in PagesOf(j) : Indexed(j, i) /\ stored[ContentOf(j, i)] # NoDoc
                      /\ record[j].pages = Len(Pages[j])
    BY DEF CompletedIsIndexed
  <2>1. StageInv(j) /\ PageInv(j) /\ CoverInv(j)
    BY DEF Inv, JobInv
  <2>2. record[j] = job[j]
    BY <2>1 DEF StageInv
  <2>3. job[j].pages = Len(Pages[j]) /\ Made(j) \subseteq points
    BY <2>1, <2>2 DEF CoverInv
  <2>4. \A i \in PagesOf(j), k \in Nat :
          k \in 1 .. ChunkCount[ContentOf(j, i)] => <<j, i, k>> \in Made(j)
    BY <2>3, PageTypes DEF Made, ChunkIds, PagesOf
  <2>5. \A i \in PagesOf(j) : Indexed(j, i)
    BY <2>3, <2>4, PageTypes DEF Indexed
  <2>6. \A i \in PagesOf(j) : stored[ContentOf(j, i)] # NoDoc
    BY <2>1, <2>3 DEF PageInv, PagesOf
  <2> QED
    BY <2>2, <2>3, <2>5, <2>6
<1> QED
  BY <1>1, Invariance, PTL

\* The counts a row shows never exceed what is in Qdrant, and are exact for a
\* COMPLETED job, for any flush threshold, batch size and failures.
THEOREM CountsTrue == Spec => []CountsAreTrue
<1>1. Inv => CountsAreTrue
  <2> SUFFICES ASSUME Inv, NEW j \in Jobs
               PROVE  /\ record[j].chunks <= Cardinality(PointsOf(j))
                      /\ record[j].state = "completed" => record[j].chunks = Cardinality(PointsOf(j))
    BY DEF CountsAreTrue
  <2>1. StageInv(j) /\ CountInv(j)
    BY DEF Inv, JobInv
  <2>2. job[j].chunks \in Nat /\ record[j].chunks \in Nat
    BY DEF Inv, TypeOK, JobObject, NoRecord
  <2>3. Cardinality(PointsOf(j)) \in Nat
    BY <2>1, FS_CardinalityType DEF CountInv
  <2> QED
    BY <2>1, <2>2, <2>3 DEF StageInv, CountInv
<1> QED
  BY <1>1, Invariance, PTL

(***************************************************************************)
(* Termination: how much a job has still to do at most.                    *)
(***************************************************************************)
\* The stage of the job, the pages that are left, and the chunks that are left
\* to write, one more as long as their flush has not begun.
Stage(j) ==
  CASE pc[j] = "new" -> 4
    [] pc[j] = "queued" -> 3
    [] pc[j] \in {"pages", "flush"} -> 2
    [] pc[j] = "report" -> 1
    [] OTHER -> 0
PagesLeft(j) == IF pc[j] \in {"pages", "flush"} THEN Len(Pages[j]) - job[j].pages ELSE 0
ChunksLeft(j) ==
  CASE pc[j] = "pages" /\ buffer[j] # <<>> -> Len(buffer[j]) + 1
    [] pc[j] = "flush" -> Len(buffer[j]) - upserted[j]
    [] OTHER -> 0
Rank(j) == <<Stage(j), PagesLeft(j), ChunksLeft(j)>>

\* The lexicographic order.
Lower(a, b) ==
  \/ a[1] < b[1]
  \/ a[1] = b[1] /\ a[2] < b[2]
  \/ a[1] = b[1] /\ a[2] = b[2] /\ a[3] < b[3]

Ranked == \A j \in Jobs : Rank(j) \in Nat \X Nat \X Nat
Descends ==
  \A j \in Jobs : /\ Step(j) => Lower(Rank(j)', Rank(j))
                  /\ Rank(j)' # Rank(j) => Lower(Rank(j)', Rank(j))
AlwaysDescends == [][Descends]_vars

LEMMA RankTypes ==
  ASSUME Inv, NEW j \in Jobs
  PROVE  Rank(j) \in Nat \X Nat \X Nat
<1>1. /\ job[j].pages \in Nat /\ Len(Pages[j]) \in Nat /\ upserted[j] \in Nat
      /\ buffer[j] \in Seq(ChunkIds) /\ Len(buffer[j]) \in Nat
  BY PageTypes DEF Inv, TypeOK, JobObject
<1>2. job[j].pages <= Len(Pages[j]) /\ (pc[j] = "flush" => upserted[j] < Len(buffer[j]))
  BY DEF Inv, JobInv, PageInv, StageInv
<1>3. Stage(j) \in Nat
  BY DEF Stage
<1>4. PagesLeft(j) \in Nat
  BY <1>1, <1>2 DEF PagesLeft
<1>5. ChunksLeft(j) \in Nat
  BY <1>1, <1>2 DEF ChunksLeft
<1> QED
  BY <1>3, <1>4, <1>5 DEF Rank

\* Every step of the job but those of its loop ends a stage.
LEMMA StepLowers ==
  ASSUME Inv, NEW j \in Jobs, StepOf(j)
  PROVE  Lower(Rank(j)', Rank(j))
<1>1. /\ pc \in [Jobs -> {"new", "queued", "pages", "flush", "report", "done", "refused", "dead"}]
      /\ job \in [Jobs -> JobObject] /\ job[j].pages \in Nat
      /\ DOMAIN buffer = Jobs /\ DOMAIN upserted = Jobs
      /\ upserted[j] \in Nat /\ buffer[j] \in Seq(ChunkIds) /\ Len(buffer[j]) \in Nat
      /\ Len(Pages[j]) \in Nat
      /\ StageInv(j)
  BY PageTypes DEF Inv, TypeOK, JobObject, JobInv
<1>2. ASSUME Stage(j)' < Stage(j) PROVE Lower(Rank(j)', Rank(j))
  BY <1>2 DEF Rank, Lower
<1>3. CASE Accept(j) \/ RunCli(j) \/ Refuse(j) \/ Load(j) \/ LoadFails(j) \/ Complete(j)
           \/ Report(j) \/ ReportFails(j) \/ Crash(j)
  <2>1. Stage(j)' < Stage(j)
    BY <1>1, <1>3 DEF Accept, RunCli, Refuse, Load, LoadFails, FailJob, Complete, Report,
       ReportFails, Crash, Running, Goto, Stage
  <2> QED
    BY <1>2, <2>1
<1>4. CASE ReadPageFails(j) \/ UpsertFails(j)
  <2>1. Stage(j)' < Stage(j)
    BY <1>1, <1>4 DEF ReadPageFails, UpsertFails, FailJob, Goto, Stage
  <2> QED
    BY <1>2, <2>1
<1>5. CASE ReadPage(j)
  <2>1. /\ pc[j] = "pages" /\ pc'[j] \in {"pages", "flush"}
        /\ job'[j].pages = job[j].pages + 1
    BY <1>1, <1>5 DEF ReadPage, Goto, JobObject
  <2>2. Stage(j)' = Stage(j) /\ PagesLeft(j)' < PagesLeft(j)
    BY <1>1, <2>1 DEF Stage, PagesLeft
  <2> QED
    BY <2>2 DEF Rank, Lower
<1>6. ASSUME pc[j] \in {"pages", "flush"}, pc'[j] \in {"pages", "flush"},
             job'[j].pages = job[j].pages, ChunksLeft(j)' < ChunksLeft(j)
      PROVE  Lower(Rank(j)', Rank(j))
  <2>1. Stage(j)' = Stage(j) /\ PagesLeft(j)' = PagesLeft(j)
    BY <1>6 DEF Stage, PagesLeft
  <2> QED
    BY <1>6, <2>1 DEF Rank, Lower
<1>7. CASE FinalFlush(j)
  <2>1. /\ pc[j] = "pages" /\ pc'[j] = "flush" /\ buffer[j] # <<>>
        /\ UNCHANGED <<job, buffer, upserted>>
    BY <1>1, <1>7 DEF FinalFlush, Goto, localVars
  <2>2. ChunksLeft(j) = Len(buffer[j]) + 1
    BY <2>1 DEF ChunksLeft
  <2>3. ChunksLeft(j)' = Len(buffer[j]) - 0
    BY <1>1, <2>1 DEF ChunksLeft, StageInv
  <2> QED
    BY <1>1, <1>6, <2>1, <2>2, <2>3
<1>8. CASE UpsertBatch(j)
  <2>1. pc[j] = "flush" /\ ChunksLeft(j) = Len(buffer[j]) - upserted[j]
    BY <1>8 DEF UpsertBatch, ChunksLeft
  <2>2. /\ upserted[j] < Len(buffer[j])
        /\ BatchEnd(j) \in Nat /\ upserted[j] < BatchEnd(j) /\ BatchEnd(j) <= Len(buffer[j])
    BY <1>1, <2>1, BatchBounds DEF StageInv, Inv
  <2>3. CASE BatchEnd(j) < Len(buffer[j])
    <3>1. /\ upserted'[j] = BatchEnd(j) /\ UNCHANGED <<pc, job, buffer>>
      BY <1>1, <1>8, <2>3 DEF UpsertBatch
    <3>2. ChunksLeft(j)' = Len(buffer[j]) - BatchEnd(j)
      BY <2>1, <3>1 DEF ChunksLeft
    <3> QED
      BY <1>1, <1>6, <2>1, <2>2, <3>1, <3>2
  <2>4. CASE ~(BatchEnd(j) < Len(buffer[j]))
    <3>1. /\ pc'[j] = "pages" /\ buffer'[j] = <<>>
          /\ job' = [job EXCEPT ![j].chunks = @ + Len(buffer[j])]
      BY <1>1, <1>8, <2>4 DEF UpsertBatch, Goto
    <3>2. job'[j].pages = job[j].pages
      BY <1>1, <3>1 DEF JobObject
    <3>3. ChunksLeft(j)' = 0
      BY <3>1 DEF ChunksLeft
    <3> QED
      BY <1>1, <1>6, <2>1, <2>2, <3>1, <3>2, <3>3
  <2> QED
    BY <2>3, <2>4
<1> QED
  BY <1>3, <1>4, <1>5, <1>7, <1>8 DEF StepOf, Step, Failure

\* No job goes on for ever, whatever fails in it and whatever the others do:
\* its pages run out, between two of them the chunks to be written do, and no
\* other job's step gives any back.
THEOREM JobsRunOut == Spec => []Ranked /\ AlwaysDescends
<1>1. Inv => Ranked
  BY RankTypes DEF Ranked
<1>2. Inv /\ [Next]_vars => [Descends]_vars
  <2> SUFFICES ASSUME Inv, Next, NEW j \in Jobs
               PROVE  /\ Step(j) => Lower(Rank(j)', Rank(j))
                      /\ Rank(j)' # Rank(j) => Lower(Rank(j)', Rank(j))
    BY DEF Descends
  <2>1. StepOf(j) => Lower(Rank(j)', Rank(j))
    BY StepLowers
  <2>2. ASSUME NEW k \in Jobs, k # j, StepOf(k) PROVE Rank(j)' = Rank(j)
    <3>1. pc'[j] = pc[j] /\ job'[j] = job[j] /\ buffer'[j] = buffer[j] /\ upserted'[j] = upserted[j]
      BY <2>2, OthersUnchanged DEF Inv, JobInv
    <3> QED
      BY <3>1 DEF Rank, Stage, PagesLeft, ChunksLeft
  <2> QED
    BY <2>1, <2>2 DEF Next, StepOf
<1> QED
  BY <1>1, <1>2, Invariance, PTL DEF Spec, AlwaysDescends
=============================================================================
