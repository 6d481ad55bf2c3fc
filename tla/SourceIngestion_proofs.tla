------------------------ MODULE SourceIngestion_proofs ------------------------
(***************************************************************************)
(* Theorems about the document commands of SourceIngestion, for any runs   *)
(* of any sources, any batch size and number of retries, and any number of *)
(* failures.                                                               *)
(***************************************************************************)
EXTENDS SourceIngestion, SequenceTheorems, TLAPS

(***************************************************************************)
(* The inductive invariant, run by run.                                    *)
(***************************************************************************)
\* Where a run holds documents.
Loaded(r) == pc[r] \in {"read", "embed", "upsert"} \/ (pc[r] = "done" /\ IsDownload(r))

PlaceInv(r) ==
  /\ pc[r] \in {"new", "load"} => at[r] = 0 /\ chunks[r] = <<>>
  /\ pc[r] \in {"new", "load", "read", "embed"} => sent[r] = 0
  /\ pc[r] = "new" => tries[r] = 0
  /\ pc[r] = "load" => command[r] \in Downloads /\ tries[r] < MaxRetries * Len(toTry[r])
  /\ Loaded(r) => command[r] \in Downloads /\ branch[r] \in DOMAIN command[r].branches
  /\ Loaded(r) => at[r] <= Len(Docs(r))
  /\ Loaded(r) /\ pc[r] # "read" => at[r] = Len(Docs(r))
  /\ Loaded(r) /\ pc[r] = "done" => sent[r] = Len(chunks[r])
  /\ pc[r] \in {"proxies", "write"} => command[r] \notin Downloads

\* The content of the i-th document is stored if it is to be, and all of its
\* chunks are among those of the run.
ReadInv(r, i) ==
  /\ IsStored(r) => rows[Docs(r)[i].text] # NoRow
  /\ \A k \in 1 .. ChunkCount[Docs(r)[i].text] :
       \E j \in 1 .. Len(chunks[r]) : chunks[r][j] = Chunk(r, i, k)

HasContent(p) == ToBeExtracted(p) => rows[TextOf(p)] # NoRow

ChunkInv(r) ==
  /\ \A j \in 1 .. Len(chunks[r]) : HasContent(chunks[r][j])
  /\ sent[r] <= Len(chunks[r])
  /\ \A j \in 1 .. sent[r] : chunks[r][j] \in points
  /\ Loaded(r) => \A i \in 1 .. at[r] : ReadInv(r, i)

RunInv(r) == PlaceInv(r) /\ ChunkInv(r)

Inv ==
  /\ TypeOK
  /\ \A p \in points : HasContent(p)
  /\ \A r \in Runs : RunInv(r)

BeginOf(r) ==
  \/ BeginGithub(r) \/ BeginWithoutDefault(r) \/ BeginElasticsearch(r)
  \/ BeginYoutube(r) \/ BeginReddit(r) \/ BeginGmail(r)
FinishOf(r) ==
  \/ FinishGithub(r) \/ FinishElasticsearch(r) \/ FinishYoutube(r)
  \/ FinishReddit(r) \/ FinishGmail(r)
StepOf(r) == BeginOf(r) \/ ParseCompose(r) \/ ParseSwag(r) \/ Step(r) \/ Failure(r)

PCs == {"new", "load", "read", "embed", "upsert", "proxies", "write"} \cup Ended

(***************************************************************************)
(* Types.                                                                  *)
(***************************************************************************)
LEMMA CommandTypes ==
  ASSUME NEW c \in Downloads
  PROVE  /\ c.kind \in {"github", "elasticsearch", "youtube", "reddit", "gmail"}
         /\ c.limit \in Nat
         /\ c.default \in DOMAIN c.branches
         /\ DOMAIN c.branches \subseteq Branches
         /\ \A b \in DOMAIN c.branches : c.branches[b] \in Seq([item : Items, text : Texts])
<1>1. DOMAIN c.branches \subseteq Branches
  BY DEF Branches
<1> QED
  BY <1>1, SourceAssumption

\* Neither of the graph commands is one of documents.
LEMMA GraphCommands ==
  /\ \A f \in Files : f \notin Downloads
  /\ \A c \in Configs : c \notin Downloads
  BY SourceAssumption

LEMMA DocsTypes ==
  ASSUME NEW r \in Runs, command[r] \in Downloads, branch[r] \in DOMAIN command[r].branches
  PROVE  /\ Len(Docs(r)) \in Nat
         /\ \A i \in 1 .. Len(Docs(r)) :
              /\ Docs(r)[i].item \in Items
              /\ Docs(r)[i].text \in Texts
              /\ ChunkCount[Docs(r)[i].text] \in Nat
<1> DEFINE D == [item : Items, text : Texts]
           all == command[r].branches[branch[r]]
           n == IF command[r].limit < Len(all) THEN command[r].limit ELSE Len(all)
<1>1. all \in Seq(D) /\ command[r].limit \in Nat
  BY CommandTypes
<1>2. Len(all) \in Nat /\ n \in 0 .. Len(all)
  BY <1>1
<1>3. Docs(r) = SubSeq(all, 1, n)
  BY DEF Docs
<1>4. /\ Docs(r) \in Seq(D)
      /\ Len(Docs(r)) \in Nat
  <2> HIDE DEF n, all, D
  <2>1. \A i \in 1 .. n : all[i] \in D
    <3>1. \A i \in 1 .. Len(all) : all[i] \in D
      BY <1>1, ElementOfSeq
    <3> QED
      BY <1>2, <3>1
  <2>2. n \in Int /\ 1 \in Int
    BY <1>2
  <2>3. SubSeq(all, 1, n) \in Seq(D)
    BY <2>1, <2>2, SubSeqProperties
  <2> QED
    BY <1>3, <2>3 DEF n, all
<1>5. \A i \in 1 .. Len(Docs(r)) : Docs(r)[i] \in D
  BY <1>4, ElementOfSeq
<1> QED
  BY <1>4, <1>5, SourceAssumption

\* Only GitHub and Elasticsearch have ids that are to be extracted.
LEMMA IdTypes ==
  ASSUME NEW r \in Runs, command[r] \in Downloads, branch[r] \in DOMAIN command[r].branches,
         NEW i \in 1 .. Len(Docs(r))
  PROVE  /\ DocId(r, i) \in StoredIds \cup DrawnIds
         /\ IsStored(r) => DocId(r, i) \in StoredIds
         /\ DocId(r, i)[3] = Docs(r)[i].text
         /\ DocId(r, i)[1] = "content" => IsStored(r)
<1>1. /\ KindOf(r) \in {"github", "elasticsearch", "youtube", "reddit", "gmail"}
      /\ branch[r] \in Branches
  BY CommandTypes DEF KindOf
<1>2. Docs(r)[i].item \in Items /\ Docs(r)[i].text \in Texts /\ i \in Nat
  BY DocsTypes
<1>3. CASE KindOf(r) = "github"
  BY <1>1, <1>2, <1>3 DEF DocId, GithubDocId, StoredIds, IsStored
<1>4. CASE KindOf(r) = "elasticsearch"
  BY <1>1, <1>2, <1>4 DEF DocId, ElasticsearchDocId, StoredIds, IsStored
<1>5. CASE KindOf(r) \notin {"github", "elasticsearch"}
  <2>1. DocId(r, i) = <<r, i, Docs(r)[i].text>>
    BY <1>5 DEF DocId, DrawnDocId
  <2>2. r # "content"
    BY SourceAssumption
  <2> QED
    BY <1>2, <1>5, <2>1, <2>2 DEF DrawnIds, IsStored
<1> QED
  BY <1>3, <1>4, <1>5

LEMMA ChunkTypes ==
  ASSUME NEW r \in Runs, command[r] \in Downloads, branch[r] \in DOMAIN command[r].branches,
         NEW i \in 1 .. Len(Docs(r))
  PROVE  /\ ChunksOf(r, i) \in Seq(Points)
         /\ Len(ChunksOf(r, i)) = ChunkCount[Docs(r)[i].text]
         /\ \A k \in 1 .. ChunkCount[Docs(r)[i].text] :
              /\ ChunksOf(r, i)[k] = Chunk(r, i, k)
              /\ TextOf(Chunk(r, i, k)) = Docs(r)[i].text
              /\ ToBeExtracted(Chunk(r, i, k)) => IsStored(r)
<1> DEFINE n == ChunkCount[Docs(r)[i].text]
<1>1. n \in Nat /\ i \in Nat
  BY DocsTypes
<1>2. ASSUME NEW k \in 1 .. n
      PROVE  /\ Chunk(r, i, k) \in Points
             /\ TextOf(Chunk(r, i, k)) = Docs(r)[i].text
             /\ ToBeExtracted(Chunk(r, i, k)) => IsStored(r)
  <2>1. <<r, i>> # <<>>
    OBVIOUS
  <2>2. Chunk(r, i, k) \in Points
    BY <1>1, IdTypes DEF Chunk, Points
  <2>3. TextOf(Chunk(r, i, k)) = Docs(r)[i].text
    BY IdTypes DEF Chunk, TextOf
  <2>4. ToBeExtracted(Chunk(r, i, k)) => IsStored(r)
    BY <2>1, IdTypes DEF Chunk, ToBeExtracted, IsStored
  <2> QED
    BY <2>2, <2>3, <2>4
<1>3. ChunksOf(r, i) \in [1 .. n -> Points]
  BY <1>2 DEF ChunksOf
<1>4. ChunksOf(r, i) \in Seq(Points)
  BY <1>1, <1>3, SeqDef
<1>5. Len(ChunksOf(r, i)) = n
  BY <1>1, <1>3, <1>4, LenProperties
<1>6. \A k \in 1 .. n : ChunksOf(r, i)[k] = Chunk(r, i, k)
  BY DEF ChunksOf
<1> QED
  BY <1>2, <1>4, <1>5, <1>6

\* What Store does to the rows: the text has a row after it, and none is lost
\* or changed.
LEMMA StoreTypes ==
  ASSUME TypeOK, NEW r \in Runs, command[r] \in Downloads,
         branch[r] \in DOMAIN command[r].branches,
         NEW i \in 1 .. Len(Docs(r)), Store(r, i)
  PROVE  /\ rows' \in [Texts -> StoredIds \cup {NoRow}]
         /\ \A t \in Texts : rows[t] # NoRow => rows'[t] # NoRow
         /\ IsStored(r) => rows'[Docs(r)[i].text] # NoRow
<1>1. Docs(r)[i].text \in Texts /\ rows \in [Texts -> StoredIds \cup {NoRow}]
  BY DocsTypes DEF TypeOK
<1>2. \A x \in StoredIds : x # NoRow
  <2>1. \A a, b, c : <<a, b, c>> # <<>>
    OBVIOUS
  <2> QED
    BY <2>1 DEF StoredIds, NoRow
<1>3. CASE rows' = rows /\ ~(IsStored(r) /\ rows[Docs(r)[i].text] = NoRow)
  BY <1>1, <1>3
<1>4. CASE IsStored(r) /\ rows' = [rows EXCEPT ![Docs(r)[i].text] = DocId(r, i)]
  <2>1. DocId(r, i) \in StoredIds /\ DocId(r, i) # NoRow
    BY <1>2, <1>4, IdTypes
  <2> QED
    BY <1>1, <1>4, <2>1
<1> QED
  BY <1>3, <1>4 DEF Store

LEMMA BatchTypes ==
  ASSUME TypeOK, NEW r \in Runs, sent[r] <= Len(chunks[r])
  PROVE  /\ chunks[r] \in Seq(Points) /\ Len(chunks[r]) \in Nat /\ sent[r] \in Nat
         /\ \A j \in 1 .. Len(chunks[r]) : chunks[r][j] \in Points
         /\ BatchEnd(r) \in Nat /\ sent[r] <= BatchEnd(r) /\ BatchEnd(r) <= Len(chunks[r])
         /\ Batch(r) \subseteq Points
         /\ \A p \in Batch(r) : \E j \in 1 .. Len(chunks[r]) : p = chunks[r][j]
<1>1. chunks[r] \in Seq(Points) /\ Len(chunks[r]) \in Nat /\ sent[r] \in Nat
  BY DEF TypeOK
<1>2. \A j \in 1 .. Len(chunks[r]) : chunks[r][j] \in Points
  BY <1>1, ElementOfSeq
<1>3. BatchEnd(r) \in Nat /\ sent[r] <= BatchEnd(r) /\ BatchEnd(r) <= Len(chunks[r])
  BY <1>1, SourceAssumption DEF BatchEnd
<1>4. \A p \in Batch(r) : \E j \in 1 .. Len(chunks[r]) : p = chunks[r][j]
  BY <1>1, <1>3 DEF Batch
<1>5. Batch(r) \subseteq Points
  BY <1>2, <1>4
<1> QED
  BY <1>1, <1>2, <1>3, <1>4, <1>5

\* The products of the attempts, as numbers.
LEMMA Attempts ==
  ASSUME NEW s \in Seq(Branches)
  PROVE  /\ MaxRetries * Len(s) \in Nat
         /\ Len(s) = 1 \/ Len(s) = 2 => 0 < MaxRetries * Len(s)
<1>1. MaxRetries \in Nat /\ MaxRetries > 0 /\ Len(s) \in Nat
  BY SourceAssumption
<1>2. MaxRetries * Len(s) \in Nat
  BY <1>1
<1>3. 0 < MaxRetries * 1 /\ 0 < MaxRetries * 2
  BY <1>1
<1> QED
  BY <1>2, <1>3

\* What starting a command that ingests documents gives the run.
LEMMA BeginFacts ==
  ASSUME TypeOK, NEW r \in Runs, BeginOf(r)
  PROVE  /\ pc[r] = "new"
         /\ pc' = [pc EXCEPT ![r] = "load"]
         /\ \E c \in Downloads : command' = [command EXCEPT ![r] = c]
         /\ toTry' \in [Runs -> Seq(Branches)]
         /\ \A q \in Runs \ {r} : toTry'[q] = toTry[q]
         /\ Len(toTry'[r]) = 1 \/ Len(toTry'[r]) = 2
         /\ UNCHANGED <<tries, branch, runVars, stores>>
         /\ faults' \in 0 .. MaxFaults
<1>1. toTry \in [Runs -> Seq(Branches)] /\ faults \in 0 .. MaxFaults /\ MaxFaults \in Nat
  BY SourceAssumption DEF TypeOK
<1>2. CASE BeginWithoutDefault(r)
  <2>1. "main" \in Branches /\ "master" \in Branches
    BY DEF Branches
  <2>2. <<"main", "master">> \in Seq(Branches) /\ Len(<<"main", "master">>) = 2
    BY <2>1
  <2>3. toTry' = [toTry EXCEPT ![r] = <<"main", "master">>]
    BY <1>2 DEF BeginWithoutDefault
  <2>4. /\ toTry' \in [Runs -> Seq(Branches)]
        /\ \A q \in Runs \ {r} : toTry'[q] = toTry[q]
        /\ Len(toTry'[r]) = 2
    BY <1>1, <2>2, <2>3
  <2>5. \E c \in Downloads : command' = [command EXCEPT ![r] = c]
    BY <1>2 DEF BeginWithoutDefault
  <2>6. faults' \in 0 .. MaxFaults
    BY <1>1, <1>2 DEF BeginWithoutDefault, Fault
  <2>7. /\ pc[r] = "new" /\ pc' = [pc EXCEPT ![r] = "load"]
        /\ UNCHANGED <<tries, branch, runVars, stores>>
    BY <1>2 DEF BeginWithoutDefault, Goto
  <2> QED
    BY <2>4, <2>5, <2>6, <2>7
<1>3. ASSUME NEW kind, Begin(r, kind)
      PROVE  /\ pc[r] = "new"
             /\ pc' = [pc EXCEPT ![r] = "load"]
             /\ \E c \in Downloads : command' = [command EXCEPT ![r] = c]
             /\ toTry' \in [Runs -> Seq(Branches)]
             /\ \A q \in Runs \ {r} : toTry'[q] = toTry[q]
             /\ Len(toTry'[r]) = 1
             /\ UNCHANGED <<tries, branch, runVars, stores, faults>>
  <2>1. PICK c \in Downloads :
          /\ command' = [command EXCEPT ![r] = c]
          /\ toTry' = [toTry EXCEPT ![r] = <<c.default>>]
    BY <1>3 DEF Begin
  <2>2. c.default \in Branches
    BY <2>1, CommandTypes
  <2>3. <<c.default>> \in Seq(Branches) /\ Len(<<c.default>>) = 1
    BY <2>2
  <2>4. /\ toTry' \in [Runs -> Seq(Branches)]
        /\ \A q \in Runs \ {r} : toTry'[q] = toTry[q]
        /\ Len(toTry'[r]) = 1
    BY <1>1, <2>1, <2>3
  <2> QED
    BY <1>3, <2>1, <2>4 DEF Begin, Goto
<1> QED
  BY <1>1, <1>2, <1>3 DEF BeginOf, BeginGithub, BeginElasticsearch, BeginYoutube, BeginReddit,
     BeginGmail

\* A graph command has nothing to do with documents.
LEMMA ParseFacts ==
  ASSUME NEW r \in Runs, ParseCompose(r) \/ ParseSwag(r)
  PROVE  /\ pc[r] = "new"
         /\ \E label \in {"write", "proxies", "failed"} : pc' = [pc EXCEPT ![r] = label]
         /\ \E c \in Files \cup Configs : command' = [command EXCEPT ![r] = c]
         /\ UNCHANGED <<tries, toTry, branch, at, chunks, sent, unheard, stores, faults>>
<1>1. ASSUME NEW c \in Files \cup Configs, NEW label \in {"write", "proxies", "failed"}, NEW statements,
             Parse(r, c, label, statements)
      PROVE  /\ pc[r] = "new"
             /\ pc' = [pc EXCEPT ![r] = label]
             /\ command' = [command EXCEPT ![r] = c]
             /\ UNCHANGED <<tries, toTry, branch, at, chunks, sent, unheard, stores, faults>>
  BY <1>1 DEF Parse, Goto
<1>2. CASE ParseCompose(r)
  <2>1. PICK f \in Files :
          \/ Parse(r, f, "write", ComposeWrites(f))
          \/ Parse(r, f, "failed", {})
    BY <1>2 DEF ParseCompose
  <2> QED
    BY <1>1, <2>1
<1>3. CASE ParseSwag(r)
  <2>1. PICK c \in Configs : Parse(r, c, "proxies", {}) \/ Parse(r, c, "failed", {})
    BY <1>3 DEF ParseSwag
  <2> QED
    BY <1>1, <2>1
<1> QED
  BY <1>2, <1>3

\* The next document of a run: its chunks go behind those there are.
LEMMA ReadFacts ==
  ASSUME TypeOK, NEW r \in Runs, PlaceInv(r), ReadDocument(r)
  PROVE  LET i == at[r] + 1
         IN  /\ pc[r] = "read" /\ pc' = pc
             /\ command[r] \in Downloads /\ branch[r] \in DOMAIN command[r].branches
             /\ i \in 1 .. Len(Docs(r))
             /\ Store(r, i)
             /\ at' \in [Runs -> Nat] /\ at'[r] = i
             /\ chunks' \in [Runs -> Seq(Points)]
             /\ Len(chunks'[r]) = Len(chunks[r]) + ChunkCount[Docs(r)[i].text]
             /\ \A j \in 1 .. Len(chunks[r]) : chunks'[r][j] = chunks[r][j]
             /\ \A k \in 1 .. ChunkCount[Docs(r)[i].text] :
                  chunks'[r][Len(chunks[r]) + k] = Chunk(r, i, k)
<1> DEFINE i == at[r] + 1
           n == ChunkCount[Docs(r)[i].text]
<1>1. /\ pc[r] = "read" /\ pc' = pc /\ i <= Len(Docs(r)) /\ Store(r, i)
      /\ chunks' = [chunks EXCEPT ![r] = @ \o ChunksOf(r, i)]
      /\ at' = [at EXCEPT ![r] = i]
  BY DEF ReadDocument
<1>2. command[r] \in Downloads /\ branch[r] \in DOMAIN command[r].branches
  BY <1>1 DEF PlaceInv, Loaded
<1>3. at \in [Runs -> Nat] /\ chunks \in [Runs -> Seq(Points)]
  BY DEF TypeOK
<1>4. i \in 1 .. Len(Docs(r)) /\ i \in Nat
  BY <1>1, <1>2, <1>3, DocsTypes
<1> HIDE DEF i
<1>5. /\ ChunksOf(r, i) \in Seq(Points) /\ Len(ChunksOf(r, i)) = n /\ n \in Nat
      /\ \A k \in 1 .. n : ChunksOf(r, i)[k] = Chunk(r, i, k)
  BY <1>2, <1>4, ChunkTypes, DocsTypes
<1> DEFINE old == chunks[r]
           new == ChunksOf(r, i)
<1> HIDE DEF n, new
<1>6. old \in Seq(Points) /\ Len(old) \in Nat
  BY <1>3
<1> HIDE DEF old
<1>7. /\ old \o new \in Seq(Points)
      /\ Len(old \o new) = Len(old) + n
      /\ \A j \in 1 .. Len(old) + n :
           (old \o new)[j] = IF j <= Len(old) THEN old[j] ELSE new[j - Len(old)]
  BY <1>5, <1>6, ConcatProperties DEF new
<1>8. chunks' = [chunks EXCEPT ![r] = old \o new]
  BY <1>1 DEF old, new
<1>9. chunks' \in [Runs -> Seq(Points)] /\ chunks'[r] = old \o new
  BY <1>3, <1>7, <1>8
<1>10. \A j \in 1 .. Len(old) : chunks'[r][j] = old[j]
  BY <1>5, <1>6, <1>7, <1>9
<1>11. ASSUME NEW k \in 1 .. n PROVE chunks'[r][Len(old) + k] = Chunk(r, i, k)
  <2>1. Len(old) + k \in 1 .. Len(old) + n /\ ~(Len(old) + k <= Len(old))
        /\ Len(old) + k - Len(old) = k
    BY <1>5, <1>6
  <2>2. chunks'[r][Len(old) + k] = new[k]
    BY <1>7, <1>9, <2>1
  <2> QED
    BY <1>5, <2>2 DEF new
<1>12. at' \in [Runs -> Nat] /\ at'[r] = i
  BY <1>1, <1>3, <1>4
<1> QED
  BY <1>1, <1>2, <1>4, <1>5, <1>7, <1>9, <1>10, <1>11, <1>12 DEF i, n, old

LEMMA TypeStep ==
  ASSUME TypeOK, \A r \in Runs : RunInv(r), [Next]_vars
  PROVE  TypeOK'
<1>1. /\ pc \in [Runs -> PCs]
      /\ command \in [Runs -> Commands \cup {NoCommand}]
      /\ toTry \in [Runs -> Seq(Branches)]
      /\ tries \in [Runs -> Nat]
      /\ \A r \in Runs : tries[r] <= MaxRetries * Len(toTry[r])
      /\ branch \in [Runs -> Branches \cup {None}]
      /\ at \in [Runs -> Nat]
      /\ chunks \in [Runs -> Seq(Points)]
      /\ sent \in [Runs -> Nat]
      /\ rows \in [Texts -> StoredIds \cup {NoRow}]
      /\ points \subseteq Points
      /\ faults \in 0 .. MaxFaults
  BY DEF TypeOK, PCs
<1>2. Fault => faults' \in 0 .. MaxFaults
  BY <1>1, SourceAssumption DEF Fault
<1>3. CASE UNCHANGED vars
  BY <1>1, <1>3 DEF TypeOK, vars, readerVars, runVars, stores
<1>4. ASSUME NEW r \in Runs, StepOf(r)
      PROVE  TypeOK'
  <2>0. PlaceInv(r) /\ ChunkInv(r) /\ \A l \in PCs : [pc EXCEPT ![r] = l] \in [Runs -> PCs]
    BY <1>1 DEF RunInv
  <2>1. CASE BeginOf(r)
    <3>1. pc' \in [Runs -> PCs]
      BY <2>0, <2>1, BeginFacts DEF PCs
    <3>2. command' \in [Runs -> Commands \cup {NoCommand}]
      BY <1>1, <2>1, BeginFacts DEF Commands
    <3>3. \A q \in Runs : tries'[q] <= MaxRetries * Len(toTry'[q])
      <4>1. toTry'[r] \in Seq(Branches) /\ (Len(toTry'[r]) = 1 \/ Len(toTry'[r]) = 2)
        BY <2>1, BeginFacts
      <4>2. 0 < MaxRetries * Len(toTry'[r]) /\ MaxRetries * Len(toTry'[r]) \in Nat
        BY <4>1, Attempts
      <4>3. tries' = tries /\ tries[r] = 0
        BY <2>0, <2>1, BeginFacts DEF PlaceInv
      <4>4. \A q \in Runs \ {r} : toTry'[q] = toTry[q]
        BY <2>1, BeginFacts
      <4>5. tries'[r] <= MaxRetries * Len(toTry'[r])
        BY <4>2, <4>3
      <4>6. ASSUME NEW q \in Runs, q # r PROVE tries'[q] <= MaxRetries * Len(toTry'[q])
        <5>1. tries'[q] = tries[q] /\ toTry'[q] = toTry[q]
          BY <4>3, <4>4, <4>6
        <5> QED
          BY <1>1, <5>1
      <4> QED
        BY <4>5, <4>6
    <3> QED
      BY <1>1, <2>1, <3>1, <3>2, <3>3, BeginFacts DEF TypeOK, PCs, runVars, stores
  <2>2. CASE ParseCompose(r) \/ ParseSwag(r)
    <3>1. /\ pc' \in [Runs -> PCs]
          /\ UNCHANGED <<tries, toTry, branch, at, chunks, sent, stores, faults>>
      BY <2>0, <2>2, ParseFacts DEF PCs, Ended
    <3>2. command' \in [Runs -> Commands \cup {NoCommand}]
      BY <1>1, <2>2, ParseFacts DEF Commands
    <3> QED
      BY <1>1, <3>1, <3>2 DEF TypeOK, PCs, stores
  <2>3. CASE Load(r)
    <3>1. BranchTried(r) \in Branches
      BY <2>0, <2>3, CommandTypes DEF Load, HasBranch, PlaceInv
    <3>2. branch' \in [Runs -> Branches \cup {None}] /\ pc' \in [Runs -> PCs]
      BY <1>1, <2>0, <2>3, <3>1 DEF Load, Goto, PCs
    <3> QED
      BY <1>1, <2>3, <3>2 DEF Load, TypeOK, PCs, runVars, stores
  <2>4. CASE BranchMissing(r) \/ LoadFails(r)
    <3>1. TryAgain(r) /\ faults' \in 0 .. MaxFaults
      BY <1>1, <1>2, <2>4 DEF BranchMissing, LoadFails
    <3>2. pc[r] = "load" /\ tries[r] < MaxRetries * Len(toTry[r])
      BY <2>0, <3>1 DEF TryAgain, PlaceInv
    <3>3. toTry[r] \in Seq(Branches) /\ MaxRetries * Len(toTry[r]) \in Nat
      BY <1>1, Attempts
    <3>4. /\ tries' \in [Runs -> Nat] /\ toTry' = toTry
          /\ \A q \in Runs : tries'[q] <= MaxRetries * Len(toTry'[q])
      BY <1>1, <3>1, <3>2, <3>3 DEF TryAgain
    <3>5. pc' \in [Runs -> PCs]
      BY <2>0, <3>1 DEF TryAgain, Goto, PCs, Ended
    <3> QED
      BY <1>1, <3>1, <3>4, <3>5 DEF TryAgain, TypeOK, PCs, runVars, stores
  <2>5. CASE ReadDocument(r)
    <3>1. rows' \in [Texts -> StoredIds \cup {NoRow}]
      BY <2>0, <2>5, ReadFacts, StoreTypes
    <3>2. pc' = pc /\ at' \in [Runs -> Nat] /\ chunks' \in [Runs -> Seq(Points)]
      BY <2>0, <2>5, ReadFacts
    <3> QED
      BY <1>1, <2>5, <3>1, <3>2 DEF ReadDocument, TypeOK, PCs, readerVars
  <2>6. CASE ReadFails(r)
    <3>1. pc' \in [Runs -> PCs]
      BY <2>0, <2>6 DEF ReadFails, Goto, PCs, Ended
    <3>2. rows' \in [Texts -> StoredIds \cup {NoRow}]
      <4>1. CASE UNCHANGED rows
        BY <1>1, <4>1
      <4>2. CASE Store(r, at[r] + 1)
        <5>1. /\ command[r] \in Downloads /\ branch[r] \in DOMAIN command[r].branches
              /\ at[r] < Len(Docs(r)) /\ at[r] \in Nat
          BY <1>1, <2>0, <2>6 DEF ReadFails, PlaceInv, Loaded
        <5>2. at[r] + 1 \in 1 .. Len(Docs(r))
          BY <5>1, DocsTypes
        <5> QED
          BY <4>2, <5>1, <5>2, StoreTypes
      <4> QED
        BY <2>6, <4>1, <4>2 DEF ReadFails
    <3> QED
      BY <1>1, <1>2, <2>6, <3>1, <3>2 DEF ReadFails, TypeOK, PCs, readerVars, runVars
  <2>7. CASE FinishOf(r) \/ Embed(r) \/ WriteProxies(r) \/ FinishWriting(r)
    <3>1. pc' \in [Runs -> PCs] /\ UNCHANGED <<readerVars, runVars, stores, faults>>
      BY <2>0, <2>7 DEF FinishOf, FinishGithub, FinishElasticsearch, FinishYoutube, FinishReddit,
         FinishGmail, FinishReading, Embed, WriteProxies, FinishWriting, Goto, PCs, Ended
    <3> QED
      BY <1>1, <3>1 DEF TypeOK, PCs, readerVars, runVars, stores
  <2>8. CASE UpsertBatch(r)
    <3>1. BatchEnd(r) \in Nat /\ Batch(r) \subseteq Points
      BY <2>0, BatchTypes DEF ChunkInv
    <3>2. pc' \in [Runs -> PCs] /\ sent' \in [Runs -> Nat] /\ points' \subseteq Points
      BY <1>1, <2>0, <2>8, <3>1 DEF UpsertBatch, Goto, PCs, Ended
    <3> QED
      BY <1>1, <2>8, <3>2 DEF UpsertBatch, TypeOK, PCs, readerVars
  <2>9. CASE UpsertFails(r)
    <3>1. Batch(r) \subseteq Points
      BY <2>0, BatchTypes DEF ChunkInv
    <3>2. pc' \in [Runs -> PCs] /\ points' \subseteq Points
      BY <1>1, <2>0, <2>9, <3>1 DEF UpsertFails, Goto, PCs, Ended
    <3> QED
      BY <1>1, <1>2, <2>9, <3>2 DEF UpsertFails, TypeOK, PCs, readerVars, runVars
  <2>10. CASE RunStatement(r) \/ LastAnswerUnread(r)
    <3>1. /\ UNCHANGED <<pc, readerVars, at, chunks, sent, rows, points>>
          /\ faults' \in 0 .. MaxFaults
      BY <1>1, <1>2, <2>10 DEF RunStatement, LastAnswerUnread
    <3> QED
      BY <1>1, <3>1 DEF TypeOK, PCs, readerVars
  <2>11. CASE StatementFails(r) \/ Fail(r)
    <3>1. /\ pc' \in [Runs -> PCs] /\ faults' \in 0 .. MaxFaults
          /\ UNCHANGED <<readerVars, runVars, rows, points>>
      BY <1>2, <2>0, <2>11 DEF StatementFails, Fail, Goto, PCs, Ended, stores
    <3> QED
      BY <1>1, <3>1 DEF TypeOK, PCs, readerVars, runVars
  <2> QED
    BY <1>4, <2>1, <2>2, <2>3, <2>4, <2>5, <2>6, <2>7, <2>8, <2>9, <2>10, <2>11
       DEF StepOf, Step, Failure, FinishOf
<1> QED
  BY <1>3, <1>4 DEF Next, StepOf, BeginOf

(***************************************************************************)
(* What a step leaves alone.                                               *)
(***************************************************************************)
\* Neither Qdrant nor PostgreSQL loses anything.
LEMMA StoresGrow ==
  ASSUME TypeOK, NEW r \in Runs, RunInv(r), StepOf(r)
  PROVE  /\ points \subseteq points'
         /\ \A t \in Texts : rows[t] # NoRow => rows'[t] # NoRow
<1>1. points \subseteq points'
  BY DEF StepOf, BeginOf, BeginGithub, BeginElasticsearch, BeginYoutube, BeginReddit, BeginGmail,
     Begin, BeginWithoutDefault, ParseCompose, ParseSwag, Parse, Step, Failure, Load,
     BranchMissing, LoadFails, TryAgain, ReadDocument, ReadFails, FinishGithub,
     FinishElasticsearch, FinishYoutube, FinishReddit, FinishGmail, FinishReading, Embed,
     UpsertBatch, UpsertFails, WriteProxies, RunStatement, FinishWriting, StatementFails, LastAnswerUnread, Fail, stores
<1>2. ASSUME ReadDocument(r) PROVE \A t \in Texts : rows[t] # NoRow => rows'[t] # NoRow
  BY <1>2, ReadFacts, StoreTypes DEF RunInv
<1>3. ASSUME ReadFails(r), ~UNCHANGED rows
      PROVE  \A t \in Texts : rows[t] # NoRow => rows'[t] # NoRow
  <2>1. at[r] < Len(Docs(r)) /\ at[r] \in Nat /\ pc[r] = "read" /\ Store(r, at[r] + 1)
    BY <1>3 DEF ReadFails, TypeOK
  <2>2. command[r] \in Downloads /\ branch[r] \in DOMAIN command[r].branches
    BY <2>1 DEF RunInv, PlaceInv, Loaded
  <2>3. at[r] + 1 \in 1 .. Len(Docs(r))
    BY <2>1, <2>2, DocsTypes
  <2> QED
    BY <2>1, <2>2, <2>3, StoreTypes
<1>4. ReadDocument(r) \/ ReadFails(r) \/ UNCHANGED rows
  BY DEF StepOf, BeginOf, BeginGithub, BeginElasticsearch, BeginYoutube, BeginReddit, BeginGmail,
     Begin, BeginWithoutDefault, ParseCompose, ParseSwag, Parse, Step, Failure, Load,
     BranchMissing, LoadFails, TryAgain, FinishGithub,
     FinishElasticsearch, FinishYoutube, FinishReddit, FinishGmail, FinishReading, Embed,
     UpsertBatch, UpsertFails, WriteProxies, RunStatement, FinishWriting, StatementFails, LastAnswerUnread, Fail, stores
<1> QED
  BY <1>1, <1>2, <1>3, <1>4

LEMMA OthersFrame ==
  ASSUME TypeOK, NEW r \in Runs, RunInv(r), StepOf(r), NEW q \in Runs, q # r
  PROVE  /\ pc'[q] = pc[q] /\ command'[q] = command[q] /\ tries'[q] = tries[q]
         /\ toTry'[q] = toTry[q] /\ branch'[q] = branch[q] /\ at'[q] = at[q]
         /\ chunks'[q] = chunks[q] /\ sent'[q] = sent[q]
<1>0. /\ pc \in [Runs -> PCs]
      /\ DOMAIN command = Runs /\ DOMAIN tries = Runs /\ DOMAIN toTry = Runs
      /\ DOMAIN branch = Runs /\ DOMAIN at = Runs /\ DOMAIN chunks = Runs /\ DOMAIN sent = Runs
  BY DEF TypeOK, PCs
<1>1. CASE BeginOf(r)
  BY <1>0, <1>1, BeginFacts DEF runVars
<1>2. CASE ParseCompose(r) \/ ParseSwag(r)
  BY <1>0, <1>2, ParseFacts
<1>3. CASE BranchMissing(r) \/ LoadFails(r)
  BY <1>0, <1>3 DEF BranchMissing, LoadFails, TryAgain, Goto, runVars
<1>4. CASE Load(r) \/ ReadDocument(r)
  BY <1>0, <1>4 DEF Load, ReadDocument, Goto, readerVars, runVars
<1>5. CASE FinishOf(r) \/ Embed(r) \/ WriteProxies(r) \/ FinishWriting(r)
  BY <1>0, <1>5 DEF FinishOf, FinishGithub, FinishElasticsearch, FinishYoutube, FinishReddit,
     FinishGmail, FinishReading, Embed, WriteProxies, FinishWriting, Goto, readerVars, runVars
<1>6. CASE UpsertBatch(r) \/ RunStatement(r) \/ LastAnswerUnread(r)
  BY <1>0, <1>6 DEF UpsertBatch, RunStatement, LastAnswerUnread, Goto, readerVars
<1>7. CASE ReadFails(r) \/ UpsertFails(r) \/ StatementFails(r) \/ Fail(r)
  BY <1>0, <1>7 DEF ReadFails, UpsertFails, StatementFails, Fail, Goto, readerVars, runVars
<1> QED
  BY <1>1, <1>2, <1>3, <1>4, <1>5, <1>6, <1>7 DEF StepOf, Step, Failure, FinishOf

\* The documents of a run and the ids of its chunks follow from its command
\* and branch.
LEMMA SameDocuments ==
  ASSUME NEW r \in Runs, command'[r] = command[r], branch'[r] = branch[r]
  PROVE  /\ Docs(r)' = Docs(r)
         /\ IsStored(r)' = IsStored(r)
         /\ IsDownload(r)' = IsDownload(r)
         /\ \A i, k : Chunk(r, i, k)' = Chunk(r, i, k)
<1>1. /\ Docs(r)' = Docs(r) /\ KindOf(r)' = KindOf(r)
      /\ IsStored(r)' = IsStored(r) /\ IsDownload(r)' = IsDownload(r)
  BY DEF Docs, KindOf, IsStored, IsDownload
<1>2. ASSUME NEW i PROVE DocId(r, i)' = DocId(r, i)
  BY <1>1 DEF DocId, GithubDocId, ElasticsearchDocId, DrawnDocId
<1>3. ASSUME NEW i, NEW k PROVE Chunk(r, i, k)' = Chunk(r, i, k)
  BY <1>1, <1>2 DEF Chunk
<1> QED
  BY <1>1, <1>3

LEMMA PointTexts ==
  ASSUME NEW p \in Points
  PROVE  TextOf(p) \in Texts
  BY DEF Points, TextOf, StoredIds, DrawnIds

\* A run that only moves, in stores that only grow, keeps what it has.
LEMMA ChunksKept ==
  ASSUME TypeOK, NEW r \in Runs, RunInv(r),
         command'[r] = command[r], branch'[r] = branch[r], at'[r] = at[r],
         chunks'[r] = chunks[r], sent'[r] = sent[r], Loaded(r)' => Loaded(r),
         points \subseteq points', \A t \in Texts : rows[t] # NoRow => rows'[t] # NoRow
  PROVE  ChunkInv(r)'
<1>1. chunks[r] \in Seq(Points) /\ at[r] \in Nat
  BY DEF TypeOK
<1>2. \A j \in 1 .. Len(chunks[r]) : chunks[r][j] \in Points
  BY <1>1, ElementOfSeq
<1>3. ASSUME NEW j \in 1 .. Len(chunks[r]) PROVE HasContent(chunks[r][j])'
  <2>1. TextOf(chunks[r][j]) \in Texts
    BY <1>2, PointTexts
  <2>2. HasContent(chunks[r][j])
    BY DEF RunInv, ChunkInv
  <2>3. ToBeExtracted(chunks[r][j])' = ToBeExtracted(chunks[r][j])
        /\ TextOf(chunks[r][j])' = TextOf(chunks[r][j])
    BY DEF ToBeExtracted, TextOf
  <2> QED
    BY <2>1, <2>2, <2>3 DEF HasContent
<1>4. ASSUME Loaded(r)', NEW i \in 1 .. at[r] PROVE ReadInv(r, i)'
  <2>1. Loaded(r) /\ ReadInv(r, i)
    BY <1>4 DEF RunInv, ChunkInv
  <2>2. /\ command[r] \in Downloads /\ branch[r] \in DOMAIN command[r].branches
        /\ at[r] <= Len(Docs(r))
    BY <2>1 DEF RunInv, PlaceInv
  <2>3. i \in 1 .. Len(Docs(r))
    BY <1>1, <2>2, DocsTypes
  <2>4. Docs(r)[i].text \in Texts
    BY <2>2, <2>3, DocsTypes
  <2> QED
    BY <2>1, <2>4, SameDocuments DEF ReadInv
<1>5. sent[r] <= Len(chunks[r]) /\ \A j \in 1 .. sent[r] : chunks[r][j] \in points'
  BY DEF RunInv, ChunkInv
<1> QED
  BY <1>3, <1>4, <1>5 DEF ChunkInv

LEMMA OthersKeep ==
  ASSUME TypeOK, NEW r \in Runs, RunInv(r), StepOf(r), NEW q \in Runs, q # r, RunInv(q)
  PROVE  RunInv(q)'
<1>1. /\ pc'[q] = pc[q] /\ command'[q] = command[q] /\ tries'[q] = tries[q]
      /\ toTry'[q] = toTry[q] /\ branch'[q] = branch[q] /\ at'[q] = at[q]
      /\ chunks'[q] = chunks[q] /\ sent'[q] = sent[q]
  BY OthersFrame
<1>2. Docs(q)' = Docs(q) /\ IsDownload(q)' = IsDownload(q)
  BY <1>1, SameDocuments
<1>3. Loaded(q)' = Loaded(q)
  BY <1>1, <1>2 DEF Loaded
<1>4. PlaceInv(q)'
  BY <1>1, <1>2, <1>3 DEF RunInv, PlaceInv
<1>5. ChunkInv(q)'
  BY <1>1, <1>3, StoresGrow, ChunksKept
<1> QED
  BY <1>4, <1>5 DEF RunInv

(***************************************************************************)
(* The invariant is kept.                                                  *)
(***************************************************************************)
\* The chunks of the next document are the last ones of the run, its content is
\* stored, and so are those of the documents before.
LEMMA ReadKeeps ==
  ASSUME TypeOK, NEW r \in Runs, RunInv(r), ReadDocument(r)
  PROVE  RunInv(r)'
<1> DEFINE i == at[r] + 1
           n == ChunkCount[Docs(r)[i].text]
           m == Len(chunks[r])
<1>1. /\ pc[r] = "read" /\ pc' = pc /\ UNCHANGED <<readerVars, sent, points>>
      /\ command[r] \in Downloads /\ branch[r] \in DOMAIN command[r].branches
      /\ i \in 1 .. Len(Docs(r)) /\ Store(r, i) /\ at'[r] = i
      /\ Len(chunks'[r]) = m + n
      /\ \A j \in 1 .. m : chunks'[r][j] = chunks[r][j]
      /\ \A k \in 1 .. n : chunks'[r][m + k] = Chunk(r, i, k)
  BY ReadFacts DEF RunInv, ReadDocument
<1>2. /\ Docs(r)' = Docs(r) /\ IsStored(r)' = IsStored(r) /\ IsDownload(r)' = IsDownload(r)
      /\ \A l, k : Chunk(r, l, k)' = Chunk(r, l, k)
  BY <1>1, SameDocuments DEF readerVars
<1>3. /\ \A t \in Texts : rows[t] # NoRow => rows'[t] # NoRow
      /\ IsStored(r) => rows'[Docs(r)[i].text] # NoRow
  BY <1>1, StoreTypes
<1>4. m \in Nat /\ n \in Nat /\ at[r] \in Nat /\ chunks[r] \in Seq(Points) /\ sent[r] = 0
      /\ Len(Docs(r)) \in Nat
  BY <1>1, DocsTypes DEF TypeOK, RunInv, PlaceInv
<1>5. PlaceInv(r)'
  BY <1>1, <1>2, <1>4 DEF RunInv, PlaceInv, Loaded, readerVars
<1> HIDE DEF m
<1>6. ASSUME NEW j \in 1 .. m + n PROVE HasContent(chunks[r][j])'
  <2>1. CASE j \in 1 .. m
    <3>1. chunks[r][j] \in Points /\ HasContent(chunks[r][j])
      BY <1>4, <2>1, ElementOfSeq DEF RunInv, ChunkInv, m
    <3> QED
      BY <1>1, <1>3, <2>1, <3>1, PointTexts DEF HasContent, ToBeExtracted, TextOf
  <2>2. CASE j \notin 1 .. m
    <3>1. j - m \in 1 .. n /\ m + (j - m) = j
      BY <1>4, <1>6, <2>2
    <3>2. chunks'[r][j] = Chunk(r, i, j - m)
      BY <1>1, <3>1
    <3>3. /\ TextOf(Chunk(r, i, j - m)) = Docs(r)[i].text
          /\ ToBeExtracted(Chunk(r, i, j - m)) => IsStored(r)
      BY <1>1, <3>1, ChunkTypes
    <3> QED
      BY <1>3, <3>2, <3>3 DEF HasContent, ToBeExtracted, TextOf
  <2> QED
    BY <2>1, <2>2
<1>7. ASSUME NEW l \in 1 .. i PROVE ReadInv(r, l)'
  <2>1. CASE l \in 1 .. at[r]
    <3>1. ReadInv(r, l)
      BY <1>1, <2>1 DEF RunInv, ChunkInv, Loaded
    <3>2. Docs(r)[l].text \in Texts
      BY <1>1, <1>4, <2>1, DocsTypes
    <3>3. ASSUME NEW k \in 1 .. ChunkCount[Docs(r)[l].text]
          PROVE  \E j \in 1 .. m + n : chunks'[r][j] = Chunk(r, l, k)
      <4>1. PICK j \in 1 .. m : chunks[r][j] = Chunk(r, l, k)
        BY <3>1 DEF ReadInv, m
      <4>2. j \in 1 .. m + n
        BY <1>4
      <4> QED
        BY <1>1, <4>1, <4>2
    <3> QED
      BY <1>1, <1>2, <1>3, <3>1, <3>2, <3>3 DEF ReadInv
  <2>2. CASE l = i
    <3>1. ASSUME NEW k \in 1 .. n
          PROVE  \E j \in 1 .. m + n : chunks'[r][j] = Chunk(r, i, k)
      <4>1. m + k \in 1 .. m + n
        BY <1>4
      <4> QED
        BY <1>1, <4>1
    <3> QED
      BY <1>1, <1>2, <1>3, <2>2, <3>1 DEF ReadInv
  <2> QED
    BY <1>4, <1>7, <2>1, <2>2
<1>8. ChunkInv(r)'
  BY <1>1, <1>4, <1>6, <1>7 DEF ChunkInv
<1> QED
  BY <1>5, <1>8 DEF RunInv

\* What is sent is in Qdrant, and the last batch ends at the last chunk.
LEMMA UpsertKeeps ==
  ASSUME TypeOK, NEW r \in Runs, RunInv(r), UpsertBatch(r)
  PROVE  RunInv(r)'
<1>1. /\ pc[r] = "upsert" /\ UNCHANGED <<readerVars, at, chunks, rows>>
      /\ points' = points \cup Batch(r) /\ sent'[r] = BatchEnd(r)
      /\ pc'[r] = IF BatchEnd(r) = Len(chunks[r]) THEN "done" ELSE "upsert"
  BY DEF UpsertBatch, Goto, TypeOK
<1>2. /\ Docs(r)' = Docs(r) /\ IsStored(r)' = IsStored(r) /\ IsDownload(r)' = IsDownload(r)
      /\ \A l, k : Chunk(r, l, k)' = Chunk(r, l, k)
  BY <1>1, SameDocuments DEF readerVars
<1>3. /\ sent[r] <= Len(chunks[r]) /\ Loaded(r)
      /\ Len(chunks[r]) \in Nat /\ sent[r] \in Nat
      /\ BatchEnd(r) \in Nat /\ BatchEnd(r) <= Len(chunks[r])
  BY <1>1, BatchTypes DEF RunInv, ChunkInv, Loaded
<1>4. PlaceInv(r)'
  BY <1>1, <1>2, <1>3 DEF RunInv, PlaceInv, Loaded, readerVars
<1>5. ASSUME NEW j \in 1 .. BatchEnd(r) PROVE chunks[r][j] \in points'
  <2>1. CASE j \in 1 .. sent[r]
    BY <1>1, <2>1 DEF RunInv, ChunkInv
  <2>2. CASE j \in sent[r] + 1 .. BatchEnd(r)
    BY <1>1, <2>2 DEF Batch
  <2> QED
    BY <1>3, <2>1, <2>2
<1>6. \A j \in 1 .. Len(chunks[r]) : HasContent(chunks[r][j])'
  BY <1>1 DEF RunInv, ChunkInv, HasContent, ToBeExtracted, TextOf
<1>7. \A l \in 1 .. at[r] : ReadInv(r, l)'
  BY <1>1, <1>2, <1>3 DEF RunInv, ChunkInv, ReadInv
<1> QED
  BY <1>1, <1>3, <1>4, <1>5, <1>6, <1>7 DEF RunInv, ChunkInv

\* A run that fails has nothing more to show than its chunks.
LEMMA FailedKeeps ==
  ASSUME TypeOK, NEW r \in Runs, RunInv(r), StepOf(r), pc'[r] \in {"failed", "ignored"},
         UNCHANGED <<readerVars, runVars>>
  PROVE  RunInv(r)'
<1>1. ~Loaded(r)'
  BY DEF Loaded
<1>2. ChunkInv(r)'
  BY <1>1, StoresGrow, ChunksKept DEF readerVars, runVars
<1>3. PlaceInv(r)'
  BY <1>1 DEF PlaceInv, Loaded
<1> QED
  BY <1>2, <1>3 DEF RunInv

LEMMA OwnStepKeeps ==
  ASSUME TypeOK, NEW r \in Runs, RunInv(r), StepOf(r)
  PROVE  RunInv(r)'
<1>0. /\ pc \in [Runs -> PCs] /\ PlaceInv(r) /\ ChunkInv(r)
      /\ DOMAIN command = Runs /\ DOMAIN tries = Runs /\ DOMAIN branch = Runs
      /\ at[r] \in Nat /\ sent[r] \in Nat
  BY DEF TypeOK, PCs, RunInv
<1>1. CASE BeginOf(r)
  <2>1. /\ pc[r] = "new" /\ pc'[r] = "load" /\ UNCHANGED <<tries, runVars, stores>>
        /\ command'[r] \in Downloads
        /\ toTry'[r] \in Seq(Branches) /\ (Len(toTry'[r]) = 1 \/ Len(toTry'[r]) = 2)
    BY <1>0, <1>1, BeginFacts
  <2>2. 0 < MaxRetries * Len(toTry'[r])
    BY <2>1, Attempts
  <2>3. at[r] = 0 /\ chunks[r] = <<>> /\ sent[r] = 0 /\ tries[r] = 0 /\ Len(<<>>) = 0
    BY <1>0, <2>1 DEF PlaceInv
  <2> QED
    BY <2>1, <2>2, <2>3 DEF RunInv, PlaceInv, ChunkInv, Loaded, runVars
<1>2. CASE ParseCompose(r) \/ ParseSwag(r)
  <2>1. /\ pc[r] = "new" /\ pc'[r] \in {"write", "proxies", "failed"} /\ UNCHANGED <<at, chunks, sent>>
        /\ command'[r] \notin Downloads
    BY <1>0, <1>2, ParseFacts, GraphCommands
  <2>2. at[r] = 0 /\ chunks[r] = <<>> /\ sent[r] = 0 /\ Len(<<>>) = 0
    BY <1>0, <2>1 DEF PlaceInv
  <2> QED
    BY <2>1, <2>2 DEF RunInv, PlaceInv, ChunkInv, Loaded
<1>3. CASE Load(r)
  <2>1. /\ pc[r] = "load" /\ pc'[r] = "read" /\ UNCHANGED <<command, runVars>>
        /\ command[r] \in Downloads /\ branch'[r] \in DOMAIN command[r].branches
    BY <1>0, <1>3 DEF Load, HasBranch, Goto, PlaceInv
  <2>2. at[r] = 0 /\ chunks[r] = <<>> /\ sent[r] = 0 /\ Len(<<>>) = 0
    BY <1>0, <2>1 DEF PlaceInv
  <2>3. Len(Docs(r)') \in Nat
    <3>1. command[r].branches[branch'[r]] \in Seq([item : Items, text : Texts])
          /\ command[r].limit \in Nat
      BY <2>1, CommandTypes
    <3> DEFINE all == command[r].branches[branch'[r]]
               n == IF command[r].limit < Len(all) THEN command[r].limit ELSE Len(all)
    <3>2. Docs(r)' = SubSeq(all, 1, n)
      BY <2>1 DEF Docs
    <3>3. n \in 0 .. Len(all) /\ Len(all) \in Nat
      BY <3>1
    <3> HIDE DEF n, all
    <3>4. \A i \in 1 .. n : all[i] \in [item : Items, text : Texts]
      <4>1. \A i \in 1 .. Len(all) : all[i] \in [item : Items, text : Texts]
        BY <3>1, ElementOfSeq DEF all
      <4> QED
        BY <3>3, <4>1
    <3>5. n \in Int /\ 1 \in Int
      BY <3>3
    <3>6. SubSeq(all, 1, n) \in Seq([item : Items, text : Texts])
      BY <3>4, <3>5, SubSeqProperties
    <3> QED
      BY <3>2, <3>6
  <2> QED
    BY <2>1, <2>2, <2>3 DEF RunInv, PlaceInv, ChunkInv, Loaded, runVars
<1>4. CASE BranchMissing(r) \/ LoadFails(r)
  <2>1. /\ pc[r] = "load" /\ UNCHANGED <<command, toTry, runVars>> /\ tries'[r] = tries[r] + 1
        /\ pc'[r] = IF tries[r] + 1 < MaxRetries * Len(toTry[r]) THEN "load" ELSE "failed"
    BY <1>0, <1>4 DEF BranchMissing, LoadFails, TryAgain, Goto
  <2>2. /\ at[r] = 0 /\ chunks[r] = <<>> /\ sent[r] = 0 /\ Len(<<>>) = 0
        /\ command[r] \in Downloads
    BY <1>0, <2>1 DEF PlaceInv
  <2> QED
    BY <2>1, <2>2 DEF RunInv, PlaceInv, ChunkInv, Loaded, runVars
<1>5. CASE FinishOf(r) \/ Embed(r)
  <2>1. /\ pc[r] \in {"read", "embed"} /\ pc'[r] \in {"done", "ignored", "embed", "upsert"}
        /\ UNCHANGED <<readerVars, runVars, stores>>
        /\ pc'[r] = "done" => chunks[r] = <<>>
        /\ pc'[r] = "embed" => pc[r] = "read"
        /\ pc[r] = "read" => at[r] = Len(Docs(r))
    BY <1>0, <1>5 DEF FinishOf, FinishGithub, FinishElasticsearch, FinishYoutube, FinishReddit,
       FinishGmail, FinishReading, Embed, Goto
  <2>2. Loaded(r) /\ sent[r] = 0 /\ Len(<<>>) = 0 /\ at[r] = Len(Docs(r))
    BY <1>0, <2>1 DEF Loaded, PlaceInv
  <2>3. Docs(r)' = Docs(r) /\ IsDownload(r)' = IsDownload(r)
    BY <2>1, SameDocuments DEF readerVars
  <2>4. ChunkInv(r)'
    BY <2>1, <2>2, ChunksKept DEF readerVars, runVars, stores
  <2>5. PlaceInv(r)'
    BY <1>0, <2>1, <2>2, <2>3 DEF PlaceInv, Loaded, readerVars, runVars
  <2> QED
    BY <2>4, <2>5 DEF RunInv
<1>6. CASE RunStatement(r) \/ LastAnswerUnread(r) \/ FinishWriting(r)
  <2>1. /\ pc[r] = "write" /\ pc'[r] \in {"write", "done"}
        /\ UNCHANGED <<readerVars, chunks, sent, rows, points>>
    BY <1>0, <1>6 DEF RunStatement, LastAnswerUnread, FinishWriting, Goto, runVars, stores
  <2>2. command[r] \notin Downloads
    BY <1>0, <2>1 DEF PlaceInv
  <2>3. ~Loaded(r)' /\ command'[r] \notin Downloads
    BY <2>1, <2>2 DEF Loaded, IsDownload, readerVars
  <2>4. PlaceInv(r)'
    BY <2>1, <2>3 DEF PlaceInv, Loaded
  <2>5. ChunkInv(r)'
    BY <1>0, <2>1, <2>3 DEF ChunkInv, HasContent, ToBeExtracted, TextOf
  <2> QED
    BY <2>4, <2>5 DEF RunInv
<1>7. CASE WriteProxies(r) \/ ReadFails(r) \/ UpsertFails(r) \/ StatementFails(r) \/ Fail(r)
  <2>1. pc'[r] \in {"failed", "ignored"} /\ UNCHANGED <<readerVars, runVars>>
    BY <1>0, <1>7 DEF WriteProxies, ReadFails, UpsertFails, StatementFails, Fail, Goto
  <2> QED
    BY <2>1, FailedKeeps
<1> QED
  BY <1>1, <1>2, <1>3, <1>4, <1>5, <1>6, <1>7, ReadKeeps, UpsertKeeps
     DEF StepOf, Step, Failure, FinishOf

\* A vector that is written is one of a chunk of the run.
LEMMA PointsKeep ==
  ASSUME TypeOK, \A p \in points : HasContent(p), NEW r \in Runs, RunInv(r), StepOf(r)
  PROVE  \A p \in points' : HasContent(p)'
<1> SUFFICES ASSUME NEW p \in points' PROVE HasContent(p)'
  OBVIOUS
<1>1. \A t \in Texts : rows[t] # NoRow => rows'[t] # NoRow
  BY StoresGrow
<1>2. /\ sent[r] <= Len(chunks[r])
      /\ \A j \in 1 .. Len(chunks[r]) : HasContent(chunks[r][j])
  BY DEF RunInv, ChunkInv
<1>3. p \in points \/ p \in Batch(r)
  BY DEF StepOf, BeginOf, BeginGithub, BeginElasticsearch, BeginYoutube, BeginReddit, BeginGmail,
     Begin, BeginWithoutDefault, ParseCompose, ParseSwag, Parse, Step, Failure, Load,
     BranchMissing, LoadFails, TryAgain, ReadDocument, ReadFails, FinishGithub,
     FinishElasticsearch, FinishYoutube, FinishReddit, FinishGmail, FinishReading, Embed,
     UpsertBatch, UpsertFails, WriteProxies, RunStatement, FinishWriting, StatementFails, LastAnswerUnread, Fail, stores
<1>4. p \in Points /\ HasContent(p)
  <2>1. CASE p \in points
    BY <2>1 DEF TypeOK
  <2>2. CASE p \in Batch(r)
    BY <1>2, <2>2, BatchTypes
  <2> QED
    BY <1>3, <2>1, <2>2
<1> QED
  BY <1>1, <1>4, PointTexts DEF HasContent, ToBeExtracted, TextOf

LEMMA InvInit == Init => Inv
<1> SUFFICES ASSUME Init PROVE Inv
  OBVIOUS
<1>1. <<>> \in Seq(Branches) /\ <<>> \in Seq(Points) /\ Len(<<>>) = 0
      /\ MaxRetries * 0 = 0 /\ MaxFaults \in Nat
  BY SourceAssumption, EmptySeq
<1>2. TypeOK
  BY <1>1 DEF Init, TypeOK
<1>3. \A r \in Runs : RunInv(r)
  BY <1>1 DEF Init, RunInv, PlaceInv, ChunkInv, Loaded
<1> QED
  BY <1>2, <1>3 DEF Inv, Init

LEMMA InvStep == Inv /\ [Next]_vars => Inv'
<1> SUFFICES ASSUME Inv, [Next]_vars PROVE Inv'
  OBVIOUS
<1>1. TypeOK'
  BY TypeStep DEF Inv
<1>2. CASE UNCHANGED vars
  <2>1. UNCHANGED <<pc, command, tries, toTry, branch, at, chunks, sent, rows, points>>
    BY <1>2 DEF vars, readerVars, runVars, stores
  <2>2. ASSUME NEW r \in Runs PROVE RunInv(r)'
    <3>1. Docs(r)' = Docs(r) /\ IsDownload(r)' = IsDownload(r)
      BY <2>1, SameDocuments
    <3>2. Loaded(r)' = Loaded(r)
      BY <2>1, <3>1 DEF Loaded
    <3>3. PlaceInv(r)'
      BY <2>1, <3>1, <3>2 DEF Inv, RunInv, PlaceInv
    <3>4. ChunkInv(r)'
      BY <2>1, <3>2, ChunksKept DEF Inv
    <3> QED
      BY <3>3, <3>4 DEF RunInv
  <2>3. \A p \in points' : HasContent(p)'
    BY <2>1 DEF Inv, HasContent, ToBeExtracted, TextOf
  <2> QED
    BY <1>1, <2>2, <2>3 DEF Inv
<1>3. ASSUME NEW r \in Runs, StepOf(r) PROVE Inv'
  <2>1. \A q \in Runs : RunInv(q)'
    BY <1>3, OwnStepKeeps, OthersKeep DEF Inv
  <2>2. \A p \in points' : HasContent(p)'
    BY <1>3, PointsKeep DEF Inv
  <2> QED
    BY <1>1, <2>1, <2>2 DEF Inv
<1> QED
  BY <1>2, <1>3 DEF Next, StepOf, BeginOf

(***************************************************************************)
(* Theorems.                                                               *)
(***************************************************************************)
\* The strengthened invariant: what a run has read, chunked and sent.
THEOREM Invariance == Spec => []Inv
  BY InvInit, InvStep, PTL DEF Spec

\* Type correctness: in particular a reader makes at most max_retries attempts
\* at each branch.
THEOREM Typed == Spec => []TypeOK
<1>1. Inv => TypeOK
  BY DEF Inv
<1> QED
  BY <1>1, Invariance, PTL

\* Whatever runs overlap or fail, a vector of GitHub or Elasticsearch has its
\* content in PostgreSQL, where the extraction will look for it.
THEOREM ContentIsStored == Spec => []VectorsHaveContent
<1>1. Inv => VectorsHaveContent
  BY DEF Inv, VectorsHaveContent, HasContent
<1> QED
  BY <1>1, Invariance, PTL

\* Every chunk of what a run has read is in Qdrant once all have been sent.
LEMMA IndexedIfInv == Inv => DoneIsIndexed
<1> SUFFICES ASSUME Inv, NEW r \in Runs, pc[r] = "done", IsDownload(r),
                    NEW i \in 1 .. Len(Docs(r))
             PROVE  /\ IsStored(r) => rows[Docs(r)[i].text] # NoRow
                    /\ \A k \in 1 .. ChunkCount[Docs(r)[i].text] : Chunk(r, i, k) \in points
  BY DEF DoneIsIndexed
<1>1. Loaded(r) /\ PlaceInv(r) /\ ChunkInv(r)
  BY DEF Inv, RunInv, Loaded
<1>2. at[r] = Len(Docs(r)) /\ sent[r] = Len(chunks[r])
  BY <1>1 DEF PlaceInv
<1>3. ReadInv(r, i)
  BY <1>1, <1>2 DEF ChunkInv
<1>4. \A j \in 1 .. Len(chunks[r]) : chunks[r][j] \in points
  BY <1>1, <1>2 DEF ChunkInv
<1> QED
  BY <1>3, <1>4 DEF ReadInv

\* A document command that reports success has stored what it stores, and has
\* every chunk of every document in Qdrant, however its batches fell.
THEOREM Indexing == Spec => []DoneIsIndexed
  BY IndexedIfInv, Invariance, PTL
=============================================================================
