------------------------ MODULE KnowledgeBaseProofs ------------------------
(***************************************************************************)
(* Proofs about KnowledgeBase, for any files, bodies and chunkings, any    *)
(* question and any limits of the searches.                                *)
(*                                                                         *)
(* The heart of the invariant is SourceInv: the rows of a source are those *)
(* of one version of one body, the ones its kb_source row names.  What the *)
(* searches found may be gone when the contents are read, but a row that   *)
(* still has its id is a row of the version that was found, because an     *)
(* ingestion never takes an id somebody holds (FreshVersion).              *)
(***************************************************************************)
EXTENDS KnowledgeBase, FiniteSetTheorems, TLAPS

Own(u) == {c \in chunk : c.uri = u}
Rows(u, b, v) ==
  {[uri |-> u, ordinal |-> i - 1, version |-> v, body |-> b] : i \in DOMAIN Chunks[b]}

SourceInv ==
  \A u \in Uri :
    IF source[u] = NoSource THEN Own(u) = {}
    ELSE Own(u) = Rows(u, source[u].checksum, source[u].version)

\* rows of one file are rows of one version of it: what one snapshot shows
OneEach(rows) == \A c, d \in rows : c.uri = d.uri => c.version = d.version

\* a row that has the id of one the dense search found has its text, and its similarity
SameText ==
  \A c \in chunk \cup asked.context, d \in asked.dense :
    c.uri = d.uri /\ c.version = d.version => c.body = d.body

AskedInv ==
  /\ OneEach(asked.dense) /\ OneEach(asked.sparse)
  /\ OneVersion
  /\ SameText
  /\ asked.phase \in {"none", "dense", "sparse"} => asked.context = {}
  /\ asked.phase \notin {"dense", "sparse"} => asked.sparse = {}

KInv == TypeOK /\ SourceInv /\ AskedInv

-----------------------------------------------------------------------------
LEMMA ChunkIndices ==
  ASSUME NEW b \in Body
  PROVE  /\ Len(Chunks[b]) \in Nat \ {0} /\ DOMAIN Chunks[b] = 1..Len(Chunks[b])
         /\ \A i \in DOMAIN Chunks[b] : i - 1 \in Nat
<1>1. Chunks[b] \in Seq(Text) /\ Chunks[b] # <<>>
  BY ChunksAssumption
<1>2. Len(Chunks[b]) \in Nat /\ DOMAIN Chunks[b] = 1..Len(Chunks[b])
  BY <1>1
<1>3. Len(Chunks[b]) # 0
  BY <1>1
<1>4. QED
  BY <1>2, <1>3

LEMMA NoSourceApart == NoSource \notin Source
  BY BodyAssumption DEF NoSource, Source

\* The rows of one file at one moment are rows of one version and one body.
LEMMA OwnOne ==
  ASSUME KInv
  PROVE  /\ \A c \in chunk : source[c.uri] # NoSource
         /\ \A c \in chunk : c.version = source[c.uri].version /\ c.body = source[c.uri].checksum
<1> SUFFICES ASSUME NEW c \in chunk
             PROVE  /\ source[c.uri] # NoSource
                    /\ c.version = source[c.uri].version /\ c.body = source[c.uri].checksum
  OBVIOUS
<1>1. c \in Chunk /\ c.uri \in Uri
  BY DEF KInv, TypeOK, Chunk
<1>2. c \in Own(c.uri)
  BY DEF Own
<1>3. source[c.uri] # NoSource
  BY <1>1, <1>2 DEF KInv, SourceInv
<1>4. c \in Rows(c.uri, source[c.uri].checksum, source[c.uri].version)
  BY <1>1, <1>2, <1>3 DEF KInv, SourceInv
<1>5. QED
  BY <1>3, <1>4 DEF Rows

\* Three snapshots hold at most three versions of a file, so that there is a fourth.
LEMMA FreshVersion ==
  ASSUME KInv, NEW u \in Uri
  PROVE  /\ NextVersion(u) \in Version
         /\ \A c \in Held : c.uri = u => c.version # NextVersion(u)
<1>1. PICK v1 : \A c \in chunk : c.uri = u => c.version = v1
  <2>1. \A c \in chunk : c.uri = u => c.version = source[u].version
    BY OwnOne
  <2>2. QED
    BY <2>1
<1>2. ASSUME NEW rows, OneEach(rows) PROVE \E v : \A c \in rows : c.uri = u => c.version = v
  <2>1. CASE \E c \in rows : c.uri = u
    <3>1. PICK c \in rows : c.uri = u
      BY <2>1
    <3>2. \A d \in rows : d.uri = u => d.version = c.version
      BY <1>2, <3>1 DEF OneEach
    <3>3. QED
      BY <3>2
  <2>2. CASE ~\E c \in rows : c.uri = u
    BY <2>2
  <2>3. QED
    BY <2>1, <2>2
<1>3. PICK v2 : \A c \in asked.dense : c.uri = u => c.version = v2
  BY <1>2 DEF KInv, AskedInv
<1>4. PICK v3 : \A c \in asked.sparse \cup asked.context : c.uri = u => c.version = v3
  <2>1. OneEach(asked.sparse) /\ OneEach(asked.context)
    BY DEF KInv, AskedInv, OneVersion, OneEach
  <2>2. CASE asked.sparse = {}
    BY <1>2, <2>1, <2>2
  <2>3. CASE asked.context = {}
    BY <1>2, <2>1, <2>3
  <2>4. QED
    BY <2>2, <2>3 DEF KInv, AskedInv
<1>5. \E v \in Version : v \notin {v1, v2, v3}
  <2> SUFFICES ASSUME Version \subseteq {v1, v2, v3} PROVE FALSE
    OBVIOUS
  <2>1. IsFiniteSet({v1}) /\ Cardinality({v1}) = 1
    BY FS_Singleton
  <2>2. IsFiniteSet({v1, v2}) /\ Cardinality({v1, v2}) \in 0..2
    <3>1. IsFiniteSet({v1} \cup {v2})
          /\ Cardinality({v1} \cup {v2}) =
               IF v2 \in {v1} THEN Cardinality({v1}) ELSE Cardinality({v1}) + 1
      BY <2>1, FS_AddElement, Zenon
    <3>2. {v1} \cup {v2} = {v1, v2}
      OBVIOUS
    <3>3. QED
      BY <2>1, <3>1, <3>2
  <2>3. IsFiniteSet({v1, v2, v3}) /\ Cardinality({v1, v2, v3}) \in 0..3
    <3>1. IsFiniteSet({v1, v2} \cup {v3})
          /\ Cardinality({v1, v2} \cup {v3}) =
               IF v3 \in {v1, v2} THEN Cardinality({v1, v2}) ELSE Cardinality({v1, v2}) + 1
      BY <2>2, FS_AddElement, Zenon
    <3>2. {v1, v2} \cup {v3} = {v1, v2, v3}
      OBVIOUS
    <3>3. QED
      BY <2>2, <3>1, <3>2
  <2>4. Cardinality(Version) <= Cardinality({v1, v2, v3}) /\ Cardinality(Version) \in Nat
    BY <2>3, FS_Subset, FS_CardinalityType
  <2>5. QED
    BY <2>3, <2>4, VersionAssumption
<1>6. PICK v \in Version : \A c \in Held : c.uri = u => c.version # v
  BY <1>1, <1>3, <1>4, <1>5 DEF Held
<1>7. QED
  BY <1>6 DEF NextVersion

-----------------------------------------------------------------------------
LEMMA InitK == Init => KInv
<1> SUFFICES ASSUME Init PROVE KInv
  OBVIOUS
<1>1. TypeOK
  BY DEF Init, TypeOK, NoQuestion, Question, Results
<1>2. SourceInv
  BY DEF Init, SourceInv, Own
<1>3. AskedInv
  BY DEF Init, AskedInv, NoQuestion, OneEach, OneVersion, SameText
<1>4. QED
  BY <1>1, <1>2, <1>3 DEF KInv

\* What a search or an assembly takes from the table is well typed, and one version per file.
LEMMA OneSnapshot ==
  ASSUME KInv, NEW rows, rows \subseteq chunk
  PROVE  /\ rows \subseteq Chunk
         /\ OneEach(rows)
         /\ \A c, d \in rows : c.uri = d.uri => c.body = d.body
  BY OwnOne DEF KInv, TypeOK, OneEach

\* An ingestion writes what the files say: new rows of a new version where a body changed.
LEMMA IngestedRows ==
  ASSUME KInv, NEW u \in Uri, NEW f \in File
  PROVE  /\ NewChunks(u, f) = Rows(u, f.body, NextVersion(u))
         /\ NewChunks(u, f) \subseteq Chunk
         /\ NewSource(u, f) \in Source
<1>1. f.body \in Body /\ f.visibility \in Visibility
  BY DeclaredAssumption DEF File
<1>2. NextVersion(u) \in Version
  BY FreshVersion
<1>3. \A i \in DOMAIN Chunks[f.body] : i - 1 \in Nat
  BY <1>1, ChunkIndices
<1>4. NewChunks(u, f) = Rows(u, f.body, NextVersion(u))
  BY DEF NewChunks, Rows
<1>5. NewChunks(u, f) \subseteq Chunk
  BY <1>1, <1>2, <1>3 DEF NewChunks, Chunk
<1>6. NewSource(u, f) \in Source
  BY <1>1, <1>2 DEF NewSource, Source
<1>7. QED
  BY <1>4, <1>5, <1>6

LEMMA Ingested ==
  ASSUME KInv, NEW reindex \in BOOLEAN, NEW read \in AllFiles, NEW changed,
         changed = Changed(reindex, read)
  PROVE  /\ changed \subseteq Uri
         /\ \A u \in changed : read[u] \in File
         /\ \A u \in Uri \ changed : source[u] \in Source \cup {NoSource}
  BY DEF AllFiles, Changed, KInv, TypeOK

LEMMA IngestKeeps ==
  ASSUME KInv, NEW reindex \in BOOLEAN, Ingest(reindex)
  PROVE  KInv'
<1>1. PICK read \in AllFiles :
        LET changed == Changed(reindex, read) IN
        /\ chunk' = Survivors(changed, read) \cup UNION {NewChunks(u, read[u]) : u \in changed}
        /\ source' = [u \in Uri |-> IF u \in changed THEN NewSource(u, read[u]) ELSE source[u]]
        /\ UNCHANGED asked
  BY DEF Ingest
<1> DEFINE changed == Changed(reindex, read)
<1>2. /\ chunk' = Survivors(changed, read) \cup UNION {NewChunks(u, read[u]) : u \in changed}
      /\ source' = [u \in Uri |-> IF u \in changed THEN NewSource(u, read[u]) ELSE source[u]]
      /\ UNCHANGED asked
  BY <1>1
<1>3. changed \subseteq Uri /\ \A u \in changed : read[u] \in File
  BY Ingested
<1> HIDE DEF changed
<1>5. source' \in [Uri -> Source \cup {NoSource}]
  <2>1. ASSUME NEW u \in changed PROVE NewSource(u, read[u]) \in Source
    BY <1>3, IngestedRows, <2>1
  <2>2. QED
    BY <1>2, <2>1 DEF KInv, TypeOK
<1>6. \A u \in changed : NewChunks(u, read[u]) = Rows(u, read[u].body, NextVersion(u))
  BY <1>3, IngestedRows
<1>7. chunk' \subseteq Chunk
  <2>1. Survivors(changed, read) \subseteq Chunk
    BY DEF Survivors, KInv, TypeOK
  <2>2. \A u \in changed : NewChunks(u, read[u]) \subseteq Chunk
    BY <1>3, IngestedRows
  <2>3. QED
    BY <1>2, <2>1, <2>2
<1>8. TypeOK'
  BY <1>2, <1>5, <1>7 DEF KInv, TypeOK
<1>9. ASSUME NEW u \in Uri
      PROVE  /\ u \in changed =>
                  /\ source'[u] = NewSource(u, read[u]) /\ source'[u] # NoSource
                  /\ Own(u)' = Rows(u, source'[u].checksum, source'[u].version)
             /\ u \notin changed => source'[u] = source[u] /\ Own(u)' = Own(u)
  <2>1. \A w \in changed : \A c \in NewChunks(w, read[w]) : c.uri = w
    BY DEF NewChunks
  <2>2. CASE u \in changed
    <3>1. Own(u)' = NewChunks(u, read[u])
      BY <1>2, <2>1, <2>2 DEF Survivors, Own
    <3>2. source'[u] = NewSource(u, read[u])
      BY <1>2, <2>2
    <3>3. source'[u].checksum = read[u].body /\ source'[u].version = NextVersion(u)
      BY <3>2 DEF NewSource
    <3>4. source'[u] # NoSource
      BY <1>3, <2>2, <3>2, IngestedRows, NoSourceApart
    <3>5. QED
      BY <1>6, <2>2, <3>1, <3>2, <3>3, <3>4
  <2>3. CASE u \notin changed
    BY <1>2, <2>1, <2>3 DEF Survivors, Own
  <2>4. QED
    BY <2>2, <2>3
<1>10. SourceInv'
  BY <1>9 DEF KInv, SourceInv, Rows
<1>11. SameText'
  <2> SUFFICES ASSUME NEW c \in chunk' \cup asked'.context, NEW d \in asked'.dense,
                      c.uri = d.uri, c.version = d.version
               PROVE  c.body = d.body
    BY DEF SameText
  <2>1. d \in asked.dense /\ d.uri \in Uri
    BY <1>2 DEF KInv, TypeOK, Question, Chunk
  <2>2. CASE c \in asked.context \cup chunk
    BY <2>1, <2>2 DEF KInv, AskedInv, SameText
  <2>3. CASE c \notin asked.context \cup chunk
    <3>1. PICK u \in changed : c \in NewChunks(u, read[u])
      BY <1>2, <2>3 DEF Survivors
    <3>2. c.uri = u /\ c.version = NextVersion(u)
      BY <3>1 DEF NewChunks
    <3>3. d.version # NextVersion(u)
      BY <1>3, <2>1, <3>2, FreshVersion DEF Held
    <3>4. QED
      BY <3>2, <3>3
  <2>4. QED
    BY <2>2, <2>3
<1>12. AskedInv'
  BY <1>2, <1>11 DEF KInv, AskedInv, OneEach, OneVersion
<1>13. QED
  BY <1>8, <1>10, <1>12 DEF KInv

LEMMA AskingKeeps ==
  ASSUME KInv, Asking
  PROVE  KInv'
<1>1. UNCHANGED <<source, chunk>>
  BY DEF Asking, DenseSearch, SparseSearch, Assemble, Answer, ReturnResults, NextQuestion
<1>2. SourceInv'
  BY <1>1 DEF KInv, SourceInv, Own, Rows
<1>3. NoQuestion \in Question
  BY DEF NoQuestion, Question, Results
<1>4. asked \in Question
  BY DEF KInv, TypeOK
<1>5. \A cs \in Hits : cs \subseteq chunk
  BY DEF Hits
<1>6. asked' \in Question /\ AskedInv'
  <2>1. CASE DenseSearch
    <3>1. PICK cs \in Hits : asked' = [asked EXCEPT !.phase = "dense", !.dense = cs]
      BY <2>1 DEF DenseSearch
    <3>2. cs \subseteq Chunk /\ OneEach(cs)
      BY <1>5, OneSnapshot
    <3>3. asked' \in Question
      BY <1>4, <3>1, <3>2 DEF Question, Results
    <3>4. /\ asked'.phase = "dense"
          /\ asked'.dense = cs /\ asked'.sparse = {} /\ asked'.context = {}
      BY <1>4, <2>1, <3>1 DEF Question, DenseSearch, KInv, AskedInv
    <3>5. SameText'
      BY <1>1, <1>5, <3>1, <3>4, OneSnapshot DEF SameText
    <3>6. AskedInv'
      BY <3>2, <3>4, <3>5 DEF KInv, AskedInv, OneEach, OneVersion
    <3>7. QED
      BY <3>3, <3>6
  <2>2. CASE SparseSearch
    <3>1. PICK cs \in Hits : asked' = [asked EXCEPT !.phase = "sparse", !.sparse = cs]
      BY <2>2 DEF SparseSearch
    <3>2. cs \subseteq Chunk /\ OneEach(cs)
      BY <1>5, OneSnapshot
    <3>3. asked' \in Question
      BY <1>4, <3>1, <3>2 DEF Question, Results
    <3>4. /\ asked'.phase = "sparse"
          /\ asked'.dense = asked.dense /\ asked'.sparse = cs /\ asked'.context = {}
      BY <1>4, <2>2, <3>1 DEF Question, SparseSearch, KInv, AskedInv
    <3>5. SameText'
      BY <1>1, <3>4 DEF KInv, AskedInv, SameText
    <3>6. AskedInv'
      BY <3>2, <3>4, <3>5 DEF KInv, AskedInv, OneEach, OneVersion
    <3>7. QED
      BY <3>3, <3>6
  <2>3. CASE Assemble
    <3>1. PICK top \in Fused :
            asked' = [asked EXCEPT !.phase = "context", !.sparse = {}, !.context = Assembled(top)]
      BY <2>3 DEF Assemble
    <3>2. Assembled(top) \subseteq chunk
      BY DEF Assembled
    <3>3. /\ Assembled(top) \subseteq Chunk /\ OneEach(Assembled(top))
          /\ \A c, d \in Assembled(top) : c.uri = d.uri => c.body = d.body
      BY <3>2, OneSnapshot
    <3>4. asked' \in Question
      BY <1>4, <3>1, <3>3 DEF Question, Results
    <3>5. /\ asked'.phase = "context" /\ asked'.dense = asked.dense /\ asked'.sparse = {}
          /\ asked'.context = Assembled(top)
      BY <1>4, <3>1 DEF Question
    <3>6. SameText'
      BY <1>1, <3>2, <3>5 DEF KInv, AskedInv, SameText
    <3>7. AskedInv'
      BY <3>3, <3>5, <3>6 DEF KInv, AskedInv, OneEach, OneVersion
    <3>8. QED
      BY <3>4, <3>7
  <2>4. CASE Answer
    <3>1. PICK outcome \in {"answered", "blank", "escalated"} :
            asked' = [NoQuestion EXCEPT !.phase = outcome, !.context = asked.context]
      BY <2>4 DEF Answer, Generated
    <3>2. asked' \in Question
      BY <1>3, <1>4, <3>1 DEF Question, Results, NoQuestion
    <3>3. /\ asked'.phase \in {"answered", "blank", "escalated"}
          /\ asked'.dense = {} /\ asked'.sparse = {} /\ asked'.context = asked.context
      BY <3>1 DEF NoQuestion
    <3>4. AskedInv'
      BY <3>3 DEF KInv, AskedInv, OneEach, OneVersion, SameText
    <3>5. QED
      BY <3>2, <3>4
  <2>5. CASE ReturnResults \/ NextQuestion
    <3>1. asked' = NoQuestion
      BY <2>5 DEF ReturnResults, NextQuestion
    <3>2. QED
      BY <1>3, <3>1 DEF NoQuestion, AskedInv, OneEach, OneVersion, SameText
  <2>6. QED
    BY <2>1, <2>2, <2>3, <2>4, <2>5 DEF Asking
<1>7. QED
  BY <1>1, <1>2, <1>6 DEF KInv, TypeOK

LEMMA KeepsK == KInv /\ [Next]_vars => KInv'
<1> SUFFICES ASSUME KInv, [Next]_vars PROVE KInv'
  OBVIOUS
<1>1. CASE Ingesting
  BY <1>1, IngestKeeps DEF Ingesting
<1>2. CASE Asking
  BY <1>2, AskingKeeps
<1>3. CASE UNCHANGED vars
  BY <1>3 DEF vars, KInv, TypeOK, SourceInv, Own, Rows, AskedInv, OneEach, OneVersion,
             SameText
<1>4. QED
  BY <1>1, <1>2, <1>3 DEF Next

-----------------------------------------------------------------------------
\* Every variable keeps to its values: "row" never means less than a well-formed row.
THEOREM TypeCorrect == Spec => []TypeOK
<1>1. KInv => TypeOK
  BY DEF KInv
<1>2. QED
  BY InitK, KeepsK, <1>1, PTL DEF Spec

LEMMA RowsCount ==
  ASSUME NEW u, NEW b \in Body, NEW v
  PROVE  /\ {c.ordinal : c \in Rows(u, b, v)} = 0..Len(Chunks[b]) - 1
         /\ Cardinality(Rows(u, b, v)) = Len(Chunks[b])
<1> DEFINE n == Len(Chunks[b])
           row(i) == [uri |-> u, ordinal |-> i - 1, version |-> v, body |-> b]
           f == [i \in 1..n |-> row(i)]
<1>1. n \in Nat \ {0} /\ DOMAIN Chunks[b] = 1..n
  BY ChunkIndices
<1>2. Rows(u, b, v) = {row(i) : i \in 1..n}
  BY <1>1 DEF Rows
<1>3. {c.ordinal : c \in Rows(u, b, v)} = 0..n - 1
  <2>1. ASSUME NEW k \in 0..n - 1 PROVE k \in {c.ordinal : c \in Rows(u, b, v)}
    <3>1. k + 1 \in 1..n /\ row(k + 1).ordinal = k
      BY <1>1
    <3>2. row(k + 1) \in Rows(u, b, v)
      BY <1>2, <3>1
    <3>3. QED
      BY <3>1, <3>2
  <2>2. ASSUME NEW c \in Rows(u, b, v) PROVE c.ordinal \in 0..n - 1
    <3>1. PICK i \in 1..n : c = row(i)
      BY <1>2
    <3>2. c.ordinal = i - 1
      BY <3>1
    <3>3. QED
      BY <1>1, <3>2
  <2>3. QED
    BY <2>1, <2>2
<1>4. f \in Bijection(1..n, Rows(u, b, v))
  <2>1. f \in [1..n -> Rows(u, b, v)]
    BY <1>2
  <2>2. \A i, j \in 1..n : f[i] = f[j] => i = j
    <3> SUFFICES ASSUME NEW i \in 1..n, NEW j \in 1..n, f[i] = f[j] PROVE i = j
      BY Zenon
    <3>1. f[i] = row(i) /\ f[j] = row(j)
      OBVIOUS
    <3>2. i - 1 = j - 1
      BY <3>1
    <3>3. QED
      BY <3>2
  <2>3. \A c \in Rows(u, b, v) : \E i \in 1..n : f[i] = c
    BY <1>2
  <2> HIDE DEF f
  <2>4. QED
    BY <2>1, <2>2, <2>3 DEF Bijection, Injection, Surjection, IsInjective
<1>5. ExistsBijection(1..n, Rows(u, b, v))
  BY <1>4 DEF ExistsBijection
<1>6. IsFiniteSet(1..n) /\ Cardinality(1..n) = n
  BY <1>1, FS_Interval
<1>7. Cardinality(Rows(u, b, v)) = n
  <2> HIDE DEF n
  <2>1. QED
    BY <1>5, <1>6, FS_Bijection
<1>8. QED
  BY <1>3, <1>7

\* Whatever was ingested, and in whatever order, a source has the chunks of the body that
\* its checksum names: all of them, each ordinal once, and none of another body.
THEOREM ChunksAreThoseOfSource == Spec => []ChunksMatchSource
<1>1. KInv => ChunksMatchSource
  <2> SUFFICES ASSUME KInv, NEW u \in Uri
               PROVE  IF source[u] = NoSource THEN Own(u) = {}
                      ELSE /\ \A c \in Own(u) : c.body = source[u].checksum
                           /\ {c.ordinal : c \in Own(u)} = 0..Len(Chunks[source[u].checksum]) - 1
                           /\ Cardinality(Own(u)) = Len(Chunks[source[u].checksum])
    BY DEF ChunksMatchSource, Own
  <2>1. CASE source[u] = NoSource
    BY <2>1 DEF KInv, SourceInv
  <2>2. CASE source[u] # NoSource
    <3>1. source[u].checksum \in Body
      BY <2>2 DEF KInv, TypeOK, Source
    <3>2. Own(u) = Rows(u, source[u].checksum, source[u].version)
      BY <2>2 DEF KInv, SourceInv
    <3>3. \A c \in Own(u) : c.body = source[u].checksum
      BY <3>2 DEF Rows
    <3>4. /\ {c.ordinal : c \in Own(u)} = 0..Len(Chunks[source[u].checksum]) - 1
          /\ Cardinality(Own(u)) = Len(Chunks[source[u].checksum])
      BY <3>1, <3>2, RowsCount
    <3>5. QED
      BY <2>2, <3>3, <3>4, Zenon
  <2>3. QED
    BY <2>1, <2>2
<1>2. QED
  BY InitK, KeepsK, <1>1, PTL DEF Spec

\* An answer's context is of one version per file, however the ingestions fall between the
\* statements of the question.
THEOREM ContextIsOfOneVersion == Spec => []OneVersion
<1>1. KInv => OneVersion
  BY DEF KInv, AskedInv
<1>2. QED
  BY InitK, KeepsK, <1>1, PTL DEF Spec

\* The LLM is asked only when a text of its context is near the question, although what the
\* handler compares is what the search saw under the same id.
THEOREM AnswersAreGrounded == Spec => []Grounded
<1>1. Init => Grounded
  BY DEF Init, Grounded, NoQuestion
<1>2. KInv /\ Grounded /\ [Next]_vars => Grounded'
  <2> SUFFICES ASSUME KInv, Grounded, [Next]_vars PROVE Grounded'
    OBVIOUS
  <2>1. asked \in Question
    BY DEF KInv, TypeOK
  <2>2. CASE UNCHANGED asked
    BY <2>2 DEF Grounded, IsNear
  <2>3. CASE DenseSearch \/ SparseSearch \/ Assemble
    <3>1. asked'.phase \in {"dense", "sparse", "context"}
      BY <2>1, <2>3 DEF DenseSearch, SparseSearch, Assemble, Question
    <3>2. QED
      BY <3>1 DEF Grounded
  <2>4. CASE Answer
    <3>1. CASE BestIsNear
      <4>1. \E c \in asked.context : IsNear(c)
        <5>1. PICK c \in asked.context, d \in asked.dense : Id(d) = Id(c) /\ IsNear(d)
          BY <3>1 DEF BestIsNear
        <5>2. c.uri = d.uri /\ c.ordinal = d.ordinal /\ c.version = d.version
          BY <5>1 DEF Id
        <5>3. c.body = d.body
          BY <5>2 DEF KInv, AskedInv, SameText
        <5>4. QED
          BY <5>1, <5>2, <5>3 DEF IsNear
      <4>2. asked'.context = asked.context
        BY <2>4 DEF Answer, NoQuestion
      <4>3. QED
        BY <4>1, <4>2 DEF Grounded, IsNear
    <3>2. CASE ~BestIsNear
      <4>1. asked'.phase = "escalated"
        BY <2>4, <3>2 DEF Answer, NoQuestion
      <4>2. QED
        BY <4>1 DEF Grounded
    <3>3. QED
      BY <3>1, <3>2
  <2>5. CASE ReturnResults \/ NextQuestion
    BY <2>5 DEF ReturnResults, NextQuestion, NoQuestion, Grounded
  <2>6. CASE Ingesting
    <3>1. UNCHANGED asked
      BY <2>6 DEF Ingesting, Ingest
    <3>2. QED
      BY <2>2, <3>1
  <2>7. QED
    BY <2>2, <2>3, <2>4, <2>5, <2>6 DEF Next, Asking, vars
<1>3. QED
  BY InitK, KeepsK, <1>1, <1>2, PTL DEF Spec

-----------------------------------------------------------------------------
(***************************************************************************)
(* Visibility.  A source changes its visibility only together with its     *)
(* version: a row that was visible when it was found, and is there when    *)
(* the contents are read, is still of the version, and of the visibility,  *)
(* it was found with.                                                      *)
(***************************************************************************)
HiddenInv ==
  \A t \in asked.dense \cup asked.sparse :
    t.version = source[t.uri].version => source[t.uri].visibility = "candidate"

LEMMA IngestKeepsHidden ==
  ASSUME KInv, HiddenInv, Ingesting
  PROVE  HiddenInv'
<1>1. PICK reindex \in BOOLEAN, read \in AllFiles :
        LET changed == Changed(reindex, read) IN
        /\ source' = [u \in Uri |-> IF u \in changed THEN NewSource(u, read[u]) ELSE source[u]]
        /\ UNCHANGED asked
  BY DEF Ingesting, Ingest
<1> SUFFICES ASSUME NEW t \in asked.dense \cup asked.sparse, t.version = source'[t.uri].version
             PROVE  source'[t.uri].visibility = "candidate"
  BY <1>1 DEF HiddenInv
<1>2. t.uri \in Uri
  BY DEF KInv, TypeOK, Question, Chunk
<1>3. CASE t.uri \in Changed(reindex, read)
  <2>1. source'[t.uri].version = NextVersion(t.uri)
    BY <1>1, <1>2, <1>3 DEF NewSource
  <2>2. t \in Held
    BY DEF Held
  <2>3. QED
    BY <1>2, <2>1, <2>2, FreshVersion
<1>4. CASE t.uri \notin Changed(reindex, read)
  <2>1. source'[t.uri] = source[t.uri]
    BY <1>1, <1>2, <1>4
  <2>2. QED
    BY <2>1 DEF HiddenInv
<1>5. QED
  BY <1>3, <1>4

LEMMA HitsVisible ==
  ASSUME NEW cs \in Hits, NEW c \in cs
  PROVE  source[c.uri].visibility = "candidate"
  BY DEF Hits, VisibleToCandidates

LEMMA KeepsHidden == KInv /\ HiddenInv /\ [Next]_vars => HiddenInv'
<1> SUFFICES ASSUME KInv, HiddenInv, [Next]_vars PROVE HiddenInv'
  OBVIOUS
<1>1. asked \in Question
  BY DEF KInv, TypeOK
<1>2. CASE Ingesting
  BY <1>2, IngestKeepsHidden
<1>3. CASE UNCHANGED vars
  BY <1>3 DEF vars, HiddenInv
<1>4. CASE DenseSearch
  <2>1. PICK cs \in Hits : asked' = [asked EXCEPT !.phase = "dense", !.dense = cs]
    BY <1>4 DEF DenseSearch
  <2>2. asked'.dense = cs /\ asked'.sparse = asked.sparse
    BY <1>1, <2>1 DEF Question
  <2>3. UNCHANGED source
    BY <1>4 DEF DenseSearch
  <2>4. QED
    BY <2>2, <2>3, HitsVisible DEF HiddenInv
<1>5. CASE SparseSearch
  <2>1. PICK cs \in Hits : asked' = [asked EXCEPT !.phase = "sparse", !.sparse = cs]
    BY <1>5 DEF SparseSearch
  <2>2. asked'.dense = asked.dense /\ asked'.sparse = cs
    BY <1>1, <2>1 DEF Question
  <2>3. UNCHANGED source
    BY <1>5 DEF SparseSearch
  <2>4. QED
    BY <2>2, <2>3, HitsVisible DEF HiddenInv
<1>6. CASE Assemble
  <2>1. asked'.dense = asked.dense /\ asked'.sparse = {} /\ UNCHANGED source
    BY <1>1, <1>6 DEF Assemble, Question
  <2>2. QED
    BY <2>1 DEF HiddenInv
<1>7. CASE Answer
  <2>1. asked'.dense = {} /\ asked'.sparse = {} /\ UNCHANGED source
    BY <1>7 DEF Answer, NoQuestion
  <2>2. QED
    BY <2>1 DEF HiddenInv
<1>8. CASE ReturnResults \/ NextQuestion
  <2>1. asked'.dense = {} /\ asked'.sparse = {} /\ UNCHANGED source
    BY <1>8 DEF ReturnResults, NextQuestion, NoQuestion
  <2>2. QED
    BY <2>1 DEF HiddenInv
<1>9. QED
  BY <1>2, <1>3, <1>4, <1>5, <1>6, <1>7, <1>8 DEF Next, Asking

\* No row of a source that is internal gets into a context, for any files and any edits of
\* their front matter, although the statement that reads the contents does not ask.
THEOREM InternalStaysHidden == Spec => InternalHidden
<1>1. Init => HiddenInv
  BY DEF Init, HiddenInv, NoQuestion
<1>2. KInv /\ HiddenInv /\ [Next]_vars
        => (asked.phase = "sparse" /\ asked'.phase = "context"
              => \A c \in asked'.context : VisibleToCandidates(c))
  <2> SUFFICES ASSUME KInv, HiddenInv, [Next]_vars,
                      asked.phase = "sparse", asked'.phase = "context",
                      NEW c \in asked'.context
               PROVE  source[c.uri].visibility = "candidate"
    BY DEF VisibleToCandidates
  <2>1. asked \in Question
    BY DEF KInv, TypeOK
  <2>2. Assemble
    BY DEF Next, Ingesting, Ingest, Asking, DenseSearch, SparseSearch, Answer, ReturnResults,
           NextQuestion, NoQuestion, vars
  <2>3. PICK top \in Fused :
          asked' = [asked EXCEPT !.phase = "context", !.sparse = {}, !.context = Assembled(top)]
    BY <2>2 DEF Assemble
  <2>4. asked'.context = Assembled(top)
    BY <2>1, <2>3 DEF Question
  <2>5. c \in chunk /\ \E t \in top : Id(t) = Id(c)
    BY <2>4 DEF Assembled
  <2>6. PICK t \in asked.dense \cup asked.sparse : t.uri = c.uri /\ t.version = c.version
    BY <2>5 DEF Fused, Id
  <2>7. /\ source[c.uri] # NoSource /\ c.uri \in Uri
        /\ c.version = source[c.uri].version
    BY <2>5, OwnOne DEF KInv, TypeOK, Chunk
  <2>8. QED
    BY <2>6, <2>7 DEF HiddenInv
<1>3. QED
  BY InitK, KeepsK, KeepsHidden, <1>1, <1>2, PTL DEF Spec, InternalHidden

=============================================================================
