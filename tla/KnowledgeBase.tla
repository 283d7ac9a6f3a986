--------------------------- MODULE KnowledgeBase ---------------------------
(***************************************************************************)
(* The knowledge base behind the kb_answer tool: the files of data/, their *)
(* ingestion (app/rag/ingest.py, scripts/ingest_kb.py), and a question     *)
(* that is answered while an ingestion may be running                      *)
(* (app/rag/retriever.py, app/api/rag.py, _kb_answer of                    *)
(* app/agent/pipeline.py).                                                 *)
(*                                                                         *)
(* A question is three statements, each with a snapshot of its own (READ   *)
(* COMMITTED): the dense search, the full-text search, and the rows of the *)
(* fused ids.  Only the first two look at the visibility of a source.  An  *)
(* ingestion is one transaction over all files and one step: what it       *)
(* writes is seen when it commits, nobody else writes what it reads (one   *)
(* ingestion runs at a time, started by hand), and when a file, the        *)
(* embedder or the process fails, nothing has happened.                    *)
(*                                                                         *)
(* The checksum of a body is the body.  A row of kb_chunk is identified by *)
(* its source, its ordinal and the version of the source it was inserted   *)
(* for, as each version gets new ids.  Versions that no row and no         *)
(* question holds are used again.  The role of a source filters like its   *)
(* visibility, and is left out; so are the documents of candidates.        *)
(***************************************************************************)
EXTENDS Integers, Sequences, FiniteSets, FiniteSetsExt

CONSTANTS
  Uri,       \* the paths of the files
  Body,      \* bodies of files
  Declared,  \* Declared[b]: the visibilities a file with body b may declare
  Text,      \* texts of chunks
  Chunks,    \* Chunks[b]: chunk_markdown(b), the texts of b in order
  Near,      \* the texts whose similarity to the question is at least rag_min_score
  Version,   \* places for versions: one stored, two found by a question, a new one
  TopK, FinalK  \* settings.rag_top_k, settings.rag_final_k

Visibility == {"candidate", "internal"}

ASSUME DeclaredAssumption == Declared \in [Body -> (SUBSET Visibility) \ {{}}]
ASSUME BodyAssumption == "none" \notin Body
ASSUME ChunksAssumption == Chunks \in [Body -> Seq(Text) \ {<<>>}]
ASSUME VersionAssumption == Cardinality(Version) >= 4
ASSUME LimitsAssumption == {TopK, FinalK} \subseteq Nat \ {0}

VARIABLES
  source,  \* source[u]: the kb_source row of uri u
  chunk,   \* the kb_chunk rows
  asked    \* the question being answered

vars == <<source, chunk, asked>>

-----------------------------------------------------------------------------
File == UNION {[body : {b}, visibility : Declared[b]] : b \in Body}
NoFile == [body |-> "none", visibility |-> "none"]

Source == [checksum : Body, visibility : Visibility, version : Version]
NoSource == [checksum |-> "none", visibility |-> "none"]

\* body is no column: with the ordinal it stands for content and embedding
Chunk == [uri : Uri, ordinal : Nat, version : Version, body : Body]
Id(c) == <<c.uri, c.ordinal, c.version>>
IsNear(c) == Chunks[c.body][c.ordinal + 1] \in Near

\* what a search returns (RetrievedChunk)
Results == SUBSET Chunk

Question == [phase : {"none", "dense", "sparse", "context", "answered", "escalated", "blank"},
             dense : SUBSET Chunk, sparse : SUBSET Chunk, context : Results]
NoQuestion == [phase |-> "none", dense |-> {}, sparse |-> {}, context |-> {}]

Init ==
  /\ source = [u \in Uri |-> NoSource]
  /\ chunk = {}
  /\ asked = NoQuestion

-----------------------------------------------------------------------------
(***************************************************************************)
(* Ingestion.                                                              *)
(***************************************************************************)
\* the checksum covers the body, not the front matter
Unchanged(u, f) == source[u].checksum = f.body

\* new rows get new ids
Held == chunk \cup asked.dense \cup asked.sparse \cup asked.context
VersionKept(u) ==  \* mutant: the rows of a changed file are updated in place
  IF source[u] = NoSource THEN CHOOSE v \in Version : TRUE ELSE source[u].version
NextVersion(u) == CHOOSE v \in Version : \A c \in Held : c.uri = u => c.version # v

\* mutant: ON CONFLICT (source_id, ordinal) DO UPDATE instead of DELETE
SurvivorsOfUpsert(changed, read) ==
  {c \in chunk : c.uri \in changed => c.ordinal >= Len(Chunks[read[c.uri].body])}
Survivors(changed, read) == {c \in chunk : c.uri \notin changed}

NewChunks(u, f) ==
  {[uri |-> u, ordinal |-> i - 1, version |-> NextVersion(u), body |-> f.body] :
     i \in DOMAIN Chunks[f.body]}
NewSource(u, f) ==
  [checksum |-> f.body, visibility |-> f.visibility, version |-> NextVersion(u)]

\* what rglob finds: files are added, edited and removed at any time, so that every file is
\* any file, or none
AllFiles == [Uri -> File \cup {NoFile}]

\* the rows of a file that is gone stay as they are
Changed(reindex, read) ==
  {u \in Uri : read[u] # NoFile /\ (reindex \/ ~Unchanged(u, read[u]))}

Ingest(reindex) ==
  \E read \in AllFiles :
    LET changed == Changed(reindex, read) IN
    /\ chunk' = Survivors(changed, read) \cup UNION {NewChunks(u, read[u]) : u \in changed}
    /\ source' = [u \in Uri |-> IF u \in changed THEN NewSource(u, read[u]) ELSE source[u]]
    /\ UNCHANGED asked

Ingesting == \E reindex \in BOOLEAN : Ingest(reindex)

-----------------------------------------------------------------------------
(***************************************************************************)
(* A question.                                                             *)
(***************************************************************************)
VisibleToCandidates(c) == source[c.uri].visibility = "candidate"

\* at most TopK visible rows: the vector index is approximate, the words may not match
Hits == {cs \in SUBSET {c \in chunk : VisibleToCandidates(c)} : Cardinality(cs) <= TopK}

DenseSearch ==
  /\ asked.phase = "none"
  /\ \E cs \in Hits : asked' = [asked EXCEPT !.phase = "dense", !.dense = cs]
  /\ UNCHANGED <<source, chunk>>

SparseSearch ==
  /\ asked.phase = "dense"
  /\ \E cs \in Hits : asked' = [asked EXCEPT !.phase = "sparse", !.sparse = cs]
  /\ UNCHANGED <<source, chunk>>

\* _rrf and the cut at final_k.  For ranks up to 60, 1/(60+r) + 1/(60+s) > 1/(60+t): what
\* both searches found comes before what one of them found.
Fused ==
  LET found == asked.dense \cup asked.sparse
      both == asked.dense \cap asked.sparse
  IN {top \in SUBSET found :
        /\ Cardinality(top) = Min({FinalK, Cardinality(found)})
        /\ both \subseteq top \/ top \subseteq both}

\* _assemble: the rows of the ids, as they are now; a row that is gone is left out
AssembledFromSearch(top) == top  \* mutant: contents are kept from the searches
Assembled(top) == {c \in chunk : \E t \in top : Id(t) = Id(c)}

Assemble ==
  /\ asked.phase = "sparse"
  /\ \E top \in Fused :
       asked' = [asked EXCEPT !.phase = "context", !.sparse = {}, !.context = Assembled(top)]
  /\ UNCHANGED <<source, chunk>>

\* The best similarity of the context.  _assemble takes it by id from what the dense search
\* saw (sim_by_id), not from the content it reads, and it is 0 for what only the words found.
BestIsNear == \E c \in asked.context : \E d \in asked.dense : Id(d) = Id(c) /\ IsNear(d)

\* The LLM answers, or fails: the tool call then gets an error, and the handler passes on
\* an empty answer.
Generated == {"answered", "blank"}

Answer ==
  /\ asked.phase = "context"
  /\ \E outcome \in IF BestIsNear THEN Generated ELSE {"escalated"} :
       asked' = [NoQuestion EXCEPT !.phase = outcome, !.context = asked.context]
  /\ UNCHANGED <<source, chunk>>

\* /rag/kb/search returns the context itself
ReturnResults ==
  /\ asked.phase = "context"
  /\ asked' = NoQuestion
  /\ UNCHANGED <<source, chunk>>

NextQuestion ==
  /\ asked.phase \in {"answered", "escalated", "blank"}
  /\ asked' = NoQuestion
  /\ UNCHANGED <<source, chunk>>

-----------------------------------------------------------------------------
Asking == DenseSearch \/ SparseSearch \/ Assemble \/ Answer \/ ReturnResults \/ NextQuestion

Next == Ingesting \/ Asking

Spec == Init /\ [][Next]_vars
-----------------------------------------------------------------------------
(***************************************************************************)
(* Properties.                                                             *)
(***************************************************************************)

\* The values every variable takes.
TypeOK ==
  /\ source \in [Uri -> Source \cup {NoSource}]
  /\ chunk \subseteq Chunk
  /\ asked \in Question

\* The rows of a source are the chunks of the body its checksum names, each ordinal once
\* (the unique constraint on source_id and ordinal), whatever was ingested before.
ChunksMatchSource ==
  \A u \in Uri :
    LET own == {c \in chunk : c.uri = u} IN
    IF source[u] = NoSource THEN own = {}
    ELSE /\ \A c \in own : c.body = source[u].checksum
         /\ {c.ordinal : c \in own} = 0..Len(Chunks[source[u].checksum]) - 1
         /\ Cardinality(own) = Len(Chunks[source[u].checksum])

\* No row of a source that is internal gets into a context, although the statement that reads
\* the contents does not ask for the visibility, and an ingestion may have made the source
\* internal since the searches ("internal sources ... are never returned to the
\* candidate-facing kb_answer tool").
InternalHidden ==
  [][asked.phase = "sparse" /\ asked'.phase = "context"
       => \A c \in asked'.context : VisibleToCandidates(c)]_vars

\* The context of an answer never mixes two versions of a file.
OneVersion ==
  \A c, d \in asked.context : c.uri = d.uri => c.version = d.version /\ c.body = d.body

\* The LLM is asked to answer only when a text that it is given is near the question,
\* although the handler judges by similarities the search recorded and the texts are read
\* later, when an ingestion may have replaced them (kb_answer: "Escalates when context is
\* weak").
Grounded == asked.phase \in {"answered", "blank"} => \E c \in asked.context : IsNear(c)

=============================================================================
