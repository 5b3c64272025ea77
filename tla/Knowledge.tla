------------------------------- MODULE Knowledge -------------------------------
(***************************************************************************)
(* The knowledge base: httpx/knowledge_handlers.go over store/knowledge.go.*)
(*                                                                         *)
(* A document is written in three steps, each committed by itself: its     *)
(* text, its embedding by the AI service, its chunks.  A rebuild lists the *)
(* benchmark runs, writes them one after the other, then lists and writes  *)
(* incidents, configurations and training jobs, all of which go on         *)
(* changing.  Rows of the second list that it fails to read are left out,  *)
(* and the rebuild answers as if there were none.  A text is the number of *)
(* a state of what it describes.                                           *)
(***************************************************************************)
EXTENDS Naturals, Sequences, SequencesExt, FiniteSets

CONSTANTS
  BenchDocs,   \* documents of benchmark runs, in the order they are listed
  OtherDocs,   \* documents of incidents, configurations and training jobs
  Manual,      \* documents that clients write
  Writers,     \* requests
  KbVersions,  \* versions a client may name
  Default,     \* "default"
  MaxText,     \* bound on the texts of a document
  KbFaults     \* which of "ai", "db", "leaves" may strike

Derived == ToSet(BenchDocs) \cup ToSet(OtherDocs)
Docs    == Derived \cup Manual
NoText  == 0

ASSUME KnowledgeAssumption ==
  /\ Derived \cap Manual = {} /\ Default \in KbVersions /\ MaxText \in Nat \ {0}
  /\ BenchDocs \in Seq(Docs) \ {<<>>} /\ OtherDocs \in Seq(Docs) \ {<<>>}
  /\ ToSet(BenchDocs) \cap ToSet(OtherDocs) = {}

VARIABLES
  source,     \* state of the row each derived document describes
  content,    \* kb_documents.content, NoText while there is no row
  docVersion, \* kb_documents.version
  chunks,     \* kb_chunks
  wAt,        \* how far each request is
  todo,       \* documents it has yet to write
  seen,       \* chunks its DELETE found
  began,      \* source when it began; what it writes by hand
  missed,     \* history: documents whose row it has not read
  mixed,      \* history: requests that overlapped one on the same documents
  dirty       \* history: documents whose last write was mixed or broke off

kbVars == <<source, content, docVersion, chunks, wAt, todo, seen, began, missed, mixed, dirty>>

Chunk == [doc : Docs, version : KbVersions, text : 1..MaxText, by : Writers]
Writing == {"embed", "delete", "insert"}

KbTypeOK ==
  /\ source \in [Derived -> 1..MaxText]
  /\ content \in [Docs -> NoText..MaxText]
  /\ docVersion \in [Docs -> KbVersions]
  /\ chunks \subseteq Chunk
  /\ wAt \in [Writers -> {"idle", "upsert", "others", "done", "failed"} \cup Writing]
  /\ \A w \in Writers : seen[w] \subseteq Chunk
  /\ missed \in [Writers -> SUBSET Derived]
  /\ mixed \subseteq Writers /\ dirty \subseteq Docs

KbInit ==
  /\ source = [d \in Derived |-> 1]
  /\ content = [d \in Docs |-> NoText]
  /\ docVersion = [d \in Docs |-> Default]
  /\ chunks = {}
  /\ wAt = [w \in Writers |-> "idle"]
  /\ todo = [w \in Writers |-> <<>>]
  /\ seen = [w \in Writers |-> {}]
  /\ began = [w \in Writers |-> [d \in {} |-> NoText]]
  /\ missed = [w \in Writers |-> {}]
  /\ mixed = {} /\ dirty = {}

\* A benchmark ends, an incident is resolved, a configuration is published.
SourceChanges(d) ==
  /\ source[d] < MaxText
  /\ source' = [source EXCEPT ![d] = @ + 1]
  /\ UNCHANGED <<content, docVersion, chunks, wAt, todo, seen, began, missed, mixed, dirty>>

Active == {w \in Writers : wAt[w] \notin {"idle", "done", "failed"}}
WGoto(w, s) == wAt' = [wAt EXCEPT ![w] = s]

Listed(ds) == [i \in DOMAIN ds |-> [doc |-> ds[i], version |-> Default, text |-> source[ds[i]]]]

\* A request begins: those that have documents in common with it are mixed.
Begin(w, docs, known) ==
  /\ began' = [began EXCEPT ![w] = known]
  /\ LET others == {v \in Active : DOMAIN began[v] \cap docs # {}} IN
       mixed' = mixed \cup others \cup {x \in {w} : others # {}}

\* rebuildKnowledgeIndex: the benchmark runs are read at once.
RebuildBegin(w) ==
  /\ wAt[w] = "idle"
  /\ todo' = [todo EXCEPT ![w] = Listed(BenchDocs)]
  /\ WGoto(w, "upsert")
  /\ Begin(w, Derived, source)
  /\ UNCHANGED <<source, content, docVersion, chunks, seen, missed, dirty>>

\* The lists that are left of one when some of its rows are not read.
PartsOf(ds) ==
  {s \in SeqOf(ToSet(ds), Len(ds)) :
     \E f \in [DOMAIN s -> DOMAIN ds] :
       \A i \in DOMAIN s : s[i] = ds[f[i]] /\ \A j \in DOMAIN s : i < j => f[i] < f[j]}

\* indexOperationalKnowledge: the other rows are read when the runs are written.  An
\* error on the training jobs, or of a list that breaks off, is not looked at.
RebuildListOthers(w) ==
  /\ wAt[w] = "others"
  /\ \E ds \in {OtherDocs} \cup {s \in PartsOf(OtherDocs) : KbFaults \cap {"db", "leaves"} # {}} :
       /\ todo' = [todo EXCEPT ![w] = Listed(ds)]
       /\ missed' = [missed EXCEPT ![w] = @ \cup (ToSet(OtherDocs) \ ToSet(ds))]
       /\ WGoto(w, IF ds = <<>> THEN "done" ELSE "upsert")
  /\ UNCHANGED <<source, content, docVersion, chunks, seen, began, mixed, dirty>>

\* createKnowledgeDocument.
ManualBegin(w, d, v, x) ==
  /\ wAt[w] = "idle"
  /\ todo' = [todo EXCEPT ![w] = <<[doc |-> d, version |-> v, text |-> x]>>]
  /\ WGoto(w, "upsert")
  /\ Begin(w, {d}, [e \in {d} |-> x])
  /\ UNCHANGED <<source, content, docVersion, chunks, seen, missed, dirty>>

Item(w) == Head(todo[w])

\* UpsertDocument: by doc_id, whatever version the row had.
UpsertDocument(w) ==
  /\ wAt[w] = "upsert"
  /\ content' = [content EXCEPT ![Item(w).doc] = Item(w).text]
  /\ docVersion' = [docVersion EXCEPT ![Item(w).doc] = Item(w).version]
  /\ WGoto(w, "embed")
  /\ UNCHANGED <<source, chunks, todo, seen, began, missed, mixed, dirty>>

\* embedAndStore: the AI service answers.
Embed(w) ==
  /\ wAt[w] = "embed"
  /\ WGoto(w, "delete")
  /\ UNCHANGED <<source, content, docVersion, chunks, todo, seen, began, missed, mixed, dirty>>

\* ReplaceChunks: the DELETE finds what is committed when it begins, ...
DeleteChunks(w) ==
  /\ wAt[w] = "delete"
  /\ seen' = [seen EXCEPT ![w] =
       {c \in chunks : c.doc = Item(w).doc /\ c.version = Item(w).version}]
  /\ WGoto(w, "insert")
  /\ UNCHANGED <<source, content, docVersion, chunks, todo, began, missed, mixed, dirty>>

NextItem(w) ==
  /\ todo' = [todo EXCEPT ![w] = Tail(@)]
  /\ seen' = [seen EXCEPT ![w] = {}]
  /\ WGoto(w, CASE Len(todo[w]) > 1 -> "upsert"
                [] Len(todo[w]) = 1 /\ Item(w).doc = Last(BenchDocs) -> "others"
                [] OTHER -> "done")
  /\ began' = IF Item(w).doc \in Manual THEN [began EXCEPT ![w] = [d \in {} |-> NoText]] ELSE began

Row(w) == [doc |-> Item(w).doc, version |-> Item(w).version, text |-> Item(w).text, by |-> w]

\* Mutant: the new chunk is added to the old ones.
InsertChunksOnly(w) ==
  /\ wAt[w] = "insert"
  /\ chunks' = chunks \cup {Row(w)}
  /\ dirty' = IF w \in mixed THEN dirty \cup {Item(w).doc} ELSE dirty \ {Item(w).doc}
  /\ NextItem(w)
  /\ UNCHANGED <<source, content, docVersion, missed, mixed>>

\* ... and the new chunk is committed with it.
InsertChunks(w) ==
  /\ wAt[w] = "insert"
  /\ chunks' = (chunks \ seen[w]) \cup {Row(w)}
  /\ dirty' = IF w \in mixed THEN dirty \cup {Item(w).doc} ELSE dirty \ {Item(w).doc}
  /\ NextItem(w)
  /\ UNCHANGED <<source, content, docVersion, missed, mixed>>

\* An error of the AI service or the database, or a client that has gone, ends the
\* request where it is; what it has written stays.
WriteFails(w) ==
  /\ \/ KbFaults \cap {"db", "leaves"} # {} /\ wAt[w] \in Writing \cup {"upsert", "others"}
     \/ "ai" \in KbFaults /\ wAt[w] = "embed"
  /\ dirty' = IF wAt[w] \in Writing THEN dirty \cup {Item(w).doc} ELSE dirty
  /\ WGoto(w, "failed")
  /\ todo' = [todo EXCEPT ![w] = <<>>] /\ seen' = [seen EXCEPT ![w] = {}]
  /\ began' = [began EXCEPT ![w] = [d \in {} |-> NoText]]
  /\ UNCHANGED <<source, content, docVersion, chunks, missed, mixed>>

KbNext ==
  \/ \E d \in Derived : SourceChanges(d)
  \/ \E w \in Writers :
       \/ RebuildBegin(w) \/ RebuildListOthers(w)
       \/ \E d \in Manual, v \in KbVersions, x \in 1..MaxText : ManualBegin(w, d, v, x)
       \/ UpsertDocument(w) \/ Embed(w) \/ DeleteChunks(w) \/ InsertChunks(w) \/ WriteFails(w)

KbSpec == KbInit /\ [][KbNext]_kbVars

--------------------------------------------------------------------------------
\* A document at rest is found by its text and by nothing else of its version,
\* unless its last write broke off or overlapped another: a write that is left
\* alone mends whatever was there.
IndexFollowsText ==
  \A d \in Docs \ dirty :
    content[d] # NoText /\ (\A w \in Writers : wAt[w] \in Writing => Item(w).doc # d)
      => LET found == {c \in chunks : c.doc = d /\ c.version = docVersion[d]} IN
           Cardinality(found) = 1 /\ \A c \in found : c.text = content[d]

\* When a rebuild has answered "rebuilt", every document whose row it has read is at
\* least as recent as the row was when it began; two at a time may leave the older
\* text, and a row that was not read leaves what there was, if anything.
RebuildIsCurrent ==
  \A w \in Writers \ mixed : wAt[w] = "done" =>
    \A d \in (DOMAIN began[w] \cap Derived) \ missed[w] :
      content[d] >= began[w][d] /\ (d \notin dirty => \E c \in chunks : c.doc = d /\ c.text >= began[w][d])

\* Rows and chunks belong together after single writes and after rebuilds.
IndexInv == IndexFollowsText /\ RebuildIsCurrent
================================================================================
