------------------------------- MODULE Knowledge -------------------------------
(***************************************************************************)
(* The documents a person brings: cut into passages, embedded, searched.   *)
(* One file on this machine is added, edited and added again, by the       *)
(* server and by commands beside it; each store call is a transaction.     *)
(*                                                                         *)
(* A text is a sequence of units, each marked with what it ends: nothing   *)
(* (a word), a sentence, or a paragraph and its last sentence.  Lengths    *)
(* are counted in units, and what separates them has none.                 *)
(***************************************************************************)
EXTENDS Integers, Sequences, FiniteSets, SequencesExt

CONSTANTS
  Ids,        \* document ids
  Clients,    \* what asks: the server's requests, commands beside it
  Spaces,     \* workspaces
  Versions,   \* what the file said, in the order it was edited
  Text,       \* the text of each version
  Size,       \* the length of a passage
  Overlap,    \* how much of a passage begins the next, at most half of Size
  Models, NoModel,
  MaxCalls    \* bound: operations begun, beside edits and reconfigurations

VARIABLES
  docs,       \* documents
  chunks,     \* chunks: the passages of each document and what embedded them
  file,       \* the version the file is in
  model,      \* the embedding model configured now
  op,         \* what each client is in the middle of
  begun,
  gone,       \* history: documents deleted since they were last added
  torn        \* history: of these, the ones that went between two that wrote them

vars == <<docs, chunks, file, model, op, begun, gone, torn>>

-----------------------------------------------------------------------------
(* domain/knowledge/chunking.py. *)

\* The units around one that nothing in `ends` cuts off from it.
Around(text, n, ends) ==
  {m \in DOMAIN text : \A k \in (m..n - 1) \cup (n..m - 1) : text[k].ends \notin ends}

\* _sentences, and the pieces of chunk: where each of them ends.  A paragraph longer
\* than a passage is cut on its sentences, and a sentence longer than one wherever
\* a passage is full.
Ends(text) ==
  LET Paragraph(n) == Around(text, n, {"paragraph"})
      Sentence(n) == Around(text, n, {"paragraph", "sentence"})
      Long(stretch) == Cardinality(stretch) > Size
  IN  {n \in DOMAIN text :
         \/ n = Len(text) \/ text[n].ends = "paragraph"
         \/ text[n].ends = "sentence" /\ Long(Paragraph(n))
         \/ /\ Long(Sentence(n))
            /\ Cardinality({m \in Sentence(n) : m <= n}) % Size = 0}

\* Fault: the next passage begins where this one ended.
CarriedNothing(span) == span.to + 1

\* Where the passage after this one begins: with as much of its end as is carried.
Carried(span) ==
  IF span.from + Overlap <= span.to THEN span.to + 1 - Overlap ELSE span.from

\* The piece that ends at n: into the last passage, or into one more.
Accumulate(spans, n) ==
  LET last == spans[Len(spans)]
  IN  IF last.to = 0 \/ n + 1 - last.from <= Size
        THEN [spans EXCEPT ![Len(spans)] = [from |-> last.from, to |-> n]]
        ELSE Append(spans, [from |-> Carried(last), to |-> n])

\* The passages, as the first and the last unit of each.
Accumulated(text) ==
  LET ends == Ends(text)
      upTo[n \in 0..Len(text)] ==
        IF n = 0 THEN <<[from |-> 1, to |-> 0]>>
        ELSE IF n \in ends THEN Accumulate(upTo[n - 1], n) ELSE upTo[n - 1]
  IN  upTo[Len(text)]

\* The pieces of a passage are joined by blank lines: each is a paragraph of it.
Passage(text, span, ends) ==
  [k \in 1..span.to + 1 - span.from |->
     LET n == span.from + k - 1
     IN  [unit |-> text[n].unit, ends |-> IF n \in ends THEN "paragraph" ELSE text[n].ends]]

Cut(text) ==
  LET spans == Accumulated(text)
      ends == Ends(text)
  IN  [i \in 1..Len(spans) |-> Passage(text, spans[i], ends)]

\* What reindex reads back: the passages, one after the other.
Joined(passages) == FlattenSeq(passages)

-----------------------------------------------------------------------------

NoRow == [status |-> "none", space |-> "none", of |-> "none"]
NoChunks == [passages |-> <<>>, by |-> NoModel]
Idle == [at |-> "idle"]

Init ==
  /\ docs = [d \in Ids |-> NoRow]
  /\ chunks = [d \in Ids |-> NoChunks]
  /\ file = 1 /\ model \in Models \cup {NoModel}
  /\ op = [c \in Clients |-> Idle]
  /\ begun = 0 /\ gone = {} /\ torn = {}

Saved == {d \in Ids : docs[d].status # "none"}

\* A uuid nobody has.
Fresh == {d \in Ids \ (Saved \cup gone) : \A c \in Clients : op[c].at = "idle" \/ op[c].doc # d}

ByChecksum(version, space) == {d \in Saved : docs[d].of = version /\ docs[d].space = space}

Begin(c) ==
  /\ op[c].at = "idle"
  /\ begun < MaxCalls
  /\ begun' = begun + 1

\* Text in a format the machine reads.
Extracted == Text[Versions[file]]

Goto(c, at) == op' = [op EXCEPT ![c].at = at]
Over(c) == op' = [op EXCEPT ![c] = Idle]

\* add_file, add_text: the file is read and its checksum looked for.
Add(c) ==
  /\ Begin(c)
  /\ \E space \in Spaces :
       LET same == ByChecksum(Versions[file], space)
       IN  \E d \in IF same = {} THEN Fresh ELSE same :
             op' = [op EXCEPT ![c] =
                      [at |-> "extracted", doc |-> d, space |-> space, of |-> Versions[file],
                       text |-> Extracted, model |-> model]]
  /\ UNCHANGED <<docs, chunks, file, model, gone, torn>>

\* The row is written whole, whatever it says and whether it is there or not.
Save(c, status) ==
  docs' = [docs EXCEPT ![op[c].doc] =
             [status |-> status, space |-> op[c].space, of |-> op[c].of]]

SaveExtracted(c) ==
  /\ op[c].at = "extracted"
  /\ Save(c, "EXTRACTED")
  /\ gone' = gone \ {op[c].doc} /\ torn' = torn \ {op[c].doc}
  /\ Goto(c, "index")
  /\ UNCHANGED <<chunks, file, model, begun>>

\* reindex: the row is read, then its passages.
Reindex(c) ==
  /\ Begin(c)
  /\ \E d \in Saved :
       op' = [op EXCEPT ![c] =
                [at |-> "found", doc |-> d, space |-> docs[d].space, of |-> docs[d].of,
                 text |-> <<>>, model |-> model]]
  /\ UNCHANGED <<docs, chunks, file, model, gone, torn>>

ReadPassages(c) ==
  /\ op[c].at = "found"
  /\ IF chunks[op[c].doc] = NoChunks
       THEN Over(c)
       ELSE op' = [op EXCEPT ![c].at = "index", ![c].text = Joined(chunks[op[c].doc].passages)]
  /\ UNCHANGED <<docs, chunks, file, model, begun, gone, torn>>

\* Fault: nothing refuses a passage whose document is gone.
NeverRefused(d) == TRUE

\* The foreign key of a passage.
Accepted(d) == d \in Saved

\* A server that is down, or answers with too few, embeds nothing.
Vectors(m) == {m, NoModel}

\* _index: every batch is embedded or none is; the passages are replaced in one
\* transaction, which the store refuses for a document that is no longer there.
ReplaceChunks(c) ==
  /\ op[c].at = "index"
  /\ \/ /\ Accepted(op[c].doc)
        /\ LET passages == Cut(op[c].text)
           IN  \E by \in Vectors(op[c].model) :
                 /\ chunks' = [chunks EXCEPT ![op[c].doc] = [passages |-> passages, by |-> by]]
                 /\ op' = [op EXCEPT ![c].at = "finish", ![c].model = by]
     \/ /\ ~Accepted(op[c].doc)
        /\ Over(c) /\ UNCHANGED chunks
  /\ UNCHANGED <<docs, file, model, begun, gone, torn>>

Finish(c) ==
  /\ op[c].at = "finish"
  /\ Save(c, IF op[c].model = NoModel THEN "EXTRACTED" ELSE "INDEXED")
  /\ Over(c)
  /\ UNCHANGED <<chunks, file, model, begun, gone, torn>>

\* A client is before this write of a document.
At(c, at, d) == op[c].at = at /\ op[c].doc = d

\* The passages and the row, in one transaction.
Delete(c) ==
  /\ Begin(c)
  /\ \E d \in Saved :
       /\ docs' = [docs EXCEPT ![d] = NoRow]
       /\ chunks' = [chunks EXCEPT ![d] = NoChunks]
       /\ gone' = gone \cup {d}
       /\ torn' = IF \E b, e \in Clients : At(b, "index", d) /\ At(e, "finish", d)
                    THEN torn \cup {d} ELSE torn
  /\ UNCHANGED <<file, model, op>>

-----------------------------------------------------------------------------
(* infrastructure/knowledge/retriever.py. *)

\* candidates: the passages of the workspace, with the document of each.
Candidates(space) == {d \in Saved : docs[d].space = space /\ chunks[d] # NoChunks}

\* What embedded the passages is what embeds the question.
Comparable(d) == model # NoModel /\ chunks[d].by = model

\* The semantic half compares what it can, the other may find any.  A question
\* nobody can embed is answered by the words alone.
Search(c) ==
  /\ Begin(c)
  /\ \E space \in Spaces, doc \in Ids :
       /\ doc \in Candidates(space)
       /\ \E by \in {NoModel} \cup {m \in {model} : Comparable(doc)} :
            op' = [op EXCEPT ![c] = [at |-> "answered", doc |-> doc, space |-> space, model |-> by]]
  /\ UNCHANGED <<docs, chunks, file, model, gone, torn>>

\* The passages go into a prompt, whatever became of the document since.
Quote(c) ==
  /\ op[c].at = "answered"
  /\ Over(c)
  /\ UNCHANGED <<docs, chunks, file, model, begun, gone, torn>>

-----------------------------------------------------------------------------

Edit ==
  /\ file < Len(Versions) /\ file' = file + 1
  /\ UNCHANGED <<docs, chunks, model, op, begun, gone, torn>>

\* Another model is configured, for what starts from now on.
Reconfigure ==
  /\ \E other \in Models \cup {NoModel} : other # model /\ model' = other
  /\ UNCHANGED <<docs, chunks, file, op, begun, gone, torn>>

\* The process of a client ends.
Kill(c) ==
  /\ op[c].at # "idle"
  /\ Over(c)
  /\ UNCHANGED <<docs, chunks, file, model, begun, gone, torn>>

Next ==
  \/ Edit \/ Reconfigure
  \/ \E c \in Clients :
       \/ Add(c) \/ SaveExtracted(c)
       \/ Reindex(c) \/ ReadPassages(c)
       \/ ReplaceChunks(c) \/ Finish(c)
       \/ Delete(c) \/ Search(c) \/ Quote(c) \/ Kill(c)

Spec == Init /\ [][Next]_vars

-----------------------------------------------------------------------------
(* What holds. *)

\* A document that was taken away answers nothing until it is added again, even
\* if it was being indexed when it went ("a chunk whose document is gone is
\* unreachable text that still answers queries"), by however many: unless one of
\* them had only its row to write and another had its passages.
DeletedTextIsSilent == \A space \in Spaces : Candidates(space) \cap (gone \ torn) = {}

\* The stretch that begins at unit i, as long as the overlap and one more, or up to
\* the end of the text, stands in a passage from its unit o on.
Stands(text, i, passage, o) ==
  \A k \in 0..Overlap : i + k <= Len(text) =>
    o + k <= Len(passage) /\ passage[o + k].unit = text[i + k].unit

Keeps(text, passages) ==
  \A i \in DOMAIN text : \E j \in DOMAIN passages :
    \E o \in DOMAIN passages[j] : Stands(text, i, passages[j], o)

\* Any stretch of a text that is no longer than the overlap and one unit is whole in
\* one passage, wherever its paragraphs and sentences end and however often the
\* passages were joined and cut again ("Overlap, because a fact can straddle a
\* boundary").
NothingCutOut ==
  \A d \in Saved : chunks[d] # NoChunks => Keeps(Text[docs[d].of], chunks[d].passages)

-----------------------------------------------------------------------------
(* What the code says and does not keep. *)

AtRest == \A c \in Clients : op[c].at = "idle"

\* The sentences of a text, as the first and the last unit of each.
Sentences(text) ==
  LET ends == {n \in DOMAIN text : text[n].ends \in {"sentence", "paragraph"}}
  IN  {one \in [from : DOMAIN text, to : DOMAIN text] :
         one.from - 1 \in ends \cup {0} /\ (one.from..one.to) \cap ends = {one.to}}

\* "A sentence naming the subject and the following sentence stating the number are
\* retrievable together" (chunking.py:18-20): what is carried has a length of its
\* own, and of a first sentence that is longer only the end goes with the second.
SentencesStayTogether ==
  \A d \in Saved : chunks[d] # NoChunks =>
    LET text == Text[docs[d].of]
    IN  \A one, next \in Sentences(text) :
          one.to + 1 = next.from /\ next.to + 1 - one.from <= Size =>
            \E p \in ToSet(chunks[d].passages), o \in 0..Len(text) :
              \A n \in one.from..next.to :
                n - o \in DOMAIN p /\ p[n - o].unit = text[n].unit

\* "re-adding a file after fixing a typo replaces what was indexed rather than
\* leaving both versions answering the same question" (service.py:16-18): the
\* checksum is of the text, so the text that was corrected is another document.
OneVersionOfAFile ==
  AtRest => \A space \in Spaces : \A d, e \in Candidates(space) : docs[d].of = docs[e].of

\* A document deleted between the last write of one request and the passages of
\* another has its row again when the passages come, and is answered from.
SilentForEverybody == \A space \in Spaces : Candidates(space) \cap gone = {}

\* "The same text added twice is one document": two that look before either
\* saves are two.
OneDocumentPerText ==
  \A d, e \in Saved : docs[d].of = docs[e].of /\ docs[d].space = docs[e].space => d = e

\* A document that says INDEXED has vectors: of two that index it, one replaces
\* the passages last and the other its row; and one that was deleted before its
\* last save is there again without any.
IndexedMeansEmbedded ==
  AtRest => \A d \in Saved : docs[d].status = "INDEXED" => chunks[d].by # NoModel

\* EXTRACTED is text worth keeping, which `reindex` completes: a process that
\* ends while it embeds leaves a row with no text.
ExtractedMeansStored == AtRest => \A d \in Saved : chunks[d] # NoChunks

\* Cut again, a document has the passages it had: the overlaps are joined as if
\* they were text, and each time there are more.
CutTheSame ==
  \A d \in Saved : chunks[d] # NoChunks => chunks[d].passages = Cut(Text[docs[d].of])
=============================================================================
