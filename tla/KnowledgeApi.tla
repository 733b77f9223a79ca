----------------------------- MODULE KnowledgeApi -----------------------------
(***************************************************************************)
(* The knowledge endpoints behind the request middleware: the sliding      *)
(* window of InMemoryRateLimiter, and RagService over its Chroma           *)
(* collection.                                                             *)
(*                                                                         *)
(* The middleware runs on the event loop and calls the limiter without an  *)
(* await, so a check is one step; the handlers run in threads, and every   *)
(* call of RagService to the collection is a step of its own, which may    *)
(* raise.  RagService has no lock.  Time passes in ticks, TicksPerSecond   *)
(* to a second: the limiter computes with fractions of a second and tells  *)
(* the client whole ones.  A text counts by its length.                    *)
(***************************************************************************)
EXTENDS Integers, Sequences, FiniteSets, FiniteSetsExt

CONSTANTS
    Ops,             \* requests that change the collection, each in a thread
    Clients,         \* identities: a digest of an API key, or an address
    Sources,         \* what a document names as its source
    Asks,            \* what such a request may ask: [kind, documents, size],
                     \* a document being its source and the length of its text
    MaxRequests,     \* rate_limit_requests
    Window,          \* rate_limit_window_seconds, in ticks
    TicksPerSecond,
    MinOverlap, MaxOverlap  \* the bounds of a chunk's overlap: 20 and 120

ASSUME KnowledgeAssumption ==
    /\ MaxRequests \in Nat \ {0} /\ TicksPerSecond \in Nat \ {0}
    /\ Window \in Nat \ {0} /\ Window % TicksPerSecond = 0
    /\ MinOverlap \in Nat \ {0} /\ MaxOverlap \in Nat \ {0}
    /\ Asks \subseteq [kind : {"ingest", "upsert", "delete"}, size : Nat,
                       documents : Seq([source : Sources, length : Nat])]
    /\ \A k \in Asks : /\ k.size > MaxOverlap /\ k.size > MinOverlap
                       /\ k.kind # "ingest" => Len(k.documents) = 1

VARIABLES
    bucket,   \* of a client: the ages of its admitted requests, oldest first
    recent,   \* history: the ages of the last MaxRequests + 1 admitted ones
    told,     \* history: the ticks a refused client has still to wait; Free if
              \* it was not refused, or something of it admitted since
    pc,       \* where each request is
    asked,    \* what it asks
    versions, \* the versions it has read for its documents
    existing, \* the records it has read
    stored,   \* the collection: a record for the chunks of one document
    reply,    \* "none", "ok" or "error"
    before    \* history: the requests that had ended when it came

limiter == <<bucket, recent, told>>
handlers == <<pc, asked, versions, existing, reply, before>>
vars == <<limiter, handlers, stored>>

Free == -1
Nothing == [kind |-> "none", documents |-> <<>>, size |-> 0]

Chunk(start, end) == [start |-> start, end |-> end]

\* The chunks of one document, with what their metadata say of it.
Record == [op : Ops, index : Nat \ {0}, source : Sources, version : Nat \ {0},
           length : Nat \ {0}, chunks : Seq([start : Nat, end : Nat])]

TypeOK ==
    /\ bucket \in [Clients -> Seq(0 .. Window)]
    /\ recent \in [Clients -> Seq(0 .. Window)]
    /\ told \in [Clients -> Nat \cup {Free}]
    /\ pc \in [Ops -> {"out", "versions", "get", "delete", "add", "done"}]
    /\ asked \in [Ops -> Asks \cup {Nothing}]
    /\ versions \in [Ops -> Seq(Nat \ {0})]
    /\ existing \in [Ops -> SUBSET Record]
    /\ stored \in SUBSET Record /\ IsFiniteSet(stored)
    /\ reply \in [Ops -> {"none", "ok", "error"}]
    /\ before \in [Ops -> SUBSET Ops]

Least(m, n) == IF m < n THEN m ELSE n
Greatest(m, n) == IF m > n THEN m ELSE n

Init ==
    /\ bucket = [c \in Clients |-> <<>>]
    /\ recent = [c \in Clients |-> <<>>]
    /\ told = [c \in Clients |-> Free]
    /\ pc = [o \in Ops |-> "out"]
    /\ asked = [o \in Ops |-> Nothing]
    /\ versions = [o \in Ops |-> <<>>]
    /\ existing = [o \in Ops |-> {}]
    /\ stored = {}
    /\ reply = [o \in Ops |-> "none"]
    /\ before = [o \in Ops |-> {}]

-----------------------------------------------------------------------------
(* InMemoryRateLimiter.check *)

\* How many requests are popped: the loop stops at one younger than a window;
\* one of exactly a window is popped.
Popped(ages) ==
    CHOOSE n \in 0 .. Len(ages) :
        /\ \A i \in 1 .. n : ages[i] >= Window
        /\ n < Len(ages) => ages[n + 1] < Window

\* What the loop leaves of the bucket.
Pruned(ages) == SubSeq(ages, Popped(ages) + 1, Len(ages))

Admitted(c) == Len(Pruned(bucket[c])) < MaxRequests

\* A faulty variant: rounded down, at least one second.
RetryRoundedDown(ages) ==
    Greatest((Window - ages[1]) \div TicksPerSecond, 1)

\* max(ceil(window - age of the oldest), 1), in seconds
RetryAfter(ages) ==
    Greatest((Window - ages[1] + TicksPerSecond - 1) \div TicksPerSecond, 1)

\* True: the time of the request is kept; what the client was told is void.
Admit(c) ==
    /\ Admitted(c)
    /\ bucket' = [bucket EXCEPT ![c] = Append(Pruned(@), 0)]
    /\ recent' = [recent EXCEPT ![c] =
                     IF Len(@) > MaxRequests THEN Append(Tail(@), 0) ELSE Append(@, 0)]
    /\ told' = [told EXCEPT ![c] = Free]

\* False, with the seconds to wait: 429 with Retry-After.
Refuse(c) ==
    /\ ~Admitted(c)
    /\ bucket' = [bucket EXCEPT ![c] = Pruned(@)]
    /\ told' = [told EXCEPT ![c] = RetryAfter(Pruned(bucket[c])) * TicksPerSecond]
    /\ UNCHANGED <<recent, handlers, stored>>

\* A request that reads: list_documents, search, or another endpoint.
Query(c) == Admit(c) /\ UNCHANGED <<handlers, stored>>

\* An age counts up to Window.
Older(ages) == [i \in DOMAIN ages |-> Least(ages[i] + 1, Window)]

Tick ==
    /\ bucket' = [c \in Clients |-> Older(bucket[c])]
    /\ recent' = [c \in Clients |-> Older(recent[c])]
    /\ told' = [c \in Clients |-> IF told[c] > 0 THEN told[c] - 1 ELSE told[c]]
    /\ UNCHANGED <<handlers, stored>>

-----------------------------------------------------------------------------
(* RagService *)

Overlap(size) == Least(MaxOverlap, Greatest(MinOverlap, size \div 8))

\* A faulty variant: the next chunk starts an overlap behind the end.
ChunksApart(length, size) ==
    LET step == size + MinOverlap
    IN  [i \in 1 .. (length + step - 1) \div step |->
            Chunk((i - 1) * step, Least((i - 1) * step + size, length))]

\* _chunk_text: pieces of the given size, each starting an overlap before the
\* end of the one before it.  They are bounds in the text: blanks at the edges of
\* a piece, which the code strips, and pieces of nothing else are not told apart.
Chunks(length, size) ==
    IF length <= size
    THEN IF length = 0 THEN <<>> ELSE <<Chunk(0, length)>>
    ELSE LET from[start \in 0 .. length] ==
                LET end == Least(start + size, length)
                IN  IF end = length THEN <<Chunk(start, end)>>
                    ELSE <<Chunk(start, end)>> \o from[end - Overlap(size)]
         IN  from[0]

\* collection.get(where={"source": source})
Of(source) == {d \in stored : d.source = source}

NextVersion(records) ==
    IF records = {} THEN 1 ELSE Max({d.version : d \in records}) + 1

\* What an add stores of a document: nothing of an empty one.
Records(o, i, version) ==
    LET document == asked[o].documents[i]
        chunks == Chunks(document.length, asked[o].size)
    IN  IF chunks = <<>> THEN {}
        ELSE {[op |-> o, index |-> i, source |-> document.source, version |-> version,
               length |-> document.length, chunks |-> chunks]}

Source(o) == asked[o].documents[1].source

Ends(o, how) ==
    /\ pc' = [pc EXCEPT ![o] = "done"]
    /\ reply' = [reply EXCEPT ![o] = how]

\* A request that the middleware lets through to its handler.
Receive(o, c) ==
    /\ pc[o] = "out" /\ Admit(c)
    /\ \E ask \in Asks :
          /\ asked' = [asked EXCEPT ![o] = ask]
          /\ pc' = [pc EXCEPT ![o] = IF ask.kind = "ingest" THEN "versions" ELSE "get"]
    /\ before' = [before EXCEPT ![o] = {p \in Ops : pc[p] = "done"}]
    /\ UNCHANGED <<versions, existing, stored, reply>>

\* ingest_documents: the version of one document after the other, ...
IngestRead(o) ==
    /\ pc[o] = "versions" /\ Len(versions[o]) < Len(asked[o].documents)
    /\ LET source == asked[o].documents[Len(versions[o]) + 1].source
       IN  versions' = [versions EXCEPT ![o] = Append(@, NextVersion(Of(source)))]
    /\ UNCHANGED <<limiter, pc, asked, existing, stored, reply, before>>

\* ... then one add for all of them.
IngestAdd(o) ==
    /\ pc[o] = "versions" /\ Len(versions[o]) = Len(asked[o].documents)
    /\ stored' = stored \cup
          UNION {Records(o, i, versions[o][i]) : i \in DOMAIN versions[o]}
    /\ Ends(o, "ok")
    /\ UNCHANGED <<limiter, asked, versions, existing, before>>

\* _delete_existing_for_update: the chunks of the source, and the version after
\* theirs; no call to delete where there are none.
ReadExisting(o) ==
    /\ pc[o] = "get"
    /\ existing' = [existing EXCEPT ![o] = Of(Source(o))]
    /\ versions' = [versions EXCEPT ![o] = <<NextVersion(Of(Source(o)))>>]
    /\ IF Of(Source(o)) # {}
       THEN pc' = [pc EXCEPT ![o] = "delete"] /\ UNCHANGED reply
       ELSE IF asked[o].kind = "upsert"
       THEN pc' = [pc EXCEPT ![o] = "add"] /\ UNCHANGED reply
       ELSE Ends(o, "ok")
    /\ UNCHANGED <<limiter, asked, stored, before>>

\* A faulty variant: only the chunks of the latest version are deleted.
DeleteLatest(o) ==
    /\ pc[o] = "delete"
    /\ stored' = {d \in stored : ~(d \in existing[o] /\ d.version + 1 = versions[o][1])}
    /\ IF asked[o].kind = "upsert"
       THEN pc' = [pc EXCEPT ![o] = "add"] /\ UNCHANGED reply
       ELSE Ends(o, "ok")
    /\ UNCHANGED <<limiter, asked, versions, existing, before>>

\* By the ids that were read, whatever has come since.
DeleteExisting(o) ==
    /\ pc[o] = "delete"
    /\ stored' = stored \ existing[o]
    /\ IF asked[o].kind = "upsert"
       THEN pc' = [pc EXCEPT ![o] = "add"] /\ UNCHANGED reply
       ELSE Ends(o, "ok")
    /\ UNCHANGED <<limiter, asked, versions, existing, before>>

\* A faulty variant: nothing is added where nothing was replaced.
AddIfReplaced(o) ==
    /\ pc[o] = "add"
    /\ stored' = stored \cup (IF existing[o] = {} THEN {} ELSE Records(o, 1, versions[o][1]))
    /\ Ends(o, "ok")
    /\ UNCHANGED <<limiter, asked, versions, existing, before>>

\* _add_document_chunks
AddDocument(o) ==
    /\ pc[o] = "add"
    /\ stored' = stored \cup Records(o, 1, versions[o][1])
    /\ Ends(o, "ok")
    /\ UNCHANGED <<limiter, asked, versions, existing, before>>

\* The collection, or the embedding of the chunks, raises: 500.
Fail(o) ==
    /\ pc[o] \notin {"out", "done"} /\ Ends(o, "error")
    /\ UNCHANGED <<limiter, asked, versions, existing, stored, before>>

Handle(o) ==
    \/ IngestRead(o) \/ IngestAdd(o)
    \/ ReadExisting(o) \/ DeleteExisting(o) \/ AddDocument(o)
    \/ Fail(o)

Next ==
    \/ \E c \in Clients : Query(c) \/ Refuse(c) \/ \E o \in Ops : Receive(o, c)
    \/ \E o \in Ops : Handle(o)
    \/ Tick

Spec == Init /\ [][Next]_vars

-----------------------------------------------------------------------------
\* Of the admitted requests of an identity, each is a window older than the one
\* rate_limit_requests after it, whenever its bucket was last pruned; and
\* Retry-After is right to the second: a client that waits so long is admitted,
\* if nothing of its identity was admitted meanwhile, and none is while a whole
\* second of it is left.
LimitHolds ==
    \A c \in Clients :
        /\ Len(recent[c]) > MaxRequests => recent[c][1] >= Window
        /\ told[c] = 0 => Admitted(c)
        /\ told[c] >= TicksPerSecond => ~Admitted(c)

\* However the requests overlap, a successful upsert or delete leaves nothing of
\* its source from requests that had ended before it came, and of two documents
\* of one source the one whose request came after the other's end has the higher
\* version.  Old and new chunks mix only where requests overlap (upsert_document).
LaterRequestsWin ==
    /\ \A o \in Ops :
          reply[o] = "ok" /\ asked[o].kind \in {"upsert", "delete"} =>
              \A d \in Of(Source(o)) : d.op \notin before[o]
    /\ \A d, e \in stored :
          d.source = e.source /\ d.op \in before[e.op] => d.version < e.version

\* p may have left its source empty: a delete, or an upsert that is between its
\* delete and its add, failed there, or had an empty text.
MayEmpty(p, source) ==
    /\ asked[p].kind \in {"delete", "upsert"} /\ Source(p) = source
    /\ \/ pc[p] = "add"
       \/ pc[p] = "done" /\ \/ asked[p].kind = "delete" \/ reply[p] = "error"
                            \/ asked[p].documents[1].length = 0

\* A text that a request was told is stored does not leave its source empty but
\* by a request that had not ended when it came: never by the requests' order
\* alone (upsert_document deletes by the ids it has read).
LossHasCause ==
    \A o \in Ops : \A i \in DOMAIN asked[o].documents :
        LET document == asked[o].documents[i]
        IN  /\ reply[o] = "ok" /\ asked[o].kind # "delete"
            /\ document.length > 0 /\ Of(document.source) = {}
            => \E p \in Ops \ before[o] : MayEmpty(p, document.source)

\* The chunks of a document are all of its text: in order, none longer than
\* asked, each overlapping the one before it and reaching beyond it (_chunk_text).
ChunksCoverTexts ==
    \A d \in stored :
        /\ d.chunks[1].start = 0 /\ d.chunks[Len(d.chunks)].end = d.length
        /\ \A i \in DOMAIN d.chunks :
              /\ d.chunks[i].end - d.chunks[i].start \in 1 .. asked[d.op].size
              /\ i > 1 => /\ d.chunks[i].start < d.chunks[i - 1].end
                          /\ d.chunks[i].end > d.chunks[i - 1].end
=============================================================================
