---------------------------- MODULE MCKnowledgeApi ----------------------------
\* A small instance of KnowledgeApi for TLC.
EXTENDS KnowledgeApi, TLC

Text(source, length) == [source |-> source, length |-> length]
Ask(kind, documents) == [kind |-> kind, documents |-> documents, size |-> 200]

\* An empty text, one of a chunk and one of three; two documents of one source.
MCAsks ==
    {Ask("upsert", <<Text("s", 0)>>), Ask("upsert", <<Text("s", 500)>>),
     Ask("ingest", <<Text("s", 150), Text("s", 150)>>), Ask("delete", <<Text("s", 0)>>)}

Symmetry == Permutations(Ops)
=============================================================================
