---------------------- MODULE MCMemoryGenerationQueue ----------------------
\* A small instance of MemoryGenerationQueue for TLC.
EXTENDS MemoryGenerationQueue
=============================================================================
