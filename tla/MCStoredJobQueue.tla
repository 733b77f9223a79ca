-------------------------- MODULE MCStoredJobQueue --------------------------
\* A small instance of StoredJobQueue for TLC; the values are in the .cfg file.
EXTENDS StoredJobQueue
=============================================================================
