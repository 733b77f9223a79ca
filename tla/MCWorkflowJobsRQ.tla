-------------------------- MODULE MCWorkflowJobsRQ --------------------------
\* A small instance of WorkflowJobsRQ for TLC; the values are in the .cfg file.
EXTENDS WorkflowJobsRQ
=============================================================================
