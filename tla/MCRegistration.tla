--------------------------- MODULE MCRegistration ---------------------------
\* Three unknown senders, so that approvals and their writes can overlap.
EXTENDS Registration

CONSTANTS v1, v2, v3
=============================================================================
