-------------------------- MODULE MCLossyTransport --------------------------
\* LossyTransport on small transfers: requests shorter than, equal to and
\* longer than the file, and the empty request.
EXTENDS LossyTransport

MCRequests == 0..(FILE_PACKETS + 1)

============================================================================
