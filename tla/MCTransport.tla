---------------------------- MODULE MCTransport ----------------------------
\* Transport on small transfers.
EXTENDS Transport

\* Requests the file can fill.
MCRequests == 1..FILE_PACKETS
\* Requests of nothing and requests that end beyond the file as well.
MCAllRequests == 0..(FILE_PACKETS + 1)

MCAllFaults == {"lose", "duplicate", "delay"}
MCDuplicates == {"duplicate"}
MCLosses == {"lose"}
MCDelays == {"delay"}

============================================================================
