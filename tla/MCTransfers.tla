----------------------------- MODULE MCTransfers -----------------------------
EXTENDS Transfers

\* The second upload is shorter than the file it may replace.
UploadSizes == [k \in 0 .. MaxTransfers |-> IF k = 2 THEN 1 ELSE 2]
==============================================================================
