--------------------------- MODULE MCSampleBuffers ---------------------------
EXTENDS SampleBuffers
=============================================================================
