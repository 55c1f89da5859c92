--------------------------- MODULE MCAudioCapture ---------------------------
\* AudioCapture on a small instance.
EXTENDS AudioCapture

CONSTANT microphone
=============================================================================
