--------------------------- MODULE MCNativeTransfer ---------------------------
\* The native half of the texture copies on a small instance of every backend.
\* wait_idle of Metal and updates on one family with two queues are left out
\* (Idlers, Updaters): the code does not order what they would need (README).
EXTENDS NativeTransfer
=============================================================================
