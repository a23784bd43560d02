----------------------------- MODULE MCKernel -----------------------------
\* Small instances of the kernel for TLC.
EXTENDS Kernel
=============================================================================
